------------------------- MODULE MCEscalationEngine -------------------------
(* Small instances of EscalationEngine. *)
EXTENDS EscalationEngine, TLC

HandlerSymmetry == Permutations(Handlers)

MCRanks == {0, 1}
MCNodes == {"n0", "n1"}
MCRacks == {"rackA"}

Fault(signal, rank, node, rack) ==
  [signal |-> signal, rank |-> rank, node |-> node, rack |-> rack]

(* A transport, a node and a rack fault, and node failures in a rack and
   in none, from two ranks. *)
RoutingFaults == {Fault("nic_port_flap", 0, "n0", "rackA"),
                  Fault("node_crash", 1, "n1", "rackA"),
                  Fault("oom_killed_rank", 0, "n0", NoRack),
                  Fault("node_unrecoverable", 1, "n1", "rackA")}
=============================================================================
