--------------------------- MODULE MCAegisRuntime ---------------------------
(* A small instance of AegisRuntime.  Which tier a fault has does not       *)
(* matter to what the runtime shows, so the faults are those with the      *)
(* shortest climb, from two ranks, and their layer does all a layer may.   *)
EXTENDS AegisRuntime

MCRanks == {0, 1}
MCFaults == {[signal |-> "rack_power_loss", rank |-> 0, node |-> "n0", rack |-> "rackA"],
             [signal |-> "fabric_partition", rank |-> 1, node |-> "n1", rack |-> "rackA"]}
=============================================================================
