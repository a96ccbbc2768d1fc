----------------------------- MODULE MCBenchSim -----------------------------
(* Small instances of BenchSim. *)
EXTENDS BenchSim

MCWorkloads == {W1, W2, W3}

(* A fault of each tier: the signals and racks of bench/traces.            *)
Kind(signal, rack, tier) == [signal |-> signal, rack |-> rack, tier |-> tier]
MCPool == {Kind("nic_port_flap", "rack0", B0), Kind("node_crash", "rack1", B1),
           Kind("hung_rank", "rack1", B2), Kind("node_unrecoverable", "rack1", B3),
           Kind("rack_power_loss", "rack1", B4)}

(* At a checkpoint of every workload, and before and after a restart       *)
(* begins to cost more than Tier-3 on W1.                                  *)
MCSteps == {5000, 5374, 5375}
=============================================================================
