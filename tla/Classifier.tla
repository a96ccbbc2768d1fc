----------------------------- MODULE Classifier -----------------------------
(* aegis/telemetry/events.py and the rule table of                         *)
(* aegis/classifier/classifier.py: the blast radius of each fault signal.  *)
EXTENDS Naturals

B0 == 0
B1 == 1
B2 == 2
B3 == 3
B4 == 4
Tiers == B0..B4

TierOf == [nic_port_flap |-> B0, link_fluctuation |-> B0, rdma_timeout |-> B0,
           gpu_fell_off_bus |-> B1, node_crash |-> B1, oom_killed_rank |-> B1,
           cuda_kernel_crash |-> B2, runtime_bug |-> B2, hung_rank |-> B2, unknown |-> B2,
           node_unrecoverable |-> B3,
           rack_power_loss |-> B4, fabric_partition |-> B4, cluster_wide_outage |-> B4]

FaultSignal == DOMAIN TierOf

Classify(e) == TierOf[e.signal]
=============================================================================
