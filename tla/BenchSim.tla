------------------------------- MODULE BenchSim -------------------------------
(***************************************************************************)
(* The benchmark simulator (bench/): every system under test replays the   *)
(* same fault trace on a workload, and its recovery times are summed into  *)
(* the savings the project reports.  Five systems are cost tables that     *)
(* fall back to checkpoint-and-restart; AEGIS is asked for real, a new     *)
(* runtime for each fault, and given 0.15 s to answer.                     *)
(*                                                                         *)
(* Times are in thirtieths of a second, in which a step of each workload   *)
(* is a whole number.  GPU hours and dollars are the time multiplied by    *)
(* constants, the same for every system, and are left out.                 *)
(***************************************************************************)
EXTENDS Integers, SequencesExt, Classifier

CONSTANTS Workloads,   \* [name, step, interval, restore]: ticks, steps, ticks
          Pool,        \* what can fail: [signal, rack, tier]
          Steps,       \* steps at which faults fall
          MaxFaults,   \* bound on the length of a trace
          TotalSteps   \* denominator of goodput

Second == 30

(* bench/workloads/configs.py. *)
W1 == [name |-> "W1", step |-> 12, interval |-> 1000, restore |-> 120 * Second]
W2 == [name |-> "W2", step |-> 25, interval |-> 500,  restore |-> 240 * Second]
W3 == [name |-> "W3", step |-> 75, interval |-> 200,  restore |-> 600 * Second]

(* bench/sim/cost_model.py, in seconds: the tiers each system handles.     *)
CostTable == [AEGIS     |-> [t \in Tiers |-> <<5, 25, 8, 55, 270>>[t + 1]],
              VANILLA   |-> << >>,
              R2CCL     |-> [t \in {B0} |-> 5],
              MECEFO    |-> [t \in {B1} |-> 30],
              TIERCHECK |-> [t \in B2..B4 |-> <<10, 60, 300>>[t - 1]],
              TORCHFT   |-> [t \in Tiers |-> <<60, 45, 90, 300, 1800>>[t + 1]]]

(* run_st3._systems.                                                       *)
Systems == <<"AEGIS", "VANILLA", "R2CCL", "MECEFO", "TIERCHECK", "TORCHFT">>

(* AegisAdapter: correlation_node_threshold; the window is longer than the *)
(* few faults of a trace take.                                             *)
Threshold == 3

(* The traces' expected_tier is the class of the signal: the fault pools   *)
(* of make_ft_poisson and make_ft_production, and the per-tier traces.     *)
ASSUME BenchAssumption ==
  /\ Workloads \subseteq {W1, W2, W3}
  /\ Pool \subseteq [signal : FaultSignal, rack : STRING, tier : Tiers]
  /\ \A f \in Pool : f.tier = Classify(f)
  /\ Steps \subseteq Nat /\ MaxFaults \in Nat /\ TotalSteps \in Nat

VARIABLES workload, trace,
          run,       \* how many systems have been started
          b1s,       \* racks of the B1s the runtime in use has seen
          outcomes   \* [system -> its RecoveryOutcomes: [ticks, tier, restart]]

benchVars == <<workload, trace, run, b1s, outcomes>>

Restart == 5         \* tier_handled = "full_restart"

(* make_ft_poisson, make_ft_burst, make_ft_production and the per-tier     *)
(* traces: any faults of the pool, in the order of their steps.            *)
FaultEvents == {[step |-> n, signal |-> f.signal, rack |-> f.rack, tier |-> f.tier] :
                  n \in Steps, f \in Pool}
Traces == {t \in BoundedSeq(FaultEvents, MaxFaults) :
             /\ t # << >>
             /\ \A i \in 1..(Len(t) - 1) : t[i].step <= t[i + 1].step}

BenchInit == /\ workload \in Workloads
             /\ trace \in Traces
             /\ run = 0
             /\ b1s = << >>
             /\ outcomes = << >>

-----------------------------------------------------------------------------
Outcome(ticks, tier, restart) == [ticks |-> ticks, tier |-> tier, restart |-> restart]

(* vanilla_rollback_secs from the last periodic checkpoint.                *)
LostSteps(f) == f.step % workload.interval
VanillaTicks(f) == LostSteps(f) * workload.step + workload.restore
VanillaFallback(f) == Outcome(VanillaTicks(f), Restart, TRUE)

(* Mutant: a tier that is not in the table costs its cheapest entry.       *)
NativeOrCheapest(s, f) ==
  LET table == CostTable[s]
      tier  == IF f.tier \in DOMAIN table THEN f.tier
               ELSE CHOOSE x \in DOMAIN table : \A y \in DOMAIN table : table[x] <= table[y]
  IN  IF DOMAIN table = {} THEN VanillaFallback(f)
      ELSE Outcome(table[tier] * Second, f.tier, FALSE)

(* The cost-table adapters: their own tiers, and a restart for the others. *)
TableOutcome(s, f) ==
  IF f.tier \in DOMAIN CostTable[s] THEN Outcome(CostTable[s][f.tier] * Second, f.tier, FALSE)
                                    ELSE VanillaFallback(f)

(* Mutant: one runtime for the whole trace.                                *)
NewRuntimeShared == b1s

(* handle_fault_async builds a runtime for each fault.                     *)
NewRuntime == << >>

(* The runtime's final tier: of the class of the signal, or B4 once its    *)
(* window holds enough B1s of the rack.  Every layer of the configured     *)
(* topology succeeds.                                                      *)
Seen(f) == IF Classify(f) = B1 THEN Append(NewRuntime, f.rack) ELSE NewRuntime
FinalTier(f) ==
  IF /\ Classify(f) = B1
     /\ Cardinality({i \in DOMAIN Seen(f) : Seen(f)[i] = f.rack}) >= Threshold
  THEN B4 ELSE Classify(f)

System     == Systems[run]
Handled(s) == s \in DOMAIN outcomes /\ Len(outcomes[s]) = Len(trace)
Running    == run > 0 /\ ~Handled(System)
Fault      == trace[Len(outcomes[System]) + 1]
Record(o)  == outcomes' = [outcomes EXCEPT ![System] = Append(@, o)]

(* SimulationEngine.run: a fault after the other.                          *)
HandleTable ==
  /\ Running /\ System # "AEGIS"
  /\ Record(TableOutcome(System, Fault))
  /\ UNCHANGED <<workload, trace, run, b1s>>

(* The audit log has the fault's record within 0.15 s...                   *)
HandleAegis ==
  /\ Running /\ System = "AEGIS"
  /\ b1s' = Seen(Fault)
  /\ Record(Outcome(CostTable["AEGIS"][FinalTier(Fault)] * Second, FinalTier(Fault), FALSE))
  /\ UNCHANGED <<workload, trace, run>>

(* ... or it has not, and the fault is scored as a restart.                *)
HandleAegisLate ==
  /\ Running /\ System = "AEGIS"
  /\ b1s' = Seen(Fault)
  /\ Record(VanillaFallback(Fault))
  /\ UNCHANGED <<workload, trace, run>>

(* run_benchmark: the next system, on the same trace.                      *)
NextSystem ==
  /\ run < Len(Systems) /\ ~Running
  /\ run' = run + 1
  /\ outcomes' = [s \in DOMAIN outcomes \cup {Systems[run + 1]} |->
                    IF s \in DOMAIN outcomes THEN outcomes[s] ELSE << >>]
  /\ b1s' = << >>
  /\ UNCHANGED <<workload, trace>>

BenchNext == NextSystem \/ HandleTable \/ HandleAegis \/ HandleAegisLate

BenchSpec == BenchInit /\ [][BenchNext]_benchVars

-----------------------------------------------------------------------------
(* SimulationResult and compute_savings_vs_baseline: the recovery times    *)
(* are summed over the faults in order.                                    *)
RunningTotal(s) ==
  LET total[n \in 0..Len(outcomes[s])] ==
        IF n = 0 THEN 0 ELSE total[n - 1] + outcomes[s][n].ticks
  IN  total
TotalTicks(s) == RunningTotal(s)[Len(outcomes[s])]
ProductiveTicks(s) == LET left == TotalSteps * workload.step - TotalTicks(s)
                      IN  IF left > 0 THEN left ELSE 0
Saved(s, baseline) == TotalTicks(baseline) - TotalTicks(s)

Late == "AEGIS" \in DOMAIN outcomes
        /\ \E i \in DOMAIN outcomes["AEGIS"] : outcomes["AEGIS"][i].restart

(* Each fault AEGIS answers in time is recovered at the tier its trace     *)
(* says, whatever faults came before it: a trace is replayed the same by   *)
(* every system and on every repeat (per_tier.py, AegisAdapter).           *)
AtExpectedTier ==
  \A s \in DOMAIN outcomes : \A i \in DOMAIN outcomes[s] :
    outcomes[s][i].restart \/ outcomes[s][i].tier = trace[i].tier

(* The composition claim of test_bt2_composition_claim.py, on every trace: *)
(* no system has recovered in less time than AEGIS, nor has more goodput,  *)
(* unless an answer was late or the trace holds a rack fault so soon after *)
(* a checkpoint that restarting costs less than Tier-3.                    *)
CheapRestart(f) == f.tier = B4 /\ VanillaTicks(f) < CostTable["AEGIS"][B4] * Second
CompositionWins ==
  \A s \in DOMAIN outcomes :
    /\ Handled(s) /\ Handled("AEGIS") /\ ~Late
    /\ \A i \in DOMAIN trace : ~CheapRestart(trace[i])
    => Saved("AEGIS", s) >= 0 /\ ProductiveTicks("AEGIS") >= ProductiveTicks(s)
=============================================================================
