----------------------------- MODULE Supervision -----------------------------
(***************************************************************************)
(* Who owns the processes of the real-cluster harness.  Phase 0            *)
(* (run_phase0.py) starts each sub-run under torchrun in a session of its  *)
(* own; phase 1 (report_phase1.py) starts the ranks of each condition      *)
(* itself, with a GPU sampler beside them.  All of them use the same GPUs, *)
(* one per local rank, one launch after another: what a launch leaves      *)
(* behind is what the next one finds.  The launcher itself may be killed,  *)
(* at any moment, and run again.                                           *)
(*                                                                         *)
(* TrainingRun models what happens inside one launch.                      *)
(***************************************************************************)
EXTENDS Naturals, FiniteSets, Sequences

CONSTANTS Ranks,       \* local ranks: rank r uses GPU r of the node
          MaxLaunches, \* bound: sub-runs and conditions started
          MaxKilled,   \* bound: launchers that end without their finally
          MaxStuck,    \* bound: ranks stuck in a driver call together
          Reuse        \* a launcher may be run again on the same --out

Phase0 == {"control", "aegis"}         \* CONDITIONS of run_phase0.py
Phase1 == {"b1"}                       \* no_ft and aegis of report_phase1.py, launched alike

ASSUME SupervisionAssumption == MaxLaunches \in Nat /\ MaxKilled \in Nat /\ MaxStuck \in Nat
                                /\ Reuse \in BOOLEAN

VARIABLES launches,   \* each launch: [condition, dir, pc]
          rank,       \* [launch -> [Ranks -> what the process is doing]]
          condemned,  \* <<launch, rank>>: SIGKILL sent, not yet dead
          sampler,    \* launches whose sampler runs
          adopted,    \* launches whose sampler runs on under init
          stopFile,   \* directories with a GPU_SAMPLER_STOP
          stepLog,    \* directories with a step_log.jsonl
          orphans,    \* history: <<launch, rank>> that held no GPU when their launcher died
          crashed     \* history: the last launch's sampler ended by an error of its own

vars == <<launches, rank, condemned, sampler, adopted, stopFile, stepLog, orphans, crashed>>

Launches == 1..MaxLaunches
Last     == Len(launches)

Init == /\ launches = << >>
        /\ rank = [k \in Launches |-> [r \in Ranks |-> "none"]]
        /\ condemned = {} /\ sampler = {} /\ adopted = {}
        /\ stopFile = {} /\ stepLog = {}
        /\ orphans = {} /\ crashed = FALSE

Live(k)  == {r \in Ranks : rank[k][r] \notin {"none", "gone"}}
HoldsGpu(k, r) == rank[k][r] \in {"training", "stuck"}
Pc(k, l) == k = Last /\ launches[k].pc = l
Goto(k, l) == launches' = [launches EXCEPT ![k].pc = l]
Become(k, r, s) == rank' = [rank EXCEPT ![k][r] = s]

(* SIGTERM: a rank stuck in a CUDA driver call outlives it.  SIGKILL: that *)
(* rank dies too, but only once the call returns.                          *)
Stuck(k)      == {r \in Ranks : rank[k][r] = "stuck"}
Terminated(k) == [r \in Ranks |-> IF r \in Live(k) \ Stuck(k) THEN "gone" ELSE rank[k][r]]
SigTerm(k)    == rank' = [rank EXCEPT ![k] = Terminated(k)]
SigKill(k)    == SigTerm(k) /\ condemned' = condemned \cup ({k} \X Stuck(k))

-----------------------------------------------------------------------------
(* Starting a launch.  A launcher starts one after another; a new launcher *)
(* is started when the last one has ended, in a fresh directory by default *)
(* (the sbatch scripts name it after the job).                             *)
Idle == \A k \in 1..Last : launches[k].pc \in {"returned", "raised", "killed"}

Dirs(c) == {Last + 1} \cup IF Reuse THEN {launches[k].dir : k \in {j \in 1..Last : launches[j].condition = c}}
                                    ELSE {}

Begin(c, pc, spawned) ==
  /\ Idle
  /\ Last < MaxLaunches
  /\ \E d \in Dirs(c) : launches' = Append(launches, [condition |-> c, dir |-> d, pc |-> pc])
  /\ rank' = [rank EXCEPT ![Last + 1] = [r \in Ranks |-> IF r \in spawned THEN "boot" ELSE "none"]]
  /\ crashed' = FALSE
  /\ UNCHANGED <<condemned, sampler, adopted, stopFile, stepLog, orphans>>

MayBreak == Cardinality({k \in 1..Last : launches[k].pc \in {"raised", "killed"}}) < MaxKilled

(* run_phase0: Popen of torchrun, which starts every rank.                 *)
StartPhase0(c) == c \in Phase0 /\ Begin(c, "waiting", Ranks)

(* run_condition: launch_rank_processes.  The gate of phase 0 comes first  *)
(* unless --skip-gate goes past it, and is left out.                       *)
StartPhase1(c) == c \in Phase1 /\ Begin(c, "startup", Ranks)

(* It starts the ranks before the try: an error in between (no process, no *)
(* space for a log file) reaches no finally.                               *)
LaunchRaises(c) ==
  /\ c \in Phase1 /\ MayBreak
  /\ \E spawned \in (SUBSET Ranks) \ {Ranks} : Begin(c, "raised", spawned)

-----------------------------------------------------------------------------
(* A rank: w1_llama7b.main up to the training loop.                        *)

(* Mutant: the GPU is not looked at before the model is built.             *)
PreflightUnchecked(k, r) ==
  /\ rank[k][r] = "boot"
  /\ Become(k, r, "joining")
  /\ UNCHANGED <<launches, condemned, sampler, adopted, stopFile, stepLog, orphans, crashed>>

(* _preflight_gpu_check: with the memory of another model on the GPU the   *)
(* rank raises, before the rendezvous.                                     *)
Preflight(k, r) ==
  /\ rank[k][r] = "boot"
  /\ Become(k, r, IF \E j \in Launches : HoldsGpu(j, r) THEN "gone" ELSE "joining")
  /\ UNCHANGED <<launches, condemned, sampler, adopted, stopFile, stepLog, orphans, crashed>>

(* init_process_group returns once every rank has called it; the models    *)
(* are then built, and rank 0 opens the step log.                          *)
Train(k) ==
  /\ \A r \in Ranks : rank[k][r] = "joining"
  /\ rank' = [rank EXCEPT ![k] = [r \in Ranks |-> "training"]]
  /\ stepLog' = stepLog \cup {launches[k].dir}
  /\ UNCHANGED <<launches, condemned, sampler, adopted, stopFile, orphans, crashed>>

Wedge(k, r) ==
  /\ rank[k][r] = "training"
  /\ Cardinality(UNION {{j} \X Stuck(j) : j \in Launches}) < MaxStuck
  /\ Become(k, r, "stuck")
  /\ UNCHANGED <<launches, condemned, sampler, adopted, stopFile, stepLog, orphans, crashed>>

(* The rank finishes, raises, is killed by the injector, runs into the     *)
(* rendezvous or collective timeout, or comes out of its driver call.      *)
Exit(k, r) ==
  /\ rank[k][r] \in {"joining", "training", "stuck"}
  /\ Become(k, r, "gone")
  /\ condemned' = condemned \ {<<k, r>>}
  /\ UNCHANGED <<launches, sampler, adopted, stopFile, stepLog, orphans, crashed>>

-----------------------------------------------------------------------------
(* Phase 0: torchrun and _run_and_reap.                                    *)

(* The elastic agent (external) SIGTERMs the ranks left when one has       *)
(* ended, and may return while one is stuck.                               *)
AgentSweeps(k) ==
  /\ launches[k].condition \in Phase0
  /\ \E r \in Ranks : rank[k][r] = "gone"
  /\ Live(k) # {}
  /\ SigTerm(k)
  /\ UNCHANGED <<launches, condemned, sampler, adopted, stopFile, stepLog, orphans, crashed>>

(* wait() returns or times out; either way the group is sent SIGKILL, and  *)
(* nobody waits for it to die.                                             *)
RunAndReap(k) ==
  /\ Pc(k, "waiting") /\ launches[k].condition \in Phase0
  /\ SigKill(k)
  /\ Goto(k, "returned")
  /\ UNCHANGED <<sampler, adopted, stopFile, stepLog, orphans, crashed>>

-----------------------------------------------------------------------------
(* Phase 1: run_condition.                                                 *)

(* The step log exists (one of an earlier run will do), or the startup     *)
(* deadline is over, at any moment: the sampler and the injector start all *)
(* the same.                                                               *)
StartSampler(k) ==
  /\ Pc(k, "startup")
  /\ sampler' = sampler \cup {k}
  /\ Goto(k, "watching")
  /\ UNCHANGED <<rank, condemned, adopted, stopFile, stepLog, orphans, crashed>>

(* Every rank has exited before writing a step log: sys.exit.              *)
StartupFails(k) ==
  /\ Pc(k, "startup")
  /\ Live(k) = {}
  /\ Goto(k, "finally")
  /\ UNCHANGED <<rank, condemned, sampler, adopted, stopFile, stepLog, orphans, crashed>>

(* The ranks have exited, or the deadline has passed and those left are    *)
(* killed; the sampler is told to stop.                                    *)
RanksOver(k) ==
  /\ Pc(k, "watching")
  /\ SigKill(k)
  /\ stopFile' = stopFile \cup {launches[k].dir}
  /\ Goto(k, "finally")
  /\ UNCHANGED <<sampler, adopted, stepLog, orphans, crashed>>

(* An exception in the try, before any of that.                            *)
Raise(k) ==
  /\ launches[k].condition \in Phase1
  /\ Pc(k, "startup") \/ Pc(k, "watching")
  /\ Goto(k, "finally")
  /\ UNCHANGED <<rank, condemned, sampler, adopted, stopFile, stepLog, orphans, crashed>>

(* Mutant: SIGTERM and no SIGKILL.                                         *)
FinallyTerminates(k) ==
  /\ Pc(k, "finally")
  /\ stopFile' = stopFile \cup {launches[k].dir}
  /\ SigTerm(k)
  /\ sampler' = sampler \ {k}
  /\ Goto(k, "returned")
  /\ UNCHANGED <<condemned, adopted, stepLog, orphans, crashed>>

(* finally: touch the stop file and _terminate_all; the sampler ends by    *)
(* itself or by SIGTERM.                                                   *)
Finally(k) ==
  /\ Pc(k, "finally")
  /\ stopFile' = stopFile \cup {launches[k].dir}
  /\ SigKill(k)
  /\ sampler' = sampler \ {k}
  /\ Goto(k, "returned")
  /\ UNCHANGED <<adopted, stepLog, orphans, crashed>>

-----------------------------------------------------------------------------
(* The launcher is killed by SIGKILL: no finally runs.  Its children go to *)
(* init, or to a subreaper such as the job's step daemon.                  *)
LauncherKilled(k) ==
  /\ k = Last /\ launches[k].pc \notin {"returned", "raised", "killed"}
  /\ MayBreak
  /\ Goto(k, "killed")
  /\ adopted' \in {adopted, adopted \cup ({k} \cap sampler)}
  /\ orphans' = orphans \cup ({k} \X {r \in Live(k) : ~HoldsGpu(k, r)})
  /\ UNCHANGED <<rank, condemned, sampler, stopFile, stepLog, crashed>>

(* Mutant: the sampler looks at its parent only.                           *)
MustStopAdopted(k) == launches[k].dir \in stopFile \/ k \in adopted

(* Mutant: one stop file for all conditions, in --out.                     *)
MustStopShared(k) == \/ stopFile # {}
                     \/ launches[k].pc \in {"killed", "raised"}
                     \/ k \in adopted

(* gpu_sampler.run: the stop file, the launcher's pid, then the parent.    *)
MustStop(k) == \/ launches[k].dir \in stopFile
               \/ launches[k].pc \in {"killed", "raised"}
               \/ k \in adopted
SamplerExits(k) ==
  /\ k \in sampler
  /\ MustStop(k)
  /\ sampler' = sampler \ {k}
  /\ adopted' = adopted \ {k}
  /\ UNCHANGED <<launches, rank, condemned, stopFile, stepLog, orphans, crashed>>

(* gpu_sampler.run catches a missing, failing or hung nvidia-smi and no    *)
(* other error: a field that is no number, a line of another length or a   *)
(* log it cannot append to ends the sampler, and nobody looks.             *)
SamplerCrashes(k) ==
  /\ k \in sampler
  /\ sampler' = sampler \ {k}
  /\ adopted' = adopted \ {k}
  /\ crashed' = (crashed \/ k = Last)
  /\ UNCHANGED <<launches, rank, condemned, stopFile, stepLog, orphans>>

-----------------------------------------------------------------------------
LaunchStep(k) == \/ RunAndReap(k) \/ StartSampler(k) \/ StartupFails(k)
                 \/ RanksOver(k) \/ Raise(k) \/ Finally(k)

Next == \/ \E c \in Phase0 : StartPhase0(c)
        \/ \E c \in Phase1 : StartPhase1(c) \/ LaunchRaises(c)
        \/ \E k \in 1..Last :
             \/ LaunchStep(k) \/ AgentSweeps(k) \/ LauncherKilled(k)
             \/ SamplerExits(k) \/ SamplerCrashes(k)
             \/ Train(k)
             \/ \E r \in Ranks : Preflight(k, r) \/ Wedge(k, r) \/ Exit(k, r)

Spec == Init /\ [][Next]_vars

(* Every wait of run_condition and _run_and_reap has a timeout, and the    *)
(* sampler polls once a second.                                            *)
LaunchTurn(k)  == k <= Last /\ LaunchStep(k)
SamplerTurn(k) == k <= Last /\ SamplerExits(k)
GoesOn(k)      == WF_vars(LaunchTurn(k)) /\ WF_vars(SamplerTurn(k))
FairSpec == Spec /\ \A j \in Launches : GoesOn(j)

(* What that rests on for a sampler: while its condition goes on the       *)
(* launcher has a step to take, and once the launcher was killed, it has.  *)
NotBlocked(k) ==
  k \in sampler => /\ launches[k].pc \in {"watching", "finally"} => ENABLED <<LaunchTurn(k)>>_vars
                   /\ launches[k].pc = "killed" => ENABLED <<SamplerTurn(k)>>_vars
SamplerNotBlocked == \A k \in Launches : NotBlocked(k)

-----------------------------------------------------------------------------
TypeOK ==
  /\ launches \in Seq([condition : Phase0 \cup Phase1, dir : Launches,
                       pc : {"waiting", "startup", "watching", "finally",
                             "returned", "raised", "killed"}])
  /\ rank \in [Launches -> [Ranks -> {"none", "boot", "joining", "training", "stuck", "gone"}]]
  /\ condemned \subseteq Launches \X Ranks /\ orphans \subseteq Launches \X Ranks
  /\ sampler \subseteq Launches /\ adopted \subseteq sampler
  /\ stopFile \subseteq Launches /\ stepLog \subseteq Launches
  /\ crashed \in BOOLEAN

(* A launch that has ended as its code meant it to has left no process it  *)
(* has not sent SIGKILL to: only one stuck in a driver call outlives it    *)
(* (_run_and_reap, _terminate_all).                                        *)
LeavesNoneRunning ==
  \A k \in 1..Last : launches[k].pc = "returned" => \A r \in Live(k) : <<k, r>> \in condemned

(* Types hold, and so does LeavesNoneRunning, however a launch ended.      *)
SupervisionInv == TypeOK /\ LeavesNoneRunning

(* No two launches train on one GPU, though launchers are killed and run   *)
(* again: the rank of an earlier one is dead or is seen by the preflight,  *)
(* unless it was still starting when it lost its launcher.                 *)
OneLaunchPerGpu ==
  \A j, k \in Launches : \A r \in Ranks :
    j < k /\ HoldsGpu(j, r) /\ HoldsGpu(k, r) => <<j, r>> \in orphans

(* In a directory of its own, no stop file and no watchdog cuts the        *)
(* sampler of a condition off while its ranks are watched, whatever other  *)
(* launches leave behind: only an error of its own does                    *)
(* (gpu_sampler.run, run_condition).                                       *)
SamplerCovers ==
  \A k \in 1..Last : Pc(k, "watching") /\ launches[k].dir = k => k \in sampler \/ crashed

(* No sampler outlives its condition for ever, however its launcher ended  *)
(* (gpu_sampler.run, run_condition).                                       *)
SamplerEnds == \A k \in Launches : k \in sampler ~> k \notin sampler
=============================================================================
