------------------------------ MODULE Alignment ------------------------------
(***************************************************************************)
(* What realbench/collector/align.py makes of the logs a phase 1 condition *)
(* leaves: a row for each record of the chaos log, with the step the job   *)
(* resumed at and whether it halted.  report_phase1.main prints the rows   *)
(* once run_condition has returned.  The GPU log is left out.              *)
(***************************************************************************)
EXTENDS TrainingRun

None == 0   \* t_resume and recovery_gap of None

(* compute_recovery_gap: the first step logged after the fault.            *)
Resume(fire) == IF StepLog > fire.logged THEN fire.logged + 1 ELSE None

(* Mutant: the halt record of rank 0 speaks for all.                       *)
JobHaltedFirst(fire) == 0 \in halted \ fire.halted

(* halted_after_fault                                                      *)
JobHalted(fire) == halted \ fire.halted # {}

(* align_fault_events: a fault that did not fire has an empty row.         *)
Row(fire) ==
  IF ~fire.fired THEN [fired |-> FALSE, resume |-> None, halted |-> FALSE]
  ELSE [fired |-> TRUE, resume |-> Resume(fire), halted |-> JobHalted(fire)]

Results == [i \in DOMAIN chaos |-> Row(chaos[i])]

-----------------------------------------------------------------------------
Reported == launcher.pc = "closed" /\ ~launcher.late

(* No recovery is made up out of a stopped job: the step a row says the    *)
(* job resumed at is one the dead rank had entered, and no later step is   *)
(* ever logged.  (align.py says that a kill gives no resumed step log at   *)
(* all: the step in flight is logged after it.)                            *)
ResumeIsInFlight ==
  Reported => \A i \in DOMAIN chaos :
    Results[i].resume # None =>
      \A later \in Results[i].resume..StepLog : later <= entered[chaos[i].event.target]

(* A row that says neither that the job halted is that of a job that did   *)
(* not: each rank ran to its last step, was killed too, or had halted      *)
(* before (align_fault_events, _train_loop).                               *)
HaltTold ==
  Reported => \A i \in DOMAIN chaos :
    Results[i].fired /\ ~Results[i].halted =>
      \A r \in Ranks \ chaos[i].halted : done[r] = Steps \/ status[r] = "killed"
=============================================================================
