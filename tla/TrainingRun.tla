---------------------------- MODULE TrainingRun ----------------------------
(***************************************************************************)
(* One condition of the phase 1 experiment: the rank processes of          *)
(* realbench/training/w1_llama7b.py with the heartbeat sensor in each, the *)
(* fault injector chaos_inject/real_injector.py, and the launcher          *)
(* run_condition of realbench/phase1_per_tier/report_phase1.py over them.  *)
(* They share files only: a heartbeat per rank, the step log, the pids.    *)
(*                                                                         *)
(* The run is taken from where the step log exists: every rank has written *)
(* its pid and stands before step 0, and the injector has been started.    *)
(* Step n of the code is the (n+1)th here, so 0 means none.                *)
(*                                                                         *)
(* A tick is the poll interval of the sensors.  What the code does         *)
(* without computing or waiting takes less than a tick; computing up to    *)
(* the collective of a step takes any time.                                *)
(***************************************************************************)
EXTENDS Naturals, Sequences

CONSTANTS World,              \* world_size: the ranks are 0..World-1
          Steps,              \* --steps
          HeartbeatTimeout,   \* --heartbeat-timeout-secs, in ticks
          CollectiveTimeout,  \* --collective-timeout-secs, in ticks
          DrainTimeout,       \* injector_proc.wait(timeout=60), in ticks
          Traces              \* traces, sorted: sequences of [step, fault, target]

Ranks == 0..World-1

(* An entry of a trace file.  B1 and B0 are the classes the dispatcher     *)
(* knows; the others stand for any it refuses.                             *)
TraceEvents == [step : Nat, fault : {"B0", "B1", "B4"}, target : Ranks]

ASSUME TrainingAssumption ==
  /\ World \in Nat /\ World > 1 /\ Steps \in Nat
  /\ HeartbeatTimeout \in Nat /\ CollectiveTimeout \in Nat
  /\ DrainTimeout \in Nat /\ DrainTimeout > 1
  /\ HeartbeatTimeout + 1 < CollectiveTimeout
  /\ \A t \in Traces : t \in Seq(TraceEvents)

VARIABLES
  status,     \* of each process: running, exited or killed
  reaped,     \* the processes the launcher has waited for: no longer zombies
  done,       \* steps completed by each rank: the step its heartbeat names
  entered,    \* steps whose collective the rank has entered
  waited,     \* ticks spent in that collective
  age,        \* ticks since the rank's heartbeat
  halted,     \* ranks that have written a training_halt record
  reported,   \* _already_reported of the sensor in each rank
  polled,     \* the sensors that have polled in this tick
  injector,   \* pc, the part of the step log seen, the trace pending
  chaos,      \* chaos_log.jsonl
  launcher,   \* where run_condition is, whether its deadline passed, its timer
  trace       \* the trace of this run

ranks == <<status, done, entered, waited, age, halted, reported, polled>>
vars  == <<ranks, reaped, injector, chaos, launcher, trace>>

Init == /\ status = [r \in Ranks |-> "running"]
        /\ done = [r \in Ranks |-> 0]
        /\ entered = [r \in Ranks |-> 0]
        /\ waited = [r \in Ranks |-> 0]
        /\ age = [r \in Ranks |-> 0]
        /\ halted = {}
        /\ reaped = {}
        /\ reported = [r \in Ranks |-> {}]
        /\ polled = {}
        /\ trace \in Traces
        /\ injector = [pc |-> "polling", seen |-> 0, todo |-> trace, passed |-> FALSE]
        /\ chaos = << >>
        /\ launcher = [pc |-> "waiting", on |-> 0, late |-> FALSE, timer |-> 0]

-----------------------------------------------------------------------------
(* _train_loop.  The forward and backward pass of a step ends in a         *)
(* collective, which no rank leaves before every rank has entered it.      *)

Running == {r \in Ranks : status[r] = "running"}
Inside(r) == r \in Running /\ r \notin halted /\ entered[r] = done[r] + 1

Enter(r) == /\ r \in Running \ halted
            /\ entered[r] = done[r] /\ done[r] < Steps
            /\ entered' = [entered EXCEPT ![r] = @ + 1]
            /\ UNCHANGED <<status, done, waited, age, halted, reaped, reported, polled,
                           injector, chaos, launcher, trace>>

(* Mutant: one other rank is enough to leave the collective.               *)
CanFinishAny(r) == Inside(r) /\ \E p \in Ranks \ {r} : entered[p] >= entered[r]

CanFinish(r) == Inside(r) /\ \A p \in Ranks : entered[p] >= entered[r]

(* HeartbeatWriter.touch: the file names the step just done, and when. *)
Touch(r) == /\ done' = [done EXCEPT ![r] = @ + 1]
            /\ age' = [age EXCEPT ![r] = 0]

(* The collective returns; the heartbeat is touched, and rank 0 appends    *)
(* the step to the step log.                                               *)
Finish(r) == /\ CanFinish(r)
             /\ Touch(r)
             /\ waited' = [waited EXCEPT ![r] = 0]
             /\ UNCHANGED <<status, entered, halted, reaped, reported, polled,
                            injector, chaos, launcher, trace>>

TimedOut(r) == Inside(r) /\ waited[r] = CollectiveTimeout

(* A collective that has hung for the timeout raises: the rank records why *)
(* and leaves the loop.                                                    *)
Halt(r) == /\ TimedOut(r)
           /\ halted' = halted \cup {r}
           /\ UNCHANGED <<status, done, entered, waited, age, reaped, reported, polled,
                          injector, chaos, launcher, trace>>

(* The process is gone, and what it had in memory with it.                 *)
Ends(r, how) == /\ status' = [status EXCEPT ![r] = how]
                /\ waited' = [waited EXCEPT ![r] = 0]
                /\ reported' = [reported EXCEPT ![r] = {}]
                /\ polled' = polled \ {r}
                /\ UNCHANGED <<done, age, halted>>

(* Out of the loop: the sensor is stopped, and the process ends.           *)
Exit(r) == /\ r \in Running
           /\ r \in halted \/ done[r] = Steps
           /\ Ends(r, "exited")
           /\ UNCHANGED <<entered, reaped, injector, chaos, launcher, trace>>

(* SIGKILL.  What the rank sent to a collective it was in may be lost.     *)
Kill(p) == /\ Ends(p, "killed")
           /\ \E sent \in {done[p], entered[p]} : entered' = [entered EXCEPT ![p] = sent]

-----------------------------------------------------------------------------
(* RankHeartbeatSensor._poll_loop, once: a peer whose heartbeat has gone   *)
(* stale is reported, one whose heartbeat has resumed is forgotten.        *)

(* HeartbeatReader.read finds a file, and it is old.                       *)
Stale(p) == done[p] > 0 /\ age[p] > HeartbeatTimeout

(* Mutant: a rank watches its neighbour only.                              *)
StalePeersNext(r) == {p \in {(r + 1) % World} : Stale(p)}

StalePeers(r) == {p \in Ranks \ {r} : Stale(p)}

Poll(r) == /\ r \in Running \ polled
           /\ reported' = [reported EXCEPT ![r] = StalePeers(r)]
           /\ polled' = polled \cup {r}
           /\ UNCHANGED <<status, done, entered, waited, age, halted, reaped,
                          injector, chaos, launcher, trace>>

-----------------------------------------------------------------------------
(* The injector.  A pass of run() reads the step log, fires what is due,   *)
(* and ends it all when no process is left.                                *)

Due == injector.todo # << >> /\ Head(injector.todo).step < injector.seen

(* StepLogReader.tail_new: rank 0 logs the steps it has done.              *)
StepLog == done[0]

(* A record's wall clock splits the step log and the halt records in two:  *)
(* those it comes after, kept here, and those align.py finds after it.     *)
Record(event, fired) == [event |-> event, fired |-> fired, logged |-> StepLog, halted |-> halted]

Observe == /\ injector.pc = "polling" /\ ~injector.passed
           /\ injector' = [injector EXCEPT !.pc = "firing", !.seen = StepLog]
           /\ UNCHANGED <<ranks, reaped, chaos, launcher, trace>>

(* os.kill finds a process until it has been waited for.                   *)
Fire == /\ injector.pc = "firing" /\ Due
        /\ LET event == Head(injector.todo)
               found == event.fault = "B1" /\ event.target \notin reaped
           IN  /\ event.fault \in {"B0", "B1"}
               /\ IF found /\ event.target \in Running
                  THEN Kill(event.target) ELSE UNCHANGED ranks
               /\ chaos' = Append(chaos, Record(event, found))
        /\ injector' = [injector EXCEPT !.todo = Tail(@)]
        /\ UNCHANGED <<reaped, launcher, trace>>

(* ValueError: the fault class cannot be injected.                         *)
FireRaises == /\ injector.pc = "firing" /\ Due
              /\ Head(injector.todo).fault \notin {"B0", "B1"}
              /\ injector' = [injector EXCEPT !.pc = "raised"]
              /\ UNCHANGED <<ranks, reaped, chaos, launcher, trace>>

(* _pid_alive is true of a zombie.                                         *)
NoneAlive == reaped = Ranks

(* Mutant: the injector gives up without recording what it did not fire.   *)
EndPassSilent ==
  /\ injector.pc = "firing" /\ ~Due
  /\ injector' = IF injector.todo = << >> \/ NoneAlive
                 THEN [injector EXCEPT !.pc = "ended"]
                 ELSE [injector EXCEPT !.pc = "polling", !.passed = TRUE]
  /\ UNCHANGED <<ranks, reaped, chaos, launcher, trace>>

(* _record_undelivered: every event still pending.                         *)
Undelivered == [i \in DOMAIN injector.todo |-> Record(injector.todo[i], FALSE)]

EndPass ==
  /\ injector.pc = "firing" /\ ~Due
  /\ IF injector.todo = << >> \/ NoneAlive
     THEN /\ injector' = [injector EXCEPT !.pc = "ended"]
          /\ chaos' = chaos \o Undelivered
     ELSE /\ injector' = [injector EXCEPT !.pc = "polling", !.passed = TRUE]
          /\ UNCHANGED chaos
  /\ UNCHANGED <<ranks, reaped, launcher, trace>>

InjectorEnded == injector.pc \in {"ended", "raised"}

-----------------------------------------------------------------------------
(* run_condition waits for the ranks one after another, kills from its     *)
(* deadline on those still running, then waits for the injector.           *)

Onward(on) == IF on + 1 = World THEN [launcher EXCEPT !.pc = "draining"]
                               ELSE [launcher EXCEPT !.on = on + 1]

WaitReturns == /\ launcher.pc = "waiting" /\ launcher.on \notin Running
               /\ reaped' = reaped \cup {launcher.on}
               /\ launcher' = Onward(launcher.on)
               /\ UNCHANGED <<ranks, injector, chaos, trace>>

Deadline == /\ launcher.pc = "waiting" /\ launcher.on \in Running
            /\ Kill(launcher.on)
            /\ launcher' = [Onward(launcher.on) EXCEPT !.late = TRUE]
            /\ UNCHANGED <<reaped, injector, chaos, trace>>

(* _terminate_all: no rank is running by now, and poll() reaps them all.   *)
TerminateAll == reaped' = Ranks

(* Mutant: the launcher waits for the injector as long as it takes.        *)
CloseUntimed ==
  /\ launcher.pc = "draining" /\ InjectorEnded
  /\ launcher' = [launcher EXCEPT !.pc = "closed"]
  /\ TerminateAll
  /\ UNCHANGED <<ranks, injector, chaos, trace>>

(* The injector has ended, or is terminated; every child is waited for.    *)
Close == /\ launcher.pc = "draining"
         /\ InjectorEnded \/ launcher.timer = DrainTimeout
         /\ launcher' = [launcher EXCEPT !.pc = "closed"]
         /\ injector' = IF InjectorEnded THEN injector ELSE [injector EXCEPT !.pc = "terminated"]
         /\ TerminateAll
         /\ UNCHANGED <<ranks, chaos, trace>>

-----------------------------------------------------------------------------
Settled == /\ Running \subseteq polled
           /\ ~\E r \in Ranks : CanFinish(r) \/ TimedOut(r)
           /\ injector.pc = "polling" => injector.passed
           /\ injector.pc # "firing"
           /\ launcher.pc = "waiting" => launcher.on \in Running /\ ~launcher.late
           /\ launcher.pc = "draining" => launcher.timer < DrainTimeout /\ ~InjectorEnded

Older(a) == IF a > HeartbeatTimeout THEN a ELSE a + 1

Tick == /\ launcher.pc # "closed" /\ Settled
        /\ waited' = [r \in Ranks |-> IF Inside(r) THEN waited[r] + 1 ELSE waited[r]]
        /\ age' = [r \in Ranks |-> IF done[r] = 0 THEN 0 ELSE Older(age[r])]
        /\ polled' = {}
        /\ injector' = [injector EXCEPT !.passed = FALSE]
        /\ launcher' = IF launcher.pc = "draining" THEN [launcher EXCEPT !.timer = @ + 1]
                                                   ELSE launcher
        /\ UNCHANGED <<status, done, entered, halted, reaped, reported, chaos, trace>>

Next == \/ \E r \in Ranks : Enter(r) \/ Finish(r) \/ Halt(r) \/ Exit(r) \/ Poll(r)
        \/ Observe \/ Fire \/ FireRaises \/ EndPass
        \/ WaitReturns \/ Deadline \/ Close
        \/ Tick

Spec == Init /\ [][Next]_vars

(* Every process that is scheduled goes on, and time passes; nothing makes *)
(* the deadline pass.                                                      *)
FairSpec ==
  /\ Spec
  /\ \A r \in Ranks : WF_vars(Enter(r) \/ Finish(r)) /\ WF_vars(Halt(r) \/ Exit(r)) /\ WF_vars(Poll(r))
  /\ WF_vars(Observe \/ Fire \/ FireRaises \/ EndPass)
  /\ WF_vars(WaitReturns \/ Close \/ (launcher.late /\ Deadline))
  /\ WF_vars(Tick)
-----------------------------------------------------------------------------
TypeOK ==
  /\ status \in [Ranks -> {"running", "exited", "killed"}]
  /\ done \in [Ranks -> 0..Steps] /\ entered \in [Ranks -> 0..Steps]
  /\ waited \in [Ranks -> 0..CollectiveTimeout]
  /\ age \in [Ranks -> 0..HeartbeatTimeout + 1]
  /\ halted \subseteq Ranks /\ reaped \subseteq Ranks /\ polled \subseteq Ranks
  /\ reported \in [Ranks -> SUBSET Ranks]
  /\ trace \in Traces
  /\ injector \in [pc : {"polling", "firing", "ended", "raised", "terminated"},
                   seen : 0..Steps, todo : Seq(TraceEvents), passed : BOOLEAN]
  /\ chaos \in Seq([event : TraceEvents, fired : BOOLEAN,
                    logged : 0..Steps, halted : SUBSET Ranks])
  /\ launcher \in [pc : {"waiting", "draining", "closed"}, on : Ranks,
                   late : BOOLEAN, timer : 0..DrainTimeout]

(* Nobody trains on without a peer: whoever is killed, and whenever, no    *)
(* rank ends up more than a step ahead of any other (w1_llama7b.py: the    *)
(* surviving ranks cannot continue past the next collective).              *)
LockStep == \A r, p \in Ranks : done[r] <= done[p] + 1

(* A rank has entered the collective of at most one step it has not done.  *)
OneStepOpen == \A r \in Ranks : done[r] <= entered[r] /\ entered[r] <= done[r] + 1

(* The launcher never leaves a running rank behind: one it has waited for, *)
(* or passed over at its deadline, has ended (run_condition).              *)
NoneLeftBehind ==
  /\ reaped \cap Running = {}
  /\ \A r \in Running : launcher.pc = "waiting" /\ launcher.on <= r

(* Types, lock step and nobody left behind, whatever is killed and when.   *)
TrainInv == TypeOK /\ LockStep /\ OneStepOpen /\ NoneLeftBehind

(* A death is seen before it stops the run: a rank that halts because a    *)
(* killed peer never came to its collective has had that peer reported     *)
(* dead by its own sensor.  It rests on the heartbeat timeout being the    *)
(* shorter one, and on the faults being due after step 0: before, a peer   *)
(* has no heartbeat file to go stale (_poll_loop).                         *)
DeathSeen ==
  [][\A r \in halted' \ halted : \A p \in Ranks :
       status[p] = "killed" /\ entered[p] < entered[r] /\ ~launcher.late => p \in reported[r]]_vars

(* When run_condition returns without its deadline having passed, the      *)
(* chaos log has one record for each event of the trace, in its order,     *)
(* however the ranks ended (_record_undelivered).                          *)
TraceAccounted ==
  launcher.pc = "closed" /\ ~launcher.late /\ injector.pc # "raised" =>
    /\ Len(chaos) = Len(trace)
    /\ \A i \in 1..Len(trace) : chaos[i].event = trace[i]

(* run_condition returns: no kill, hung collective or injector holds it.   *)
RunEnds == <>(launcher.pc = "closed")
=============================================================================
