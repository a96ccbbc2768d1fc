------------------------- MODULE TrainingRunProofs -------------------------
(***************************************************************************)
(* What holds of TrainingRun for any number of ranks and steps, any trace  *)
(* and any timeouts.  TrainInv is inductive as it stands: LockStep follows *)
(* from OneStepOpen when a rank leaves a collective, because every rank    *)
(* has entered it and so is at most one step behind it.                    *)
(*                                                                         *)
(* Then what the logs of a condition say, which Alignment reads: each      *)
(* invariant that speaks of the end of a condition follows there from one  *)
(* below, proved on top of TrainInv.                                       *)
(*                                                                         *)
(* Last, DeathSeen: the heartbeat of a rank that does not come ages with   *)
(* the wait of those it keeps waiting, and their sensors poll every tick.  *)
(***************************************************************************)
EXTENDS Alignment, SequenceTheorems, TLAPS

LEMMA InitHolds == Init => TrainInv
<1> SUFFICES ASSUME Init PROVE TrainInv
  OBVIOUS
<1> USE TrainingAssumption
<1>1. 0 \in Ranks
  BY DEF Ranks
<1>2. trace \in Seq(TraceEvents)
  BY DEF Init
<1>3. TypeOK
  BY <1>1, <1>2 DEF Init, TypeOK
<1>4. LockStep /\ OneStepOpen
  BY DEF Init, LockStep, OneStepOpen, Ranks
<1>5. NoneLeftBehind
  BY DEF Init, NoneLeftBehind, Running, Ranks
<1> QED
  BY <1>3, <1>4, <1>5 DEF TrainInv

(* The end of a process: it may take back the step it had entered.         *)
LEMMA EndsKeeps ==
  ASSUME TrainInv, NEW p \in Ranks, NEW how \in {"exited", "killed"}, Ends(p, how),
         \E sent \in {done[p], entered[p]} : entered' = [entered EXCEPT ![p] = sent]
  PROVE  /\ status' \in [Ranks -> {"running", "exited", "killed"}]
         /\ done' \in [Ranks -> 0..Steps] /\ entered' \in [Ranks -> 0..Steps]
         /\ waited' \in [Ranks -> 0..CollectiveTimeout]
         /\ age' \in [Ranks -> 0..HeartbeatTimeout + 1]
         /\ halted' \subseteq Ranks /\ polled' \subseteq Ranks
         /\ reported' \in [Ranks -> SUBSET Ranks]
         /\ LockStep' /\ OneStepOpen'
         /\ Running' = Running \ {p}
<1>1. done' = done /\ age' = age /\ halted' = halted
  BY DEF Ends
<1>2. PICK sent \in {done[p], entered[p]} : entered' = [entered EXCEPT ![p] = sent]
  OBVIOUS
<1>3. done \in [Ranks -> 0..Steps] /\ entered \in [Ranks -> 0..Steps]
  BY DEF TrainInv, TypeOK
<1>4. OneStepOpen /\ LockStep /\ Steps \in Nat
  BY TrainingAssumption DEF TrainInv
<1>5. sent \in 0..Steps
  BY <1>2, <1>3
<1>6. done[p] <= sent /\ sent <= done[p] + 1
  BY <1>2, <1>3, <1>4 DEF OneStepOpen
<1>7. entered' \in [Ranks -> 0..Steps] /\ OneStepOpen'
  BY <1>1, <1>2, <1>3, <1>4, <1>5, <1>6 DEF OneStepOpen
<1>8. LockStep'
  BY <1>1, <1>4 DEF LockStep
<1>9. /\ status' \in [Ranks -> {"running", "exited", "killed"}]
      /\ waited' \in [Ranks -> 0..CollectiveTimeout]
      /\ polled' \subseteq Ranks /\ reported' \in [Ranks -> SUBSET Ranks]
  <2>1. /\ status' = [status EXCEPT ![p] = how] /\ waited' = [waited EXCEPT ![p] = 0]
        /\ reported' = [reported EXCEPT ![p] = {}] /\ polled' = polled \ {p}
    BY DEF Ends
  <2>2. /\ status \in [Ranks -> {"running", "exited", "killed"}]
        /\ waited \in [Ranks -> 0..CollectiveTimeout]
        /\ polled \subseteq Ranks /\ reported \in [Ranks -> SUBSET Ranks]
    BY DEF TrainInv, TypeOK
  <2>3. 0 \in 0..CollectiveTimeout
    BY TrainingAssumption
  <2>4. reported' \in [Ranks -> SUBSET Ranks]
    BY <2>1, <2>2
  <2>5. status' \in [Ranks -> {"running", "exited", "killed"}]
    BY <2>1, <2>2
  <2>6. waited' \in [Ranks -> 0..CollectiveTimeout]
    BY <2>1, <2>2, <2>3
  <2> QED
    BY <2>1, <2>2, <2>4, <2>5, <2>6
<1>10. Running' = Running \ {p}
  BY DEF Ends, Running, TrainInv, TypeOK
<1>11. age \in [Ranks -> 0..HeartbeatTimeout + 1] /\ halted \subseteq Ranks
  BY DEF TrainInv, TypeOK
<1> QED
  BY <1>1, <1>3, <1>7, <1>8, <1>9, <1>10, <1>11

(* The launcher goes on to the next rank once this one is not running.     *)
LEMMA OnwardKeeps ==
  ASSUME TrainInv, launcher.pc = "waiting", NEW late \in BOOLEAN,
         launcher' = [Onward(launcher.on) EXCEPT !.late = late],
         Running' \subseteq Running, launcher.on \notin Running'
  PROVE  /\ launcher' \in [pc : {"waiting", "draining", "closed"}, on : Ranks,
                           late : BOOLEAN, timer : 0..DrainTimeout]
         /\ \A r \in Running' : launcher'.pc = "waiting" /\ launcher'.on <= r
<1> DEFINE on == launcher.on
<1>1. launcher \in [pc : {"waiting", "draining", "closed"}, on : Ranks,
                    late : BOOLEAN, timer : 0..DrainTimeout]
  BY DEF TrainInv, TypeOK
<1>2. on \in Ranks /\ World \in Nat
  BY <1>1, TrainingAssumption
<1>3. ASSUME NEW r \in Running' PROVE r \in Ranks /\ r # on /\ on <= r
  BY <1>3 DEF Running, TrainInv, NoneLeftBehind
<1>4. launcher' = IF on + 1 = World THEN [launcher EXCEPT !.pc = "draining", !.late = late]
                                    ELSE [launcher EXCEPT !.on = on + 1, !.late = late]
  BY <1>1 DEF Onward
<1> HIDE DEF on
<1>5. CASE on + 1 = World
  <2>1. Running' = {}
    BY <1>2, <1>3, <1>5 DEF Ranks
  <2> QED
    BY <1>1, <1>4, <1>5, <2>1
<1>6. CASE on + 1 # World
  <2>1. on + 1 \in Ranks
    BY <1>2, <1>6 DEF Ranks
  <2>2. \A r \in Running' : on + 1 <= r
    BY <1>2, <1>3 DEF Ranks
  <2>3. launcher'.pc = "waiting" /\ launcher'.on = on + 1
    BY <1>1, <1>4, <1>6
  <2>4. launcher' \in [pc : {"waiting", "draining", "closed"}, on : Ranks,
                       late : BOOLEAN, timer : 0..DrainTimeout]
    BY <1>1, <1>4, <1>6, <2>1
  <2> QED
    BY <2>2, <2>3, <2>4
<1> QED
  BY <1>5, <1>6

(* Steps of the ranks that leave the injector, the chaos log, the launcher *)
(* and the trace alone and end no process.                                 *)
LEMMA RankStepKeeps ==
  ASSUME TrainInv, NEW r \in Ranks, Enter(r) \/ Finish(r) \/ Halt(r) \/ Poll(r)
  PROVE  TrainInv'
<1>1. /\ done \in [Ranks -> 0..Steps] /\ entered \in [Ranks -> 0..Steps]
      /\ OneStepOpen /\ LockStep /\ Steps \in Nat
  BY TrainingAssumption DEF TrainInv, TypeOK
<1>2. UNCHANGED <<status, reaped, injector, chaos, launcher, trace>>
  BY DEF Enter, Finish, Halt, Poll
<1>3. NoneLeftBehind'
  BY <1>2 DEF TrainInv, NoneLeftBehind, Running
<1>4. CASE Enter(r)
  <2>1. entered' = [entered EXCEPT ![r] = @ + 1] /\ done' = done
    BY <1>4 DEF Enter
  <2>2. entered[r] = done[r] /\ done[r] < Steps
    BY <1>4 DEF Enter
  <2>3. entered' \in [Ranks -> 0..Steps]
    BY <1>1, <2>1, <2>2
  <2>4. OneStepOpen'
    BY <1>1, <2>1, <2>2 DEF OneStepOpen
  <2>5. LockStep'
    BY <1>1, <2>1 DEF LockStep
  <2>6. TypeOK'
    BY <1>2, <1>4, <2>1, <2>3 DEF TrainInv, TypeOK, Enter
  <2> QED
    BY <1>3, <2>4, <2>5, <2>6 DEF TrainInv
<1>5. CASE Finish(r)
  <2>1. /\ done' = [done EXCEPT ![r] = @ + 1] /\ entered' = entered
        /\ age' = [age EXCEPT ![r] = 0] /\ waited' = [waited EXCEPT ![r] = 0]
        /\ UNCHANGED <<halted, reported, polled>>
    BY <1>5 DEF Finish, Touch
  <2>2. entered[r] = done[r] + 1 /\ \A p \in Ranks : entered[p] >= entered[r]
    BY <1>5 DEF Finish, CanFinish, Inside
  <2>3. \A p \in Ranks : done[r] + 1 <= done[p] + 1
    BY <1>1, <2>2 DEF OneStepOpen
  <2>4. done' \in [Ranks -> 0..Steps]
    BY <1>1, <2>1, <2>2
  <2>5. OneStepOpen'
    BY <1>1, <2>1, <2>2 DEF OneStepOpen
  <2>6. LockStep'
    BY <1>1, <2>1, <2>3 DEF LockStep
  <2>7. 0 \in 0..HeartbeatTimeout + 1 /\ 0 \in 0..CollectiveTimeout
    BY TrainingAssumption
  <2>8. age' \in [Ranks -> 0..HeartbeatTimeout + 1] /\ waited' \in [Ranks -> 0..CollectiveTimeout]
    BY <2>1, <2>7 DEF TrainInv, TypeOK
  <2>9. TypeOK'
    BY <1>2, <2>1, <2>4, <2>8 DEF TrainInv, TypeOK
  <2> QED
    BY <1>3, <2>5, <2>6, <2>9 DEF TrainInv
<1>6. CASE Halt(r)
  <2>1. UNCHANGED <<done, entered, waited, age, reported, polled>> /\ halted' = halted \cup {r}
    BY <1>6 DEF Halt
  <2>2. OneStepOpen' /\ LockStep'
    BY <1>1, <2>1 DEF OneStepOpen, LockStep
  <2>3. TypeOK'
    BY <1>2, <2>1 DEF TrainInv, TypeOK
  <2> QED
    BY <1>3, <2>2, <2>3 DEF TrainInv
<1>7. CASE Poll(r)
  <2>1. UNCHANGED <<done, entered, waited, age, halted>>
    BY <1>7 DEF Poll
  <2>2. reported' = [reported EXCEPT ![r] = StalePeers(r)] /\ polled' = polled \cup {r}
    BY <1>7 DEF Poll
  <2>3. StalePeers(r) \subseteq Ranks
    BY DEF StalePeers
  <2>4. OneStepOpen' /\ LockStep'
    BY <1>1, <2>1 DEF OneStepOpen, LockStep
  <2>5. TypeOK'
    BY <1>2, <2>1, <2>2, <2>3 DEF TrainInv, TypeOK
  <2> QED
    BY <1>3, <2>4, <2>5 DEF TrainInv
<1> QED
  BY <1>4, <1>5, <1>6, <1>7

LEMMA ExitKeeps ==
  ASSUME TrainInv, NEW r \in Ranks, Exit(r)
  PROVE  TrainInv'
<1>1. Ends(r, "exited") /\ UNCHANGED <<entered, reaped, injector, chaos, launcher, trace>>
  BY DEF Exit
<1>2. entered' = [entered EXCEPT ![r] = entered[r]]
  BY <1>1 DEF TrainInv, TypeOK
<1>3. /\ status' \in [Ranks -> {"running", "exited", "killed"}]
      /\ done' \in [Ranks -> 0..Steps] /\ entered' \in [Ranks -> 0..Steps]
      /\ waited' \in [Ranks -> 0..CollectiveTimeout]
      /\ age' \in [Ranks -> 0..HeartbeatTimeout + 1]
      /\ halted' \subseteq Ranks /\ polled' \subseteq Ranks
      /\ reported' \in [Ranks -> SUBSET Ranks]
      /\ LockStep' /\ OneStepOpen'
      /\ Running' = Running \ {r}
  <2>1. \E sent \in {done[r], entered[r]} : entered' = [entered EXCEPT ![r] = sent]
    BY <1>2
  <2> QED
    BY <1>1, <2>1, EndsKeeps
<1>4. TypeOK'
  BY <1>1, <1>3 DEF TrainInv, TypeOK
<1>5. NoneLeftBehind'
  BY <1>1, <1>3 DEF TrainInv, NoneLeftBehind
<1> QED
  BY <1>3, <1>4, <1>5 DEF TrainInv

(* Steps of the injector.  Only Fire touches the ranks: it may kill one.   *)
LEMMA InjectorKeeps ==
  ASSUME TrainInv, Observe \/ FireRaises \/ EndPass
  PROVE  TrainInv'
<1>1. UNCHANGED <<ranks, reaped, launcher, trace>>
  BY DEF Observe, FireRaises, EndPass
<1>2. LockStep' /\ OneStepOpen' /\ NoneLeftBehind'
  BY <1>1 DEF ranks, TrainInv, LockStep, OneStepOpen, NoneLeftBehind, Running
<1> DEFINE Injectors == [pc : {"polling", "firing", "ended", "raised", "terminated"},
                         seen : 0..Steps, todo : Seq(TraceEvents), passed : BOOLEAN]
           Records   == [event : TraceEvents, fired : BOOLEAN,
                         logged : 0..Steps, halted : SUBSET Ranks]
<1>3. injector \in Injectors /\ chaos \in Seq(Records) /\ done[0] \in 0..Steps
  BY TrainingAssumption DEF TrainInv, TypeOK, Ranks
<1>4. \A event \in TraceEvents : Record(event, FALSE) \in Records
  BY <1>3 DEF Record, StepLog, TrainInv, TypeOK
<1>5. Undelivered \in Seq(Records)
  <2>1. injector.todo \in Seq(TraceEvents)
    BY <1>3
  <2>2. /\ Len(injector.todo) \in Nat /\ DOMAIN injector.todo = 1..Len(injector.todo)
        /\ \A i \in DOMAIN injector.todo : injector.todo[i] \in TraceEvents
    BY <2>1
  <2>3. \A i \in 1..Len(injector.todo) : Record(injector.todo[i], FALSE) \in Records
    BY <1>4, <2>2
  <2> HIDE DEF Records
  <2>4. Undelivered \in [1..Len(injector.todo) -> Records]
    BY <2>2, <2>3 DEF Undelivered
  <2> QED
    BY <2>2, <2>4, SeqDef
<1>6. injector' \in Injectors /\ chaos' \in Seq(Records)
  <2>1. CASE Observe
    BY <1>3, <2>1 DEF Observe, StepLog
  <2>2. CASE FireRaises
    BY <1>3, <2>2 DEF FireRaises
  <2>3. CASE EndPass
    <3>1. injector' \in Injectors
      BY <1>3, <2>3 DEF EndPass
    <3>2. chaos' \in Seq(Records)
      <4>1. chaos' = chaos \o Undelivered \/ chaos' = chaos
        BY <2>3 DEF EndPass
      <4>2. chaos \in Seq(Records)
        BY <1>3
      <4> HIDE DEF Records
      <4>3. chaos \o Undelivered \in Seq(Records)
        BY <1>5, <4>2, ConcatProperties
      <4> QED
        BY <4>1, <4>2, <4>3
    <3> QED
      BY <3>1, <3>2
  <2> QED
    BY <2>1, <2>2, <2>3
<1>7. TypeOK'
  BY <1>1, <1>6 DEF ranks, TrainInv, TypeOK
<1> QED
  BY <1>2, <1>7 DEF TrainInv

LEMMA FireKeeps == ASSUME TrainInv, Fire PROVE TrainInv'
<1> DEFINE event == Head(injector.todo)
           found == event.fault = "B1" /\ event.target \notin reaped
           Records == [event : TraceEvents, fired : BOOLEAN,
                       logged : 0..Steps, halted : SUBSET Ranks]
<1>1. injector.todo \in Seq(TraceEvents) /\ injector.todo # << >>
  BY DEF TrainInv, TypeOK, Fire, Due
<1>2. event \in TraceEvents /\ Tail(injector.todo) \in Seq(TraceEvents)
  BY <1>1, HeadTailProperties
<1>3. event.target \in Ranks
  BY <1>2 DEF TraceEvents
<1>4. chaos \in Seq(Records) /\ chaos' = Append(chaos, Record(event, found))
  BY DEF TrainInv, TypeOK, Fire
<1>5. Record(event, found) \in Records
  <2>1. found \in BOOLEAN
    OBVIOUS
  <2>2. StepLog \in 0..Steps /\ halted \in SUBSET Ranks
    BY TrainingAssumption DEF StepLog, TrainInv, TypeOK, Ranks
  <2> QED
    BY <1>2, <2>1, <2>2 DEF Record
<1>6. chaos' \in Seq(Records)
  <2> HIDE DEF Records, event, found
  <2> QED
    BY <1>4, <1>5, AppendProperties
<1>7. injector' = [injector EXCEPT !.todo = Tail(@)] /\ UNCHANGED <<reaped, launcher, trace>>
  BY DEF Fire
<1>8. \/ Kill(event.target) /\ event.target \in Running
      \/ UNCHANGED ranks
  BY DEF Fire
<1>9. CASE UNCHANGED ranks
  <2>1. LockStep' /\ OneStepOpen' /\ NoneLeftBehind'
    BY <1>7, <1>9 DEF ranks, TrainInv, LockStep, OneStepOpen, NoneLeftBehind, Running
  <2>2. TypeOK'
    BY <1>2, <1>6, <1>7, <1>9 DEF ranks, TrainInv, TypeOK
  <2> QED
    BY <2>1, <2>2 DEF TrainInv
<1>10. CASE Kill(event.target) /\ event.target \in Running
  <2> HIDE DEF event
  <2>1. /\ status' \in [Ranks -> {"running", "exited", "killed"}]
        /\ done' \in [Ranks -> 0..Steps] /\ entered' \in [Ranks -> 0..Steps]
        /\ waited' \in [Ranks -> 0..CollectiveTimeout]
        /\ age' \in [Ranks -> 0..HeartbeatTimeout + 1]
        /\ halted' \subseteq Ranks /\ polled' \subseteq Ranks
        /\ reported' \in [Ranks -> SUBSET Ranks]
        /\ LockStep' /\ OneStepOpen'
        /\ Running' = Running \ {event.target}
    BY <1>3, <1>10, EndsKeeps DEF Kill
  <2>2. NoneLeftBehind'
    BY <1>7, <2>1 DEF TrainInv, NoneLeftBehind
  <2>3. TypeOK'
    BY <1>2, <1>6, <1>7, <2>1 DEF TrainInv, TypeOK, event
  <2> QED
    BY <2>1, <2>2, <2>3 DEF TrainInv
<1> QED
  BY <1>8, <1>9, <1>10

(* The launcher goes on past a rank, which has ended or which it kills.    *)
LEMMA WaitReturnsKeeps == ASSUME TrainInv, WaitReturns PROVE TrainInv'
<1>1. /\ launcher.pc = "waiting" /\ launcher.on \notin Running
      /\ reaped' = reaped \cup {launcher.on} /\ launcher' = Onward(launcher.on)
      /\ UNCHANGED <<ranks, injector, chaos, trace>>
  BY DEF WaitReturns
<1>2. launcher.on \in Ranks /\ launcher.late \in BOOLEAN
  BY DEF TrainInv, TypeOK
<1>3. Running' = Running
  BY <1>1 DEF ranks, Running
<1>4. launcher' = [Onward(launcher.on) EXCEPT !.late = launcher.late]
  BY <1>1 DEF Onward, TrainInv, TypeOK
<1>5. /\ launcher' \in [pc : {"waiting", "draining", "closed"}, on : Ranks,
                        late : BOOLEAN, timer : 0..DrainTimeout]
      /\ \A r \in Running' : launcher'.pc = "waiting" /\ launcher'.on <= r
  BY <1>1, <1>2, <1>3, <1>4, OnwardKeeps
<1>6. NoneLeftBehind'
  BY <1>1, <1>3, <1>5 DEF TrainInv, NoneLeftBehind
<1>7. LockStep' /\ OneStepOpen'
  BY <1>1 DEF ranks, TrainInv, LockStep, OneStepOpen
<1>8. TypeOK'
  BY <1>1, <1>2, <1>5 DEF ranks, TrainInv, TypeOK
<1> QED
  BY <1>6, <1>7, <1>8 DEF TrainInv

LEMMA DeadlineKeeps == ASSUME TrainInv, Deadline PROVE TrainInv'
<1>1. /\ launcher.pc = "waiting" /\ Kill(launcher.on)
      /\ launcher' = [Onward(launcher.on) EXCEPT !.late = TRUE]
      /\ UNCHANGED <<reaped, injector, chaos, trace>>
  BY DEF Deadline
<1>2. launcher.on \in Ranks
  BY DEF TrainInv, TypeOK
<1>3. /\ status' \in [Ranks -> {"running", "exited", "killed"}]
      /\ done' \in [Ranks -> 0..Steps] /\ entered' \in [Ranks -> 0..Steps]
      /\ waited' \in [Ranks -> 0..CollectiveTimeout]
      /\ age' \in [Ranks -> 0..HeartbeatTimeout + 1]
      /\ halted' \subseteq Ranks /\ polled' \subseteq Ranks
      /\ reported' \in [Ranks -> SUBSET Ranks]
      /\ LockStep' /\ OneStepOpen'
      /\ Running' = Running \ {launcher.on}
  BY <1>1, <1>2, EndsKeeps DEF Kill
<1>4. /\ launcher' \in [pc : {"waiting", "draining", "closed"}, on : Ranks,
                        late : BOOLEAN, timer : 0..DrainTimeout]
      /\ \A r \in Running' : launcher'.pc = "waiting" /\ launcher'.on <= r
  BY <1>1, <1>3, OnwardKeeps
<1>5. NoneLeftBehind'
  BY <1>1, <1>3, <1>4 DEF TrainInv, NoneLeftBehind
<1>6. TypeOK'
  BY <1>1, <1>3, <1>4 DEF TrainInv, TypeOK
<1> QED
  BY <1>3, <1>5, <1>6 DEF TrainInv

(* By then every rank has been waited for or killed.                       *)
LEMMA CloseKeeps == ASSUME TrainInv, Close PROVE TrainInv'
<1>1. /\ launcher.pc = "draining" /\ reaped' = Ranks
      /\ launcher' = [launcher EXCEPT !.pc = "closed"]
      /\ injector' = injector \/ injector' = [injector EXCEPT !.pc = "terminated"]
      /\ UNCHANGED <<ranks, chaos, trace>>
  BY DEF Close, TerminateAll
<1>2. Running' = {}
  BY <1>1 DEF ranks, Running, TrainInv, NoneLeftBehind
<1>3. NoneLeftBehind'
  BY <1>2 DEF NoneLeftBehind
<1>4. LockStep' /\ OneStepOpen'
  BY <1>1 DEF ranks, TrainInv, LockStep, OneStepOpen
<1>5. TypeOK'
  BY <1>1 DEF ranks, TrainInv, TypeOK
<1> QED
  BY <1>3, <1>4, <1>5 DEF TrainInv

LEMMA TickKeeps == ASSUME TrainInv, Tick PROVE TrainInv'
<1>1. UNCHANGED <<status, done, entered, halted, reaped, reported, chaos, trace>>
  BY DEF Tick
<1>2. \A r \in Ranks : Inside(r) => waited[r] # CollectiveTimeout
  BY DEF Tick, Settled, TimedOut
<1>3. waited \in [Ranks -> 0..CollectiveTimeout] /\ CollectiveTimeout \in Nat
  BY TrainingAssumption DEF TrainInv, TypeOK
<1>4. waited' \in [Ranks -> 0..CollectiveTimeout]
  <2>1. waited' = [r \in Ranks |-> IF Inside(r) THEN waited[r] + 1 ELSE waited[r]]
    BY DEF Tick
  <2>2. ASSUME NEW r \in Ranks, Inside(r) PROVE waited[r] + 1 \in 0..CollectiveTimeout
    BY <1>2, <1>3, <2>2
  <2> QED
    BY <1>3, <2>1, <2>2
<1>5. age' \in [Ranks -> 0..HeartbeatTimeout + 1]
  <2>1. age' = [r \in Ranks |-> IF done[r] = 0 THEN 0 ELSE Older(age[r])]
    BY DEF Tick
  <2>2. age \in [Ranks -> 0..HeartbeatTimeout + 1] /\ HeartbeatTimeout \in Nat
    BY TrainingAssumption DEF TrainInv, TypeOK
  <2>3. \A r \in Ranks : Older(age[r]) \in 0..HeartbeatTimeout + 1
    BY <2>2 DEF Older
  <2>4. 0 \in 0..HeartbeatTimeout + 1
    BY <2>2
  <2> QED
    BY <2>1, <2>3, <2>4
<1>6. /\ injector' = [injector EXCEPT !.passed = FALSE]
      /\ polled' = {}
  BY DEF Tick
<1>7. /\ launcher' \in [pc : {"waiting", "draining", "closed"}, on : Ranks,
                        late : BOOLEAN, timer : 0..DrainTimeout]
      /\ launcher'.pc = launcher.pc /\ launcher'.on = launcher.on
  <2>1. launcher \in [pc : {"waiting", "draining", "closed"}, on : Ranks,
                      late : BOOLEAN, timer : 0..DrainTimeout]
    BY DEF TrainInv, TypeOK
  <2>2. CASE launcher.pc = "draining"
    <3>1. launcher' = [launcher EXCEPT !.timer = @ + 1] /\ launcher.timer < DrainTimeout
      BY <2>2 DEF Tick, Settled, InjectorEnded
    <3>2. launcher.timer + 1 \in 0..DrainTimeout
      BY <2>1, <3>1, TrainingAssumption
    <3> QED
      BY <2>1, <3>1, <3>2
  <2>3. CASE launcher.pc # "draining"
    BY <2>1, <2>3 DEF Tick
  <2> QED
    BY <2>2, <2>3
<1>8. LockStep' /\ OneStepOpen'
  BY <1>1 DEF TrainInv, LockStep, OneStepOpen
<1>9. NoneLeftBehind'
  BY <1>1, <1>7 DEF TrainInv, NoneLeftBehind, Running
<1>10. TypeOK'
  BY <1>1, <1>4, <1>5, <1>6, <1>7 DEF TrainInv, TypeOK
<1> QED
  BY <1>8, <1>9, <1>10 DEF TrainInv

LEMMA StutterKeeps == ASSUME TrainInv, UNCHANGED vars PROVE TrainInv'
BY DEF vars, ranks, TrainInv, TypeOK, LockStep, OneStepOpen, NoneLeftBehind, Running

LEMMA TrainInductive == ASSUME TrainInv, [Next]_vars PROVE TrainInv'
<1>1. CASE \E r \in Ranks : Enter(r) \/ Finish(r) \/ Halt(r) \/ Exit(r) \/ Poll(r)
  BY <1>1, RankStepKeeps, ExitKeeps
<1>2. CASE Observe \/ FireRaises \/ EndPass
  BY <1>2, InjectorKeeps
<1>3. CASE Fire
  BY <1>3, FireKeeps
<1>4. CASE WaitReturns \/ Deadline \/ Close
  BY <1>4, WaitReturnsKeeps, DeadlineKeeps, CloseKeeps
<1>5. CASE Tick
  BY <1>5, TickKeeps
<1>6. CASE UNCHANGED vars
  BY <1>6, StutterKeeps
<1> QED
  BY <1>1, <1>2, <1>3, <1>4, <1>5, <1>6 DEF Next

(* However many ranks there are, and whichever are killed, and when: no    *)
(* rank is a step ahead of the others without them, and the launcher       *)
(* leaves no rank running (w1_llama7b.py, run_condition).                  *)
THEOREM TrainingInvariant == Spec => []TrainInv
BY InitHolds, TrainInductive, PTL DEF Spec

-----------------------------------------------------------------------------
(* The chaos log and what is still pending are the trace.                  *)
Pending == IF injector.pc = "ended" THEN 0 ELSE Len(injector.todo)
Accounted ==
  /\ Len(chaos) + Pending = Len(trace)
  /\ \A i \in 1..Len(chaos) : chaos[i].event = trace[i]
  /\ \A i \in 1..Pending : injector.todo[i] = trace[Len(chaos) + i]

(* A launcher within its deadline has waited for every rank it has passed. *)
ReapedInTurn ==
  ~launcher.late =>
    /\ launcher.pc = "waiting" => \A r \in Ranks : r < launcher.on => r \in reaped
    /\ launcher.pc # "waiting" => reaped = Ranks

(* The injector's last pass comes within two ticks of the last rank's end, *)
(* so that it is terminated only when the deadline has passed.             *)
EndsInTime ==
  /\ injector.pc = "firing" => ~injector.passed
  /\ launcher.pc = "waiting" => launcher.timer = 0
  /\ ~launcher.late /\ launcher.pc = "draining" /\ ~InjectorEnded =>
       launcher.timer = 0 \/ (launcher.timer = 1 /\ ~injector.passed)
  /\ injector.pc = "terminated" => launcher.pc = "closed" /\ launcher.late
  /\ launcher.pc = "closed" => InjectorEnded \/ injector.pc = "terminated"

(* The target of a fault that fired has ended, and what is logged after    *)
(* the fault is bounded by the last collective the target had entered.     *)
LogBounded ==
  \A i \in 1..Len(chaos) : chaos[i].fired =>
    /\ chaos[i].event.target \in Ranks \ Running
    /\ StepLog <= chaos[i].logged \/ StepLog <= entered[chaos[i].event.target]

(* A process that exited had finished or halted.                           *)
ExitsSayWhy == \A r \in Ranks : status[r] = "exited" => r \in halted \/ done[r] = Steps

-----------------------------------------------------------------------------
TraceRecords == [event : TraceEvents, fired : BOOLEAN, logged : 0..Steps, halted : SUBSET Ranks]

LEMMA Types ==
  ASSUME TrainInv
  PROVE  /\ injector \in [pc : {"polling", "firing", "ended", "raised", "terminated"},
                          seen : 0..Steps, todo : Seq(TraceEvents), passed : BOOLEAN]
         /\ launcher \in [pc : {"waiting", "draining", "closed"}, on : Ranks,
                          late : BOOLEAN, timer : 0..DrainTimeout]
         /\ chaos \in Seq(TraceRecords) /\ trace \in Seq(TraceEvents)
         /\ done \in [Ranks -> 0..Steps] /\ entered \in [Ranks -> 0..Steps]
         /\ status \in [Ranks -> {"running", "exited", "killed"}]
         /\ halted \subseteq Ranks /\ reaped \subseteq Ranks
BY TrainingAssumption DEF TrainInv, TypeOK, TraceRecords

(* Steps that leave the chaos log and the pending trace alone.             *)
LEMMA AccountedStutters ==
  ASSUME Accounted, UNCHANGED <<chaos, trace>>, injector'.todo = injector.todo,
         injector'.pc = "ended" <=> injector.pc = "ended"
  PROVE  Accounted'
BY DEF Accounted, Pending

LEMMA AccountedFire == ASSUME TrainInv, Accounted, Fire PROVE Accounted'
<1> DEFINE todo == injector.todo
           found == Head(todo).fault = "B1" /\ Head(todo).target \notin reaped
           rec == Record(Head(todo), found)
<1>1. injector.pc = "firing" /\ todo # << >> /\ todo \in Seq(TraceEvents)
  BY Types DEF Fire, Due
<1>2. chaos' = Append(chaos, rec) /\ trace' = trace /\ rec.event = Head(todo)
  BY DEF Fire, Record
<1>3. injector'.pc = "firing" /\ injector'.todo = Tail(todo)
  BY <1>1, Types DEF Fire
<1>4. /\ Len(todo) \in Nat /\ Len(todo) > 0 /\ Head(todo) = todo[1]
      /\ Len(Tail(todo)) = Len(todo) - 1
      /\ \A i \in 1..Len(Tail(todo)) : Tail(todo)[i] = todo[i + 1]
  BY <1>1
<1>5. chaos \in Seq(TraceRecords)
  BY Types
<1> HIDE DEF rec
<1>6. /\ Len(chaos) \in Nat /\ Len(chaos') = Len(chaos) + 1
      /\ \A i \in 1..Len(chaos) : chaos'[i] = chaos[i]
      /\ chaos'[Len(chaos) + 1] = rec
  BY <1>2, <1>5
<1>7. Pending = Len(todo) /\ Pending' = Len(todo) - 1
  BY <1>1, <1>3, <1>4 DEF Pending
<1> HIDE DEF todo
<1>8. /\ Len(chaos) + Len(todo) = Len(trace)
      /\ \A i \in 1..Len(chaos) : chaos[i].event = trace[i]
      /\ \A i \in 1..Len(todo) : todo[i] = trace[Len(chaos) + i]
  BY <1>7 DEF Accounted, todo
<1>9. Len(chaos') + Pending' = Len(trace')
  <2>1. trace' = trace /\ Len(todo) \in Nat /\ Len(chaos) \in Nat
    BY <1>2, <1>4, <1>6
  <2>2. Len(chaos') = Len(chaos) + 1 /\ Pending' = Len(todo) - 1
    BY <1>6, <1>7
  <2>3. Len(chaos) + Len(todo) = Len(trace)
    BY <1>8
  <2> QED
    BY <2>1, <2>2, <2>3
<1>10. ASSUME NEW i \in 1..Len(chaos') PROVE chaos'[i].event = trace'[i]
  <2>1. CASE i \in 1..Len(chaos)
    BY <1>2, <1>6, <1>8, <2>1
  <2>2. CASE i = Len(chaos) + 1
    <3>1. todo[1] = trace[Len(chaos) + 1]
      BY <1>4, <1>8
    <3> QED
      BY <1>2, <1>4, <1>6, <2>2, <3>1
  <2> QED
    BY <1>6, <2>1, <2>2
<1>11. ASSUME NEW i \in 1..Pending' PROVE injector'.todo[i] = trace'[Len(chaos') + i]
  <2>1. i + 1 \in 1..Len(todo) /\ i \in 1..Len(Tail(todo))
    BY <1>4, <1>7
  <2>2. todo[i + 1] = trace[Len(chaos) + (i + 1)]
    BY <1>8, <2>1
  <2>3. Len(chaos) + (i + 1) = Len(chaos') + i
    BY <1>6, <1>7, <1>4
  <2>4. injector'.todo[i] = todo[i + 1]
    BY <1>3, <1>4, <2>1
  <2> QED
    BY <1>2, <2>2, <2>3, <2>4
<1> QED
  BY <1>9, <1>10, <1>11 DEF Accounted

LEMMA UndeliveredTypes ==
  ASSUME TrainInv
  PROVE  /\ Undelivered \in Seq(TraceRecords) /\ Len(Undelivered) = Len(injector.todo)
         /\ \A i \in 1..Len(injector.todo) : Undelivered[i].event = injector.todo[i]
         /\ \A i \in 1..Len(Undelivered) : ~Undelivered[i].fired
<1> DEFINE todo == injector.todo
<1>1. todo \in Seq(TraceEvents)
  BY Types
<1>2. /\ DOMAIN todo = 1..Len(todo) /\ Len(todo) \in Nat
      /\ \A i \in 1..Len(todo) : todo[i] \in TraceEvents
  BY <1>1
<1>3. \A i \in 1..Len(todo) : Record(todo[i], FALSE) \in TraceRecords
  BY <1>2, Types, TrainingAssumption DEF Record, StepLog, TraceRecords, Ranks
<1> HIDE DEF todo
<1>4. Undelivered = [i \in 1..Len(todo) |-> Record(todo[i], FALSE)]
  BY <1>2 DEF Undelivered, todo
<1>5. Undelivered \in Seq(TraceRecords) /\ Len(Undelivered) = Len(todo)
  <2>1. Undelivered \in [1..Len(todo) -> TraceRecords]
    BY <1>3, <1>4
  <2> QED
    BY <1>2, <2>1, SeqDef
<1>6. \A i \in 1..Len(todo) : Undelivered[i].event = todo[i] /\ ~Undelivered[i].fired
  BY <1>4 DEF Record
<1> QED
  BY <1>5, <1>6 DEF todo

(* _record_undelivered writes what is pending behind what is there.        *)
LEMMA AccountedEndPass == ASSUME TrainInv, Accounted, EndPass PROVE Accounted'
<1> DEFINE todo == injector.todo
<1>1. injector.pc = "firing" /\ todo \in Seq(TraceEvents) /\ trace' = trace
  BY Types DEF EndPass
<1>2. Pending = Len(todo) /\ Len(todo) \in Nat
  BY <1>1 DEF Pending
<1>3. CASE todo = << >> \/ NoneAlive
  <2>1. injector'.pc = "ended" /\ chaos' = chaos \o Undelivered
    BY <1>3, Types DEF EndPass
  <2>2. chaos \in Seq(TraceRecords)
    BY Types
  <2>6. Undelivered \in Seq(TraceRecords) /\ Len(Undelivered) = Len(todo)
    BY UndeliveredTypes
  <2>7. \A i \in 1..Len(todo) : Undelivered[i].event = todo[i]
    BY UndeliveredTypes
  <2> HIDE DEF todo
  <2>8. /\ Len(chaos') = Len(chaos) + Len(todo) /\ Len(chaos) \in Nat
        /\ \A i \in 1..Len(chaos) : chaos'[i] = chaos[i]
        /\ \A i \in 1..Len(todo) : chaos'[Len(chaos) + i] = Undelivered[i]
    <3>1. /\ Len(chaos \o Undelivered) = Len(chaos) + Len(Undelivered)
          /\ \A i \in 1..(Len(chaos) + Len(Undelivered)) :
               (chaos \o Undelivered)[i] = IF i <= Len(chaos) THEN chaos[i]
                                                             ELSE Undelivered[i - Len(chaos)]
      BY <2>2, <2>6, ConcatProperties
    <3>2. Len(chaos) \in Nat
      BY <2>2
    <3>3. ASSUME NEW i \in 1..Len(chaos) PROVE chaos'[i] = chaos[i]
      BY <1>2, <2>1, <2>6, <3>1, <3>2
    <3>4. ASSUME NEW i \in 1..Len(todo) PROVE chaos'[Len(chaos) + i] = Undelivered[i]
      <4>1. /\ Len(chaos) + i \in 1..(Len(chaos) + Len(Undelivered))
            /\ ~(Len(chaos) + i <= Len(chaos)) /\ (Len(chaos) + i) - Len(chaos) = i
        BY <1>2, <2>6, <3>2
      <4> QED
        BY <2>1, <3>1, <4>1
    <3> QED
      BY <2>1, <2>6, <3>1, <3>2, <3>3, <3>4
  <2>9. Pending' = 0
    BY <2>1 DEF Pending
  <2>10. /\ Len(chaos) + Len(todo) = Len(trace)
         /\ \A i \in 1..Len(chaos) : chaos[i].event = trace[i]
         /\ \A i \in 1..Len(todo) : todo[i] = trace[Len(chaos) + i]
    BY <1>2 DEF Accounted, todo
  <2>11. ASSUME NEW i \in 1..Len(chaos') PROVE chaos'[i].event = trace'[i]
    <3>1. CASE i \in 1..Len(chaos)
      BY <1>1, <2>8, <2>10, <3>1
    <3>2. CASE i \notin 1..Len(chaos)
      <4>1. /\ i - Len(chaos) \in 1..Len(todo)
            /\ i = Len(chaos) + (i - Len(chaos))
        BY <1>2, <2>8, <3>2
      <4> QED
        BY <1>1, <2>7, <2>8, <2>10, <4>1
    <3> QED
      BY <3>1, <3>2
  <2> QED
    BY <1>1, <1>2, <2>8, <2>9, <2>10, <2>11 DEF Accounted
<1>4. CASE ~(todo = << >> \/ NoneAlive)
  <2>1. injector'.pc = "polling" /\ injector'.todo = todo /\ chaos' = chaos
    BY <1>4, Types DEF EndPass
  <2> QED
    BY <1>1, <2>1, AccountedStutters
<1> QED
  BY <1>3, <1>4

LEMMA AccountedKeeps == ASSUME TrainInv, Accounted, [Next]_vars PROVE Accounted'
<1>1. CASE \/ \E r \in Ranks : Enter(r) \/ Finish(r) \/ Halt(r) \/ Exit(r) \/ Poll(r)
           \/ WaitReturns \/ Deadline \/ UNCHANGED vars
  <2>1. UNCHANGED <<injector, chaos, trace>>
    BY <1>1 DEF Enter, Finish, Halt, Exit, Poll, WaitReturns, Deadline, vars
  <2> QED
    BY <2>1, AccountedStutters
<1>2. CASE Observe \/ FireRaises \/ Close \/ Tick
  <2>1. UNCHANGED <<chaos, trace>>
    BY <1>2 DEF Observe, FireRaises, Close, Tick
  <2>2. injector'.todo = injector.todo /\ (injector'.pc = "ended" <=> injector.pc = "ended")
    BY <1>2, Types DEF Observe, FireRaises, Close, Tick, InjectorEnded
  <2> QED
    BY <2>1, <2>2, AccountedStutters
<1> QED
  BY <1>1, <1>2, AccountedFire, AccountedEndPass DEF Next

-----------------------------------------------------------------------------
(* The launcher reaps the ranks in their order.                            *)
LEMMA ReapedKeeps == ASSUME TrainInv, ReapedInTurn, [Next]_vars PROVE ReapedInTurn'
<1>1. /\ launcher \in [pc : {"waiting", "draining", "closed"}, on : Ranks,
                       late : BOOLEAN, timer : 0..DrainTimeout]
      /\ reaped \subseteq Ranks /\ World \in Nat
  BY Types, TrainingAssumption
<1>2. CASE WaitReturns
  <2> DEFINE on == launcher.on
  <2>1. /\ launcher.pc = "waiting" /\ reaped' = reaped \cup {on}
        /\ launcher' = IF on + 1 = World THEN [launcher EXCEPT !.pc = "draining"]
                                         ELSE [launcher EXCEPT !.on = on + 1]
    BY <1>2 DEF WaitReturns, Onward
  <2>2. SUFFICES ASSUME ~launcher'.late
                 PROVE  /\ launcher'.pc = "waiting" => \A r \in Ranks : r < launcher'.on => r \in reaped'
                        /\ launcher'.pc # "waiting" => reaped' = Ranks
    BY DEF ReapedInTurn
  <2>3. on \in Ranks /\ ~launcher.late
    BY <1>1, <2>1, <2>2
  <2>4. \A r \in Ranks : r < on => r \in reaped
    BY <2>1, <2>3 DEF ReapedInTurn
  <2>5. \A r \in Ranks : r < on + 1 => r \in reaped'
    BY <2>1, <2>3, <2>4 DEF Ranks
  <2>6. CASE on + 1 = World
    <3>1. launcher'.pc = "draining"
      BY <1>1, <2>1, <2>6
    <3>2. \A r \in Ranks : r < on + 1
      BY <1>1, <2>6 DEF Ranks
    <3>3. reaped' \subseteq Ranks
      BY <1>1, <2>1, <2>3
    <3> QED
      BY <2>5, <3>1, <3>2, <3>3
  <2>7. CASE on + 1 # World
    BY <1>1, <2>1, <2>5, <2>7
  <2> QED
    BY <2>6, <2>7
<1>3. CASE Deadline
  BY <1>1, <1>3 DEF Deadline, Onward, ReapedInTurn
<1>4. CASE Close
  BY <1>1, <1>4 DEF Close, TerminateAll, ReapedInTurn
<1>5. CASE Tick
  BY <1>1, <1>5 DEF Tick, ReapedInTurn
<1>6. CASE \/ \E r \in Ranks : Enter(r) \/ Finish(r) \/ Halt(r) \/ Exit(r) \/ Poll(r)
           \/ Observe \/ Fire \/ FireRaises \/ EndPass \/ UNCHANGED vars
  <2>1. UNCHANGED <<reaped, launcher>>
    BY <1>6 DEF Enter, Finish, Halt, Exit, Poll, Observe, Fire, FireRaises, EndPass, vars
  <2> QED
    BY <2>1 DEF ReapedInTurn
<1> QED
  BY <1>2, <1>3, <1>4, <1>5, <1>6 DEF Next

(* Once all ranks are reaped a pass of the injector is its last, and time  *)
(* does not pass without one.                                              *)
LEMMA EndsKeepsTime ==
  ASSUME TrainInv, ReapedInTurn, EndsInTime, [Next]_vars
  PROVE  EndsInTime'
<1>1. /\ injector \in [pc : {"polling", "firing", "ended", "raised", "terminated"},
                       seen : 0..Steps, todo : Seq(TraceEvents), passed : BOOLEAN]
      /\ launcher \in [pc : {"waiting", "draining", "closed"}, on : Ranks,
                       late : BOOLEAN, timer : 0..DrainTimeout]
      /\ DrainTimeout \in Nat /\ DrainTimeout > 1
  BY Types, TrainingAssumption
<1>2. CASE WaitReturns \/ Deadline
  <2>1. /\ injector' = injector /\ launcher.pc = "waiting"
        /\ launcher'.pc \in {"waiting", "draining"} /\ launcher'.timer = launcher.timer
    BY <1>1, <1>2 DEF WaitReturns, Deadline, Onward
  <2> QED
    BY <2>1 DEF EndsInTime, InjectorEnded
<1>3. CASE Close
  <2>1. /\ launcher.pc = "draining" /\ launcher'.pc = "closed" /\ launcher'.late = launcher.late
        /\ InjectorEnded \/ launcher.timer = DrainTimeout
        /\ injector' = IF InjectorEnded THEN injector ELSE [injector EXCEPT !.pc = "terminated"]
    BY <1>1, <1>3 DEF Close
  <2>2. CASE InjectorEnded
    BY <2>1, <2>2 DEF EndsInTime, InjectorEnded
  <2>3. CASE ~InjectorEnded
    <3>1. launcher.late
      BY <1>1, <2>1, <2>3 DEF EndsInTime
    <3>2. injector'.pc = "terminated"
      BY <1>1, <2>1, <2>3
    <3> QED
      BY <2>1, <3>1, <3>2 DEF EndsInTime
  <2> QED
    BY <2>2, <2>3
<1>4. CASE Tick
  <2>1. /\ launcher.pc # "closed" /\ Settled
        /\ injector' = [injector EXCEPT !.passed = FALSE]
        /\ launcher' = IF launcher.pc = "draining" THEN [launcher EXCEPT !.timer = @ + 1]
                                                   ELSE launcher
    BY <1>4 DEF Tick
  <2>2. ~injector'.passed /\ injector'.pc = injector.pc
    BY <1>1, <2>1
  <2>3. CASE launcher.pc = "waiting"
    BY <2>1, <2>2, <2>3 DEF EndsInTime, InjectorEnded
  <2>4. CASE launcher.pc = "draining"
    <3>1. /\ launcher'.pc = "draining" /\ launcher'.late = launcher.late
          /\ launcher'.timer = launcher.timer + 1
      BY <1>1, <2>1, <2>4
    <3>2. ~InjectorEnded /\ injector.pc # "firing" /\ (injector.pc = "polling" => injector.passed)
      BY <2>1, <2>4 DEF Settled
    <3>3. ~launcher.late => launcher.timer = 0
      BY <1>1, <2>4, <3>2 DEF EndsInTime, InjectorEnded
    <3>4. injector.pc # "terminated"
      BY <2>4 DEF EndsInTime
    <3> QED
      BY <2>2, <3>1, <3>2, <3>3, <3>4 DEF EndsInTime
  <2> QED
    BY <1>1, <2>1, <2>3, <2>4
<1>5. CASE Observe
  <2>1. /\ injector.pc = "polling" /\ ~injector.passed /\ launcher' = launcher
        /\ injector'.pc = "firing" /\ ~injector'.passed
    BY <1>1, <1>5 DEF Observe
  <2> QED
    BY <2>1 DEF EndsInTime, InjectorEnded
<1>6. CASE Fire
  <2>1. /\ injector.pc = "firing" /\ launcher' = launcher
        /\ injector'.pc = "firing" /\ injector'.passed = injector.passed
    BY <1>1, <1>6 DEF Fire
  <2> QED
    BY <2>1 DEF EndsInTime, InjectorEnded
<1>7. CASE FireRaises
  <2>1. launcher' = launcher /\ injector'.pc = "raised"
    BY <1>1, <1>7 DEF FireRaises
  <2> QED
    BY <2>1 DEF EndsInTime, InjectorEnded
<1>8. CASE EndPass
  <2>1. injector.pc = "firing" /\ launcher' = launcher
    BY <1>8 DEF EndPass
  <2>2. CASE injector.todo = << >> \/ NoneAlive
    <3>1. injector'.pc = "ended"
      BY <1>1, <1>8, <2>2 DEF EndPass
    <3> QED
      BY <2>1, <3>1 DEF EndsInTime, InjectorEnded
  <2>3. CASE ~(injector.todo = << >> \/ NoneAlive)
    <3>1. injector'.pc = "polling"
      BY <1>1, <1>8, <2>3 DEF EndPass
    <3>2. launcher.late \/ launcher.pc = "waiting"
      BY <2>3 DEF ReapedInTurn, NoneAlive
    <3> QED
      BY <2>1, <3>1, <3>2 DEF EndsInTime, InjectorEnded
  <2> QED
    BY <2>2, <2>3
<1>9. CASE \/ \E r \in Ranks : Enter(r) \/ Finish(r) \/ Halt(r) \/ Exit(r) \/ Poll(r)
           \/ UNCHANGED vars
  <2>1. UNCHANGED <<injector, launcher>>
    BY <1>9 DEF Enter, Finish, Halt, Exit, Poll, vars
  <2> QED
    BY <2>1 DEF EndsInTime, InjectorEnded
<1> QED
  BY <1>2, <1>3, <1>4, <1>5, <1>6, <1>7, <1>8, <1>9 DEF Next

-----------------------------------------------------------------------------
(* Nobody rises from the dead, and only a live rank enters a collective.   *)
LEMMA EndedStays ==
  ASSUME TrainInv, [Next]_vars, NEW p \in Ranks \ Running
  PROVE  p \in Ranks \ Running' /\ entered'[p] = entered[p]
<1>1. /\ entered \in [Ranks -> 0..Steps] /\ status \in [Ranks -> {"running", "exited", "killed"}]
      /\ launcher.on \in Ranks
  BY Types
<1>2. ASSUME NEW q \in Ranks, NEW how \in {"exited", "killed"}, Ends(q, how)
      PROVE  p \notin Running'
  BY <1>1, <1>2 DEF Ends, Running
<1>3. CASE \E r \in Ranks : Exit(r)
  <2>1. entered' = entered
    BY <1>3 DEF Exit
  <2> QED
    BY <1>2, <1>3, <2>1 DEF Exit
<1>4. ASSUME NEW q \in Running, Kill(q)
      PROVE  p \notin Running' /\ entered'[p] = entered[p]
  BY <1>1, <1>2, <1>4 DEF Kill, Running
<1>5. CASE \E r \in Ranks : Enter(r) \/ Finish(r) \/ Halt(r) \/ Poll(r)
  <2>1. PICK r \in Ranks : Enter(r) \/ Finish(r) \/ Halt(r) \/ Poll(r)
    BY <1>5
  <2>2. status' = status
    BY <2>1 DEF Enter, Finish, Halt, Poll
  <2>3. entered'[p] = entered[p]
    BY <1>1, <2>1 DEF Enter, Finish, Halt, Poll
  <2> QED
    BY <2>2, <2>3 DEF Running
<1>6. CASE Fire
  BY <1>4, <1>6 DEF Fire, ranks, Running
<1>7. CASE Deadline
  BY <1>4, <1>7 DEF Deadline
<1>8. CASE Observe \/ FireRaises \/ EndPass \/ WaitReturns \/ Close \/ Tick \/ UNCHANGED vars
  BY <1>8 DEF Observe, FireRaises, EndPass, WaitReturns, Close, Tick, vars, ranks, Running
<1> QED
  BY <1>3, <1>5, <1>6, <1>7, <1>8 DEF Next

(* Rank 0 logs a step only when it leaves a collective the target of each  *)
(* fault had entered, or never will have.                                  *)
LEMMA LogGrows ==
  ASSUME TrainInv, [Next]_vars, NEW p \in Ranks
  PROVE  StepLog' = StepLog \/ StepLog' <= entered[p]
<1>1. done \in [Ranks -> 0..Steps] /\ entered \in [Ranks -> 0..Steps] /\ 0 \in Ranks
  <2>1. 0 \in Ranks
    BY TrainingAssumption DEF Ranks
  <2> QED BY <2>1, Types
<1>2. CASE \E r \in Ranks : Finish(r)
  <2>1. PICK r \in Ranks : Finish(r)
    BY <1>2
  <2>2. done' = [done EXCEPT ![r] = @ + 1] /\ entered[r] = done[r] + 1 /\ entered[p] >= entered[r]
    BY <2>1 DEF Finish, Touch, CanFinish, Inside
  <2> QED
    BY <1>1, <2>2 DEF StepLog
<1>3. CASE \/ \E r \in Ranks : Enter(r) \/ Halt(r) \/ Exit(r) \/ Poll(r)
           \/ Observe \/ Fire \/ FireRaises \/ EndPass
           \/ WaitReturns \/ Deadline \/ Close \/ Tick \/ UNCHANGED vars
  <2>1. done' = done
    BY <1>3 DEF Enter, Halt, Exit, Poll, Ends, Kill, Observe, Fire, FireRaises, EndPass,
                WaitReturns, Deadline, Close, Tick, vars, ranks
  <2> QED
    BY <2>1 DEF StepLog
<1> QED
  BY <1>2, <1>3 DEF Next

LEMMA LogBoundedKeeps ==
  ASSUME TrainInv, TrainInv', LogBounded, [Next]_vars
  PROVE  LogBounded'
<1> DEFINE Bounded(rec) == rec.fired => /\ rec.event.target \in Ranks \ Running
                                        /\ \/ StepLog <= rec.logged
                                           \/ StepLog <= entered[rec.event.target]
<1>1. chaos \in Seq(TraceRecords) /\ StepLog \in Nat /\ StepLog' \in Nat
  <2>1. chaos \in Seq(TraceRecords) /\ done \in [Ranks -> 0..Steps]
    BY Types
  <2>2. done' \in [Ranks -> 0..Steps]
    BY DEF TrainInv, TypeOK
  <2>3. 0 \in Ranks /\ Steps \in Nat
    BY TrainingAssumption DEF Ranks
  <2> QED
    BY <2>1, <2>2, <2>3 DEF StepLog
<1>2. \A i \in 1..Len(chaos) : Bounded(chaos[i])
  BY DEF LogBounded
<1>3. ASSUME NEW rec \in TraceRecords, Bounded(rec)
      PROVE  rec.fired => /\ rec.event.target \in Ranks \ Running'
                          /\ \/ StepLog' <= rec.logged
                             \/ StepLog' <= entered'[rec.event.target]
  BY <1>1, <1>3, EndedStays, LogGrows
<1>4. \A i \in 1..Len(chaos) : chaos[i] \in TraceRecords
  BY <1>1
<1>5. CASE chaos' = chaos
  <2>1. ASSUME NEW i \in 1..Len(chaos')
        PROVE  chaos'[i].fired => /\ chaos'[i].event.target \in Ranks \ Running'
                                  /\ \/ StepLog' <= chaos'[i].logged
                                     \/ StepLog' <= entered'[chaos'[i].event.target]
    BY <1>2, <1>3, <1>4, <1>5
  <2> QED
    BY <2>1 DEF LogBounded
<1>6. CASE Fire
  <2> DEFINE event == Head(injector.todo)
             found == event.fault = "B1" /\ event.target \notin reaped
             rec == Record(event, found)
  <2>1. chaos' = Append(chaos, rec)
    BY <1>6 DEF Fire
  <2>2. rec.event = event /\ rec.fired = found /\ rec.logged = StepLog
    BY DEF Record
  <2>3. event.target \in Ranks
    <3>1. injector.todo \in Seq(TraceEvents) /\ injector.todo # << >>
      BY <1>6, Types DEF Fire, Due
    <3>2. event \in TraceEvents
      BY <3>1, HeadTailProperties
    <3> QED
      BY <3>2 DEF TraceEvents
  <2>4. StepLog' = StepLog
    BY <1>6 DEF Fire, Kill, Ends, ranks, StepLog
  <2>5. found => event.target \notin Running'
    <3>1. CASE event.target \in Running
      BY <1>6, <2>3, <3>1, Types DEF Fire, Kill, Ends, Running
    <3>2. CASE event.target \notin Running
      BY <2>3, <3>2, EndedStays
    <3> QED
      BY <3>1, <3>2
  <2> HIDE DEF rec, event, found
  <2>6. /\ Len(chaos) \in Nat /\ Len(chaos') = Len(chaos) + 1
        /\ \A i \in 1..Len(chaos) : chaos'[i] = chaos[i]
        /\ chaos'[Len(chaos) + 1] = rec
    BY <1>1, <2>1
  <2>7. ASSUME NEW i \in 1..Len(chaos')
        PROVE  chaos'[i].fired => /\ chaos'[i].event.target \in Ranks \ Running'
                                  /\ \/ StepLog' <= chaos'[i].logged
                                     \/ StepLog' <= entered'[chaos'[i].event.target]
    <3>1. CASE i \in 1..Len(chaos)
      BY <1>2, <1>3, <1>4, <2>6, <3>1
    <3>2. CASE i = Len(chaos) + 1
      BY <1>1, <2>2, <2>3, <2>4, <2>5, <2>6, <3>2
    <3> QED
      BY <2>6, <3>1, <3>2
  <2> QED
    BY <2>7 DEF LogBounded
<1>7. CASE EndPass /\ chaos' # chaos
  <2>1. chaos' = chaos \o Undelivered
    BY <1>7 DEF EndPass
  <2>2. /\ Undelivered \in Seq(TraceRecords)
        /\ \A i \in 1..Len(Undelivered) : ~Undelivered[i].fired
    BY UndeliveredTypes
  <2>3. /\ Len(chaos) \in Nat /\ Len(Undelivered) \in Nat
        /\ Len(chaos') = Len(chaos) + Len(Undelivered)
        /\ \A i \in 1..Len(chaos') : chaos'[i] = IF i <= Len(chaos) THEN chaos[i]
                                                  ELSE Undelivered[i - Len(chaos)]
    BY <1>1, <2>1, <2>2, ConcatProperties
  <2>4. ASSUME NEW i \in 1..Len(chaos')
        PROVE  chaos'[i].fired => /\ chaos'[i].event.target \in Ranks \ Running'
                                  /\ \/ StepLog' <= chaos'[i].logged
                                     \/ StepLog' <= entered'[chaos'[i].event.target]
    <3>1. CASE i <= Len(chaos)
      BY <1>2, <1>3, <1>4, <2>3, <3>1
    <3>2. CASE ~(i <= Len(chaos))
      <4>1. i - Len(chaos) \in 1..Len(Undelivered)
        BY <2>3, <3>2
      <4> QED
        BY <2>2, <2>3, <3>2, <4>1
    <3> QED
      BY <3>1, <3>2
  <2> QED
    BY <2>4 DEF LogBounded
<1>8. Fire \/ EndPass \/ chaos' = chaos
  BY DEF Next, Enter, Finish, Halt, Exit, Poll, Observe, FireRaises, WaitReturns, Deadline,
         Close, Tick, vars
<1> QED
  BY <1>5, <1>6, <1>7, <1>8

LEMMA ExitsKeep == ASSUME TrainInv, ExitsSayWhy, [Next]_vars PROVE ExitsSayWhy'
<1>1. /\ status \in [Ranks -> {"running", "exited", "killed"}]
      /\ done \in [Ranks -> 0..Steps] /\ launcher.on \in Ranks
  BY Types
<1>2. ASSUME NEW p \in Ranks, Kill(p) PROVE ExitsSayWhy'
  BY <1>1, <1>2 DEF Kill, Ends, ExitsSayWhy
<1>3. CASE \E r \in Ranks : Exit(r)
  BY <1>1, <1>3 DEF Exit, Ends, ExitsSayWhy
<1>4. CASE \E r \in Ranks : Finish(r)
  BY <1>1, <1>4 DEF Finish, CanFinish, Inside, Running, Touch, ExitsSayWhy
<1>5. CASE \E r \in Ranks : Enter(r) \/ Halt(r) \/ Poll(r)
  BY <1>5 DEF Enter, Halt, Poll, ExitsSayWhy
<1>6. CASE Fire
  BY <1>2, <1>6 DEF Fire, Running, ranks, ExitsSayWhy
<1>7. CASE Deadline
  BY <1>1, <1>2, <1>7 DEF Deadline
<1>8. CASE Observe \/ FireRaises \/ EndPass \/ WaitReturns \/ Close \/ Tick \/ UNCHANGED vars
  BY <1>8 DEF Observe, FireRaises, EndPass, WaitReturns, Close, Tick, vars, ranks, ExitsSayWhy
<1> QED
  BY <1>3, <1>4, <1>5, <1>6, <1>7, <1>8 DEF Next

-----------------------------------------------------------------------------
ConditionInv == TrainInv /\ Accounted /\ ReapedInTurn /\ EndsInTime /\ LogBounded /\ ExitsSayWhy

LEMMA ConditionInit == Init => ConditionInv
<1> SUFFICES ASSUME Init PROVE ConditionInv
  OBVIOUS
<1>1. TrainInv
  BY InitHolds
<1>2. chaos = << >> /\ Len(chaos) = 0 /\ injector.pc = "polling" /\ injector.todo = trace
  BY DEF Init
<1>3. Accounted
  <2>1. trace \in Seq(TraceEvents)
    BY <1>1, Types
  <2>2. Len(trace) \in Nat
    BY <2>1
  <2> QED
    BY <1>2, <2>2 DEF Accounted, Pending
<1>4. LogBounded
  BY <1>2 DEF LogBounded
<1>5. ReapedInTurn /\ EndsInTime
  BY TrainingAssumption DEF Init, ReapedInTurn, EndsInTime, Ranks
<1>6. ExitsSayWhy
  BY DEF Init, ExitsSayWhy
<1> QED
  BY <1>1, <1>3, <1>4, <1>5, <1>6 DEF ConditionInv

LEMMA ConditionInvariant == Spec => []ConditionInv
<1>1. TrainInv /\ TrainInv' /\ ConditionInv /\ [Next]_vars => ConditionInv'
  BY AccountedKeeps, ReapedKeeps, EndsKeepsTime, LogBoundedKeeps, ExitsKeep DEF ConditionInv
<1> QED
  BY <1>1, ConditionInit, TrainingInvariant, PTL DEF Spec

(* Whatever the trace, whoever is killed and when: a condition that ends   *)
(* within its deadline leaves one chaos record per event, in the trace's   *)
(* order (_record_undelivered, run_condition).                             *)
THEOREM TraceIsAccounted == Spec => []TraceAccounted
<1>1. ConditionInv => TraceAccounted
  <2> SUFFICES ASSUME ConditionInv, launcher.pc = "closed", ~launcher.late, injector.pc # "raised"
               PROVE  /\ Len(chaos) = Len(trace)
                      /\ \A i \in 1..Len(trace) : chaos[i].event = trace[i]
    BY DEF TraceAccounted
  <2>1. injector.pc = "ended"
    BY DEF ConditionInv, EndsInTime, InjectorEnded
  <2>2. chaos \in Seq(TraceRecords)
    BY Types DEF ConditionInv
  <2>3. Len(chaos) \in Nat /\ Pending = 0
    BY <2>1, <2>2 DEF Pending
  <2>4. Len(chaos) + Pending = Len(trace) /\ \A i \in 1..Len(chaos) : chaos[i].event = trace[i]
    BY DEF ConditionInv, Accounted
  <2> QED
    BY <2>3, <2>4
<1> QED
  BY <1>1, ConditionInvariant, PTL

(* No step is logged beyond those the dead rank had entered, so the step a *)
(* row names was in flight (compute_recovery_gap).                         *)
THEOREM NothingResumes == Spec => []ResumeIsInFlight
<1>1. ConditionInv => ResumeIsInFlight
  <2> SUFFICES ASSUME ConditionInv, NEW i \in DOMAIN chaos, Results[i].resume # None,
                      NEW later \in Results[i].resume..StepLog
               PROVE  later <= entered[chaos[i].event.target]
    BY DEF ResumeIsInFlight
  <2>1. chaos \in Seq(TraceRecords) /\ done \in [Ranks -> 0..Steps] /\ entered \in [Ranks -> 0..Steps]
    BY Types DEF ConditionInv
  <2>2. i \in 1..Len(chaos) /\ chaos[i] \in TraceRecords
    BY <2>1
  <2>3. chaos[i].fired /\ Results[i].resume = Resume(chaos[i])
    BY DEF Results, Row
  <2>4. StepLog > chaos[i].logged
    BY <2>3 DEF Resume
  <2>5. StepLog \in Nat /\ chaos[i].logged \in Nat
    BY <2>1, <2>2, TrainingAssumption DEF StepLog, Ranks, TraceRecords
  <2>6. /\ StepLog <= chaos[i].logged \/ StepLog <= entered[chaos[i].event.target]
        /\ chaos[i].event.target \in Ranks
    BY <2>2, <2>3 DEF ConditionInv, LogBounded
  <2>7. entered[chaos[i].event.target] \in Nat
    BY <2>1, <2>6, TrainingAssumption
  <2>8. StepLog <= entered[chaos[i].event.target]
    BY <2>4, <2>5, <2>6
  <2> QED
    BY <2>3, <2>4, <2>5, <2>7, <2>8 DEF Resume
<1> QED
  BY <1>1, ConditionInvariant, PTL

(* A halt is never hidden: where no record says that the job halted, every *)
(* rank finished, was killed, or had halted before the fault               *)
(* (align_fault_events).                                                   *)
THEOREM HaltIsTold == Spec => []HaltTold
<1>1. ConditionInv => HaltTold
  <2> SUFFICES ASSUME ConditionInv, Reported, NEW i \in DOMAIN chaos,
                      Results[i].fired, ~Results[i].halted, NEW r \in Ranks \ chaos[i].halted
               PROVE  done[r] = Steps \/ status[r] = "killed"
    BY DEF HaltTold
  <2>1. status[r] # "running"
    BY DEF Reported, ConditionInv, TrainInv, NoneLeftBehind, Running
  <2>2. chaos[i].fired => Results[i].halted = JobHalted(chaos[i])
    BY DEF Results, Row
  <2>3. chaos[i].fired
    BY DEF Results, Row
  <2>4. r \notin halted
    BY <2>2, <2>3 DEF JobHalted
  <2>5. status[r] \in {"running", "exited", "killed"}
    BY Types DEF ConditionInv
  <2> QED
    BY <2>1, <2>4, <2>5 DEF ConditionInv, ExitsSayWhy
<1> QED
  BY <1>1, ConditionInvariant, PTL

-----------------------------------------------------------------------------
(* What makes DeathSeen hold: while r waits in a collective, the heartbeat *)
(* of every rank that has not done the step grows old with the wait.       *)
Behind(p, r) == done[p] < entered[r] /\ done[p] > 0

FreshEntry   == \A r \in Ranks : entered[r] = done[r] => waited[r] = 0
EnteredByAll == \A r, p \in Ranks : status[p] # "killed" => done[r] <= entered[p]

(* A rank that can leave its collective does so before time passes, so     *)
(* nobody has waited a step ahead of it yet.                               *)
NoWaitForFinisher ==
  \A r, p \in Ranks : CanFinish(p) /\ Inside(r) /\ entered[p] < entered[r] => waited[r] = 0

AgesWithWait ==
  \A r, p \in Ranks : Inside(r) /\ Behind(p, r) =>
    waited[r] <= age[p] \/ age[p] > HeartbeatTimeout

(* A tick later the sensor of r has polled.                                *)
SeenByPoll ==
  \A r, p \in Ranks : Inside(r) /\ Behind(p, r) /\ p # r =>
    /\ waited[r] > HeartbeatTimeout + 1 => p \in reported[r]
    /\ waited[r] > HeartbeatTimeout /\ r \in polled => p \in reported[r]

WaitsAreSeen == FreshEntry /\ EnteredByAll /\ NoWaitForFinisher /\ AgesWithWait /\ SeenByPoll

(* Who is killed by a fault has done a step, and has a heartbeat.          *)
KillsComeLater == \A t \in Traces : \A i \in 1..Len(t) : t[i].fault = "B1" => t[i].step > 0

KilledStarted ==
  /\ ~launcher.late => \A p \in Ranks : status[p] = "killed" => done[p] > 0
  /\ injector.seen <= StepLog
  /\ \A i \in 1..Len(injector.todo) :
       injector.todo[i].fault = "B1" => injector.todo[i].step > 0

LEMMA Clocks ==
  ASSUME TrainInv
  PROVE  /\ \A r \in Ranks : /\ done[r] \in Nat /\ entered[r] \in Nat
                             /\ waited[r] \in Nat /\ age[r] \in Nat
                             /\ done[r] <= entered[r] /\ entered[r] <= done[r] + 1
                             /\ age[r] <= HeartbeatTimeout + 1
         /\ HeartbeatTimeout \in Nat /\ CollectiveTimeout \in Nat
         /\ HeartbeatTimeout + 1 < CollectiveTimeout
         /\ DOMAIN done = Ranks /\ DOMAIN entered = Ranks /\ DOMAIN waited = Ranks
         /\ DOMAIN age = Ranks /\ DOMAIN reported = Ranks /\ DOMAIN status = Ranks
<1>1. /\ done \in [Ranks -> Nat] /\ entered \in [Ranks -> Nat]
      /\ waited \in [Ranks -> Nat] /\ age \in [Ranks -> 0..HeartbeatTimeout + 1]
  BY TrainingAssumption DEF TrainInv, TypeOK
<1>2. /\ DOMAIN reported = Ranks /\ DOMAIN status = Ranks
  BY DEF TrainInv, TypeOK
<1>3. \A r \in Ranks : done[r] <= entered[r] /\ entered[r] <= done[r] + 1
  BY DEF TrainInv, OneStepOpen
<1> QED BY <1>1, <1>2, <1>3, TrainingAssumption

(* A step that leaves the ranks alone.                                     *)
LEMMA SeenStill == ASSUME WaitsAreSeen, UNCHANGED ranks PROVE WaitsAreSeen'
<1>1. UNCHANGED <<status, done, entered, waited, age, halted, reported, polled>>
  BY DEF ranks
<1>2. \A r \in Ranks : (Inside(r)' <=> Inside(r)) /\ (CanFinish(r)' <=> CanFinish(r))
  BY <1>1 DEF Inside, CanFinish, Running
<1>3. \A r, p \in Ranks : Behind(p, r)' <=> Behind(p, r)
  BY <1>1 DEF Behind
<1> QED BY <1>1, <1>2, <1>3
        DEF WaitsAreSeen, FreshEntry, EnteredByAll, NoWaitForFinisher, AgesWithWait, SeenByPoll

(* Entering a collective may be what lets another rank leave an earlier    *)
(* one only if nobody had left that one.                                   *)
LEMMA SeenEnter == ASSUME TrainInv, WaitsAreSeen, NEW x \in Ranks, Enter(x) PROVE WaitsAreSeen'
<1>0. /\ entered[x] = done[x] /\ x \in Running \ halted
      /\ entered'[x] = entered[x] + 1 /\ \A r \in Ranks \ {x} : entered'[r] = entered[r]
      /\ UNCHANGED <<status, done, waited, age, halted, reported, polled>>
  BY Clocks DEF Enter
<1>1. waited[x] = 0 /\ status[x] # "killed"
  BY <1>0 DEF WaitsAreSeen, FreshEntry, Running
<1>2. \A r \in Ranks \ {x} : /\ Inside(r)' <=> Inside(r)
                             /\ \A p \in Ranks : Behind(p, r)' <=> Behind(p, r)
  BY <1>0 DEF Inside, Running, Behind
<1>3. FreshEntry'
  BY <1>0, Clocks DEF WaitsAreSeen, FreshEntry
<1>4. EnteredByAll'
  BY <1>0, Clocks DEF WaitsAreSeen, EnteredByAll
<1>5. NoWaitForFinisher'
  <2> SUFFICES ASSUME NEW r \in Ranks, NEW p \in Ranks, CanFinish(p)', Inside(r)',
                      entered'[p] < entered'[r]
               PROVE  waited[r] = 0
    BY <1>0 DEF NoWaitForFinisher
  <2>1. CASE r = x
    BY <1>1, <2>1
  <2>2. CASE r # x /\ p = x
    <3>1. done[r] <= entered[x] /\ entered[r] <= done[r] + 1
      BY <1>1, Clocks DEF WaitsAreSeen, EnteredByAll
    <3>2. entered[x] + 1 < entered[r]
      BY <1>0, <2>2
    <3> QED BY <3>1, <3>2, Clocks
  <2>3. CASE r # x /\ p # x
    <3>1. done[r] <= entered[x] /\ Inside(r) /\ entered[r] = done[r] + 1 /\ entered[p] < entered[r]
      BY <1>0, <1>1, <1>2, <2>3 DEF WaitsAreSeen, EnteredByAll, Inside
    <3>2. entered[x] >= entered[p]
      BY <3>1, Clocks
    <3>3. \A q \in Ranks : entered[q] >= entered[p]
      BY <1>0, <2>3, <3>2 DEF CanFinish
    <3>4. CanFinish(p)
      BY <1>2, <2>3, <3>3 DEF CanFinish
    <3> QED BY <3>1, <3>4 DEF WaitsAreSeen, NoWaitForFinisher
  <2> QED BY <2>1, <2>2, <2>3
<1>6. AgesWithWait'
  <2> SUFFICES ASSUME NEW r \in Ranks, NEW p \in Ranks, Inside(r)', Behind(p, r)'
               PROVE  waited[r] <= age[p] \/ age[p] > HeartbeatTimeout
    BY <1>0 DEF AgesWithWait
  <2>1. CASE r = x
    BY <1>1, <2>1, Clocks
  <2>2. CASE r # x
    BY <1>2, <2>2 DEF WaitsAreSeen, AgesWithWait
  <2> QED BY <2>1, <2>2
<1>7. SeenByPoll'
  <2> SUFFICES ASSUME NEW r \in Ranks, NEW p \in Ranks, Inside(r)', Behind(p, r)', p # r
               PROVE  /\ waited[r] > HeartbeatTimeout + 1 => p \in reported[r]
                      /\ waited[r] > HeartbeatTimeout /\ r \in polled => p \in reported[r]
    BY <1>0 DEF SeenByPoll
  <2>1. CASE r = x
    BY <1>1, <2>1, Clocks
  <2>2. CASE r # x
    BY <1>2, <2>2 DEF WaitsAreSeen, SeenByPoll
  <2> QED BY <2>1, <2>2
<1> QED BY <1>3, <1>4, <1>5, <1>6, <1>7 DEF WaitsAreSeen

(* A rank that leaves a collective touches its heartbeat, and no wait was  *)
(* counted against the old one.                                            *)
LEMMA SeenFinish == ASSUME TrainInv, WaitsAreSeen, NEW x \in Ranks, Finish(x) PROVE WaitsAreSeen'
<1>0. /\ CanFinish(x) /\ Inside(x) /\ entered[x] = done[x] + 1
      /\ \A q \in Ranks : entered[q] >= entered[x]
      /\ done'[x] = done[x] + 1 /\ age'[x] = 0 /\ waited'[x] = 0
      /\ \A r \in Ranks \ {x} : done'[r] = done[r] /\ age'[r] = age[r] /\ waited'[r] = waited[r]
      /\ UNCHANGED <<status, entered, halted, reported, polled>>
  BY Clocks DEF Finish, Touch, CanFinish, Inside
<1>1. ~Inside(x)' /\ \A r \in Ranks \ {x} : Inside(r)' <=> Inside(r)
  BY <1>0, Clocks DEF Inside, Running
<1>2. \A p \in Ranks : CanFinish(p)' => p # x /\ CanFinish(p)
  BY <1>0, <1>1 DEF CanFinish
<1>3. \A r \in Ranks \ {x} : Inside(r) /\ Behind(x, r)' => waited[r] = 0
  <2> SUFFICES ASSUME NEW r \in Ranks \ {x}, Inside(r), Behind(x, r)' PROVE waited[r] = 0
    OBVIOUS
  <2>1. entered[x] < entered[r]
    BY <1>0, Clocks DEF Behind
  <2> QED BY <1>0, <2>1 DEF WaitsAreSeen, NoWaitForFinisher
<1>4. \A r, p \in Ranks \ {x} : Behind(p, r)' <=> Behind(p, r)
  BY <1>0 DEF Behind
<1>5. FreshEntry'
  BY <1>0, Clocks DEF WaitsAreSeen, FreshEntry
<1>6. EnteredByAll'
  BY <1>0, Clocks DEF WaitsAreSeen, EnteredByAll
<1>7. NoWaitForFinisher'
  BY <1>0, <1>1, <1>2 DEF WaitsAreSeen, NoWaitForFinisher
<1>8. AgesWithWait'
  <2> SUFFICES ASSUME NEW r \in Ranks, NEW p \in Ranks, Inside(r)', Behind(p, r)'
               PROVE  waited'[r] <= age'[p] \/ age'[p] > HeartbeatTimeout
    BY DEF AgesWithWait
  <2>1. r # x /\ Inside(r) /\ waited'[r] = waited[r]
    BY <1>0, <1>1
  <2>2. CASE p = x
    BY <1>0, <1>3, <2>1, <2>2
  <2>3. CASE p # x
    BY <1>0, <1>4, <2>1, <2>3 DEF WaitsAreSeen, AgesWithWait
  <2> QED BY <2>2, <2>3
<1>9. SeenByPoll'
  <2> SUFFICES ASSUME NEW r \in Ranks, NEW p \in Ranks, Inside(r)', Behind(p, r)', p # r
               PROVE  /\ waited'[r] > HeartbeatTimeout + 1 => p \in reported[r]
                      /\ waited'[r] > HeartbeatTimeout /\ r \in polled => p \in reported[r]
    BY <1>0 DEF SeenByPoll
  <2>1. r # x /\ Inside(r) /\ waited'[r] = waited[r]
    BY <1>0, <1>1
  <2>2. CASE p = x
    BY <1>3, <2>1, <2>2, Clocks
  <2>3. CASE p # x
    BY <1>4, <2>1, <2>3 DEF WaitsAreSeen, SeenByPoll
  <2> QED BY <2>2, <2>3
<1> QED BY <1>5, <1>6, <1>7, <1>8, <1>9 DEF WaitsAreSeen

LEMMA SeenHalt == ASSUME TrainInv, WaitsAreSeen, NEW x \in Ranks, Halt(x) PROVE WaitsAreSeen'
<1>0. /\ halted' = halted \cup {x}
      /\ UNCHANGED <<status, done, entered, waited, age, reported, polled>>
  BY DEF Halt
<1>1. \A r \in Ranks : (Inside(r)' => Inside(r)) /\ (CanFinish(r)' => CanFinish(r))
  BY <1>0 DEF Inside, CanFinish, Running
<1>2. \A r, p \in Ranks : Behind(p, r)' <=> Behind(p, r)
  BY <1>0 DEF Behind
<1> QED BY <1>0, <1>1, <1>2
        DEF WaitsAreSeen, FreshEntry, EnteredByAll, NoWaitForFinisher, AgesWithWait, SeenByPoll

(* A poll sees every heartbeat that has grown old.                         *)
LEMMA SeenPoll == ASSUME TrainInv, WaitsAreSeen, NEW x \in Ranks, Poll(x) PROVE WaitsAreSeen'
<1>0. /\ reported'[x] = StalePeers(x) /\ \A r \in Ranks \ {x} : reported'[r] = reported[r]
      /\ polled' = polled \cup {x}
      /\ UNCHANGED <<status, done, entered, waited, age, halted>>
  BY Clocks DEF Poll
<1>1. \A r \in Ranks : (Inside(r)' <=> Inside(r)) /\ (CanFinish(r)' <=> CanFinish(r))
  BY <1>0 DEF Inside, CanFinish, Running
<1>2. \A r, p \in Ranks : Behind(p, r)' <=> Behind(p, r)
  BY <1>0 DEF Behind
<1>3. (FreshEntry /\ EnteredByAll /\ NoWaitForFinisher /\ AgesWithWait)'
  BY <1>0, <1>1, <1>2
     DEF WaitsAreSeen, FreshEntry, EnteredByAll, NoWaitForFinisher, AgesWithWait
<1>4. SeenByPoll'
  <2> SUFFICES ASSUME NEW r \in Ranks, NEW p \in Ranks, Inside(r), Behind(p, r), p # r
               PROVE  /\ waited[r] > HeartbeatTimeout + 1 => p \in reported'[r]
                      /\ waited[r] > HeartbeatTimeout /\ r \in polled' => p \in reported'[r]
    BY <1>0, <1>1, <1>2 DEF SeenByPoll
  <2>1. CASE r = x
    <3> SUFFICES ASSUME waited[x] > HeartbeatTimeout PROVE p \in StalePeers(x)
      BY <1>0, <2>1, Clocks
    <3>1. age[p] > HeartbeatTimeout
      BY <2>1, Clocks DEF WaitsAreSeen, AgesWithWait
    <3> QED BY <2>1, <3>1 DEF StalePeers, Stale, Behind
  <2>2. CASE r # x
    BY <1>0, <2>2 DEF WaitsAreSeen, SeenByPoll
  <2> QED BY <2>1, <2>2
<1> QED BY <1>3, <1>4 DEF WaitsAreSeen

(* The end of a process, which may take back the step it had entered.      *)
LEMMA SeenEnds ==
  ASSUME TrainInv, WaitsAreSeen, NEW x \in Ranks, NEW how \in {"exited", "killed"}, Ends(x, how),
         x \in Running,
         entered'[x] = entered[x] \/ (how = "killed" /\ entered'[x] = done[x]),
         \A r \in Ranks \ {x} : entered'[r] = entered[r]
  PROVE  WaitsAreSeen'
<1>0. /\ status'[x] = how /\ \A r \in Ranks \ {x} : status'[r] = status[r]
      /\ waited'[x] = 0 /\ \A r \in Ranks \ {x} : waited'[r] = waited[r]
      /\ \A r \in Ranks \ {x} : reported'[r] = reported[r]
      /\ polled' = polled \ {x}
      /\ UNCHANGED <<done, age, halted>>
      /\ status[x] = "running"
  BY Clocks DEF Ends, Running
<1>1. ~Inside(x)' /\ \A r \in Ranks \ {x} : Inside(r)' <=> Inside(r)
  BY <1>0 DEF Inside, Running
<1>2. \A r \in Ranks : entered'[r] <= entered[r] /\ entered'[r] \in Nat
  BY Clocks
<1>3. \A p \in Ranks \ {x} : CanFinish(p)' => CanFinish(p)
  <2> SUFFICES ASSUME NEW p \in Ranks \ {x}, CanFinish(p)' PROVE CanFinish(p)
    OBVIOUS
  <2>1. \A q \in Ranks : entered'[q] >= entered[p]
    BY DEF CanFinish
  <2>2. \A q \in Ranks : entered[q] >= entered[p]
    BY <1>2, <2>1, Clocks
  <2> QED BY <1>1, <2>2 DEF CanFinish
<1>4. ~CanFinish(x)'
  BY <1>1 DEF CanFinish
<1>5. \A r \in Ranks \ {x} : \A p \in Ranks : Behind(p, r)' <=> Behind(p, r)
  BY <1>0 DEF Behind
<1>6. FreshEntry'
  BY <1>0 DEF WaitsAreSeen, FreshEntry
<1>7. EnteredByAll'
  BY <1>0 DEF WaitsAreSeen, EnteredByAll
<1>8. NoWaitForFinisher'
  BY <1>0, <1>1, <1>3, <1>4 DEF WaitsAreSeen, NoWaitForFinisher
<1>9. AgesWithWait'
  BY <1>0, <1>1, <1>5 DEF WaitsAreSeen, AgesWithWait
<1>10. SeenByPoll'
  BY <1>0, <1>1, <1>5 DEF WaitsAreSeen, SeenByPoll
<1> QED BY <1>6, <1>7, <1>8, <1>9, <1>10 DEF WaitsAreSeen

(* Time passes only when nobody can leave a collective and all have polled.*)
LEMMA SeenTick == ASSUME TrainInv, WaitsAreSeen, Tick PROVE WaitsAreSeen'
<1>0. /\ Running \subseteq polled /\ \A r \in Ranks : ~CanFinish(r)
      /\ \A r \in Ranks : waited'[r] = IF Inside(r) THEN waited[r] + 1 ELSE waited[r]
      /\ \A r \in Ranks : age'[r] = IF done[r] = 0 THEN 0 ELSE Older(age[r])
      /\ polled' = {}
      /\ UNCHANGED <<status, done, entered, halted, reported>>
  BY DEF Tick, Settled
<1>1. \A r \in Ranks : (Inside(r)' <=> Inside(r)) /\ (CanFinish(r)' <=> CanFinish(r))
  BY <1>0 DEF Inside, CanFinish, Running
<1>2. \A r, p \in Ranks : Behind(p, r)' <=> Behind(p, r)
  BY <1>0 DEF Behind
<1>3. FreshEntry'
  <2>1. \A r \in Ranks : entered[r] = done[r] => ~Inside(r)
    BY Clocks DEF Inside
  <2> QED BY <1>0, <2>1 DEF WaitsAreSeen, FreshEntry
<1>4. EnteredByAll'
  BY <1>0 DEF WaitsAreSeen, EnteredByAll
<1>5. NoWaitForFinisher'
  BY <1>0, <1>1 DEF NoWaitForFinisher
<1>6. AgesWithWait'
  <2> SUFFICES ASSUME NEW r \in Ranks, NEW p \in Ranks, Inside(r), Behind(p, r)
               PROVE  waited'[r] <= age'[p] \/ age'[p] > HeartbeatTimeout
    BY <1>1, <1>2 DEF AgesWithWait
  <2>1. waited'[r] = waited[r] + 1 /\ age'[p] = Older(age[p])
    BY <1>0, Clocks DEF Behind
  <2>2. waited[r] <= age[p] \/ age[p] > HeartbeatTimeout
    BY DEF WaitsAreSeen, AgesWithWait
  <2> QED BY <2>1, <2>2, Clocks DEF Older
<1>7. SeenByPoll'
  <2> SUFFICES ASSUME NEW r \in Ranks, NEW p \in Ranks, Inside(r), Behind(p, r), p # r,
                      waited'[r] > HeartbeatTimeout + 1
               PROVE  p \in reported[r]
    BY <1>0, <1>1, <1>2 DEF SeenByPoll
  <2>1. waited[r] > HeartbeatTimeout
    BY <1>0, Clocks
  <2>2. r \in polled
    BY <1>0 DEF Inside
  <2> QED BY <2>1, <2>2 DEF WaitsAreSeen, SeenByPoll
<1> QED BY <1>3, <1>4, <1>5, <1>6, <1>7 DEF WaitsAreSeen

(* What Kill does, for those who use it.                                   *)
LEMMA KillEnds ==
  ASSUME TrainInv, NEW x \in Ranks, Kill(x)
  PROVE  /\ Ends(x, "killed")
         /\ entered'[x] = entered[x] \/ entered'[x] = done[x]
         /\ \A r \in Ranks \ {x} : entered'[r] = entered[r]
BY Clocks DEF Kill

LEMMA SeenStep == ASSUME TrainInv, WaitsAreSeen, [Next]_vars PROVE WaitsAreSeen'
<1>1. ASSUME NEW x \in Ranks, Exit(x) PROVE WaitsAreSeen'
  <2>1. x \in Running /\ Ends(x, "exited") /\ entered' = entered
    BY <1>1 DEF Exit
  <2> QED BY <2>1, SeenEnds
<1>2. CASE Fire
  <2>1. CASE UNCHANGED ranks
    BY <2>1, SeenStill
  <2>2. CASE ~UNCHANGED ranks
    <3>1. PICK x \in Running : Kill(x)
      BY <1>2, <2>2 DEF Fire
    <3>2. x \in Ranks
      BY <3>1 DEF Running
    <3> QED BY <3>1, <3>2, KillEnds, SeenEnds
  <2> QED BY <2>1, <2>2
<1>3. CASE Deadline
  <2>1. launcher.on \in Running /\ Kill(launcher.on) /\ launcher.on \in Ranks
    BY <1>3 DEF Deadline, Running
  <2> QED BY <2>1, KillEnds, SeenEnds
<1>4. CASE Observe \/ FireRaises \/ EndPass \/ WaitReturns \/ Close \/ UNCHANGED vars
  BY <1>4, SeenStill DEF Observe, FireRaises, EndPass, WaitReturns, Close, vars
<1> QED BY <1>1, <1>2, <1>3, <1>4, SeenEnter, SeenFinish, SeenHalt, SeenPoll, SeenTick DEF Next

(* What no step takes back: the steps done, and that the deadline passed.  *)
LEMMA StepsGrow ==
  ASSUME TrainInv, [Next]_vars
  PROVE  \A r \in Ranks : done[r] <= done'[r]
<1> USE Clocks
<1>1. ASSUME NEW x \in Ranks, Finish(x) PROVE \A r \in Ranks : done[r] <= done'[r]
  BY <1>1 DEF Finish, Touch
<1>2. CASE UNCHANGED done
  BY <1>2
<1>3. ASSUME NEW x \in Ranks, Enter(x) \/ Halt(x) \/ Exit(x) \/ Poll(x) PROVE UNCHANGED done
  BY <1>3 DEF Enter, Halt, Exit, Ends, Poll
<1>4. CASE Fire \/ Deadline
  BY <1>4, <1>2 DEF Fire, Deadline, Kill, Ends, ranks
<1>5. CASE Observe \/ FireRaises \/ EndPass \/ WaitReturns \/ Close \/ Tick \/ UNCHANGED vars
  BY <1>5, <1>2 DEF Observe, FireRaises, EndPass, WaitReturns, Close, Tick, vars, ranks
<1> QED BY <1>1, <1>2, <1>3, <1>4, <1>5 DEF Next

(* A step that kills nobody, and takes no event off the pending trace.     *)
LEMMA KilledStays ==
  ASSUME TrainInv, KilledStarted, [Next]_vars,
         \A p \in Ranks : status'[p] = "killed" => status[p] = "killed",
         injector'.todo = injector.todo,
         injector'.seen = injector.seen \/ injector'.seen = StepLog,
         launcher'.late = launcher.late
  PROVE  KilledStarted'
<1>1. \A p \in Ranks : done[p] <= done'[p] /\ done[p] \in Nat /\ done'[p] \in Nat
  <2>1. done' \in [Ranks -> 0..Steps]
    BY TrainInductive DEF TrainInv, TypeOK
  <2> QED BY <2>1, StepsGrow, Clocks, TrainingAssumption
<1>2. ~launcher'.late => \A p \in Ranks : status'[p] = "killed" => done'[p] > 0
  BY <1>1 DEF KilledStarted
<1>3. injector'.seen <= StepLog'
  <2>1. 0 \in Ranks /\ injector.seen \in Nat
    BY Types, TrainingAssumption DEF Ranks
  <2>2. injector'.seen <= StepLog /\ StepLog <= StepLog'
    BY <1>1, <2>1 DEF KilledStarted, StepLog
  <2> QED BY <1>1, <2>1, <2>2 DEF StepLog
<1> QED BY <1>2, <1>3 DEF KilledStarted

(* A fault is due once a step after the first is logged, and by then every *)
(* rank that runs has done a step.                                         *)
LEMMA KilledFire ==
  ASSUME TrainInv, WaitsAreSeen, KilledStarted, Fire
  PROVE  KilledStarted'
<1> DEFINE event == Head(injector.todo)
<1>0. /\ injector.todo \in Seq(TraceEvents) /\ injector.todo # << >>
      /\ injector.seen \in Nat /\ 0 \in Ranks /\ event.step < injector.seen
      /\ launcher' = launcher
  BY Types, TrainingAssumption DEF Fire, Due, Ranks
<1>1. /\ event = injector.todo[1] /\ Len(injector.todo) \in Nat /\ Len(injector.todo) >= 1
      /\ event.step \in Nat
  <2>1. /\ event = injector.todo[1]
        /\ Len(injector.todo) \in Nat /\ Len(injector.todo) >= 1
    BY <1>0, EmptySeq, LenProperties
  <2>2. injector.todo[1] \in TraceEvents
    BY <1>0, <2>1, ElementOfSeq
  <2>3. \A e \in TraceEvents : e.step \in Nat
    BY DEF TraceEvents
  <2> QED BY <2>1, <2>2, <2>3
<1>2. injector'.seen = injector.seen /\ injector'.todo = Tail(injector.todo)
  BY Types DEF Fire
<1>3. \A i \in 1..Len(injector'.todo) :
        injector'.todo[i].fault = "B1" => injector'.todo[i].step > 0
  <2>1. /\ Len(injector'.todo) = Len(injector.todo) - 1
        /\ \A i \in 1..Len(injector'.todo) : injector'.todo[i] = injector.todo[i + 1]
    BY <1>0, <1>1, <1>2
  <2>2. \A i \in 1..Len(injector'.todo) : i + 1 \in 1..Len(injector.todo)
    BY <1>1, <2>1
  <2> QED BY <2>1, <2>2 DEF KilledStarted
<1>4. CASE UNCHANGED ranks
  BY <1>0, <1>2, <1>3, <1>4 DEF ranks, KilledStarted, StepLog
<1>5. CASE ~UNCHANGED ranks
  <2>1. event.fault = "B1" /\ event.target \in Running /\ Kill(event.target)
    BY <1>5 DEF Fire
  <2>2. event.target \in Ranks /\ status[event.target] = "running"
    BY <2>1 DEF Running
  <2>3. event.step > 0
    BY <1>1, <2>1 DEF KilledStarted
  <2>4. done[0] >= 2
    BY <1>0, <1>1, <2>3, Clocks DEF KilledStarted, StepLog
  <2>5. done[event.target] > 0
    <3>1. done[0] <= entered[event.target]
      BY <1>0, <2>2 DEF WaitsAreSeen, EnteredByAll
    <3> QED BY <1>0, <2>2, <2>4, <3>1, Clocks
  <2>6. /\ \A p \in Ranks \ {event.target} : status'[p] = status[p]
        /\ done' = done
    BY <2>1, Clocks DEF Kill, Ends
  <2>7. ~launcher'.late => \A p \in Ranks : status'[p] = "killed" => done'[p] > 0
    BY <1>0, <2>5, <2>6 DEF KilledStarted
  <2> QED BY <1>2, <1>3, <2>6, <2>7 DEF KilledStarted, StepLog
<1> QED BY <1>4, <1>5

LEMMA KilledStep ==
  ASSUME TrainInv, WaitsAreSeen, KilledStarted, [Next]_vars
  PROVE  KilledStarted'
<1>1. ASSUME NEW x \in Ranks, Enter(x) \/ Finish(x) \/ Halt(x) \/ Poll(x) PROVE KilledStarted'
  BY <1>1, KilledStays DEF Enter, Finish, Halt, Poll
<1>2. ASSUME NEW x \in Ranks, Exit(x) PROVE KilledStarted'
  <2>1. UNCHANGED <<injector, launcher>> /\ status' = [status EXCEPT ![x] = "exited"]
    BY <1>2 DEF Exit, Ends
  <2> QED BY <2>1, Clocks, KilledStays
<1>3. CASE Deadline
  <2>1. launcher'.late = TRUE /\ UNCHANGED <<done, injector>>
    BY <1>3, Types DEF Deadline, Onward, Kill, Ends
  <2> QED BY <2>1 DEF KilledStarted, StepLog
<1>4. CASE Observe \/ FireRaises \/ EndPass \/ WaitReturns \/ Close \/ Tick \/ UNCHANGED vars
  <2>1. /\ status' = status
    BY <1>4 DEF Observe, FireRaises, EndPass, WaitReturns, Close, Tick, vars, ranks
  <2>2. /\ injector'.todo = injector.todo
        /\ injector'.seen = injector.seen \/ injector'.seen = StepLog
    BY <1>4, Types DEF Observe, FireRaises, EndPass, WaitReturns, Close, Tick, vars
  <2>3. launcher'.late = launcher.late
    BY <1>4, Types DEF Observe, FireRaises, EndPass, WaitReturns, Onward, Close, Tick, vars
  <2> QED BY <2>1, <2>2, <2>3, KilledStays
<1> QED BY <1>1, <1>2, <1>3, <1>4, KilledFire DEF Next

(* Only Halt writes a halt record.                                         *)
LEMMA OnlyHaltHalts ==
  ASSUME Next, halted' # halted PROVE \E x \in Ranks : Halt(x)
<1>1. ASSUME NEW x \in Ranks, Enter(x) \/ Finish(x) \/ Exit(x) \/ Poll(x) PROVE FALSE
  BY <1>1 DEF Enter, Finish, Exit, Ends, Poll
<1>2. ~Fire /\ ~Deadline
  BY DEF Fire, Deadline, Kill, Ends, ranks
<1>3. ~(Observe \/ FireRaises \/ EndPass \/ WaitReturns \/ Close \/ Tick)
  BY DEF Observe, FireRaises, EndPass, WaitReturns, Close, Tick, ranks
<1> QED BY <1>1, <1>2, <1>3 DEF Next

LEMMA SeenInit == ASSUME KillsComeLater, Init PROVE WaitsAreSeen /\ KilledStarted
<1>0. /\ \A r \in Ranks : /\ status[r] = "running" /\ done[r] = 0 /\ entered[r] = 0
                          /\ waited[r] = 0 /\ age[r] = 0
      /\ trace \in Traces /\ injector.todo = trace /\ injector.seen = 0 /\ 0 \in Ranks
  BY TrainingAssumption DEF Init, Ranks
<1>1. WaitsAreSeen
  BY <1>0 DEF WaitsAreSeen, FreshEntry, EnteredByAll, NoWaitForFinisher, AgesWithWait, SeenByPoll,
              Behind, Inside
<1>2. KilledStarted
  BY <1>0 DEF KilledStarted, KillsComeLater, StepLog
<1> QED BY <1>1, <1>2

(* Where no kill is due before step 1, a rank that halts because a killed  *)
(* peer never came to its collective has had that peer reported dead by    *)
(* its own sensor, for any number of ranks and any timeouts of which the   *)
(* sensor's is the shorter.                                                *)
THEOREM DeathIsSeen ==
  ASSUME KillsComeLater
  PROVE  Spec => DeathSeen
<1>1. Init => WaitsAreSeen /\ KilledStarted
  BY SeenInit
<1>2. TrainInv /\ WaitsAreSeen /\ KilledStarted /\ [Next]_vars => WaitsAreSeen' /\ KilledStarted'
  BY SeenStep, KilledStep
<1>3. TrainInv /\ WaitsAreSeen /\ KilledStarted /\ [Next]_vars =>
        [\A r \in halted' \ halted : \A p \in Ranks :
           status[p] = "killed" /\ entered[p] < entered[r] /\ ~launcher.late => p \in reported[r]]_vars
  <2> SUFFICES ASSUME TrainInv, WaitsAreSeen, KilledStarted, Next,
                      NEW r \in halted' \ halted, NEW p \in Ranks,
                      status[p] = "killed", entered[p] < entered[r], ~launcher.late
               PROVE  p \in reported[r]
    OBVIOUS
  <2>1. PICK x \in Ranks : Halt(x)
    BY OnlyHaltHalts
  <2>2. r = x /\ r \in Ranks /\ Inside(r) /\ waited[r] = CollectiveTimeout
    BY <2>1 DEF Halt, TimedOut
  <2>3. p # r
    BY <2>2 DEF Inside, Running
  <2>4. Behind(p, r)
    BY <2>2, Clocks DEF Behind, KilledStarted
  <2> QED BY <2>2, <2>3, <2>4, Clocks DEF WaitsAreSeen, SeenByPoll
<1> QED BY <1>1, <1>2, <1>3, TrainingInvariant, PTL DEF Spec, DeathSeen
=============================================================================
