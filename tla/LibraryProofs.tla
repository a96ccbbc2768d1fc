--------------------------- MODULE LibraryProofs ---------------------------
(***************************************************************************)
(* Theorems about what a training program calls.                           *)
(*                                                                         *)
(* AegisLifecycle: any number of threads calling init(), disable() and the *)
(* readers, any number of init() calls, and loops that run what they are   *)
(* given in their own time or never.  CheckpointApi: any number of threads *)
(* that save and restore, of saves and of epochs.                          *)
(***************************************************************************)
EXTENDS AegisLifecycle, CheckpointApi, SequenceTheorems, TLAPS

-----------------------------------------------------------------------------
(* The invariant. *)

Calls == [pc : InitPcs \cup DisablePcs \cup {"out", "raised", "refused", "reading"},
          at : 0..made]
Busy(t) == call[t].pc \in InitPcs \cup DisablePcs
Live    == alive \ ending

(* An init() under way owns a live loop of its own, which _state does not  *)
(* name yet.                                                               *)
Owned ==
  /\ alive \subseteq 1..made
  /\ \A t \in Threads : call[t].pc \in InitPcs => call[t].at \in Live /\ call[t].at # loop
  /\ \A t, u \in Threads :
       call[t].pc \in InitPcs /\ call[u].pc \in InitPcs /\ call[t].at = call[u].at => t = u

(* What _state names, and which loops live on, between calls.              *)
Whole   == runtime = loop /\ hooks = loop /\ (initialized <=> loop # None)
Settled == Whole /\ Live \subseteq {loop}
Cleared == runtime = None /\ hooks = None /\ loop = None /\ ~initialized

(* The same inside a call, at each of its steps.                           *)
Stage(t) ==
  /\ call[t].pc \in {"starting", "commit runtime"} => Cleared /\ Live \subseteq {call[t].at}
  /\ call[t].pc \in {"commit initialized", "commit loop"} =>
       /\ runtime = call[t].at /\ hooks = call[t].at /\ loop = None
       /\ Live \subseteq {call[t].at}
       /\ initialized <=> call[t].pc = "commit loop"
  /\ call[t].pc \in {"hooks", "submit", "awaiting stop", "stop loop"} => Settled /\ initialized
  /\ call[t].pc = "clear" => Whole /\ initialized /\ Live = {}
  /\ call[t].pc = "clear rest" => runtime = None /\ hooks = None /\ Live = {}

OneByOne ==
  orderly => /\ \A t, u \in Threads : Busy(t) /\ Busy(u) => t = u
             /\ \A t \in Threads : Busy(t) => Stage(t)
             /\ (\A t \in Threads : ~Busy(t)) => Settled

LifeInd == TypeOK /\ Owned /\ OneByOne

-----------------------------------------------------------------------------
(* Steps of a call. *)

LEMMA GotoFacts ==
  ASSUME TypeOK, NEW t \in Threads, NEW p, NEW i, Goto(t, p, i)
  PROVE  /\ call'[t].pc = p /\ call'[t].at = i
         /\ \A u \in Threads \ {t} : call'[u] = call[u]
  BY DEF Goto, TypeOK

LEMMA GotoTypes ==
  ASSUME TypeOK, NEW t \in Threads,
         NEW p \in InitPcs \cup DisablePcs \cup {"out", "raised", "refused", "reading"},
         NEW i \in 0..made', made' \in {made, made + 1}, Goto(t, p, i)
  PROVE  call' \in [Threads -> Calls']
<1>1. made \in Nat
  BY LifecycleAssumption DEF TypeOK
<1>2. call \in [Threads -> Calls']
  BY <1>1 DEF TypeOK, Calls
<1>3. [pc |-> p, at |-> i] \in Calls'
  BY DEF Calls
<1> QED BY <1>2, <1>3 DEF Goto

(* The thread of the one call under way takes a step.                      *)
LEMMA InCall ==
  ASSUME OneByOne, NEW t \in Threads, Busy(t), orderly' = orderly,
         \A u \in Threads \ {t} : call'[u] = call[u],
         orderly => (Busy(t)' => Stage(t)') /\ (~Busy(t)' => Settled')
  PROVE  OneByOne'
<1> SUFFICES ASSUME orderly PROVE OneByOne'
  BY DEF OneByOne
<1>1. \A u \in Threads \ {t} : ~Busy(u) /\ ~Busy(u)'
  BY DEF OneByOne, Busy
<1> QED BY <1>1 DEF OneByOne

(* A step that no call under way takes, and that changes nothing they and  *)
(* _state rest on.                                                         *)
LEMMA OutOfCall ==
  ASSUME OneByOne, UNCHANGED <<runtime, hooks, loop, initialized, orderly>>, Live' = Live,
         \A u \in Threads : (Busy(u)' <=> Busy(u)) /\ (Busy(u) => call'[u] = call[u])
  PROVE  OneByOne'
<1>1. \A u \in Threads : Busy(u) /\ Stage(u) => Stage(u)'
  BY DEF Stage, Cleared, Settled, Whole
<1>2. Settled' = Settled
  BY DEF Settled, Whole
<1> QED BY <1>1, <1>2 DEF OneByOne

(* The first step of a call keeps it the only one only if it was.          *)
LEMMA Enters ==
  ASSUME TypeOK, OneByOne, NEW t \in Threads, Outside(t), orderly' => orderly /\ Quiet,
         \A u \in Threads \ {t} : call'[u] = call[u], Busy(t)',
         orderly' /\ Settled => Stage(t)'
  PROVE  OneByOne'
<1> SUFFICES ASSUME orderly' PROVE OneByOne'
  BY DEF OneByOne
<1>1. \A u \in Threads : ~Busy(u)
  BY DEF Quiet, Outside, Busy, InitPcs, DisablePcs
<1>2. Settled
  BY <1>1 DEF OneByOne
<1>3. \A u \in Threads \ {t} : ~Busy(u)'
  BY <1>1 DEF Busy
<1> QED BY <1>2, <1>3 DEF OneByOne

-----------------------------------------------------------------------------
(* The invariant holds initially and every step preserves it. *)

LEMMA LifeInit == Init => LifeInd
<1> SUFFICES ASSUME Init PROVE LifeInd
  OBVIOUS
<1>1. MaxInits \in Nat
  BY LifecycleAssumption
<1>2. \A t \in Threads : call[t].pc = "out" /\ call[t].at = 0
  BY DEF Init, Out, None
<1>3. TypeOK
  <2>1. runtime = 0 /\ hooks = 0 /\ loop = 0 /\ made = 0 /\ orderly = TRUE /\ initialized = FALSE
        /\ alive = {} /\ ending = {} /\ installed = {}
    BY DEF Init, None
  <2>2. call \in [Threads -> [pc : InitPcs \cup DisablePcs \cup
                                    {"out", "raised", "refused", "reading"}, at : 0..made]]
    BY <2>1 DEF Init, Out, None
  <2>3. status \in [Instances -> {"none", "starting", "started", "stopping", "stopped"}]
    BY DEF Init
  <2>4. made \in 0..MaxInits /\ 0 \in 0..made
    BY <1>1, <2>1
  <2>5. orderly \in BOOLEAN /\ initialized \in BOOLEAN
    BY <2>1
  <2>6. alive \subseteq Instances /\ ending \subseteq alive /\ installed \subseteq Instances
    BY <2>1
  <2> QED BY <2>1, <2>2, <2>3, <2>4, <2>5, <2>6 DEF TypeOK
<1>4. Owned
  BY <1>2 DEF Init, Owned, InitPcs
<1>5. \A t \in Threads : ~Busy(t)
  BY <1>2 DEF Busy, InitPcs, DisablePcs
<1>6. Settled
  BY DEF Init, Settled, Whole, Live
<1> QED BY <1>3, <1>4, <1>5, <1>6 DEF LifeInd, OneByOne

(* Every step keeps the types.                                             *)
LEMMA LifeTypes ==
  ASSUME LifeInd, [Next]_vars
  PROVE  TypeOK'
<1>0. /\ runtime \in 0..made /\ hooks \in 0..made /\ loop \in 0..made
      /\ initialized \in BOOLEAN
      /\ made \in 0..MaxInits /\ orderly \in BOOLEAN
      /\ status \in [Instances -> {"none", "starting", "started", "stopping", "stopped"}]
      /\ alive \subseteq Instances /\ ending \subseteq alive /\ installed \subseteq Instances
      /\ call \in [Threads -> Calls]
  BY DEF LifeInd, TypeOK, Calls
<1>a. MaxInits \in Nat /\ made \in Nat /\ Instances = 1..MaxInits
  BY <1>0, LifecycleAssumption DEF Instances
<1>b. TypeOK
  BY DEF LifeInd
<1> SUFFICES
      /\ runtime' \in 0..made' /\ hooks' \in 0..made' /\ loop' \in 0..made'
      /\ initialized' \in BOOLEAN
      /\ made' \in 0..MaxInits /\ orderly' \in BOOLEAN
      /\ status' \in [Instances -> {"none", "starting", "started", "stopping", "stopped"}]
      /\ alive' \subseteq Instances /\ ending' \subseteq alive' /\ installed' \subseteq Instances
      /\ call' \in [Threads -> Calls']
  BY DEF TypeOK, Calls
<1>1. CASE UNCHANGED vars
  BY <1>0, <1>1 DEF vars, state, world, Calls
<1>2. ASSUME NEW i \in Instances, RunStart(i) \/ RunStop(i) \/ EndLoop(i)
      PROVE  TypeOK'
  <2>1. CASE RunStart(i)
    BY <1>0, <2>1 DEF RunStart, state, TypeOK, Calls
  <2>2. CASE RunStop(i)
    BY <1>0, <2>2 DEF RunStop, state, TypeOK, Calls
  <2>3. CASE EndLoop(i)
    BY <1>0, <2>3 DEF EndLoop, state, TypeOK, Calls
  <2> QED BY <1>2, <2>1, <2>2, <2>3
<1>3. ASSUME NEW t \in Threads, BeginInit(t)
      PROVE  TypeOK'
  <2>1. /\ made' = made + 1 /\ made < MaxInits /\ UNCHANGED state /\ ending' = ending
        /\ installed' = installed \cup {made + 1} /\ alive' = alive \cup {made + 1}
        /\ status' = [status EXCEPT ![made + 1] = "starting"]
        /\ orderly' = (orderly /\ Quiet /\ ~initialized)
        /\ Goto(t, "starting", made + 1)
    BY <1>3 DEF BeginInit, Install, NewRuntime
  <2>2. made + 1 \in Instances /\ made' \in 0..MaxInits /\ made + 1 \in 0..made'
    BY <1>a, <2>1
  <2>3. call' \in [Threads -> Calls']
    BY <1>b, <2>1, <2>2, GotoTypes DEF InitPcs
  <2>4. runtime' \in 0..made' /\ hooks' \in 0..made' /\ loop' \in 0..made'
    BY <1>0, <1>a, <2>1 DEF state
  <2>5. orderly' \in BOOLEAN
    BY <2>1
  <2> QED BY <1>0, <2>1, <2>2, <2>3, <2>4, <2>5 DEF state, TypeOK, Calls
<1>4. ASSUME NEW t \in Threads, InitFails(t) \/ InitSteps(t)
      PROVE  TypeOK'
  <2>1. call[t].pc \in InitPcs /\ made' = made
    BY <1>4 DEF InitFails, InitSteps, StartReturned, CommitRuntime, CommitInitialized, CommitLoop,
                At, InitPcs, world
  <2>2. call[t].at \in alive /\ call[t].at \in 0..made /\ 0 \in 0..made
    BY <1>0, <1>a, <2>1 DEF LifeInd, Owned, Live, Calls
  <2>3. call' \in [Threads -> Calls']
    <3>1. \E p \in InitPcs \cup DisablePcs \cup {"out", "raised", "refused", "reading"} :
          \E i \in 0..made' : Goto(t, p, i)
      BY <1>4, <2>1, <2>2 DEF InitFails, InitSteps, StartReturned, CommitRuntime,
           CommitInitialized, CommitLoop, Continue, Mine, None, InitPcs
    <3> QED BY <1>b, <2>1, <3>1, GotoTypes
  <2>4. /\ runtime' \in 0..made' /\ hooks' \in 0..made' /\ loop' \in 0..made'
        /\ initialized' \in BOOLEAN
        /\ ending' \subseteq alive /\ UNCHANGED <<made, status, alive, installed, orderly>>
    BY <1>0, <1>4, <2>1, <2>2 DEF InitFails, InitSteps, StartReturned, CommitRuntime,
           CommitInitialized, CommitLoop, Mine, state, world
  <2> QED BY <1>0, <2>3, <2>4 DEF TypeOK, Calls
<1>5. ASSUME NEW t \in Threads, BeginDisable(t) \/ DisableSteps(t) \/ Status(t) \/ ReadStatus(t)
      PROVE  TypeOK'
  <2>0. made' = made
    BY <1>5 DEF BeginDisable, DisableSteps, RemoveHooks, SubmitStop, StopReturned, StopLoop,
           ClearRuntime, ClearRest, Status, ReadStatus, world
  <2>1. call' \in [Threads -> Calls']
    <3>1. call[t].at \in 0..made /\ 0 \in 0..made
      BY <1>0, <1>a DEF Calls
    <3>2. \E p \in InitPcs \cup DisablePcs \cup {"out", "raised", "refused", "reading"} :
          \E i \in 0..made' : Goto(t, p, i)
      BY <1>0, <1>5, <2>0, <3>1 DEF BeginDisable, DisableSteps, RemoveHooks, SubmitStop,
           StopReturned, StopLoop, ClearRuntime, ClearRest, Status, ReadStatus, Continue, Mine,
           None, DisablePcs
    <3> QED BY <1>b, <2>0, <3>2, GotoTypes
  <2>2. status' \in [Instances -> {"none", "starting", "started", "stopping", "stopped"}]
    BY <1>0, <1>a, <1>5 DEF BeginDisable, DisableSteps, RemoveHooks, SubmitStop, StopReturned,
         StopLoop, ClearRuntime, ClearRest, Status, ReadStatus, world
  <2>3. /\ runtime' \in 0..made' /\ hooks' \in 0..made' /\ loop' \in 0..made'
        /\ initialized' \in BOOLEAN
    <3>1. /\ runtime' \in {runtime, 0} /\ hooks' \in {hooks, 0} /\ loop' \in {loop, 0}
      BY <1>5 DEF BeginDisable, DisableSteps, RemoveHooks, SubmitStop, StopReturned,
           StopLoop, ClearRuntime, ClearRest, Status, ReadStatus, state, None
    <3>2. initialized' \in BOOLEAN
      BY <1>0, <1>5 DEF BeginDisable, DisableSteps, RemoveHooks, SubmitStop, StopReturned,
           StopLoop, ClearRuntime, ClearRest, Status, ReadStatus, state
    <3> QED BY <1>0, <1>a, <2>0, <3>1, <3>2
  <2>4. orderly' \in BOOLEAN /\ UNCHANGED <<made, alive>>
    BY <1>0, <1>5 DEF BeginDisable, DisableSteps, RemoveHooks, SubmitStop, StopReturned,
         StopLoop, ClearRuntime, ClearRest, Status, ReadStatus, world
  <2>5. ending' \subseteq alive
    BY <1>0, <1>5 DEF BeginDisable, DisableSteps, RemoveHooks, SubmitStop, StopReturned,
         StopLoop, ClearRuntime, ClearRest, Status, ReadStatus, world
  <2>6. installed' \subseteq Instances
    BY <1>0, <1>5 DEF BeginDisable, DisableSteps, RemoveHooks, SubmitStop, StopReturned,
         StopLoop, ClearRuntime, ClearRest, Status, ReadStatus, world, DisableAll
  <2> QED BY <1>0, <2>1, <2>2, <2>3, <2>4, <2>5, <2>6 DEF TypeOK, Calls
<1> QED BY <1>1, <1>2, <1>3, <1>4, <1>5 DEF Next, TypeOK, Calls

(* Which loops init() calls under way own.                                 *)
LEMMA OwnedKept ==
  ASSUME Owned, alive' \subseteq 1..made',
         \A t \in Threads : call'[t].pc \in InitPcs =>
           /\ call[t].pc \in InitPcs /\ call'[t].at = call[t].at
           /\ call[t].at \in Live' /\ call[t].at # loop'
  PROVE  Owned'
  BY DEF Owned

LEMMA OwnedStep ==
  ASSUME LifeInd, [Next]_vars
  PROVE  Owned'
<1>0. /\ runtime \in 0..made /\ hooks \in 0..made /\ loop \in 0..made
      /\ made \in Nat /\ ending \subseteq alive /\ alive \subseteq 1..made
      /\ TypeOK /\ Owned
  BY LifecycleAssumption DEF LifeInd, TypeOK, Owned
<1>1. ASSUME UNCHANGED <<made, loop>>, alive' \subseteq alive,
             \A i \in Live : i \in Live' \/ i = loop,
             \A t \in Threads : call'[t].pc \in InitPcs => call'[t] = call[t]
      PROVE  Owned'
  BY <1>0, <1>1, OwnedKept DEF Owned
<1>2. CASE UNCHANGED vars
  BY <1>1, <1>2 DEF vars, state, world, Live
<1>3. ASSUME NEW i \in Instances, RunStart(i) \/ RunStop(i) \/ EndLoop(i)
      PROVE  Owned'
  <2>1. UNCHANGED <<made, loop, call>> /\ alive' \subseteq alive /\ Live \subseteq Live'
    BY <1>3 DEF RunStart, RunStop, EndLoop, state, Live
  <2> QED BY <1>1, <2>1
<1>4. ASSUME NEW t \in Threads, BeginInit(t)
      PROVE  Owned'
  <2>1. /\ made' = made + 1 /\ loop' = loop /\ ending' = ending
        /\ alive' = alive \cup {made + 1}
        /\ Goto(t, "starting", made + 1)
    BY <1>4 DEF BeginInit, state
  <2>2. /\ call'[t].pc = "starting" /\ call'[t].at = made + 1
        /\ \A u \in Threads \ {t} : call'[u] = call[u]
    BY <1>0, <2>1, GotoFacts
  <2>3. alive' \subseteq 1..made' /\ made + 1 \in Live' /\ made + 1 # loop' /\ Live \subseteq Live'
        /\ \A i \in Live : i # made + 1
    BY <1>0, <2>1 DEF Live
  <2> QED BY <1>0, <2>1, <2>2, <2>3 DEF Owned
<1>5. ASSUME NEW t \in Threads, InitFails(t)
      PROVE  Owned'
  <2>1. /\ call[t].pc = "starting" /\ UNCHANGED <<made, loop, alive>>
        /\ ending' = ending \cup {call[t].at} /\ Goto(t, "raised", None)
    BY <1>5 DEF InitFails, At, Mine, state
  <2>2. call'[t].pc = "raised" /\ \A u \in Threads \ {t} : call'[u] = call[u]
    BY <1>0, <2>1, GotoFacts
  <2>3. \A u \in Threads \ {t} : call[u].pc \in InitPcs => call[u].at # call[t].at
    BY <1>0, <2>1 DEF Owned, InitPcs
  <2>4. ASSUME NEW u \in Threads, call'[u].pc \in InitPcs
        PROVE  /\ call[u].pc \in InitPcs /\ call'[u].at = call[u].at
               /\ call[u].at \in Live' /\ call[u].at # loop'
    <3>1. u # t
      BY <2>2, <2>4 DEF InitPcs
    <3> QED BY <1>0, <2>1, <2>2, <2>3, <2>4, <3>1 DEF Owned, Live
  <2> QED BY <1>0, <2>1, <2>4, OwnedKept
<1>6. ASSUME NEW t \in Threads, StartReturned(t) \/ CommitRuntime(t) \/ CommitInitialized(t)
      PROVE  Owned'
  <2>1. call[t].pc \in InitPcs /\ UNCHANGED <<made, loop, alive, ending>>
    BY <1>6 DEF StartReturned, CommitRuntime, CommitInitialized, At, InitPcs, state, world
  <2>2. \E p : Goto(t, p, call[t].at)
    BY <1>6 DEF StartReturned, CommitRuntime, CommitInitialized, Continue
  <2>3. call'[t].at = call[t].at /\ \A u \in Threads \ {t} : call'[u] = call[u]
    BY <1>0, <2>2, GotoFacts
  <2>4. Live' = Live
    BY <2>1 DEF Live
  <2>5. ASSUME NEW u \in Threads, call'[u].pc \in InitPcs
        PROVE  /\ call[u].pc \in InitPcs /\ call'[u].at = call[u].at
               /\ call[u].at \in Live' /\ call[u].at # loop'
    BY <1>0, <2>1, <2>3, <2>4, <2>5 DEF Owned
  <2> QED BY <1>0, <2>1, <2>5, OwnedKept
<1>7. ASSUME NEW t \in Threads, CommitLoop(t)
      PROVE  Owned'
  <2>1. /\ call[t].pc \in InitPcs /\ UNCHANGED <<made, alive, ending>> /\ loop' = call[t].at
        /\ Goto(t, "out", None)
    BY <1>7 DEF CommitLoop, At, Mine, InitPcs, world
  <2>2. call'[t].pc = "out" /\ \A u \in Threads \ {t} : call'[u] = call[u]
    BY <1>0, <2>1, GotoFacts
  <2>3. ASSUME NEW u \in Threads, call'[u].pc \in InitPcs
        PROVE  /\ call[u].pc \in InitPcs /\ call'[u].at = call[u].at
               /\ call[u].at \in Live' /\ call[u].at # loop'
    <3>1. u # t
      BY <2>2, <2>3 DEF InitPcs
    <3> QED BY <1>0, <2>1, <2>2, <2>3, <3>1 DEF Owned, Live
  <2> QED BY <1>0, <2>1, <2>3, OwnedKept
<1>8. ASSUME NEW t \in Threads, BeginDisable(t) \/ DisableSteps(t) \/ Status(t) \/ ReadStatus(t)
      PROVE  Owned'
  <2>1. UNCHANGED <<made, alive>> /\ (loop' = loop \/ loop' = None)
        /\ ending' \subseteq ending \cup {loop}
    BY <1>8 DEF BeginDisable, DisableSteps, RemoveHooks, SubmitStop, StopReturned, StopLoop,
         ClearRuntime, ClearRest, Status, ReadStatus, state, world
  <2>2. \E p \in DisablePcs \cup {"out", "raised", "refused", "reading"} : \E i : Goto(t, p, i)
    BY <1>8 DEF BeginDisable, DisableSteps, RemoveHooks, SubmitStop, StopReturned, StopLoop,
         ClearRuntime, ClearRest, Status, ReadStatus, Continue, DisablePcs
  <2>3. call'[t].pc \notin InitPcs /\ \A u \in Threads \ {t} : call'[u] = call[u]
    BY <1>0, <2>2, GotoFacts DEF InitPcs, DisablePcs
  <2>4. ASSUME NEW u \in Threads, call'[u].pc \in InitPcs
        PROVE  /\ call[u].pc \in InitPcs /\ call'[u].at = call[u].at
               /\ call[u].at \in Live' /\ call[u].at # loop'
    <3>1. u # t /\ call'[u] = call[u]
      BY <2>3, <2>4
    <3>2. call[u].at \in Live /\ call[u].at # loop
      BY <1>0, <2>4, <3>1 DEF Owned
    <3>3. call[u].at # None
      BY <1>0, <3>2 DEF Live, None
    <3> QED BY <2>1, <2>4, <3>1, <3>2, <3>3 DEF Live
  <2> QED BY <1>0, <2>1, <2>4, OwnedKept
<1> QED BY <1>2, <1>3, <1>4, <1>5, <1>6, <1>7, <1>8 DEF Next, InitSteps

(* What holds of one call at a time.                                       *)
LEMMA OneByOneStep ==
  ASSUME LifeInd, [Next]_vars
  PROVE  OneByOne'
<1>0. /\ TypeOK /\ Owned /\ OneByOne
      /\ loop \in Nat /\ made \in Nat
      /\ ending \subseteq alive /\ alive \subseteq 1..made
      /\ initialized \in BOOLEAN
  BY LifecycleAssumption DEF LifeInd, TypeOK, Owned
<1>a. Live \subseteq 1..made /\ ~(0 \in Live)
  BY <1>0 DEF Live
<1>1. CASE UNCHANGED vars
  BY <1>0, <1>1, OutOfCall DEF vars, state, world, Live, Busy
<1>2. ASSUME NEW i \in Instances, RunStart(i) \/ RunStop(i) \/ EndLoop(i)
      PROVE  OneByOne'
  <2>1. UNCHANGED <<runtime, hooks, loop, initialized, orderly, call>>
    BY <1>2 DEF RunStart, RunStop, EndLoop, state
  <2>2. Live' = Live
    BY <1>2 DEF RunStart, RunStop, EndLoop, Live
  <2> QED BY <1>0, <2>1, <2>2, OutOfCall DEF Busy
<1>3. ASSUME NEW t \in Threads, Status(t) \/ ReadStatus(t)
      PROVE  OneByOne'
  <2>1. UNCHANGED <<runtime, hooks, loop, initialized, orderly, alive, ending>> /\ ~Busy(t)
    BY <1>3 DEF Status, ReadStatus, state, world, Outside, At, Busy, InitPcs, DisablePcs
  <2>2. \E p \in {"out", "raised", "refused", "reading"} : \E i : Goto(t, p, i)
    BY <1>3 DEF Status, ReadStatus
  <2>3. ~Busy(t)' /\ \A u \in Threads \ {t} : call'[u] = call[u]
    BY <1>0, <2>2, GotoFacts DEF Busy, InitPcs, DisablePcs
  <2>4. \A u \in Threads : (Busy(u)' <=> Busy(u)) /\ (Busy(u) => call'[u] = call[u])
    BY <2>1, <2>3 DEF Busy
  <2> QED BY <1>0, <2>1, <2>4, OutOfCall DEF Live
<1>4. ASSUME NEW t \in Threads, BeginInit(t)
      PROVE  OneByOne'
  <2>1. /\ Outside(t) /\ UNCHANGED <<runtime, hooks, loop, initialized, ending>>
        /\ alive' = alive \cup {made + 1}
        /\ orderly' = (orderly /\ Quiet /\ ~initialized)
        /\ Goto(t, "starting", made + 1)
    BY <1>4 DEF BeginInit, state
  <2>2. /\ call'[t].pc = "starting" /\ call'[t].at = made + 1
        /\ \A u \in Threads \ {t} : call'[u] = call[u]
    BY <1>0, <2>1, GotoFacts
  <2>3. ASSUME orderly', Settled PROVE Stage(t)'
    <3>1. Cleared' /\ Live = {}
      BY <1>a, <2>1, <2>3 DEF Settled, Whole, Cleared, None
    <3>2. Live' \subseteq {made + 1}
      BY <2>1, <3>1 DEF Live
    <3> QED BY <2>2, <3>1, <3>2 DEF Stage
  <2>4. Busy(t)'
    BY <2>2 DEF Busy, InitPcs
  <2> QED BY <1>0, <2>1, <2>2, <2>3, <2>4, Enters
<1>5. ASSUME NEW t \in Threads, BeginDisable(t)
      PROVE  OneByOne'
  <2>1. /\ Outside(t) /\ initialized
        /\ UNCHANGED <<runtime, hooks, loop, initialized, alive, ending>>
        /\ orderly' = (orderly /\ Quiet)
        /\ Goto(t, "hooks", None)
    BY <1>5 DEF BeginDisable, state, world
  <2>2. call'[t].pc = "hooks" /\ \A u \in Threads \ {t} : call'[u] = call[u]
    BY <1>0, <2>1, GotoFacts
  <2>3. Settled => Stage(t)'
    BY <2>1, <2>2 DEF Stage, Settled, Whole, Live
  <2>4. Busy(t)'
    BY <2>2 DEF Busy, DisablePcs
  <2> QED BY <1>0, <2>1, <2>2, <2>3, <2>4, Enters
<1>6. ASSUME NEW t \in Threads, InitFails(t) \/ InitSteps(t)
      PROVE  OneByOne'
  <2>1. call[t].pc \in InitPcs /\ Busy(t) /\ orderly' = orderly
    BY <1>6 DEF InitFails, InitSteps, StartReturned, CommitRuntime, CommitInitialized, CommitLoop,
                At, InitPcs, Busy
  <2>2. \E p, i : Goto(t, p, i)
    BY <1>6 DEF InitFails, InitSteps, StartReturned, CommitRuntime, CommitInitialized, CommitLoop,
                Continue
  <2>3. \A u \in Threads \ {t} : call'[u] = call[u]
    BY <1>0, <2>2, GotoFacts
  <2>4. call[t].at # None
    BY <1>0, <1>a, <2>1 DEF Owned, None
  <2>5. ASSUME orderly PROVE (Busy(t)' => Stage(t)') /\ (~Busy(t)' => Settled')
    <3>0. Stage(t)
      BY <1>0, <2>1, <2>5 DEF OneByOne
    <3>1. CASE InitFails(t)
      <4>1. /\ call[t].pc = "starting" /\ UNCHANGED <<runtime, hooks, loop, initialized, alive>>
            /\ ending' = ending \cup {call[t].at} /\ Goto(t, "raised", None)
        BY <3>1 DEF InitFails, At, Mine, state
      <4>2. call'[t].pc = "raised"
        BY <1>0, <4>1, GotoFacts
      <4>3. Settled'
        BY <3>0, <4>1 DEF Stage, Cleared, Settled, Whole, Live
      <4> QED BY <4>2, <4>3 DEF Busy, InitPcs, DisablePcs
    <3>2. CASE StartReturned(t)
      <4>1. /\ call[t].pc = "starting"
            /\ UNCHANGED <<runtime, hooks, loop, initialized, alive, ending>>
            /\ Goto(t, "commit runtime", call[t].at)
        BY <3>2 DEF StartReturned, At, Mine, Continue, state, world
      <4>2. call'[t].pc = "commit runtime" /\ call'[t].at = call[t].at
        BY <1>0, <4>1, GotoFacts
      <4> QED BY <3>0, <4>1, <4>2 DEF Stage, Cleared, Live, Busy, InitPcs
    <3>3. CASE CommitRuntime(t)
      <4>1. /\ call[t].pc = "commit runtime" /\ runtime' = call[t].at /\ hooks' = call[t].at
            /\ UNCHANGED <<loop, initialized, alive, ending>>
            /\ Goto(t, "commit initialized", call[t].at)
        BY <3>3 DEF CommitRuntime, At, Mine, Continue, world
      <4>2. call'[t].pc = "commit initialized" /\ call'[t].at = call[t].at
        BY <1>0, <4>1, GotoFacts
      <4> QED BY <3>0, <4>1, <4>2 DEF Stage, Cleared, Live, Busy, InitPcs
    <3>4. CASE CommitInitialized(t)
      <4>1. /\ call[t].pc = "commit initialized" /\ initialized' = TRUE
            /\ UNCHANGED <<runtime, hooks, loop, alive, ending>>
            /\ Goto(t, "commit loop", call[t].at)
        BY <3>4 DEF CommitInitialized, At, Mine, Continue, world
      <4>2. call'[t].pc = "commit loop" /\ call'[t].at = call[t].at
        BY <1>0, <4>1, GotoFacts
      <4> QED BY <3>0, <4>1, <4>2 DEF Stage, Cleared, Live, Busy, InitPcs
    <3>5. CASE CommitLoop(t)
      <4>1. /\ call[t].pc = "commit loop" /\ loop' = call[t].at
            /\ UNCHANGED <<runtime, hooks, initialized, alive, ending>>
            /\ Goto(t, "out", None)
        BY <3>5 DEF CommitLoop, At, Mine, world
      <4>2. call'[t].pc = "out"
        BY <1>0, <4>1, GotoFacts
      <4>3. Settled'
        BY <2>4, <3>0, <4>1 DEF Stage, Settled, Whole, Live
      <4> QED BY <4>2, <4>3 DEF Busy, InitPcs, DisablePcs
    <3> QED BY <1>6, <3>1, <3>2, <3>3, <3>4, <3>5 DEF InitSteps
  <2> QED BY <1>0, <2>1, <2>3, <2>5, InCall
<1>7. ASSUME NEW t \in Threads, DisableSteps(t)
      PROVE  OneByOne'
  <2>1. call[t].pc \in DisablePcs /\ Busy(t) /\ orderly' = orderly
    BY <1>7 DEF DisableSteps, RemoveHooks, SubmitStop, StopReturned, StopLoop, ClearRuntime,
                ClearRest, At, DisablePcs, Busy
  <2>2. \E p, i : Goto(t, p, i)
    BY <1>7 DEF DisableSteps, RemoveHooks, SubmitStop, StopReturned, StopLoop, ClearRuntime,
                ClearRest, Continue
  <2>3. \A u \in Threads \ {t} : call'[u] = call[u]
    BY <1>0, <2>2, GotoFacts
  <2>5. ASSUME orderly PROVE (Busy(t)' => Stage(t)') /\ (~Busy(t)' => Settled')
    <3>0. Stage(t)
      BY <1>0, <2>1, <2>5 DEF OneByOne
    <3>1. CASE RemoveHooks(t) \/ SubmitStop(t) \/ StopReturned(t)
      <4>1. /\ call[t].pc \in {"hooks", "submit", "awaiting stop"}
            /\ UNCHANGED <<runtime, hooks, loop, initialized, alive, ending>>
        BY <3>1 DEF RemoveHooks, SubmitStop, StopReturned, At, state, world
      <4>2. Settled /\ initialized /\ runtime # None /\ loop # None
        BY <3>0, <4>1 DEF Stage, Settled, Whole
      <4>3. \E p \in {"submit", "awaiting stop", "stop loop"} : \E i : Goto(t, p, i)
        BY <3>1, <4>2 DEF RemoveHooks, SubmitStop, StopReturned, Continue
      <4>4. call'[t].pc \in {"submit", "awaiting stop", "stop loop"}
        BY <1>0, <4>3, GotoFacts
      <4> QED BY <4>1, <4>2, <4>4 DEF Stage, Settled, Whole, Live, Busy, DisablePcs
    <3>2. CASE StopLoop(t)
      <4>1. call[t].pc = "stop loop" /\ UNCHANGED <<runtime, hooks, loop, initialized, alive>>
        BY <3>2 DEF StopLoop, At, state
      <4>2. Settled /\ initialized /\ loop # None
        BY <3>0, <4>1 DEF Stage, Settled, Whole
      <4>3. ending' = ending \cup ({loop} \cap alive) /\ Goto(t, "clear", call[t].at)
        BY <3>2, <4>2 DEF StopLoop, Continue
      <4>4. call'[t].pc = "clear"
        BY <1>0, <4>3, GotoFacts
      <4>5. Live' = {}
        BY <4>1, <4>2, <4>3 DEF Settled, Live
      <4> QED BY <4>1, <4>2, <4>4, <4>5 DEF Stage, Settled, Whole, Busy, DisablePcs
    <3>3. CASE ClearRuntime(t)
      <4>1. /\ call[t].pc = "clear" /\ runtime' = None /\ hooks' = None
            /\ UNCHANGED <<loop, initialized, alive, ending>>
            /\ Goto(t, "clear rest", call[t].at)
        BY <3>3 DEF ClearRuntime, At, Continue, world
      <4>2. call'[t].pc = "clear rest"
        BY <1>0, <4>1, GotoFacts
      <4> QED BY <3>0, <4>1, <4>2 DEF Stage, Live, Busy, DisablePcs
    <3>4. CASE ClearRest(t)
      <4>1. /\ call[t].pc = "clear rest" /\ initialized' = FALSE /\ loop' = None
            /\ UNCHANGED <<runtime, hooks, alive, ending>>
            /\ Goto(t, "out", None)
        BY <3>4 DEF ClearRest, At, world
      <4>2. call'[t].pc = "out"
        BY <1>0, <4>1, GotoFacts
      <4>3. Settled'
        BY <3>0, <4>1 DEF Stage, Settled, Whole, Live
      <4> QED BY <4>2, <4>3 DEF Busy, InitPcs, DisablePcs
    <3> QED BY <1>7, <3>1, <3>2, <3>3, <3>4 DEF DisableSteps
  <2> QED BY <1>0, <2>1, <2>3, <2>5, InCall
<1> QED BY <1>1, <1>2, <1>3, <1>4, <1>5, <1>6, <1>7 DEF Next

LEMMA LifeStep == LifeInd /\ [Next]_vars => LifeInd'
  BY LifeTypes, OwnedStep, OneByOneStep DEF LifeInd

THEOREM LifeInvariant == Spec => []LifeInd
  BY LifeInit, LifeStep, PTL DEF Spec

(* Between calls made one at a time no loop thread is orphaned, whichever  *)
(* of the earlier calls failed or timed out.                               *)
THEOREM NoLoopOrphaned == Spec => []LifeInv
<1>1. LifeInd => LifeInv
  <2> SUFFICES ASSUME LifeInd, Quiet, orderly, NEW i \in Live
               PROVE  i = loop /\ i = runtime /\ initialized
    BY DEF LifeInd, LifeInv, NoOrphanLoop, Live
  <2>1. \A t \in Threads : ~Busy(t)
    BY DEF Quiet, Outside, Busy, InitPcs, DisablePcs
  <2>2. Settled
    BY <2>1 DEF LifeInd, OneByOne
  <2>3. i # None
    BY DEF LifeInd, Owned, Live, None
  <2> QED BY <2>2, <2>3 DEF Settled, Whole
<1> QED BY <1>1, LifeInvariant, PTL

(* Between such calls _state is all set by one init(), or all cleared.     *)
THEOREM StateIsWhole == Spec => []AllOrNothing
<1>1. LifeInd => AllOrNothing
  <2> SUFFICES ASSUME LifeInd, Quiet, orderly PROVE Whole
    BY DEF AllOrNothing, Whole
  <2>1. \A t \in Threads : ~Busy(t)
    BY DEF Quiet, Outside, Busy, InitPcs, DisablePcs
  <2> QED BY <2>1 DEF LifeInd, OneByOne, Settled
<1> QED BY <1>1, LifeInvariant, PTL

-----------------------------------------------------------------------------
(* disable() returns.                                                      *)

(* The steps of a call in the order they come, for a thread in disable().  *)
Comes(t, p, q) == call[t].pc = p => call'[t].pc \in q

(* Another thread's step, a loop's, or a reader's, leaves it where it is.  *)
LEMMA DisableStays ==
  ASSUME TypeOK, NEW t \in Threads, [Next]_vars, call[t].pc \in DisablePcs
  PROVE  call'[t] = call[t] \/ DisableSteps(t)
<1>0. /\ call[t].pc \notin InitPcs \cup {"reading"} /\ ~Outside(t)
      /\ \A u \in Threads \ {t} : \A p, i : Goto(u, p, i) => call'[t] = call[t]
  BY GotoFacts DEF InitPcs, DisablePcs, Outside
<1>1. CASE UNCHANGED vars
  BY <1>1 DEF vars
<1>2. ASSUME NEW i \in Instances, RunStart(i) \/ RunStop(i) \/ EndLoop(i)
      PROVE  call' = call
  BY <1>2 DEF RunStart, RunStop, EndLoop
<1>3. ASSUME NEW u \in Threads, BeginInit(u) \/ BeginDisable(u) \/ Status(u)
      PROVE  call'[t] = call[t]
  BY <1>0, <1>3 DEF BeginInit, BeginDisable, Status
<1>4. ASSUME NEW u \in Threads, InitFails(u) \/ InitSteps(u) \/ ReadStatus(u)
      PROVE  call'[t] = call[t]
  BY <1>0, <1>4 DEF InitFails, InitSteps, StartReturned, CommitRuntime, CommitInitialized,
                    CommitLoop, ReadStatus, At, Continue, InitPcs
<1>5. ASSUME NEW u \in Threads \ {t}, DisableSteps(u)
      PROVE  call'[t] = call[t]
  BY <1>0, <1>5 DEF DisableSteps, RemoveHooks, SubmitStop, StopReturned, StopLoop,
                    ClearRuntime, ClearRest, Continue
<1> QED BY <1>1, <1>2, <1>3, <1>4, <1>5 DEF Next

(* Its own step brings it nearer to its end.                               *)
LEMMA DisableMoves ==
  ASSUME TypeOK, NEW t \in Threads, DisableSteps(t)
  PROVE  /\ Comes(t, "hooks", {"submit", "clear"})
         /\ Comes(t, "submit", {"awaiting stop", "raised"})
         /\ Comes(t, "awaiting stop", {"stop loop"})
         /\ Comes(t, "stop loop", {"clear", "raised"})
         /\ Comes(t, "clear", {"clear rest"})
         /\ Comes(t, "clear rest", {"out"})
<1>0. \A p, i : Goto(t, p, i) => call'[t].pc = p
  BY GotoFacts
<1> QED BY <1>0 DEF DisableSteps, RemoveHooks, SubmitStop, StopReturned, StopLoop,
                    ClearRuntime, ClearRest, At, Continue, Comes

LEMMA FairToDisable ==
  ASSUME NEW t \in Threads
  PROVE  FairSpec => Spec /\ WF_vars(DisableSteps(t))
<1>1. (\A u \in Threads : CallGoesOn(u)) => CallGoesOn(t)
  OBVIOUS
<1>2. FairSpec => CallGoesOn(t)
  BY <1>1, PTL DEF FairSpec
<1> QED BY <1>2, PTL DEF FairSpec, CallGoesOn

(* disable() returns, or raises, whether or not the loop ever runs the     *)
(* stop() submitted to it, and whatever the other threads call meanwhile.  *)
(* The hypothesis is about ENABLED only.                                   *)
THEOREM DisablesReturn == FairSpec /\ []DisableNotBlocked => DisableReturns
<1> SUFFICES ASSUME NEW t \in Threads
             PROVE  FairSpec /\ []DisableNotBlocked => (call[t].pc \in DisablePcs ~> Outside(t))
  BY DEF DisableReturns
<1> DEFINE Within   == call[t].pc \in DisablePcs
           Hooks    == call[t].pc = "hooks"
           Submit   == call[t].pc = "submit"
           Awaiting == call[t].pc = "awaiting stop"
           Stopping == call[t].pc = "stop loop"
           Clearing == call[t].pc = "clear"
           Last     == call[t].pc = "clear rest"
           Returned == Outside(t)
           Turn     == ENABLED <<DisableSteps(t)>>_vars
<1>1. FairSpec => Spec /\ WF_vars(DisableSteps(t))
  BY FairToDisable, PTL
<1>2. DisableNotBlocked => (Within => Turn)
  <2>1. DisableNotBlocked => NotBlocked(t)
    BY DEF DisableNotBlocked
  <2> QED BY <2>1 DEF NotBlocked
<1>3. Within <=> Hooks \/ Submit \/ Awaiting \/ Stopping \/ Clearing \/ Last
  BY DEF DisablePcs
<1>4. TypeOK /\ <<DisableSteps(t)>>_vars => /\ Hooks => Submit' \/ Clearing'
                                            /\ Submit => Awaiting' \/ Returned'
                                            /\ Awaiting => Stopping'
                                            /\ Stopping => Clearing' \/ Returned'
                                            /\ Clearing => Last'
                                            /\ Last => Returned'
  BY DisableMoves DEF Comes, Outside
<1>5. TypeOK /\ [Next]_vars => /\ Hooks => Hooks' \/ Submit' \/ Clearing'
                               /\ Submit => Submit' \/ Awaiting' \/ Returned'
                               /\ Awaiting => Awaiting' \/ Stopping'
                               /\ Stopping => Stopping' \/ Clearing' \/ Returned'
                               /\ Clearing => Clearing' \/ Last'
                               /\ Last => Last' \/ Returned'
  BY DisableStays, DisableMoves DEF Comes, Outside, DisablePcs
<1>6. Spec => []TypeOK
  BY LifeInvariant, PTL DEF LifeInd
<1>7. FairSpec /\ []DisableNotBlocked => [](Within => <>Returned)
  <2> HIDE DEF Within, Hooks, Submit, Awaiting, Stopping, Clearing, Last, Returned
  <2> QED BY <1>1, <1>2, <1>3, <1>4, <1>5, <1>6, PTL DEF Spec
<1> QED BY <1>7, PTL

-----------------------------------------------------------------------------
(* The explicit checkpoint API, CheckpointApi. *)

(* Nothing is tagged with an epoch to come. *)
Past == /\ \A t \in Tiers : \A i \in 1..Len(log[t]) : log[t][i] <= epoch
        /\ \A s \in Callers : saver[s].epoch <= epoch
        /\ delivered <= epoch

(* What restore() has yet to look at holds what it was called for: a tier  *)
(* never loses an entry.                                                   *)
StillSeen == /\ reader.pc = "remote" /\ reader.saw => Nonempty # {}
             /\ reader.pc = "peer" /\ reader.saw => Nonempty \cap {"peer", "local"} # {}
             /\ reader.pc = "local" /\ reader.saw => log["local"] # << >>

(* Until calls overlap, a restore runs alone and the tiers it has passed   *)
(* stay empty; a save runs alone, at an epoch no older than any delivered; *)
(* and the first tier with an entry ends with one no older than that.      *)
FirstTier == IF log["remote"] # << >> THEN "remote"
             ELSE IF log["peer"] # << >> THEN "peer" ELSE "local"

ReadsAlone == Restoring =>
                /\ \A s \in Callers : saver[s].todo = << >>
                /\ reader.durable = Durable
                /\ reader.pc \in {"peer", "local"} => log["remote"] = << >>
                /\ reader.pc = "local" => log["peer"] = << >>
SavesAlone == \A s \in Callers : saver[s].todo # << >> =>
                /\ delivered <= saver[s].epoch
                /\ \A t \in Callers : saver[t].todo # << >> => s = t
NewestFirst == IF Nonempty = {} THEN delivered = 0 ELSE delivered <= LastOf(FirstTier)

Alone == ~raced => ReadsAlone /\ SavesAlone /\ NewestFirst

ApiInd == ApiInv /\ Past /\ StillSeen /\ Alone

(* A call that enters without a race is the only one.                      *)
LEMMA EnterAlone ==
  ASSUME ApiTypeOK, NEW s \in Callers, Enter(s), ~raced'
  PROVE  /\ ~raced /\ ~Restoring
         /\ \A t \in Callers : saver[t].todo = << >>
<1>1. ~raced /\ \A t \in Callers : Free(t)
  BY DEF Enter, ApiTypeOK
<1>2. Restoring => reader.by \in Callers
  BY DEF ApiTypeOK, Restoring, Tiers
<1> QED BY <1>1, <1>2 DEF Free

(* The invariant holds before any call.                                    *)
LEMMA ApiIndInit == ApiInit => ApiInd
<1> SUFFICES ASSUME ApiInit PROVE ApiInd
  OBVIOUS
<1>1. \A t \in Tiers : log[t] = << >>
  BY DEF ApiInit
<1>2. Nonempty = {} /\ ~Restoring /\ reader.pc = "idle" /\ delivered = 0 /\ epoch = 0
      /\ \A s \in Callers : saver[s].todo = << >> /\ saver[s].epoch = 0
  BY <1>1 DEF ApiInit, Nonempty, Restoring, Idle, Tiers
<1>3. ApiTypeOK
  <2>0. 0 \in Epochs /\ 0 \in 0..MaxSaves
    BY ApiAssumption DEF Epochs
  <2>1. 0 \in Epochs /\ saves \in 0..MaxSaves /\ raced \in BOOLEAN /\ delivered \in Epochs
        /\ epoch \in Epochs
    BY <2>0 DEF ApiInit
  <2>2. << >> \in Seq(Epochs) /\ << >> \in Seq(Tiers)
    OBVIOUS
  <2>3. log \in [Tiers -> Seq(Epochs)]
    BY <2>2 DEF ApiInit
  <2>4. saver \in [Callers -> [todo : Seq(Tiers), epoch : Epochs]]
    BY <2>1, <2>2 DEF ApiInit, Idle
  <2>5. reader = [pc |-> "idle"]
    BY DEF ApiInit
  <2> QED BY <2>1, <2>3, <2>4, <2>5 DEF ApiTypeOK
<1>4. Past /\ StillSeen /\ Alone
  BY <1>1, <1>2 DEF Past, StillSeen, Alone, ReadsAlone, SavesAlone, NewestFirst
<1> QED BY <1>2, <1>3, <1>4 DEF ApiInd, ApiInv, DurableIsEnough, RaisesOnlyIfEmpty

(* A fault dispatched meanwhile keeps it.                                  *)
LEMMA NextEpochKeeps ==
  ASSUME ApiInd, NextEpoch
  PROVE  ApiInd'
<1>0. /\ ApiTypeOK /\ epoch' = epoch + 1 /\ epoch \in Epochs
      /\ epoch < MaxEpoch /\ MaxEpoch \in Nat
      /\ UNCHANGED <<log, saver, reader, saves, raced, delivered>>
  BY ApiAssumption DEF ApiInd, ApiInv, ApiTypeOK, NextEpoch
<1>1. ApiTypeOK'
  BY <1>0 DEF ApiTypeOK, Epochs
<1>2. Past'
  <2>1. \A t \in Tiers : \A i \in 1..Len(log[t]) : log[t][i] \in Nat
    BY <1>0 DEF ApiTypeOK, Epochs
  <2>2. \A s \in Callers : saver[s].epoch \in Nat
    BY <1>0 DEF ApiTypeOK, Epochs
  <2>3. delivered \in Nat
    BY <1>0 DEF ApiTypeOK, Epochs
  <2> QED BY <1>0, <2>1, <2>2, <2>3 DEF ApiInd, Past, Epochs
<1>3. (DurableIsEnough /\ RaisesOnlyIfEmpty /\ StillSeen)'
  BY <1>0 DEF ApiInd, ApiInv, DurableIsEnough, RaisesOnlyIfEmpty, StillSeen,
              Nonempty
<1>4. Alone'
  BY <1>0 DEF ApiInd, Alone, ReadsAlone, SavesAlone, NewestFirst, Nonempty, Restoring,
              FirstTier, LastOf, Durable
<1> QED BY <1>1, <1>2, <1>3, <1>4 DEF ApiInd, ApiInv

(* A save reads the epoch once; without a race nothing else is under way.  *)
LEMMA SaveKeeps ==
  ASSUME ApiInd, NEW s \in Callers, NEW tier \in Tiers \cup {"auto"},
         Save(s, tier)
  PROVE  ApiInd'
<1>0. ApiTypeOK /\ Enter(s) /\ saves < MaxSaves /\ saves' = saves + 1
      /\ saver' = [saver EXCEPT ![s] = [todo |-> Plan(tier), epoch |-> epoch]]
      /\ UNCHANGED <<epoch, log, reader, delivered>>
  BY DEF ApiInd, ApiInv, Save
<1>1. Plan(tier) \in Seq(Tiers)
  <2>1. \A t \in Tiers : <<t>> \in Seq(Tiers)
    OBVIOUS
  <2>2. <<"local", "peer", "remote">> \in Seq(Tiers)
    BY DEF Tiers
  <2> QED BY <2>1, <2>2 DEF Plan
<1>2. /\ saver'[s].todo = Plan(tier) /\ saver'[s].epoch = epoch
      /\ \A t \in Callers \ {s} : saver'[t] = saver[t]
  BY <1>0 DEF ApiTypeOK
<1>3. ApiTypeOK'
  <2>1. saver' \in [Callers -> [todo : Seq(Tiers), epoch : Epochs]]
    BY <1>0, <1>1 DEF ApiTypeOK
  <2>2. saves' \in 0..MaxSaves /\ raced' \in BOOLEAN
    BY <1>0, ApiAssumption DEF ApiTypeOK, Enter
  <2> QED BY <1>0, <2>1, <2>2 DEF ApiTypeOK
<1>4. Past'
  <2>1. epoch <= epoch
    BY <1>0, ApiAssumption DEF ApiTypeOK, Epochs
  <2> QED BY <1>0, <1>2, <2>1 DEF ApiInd, Past
<1>5. (RaisesOnlyIfEmpty /\ StillSeen)'
  BY <1>0 DEF ApiInd, ApiInv, RaisesOnlyIfEmpty, StillSeen, Nonempty
<1>6. ~raced' => ~raced
  BY <1>0 DEF Enter
<1>7. DurableIsEnough'
  BY <1>0, <1>6 DEF ApiInd, ApiInv, DurableIsEnough
<1>8. Alone'
  <2> SUFFICES ASSUME ~raced' PROVE (ReadsAlone /\ SavesAlone /\ NewestFirst)'
    BY DEF Alone
  <2>1. ~raced /\ ~Restoring /\ \A t \in Callers : saver[t].todo = << >>
    BY <1>0, EnterAlone
  <2>2. ReadsAlone'
    BY <1>0, <2>1 DEF ReadsAlone, Restoring
  <2>3. SavesAlone'
    BY <1>0, <1>2, <2>1 DEF SavesAlone, ApiInd, Past
  <2>4. NewestFirst'
    BY <1>0, <2>1 DEF ApiInd, Alone, NewestFirst, Nonempty, FirstTier, LastOf
  <2> QED BY <2>2, <2>3, <2>4
<1> QED BY <1>3, <1>4, <1>5, <1>7, <1>8 DEF ApiInd, ApiInv

(* A tier gets an entry. *)
LEMMA WriteTierKeeps ==
  ASSUME ApiInd, NEW s \in Callers, WriteTier(s)
  PROVE  ApiInd'
<1>a. ApiTypeOK /\ saver[s].todo # << >>
  BY DEF ApiInd, ApiInv, WriteTier
<1>b. /\ Head(saver[s].todo) \in Tiers /\ Tail(saver[s].todo) \in Seq(Tiers)
      /\ saver[s].epoch \in Epochs
  BY <1>a, HeadTailProperties DEF ApiTypeOK
<1>c. PICK x \in Tiers, e \in Epochs : x = Head(saver[s].todo) /\ e = saver[s].epoch
  BY <1>b
<1>0. ApiTypeOK /\ saver[s].todo # << >>
      /\ log' = [log EXCEPT ![x] = Append(@, e)]
      /\ saver' = [saver EXCEPT ![s].todo = Tail(@)]
      /\ UNCHANGED <<epoch, reader, saves, raced, delivered>>
  BY <1>a, <1>c DEF WriteTier
<1>1. x \in Tiers /\ e \in Epochs /\ Tail(saver[s].todo) \in Seq(Tiers)
  BY <1>b, <1>c
<1>2. /\ log'[x] = Append(log[x], e) /\ \A t \in Tiers \ {x} : log'[t] = log[t]
      /\ DOMAIN log' = Tiers
  BY <1>0, <1>1 DEF ApiTypeOK
<1>3. \A t \in Tiers : log[t] \in Seq(Epochs) /\ log'[t] \in Seq(Epochs)
  BY <1>0, <1>1, <1>2, AppendProperties DEF ApiTypeOK
<1>4. /\ log'[x] # << >> /\ Len(log'[x]) = Len(log[x]) + 1 /\ log'[x][Len(log[x]) + 1] = e
      /\ \A i \in 1..Len(log[x]) : log'[x][i] = log[x][i]
      /\ Len(log[x]) \in Nat
  <2>1. log[x] \in Seq(Epochs) /\ log'[x] = Append(log[x], e)
    BY <1>2, <1>3
  <2>2. Len(log[x]) \in Nat
    BY <2>1, LenProperties
  <2>3. /\ Append(log[x], e) # << >> /\ Len(Append(log[x], e)) = Len(log[x]) + 1
        /\ Append(log[x], e)[Len(log[x]) + 1] = e
        /\ \A i \in 1..Len(log[x]) : Append(log[x], e)[i] = log[x][i]
    BY <2>1, AppendProperties
  <2> QED BY <2>1, <2>2, <2>3
<1>5. LastOf(x)' = e
  BY <1>4 DEF LastOf
<1>6. /\ saver'[s].todo = Tail(saver[s].todo)
      /\ \A t \in Callers : saver'[t].epoch = saver[t].epoch
      /\ \A t \in Callers \ {s} : saver'[t] = saver[t]
  BY <1>0 DEF ApiTypeOK
<1>7. ApiTypeOK'
  <2>1. log' \in [Tiers -> Seq(Epochs)]
    <3>1. log' = [t \in Tiers |-> log'[t]]
      BY <1>0 DEF ApiTypeOK
    <3> QED BY <1>3, <3>1
  <2>2. saver' \in [Callers -> [todo : Seq(Tiers), epoch : Epochs]]
    BY <1>0, <1>1 DEF ApiTypeOK
  <2> QED BY <1>0, <2>1, <2>2 DEF ApiTypeOK
<1>8. Past'
  <2>1. \A t \in Tiers : \A i \in 1..Len(log'[t]) : log'[t][i] <= epoch
    <3> SUFFICES ASSUME NEW t \in Tiers, NEW i \in 1..Len(log'[t]) PROVE log'[t][i] <= epoch
      OBVIOUS
    <3>1. CASE t # x
      BY <1>2, <3>1 DEF ApiInd, Past
    <3>2. CASE t = x /\ i \in 1..Len(log[x])
      BY <1>1, <1>4, <3>2 DEF ApiInd, Past
    <3>3. CASE t = x /\ i \notin 1..Len(log[x])
      <4>1. i = Len(log[x]) + 1
        BY <1>4, <3>3
      <4>2. e <= epoch
        BY <1>c DEF ApiInd, Past
      <4> QED BY <1>4, <3>3, <4>1, <4>2
    <3> QED BY <3>1, <3>2, <3>3
  <2> QED BY <1>0, <1>6, <2>1 DEF ApiInd, Past
<1>9. \A t \in Tiers : log[t] # << >> => log'[t] # << >>
  BY <1>2, <1>4
<1>10. StillSeen'
  BY <1>0, <1>9 DEF ApiInd, StillSeen, Nonempty, Tiers
<1>11. RaisesOnlyIfEmpty'
  <2>1. \A t \in Tiers : \A i \in 1..Len(log[t]) :
          i \in 1..Len(log'[t]) /\ log'[t][i] = log[t][i]
    BY <1>2, <1>4
  <2> QED BY <1>0, <2>1 DEF ApiInd, ApiInv, RaisesOnlyIfEmpty
<1>12. DurableIsEnough'
  BY <1>0 DEF ApiInd, ApiInv, DurableIsEnough
<1>13. Alone'
  <2> SUFFICES ASSUME ~raced PROVE (ReadsAlone /\ SavesAlone /\ NewestFirst)'
    BY <1>0 DEF Alone
  <2>0. ReadsAlone /\ SavesAlone /\ NewestFirst
    BY DEF ApiInd, Alone
  <2>1. ~Restoring /\ ~Restoring'
    BY <1>0, <2>0 DEF ReadsAlone, Restoring
  <2>2. ReadsAlone'
    BY <2>1 DEF ReadsAlone
  <2>3. SavesAlone'
    <3>1. \A t \in Callers : saver[t].todo # << >> => t = s
      BY <1>0, <2>0 DEF SavesAlone
    <3>2. \A t \in Callers : saver'[t].todo # << >> => t = s
      BY <1>6, <3>1
    <3>3. delivered <= e
      BY <1>0, <1>c, <2>0 DEF SavesAlone
    <3> QED BY <1>0, <1>6, <1>c, <3>2, <3>3 DEF SavesAlone
  <2>4. Nonempty' # {}
    BY <1>1, <1>4 DEF Nonempty
  <2>5. delivered <= LastOf(FirstTier)'
    <3>1. delivered <= e
      BY <1>0, <1>c, <2>0 DEF SavesAlone
    <3>2. CASE FirstTier' = x
      BY <1>0, <1>5, <3>1, <3>2 DEF LastOf
    <3>3. CASE FirstTier' # x
      <4>1. FirstTier' = FirstTier /\ FirstTier \in Tiers \ {x} /\ log[FirstTier] # << >>
        BY <1>1, <1>2, <1>4, <1>9, <3>3 DEF FirstTier, Tiers
      <4>2. Nonempty # {}
        BY <4>1 DEF Nonempty
      <4>3. delivered <= LastOf(FirstTier)
        BY <2>0, <4>2 DEF NewestFirst
      <4> QED BY <1>2, <4>1, <4>3 DEF LastOf
    <3> QED BY <3>2, <3>3
  <2>6. NewestFirst'
    BY <1>0, <2>4, <2>5 DEF NewestFirst
  <2> QED BY <2>2, <2>3, <2>6
<1> QED BY <1>7, <1>8, <1>10, <1>11, <1>12, <1>13 DEF ApiInd, ApiInv

(* A save that raises leaves what it has written.                          *)
LEMMA SaveRaisesKeeps ==
  ASSUME ApiInd, NEW s \in Callers, SaveRaises(s)
  PROVE  ApiInd'
<1>0. ApiTypeOK /\ saver' = [saver EXCEPT ![s].todo = << >>]
      /\ UNCHANGED <<epoch, log, reader, saves, raced, delivered>>
  BY DEF ApiInd, ApiInv, SaveRaises
<1>1. \A t \in Callers : /\ saver'[t].epoch = saver[t].epoch
                         /\ saver'[t].todo # << >> => saver[t].todo # << >>
  BY <1>0 DEF ApiTypeOK
<1>2. ApiTypeOK'
  <2>1. saver' \in [Callers -> [todo : Seq(Tiers), epoch : Epochs]]
    <3>1. << >> \in Seq(Tiers)
      OBVIOUS
    <3> QED BY <1>0, <3>1 DEF ApiTypeOK
  <2> QED BY <1>0, <2>1 DEF ApiTypeOK
<1>3. Past'
  BY <1>0, <1>1 DEF ApiInd, Past
<1>4. (DurableIsEnough /\ RaisesOnlyIfEmpty /\ StillSeen)'
  BY <1>0 DEF ApiInd, ApiInv, DurableIsEnough, RaisesOnlyIfEmpty, StillSeen,
              Nonempty
<1>5. Alone'
  <2> SUFFICES ASSUME ~raced PROVE (ReadsAlone /\ SavesAlone /\ NewestFirst)'
    BY <1>0 DEF Alone
  <2>0. ReadsAlone /\ SavesAlone /\ NewestFirst
    BY DEF ApiInd, Alone
  <2>1. ReadsAlone'
    BY <1>0, <1>1, <2>0 DEF ReadsAlone, Restoring, Durable, LastOf
  <2>2. SavesAlone'
    BY <1>0, <1>1, <2>0 DEF SavesAlone
  <2>3. NewestFirst'
    BY <1>0, <2>0 DEF NewestFirst, Nonempty, FirstTier, LastOf
  <2> QED BY <2>1, <2>2, <2>3
<1> QED BY <1>2, <1>3, <1>4, <1>5 DEF ApiInd, ApiInv

(* A restore begins; without a race no save is under way.                  *)
LEMMA RestoreKeeps ==
  ASSUME ApiInd, NEW s \in Callers, Restore(s)
  PROVE  ApiInd'
<1>0. ApiTypeOK /\ ~Restoring /\ Enter(s)
      /\ reader' = [pc |-> "remote", by |-> s, epoch |-> NoEpoch,
                    saw |-> Nonempty # {}, durable |-> Durable]
      /\ UNCHANGED <<epoch, log, saver, saves, delivered>>
  BY DEF ApiInd, ApiInv, Restore
<1>1. /\ reader'.pc = "remote" /\ reader'.by = s /\ reader'.epoch = NoEpoch
      /\ reader'.saw = (Nonempty # {}) /\ reader'.durable = Durable
  BY <1>0
<1>2. Durable \in Epochs
  <2>1. log["remote"] \in Seq(Epochs)
    BY <1>0 DEF ApiTypeOK, Tiers
  <2>2. log["remote"] # << >> => LastOf("remote") \in Epochs
    BY <2>1, LenProperties DEF LastOf
  <2> QED BY <2>2, ApiAssumption DEF Durable, Epochs
<1>3. ApiTypeOK'
  <2>1. reader' \in [pc : Tiers \cup {"returned", "raised"}, by : Callers,
                     epoch : Epochs \cup {NoEpoch}, saw : BOOLEAN, durable : Epochs]
    BY <1>0, <1>2 DEF Tiers
  <2>2. raced' \in BOOLEAN
    BY <1>0 DEF ApiTypeOK, Enter
  <2> QED BY <1>0, <2>1, <2>2 DEF ApiTypeOK
<1>4. (Past /\ DurableIsEnough /\ RaisesOnlyIfEmpty /\ StillSeen)'
  BY <1>0, <1>1 DEF ApiInd, ApiInv, Past, DurableIsEnough, RaisesOnlyIfEmpty,
                    StillSeen, Nonempty
<1>5. Alone'
  <2> SUFFICES ASSUME ~raced' PROVE (ReadsAlone /\ SavesAlone /\ NewestFirst)'
    BY DEF Alone
  <2>1. ~raced /\ \A t \in Callers : saver[t].todo = << >>
    BY <1>0, EnterAlone
  <2>2. ReadsAlone'
    BY <1>0, <1>1, <2>1 DEF ReadsAlone, Durable, LastOf
  <2>3. SavesAlone'
    BY <1>0, <2>1 DEF SavesAlone
  <2>4. NewestFirst'
    BY <1>0, <2>1 DEF ApiInd, Alone, NewestFirst, Nonempty, FirstTier, LastOf
  <2> QED BY <2>2, <2>3, <2>4
<1> QED BY <1>3, <1>4, <1>5 DEF ApiInd, ApiInv

(* What restore() finds; until calls overlap, it is as new as it can be.   *)
LEMMA FoundFacts ==
  ASSUME ApiInd, Found
  PROVE  /\ reader.pc \in Tiers /\ log[reader.pc] \in Seq(Epochs)
         /\ Len(log[reader.pc]) \in Nat \ {0}
         /\ LastOf(reader.pc) \in Epochs
         /\ reader'.pc = "returned" /\ reader'.epoch = LastOf(reader.pc)
         /\ reader'.saw = reader.saw /\ reader'.durable = reader.durable
         /\ reader' \in [pc : Tiers \cup {"returned", "raised"}, by : Callers,
                         epoch : Epochs \cup {NoEpoch}, saw : BOOLEAN, durable : Epochs]
         /\ ~raced => reader.pc = FirstTier /\ delivered <= LastOf(reader.pc)
<1>0. ApiTypeOK /\ Restoring /\ reader.pc \in Tiers /\ log[reader.pc] # << >>
      /\ reader' = [reader EXCEPT !.pc = "returned", !.epoch = LastOf(reader.pc)]
  BY DEF ApiInd, ApiInv, Found, Restoring
<1>1. reader \in [pc : Tiers \cup {"returned", "raised"}, by : Callers,
                  epoch : Epochs \cup {NoEpoch}, saw : BOOLEAN, durable : Epochs]
  BY <1>0 DEF ApiTypeOK, Tiers
<1>2. log[reader.pc] \in Seq(Epochs) /\ Len(log[reader.pc]) \in Nat \ {0}
  BY <1>0, LenProperties, EmptySeq DEF ApiTypeOK
<1>3. LastOf(reader.pc) \in Epochs
  BY <1>2, ElementOfSeq DEF LastOf
<1>4. ASSUME ~raced PROVE reader.pc = FirstTier /\ delivered <= LastOf(reader.pc)
  <2>1. ReadsAlone /\ NewestFirst
    BY <1>4 DEF ApiInd, Alone
  <2>2. reader.pc = FirstTier
    BY <1>0, <2>1 DEF ReadsAlone, FirstTier, Tiers
  <2>3. Nonempty # {}
    BY <1>0 DEF Nonempty
  <2> QED BY <2>1, <2>2, <2>3 DEF NewestFirst
<1> QED BY <1>0, <1>1, <1>2, <1>3, <1>4

(* What it returns is what the properties are about.                       *)
LEMMA FoundKeeps ==
  ASSUME ApiInd, Found
  PROVE  ApiInd'
<1> DEFINE e == LastOf(reader.pc)
<1>0. ApiTypeOK /\ UNCHANGED <<epoch, log, saver, saves, raced>>
      /\ delivered' = (IF e > delivered THEN e ELSE delivered) /\ Restoring
  BY DEF ApiInd, ApiInv, Found
<1>1. /\ reader.pc \in Tiers /\ log[reader.pc] \in Seq(Epochs)
      /\ Len(log[reader.pc]) \in Nat \ {0}
      /\ e \in Epochs
      /\ reader'.pc = "returned" /\ reader'.epoch = e
      /\ reader'.saw = reader.saw /\ reader'.durable = reader.durable
      /\ reader' \in [pc : Tiers \cup {"returned", "raised"}, by : Callers,
                      epoch : Epochs \cup {NoEpoch}, saw : BOOLEAN, durable : Epochs]
      /\ ~raced => reader.pc = FirstTier /\ delivered <= e
  BY FoundFacts
<1>2. e = log[reader.pc][Len(log[reader.pc])]
  BY DEF LastOf
<1> HIDE DEF e
<1>3. ApiTypeOK'
  BY <1>0, <1>1 DEF ApiTypeOK
<1>4. e <= epoch
  BY <1>1, <1>2 DEF ApiInd, Past
<1>5. Past'
  BY <1>0, <1>4 DEF ApiInd, Past
<1>6. StillSeen'
  BY <1>1 DEF StillSeen
<1>7. RaisesOnlyIfEmpty'
  <2>1. Len(log[reader.pc]) \in 1..Len(log[reader.pc])
    BY <1>1
  <2> QED BY <1>0, <1>1, <1>2, <2>1 DEF RaisesOnlyIfEmpty
<1>8. DurableIsEnough'
  <2> SUFFICES ASSUME ~raced PROVE e >= reader.durable
    BY <1>0, <1>1 DEF DurableIsEnough
  <2>1. reader.durable = Durable
    BY <1>0 DEF ApiInd, Alone, ReadsAlone
  <2>2. CASE log["remote"] # << >>
    <3>1. e = Durable
      BY <1>1, <2>2 DEF FirstTier, Durable, e
    <3> QED BY <1>1, <2>1, <3>1 DEF Epochs
  <2>3. CASE log["remote"] = << >>
    BY <1>1, <2>1, <2>3 DEF Durable, Epochs
  <2> QED BY <2>2, <2>3
<1>9. Alone'
  <2> SUFFICES ASSUME ~raced PROVE (ReadsAlone /\ SavesAlone /\ NewestFirst)'
    BY <1>0 DEF Alone
  <2>1. \A s \in Callers : saver[s].todo = << >>
    BY <1>0 DEF ApiInd, Alone, ReadsAlone
  <2>2. ReadsAlone'
    BY <1>1 DEF ReadsAlone, Restoring, Tiers
  <2>3. SavesAlone'
    BY <1>0, <2>1 DEF SavesAlone
  <2>4. delivered' <= e
    BY <1>0, <1>1 DEF Epochs
  <2>5. Nonempty # {} /\ LastOf(FirstTier) = e
    <3>1. log[reader.pc] # << >>
      BY <1>1, EmptySeq
    <3> QED BY <1>1, <3>1 DEF Nonempty, e
  <2>6. NewestFirst'
    BY <1>0, <2>4, <2>5 DEF NewestFirst, Nonempty, FirstTier, LastOf
  <2> QED BY <2>2, <2>3, <2>6
<1> QED BY <1>3, <1>5, <1>6, <1>7, <1>8, <1>9 DEF ApiInd, ApiInv

(* A tier that is passed over was empty.                                   *)
LEMMA NotFoundKeeps ==
  ASSUME ApiInd, NotFound
  PROVE  ApiInd'
<1>0. ApiTypeOK /\ Restoring /\ reader.pc \in Tiers /\ log[reader.pc] = << >>
      /\ reader' = [reader EXCEPT !.pc = FallThrough[@]]
      /\ UNCHANGED <<epoch, log, saver, saves, raced, delivered>>
  BY DEF ApiInd, ApiInv, NotFound, Restoring
<1>1. reader \in [pc : Tiers \cup {"returned", "raised"}, by : Callers,
                  epoch : Epochs \cup {NoEpoch}, saw : BOOLEAN, durable : Epochs]
  BY <1>0 DEF ApiTypeOK, Tiers
<1>2. /\ reader.pc = "remote" => reader'.pc = "peer"
      /\ reader.pc = "peer" => reader'.pc = "local"
      /\ reader.pc = "local" => reader'.pc = "raised"
      /\ reader'.saw = reader.saw /\ reader'.durable = reader.durable
  BY <1>0, <1>1 DEF FallThrough
<1>3. ApiTypeOK'
  <2>1. reader' \in [pc : Tiers \cup {"returned", "raised"}, by : Callers,
                     epoch : Epochs \cup {NoEpoch}, saw : BOOLEAN, durable : Epochs]
    BY <1>0, <1>1 DEF FallThrough, Tiers
  <2> QED BY <1>0, <2>1 DEF ApiTypeOK
<1>4. Past'
  BY <1>0 DEF ApiInd, Past
<1>5. StillSeen'
  BY <1>0, <1>2 DEF ApiInd, StillSeen, Nonempty, Tiers
<1>6. RaisesOnlyIfEmpty'
  BY <1>0, <1>2 DEF ApiInd, StillSeen, RaisesOnlyIfEmpty, Tiers
<1>7. DurableIsEnough'
  BY <1>0, <1>2 DEF DurableIsEnough, Tiers
<1>8. Alone'
  <2> SUFFICES ASSUME ~raced PROVE (ReadsAlone /\ SavesAlone /\ NewestFirst)'
    BY <1>0 DEF Alone
  <2>0. ReadsAlone /\ SavesAlone /\ NewestFirst
    BY DEF ApiInd, Alone
  <2>1. ReadsAlone'
    BY <1>0, <1>2, <2>0 DEF ReadsAlone, Restoring, Durable, LastOf, Tiers
  <2>2. SavesAlone' /\ NewestFirst'
    BY <1>0, <2>0 DEF SavesAlone, NewestFirst, Nonempty, FirstTier, LastOf
  <2> QED BY <2>1, <2>2
<1> QED BY <1>3, <1>4, <1>5, <1>6, <1>7, <1>8 DEF ApiInd, ApiInv

(* So every step keeps the invariant.                                      *)
LEMMA ApiStep == ApiInd /\ [ApiNext]_apiVars => ApiInd'
<1> SUFFICES ASSUME ApiInd, [ApiNext]_apiVars PROVE ApiInd'
  OBVIOUS
<1>1. CASE UNCHANGED apiVars
  <2>1. (ApiTypeOK /\ DurableIsEnough /\ RaisesOnlyIfEmpty /\ Past /\ StillSeen)'
    BY <1>1 DEF apiVars, ApiInd, ApiInv, ApiTypeOK, DurableIsEnough,
                RaisesOnlyIfEmpty, Past,
                StillSeen, Nonempty
  <2>2. Alone'
    BY <1>1 DEF apiVars, ApiInd, Alone, ReadsAlone, SavesAlone, NewestFirst, Restoring,
                Durable,
                LastOf, Nonempty, FirstTier
  <2> QED BY <2>1, <2>2 DEF ApiInd, ApiInv
<1> QED BY <1>1, NextEpochKeeps, SaveKeeps, WriteTierKeeps, SaveRaisesKeeps, RestoreKeeps,
           FoundKeeps, NotFoundKeeps DEF ApiNext

(* In any interleaving with save(), restore() raises only if every tier    *)
(* was empty and returns what somebody saved; and where calls do not       *)
(* overlap, nothing older than what had reached Tier 3.                    *)
THEOREM RestoreOwes == ApiSpec => []ApiInv
<1>1. ApiInd => ApiInv
  BY DEF ApiInd
<1> QED BY <1>1, ApiIndInit, ApiStep, PTL DEF ApiSpec

(* Where calls do not overlap, no restore() returns an epoch older than    *)
(* one before it did, however saves were split, cut short or mixed.        *)
THEOREM NoRollback == ApiSpec => NeverRollsBack
<1>1. ApiInd /\ [ApiNext]_apiVars =>
        [reader'.pc = "returned" /\ reader.pc # "returned" /\ ~raced
           => reader'.epoch >= delivered]_apiVars
  <2> SUFFICES ASSUME ApiInd, ApiNext, reader'.pc = "returned", reader.pc # "returned", ~raced
               PROVE  reader'.epoch >= delivered
    OBVIOUS
  <2>1. Found
    <3>1. reader' # reader
      OBVIOUS
    <3>2. ASSUME NEW s \in Callers, Restore(s) PROVE FALSE
      BY <3>2 DEF Restore
    <3>3. ~NotFound
      <4> SUFFICES ASSUME NotFound PROVE FALSE
        OBVIOUS
      <4>1. reader.pc \in Tiers /\ reader'.pc = FallThrough[reader.pc]
        BY DEF NotFound, Restoring, ApiInd, ApiInv, ApiTypeOK
      <4> QED BY <4>1 DEF FallThrough, Tiers
    <3> QED BY <3>1, <3>2, <3>3 DEF ApiNext, NextEpoch, Save, WriteTier,
                                    SaveRaises
  <2>2. delivered \in Nat /\ reader'.epoch \in Nat /\ delivered <= reader'.epoch
    BY <2>1, FoundFacts, ApiAssumption DEF ApiInd, ApiInv, ApiTypeOK, Epochs
  <2> QED BY <2>2
<1> QED BY <1>1, ApiIndInit, ApiStep, PTL DEF ApiSpec, NeverRollsBack
=============================================================================
