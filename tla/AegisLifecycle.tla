--------------------------- MODULE AegisLifecycle ---------------------------
(***************************************************************************)
(* The library's life in one process: init(), disable() and the readers of *)
(* aegis/__init__.py over the module state of aegis/_state.py.             *)
(*                                                                         *)
(* Each init() makes a runtime and a loop of its own, run by a daemon      *)
(* thread; both carry the number of the init().  The callers are threads   *)
(* of the training process and nothing is locked, so a call's steps are    *)
(* cut wherever another thread could see or change what it uses.  A loop   *)
(* runs what is submitted to it while it lives, in its own time.           *)
(***************************************************************************)
EXTENDS Naturals, FiniteSets

CONSTANTS Threads,    \* the threads that call the API
          MaxInits    \* bound: init() calls that get past validation

ASSUME LifecycleAssumption == MaxInits \in Nat

Instances == 1..MaxInits
None      == 0

VARIABLES
  runtime, hooks, initialized, loop,   \* _state
  made,       \* init() calls so far
  status,     \* each runtime: start() and stop() as its loop runs them
  alive,      \* the loops whose thread still runs
  ending,     \* the loops on which loop.stop has been scheduled
  installed,  \* the hook registries with active hooks
  call,       \* the call each thread is in
  orderly     \* history: one call at a time, and no init() while initialized

state == <<runtime, hooks, initialized, loop>>
world == <<made, status, alive, ending, installed>>
vars  == <<state, world, call, orderly>>

Out == [pc |-> "out", at |-> None]

Init == /\ runtime = None /\ hooks = None /\ loop = None
        /\ initialized = FALSE
        /\ made = 0
        /\ status = [i \in Instances |-> "none"]
        /\ alive = {}
        /\ ending = {}
        /\ installed = {}
        /\ call = [t \in Threads |-> Out]
        /\ orderly = TRUE

At(t, pc)       == call[t].pc = pc
Goto(t, pc, i)  == call' = [call EXCEPT ![t] = [pc |-> pc, at |-> i]]
Continue(t, pc) == Goto(t, pc, call[t].at)
Mine(t)         == call[t].at
Outside(t)      == call[t].pc \in {"out", "raised", "refused"}
Quiet           == \A t \in Threads : Outside(t)

-----------------------------------------------------------------------------
(* A loop thread: rt.start() or rt.stop() when submitted, then loop.stop.  *)

RunStart(i) == /\ i \in alive
               /\ status[i] = "starting"
               /\ status' = [status EXCEPT ![i] = "started"]
               /\ UNCHANGED <<state, made, alive, ending, installed, call, orderly>>

RunStop(i) == /\ i \in alive
              /\ status[i] = "stopping"
              /\ status' = [status EXCEPT ![i] = "stopped"]
              /\ UNCHANGED <<state, made, alive, ending, installed, call, orderly>>

EndLoop(i) == /\ i \in ending
              /\ alive' = alive \ {i}
              /\ ending' = ending \ {i}
              /\ UNCHANGED <<state, made, status, installed, call, orderly>>

-----------------------------------------------------------------------------
(* init(): hooks, runtime, loop, start() awaited for 5 s, then the commit. *)

(* HookRegistry: install of every hook, disable_all. *)
Install(i)    == installed' = installed \cup {i}
DisableAll(i) == installed' = installed \ {i}

(* An AegisRuntime, its start() submitted to its loop. *)
NewRuntime(i) == status' = [status EXCEPT ![i] = "starting"]

BeginInit(t) ==
  /\ Outside(t)
  /\ made < MaxInits
  /\ orderly' = (orderly /\ Quiet /\ ~initialized)
  /\ made' = made + 1
  /\ Install(made + 1)
  /\ NewRuntime(made + 1)
  /\ alive' = alive \cup {made + 1}
  /\ Goto(t, "starting", made + 1)
  /\ UNCHANGED <<state, ending>>

(* Mutant: a failed init() leaves its loop running.                        *)
InitFailsLeaks(t) ==
  /\ At(t, "starting")
  /\ Goto(t, "raised", None)
  /\ UNCHANGED <<state, made, status, alive, ending, installed, orderly>>

(* start() did not run in time: AegisInitError, with the loop told to stop *)
InitFails(t) ==
  /\ At(t, "starting")
  /\ ending' = ending \cup {Mine(t)}
  /\ Goto(t, "raised", None)
  /\ UNCHANGED <<state, made, status, alive, installed, orderly>>

StartReturned(t) ==
  /\ At(t, "starting")
  /\ status[Mine(t)] = "started"
  /\ Continue(t, "commit runtime")
  /\ UNCHANGED <<state, world, orderly>>

CommitRuntime(t) == /\ At(t, "commit runtime")
                    /\ runtime' = Mine(t) /\ hooks' = Mine(t)
                    /\ Continue(t, "commit initialized")
                    /\ UNCHANGED <<initialized, loop, world, orderly>>

CommitInitialized(t) == /\ At(t, "commit initialized")
                        /\ initialized' = TRUE
                        /\ Continue(t, "commit loop")
                        /\ UNCHANGED <<runtime, hooks, loop, world, orderly>>

CommitLoop(t) == /\ At(t, "commit loop")
                 /\ loop' = Mine(t)
                 /\ Goto(t, "out", None)
                 /\ UNCHANGED <<runtime, hooks, initialized, world, orderly>>

-----------------------------------------------------------------------------
(* disable(): hooks off, stop() awaited for 5 s, loop.stop, clear.  Each   *)
(* step reads _state anew.                                                 *)

BeginDisable(t) == /\ Outside(t)
                   /\ initialized
                   /\ orderly' = (orderly /\ Quiet)
                   /\ Goto(t, "hooks", None)
                   /\ UNCHANGED <<state, world>>

RemoveHooks(t) == /\ At(t, "hooks")
                  /\ DisableAll(hooks)
                  /\ Continue(t, IF runtime # None /\ loop # None THEN "submit" ELSE "clear")
                  /\ UNCHANGED <<state, made, status, alive, ending, orderly>>

(* _state.runtime.stop() submitted to _state._loop: on None it raises.     *)
SubmitStop(t) ==
  /\ At(t, "submit")
  /\ IF runtime = None \/ loop = None
     THEN Goto(t, "raised", None) /\ UNCHANGED status
     ELSE /\ status' = [status EXCEPT ![runtime] =
                          IF @ = "started" /\ loop \in alive THEN "stopping" ELSE @]
          /\ Goto(t, "awaiting stop", runtime)
  /\ UNCHANGED <<state, made, alive, ending, installed, orderly>>

(* Mutant: the future is awaited without a timeout.                        *)
StopAwaited(t) == /\ At(t, "awaiting stop")
                  /\ status[Mine(t)] = "stopped"
                  /\ Continue(t, "stop loop")
                  /\ UNCHANGED <<state, world, orderly>>

(* The future completes, or its 5 s pass (the loop is blocked, or ended).  *)
StopReturned(t) == /\ At(t, "awaiting stop")
                   /\ Continue(t, "stop loop")
                   /\ UNCHANGED <<state, world, orderly>>

StopLoop(t) ==
  /\ At(t, "stop loop")
  /\ IF loop = None
     THEN Goto(t, "raised", None) /\ UNCHANGED ending
     ELSE ending' = ending \cup ({loop} \cap alive) /\ Continue(t, "clear")
  /\ UNCHANGED <<state, made, status, alive, installed, orderly>>

ClearRuntime(t) == /\ At(t, "clear")
                   /\ runtime' = None /\ hooks' = None
                   /\ Continue(t, "clear rest")
                   /\ UNCHANGED <<initialized, loop, world, orderly>>

(* Mutant: disable() forgets to clear _loop.                               *)
ClearRestKeepsLoop(t) == /\ At(t, "clear rest")
                         /\ initialized' = FALSE
                         /\ Goto(t, "out", None)
                         /\ UNCHANGED <<runtime, hooks, loop, world, orderly>>

ClearRest(t) == /\ At(t, "clear rest")
                /\ initialized' = FALSE /\ loop' = None
                /\ Goto(t, "out", None)
                /\ UNCHANGED <<runtime, hooks, world, orderly>>

-----------------------------------------------------------------------------
(* status(), explain() and dashboard(): checked, then _state is read again *)
(* and may have been cleared meanwhile.                                    *)

Status(t) == /\ Outside(t)
             /\ Goto(t, IF initialized /\ runtime # None THEN "reading" ELSE "refused", None)
             /\ UNCHANGED <<state, world, orderly>>

ReadStatus(t) == /\ At(t, "reading")
                 /\ Goto(t, IF runtime = None THEN "raised" ELSE "out", None)
                 /\ UNCHANGED <<state, world, orderly>>

InitSteps(t)    == \/ StartReturned(t) \/ CommitRuntime(t) \/ CommitInitialized(t)
                   \/ CommitLoop(t)
DisableSteps(t) == \/ RemoveHooks(t) \/ SubmitStop(t) \/ StopReturned(t) \/ StopLoop(t)
                   \/ ClearRuntime(t) \/ ClearRest(t)

Next == \/ \E i \in Instances : RunStart(i) \/ RunStop(i) \/ EndLoop(i)
        \/ \E t \in Threads : \/ BeginInit(t) \/ InitFails(t) \/ InitSteps(t)
                              \/ BeginDisable(t) \/ DisableSteps(t)
                              \/ Status(t) \/ ReadStatus(t)

Spec == Init /\ [][Next]_vars

(* A thread inside a call goes on (both waits have a timeout); a loop ends *)
(* once it is told to.  Nothing makes a loop run start() or stop().        *)
CallGoesOn(t) == WF_vars(InitFails(t) \/ InitSteps(t)) /\ WF_vars(DisableSteps(t))
LoopGoesOn(i) == WF_vars(EndLoop(i))
FairSpec == /\ Spec
            /\ \A u \in Threads : CallGoesOn(u)
            /\ \A i \in Instances : LoopGoesOn(i)

-----------------------------------------------------------------------------
InitPcs    == {"starting", "commit runtime", "commit initialized", "commit loop"}
DisablePcs == {"hooks", "submit", "awaiting stop", "stop loop", "clear", "clear rest"}

TypeOK == /\ runtime \in 0..made /\ hooks \in 0..made /\ loop \in 0..made
          /\ initialized \in BOOLEAN
          /\ made \in 0..MaxInits /\ orderly \in BOOLEAN
          /\ status \in [Instances -> {"none", "starting", "started", "stopping", "stopped"}]
          /\ alive \subseteq Instances /\ ending \subseteq alive /\ installed \subseteq Instances
          /\ call \in [Threads -> [pc : InitPcs \cup DisablePcs \cup
                                        {"out", "raised", "refused", "reading"},
                                   at : 0..made]]

(* What that rests on for disable(): at each of its steps it has one to    *)
(* take.                                                                   *)
NotBlocked(t) == call[t].pc \in DisablePcs => ENABLED <<DisableSteps(t)>>_vars
DisableNotBlocked == \A t \in Threads : NotBlocked(t)

(* While calls come one at a time and init() only when not initialized, no *)
(* loop thread is orphaned: between calls, a loop that is not ending       *)
(* belongs to the runtime _state names, whether the inits and disables     *)
(* before succeeded, failed or timed out.                                  *)
NoOrphanLoop == Quiet /\ orderly
                  => \A i \in alive \ ending : i = loop /\ i = runtime /\ initialized

(* Types hold, and so does NoOrphanLoop, whatever timed out.               *)
LifeInv == TypeOK /\ NoOrphanLoop

(* Likewise the module state is whole between calls: all set by one init() *)
(* or all cleared (init commits, disable clears).                           *)
AllOrNothing == Quiet /\ orderly => /\ runtime = loop /\ hooks = loop
                                    /\ initialized <=> (loop # None)

(* disable() returns however the runtime hangs: the kill switch cannot     *)
(* block the training process (future.result(timeout=5.0)).                *)
DisableReturns == \A t \in Threads : call[t].pc \in DisablePcs ~> Outside(t)
=============================================================================
