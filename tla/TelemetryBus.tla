---------------------------- MODULE TelemetryBus ----------------------------
(***************************************************************************)
(* The unified telemetry plane: aegis/telemetry/bus.py, with the start and *)
(* stop guards of aegis/runtime.py around it.                              *)
(*                                                                         *)
(* Everything runs on one asyncio loop, so a step of this module is the    *)
(* code a task runs between two suspension points.  The consumers are the  *)
(* dispatch task and, while a stop() is draining, each task inside stop(): *)
(* nothing keeps the two kinds apart, which is what makes the component    *)
(* delicate.  Nor does anything keep a start() from coming between the     *)
(* end of a dispatch task and the wake-up of a stop() that waited for it,  *)
(* so there may be several dispatch tasks, and the runtime may own none of *)
(* those that run.                                                         *)
(*                                                                         *)
(* The nth publish() call publishes event n.  fate is a history variable:  *)
(* it names what became of each event and guards no step.                  *)
(***************************************************************************)
EXTENDS Naturals, Sequences, FiniteSets

CONSTANTS MaxEvents,   \* bound: publish() is called at most MaxEvents times
          QueueSize,   \* queue_size
          NSubs,       \* subscribers 1..NSubs, registered before start()
          Stoppers,    \* the tasks that may call AegisRuntime.stop()
          Loops,       \* bound: the dispatch tasks that run or are awaited at once
          NoTask       \* None, where a task may stand

ASSUME BusAssumption == /\ MaxEvents \in Nat
                        /\ QueueSize \in Nat \ {0}
                        /\ NSubs \in Nat \ {0}
                        /\ Loops \cap Stoppers = {}
                        /\ NoTask \notin Loops

Consumers == Stoppers \cup Loops
Events    == 1..MaxEvents
Nothing   == 0          \* holding nothing, or calling no subscriber

Fates == {"unpublished", "queued", "held", "done", "dropped", "cancelled"}

VARIABLES
  published,    \* publish() calls so far
  queue,        \* _queue
  eventCount,   \* _event_count
  dropCount,    \* _drop_count
  running,      \* _running
  started,      \* AegisRuntime._started
  task,         \* _dispatch_task
  awaits,       \* the task each stop() has cancelled and awaits
  pc,           \* where each consumer is
  holding,      \* the event each consumer is dispatching
  at,           \* the subscriber it is awaiting
  mark,         \* history: published when the stop began
  timedOut,     \* history: the last drain of this stopper timed out
  fate,         \* history: what became of each event
  late          \* history: the tasks a start() created while a stop() was
                \* still to wake up

(* The lifecycle of the runtime: what start() and the ends of stop() move. *)
life == <<started, task, awaits, late>>

vars == <<published, queue, eventCount, dropCount, running, life, pc,
          holding, at, mark, timedOut, fate>>

Init == /\ published = 0
        /\ queue = << >>
        /\ eventCount = 0
        /\ dropCount = 0
        /\ running = FALSE
        /\ started = FALSE
        /\ task = NoTask
        /\ awaits = [s \in Stoppers |-> NoTask]
        /\ late = {}
        /\ pc = [c \in Consumers |-> IF c \in Loops THEN "exited" ELSE "idle"]
        /\ holding = [c \in Consumers |-> Nothing]
        /\ at = [c \in Consumers |-> Nothing]
        /\ mark = [s \in Stoppers |-> 0]
        /\ timedOut = [s \in Stoppers |-> FALSE]
        /\ fate = [n \in Events |-> "unpublished"]

-----------------------------------------------------------------------------
(* publish(): put_nowait, or count a drop.  It never waits. *)

Accept == /\ published < MaxEvents
          /\ Len(queue) < QueueSize
          /\ published' = published + 1
          /\ queue' = Append(queue, published + 1)
          /\ eventCount' = eventCount + 1
          /\ fate' = [fate EXCEPT ![published + 1] = "queued"]
          /\ UNCHANGED <<dropCount, running, life, pc, holding, at, mark, timedOut>>

(* Mutant: a full queue evicts its oldest event instead of refusing.       *)
DropOldest ==
  /\ published < MaxEvents
  /\ Len(queue) = QueueSize
  /\ published' = published + 1
  /\ dropCount' = dropCount + 1
  /\ queue' = Append(Tail(queue), published + 1)
  /\ fate' = [fate EXCEPT ![Head(queue)] = "dropped", ![published + 1] = "queued"]
  /\ UNCHANGED <<eventCount, running, life, pc, holding, at, mark, timedOut>>

Drop == /\ published < MaxEvents
        /\ Len(queue) = QueueSize
        /\ published' = published + 1
        /\ dropCount' = dropCount + 1
        /\ fate' = [fate EXCEPT ![published + 1] = "dropped"]
        /\ UNCHANGED <<queue, eventCount, running, life, pc, holding, at, mark, timedOut>>

Publish == Accept \/ Drop

-----------------------------------------------------------------------------
(* start(), guarded by the runtime's _started: a task that has not run yet *)
(* (here, one that has ended and nobody waits for) becomes _dispatch_task. *)

Joining == {s \in Stoppers : pc[s] = "joining"}
Free(l) == /\ pc[l] = "exited"
           /\ l # task
           /\ \A s \in Joining : awaits[s] # l

Start == /\ ~started
         /\ \E l \in Loops :
              /\ Free(l)
              /\ task' = l
              /\ pc' = [pc EXCEPT ![l] = "waiting"]
              /\ late' = IF Joining = {} THEN late \ {l} ELSE late \cup {l}
         /\ started' = TRUE
         /\ running' = TRUE
         /\ UNCHANGED <<published, queue, eventCount, dropCount, awaits, holding, at, mark,
                        timedOut, fate>>

-----------------------------------------------------------------------------
(* _dispatch_one: the event leaves the queue and its first subscriber is   *)
(* called with no suspension in between; each return, or exception logged  *)
(* and swallowed, calls the next subscriber at once.                       *)

Take(c) == /\ queue # << >>
           /\ queue' = Tail(queue)
           /\ holding' = [holding EXCEPT ![c] = Head(queue)]
           /\ at' = [at EXCEPT ![c] = 1]

NextSubscriber(c) ==
  /\ holding[c] # Nothing
  /\ at[c] < NSubs
  /\ at' = [at EXCEPT ![c] = @ + 1]
  /\ UNCHANGED <<published, queue, eventCount, dropCount, running, life, pc,
                 holding, mark, timedOut, fate>>

(* _dispatch_loop: the wait_for(get()) delivers, or times out and the loop *)
(* sees _running FALSE (a timeout with _running TRUE changes nothing).     *)

LoopTake(l) == /\ pc[l] = "waiting"
               /\ Take(l)
               /\ pc' = [pc EXCEPT ![l] = "handling"]
               /\ fate' = [fate EXCEPT ![Head(queue)] = "held"]
               /\ UNCHANGED <<published, eventCount, dropCount, running, life, mark, timedOut>>

(* Mutant: the loop ends after its first event.                            *)
LoopReturnEnds(l) ==
  /\ pc[l] = "handling"
  /\ at[l] = NSubs
  /\ pc' = [pc EXCEPT ![l] = "exited"]
  /\ fate' = [fate EXCEPT ![holding[l]] = "done"]
  /\ holding' = [holding EXCEPT ![l] = Nothing]
  /\ at' = [at EXCEPT ![l] = Nothing]
  /\ UNCHANGED <<published, queue, eventCount, dropCount, running, life, mark, timedOut>>

LoopReturn(l) == /\ pc[l] = "handling"
                 /\ at[l] = NSubs
                 /\ pc' = [pc EXCEPT ![l] = IF running THEN "waiting" ELSE "exited"]
                 /\ fate' = [fate EXCEPT ![holding[l]] = "done"]
                 /\ holding' = [holding EXCEPT ![l] = Nothing]
                 /\ at' = [at EXCEPT ![l] = Nothing]
                 /\ UNCHANGED <<published, queue, eventCount, dropCount, running, life, mark, timedOut>>

LoopExit(l) == /\ pc[l] = "waiting"
               /\ ~running
               /\ pc' = [pc EXCEPT ![l] = "exited"]
               /\ UNCHANGED <<published, queue, eventCount, dropCount, running, life, holding,
                              at, mark, timedOut, fate>>

-----------------------------------------------------------------------------
(* stop(): stop accepting turns of the loop, drain under a timeout, cancel *)
(* the dispatch task, wait for it.                                         *)

(* Mutant: the runtime clears _started before it awaits the bus.           *)
StopBeginClears(s) ==
  /\ started
  /\ pc[s] = "idle"
  /\ running' = FALSE
  /\ started' = FALSE
  /\ pc' = [pc EXCEPT ![s] = "draining"]
  /\ mark' = [mark EXCEPT ![s] = published]
  /\ timedOut' = [timedOut EXCEPT ![s] = FALSE]
  /\ UNCHANGED <<published, queue, eventCount, dropCount, task, awaits, late, holding, at, fate>>

StopBegin(s) ==
  /\ started
  /\ pc[s] = "idle"
  /\ running' = FALSE
  /\ task # NoTask
  /\ pc' = [pc EXCEPT ![s] = "draining"]
  /\ mark' = [mark EXCEPT ![s] = published]
  /\ timedOut' = [timedOut EXCEPT ![s] = FALSE]
  /\ UNCHANGED <<published, queue, eventCount, dropCount, life, holding, at, fate>>

(* _drain: the first turn, and every later turn in the step in which the   *)
(* handler before it returned.                                             *)
DrainTake(s) ==
  /\ pc[s] = "draining"
  /\ Take(s)
  /\ pc' = [pc EXCEPT ![s] = "handling"]
  /\ fate' = [fate EXCEPT ![Head(queue)] = "held"]
  /\ UNCHANGED <<published, eventCount, dropCount, running, life, mark, timedOut>>

DrainEmpty(s) ==
  /\ pc[s] = "draining"
  /\ queue = << >>
  /\ pc' = [pc EXCEPT ![s] = "drained"]
  /\ UNCHANGED <<published, queue, eventCount, dropCount, running, life, holding, at,
                 mark, timedOut, fate>>

DrainReturnTake(s) ==
  /\ pc[s] = "handling"
  /\ at[s] = NSubs
  /\ Take(s)
  /\ fate' = [fate EXCEPT ![holding[s]] = "done", ![Head(queue)] = "held"]
  /\ UNCHANGED <<published, eventCount, dropCount, running, life, pc, mark, timedOut>>

(* Mutant: the drain looks at the queue once.                              *)
DrainReturnOnce(s) ==
  /\ pc[s] = "handling"
  /\ at[s] = NSubs
  /\ pc' = [pc EXCEPT ![s] = "drained"]
  /\ fate' = [fate EXCEPT ![holding[s]] = "done"]
  /\ holding' = [holding EXCEPT ![s] = Nothing]
  /\ at' = [at EXCEPT ![s] = Nothing]
  /\ UNCHANGED <<published, queue, eventCount, dropCount, running, life, mark, timedOut>>

DrainReturnLast(s) ==
  /\ pc[s] = "handling"
  /\ at[s] = NSubs
  /\ queue = << >>
  /\ pc' = [pc EXCEPT ![s] = "drained"]
  /\ fate' = [fate EXCEPT ![holding[s]] = "done"]
  /\ holding' = [holding EXCEPT ![s] = Nothing]
  /\ at' = [at EXCEPT ![s] = Nothing]
  /\ UNCHANGED <<published, queue, eventCount, dropCount, running, life, mark, timedOut>>

(* Mutant: the event of a cancelled handler goes back to the queue.        *)
DrainTimeoutRequeues(s) ==
  /\ pc[s] = "handling"
  /\ Len(queue) < QueueSize
  /\ pc' = [pc EXCEPT ![s] = "drained"]
  /\ timedOut' = [timedOut EXCEPT ![s] = TRUE]
  /\ queue' = Append(queue, holding[s])
  /\ fate' = [fate EXCEPT ![holding[s]] = "queued"]
  /\ holding' = [holding EXCEPT ![s] = Nothing]
  /\ at' = [at EXCEPT ![s] = Nothing]
  /\ UNCHANGED <<published, eventCount, dropCount, running, life, mark>>

(* wait_for(_drain(), 2.0) expires while a handler is suspended: the       *)
(* handler is cancelled with the drain, and the rest stays queued.         *)
DrainTimeout(s) ==
  /\ pc[s] = "handling"
  /\ pc' = [pc EXCEPT ![s] = "drained"]
  /\ timedOut' = [timedOut EXCEPT ![s] = TRUE]
  /\ fate' = [fate EXCEPT ![holding[s]] = "cancelled"]
  /\ holding' = [holding EXCEPT ![s] = Nothing]
  /\ at' = [at EXCEPT ![s] = Nothing]
  /\ UNCHANGED <<published, queue, eventCount, dropCount, running, life, mark>>

(* Mutant: stop() waits for the task instead of cancelling it.             *)
CancelAwaits(s) ==
  /\ pc[s] = "drained"
  /\ task # NoTask
  /\ pc[task] = "exited"
  /\ awaits' = [awaits EXCEPT ![s] = task]
  /\ pc' = [pc EXCEPT ![s] = "joining"]
  /\ UNCHANGED <<published, queue, eventCount, dropCount, running, started, task, late, holding,
                 at, mark, timedOut, fate>>

(* Mutant: the cancelled task still holds its event.                       *)
CancelHolds(s) ==
  /\ pc[s] = "drained"
  /\ task # NoTask
  /\ awaits' = [awaits EXCEPT ![s] = task]
  /\ pc' = [pc EXCEPT ![task] = "exited", ![s] = "joining"]
  /\ UNCHANGED <<published, queue, eventCount, dropCount, running, started, task, late, holding,
                 at, mark, timedOut, fate>>

(* _dispatch_task.cancel(): CancelledError is not an Exception, so         *)
(* _dispatch_one does not swallow it and the handler in flight is lost.    *)
(* stop() awaits the task it has cancelled, whatever _dispatch_task names  *)
(* when it wakes up.                                                       *)
Cancel(s) ==
  /\ pc[s] = "drained"
  /\ task # NoTask
  /\ awaits' = [awaits EXCEPT ![s] = task]
  /\ pc' = [pc EXCEPT ![task] = "exited", ![s] = "joining"]
  /\ fate' = IF holding[task] = Nothing THEN fate
             ELSE [fate EXCEPT ![holding[task]] = "cancelled"]
  /\ holding' = [holding EXCEPT ![task] = Nothing]
  /\ at' = [at EXCEPT ![task] = Nothing]
  /\ UNCHANGED <<published, queue, eventCount, dropCount, running, started, task, late, mark,
                 timedOut>>

(* Another stop() has set _dispatch_task to None meanwhile: AttributeError *)
CancelNone(s) ==
  /\ pc[s] = "drained"
  /\ task = NoTask
  /\ pc' = [pc EXCEPT ![s] = "failed"]
  /\ UNCHANGED <<published, queue, eventCount, dropCount, running, life, holding, at,
                 mark, timedOut, fate>>

(* The task this stop() awaited has ended: it wakes up, sets               *)
(* _dispatch_task to None and clears _started, over whatever the others    *)
(* have set meanwhile.  Each stop() wakes up in a step of its own, in any  *)
(* order and with any steps between (asyncio wakes them first come first   *)
(* served), and its caller may go on to a start() at once.                 *)
Join(s) ==
  /\ pc[s] = "joining"
  /\ pc[awaits[s]] = "exited"
  /\ pc' = [pc EXCEPT ![s] = "idle"]
  /\ awaits' = [awaits EXCEPT ![s] = NoTask]
  /\ task' = NoTask
  /\ started' = FALSE
  /\ UNCHANGED <<published, queue, eventCount, dropCount, running, late, holding, at, mark,
                 timedOut, fate>>

Stop(s) == \/ StopBegin(s) \/ DrainTake(s) \/ DrainEmpty(s) \/ DrainReturnTake(s)
           \/ DrainReturnLast(s) \/ DrainTimeout(s) \/ Cancel(s) \/ CancelNone(s) \/ Join(s)

Next == \/ Publish
        \/ Start
        \/ \E l \in Loops : LoopTake(l) \/ LoopReturn(l) \/ LoopExit(l)
        \/ \E c \in Consumers : NextSubscriber(c)
        \/ \E s \in Stoppers : Stop(s)

Spec == Init /\ [][Next]_vars

(* What the stop() task itself does next, whether a handler returns or not *)
StopTurn(s) == DrainEmpty(s) \/ DrainTake(s) \/ DrainTimeout(s) \/ Cancel(s) \/ CancelNone(s)

(* A dispatch task is scheduled whenever it is ready, and so is a stop():  *)
(* it owns a timer, so its timeout fires however long the handlers take,   *)
(* and it wakes up when the task it awaits has ended.  A handler may hang  *)
(* for ever.                                                               *)
Dispatches(l) == WF_vars(LoopTake(l)) /\ WF_vars(LoopExit(l))
GoesOn(s)     == WF_vars(StopTurn(s)) /\ WF_vars(Join(s))
FairSpec == /\ Spec
            /\ \A l \in Loops : Dispatches(l)
            /\ \A t \in Stoppers : GoesOn(t)

(* What the fairness of stop() rests on: a task that is past its first     *)
(* step and does not wait for the dispatch task has a turn to take, and    *)
(* one that waits can be woken.                                            *)
NotBlocked(s) ==
  /\ pc[s] \in {"draining", "handling", "drained"} => ENABLED <<StopTurn(s)>>_vars
  /\ pc[s] = "joining" => ENABLED <<Join(s)>>_vars
StopNotBlocked == \A s \in Stoppers : NotBlocked(s)

-----------------------------------------------------------------------------
TypeOK == /\ published \in 0..MaxEvents
          /\ queue \in Seq(Events) /\ Len(queue) <= QueueSize
          /\ eventCount \in Nat /\ dropCount \in Nat
          /\ running \in BOOLEAN /\ started \in BOOLEAN
          /\ task \in Loops \cup {NoTask}
          /\ awaits \in [Stoppers -> Loops \cup {NoTask}]
          /\ late \subseteq Loops
          /\ pc \in [Consumers -> {"waiting", "handling", "exited", "idle",
                                   "draining", "drained", "joining", "failed"}]
          /\ \A l \in Loops : pc[l] \in {"waiting", "handling", "exited"}
          /\ \A s \in Stoppers : pc[s] \in {"idle", "draining", "handling", "drained",
                                            "joining", "failed"}
          /\ holding \in [Consumers -> Events \cup {Nothing}]
          /\ at \in [Consumers -> 0..NSubs]
          /\ mark \in [Stoppers -> 0..MaxEvents]
          /\ timedOut \in [Stoppers -> BOOLEAN]
          /\ fate \in [Events -> Fates]

(* The parts of Conservation below. *)
Queued(n) == \E i \in 1..Len(queue) : queue[i] = n
Held(n)   == \E c \in Consumers : holding[c] = n

QueueInOrder == \A i, j \in 1..Len(queue) : i < j => queue[i] < queue[j]
HandsDisjoint == \A c, d \in Consumers : holding[c] = holding[d] /\ c # d => holding[c] = Nothing
HandsMatchPc == \A c \in Consumers : (holding[c] # Nothing) <=> (pc[c] = "handling")
FateMatches == \A n \in Events :
  /\ (fate[n] = "queued") <=> Queued(n)
  /\ (fate[n] = "held") <=> Held(n)
  /\ (fate[n] = "unpublished") <=> (published < n)

(* Conservation: with two kinds of consumer taking from one queue, every   *)
(* published event is in exactly one place (queue, one task's hands,       *)
(* finished, cancelled, dropped): none is lost silently and none is        *)
(* dispatched twice (_dispatch_one, _drain, _dispatch_loop).               *)
Conservation == QueueInOrder /\ HandsDisjoint /\ HandsMatchPc /\ FateMatches

(* What makes Conservation inductive: the runtime is started exactly when  *)
(* it owns a dispatch task, and a task some stop() waits for has ended.    *)
StartedHasTask == started <=> (task # NoTask)
JoinedHasEnded == \A s \in Joining : awaits[s] \in Loops /\ pc[awaits[s]] = "exited"
(* The inductive invariant: Conservation and what it rests on, while any   *)
(* stop(), start() and handlers interleave.                                *)
BusInv == TypeOK /\ Conservation /\ StartedHasTask /\ JoinedHasEnded

(* The operator's counters agree with what happened: event_count counts    *)
(* every event accepted and drop_count every event refused.                *)
CountersMatch == /\ eventCount = Cardinality({n \in Events : fate[n] \notin {"unpublished", "dropped"}})
                 /\ dropCount = Cardinality({n \in Events : fate[n] = "dropped"})

(* A stop() whose drain did not time out leaves nothing queued that was    *)
(* accepted before it began (_drain runs until the queue is empty).        *)
StopDrains == \A s \in Stoppers : pc[s] \in {"drained", "joining"} /\ ~timedOut[s]
                => \A n \in 1..mark[s] : fate[n] # "queued"

(* A dispatch task runs only while the runtime owns it: stop() leaves none *)
(* behind.  The exception is a task that some start() created before every *)
(* stop() waiting for the task before it had woken up: the last of them    *)
(* lets go of it though it runs (start(), stop()).                         *)
Alive(l) == pc[l] # "exited"
LoopsOwned == \A l \in Loops : Alive(l) => l = task \/ l \in late

(* Between stops, while every dispatch task that runs is the runtime's     *)
(* own, events finish in publish order; only a drain beside the dispatch   *)
(* task, or a second task, may reorder them.                               *)
OrderedWhileRunning ==
  (\A s \in Stoppers : pc[s] = "idle") /\ (\A l \in Loops : Alive(l) => l = task) =>
    \A m, n \in Events : m < n /\ fate[m] \in {"queued", "held"}
      => fate[n] \notin {"held", "done", "cancelled"}

(* Every step does to each event what EventDelivery allows.                *)
Delivery == INSTANCE EventDelivery
Delivers == Delivery!Spec

(* stop() returns even if every handler hangs: the 2 s timeout and the     *)
(* cancellation bound it (stop).                                           *)
StopReturns == \A s \in Stoppers : pc[s] # "idle" ~> pc[s] \in {"idle", "failed"}
=============================================================================
