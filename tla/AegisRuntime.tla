---------------------------- MODULE AegisRuntime ----------------------------
(***************************************************************************)
(* The runtime: aegis/runtime.py wires the telemetry plane to the          *)
(* escalation engine, its only subscriber.  The tasks that dispatch events *)
(* (the dispatch task, and each stop() that drains) are the handlers that  *)
(* may run _on_event, so which calls overlap is decided here and not       *)
(* assumed.  Sensors and the chaos harness publish.                        *)
(*                                                                         *)
(* All of it runs on one asyncio loop: a task keeps the loop until it      *)
(* suspends.  A handler is suspended exactly while the engine holds a job  *)
(* for it, so while some handler has an event and no job, that handler     *)
(* runs and nothing else does.                                             *)
(***************************************************************************)
EXTENDS Naturals, Sequences, FiniteSets

CONSTANTS MaxEvents, QueueSize, NoTask,                 \* of TelemetryBus
          Loop,                                         \* the dispatch task
          Stopper,                                      \* the one task that calls stop()
          Faults, Ranks, Nodes, Racks, NoRack, Windows, Thresholds,
          Suspending, Raising, ObserveOnly              \* of EscalationEngine

VARIABLES published, queue, eventCount, dropCount, running, started, task,
          awaits, pc, holding, at, mark, timedOut, fate,
          late,                                         \* of TelemetryBus
          now, observeOnly, policy, epoch, recent, rankEpochs, kpi, audit,
          job, lost, arrivals,                          \* of EscalationEngine
          content,    \* what the nth publish() published: [fault, stamp]
          epochOf,    \* history: the epoch _on_event gave to the nth event
          overlapped  \* history: a handler began while another was suspended

Handlers == {Stopper, Loop}

(* The engine subscribes in its __init__, and nothing else does.  One task *)
(* calls stop() (__aexit__), so one dispatch task at a time is enough.     *)
(* The clock stands still: only the correlation window reads it.           *)
Bus    == INSTANCE TelemetryBus WITH NSubs <- 1, Stoppers <- {Stopper}, Loops <- {Loop}
Engine == INSTANCE EscalationEngine WITH MaxFaults <- MaxEvents, MaxTime <- 0

ASSUME RuntimeAssumption ==
  /\ MaxEvents \in Nat /\ QueueSize \in Nat \ {0} /\ Stopper # Loop /\ NoTask # Loop
  /\ Ranks # {} /\ NoRack \notin Racks
  /\ Faults \subseteq Engine!TelemetryEvent
  /\ Windows \subseteq Nat /\ Thresholds \subseteq Nat
  /\ Suspending \subseteq Engine!Tiers /\ Raising \subseteq Engine!Tiers
  /\ ObserveOnly \subseteq BOOLEAN

busVars    == <<published, queue, eventCount, dropCount, running, started, task, awaits, pc,
                holding, at, mark, timedOut, fate, late>>
engineVars == <<now, observeOnly, policy, epoch, recent, rankEpochs, kpi, audit, job, lost,
                arrivals>>
vars       == <<busVars, engineVars, content, epochOf, overlapped>>

Init == /\ Bus!Init
        /\ Engine!Init
        /\ content = << >>
        /\ epochOf = [n \in 1..MaxEvents |-> 0]
        /\ overlapped = FALSE

Suspended(c) == c \in DOMAIN job
LoopIsFree == \A c \in Handlers : holding[c] # 0 => Suspended(c)

(* A bus step that moves no event into or out of a handler's hands.        *)
BusAlone(A) == LoopIsFree /\ A /\ UNCHANGED <<engineVars, content, epochOf, overlapped>>

-----------------------------------------------------------------------------
(* ChaosHarness.inject and SyntheticSensor.inject publish from a task of   *)
(* the loop; the harness stamps the event with the epoch it sees.          *)
Inject(e) == /\ LoopIsFree
             /\ Bus!Publish
             /\ content' = Append(content, [fault |-> e, stamp |-> epoch])
             /\ UNCHANGED <<engineVars, epochOf, overlapped>>

(* A consumer that takes the head of the queue calls _on_event at once.    *)
Receive(c) ==
  /\ Engine!OnEvent(c, content[Head(queue)].fault)
  /\ epochOf' = [epochOf EXCEPT ![Head(queue)] = epoch']
  /\ overlapped' = (overlapped \/ DOMAIN job # {})
  /\ UNCHANGED content

LoopTake  == LoopIsFree /\ Bus!LoopTake(Loop) /\ Receive(Loop)
DrainTake == LoopIsFree /\ Bus!DrainTake(Stopper) /\ Receive(Stopper)

(* The handler has returned, or raised, and its task runs on.              *)
Returned(c) == /\ holding[c] # 0
               /\ ~Suspended(c)

LoopReturn      == Returned(Loop) /\ Bus!LoopReturn(Loop)
                                  /\ UNCHANGED <<engineVars, content, epochOf, overlapped>>
DrainReturnTake == Returned(Stopper) /\ Bus!DrainReturnTake(Stopper) /\ Receive(Stopper)
DrainReturnLast == Returned(Stopper) /\ Bus!DrainReturnLast(Stopper)
                                     /\ UNCHANGED <<engineVars, content, epochOf, overlapped>>

(* The recover() a handler awaits returns or raises.                       *)
Resume(c) == /\ LoopIsFree
             /\ Engine!Resume(c)
             /\ UNCHANGED <<busVars, content, epochOf, overlapped>>

(* Mutant: the 2 s timeout leaves the handler running.                     *)
DrainTimeoutShields ==
  /\ LoopIsFree
  /\ Suspended(Stopper)
  /\ Bus!DrainTimeout(Stopper)
  /\ UNCHANGED <<engineVars, content, epochOf, overlapped>>

(* The 2 s of the drain end while its handler is suspended: the await in   *)
(* _route raises CancelledError, which neither the engine nor the bus      *)
(* catches.                                                                *)
DrainTimeout == /\ LoopIsFree
                /\ Suspended(Stopper)
                /\ Bus!DrainTimeout(Stopper)
                /\ Engine!Cancel(Stopper)
                /\ UNCHANGED <<content, epochOf, overlapped>>

(* stop() cancels the dispatch task, and with it the handler in hand.      *)
CancelLoop == /\ LoopIsFree
              /\ Bus!Cancel(Stopper)
              /\ IF Suspended(Loop) THEN Engine!Cancel(Loop) ELSE UNCHANGED engineVars
              /\ UNCHANGED <<content, epochOf, overlapped>>

Next == \/ \E e \in Faults : Inject(e)
        \/ LoopTake \/ LoopReturn
        \/ BusAlone(Bus!Start) \/ BusAlone(Bus!LoopExit(Loop)) \/ BusAlone(Bus!Join(Stopper))
        \/ BusAlone(Bus!StopBegin(Stopper)) \/ BusAlone(Bus!DrainEmpty(Stopper))
        \/ DrainTake \/ DrainReturnTake \/ DrainReturnLast \/ DrainTimeout \/ CancelLoop
        \/ \E c \in Handlers : Resume(c)

Spec == Init /\ [][Next]_vars

(* The loop runs every task that is ready, the 2 s timer of a stop() fires *)
(* and a suspended recover() returns.                                      *)
StopTurn == \/ DrainTake \/ BusAlone(Bus!DrainEmpty(Stopper))
            \/ DrainReturnTake \/ DrainReturnLast \/ DrainTimeout \/ CancelLoop
FairSpec == /\ Spec
            /\ WF_vars(LoopTake) /\ WF_vars(LoopReturn) /\ WF_vars(BusAlone(Bus!LoopExit(Loop)))
            /\ WF_vars(BusAlone(Bus!Join(Stopper)))
            /\ WF_vars(StopTurn)
            /\ \A c \in Handlers : WF_vars(Resume(c))

-----------------------------------------------------------------------------
Events == 1..MaxEvents

(* What became of an event is what the engine says of it: one that was     *)
(* never handed on has no epoch, one whose handler ended has its one audit *)
(* record unless a layer raised, one that was cancelled has none, and the  *)
(* engine recovers nothing for an event no task holds (_on_event, stop()). *)
EventsAnswered ==
  /\ \A n \in Events : LET ep == epochOf[n] IN
       /\ (ep = 0) <=> fate[n] \in {"unpublished", "queued", "dropped"}
       /\ fate[n] = "done" => Engine!Audited(ep) \/ (Raising # {} /\ ep \in lost)
       /\ fate[n] = "cancelled" => ep \in lost
       /\ ep # 0 /\ Engine!InFlight(ep) => fate[n] = "held"
  /\ \A i \in 1..Len(audit) : \E n \in Events :
       epochOf[n] = audit[i].epoch /\ content[n].fault = audit[i].event

(* Epochs are handed out in the order the events were published, whichever *)
(* tasks take them and however often the runtime stops and starts; none is *)
(* older than the epoch its publisher had seen (inject(), next_epoch()).   *)
EpochsInOrder ==
  /\ \A m, n \in Events : m < n /\ epochOf[n] # 0 =>
       /\ fate[m] # "queued"
       /\ epochOf[m] < epochOf[n]
  /\ \A n \in Events : epochOf[n] # 0 => content[n].stamp < epochOf[n]

(* test_it6_escalation_invariant.py:127 "Epoch values across all processed *)
(* faults must be strictly increasing": so they are in the audit log, and  *)
(* no rank has reported less than an epoch it recovered at, until a stop() *)
(* drains while another handler is suspended.                              *)
AuditInOrder ==
  ~overlapped =>
    /\ \A i, j \in 1..Len(audit) : i < j => audit[i].epoch < audit[j].epoch
    /\ \A i \in 1..Len(audit) : audit[i].success /\ ~observeOnly
         => audit[i].epoch <= rankEpochs[audit[i].event.rank]

(* An event accepted while the runtime runs is recovered or given up for   *)
(* good, unless a stop() comes first (_dispatch_loop, _route).             *)
EventSettles ==
  \A n \in Events :
    fate[n] = "queued" ~> (fate[n] \in {"done", "cancelled"} \/ ~(running /\ started))
=============================================================================
