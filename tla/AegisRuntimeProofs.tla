------------------------- MODULE AegisRuntimeProofs -------------------------
(***************************************************************************)
(* Theorems about AegisRuntime, for any number of events, queue size,      *)
(* faults, ranks and layers.  What TelemetryBusProofs and                  *)
(* EscalationEngineProofs prove of the two components holds of them here,  *)
(* where each step of one goes with the step of the other that _on_event   *)
(* makes of it.                                                            *)
(***************************************************************************)
EXTENDS AegisRuntime, SequenceTheorems, TLAPS

BusP    == INSTANCE TelemetryBusProofs WITH NSubs <- 1, Stoppers <- {Stopper}, Loops <- {Loop}
EngineP == INSTANCE EscalationEngineProofs WITH MaxFaults <- MaxEvents, MaxTime <- 0

-----------------------------------------------------------------------------
(* The components keep their invariants. *)

BusStep == \/ Bus!Publish \/ Bus!Start \/ Bus!LoopTake(Loop) \/ Bus!LoopReturn(Loop)
           \/ Bus!LoopExit(Loop)
           \/ Bus!StopBegin(Stopper) \/ Bus!DrainTake(Stopper) \/ Bus!DrainEmpty(Stopper)
           \/ Bus!DrainReturnTake(Stopper) \/ Bus!DrainReturnLast(Stopper)
           \/ Bus!DrainTimeout(Stopper) \/ Bus!Cancel(Stopper) \/ Bus!Join(Stopper)

EngineStep == \E c \in Handlers : \/ \E e \in Faults : Engine!OnEvent(c, e)
                                  \/ Engine!Resume(c)
                                  \/ Engine!Cancel(c)

LEMMA BusAssumed == BusP!BusAssumption
BY RuntimeAssumption DEF BusP!BusAssumption

LEMMA EngineAssumed == EngineP!EngineAssumption
BY RuntimeAssumption
   DEF EngineP!EngineAssumption, EngineP!TelemetryEvent, EngineP!FaultSignal, EngineP!TierOf,
       EngineP!Tiers, EngineP!B0, EngineP!B1, EngineP!B2, EngineP!B3, EngineP!B4,
       Engine!TelemetryEvent, Engine!FaultSignal, Engine!TierOf, Engine!Tiers,
       Engine!B0, Engine!B1, Engine!B2, Engine!B3, Engine!B4

(* An instance of the bus and the same instance of its proofs say the      *)
(* same.                                                                   *)
LEMMA BusInvSame == (Bus!BusInv <=> BusP!BusInv) /\ (Bus!BusInv' <=> BusP!BusInv')
BY DEF Bus!BusInv, Bus!TypeOK, Bus!Consumers, Bus!Events, Bus!Nothing, Bus!Fates,
       Bus!Conservation, Bus!QueueInOrder, Bus!HandsDisjoint, Bus!HandsMatchPc,
       Bus!FateMatches, Bus!Held, Bus!Queued, Bus!StartedHasTask, Bus!JoinedHasEnded, Bus!Joining,
       BusP!BusInv, BusP!TypeOK, BusP!Consumers, BusP!Events, BusP!Nothing, BusP!Fates,
       BusP!Conservation, BusP!QueueInOrder, BusP!HandsDisjoint, BusP!HandsMatchPc,
       BusP!FateMatches, BusP!Held, BusP!Queued, BusP!StartedHasTask, BusP!JoinedHasEnded, BusP!Joining

LEMMA BusStepSame == (Bus!Init => BusP!Init) /\ (BusStep => BusP!Next)
<1> USE DEF Bus!Consumers, Bus!Nothing, Bus!Events, Bus!life, Bus!Joining, Bus!Free,
            BusP!Consumers, BusP!Nothing, BusP!Events, BusP!life, BusP!Joining, BusP!Free
<1>1. Bus!Init => BusP!Init
  BY DEF Bus!Init, BusP!Init
<1>2. /\ Bus!Publish => BusP!Publish
      /\ Bus!Start => BusP!Start
      /\ Bus!LoopTake(Loop) => BusP!LoopTake(Loop)
      /\ Bus!LoopReturn(Loop) => BusP!LoopReturn(Loop)
      /\ Bus!LoopExit(Loop) => BusP!LoopExit(Loop)
  BY DEF Bus!Publish, Bus!Accept, Bus!Drop, Bus!Start, Bus!LoopTake, Bus!Take, Bus!LoopReturn,
         Bus!LoopExit, BusP!Publish, BusP!Accept, BusP!Drop, BusP!Start,
         BusP!LoopTake, BusP!Take, BusP!LoopReturn, BusP!LoopExit
<1>3. /\ Bus!StopBegin(Stopper) => BusP!StopBegin(Stopper)
      /\ Bus!DrainTake(Stopper) => BusP!DrainTake(Stopper)
      /\ Bus!DrainEmpty(Stopper) => BusP!DrainEmpty(Stopper)
      /\ Bus!DrainReturnTake(Stopper) => BusP!DrainReturnTake(Stopper)
      /\ Bus!DrainReturnLast(Stopper) => BusP!DrainReturnLast(Stopper)
      /\ Bus!DrainTimeout(Stopper) => BusP!DrainTimeout(Stopper)
      /\ Bus!Cancel(Stopper) => BusP!Cancel(Stopper)
      /\ Bus!Join(Stopper) => BusP!Join(Stopper)
  BY DEF Bus!StopBegin, Bus!DrainTake, Bus!DrainEmpty, Bus!DrainReturnTake,
         Bus!DrainReturnLast, Bus!DrainTimeout, Bus!Cancel, Bus!Take, Bus!Join,
         BusP!StopBegin, BusP!DrainTake, BusP!DrainEmpty, BusP!DrainReturnTake,
         BusP!DrainReturnLast, BusP!DrainTimeout, BusP!Cancel, BusP!Take, BusP!Join
<1>4. BusStep => BusP!Next
  BY <1>2, <1>3 DEF BusStep, BusP!Next, BusP!Stop
<1> QED BY <1>1, <1>4

LEMMA BusKept ==
  ASSUME Bus!BusInv, BusStep \/ UNCHANGED busVars
  PROVE  Bus!BusInv'
<1>1. BusP!BusInv /\ [BusP!Next]_(BusP!vars) => BusP!BusInv'
  BY BusP!InvStep, BusAssumed
<1>2. UNCHANGED busVars => UNCHANGED BusP!vars
  BY DEF busVars, BusP!vars, BusP!life
<1> QED BY <1>1, <1>2, BusInvSame, BusStepSame

LEMMA EngineInvSame ==
  (Engine!EngineInv <=> EngineP!EngineInv) /\ (Engine!EngineInv' <=> EngineP!EngineInv')
BY DEF Engine!EngineInv, Engine!TypeOK, Engine!Policies, Engine!B1Entries, Engine!Tiers,
       Engine!B0, Engine!B4, Engine!Entries, Engine!Records, Engine!Arrivals,
       Engine!EpochsAccounted, Engine!Audited, Engine!InFlight, Engine!EscalationSound,
       Engine!RecordSound, Engine!HeldSuspends,
       EngineP!EngineInv, EngineP!TypeOK, EngineP!Policies, EngineP!B1Entries, EngineP!Tiers,
       EngineP!B0, EngineP!B4, EngineP!Entries, EngineP!Records, EngineP!Arrivals,
       EngineP!EpochsAccounted, EngineP!Audited, EngineP!InFlight, EngineP!EscalationSound,
       EngineP!RecordSound, EngineP!HeldSuspends

LEMMA EngineStepSame ==
  /\ Engine!Init => EngineP!Init
  /\ \A c, e : Engine!OnEvent(c, e) => EngineP!OnEvent(c, e)
  /\ \A c : Engine!Resume(c) => EngineP!Resume(c)
  /\ \A c : Engine!Cancel(c) => EngineP!Cancel(c)
<1> USE DEF Engine!B0, Engine!B1, Engine!B2, Engine!B3, Engine!B4, Engine!None,
            EngineP!B0, EngineP!B1, EngineP!B2, EngineP!B3, EngineP!B4, EngineP!None
<1>1. Engine!Init => EngineP!Init
  BY DEF Engine!Init, EngineP!Init
<1>2. ASSUME NEW c, NEW r
      PROVE  /\ Engine!Succeed(c, r) => EngineP!Succeed(c, r)
             /\ Engine!Abandon(c, r) => EngineP!Abandon(c, r)
             /\ \A from : Engine!Route(c, r, from) => EngineP!Route(c, r, from)
  BY DEF Engine!Succeed, Engine!Abandon, Engine!Exhaust, Engine!Route, Engine!Attempt,
         Engine!UrcGate, Engine!Survivors, Engine!Entry, Engine!Free, Engine!Hold,
         Engine!ReportEpoch, Engine!RecordKpi,
         EngineP!Succeed, EngineP!Abandon, EngineP!Exhaust, EngineP!Route, EngineP!Attempt,
         EngineP!UrcGate, EngineP!Survivors, EngineP!Entry, EngineP!Free, EngineP!Hold,
         EngineP!ReportEpoch, EngineP!RecordKpi
<1>3. ASSUME NEW e
      PROVE  /\ Engine!ApplyCorrelationWindow(e) => EngineP!ApplyCorrelationWindow(e)
             /\ Engine!TierAfterWindow(e) = EngineP!TierAfterWindow(e)
  BY DEF Engine!ApplyCorrelationWindow, Engine!TierAfterWindow, Engine!Correlated,
         Engine!SameRack, Engine!Pruned, Engine!InWindow, Engine!B1Entry, Engine!Classify,
         Engine!TierOf, Engine!Cardinality,
         EngineP!ApplyCorrelationWindow, EngineP!TierAfterWindow, EngineP!Correlated,
         EngineP!SameRack, EngineP!Pruned, EngineP!InWindow, EngineP!B1Entry, EngineP!Classify,
         EngineP!TierOf, EngineP!Cardinality
<1>4. \A e, t, ep : Engine!Opened(e, t, ep) = EngineP!Opened(e, t, ep)
  BY DEF Engine!Opened, EngineP!Opened
<1>5. \A r, ok : Engine!Entry(r, ok) = EngineP!Entry(r, ok)
  BY DEF Engine!Entry, EngineP!Entry
<1>6. ASSUME NEW c, NEW e, Engine!OnEvent(c, e) PROVE EngineP!OnEvent(c, e)
  BY <1>2, <1>3, <1>4, <1>5, <1>6 DEF Engine!OnEvent, EngineP!OnEvent
<1>7. ASSUME NEW c, Engine!Resume(c) PROVE EngineP!Resume(c)
  BY <1>2, <1>7 DEF Engine!Resume, EngineP!Resume
<1>8. ASSUME NEW c, Engine!Cancel(c) PROVE EngineP!Cancel(c)
  BY <1>2, <1>8 DEF Engine!Cancel, EngineP!Cancel
<1> QED BY <1>1, <1>6, <1>7, <1>8

LEMMA EngineKept ==
  ASSUME Engine!EngineInv, EngineStep \/ UNCHANGED engineVars
  PROVE  Engine!EngineInv'
<1>1. EngineP!EngineInv /\ [EngineP!Next]_(EngineP!vars) => EngineP!EngineInv'
  BY EngineP!EngineStep, EngineAssumed
<1>2. UNCHANGED engineVars => UNCHANGED EngineP!vars
  BY DEF engineVars, EngineP!vars
<1>3. EngineStep => EngineP!Next
  BY EngineStepSame DEF EngineStep, EngineP!Next
<1> QED BY <1>1, <1>2, <1>3, EngineInvSame

-----------------------------------------------------------------------------
(* What the two invariants say, in the runtime's own words. *)

LEMMA BusFacts ==
  ASSUME Bus!BusInv
  PROVE  /\ published \in 0..MaxEvents /\ MaxEvents \in Nat
         /\ fate \in [Events -> {"unpublished", "queued", "held", "done", "dropped", "cancelled"}]
         /\ holding \in [Handlers -> Events \cup {0}]
         /\ pc \in [Handlers -> {"waiting", "handling", "exited", "idle", "draining",
                                 "drained", "joining", "failed"}]
         /\ task \in {Loop, NoTask}
         /\ Stopper # Loop /\ 0 \notin Events
         /\ \A n \in Events : /\ (fate[n] = "held") <=> (\E c \in Handlers : holding[c] = n)
                              /\ (fate[n] = "unpublished") <=> (published < n)
         /\ \A c, d \in Handlers : holding[c] = holding[d] /\ holding[c] # 0 => c = d
         /\ \A c \in Handlers : (holding[c] # 0) <=> (pc[c] = "handling")
<1>1. MaxEvents \in Nat /\ Stopper # Loop
  BY RuntimeAssumption
<1>2. Bus!Consumers = Handlers /\ Bus!Events = Events /\ Bus!Nothing = 0
  BY DEF Bus!Consumers, Handlers, Bus!Events, Events, Bus!Nothing
<1>3. /\ published \in 0..MaxEvents
      /\ task \in {Loop, NoTask}
      /\ fate \in [Events -> {"unpublished", "queued", "held", "done", "dropped", "cancelled"}]
      /\ holding \in [Handlers -> Events \cup {0}]
      /\ pc \in [Handlers -> {"waiting", "handling", "exited", "idle", "draining",
                              "drained", "joining", "failed"}]
  BY <1>2 DEF Bus!BusInv, Bus!TypeOK, Bus!Fates
<1>4. /\ \A n \in Events : /\ (fate[n] = "held") <=> (\E c \in Handlers : holding[c] = n)
                           /\ (fate[n] = "unpublished") <=> (published < n)
      /\ \A c, d \in Handlers : holding[c] = holding[d] /\ holding[c] # 0 => c = d
      /\ \A c \in Handlers : (holding[c] # 0) <=> (pc[c] = "handling")
  BY <1>2 DEF Bus!BusInv, Bus!Conservation, Bus!FateMatches, Bus!Held, Bus!HandsDisjoint,
              Bus!HandsMatchPc
<1> QED BY <1>1, <1>3, <1>4 DEF Events

(* The head of the queue is the oldest event queued.                       *)
LEMMA HeadFacts ==
  ASSUME Bus!BusInv, queue # << >>
  PROVE  /\ Head(queue) \in Events /\ fate[Head(queue)] = "queued"
         /\ \A m \in Events : m < Head(queue) => fate[m] # "queued"
<1>1. queue \in Seq(Events) /\ MaxEvents \in Nat
  BY RuntimeAssumption DEF Bus!BusInv, Bus!TypeOK, Bus!Events, Events
<1>2. /\ Len(queue) \in Nat /\ Len(queue) > 0
      /\ Head(queue) = queue[1] /\ \A i \in 1..Len(queue) : queue[i] \in Events
  BY <1>1
<1>3. \A n \in Events : (fate[n] = "queued") <=> \E i \in 1..Len(queue) : queue[i] = n
  BY DEF Bus!BusInv, Bus!Conservation, Bus!FateMatches, Bus!Queued, Bus!Events, Events
<1>4. \A i \in 1..Len(queue) : i # 1 => queue[1] < queue[i]
  BY <1>2 DEF Bus!BusInv, Bus!Conservation, Bus!QueueInOrder
<1>5. ASSUME NEW m \in Events, fate[m] = "queued" PROVE ~(m < Head(queue))
  <2>1. PICK i \in 1..Len(queue) : queue[i] = m
    BY <1>3, <1>5
  <2> QED BY <1>1, <1>2, <1>4, <2>1 DEF Events
<1> QED BY <1>2, <1>3, <1>5

LEMMA EngineFacts ==
  ASSUME Engine!EngineInv
  PROVE  /\ epoch \in Nat /\ epoch <= MaxEvents /\ MaxEvents \in Nat
         /\ audit \in Seq(EngineP!Entries)
         /\ \A i \in 1..Len(audit) : audit[i].epoch \in 1..epoch /\ audit[i].event \in Faults
         /\ \A ep \in 1..epoch : Engine!Audited(ep) \/ Engine!InFlight(ep) \/ ep \in lost
         /\ DOMAIN job \subseteq Handlers
         /\ \A c \in DOMAIN job : /\ job[c].epoch \in 1..epoch /\ job[c].event \in Faults
                                  /\ job[c].epoch \notin lost
                                  /\ ~Engine!Audited(job[c].epoch)
         /\ lost \subseteq 1..epoch
         /\ rankEpochs \in [Ranks -> Nat]
         /\ observeOnly \in BOOLEAN
         /\ \A e \in Faults : e.rank \in Ranks
<1>1. /\ epoch \in Nat /\ epoch <= MaxEvents /\ MaxEvents \in Nat
      /\ observeOnly \in BOOLEAN /\ DOMAIN job \subseteq Handlers /\ lost \subseteq 1..MaxEvents
  BY RuntimeAssumption DEF Engine!EngineInv, Engine!TypeOK
<1>2. audit \in Seq(Engine!Entries) /\ Engine!Entries = EngineP!Entries
  BY DEF Engine!EngineInv, Engine!TypeOK, Engine!Entries, EngineP!Entries, Engine!Tiers,
         EngineP!Tiers, Engine!B0, EngineP!B0, Engine!B4, EngineP!B4
<1>3. \A i \in 1..Len(audit) : audit[i].epoch \in 1..MaxEvents /\ audit[i].event \in Faults
  <2>1. \A i \in 1..Len(audit) : audit[i] \in Engine!Entries
    BY <1>2
  <2> QED BY <2>1 DEF Engine!Entries
<1>4. \A c \in DOMAIN job : job[c].epoch \in 1..MaxEvents /\ job[c].event \in Faults
  <2>1. \A c \in DOMAIN job : job[c] \in Engine!Records
    BY DEF Engine!EngineInv, Engine!TypeOK
  <2> QED BY <2>1 DEF Engine!Records
<1>5. \A ep \in 1..MaxEvents :
        /\ (ep <= epoch) <=> (Engine!Audited(ep) \/ Engine!InFlight(ep) \/ ep \in lost)
        /\ ~(Engine!Audited(ep) /\ Engine!InFlight(ep))
        /\ ep \in lost => ~Engine!Audited(ep) /\ ~Engine!InFlight(ep)
  BY DEF Engine!EngineInv, Engine!EpochsAccounted
<1>6. \A i \in 1..Len(audit) : audit[i].epoch \in 1..epoch /\ audit[i].event \in Faults
  BY <1>1, <1>3, <1>5 DEF Engine!Audited
<1>7. \A ep \in 1..epoch : Engine!Audited(ep) \/ Engine!InFlight(ep) \/ ep \in lost
  BY <1>1, <1>5
<1>8. \A c \in DOMAIN job : Engine!InFlight(job[c].epoch)
  BY DEF Engine!InFlight
<1>9. \A c \in DOMAIN job : /\ job[c].epoch \in 1..epoch /\ job[c].epoch \notin lost
                            /\ ~Engine!Audited(job[c].epoch)
  BY <1>1, <1>4, <1>5, <1>8
<1>10. lost \subseteq 1..epoch
  BY <1>1, <1>5
<1>11. rankEpochs \in [Ranks -> Nat]
  BY <1>1 DEF Engine!EngineInv, Engine!TypeOK
<1>12. \A e \in Faults : e.rank \in Ranks
  BY RuntimeAssumption DEF Engine!TelemetryEvent
<1> QED BY <1>1, <1>2, <1>4, <1>6, <1>7, <1>9, <1>10, <1>11, <1>12

(* A step of a call is one of a call of the engine. *)
LEMMA OnEventCalls ==
  ASSUME Engine!EngineInv, NEW c, NEW e \in Faults, Engine!OnEvent(c, e)
  PROVE  /\ c \notin DOMAIN job /\ epoch' = epoch + 1
         /\ EngineP!CallStep(c, e, epoch + 1)
BY EngineP!OnEventCalls, EngineAssumed, EngineInvSame, EngineStepSame

LEMMA ResumeCalls ==
  ASSUME Engine!EngineInv, NEW c, Engine!Resume(c)
  PROVE  /\ c \in DOMAIN job /\ epoch' = epoch
         /\ EngineP!CallStep(c, job[c].event, job[c].epoch)
BY EngineP!ResumeCalls, EngineAssumed, EngineInvSame, EngineStepSame

LEMMA CancelCalls ==
  ASSUME Engine!EngineInv, NEW c, Engine!Cancel(c)
  PROVE  c \in DOMAIN job /\ epoch' = epoch /\ EngineP!Loses(c, job[c].epoch)
BY EngineP!CancelCalls, EngineAssumed, EngineInvSame, EngineStepSame

-----------------------------------------------------------------------------
(* The invariant that ties the two together. *)

ContentOK ==
  /\ content \in Seq([fault : Faults, stamp : Nat]) /\ Len(content) = published
  /\ \A n \in 1..published : content[n].stamp <= epoch

(* An event has an epoch once it was handed on.                            *)
EpochsGiven ==
  /\ epochOf \in [Events -> Nat]
  /\ \A n \in Events :
       /\ epochOf[n] <= epoch
       /\ (epochOf[n] = 0) <=> fate[n] \in {"unpublished", "queued", "dropped"}

(* A suspended call is that of the event its task holds.                   *)
HandsNamed ==
  \A c \in DOMAIN job : /\ holding[c] \in Events
                        /\ job[c].epoch = epochOf[holding[c]]
                        /\ job[c].event = content[holding[c]].fault

AuditEpochs == {audit[i].epoch : i \in 1..Len(audit)}

(* Where the record of an event went; only a cancelled call is lost if no  *)
(* layer raises.                                                           *)
WhereTo ==
  \A n \in Events :
    /\ fate[n] = "cancelled" => epochOf[n] \in lost
    /\ epochOf[n] \in lost => fate[n] = "cancelled" \/ Raising # {}
    /\ fate[n] = "done" => epochOf[n] \in AuditEpochs \/ (Raising # {} /\ epochOf[n] \in lost)

AuditNamed ==
  \A i \in 1..Len(audit) : \E n \in Events :
    epochOf[n] = audit[i].epoch /\ content[n].fault = audit[i].event

(* Until two calls overlap, the one in hand has the newest epoch.          *)
Newest == ~overlapped => \A c \in DOMAIN job : job[c].epoch = epoch

Glue == /\ ContentOK /\ EpochsGiven /\ EpochsInOrder
        /\ HandsNamed /\ WhereTo /\ AuditNamed
        /\ Newest /\ AuditInOrder

RuntimeInd == Bus!BusInv /\ Engine!EngineInv /\ Glue

LEMMA ContentTypes ==
  ASSUME ContentOK
  PROVE  \A n \in 1..published : content[n].fault \in Faults /\ content[n].stamp \in Nat
<1> DEFINE S == [fault : Faults, stamp : Nat]
<1>1. content \in Seq(S) /\ Len(content) = published
  BY DEF ContentOK
<1> HIDE DEF S
<1>2. \A n \in 1..published : content[n] \in S
  BY <1>1
<1> QED BY <1>2 DEF S

(* Two events have two epochs.                                             *)
LEMMA OneEpochEach ==
  ASSUME EpochsGiven, EpochsInOrder, NEW m \in Events, NEW n \in Events,
         epochOf[m] = epochOf[n], epochOf[n] # 0
  PROVE  m = n
<1>1. m \in Nat /\ n \in Nat /\ epochOf[m] \in Nat
  BY DEF Events, EpochsGiven
<1>2. ~(m < n) /\ ~(n < m)
  BY <1>1 DEF EpochsInOrder
<1> QED BY <1>1, <1>2

(* Only a published event has an epoch.                                    *)
LEMMA EpochPublished ==
  ASSUME Bus!BusInv, EpochsGiven, NEW n \in Events, epochOf[n] # 0
  PROVE  n \in 1..published
<1>1. fate[n] # "unpublished" /\ published \in Nat
  BY BusFacts DEF EpochsGiven
<1> QED BY <1>1, BusFacts DEF Events

(* A call that ended and was not cancelled has left an audit record, or    *)
(* its layer raised.                                                       *)
LEMMA EndedCall ==
  ASSUME RuntimeInd, NEW c \in Handlers, holding[c] # 0, ~Suspended(c)
  PROVE  /\ holding[c] \in Events /\ epochOf[holding[c]] \in 1..epoch
         /\ \/ epochOf[holding[c]] \in AuditEpochs
            \/ Raising # {} /\ epochOf[holding[c]] \in lost
<1> DEFINE n == holding[c]
<1>1. Bus!BusInv /\ Engine!EngineInv /\ Glue
  BY DEF RuntimeInd
<1>2. n \in Events /\ fate[n] = "held"
  BY <1>1, BusFacts
<1>3. epochOf[n] \in 1..epoch
  BY <1>1, <1>2, EngineFacts DEF Glue, EpochsGiven
<1>4. ~Engine!InFlight(epochOf[n])
  <2> SUFFICES ASSUME NEW d \in DOMAIN job, job[d].epoch = epochOf[n] PROVE FALSE
    BY DEF Engine!InFlight
  <2>1. d \in Handlers /\ holding[d] \in Events /\ epochOf[holding[d]] = epochOf[n]
    BY <1>1, EngineFacts DEF Glue, HandsNamed
  <2>2. holding[d] = n
    BY <1>1, <1>2, <1>3, <2>1, OneEpochEach DEF Glue
  <2>3. d = c
    BY <1>1, <2>1, <2>2, BusFacts
  <2> QED BY <2>3 DEF Suspended
<1>5. epochOf[n] \in lost => Raising # {}
  BY <1>1, <1>2 DEF Glue, WhereTo
<1>6. Engine!Audited(epochOf[n]) => epochOf[n] \in AuditEpochs
  BY DEF Engine!Audited, AuditEpochs
<1> QED BY <1>1, <1>2, <1>3, <1>4, <1>5, <1>6, EngineFacts

-----------------------------------------------------------------------------
(* What a step of a call changes. *)

AuditGrows(e, ep) ==
  \/ UNCHANGED <<audit, rankEpochs>>
  \/ /\ Len(audit') = Len(audit) + 1 /\ Len(audit) \in Nat
     /\ \A i \in 1..Len(audit) : audit'[i] = audit[i]
     /\ audit'[Len(audit) + 1].event = e /\ audit'[Len(audit) + 1].epoch = ep
     /\ \/ rankEpochs' = [rankEpochs EXCEPT ![e.rank] = ep]
        \/ /\ audit'[Len(audit) + 1].success => observeOnly
           /\ rankEpochs' = rankEpochs

LEMMA CallChanges ==
  ASSUME Engine!EngineInv, NEW c, NEW e \in Faults, NEW ep \in Nat,
         EngineP!CallStep(c, e, ep) \/ EngineP!Loses(c, ep)
  PROVE  /\ AuditEpochs \subseteq AuditEpochs'
         /\ AuditGrows(e, ep)
         /\ lost \subseteq lost' /\ lost' \subseteq lost \cup {ep}
         /\ EngineP!CallStep(c, e, ep) => lost' = lost \/ Raising # {}
         /\ c \in DOMAIN job' => job'[c].event = e /\ job'[c].epoch = ep
         /\ \A d \in DOMAIN job' : d # c => d \in DOMAIN job /\ job'[d] = job[d]
<1>1. CASE EngineP!Loses(c, ep)
  BY <1>1 DEF EngineP!Loses, EngineP!Gone, EngineP!CallStep, EngineP!Waits, EngineP!Ends,
              AuditEpochs, AuditGrows
<1>2. CASE EngineP!Waits(c, e, ep)
  BY <1>2 DEF EngineP!Waits, AuditEpochs, AuditGrows
<1>3. CASE EngineP!Ends(c, e, ep)
  <2>1. PICK a \in EngineP!Entries :
          /\ a.event = e /\ a.epoch = ep
          /\ audit' = Append(audit, a)
          /\ \/ a.success /\ rankEpochs' = [rankEpochs EXCEPT ![e.rank] = ep]
             \/ (a.success => observeOnly) /\ rankEpochs' = rankEpochs
          /\ EngineP!Gone(c) /\ lost' = lost
    BY <1>3 DEF EngineP!Ends
  <2>2. audit \in Seq(EngineP!Entries)
    BY EngineFacts
  <2> DEFINE T == EngineP!Entries
  <2>3. audit \in Seq(T) /\ a \in T
    BY <2>2
  <2> HIDE DEF T
  <2>4. /\ Len(audit') = Len(audit) + 1 /\ Len(audit) \in Nat
        /\ \A i \in 1..Len(audit) : audit'[i] = audit[i]
        /\ audit'[Len(audit) + 1] = a
    BY <2>1, <2>3, AppendProperties
  <2>5. AuditEpochs \subseteq AuditEpochs'
    BY <2>4 DEF AuditEpochs
  <2>6. /\ c \in DOMAIN job' => job'[c].event = e /\ job'[c].epoch = ep
        /\ \A d \in DOMAIN job' : d # c => d \in DOMAIN job /\ job'[d] = job[d]
    BY <2>1 DEF EngineP!Gone
  <2>7. AuditGrows(e, ep)
    BY <2>1, <2>4 DEF AuditGrows
  <2> QED BY <2>1, <2>5, <2>6, <2>7
<1> QED BY <1>1, <1>2, <1>3 DEF EngineP!CallStep

(* A call newer than every audit entry keeps the audit log in order.       *)
LEMMA OrderKept ==
  ASSUME Engine!EngineInv, AuditInOrder, NEW c, NEW e \in Faults, NEW ep \in Nat,
         EngineP!CallStep(c, e, ep) \/ EngineP!Loses(c, ep), observeOnly' = observeOnly,
         ~overlapped' => ~overlapped /\ \A i \in 1..Len(audit) : audit[i].epoch < ep
  PROVE  AuditInOrder'
<1> SUFFICES ASSUME ~overlapped'
             PROVE  /\ \A i, j \in 1..Len(audit') : i < j => audit'[i].epoch < audit'[j].epoch
                    /\ \A i \in 1..Len(audit') : audit'[i].success /\ ~observeOnly
                         => audit'[i].epoch <= rankEpochs'[audit'[i].event.rank]
  BY DEF AuditInOrder
<1>1. /\ \A i, j \in 1..Len(audit) : i < j => audit[i].epoch < audit[j].epoch
      /\ \A i \in 1..Len(audit) : audit[i].success /\ ~observeOnly
           => audit[i].epoch <= rankEpochs[audit[i].event.rank]
      /\ \A i \in 1..Len(audit) : audit[i].epoch < ep /\ audit[i].epoch \in Nat
  BY EngineFacts DEF AuditInOrder
<1>2. rankEpochs \in [Ranks -> Nat] /\ e.rank \in Ranks
  BY EngineFacts
<1>3. CASE UNCHANGED <<audit, rankEpochs>>
  BY <1>1, <1>3
<1>4. CASE /\ Len(audit') = Len(audit) + 1 /\ Len(audit) \in Nat
           /\ \A i \in 1..Len(audit) : audit'[i] = audit[i]
           /\ audit'[Len(audit) + 1].event = e /\ audit'[Len(audit) + 1].epoch = ep
           /\ \/ rankEpochs' = [rankEpochs EXCEPT ![e.rank] = ep]
              \/ /\ audit'[Len(audit) + 1].success => observeOnly
                 /\ rankEpochs' = rankEpochs
  <2> DEFINE last == Len(audit) + 1
  <2>1. last \in Nat /\ 1..Len(audit') = 1..Len(audit) \cup {last}
    BY <1>4
  <2>2. ASSUME NEW i \in 1..Len(audit'), NEW j \in 1..Len(audit'), i < j
        PROVE  audit'[i].epoch < audit'[j].epoch
    <3>1. i \in 1..Len(audit)
      BY <1>4, <2>2
    <3>2. CASE j = last
      BY <1>1, <1>4, <3>1, <3>2
    <3>3. CASE j # last
      BY <1>1, <1>4, <2>1, <2>2, <3>1, <3>3
    <3> QED BY <3>2, <3>3
  <2>3. ASSUME NEW i \in 1..Len(audit'), audit'[i].success, ~observeOnly
        PROVE  audit'[i].epoch <= rankEpochs'[audit'[i].event.rank]
    <3>1. CASE i = last
      <4>1. audit'[i].event = e /\ audit'[i].epoch = ep /\ rankEpochs' = [rankEpochs EXCEPT ![e.rank] = ep]
        BY <1>4, <2>3, <3>1
      <4> QED BY <1>2, <4>1
    <3>2. CASE i # last
      <4> DEFINE x == audit[i].epoch
                 q == audit[i].event.rank
      <4>1. /\ i \in 1..Len(audit) /\ audit'[i] = audit[i]
            /\ x <= rankEpochs[q] /\ x < ep /\ x \in Nat
        BY <1>1, <1>4, <2>1, <2>3, <3>2
      <4>a. q \in Ranks
        BY <4>1, EngineFacts
      <4>2. audit'[i].epoch = x /\ audit'[i].event.rank = q
        BY <4>1
      <4> HIDE DEF x, q
      <4>3. x <= rankEpochs'[q]
        BY <1>2, <1>4, <4>1, <4>a
      <4> QED BY <4>2, <4>3
    <3> QED BY <3>1, <3>2
  <2> QED BY <2>2, <2>3
<1> QED BY <1>3, <1>4, CallChanges DEF AuditGrows

(* The entry a call leaves names the event the call is for.                *)
LEMMA NamesKept ==
  ASSUME Engine!EngineInv, AuditNamed, NEW c, NEW e \in Faults, NEW ep \in Nat,
         EngineP!CallStep(c, e, ep) \/ EngineP!Loses(c, ep),
         NEW n \in Events, epochOf'[n] = ep, content'[n].fault = e,
         \A m \in Events : epochOf[m] # 0 => /\ epochOf'[m] = epochOf[m]
                                             /\ content'[m].fault = content[m].fault
  PROVE  AuditNamed'
<1>0. AuditGrows(e, ep)
  BY CallChanges
<1> SUFFICES ASSUME NEW i \in 1..Len(audit')
             PROVE  \E m \in Events : /\ epochOf'[m] = audit'[i].epoch
                                      /\ content'[m].fault = audit'[i].event
  BY DEF AuditNamed, Events
<1>1. ASSUME i \in 1..Len(audit), audit'[i] = audit[i]
      PROVE  \E m \in Events : /\ epochOf'[m] = audit'[i].epoch
                               /\ content'[m].fault = audit'[i].event
  <2>1. PICK m \in Events : epochOf[m] = audit[i].epoch /\ content[m].fault = audit[i].event
    BY <1>1 DEF AuditNamed
  <2>2. audit[i].epoch # 0
    BY <1>1, EngineFacts
  <2> QED BY <1>1, <2>1, <2>2
<1>2. \/ i \in 1..Len(audit) /\ audit'[i] = audit[i]
      \/ audit'[i].event = e /\ audit'[i].epoch = ep
  <2>1. CASE audit' = audit
    BY <2>1
  <2>2. CASE /\ Len(audit') = Len(audit) + 1 /\ Len(audit) \in Nat
             /\ \A j \in 1..Len(audit) : audit'[j] = audit[j]
             /\ audit'[Len(audit) + 1].event = e /\ audit'[Len(audit) + 1].epoch = ep
    <3>1. i \in 1..Len(audit) \/ i = Len(audit) + 1
      BY <2>2
    <3> QED BY <2>2, <3>1
  <2>3. \/ audit' = audit
        \/ /\ Len(audit') = Len(audit) + 1 /\ Len(audit) \in Nat
           /\ \A j \in 1..Len(audit) : audit'[j] = audit[j]
           /\ audit'[Len(audit) + 1].event = e /\ audit'[Len(audit) + 1].epoch = ep
    BY <1>0 DEF AuditGrows
  <2> QED BY <2>1, <2>2, <2>3
<1> QED BY <1>1, <1>2

-----------------------------------------------------------------------------
(* The steps that move no call. *)

LEMMA QuietStep ==
  ASSUME Glue, UNCHANGED <<content, published, epoch, epochOf, fate, holding, overlapped,
                           job, lost, audit, rankEpochs, observeOnly>>
  PROVE  Glue'
<1>1. ContentOK' /\ EpochsGiven'
  BY DEF Glue, ContentOK, EpochsGiven
<1>2. EpochsInOrder'
  BY DEF Glue, EpochsInOrder
<1>3. HandsNamed' /\ Newest'
  BY DEF Glue, HandsNamed, Newest
<1>4. WhereTo' /\ AuditNamed'
  BY DEF Glue, WhereTo, AuditNamed, AuditEpochs
<1>5. AuditInOrder'
  BY DEF Glue, AuditInOrder
<1> QED BY <1>1, <1>2, <1>3, <1>4, <1>5 DEF Glue

(* The next event is queued or dropped, stamped with the epoch seen.       *)
LEMMA InjectStep ==
  ASSUME RuntimeInd, NEW e \in Faults, Inject(e)
  PROVE  Glue'
<1> DEFINE p == published + 1
           x == [fault |-> e, stamp |-> epoch]
<1>0. /\ Bus!BusInv /\ Engine!EngineInv /\ ContentOK /\ EpochsGiven /\ EpochsInOrder
      /\ UNCHANGED <<holding, epoch, epochOf, overlapped, job, lost, audit, rankEpochs, observeOnly>>
  BY DEF RuntimeInd, Glue, Inject, Bus!Publish, Bus!Accept, Bus!Drop, engineVars
<1>1. /\ published < MaxEvents /\ published' = p
      /\ fate' \in {[fate EXCEPT ![p] = "queued"], [fate EXCEPT ![p] = "dropped"]}
      /\ content' = Append(content, x)
  BY DEF Inject, Bus!Publish, Bus!Accept, Bus!Drop
<1>2. /\ published \in Nat /\ p \in Events /\ fate[p] = "unpublished" /\ epoch \in Nat
      /\ epochOf \in [Events -> Nat] /\ epochOf[p] = 0
  BY <1>0, <1>1, BusFacts, EngineFacts DEF Events, EpochsGiven
<1>3. /\ fate'[p] \in {"queued", "dropped"}
      /\ \A n \in Events : n # p => fate'[n] = fate[n]
  BY <1>0, <1>1, <1>2, BusFacts
<1>4. /\ content' \in Seq([fault : Faults, stamp : Nat]) /\ Len(content') = p
      /\ \A n \in 1..published : content'[n] = content[n]
      /\ content'[p].stamp = epoch
  <2> DEFINE S == [fault : Faults, stamp : Nat]
  <2>1. content \in Seq(S) /\ Len(content) = published
    BY <1>0 DEF ContentOK
  <2>2. x \in S /\ x.stamp = epoch
    BY <1>2
  <2> HIDE DEF S, x
  <2>3. /\ content' \in Seq(S) /\ Len(content') = p
        /\ \A n \in 1..published : content'[n] = content[n]
        /\ content'[p] = x
    BY <1>1, <2>1, <2>2, AppendProperties
  <2> QED BY <2>2, <2>3 DEF S
<1>5. ASSUME NEW n \in Events, epochOf[n] # 0 PROVE n # p /\ content'[n] = content[n]
  BY <1>0, <1>2, <1>4, <1>5, EpochPublished
<1>6. ContentOK'
  <2>1. \A n \in 1..published' : content'[n].stamp <= epoch
    <3> SUFFICES ASSUME NEW n \in 1..p PROVE content'[n].stamp <= epoch
      BY <1>1
    <3>1. CASE n = p
      BY <1>2, <1>4, <3>1
    <3>2. CASE n # p
      BY <1>0, <1>2, <1>4, <3>2 DEF ContentOK
    <3> QED BY <3>1, <3>2
  <2> QED BY <1>0, <1>1, <1>4, <2>1 DEF ContentOK
<1>7. EpochsGiven'
  BY <1>0, <1>2, <1>3 DEF EpochsGiven
<1>8. EpochsInOrder'
  <2>1. ASSUME NEW m \in Events, NEW n \in Events, m < n, epochOf[n] # 0
        PROVE  fate'[m] # "queued" /\ epochOf[m] < epochOf[n]
    <3>1. m # p
      BY <1>0, <1>2, <2>1, EpochPublished DEF Events
    <3> QED BY <1>0, <1>3, <2>1, <3>1 DEF EpochsInOrder
  <2>2. \A n \in Events : epochOf[n] # 0 => content'[n].stamp < epochOf[n]
    BY <1>0, <1>5 DEF EpochsInOrder
  <2> QED BY <1>0, <2>1, <2>2 DEF EpochsInOrder, Events
<1>9. HandsNamed'
  <2> SUFFICES ASSUME NEW c \in DOMAIN job
               PROVE  /\ holding[c] \in Events /\ job[c].epoch = epochOf[holding[c]]
                      /\ job[c].event = content'[holding[c]].fault
    BY <1>0 DEF HandsNamed, Events
  <2>1. /\ holding[c] \in Events /\ job[c].epoch = epochOf[holding[c]]
        /\ job[c].event = content[holding[c]].fault /\ job[c].epoch # 0
    BY <1>0, EngineFacts DEF RuntimeInd, Glue, HandsNamed
  <2> QED BY <1>5, <2>1
<1>10. WhereTo'
  <2>1. 0 \notin lost
    BY <1>0, EngineFacts
  <2> SUFFICES ASSUME NEW n \in Events
               PROVE  /\ fate'[n] = "cancelled" => epochOf[n] \in lost
                      /\ epochOf[n] \in lost => fate'[n] = "cancelled" \/ Raising # {}
                      /\ fate'[n] = "done" => epochOf[n] \in AuditEpochs \/ (Raising # {} /\ epochOf[n] \in lost)
    BY <1>0 DEF WhereTo, Events, AuditEpochs
  <2>2. CASE n = p
    BY <1>2, <1>3, <2>1, <2>2
  <2>3. CASE n # p
    BY <1>3, <2>3 DEF RuntimeInd, Glue, WhereTo
  <2> QED BY <2>2, <2>3
<1>11. AuditNamed'
  <2> SUFFICES ASSUME NEW i \in 1..Len(audit)
               PROVE  \E n \in Events : epochOf[n] = audit[i].epoch /\ content'[n].fault = audit[i].event
    BY <1>0 DEF AuditNamed, Events
  <2>1. PICK n \in Events : epochOf[n] = audit[i].epoch /\ content[n].fault = audit[i].event
    BY DEF RuntimeInd, Glue, AuditNamed
  <2>2. epochOf[n] # 0
    BY <1>0, <2>1, EngineFacts
  <2> QED BY <1>5, <2>1, <2>2
<1>12. Newest' /\ AuditInOrder'
  BY <1>0 DEF RuntimeInd, Glue, Newest, AuditInOrder
<1> QED BY <1>6, <1>7, <1>8, <1>9, <1>10, <1>11, <1>12 DEF Glue

(* A call that has ended gives its task back.                              *)
LEMMA ReturnStep ==
  ASSUME RuntimeInd, NEW c \in Handlers, holding[c] # 0, ~Suspended(c),
         holding' = [holding EXCEPT ![c] = 0],
         fate' = [fate EXCEPT ![holding[c]] = "done"],
         UNCHANGED <<content, published, epoch, epochOf, overlapped, job, lost, audit,
                     rankEpochs, observeOnly>>
  PROVE  Glue'
<1> DEFINE n == holding[c]
<1>0. Bus!BusInv /\ Engine!EngineInv /\ Glue
  BY DEF RuntimeInd
<1>1. /\ n \in Events /\ fate[n] = "held" /\ epochOf[n] \in 1..epoch
      /\ epochOf[n] \in AuditEpochs \/ (Raising # {} /\ epochOf[n] \in lost)
  BY <1>0, BusFacts, EndedCall
<1>2. \A m \in Events : fate'[m] = IF m = n THEN "done" ELSE fate[m]
  BY <1>0, BusFacts
<1> HIDE DEF n
<1>3. ContentOK' /\ Newest' /\ AuditNamed' /\ AuditInOrder'
  BY <1>0 DEF Glue, ContentOK, Newest, AuditNamed, AuditInOrder
<1>4. EpochsGiven'
  BY <1>0, <1>1, <1>2 DEF Glue, EpochsGiven
<1>5. EpochsInOrder'
  BY <1>0, <1>1, <1>2 DEF Glue, EpochsInOrder
<1>6. HandsNamed'
  <2> SUFFICES ASSUME NEW d \in DOMAIN job PROVE holding'[d] = holding[d]
    BY <1>0 DEF Glue, HandsNamed
  <2>1. d # c /\ d \in Handlers
    BY <1>0, EngineFacts DEF Suspended
  <2> QED BY <1>0, <2>1, BusFacts
<1>7. WhereTo'
  BY <1>0, <1>1, <1>2 DEF Glue, WhereTo, AuditEpochs
<1> QED BY <1>3, <1>4, <1>5, <1>6, <1>7 DEF Glue

-----------------------------------------------------------------------------
(* The steps of a suspended call. *)

LEMMA HeldCall ==
  ASSUME RuntimeInd, NEW c \in DOMAIN job
  PROVE  /\ c \in Handlers /\ holding[c] \in Events /\ fate[holding[c]] = "held"
         /\ job[c].epoch = epochOf[holding[c]] /\ job[c].event = content[holding[c]].fault
         /\ job[c].epoch \in 1..epoch /\ job[c].event \in Faults
         /\ \A m \in Events : epochOf[m] = job[c].epoch => m = holding[c]
<1>1. /\ c \in Handlers /\ holding[c] \in Events
      /\ job[c].epoch = epochOf[holding[c]] /\ job[c].event = content[holding[c]].fault
      /\ job[c].epoch \in 1..epoch /\ job[c].event \in Faults
  BY EngineFacts DEF RuntimeInd, Glue, HandsNamed
<1>2. fate[holding[c]] = "held"
  BY <1>1, BusFacts DEF RuntimeInd
<1>3. \A m \in Events : epochOf[m] = job[c].epoch => m = holding[c]
  BY <1>1, OneEpochEach DEF RuntimeInd, Glue
<1> QED BY <1>1, <1>2, <1>3

(* Its recover() returns or raises.                                        *)
LEMMA ResumeStep ==
  ASSUME RuntimeInd, NEW c, Resume(c)
  PROVE  Glue'
<1> DEFINE n == holding[c]
           ep == job[c].epoch
           e == job[c].event
<1>0. /\ Bus!BusInv /\ Engine!EngineInv /\ Glue
      /\ UNCHANGED <<published, fate, holding, content, epochOf, overlapped, epoch, observeOnly>>
  BY DEF RuntimeInd, Resume, busVars, Engine!Resume
<1>1. c \in DOMAIN job /\ EngineP!CallStep(c, e, ep)
  BY <1>0, ResumeCalls DEF Resume
<1>2. /\ n \in Events /\ fate[n] = "held" /\ ep = epochOf[n] /\ e = content[n].fault
      /\ ep \in 1..epoch /\ e \in Faults /\ ep \in Nat
  BY <1>1, HeldCall
<1> HIDE DEF n, ep, e
<1>3. /\ AuditEpochs \subseteq AuditEpochs'
      /\ lost \subseteq lost' /\ lost' \subseteq lost \cup {ep}
      /\ lost' = lost \/ Raising # {}
      /\ c \in DOMAIN job' => job'[c].event = e /\ job'[c].epoch = ep
      /\ \A d \in DOMAIN job' : d # c => d \in DOMAIN job /\ job'[d] = job[d]
  BY <1>0, <1>1, <1>2, CallChanges
<1>4. ContentOK' /\ EpochsGiven' /\ EpochsInOrder'
  BY <1>0 DEF Glue, ContentOK, EpochsGiven, EpochsInOrder
<1>5. HandsNamed'
  <2> SUFFICES ASSUME NEW d \in DOMAIN job'
               PROVE  /\ holding[d] \in Events /\ job'[d].epoch = epochOf[holding[d]]
                      /\ job'[d].event = content[holding[d]].fault
    BY <1>0 DEF HandsNamed, Events
  <2>1. CASE d = c
    BY <1>2, <1>3, <2>1 DEF n
  <2>2. CASE d # c
    BY <1>0, <1>3, <2>2 DEF Glue, HandsNamed
  <2> QED BY <2>1, <2>2
<1>6. WhereTo'
  BY <1>0, <1>3 DEF Glue, WhereTo
<1>7. AuditNamed'
  BY <1>0, <1>1, <1>2, NamesKept DEF Glue
<1>8. Newest'
  <2> SUFFICES ASSUME ~overlapped, NEW d \in DOMAIN job' PROVE job'[d].epoch = epoch
    BY <1>0 DEF Newest
  <2>1. \A x \in DOMAIN job : job[x].epoch = epoch
    BY <1>0 DEF Glue, Newest
  <2> QED BY <1>1, <1>3, <2>1 DEF ep
<1>9. AuditInOrder'
  <2>1. ASSUME ~overlapped', NEW i \in 1..Len(audit) PROVE audit[i].epoch < ep
    <3>1. ep = epoch /\ epoch \in Nat
      BY <1>0, <1>1, <2>1, EngineFacts DEF Glue, Newest, ep
    <3>2. audit[i].epoch \in 1..epoch /\ audit[i].epoch # ep
      BY <1>0, <1>1, EngineFacts DEF Engine!Audited, ep
    <3> QED BY <3>1, <3>2
  <2> QED BY <1>0, <1>1, <1>2, <2>1, OrderKept DEF Glue
<1> QED BY <1>4, <1>5, <1>6, <1>7, <1>8, <1>9 DEF Glue

(* It is cancelled with its task.                                          *)
LEMMA CancelStep ==
  ASSUME RuntimeInd, NEW c \in Handlers, Engine!Cancel(c),
         holding' = [holding EXCEPT ![c] = 0],
         fate' = [fate EXCEPT ![holding[c]] = "cancelled"],
         UNCHANGED <<published, content, epochOf, overlapped>>
  PROVE  Glue'
<1> DEFINE n == holding[c]
           ep == job[c].epoch
           e == job[c].event
<1>0. /\ Bus!BusInv /\ Engine!EngineInv /\ Glue
      /\ UNCHANGED <<published, content, epochOf, overlapped, epoch, observeOnly>>
  BY DEF RuntimeInd, Engine!Cancel
<1>1. c \in DOMAIN job /\ EngineP!Loses(c, ep)
  BY <1>0, CancelCalls
<1>2. /\ n \in Events /\ fate[n] = "held" /\ ep = epochOf[n] /\ e = content[n].fault
      /\ ep \in 1..epoch /\ e \in Faults /\ ep \in Nat
      /\ \A m \in Events : epochOf[m] = ep => m = n
  BY <1>1, HeldCall
<1>3. \A m \in Events : fate'[m] = IF m = n THEN "cancelled" ELSE fate[m]
  BY <1>0, BusFacts
<1>4. /\ lost' = lost \cup {ep} /\ UNCHANGED <<rankEpochs, audit>>
      /\ DOMAIN job' = DOMAIN job \ {c} /\ \A d \in DOMAIN job' : job'[d] = job[d]
  BY <1>1 DEF EngineP!Loses, EngineP!Gone
<1> HIDE DEF n, ep, e
<1>5. ContentOK' /\ AuditNamed' /\ AuditInOrder'
  <2>1. ContentOK'
    BY <1>0 DEF Glue, ContentOK
  <2>2. AuditNamed'
    BY <1>0, <1>4 DEF Glue, AuditNamed
  <2>3. AuditInOrder /\ UNCHANGED <<overlapped, audit, rankEpochs, observeOnly>>
    BY <1>0, <1>4 DEF Glue
  <2>4. AuditInOrder'
    BY <2>3 DEF AuditInOrder
  <2> QED BY <2>1, <2>2, <2>4
<1>6. EpochsGiven'
  BY <1>0, <1>2, <1>3 DEF Glue, EpochsGiven
<1>7. EpochsInOrder'
  BY <1>0, <1>2, <1>3 DEF Glue, EpochsInOrder
<1>8. HandsNamed'
  <2> SUFFICES ASSUME NEW d \in DOMAIN job' PROVE holding'[d] = holding[d]
    BY <1>0, <1>4 DEF Glue, HandsNamed
  <2>1. d # c /\ d \in Handlers
    BY <1>0, <1>4, EngineFacts
  <2> QED BY <1>0, <2>1, BusFacts
<1>9. WhereTo'
  <2> SUFFICES ASSUME NEW m \in Events
               PROVE  /\ fate'[m] = "cancelled" => epochOf[m] \in lost'
                      /\ epochOf[m] \in lost' => fate'[m] = "cancelled" \/ Raising # {}
                      /\ fate'[m] = "done" => epochOf[m] \in AuditEpochs \/ (Raising # {} /\ epochOf[m] \in lost')
    BY <1>0, <1>4 DEF WhereTo, Events, AuditEpochs
  <2>1. CASE m = n
    BY <1>2, <1>3, <1>4, <2>1
  <2>2. CASE m # n
    BY <1>0, <1>2, <1>3, <1>4, <2>2 DEF Glue, WhereTo
  <2> QED BY <2>1, <2>2
<1>10. Newest'
  BY <1>0, <1>4 DEF Glue, Newest
<1> QED BY <1>5, <1>6, <1>7, <1>8, <1>9, <1>10 DEF Glue

-----------------------------------------------------------------------------
(* A task takes the oldest event and calls _on_event with it, its call     *)
(* before having ended, if it had one.                                     *)
LEMMA ReceiveStep ==
  ASSUME RuntimeInd, NEW c \in Handlers, Receive(c), queue # << >>,
         holding' = [holding EXCEPT ![c] = Head(queue)],
         \/ holding[c] = 0 /\ fate' = [fate EXCEPT ![Head(queue)] = "held"]
         \/ /\ holding[c] # 0 /\ ~Suspended(c)
            /\ fate' = [fate EXCEPT ![holding[c]] = "done", ![Head(queue)] = "held"],
         published' = published
  PROVE  Glue'
<1> DEFINE n == Head(queue)
           old == holding[c]
           e == content[n].fault
           ep == epoch + 1
<1>0. /\ Bus!BusInv /\ Engine!EngineInv /\ Glue
      /\ UNCHANGED <<published, content, observeOnly>>
      /\ overlapped' = (overlapped \/ DOMAIN job # {})
  BY DEF RuntimeInd, Receive, Engine!OnEvent
<1>1. /\ n \in Events /\ fate[n] = "queued" /\ epochOf[n] = 0 /\ n \in 1..published
      /\ \A m \in Events : m < n => fate[m] # "queued"
  <2>1. n \in Events /\ fate[n] = "queued" /\ \A m \in Events : m < n => fate[m] # "queued"
    BY <1>0, HeadFacts
  <2>2. epochOf[n] = 0
    BY <1>0, <2>1 DEF Glue, EpochsGiven
  <2>3. n \in 1..published
    BY <1>0, <2>1, BusFacts DEF Events
  <2> QED BY <2>1, <2>2, <2>3
<1>2. e \in Faults /\ epoch \in Nat /\ ep \in Nat /\ ep # 0 /\ ~(ep \in 1..epoch)
  BY <1>0, <1>1, ContentTypes, EngineFacts DEF Glue
<1>3. c \notin DOMAIN job /\ epoch' = ep /\ EngineP!CallStep(c, e, ep)
  BY <1>0, <1>2, OnEventCalls DEF Receive
<1>4. /\ epochOf' \in [Events -> Nat] /\ epochOf'[n] = ep
      /\ \A m \in Events : m # n => epochOf'[m] = epochOf[m]
  <2>1. epochOf' = [epochOf EXCEPT ![n] = ep] /\ epochOf \in [Events -> Nat]
    BY <1>0, <1>3 DEF Receive, Glue, EpochsGiven
  <2> QED BY <1>1, <1>2, <2>1
<1>5. /\ fate'[n] = "held"
      /\ \A m \in Events : m # n => \/ fate'[m] = fate[m]
                                    \/ /\ m = old /\ fate[m] = "held" /\ fate'[m] = "done"
                                       /\ epochOf[m] \in 1..epoch
                                       /\ epochOf[m] \in AuditEpochs \/ (Raising # {} /\ epochOf[m] \in lost)
  <2>1. CASE old = 0 /\ fate' = [fate EXCEPT ![n] = "held"]
    BY <1>0, <1>1, <2>1, BusFacts
  <2>2. CASE /\ old # 0 /\ ~Suspended(c)
             /\ fate' = [fate EXCEPT ![old] = "done", ![n] = "held"]
    <3>1. /\ old \in Events /\ fate[old] = "held"
          /\ epochOf[old] \in 1..epoch
          /\ epochOf[old] \in AuditEpochs \/ (Raising # {} /\ epochOf[old] \in lost)
      BY <1>0, <2>2, EndedCall, BusFacts
    <3>2. \A m \in Events : fate'[m] = IF m = n THEN "held" ELSE IF m = old THEN "done" ELSE fate[m]
      BY <1>0, <1>1, <2>2, <3>1, BusFacts
    <3> QED BY <1>1, <3>1, <3>2
  <2> QED BY <2>1, <2>2
<1> HIDE DEF n, old, e, ep
<1>6. /\ AuditEpochs \subseteq AuditEpochs'
      /\ lost \subseteq lost' /\ lost' \subseteq lost \cup {ep}
      /\ lost' = lost \/ Raising # {}
      /\ c \in DOMAIN job' => job'[c].event = e /\ job'[c].epoch = ep
      /\ \A d \in DOMAIN job' : d # c => d \in DOMAIN job /\ job'[d] = job[d]
  BY <1>0, <1>2, <1>3, CallChanges
<1>7. ContentOK'
  <2>1. \A m \in 1..published : content[m].stamp <= epoch /\ content[m].stamp \in Nat
    BY <1>0, ContentTypes DEF Glue, ContentOK
  <2>2. \A m \in 1..published : content[m].stamp <= ep
    BY <1>2, <2>1 DEF ep
  <2> QED BY <1>0, <1>3, <2>2 DEF Glue, ContentOK
<1>8. EpochsGiven'
  <2> SUFFICES ASSUME NEW m \in Events
               PROVE  /\ epochOf'[m] <= ep
                      /\ (epochOf'[m] = 0) <=> fate'[m] \in {"unpublished", "queued", "dropped"}
    BY <1>3, <1>4 DEF EpochsGiven, Events
  <2>1. CASE m = n
    BY <1>2, <1>4, <1>5, <2>1
  <2>2. CASE m # n
    <3>1. /\ epochOf[m] <= epoch /\ epochOf[m] \in Nat
          /\ (epochOf[m] = 0) <=> fate[m] \in {"unpublished", "queued", "dropped"}
      BY <1>0 DEF Glue, EpochsGiven
    <3>2. epochOf'[m] <= ep
      BY <1>2, <1>4, <2>2, <3>1 DEF ep
    <3> QED BY <1>4, <1>5, <2>2, <3>1, <3>2
  <2> QED BY <2>1, <2>2
<1>9. EpochsInOrder'
  <2>1. ASSUME NEW m \in Events, NEW k \in Events, m < k, epochOf'[k] # 0
        PROVE  fate'[m] # "queued" /\ epochOf'[m] < epochOf'[k]
    <3>1. CASE k = n
      <4>1. m # n /\ fate[m] # "queued"
        BY <1>1, <2>1, <3>1 DEF Events
      <4>2. epochOf[m] <= epoch /\ epochOf[m] \in Nat
        BY <1>0 DEF Glue, EpochsGiven
      <4>3. epochOf'[m] < ep
        BY <1>2, <1>4, <4>1, <4>2 DEF ep
      <4> QED BY <1>4, <1>5, <3>1, <4>1, <4>3
    <3>2. CASE k # n
      <4>1. epochOf[k] # 0 /\ fate[m] # "queued" /\ epochOf[m] < epochOf[k]
        BY <1>0, <1>4, <2>1, <3>2 DEF Glue, EpochsInOrder
      <4>2. m # n
        BY <1>1, <4>1
      <4> QED BY <1>4, <1>5, <3>2, <4>1, <4>2
    <3> QED BY <3>1, <3>2
  <2>2. ASSUME NEW k \in Events, epochOf'[k] # 0 PROVE content[k].stamp < epochOf'[k]
    <3>1. CASE k = n
      <4>1. content[n].stamp <= epoch /\ content[n].stamp \in Nat
        BY <1>0, <1>1, ContentTypes DEF Glue, ContentOK
      <4> QED BY <1>2, <1>4, <3>1, <4>1 DEF ep
    <3>2. CASE k # n
      BY <1>0, <1>4, <2>2, <3>2 DEF Glue, EpochsInOrder
    <3> QED BY <3>1, <3>2
  <2> QED BY <1>0, <2>1, <2>2 DEF EpochsInOrder, Events
<1>10. HandsNamed'
  <2> SUFFICES ASSUME NEW d \in DOMAIN job'
               PROVE  /\ holding'[d] \in Events /\ job'[d].epoch = epochOf'[holding'[d]]
                      /\ job'[d].event = content[holding'[d]].fault
    BY <1>0 DEF HandsNamed, Events
  <2>1. CASE d = c
    <3>1. holding'[c] = n
      BY <1>0, BusFacts DEF n
    <3> QED BY <1>1, <1>4, <1>6, <2>1, <3>1 DEF e
  <2>2. CASE d # c
    <3>1. /\ d \in DOMAIN job /\ job'[d] = job[d] /\ d \in Handlers
          /\ holding[d] \in Events /\ job[d].epoch = epochOf[holding[d]]
          /\ job[d].event = content[holding[d]].fault /\ fate[holding[d]] = "held"
      BY <1>6, <2>2, HeldCall
    <3>2. holding'[d] = holding[d]
      BY <1>0, <2>2, <3>1, BusFacts
    <3>3. holding[d] # n
      BY <1>1, <3>1
    <3> QED BY <1>4, <3>1, <3>2, <3>3
  <2> QED BY <2>1, <2>2
<1>11. WhereTo'
  <2> SUFFICES ASSUME NEW m \in Events
               PROVE  /\ fate'[m] = "cancelled" => epochOf'[m] \in lost'
                      /\ epochOf'[m] \in lost' => fate'[m] = "cancelled" \/ Raising # {}
                      /\ fate'[m] = "done" => \/ epochOf'[m] \in AuditEpochs'
                                              \/ Raising # {} /\ epochOf'[m] \in lost'
    BY DEF WhereTo, Events
  <2>1. CASE m = n
    <3>1. ep \notin lost
      BY <1>0, <1>2, EngineFacts
    <3> QED BY <1>4, <1>5, <1>6, <2>1, <3>1
  <2>2. CASE m # n
    <3>1. /\ fate[m] = "cancelled" => epochOf[m] \in lost
          /\ epochOf[m] \in lost => fate[m] = "cancelled" \/ Raising # {}
          /\ fate[m] = "done" => epochOf[m] \in AuditEpochs \/ (Raising # {} /\ epochOf[m] \in lost)
      BY <1>0 DEF Glue, WhereTo
    <3>2. epochOf'[m] = epochOf[m]
      BY <1>4, <2>2
    <3>3. fate'[m] = fate[m] \/ (fate[m] = "held" /\ fate'[m] = "done"
            /\ (epochOf[m] \in AuditEpochs \/ (Raising # {} /\ epochOf[m] \in lost)))
      BY <1>5, <2>2
    <3> QED BY <1>6, <3>1, <3>2, <3>3
  <2> QED BY <2>1, <2>2
<1>12. AuditNamed'
  <2>1. \A m \in Events : epochOf[m] # 0 => /\ epochOf'[m] = epochOf[m]
                                            /\ content'[m].fault = content[m].fault
    BY <1>0, <1>1, <1>4
  <2>2. epochOf'[n] = ep /\ content'[n].fault = e
    BY <1>0, <1>4 DEF e
  <2> QED BY <1>0, <1>1, <1>2, <1>3, <2>1, <2>2, NamesKept DEF Glue
<1>13. Newest'
  <2> SUFFICES ASSUME ~overlapped', NEW d \in DOMAIN job' PROVE job'[d].epoch = ep
    BY <1>3 DEF Newest
  <2>1. DOMAIN job = {}
    BY <1>0
  <2> QED BY <1>6, <2>1
<1>14. AuditInOrder'
  <2>1. \A i \in 1..Len(audit) : audit[i].epoch < ep
    BY <1>0, <1>2, EngineFacts DEF ep
  <2>2. ~overlapped' => ~overlapped
    BY <1>0
  <2> QED BY <1>0, <1>2, <1>3, <2>1, <2>2, OrderKept DEF Glue
<1> QED BY <1>7, <1>8, <1>9, <1>10, <1>11, <1>12, <1>13, <1>14 DEF Glue

-----------------------------------------------------------------------------
(* The invariant holds at first and every step keeps it.                   *)

LEMMA RuntimeInit == Init => RuntimeInd
<1> SUFFICES ASSUME Init PROVE RuntimeInd
  OBVIOUS
<1>1. Bus!BusInv
  BY BusP!InvInit, BusAssumed, BusInvSame, BusStepSame DEF Init
<1>2. Engine!EngineInv
  BY EngineP!EngineInit, EngineAssumed, EngineInvSame, EngineStepSame DEF Init
<1>3. /\ published = 0 /\ content = << >> /\ job = << >> /\ audit = << >> /\ lost = {}
      /\ epochOf = [n \in Events |-> 0] /\ epoch = 0
      /\ fate = [n \in Events |-> "unpublished"]
  BY DEF Init, Bus!Init, Bus!Events, Engine!Init, Events
<1>4. ContentOK /\ EpochsGiven /\ EpochsInOrder
  BY <1>3 DEF ContentOK, EpochsGiven, EpochsInOrder
<1>5. HandsNamed /\ WhereTo /\ AuditNamed
  BY <1>3 DEF HandsNamed, WhereTo, AuditNamed
<1>6. Newest /\ AuditInOrder
  BY <1>3 DEF Newest, AuditInOrder
<1> QED BY <1>1, <1>2, <1>4, <1>5, <1>6 DEF RuntimeInd, Glue

(* What a step of the runtime is to the bus and to the engine.             *)
LEMMA BusPart ==
  ASSUME [Next]_vars
  PROVE  BusStep \/ UNCHANGED busVars
<1>1. CASE UNCHANGED vars
  BY <1>1 DEF vars
<1>2. CASE \E e \in Faults : Inject(e)
  BY <1>2 DEF Inject, BusStep
<1>3. CASE LoopTake \/ LoopReturn \/ DrainTake \/ DrainReturnTake \/ DrainReturnLast
  BY <1>3 DEF LoopTake, LoopReturn, DrainTake, DrainReturnTake, DrainReturnLast, BusStep
<1>4. CASE \/ BusAlone(Bus!Start) \/ BusAlone(Bus!LoopExit(Loop)) \/ BusAlone(Bus!Join(Stopper))
           \/ BusAlone(Bus!StopBegin(Stopper)) \/ BusAlone(Bus!DrainEmpty(Stopper))
  BY <1>4 DEF BusAlone, BusStep
<1>5. CASE DrainTimeout \/ CancelLoop
  BY <1>5 DEF DrainTimeout, CancelLoop, BusStep
<1>6. CASE \E c \in Handlers : Resume(c)
  BY <1>6 DEF Resume
<1> QED BY <1>1, <1>2, <1>3, <1>4, <1>5, <1>6 DEF Next

LEMMA EnginePart ==
  ASSUME RuntimeInd, [Next]_vars
  PROVE  EngineStep \/ UNCHANGED engineVars
<1>1. CASE UNCHANGED vars
  BY <1>1 DEF vars
<1>2. CASE \E e \in Faults : Inject(e)
  BY <1>2 DEF Inject
<1>3. CASE LoopReturn \/ DrainReturnLast
  BY <1>3 DEF LoopReturn, DrainReturnLast
<1>4. ASSUME NEW c \in Handlers, Receive(c), queue # << >>
      PROVE  EngineStep
  <2>1. Head(queue) \in 1..published
    <3>1. Head(queue) \in Events /\ fate[Head(queue)] = "queued" /\ Bus!BusInv
      BY <1>4, HeadFacts DEF RuntimeInd
    <3> QED BY <3>1, BusFacts DEF Events
  <2>2. content[Head(queue)].fault \in Faults
    BY <2>1, ContentTypes DEF RuntimeInd, Glue
  <2> QED BY <1>4, <2>2 DEF Receive, EngineStep
<1>5. CASE LoopTake \/ DrainTake \/ DrainReturnTake
  BY <1>4, <1>5 DEF LoopTake, DrainTake, DrainReturnTake, Bus!LoopTake, Bus!DrainTake,
                    Bus!DrainReturnTake, Bus!Take, Handlers
<1>6. CASE \/ BusAlone(Bus!Start) \/ BusAlone(Bus!LoopExit(Loop)) \/ BusAlone(Bus!Join(Stopper))
           \/ BusAlone(Bus!StopBegin(Stopper)) \/ BusAlone(Bus!DrainEmpty(Stopper))
  BY <1>6 DEF BusAlone
<1>7. CASE DrainTimeout \/ CancelLoop
  BY <1>7 DEF DrainTimeout, CancelLoop, EngineStep, Handlers
<1>8. CASE \E c \in Handlers : Resume(c)
  BY <1>8 DEF Resume, EngineStep
<1> QED BY <1>1, <1>2, <1>3, <1>5, <1>6, <1>7, <1>8 DEF Next

LEMMA GluePart ==
  ASSUME RuntimeInd, [Next]_vars
  PROVE  Glue'
<1>0. Bus!BusInv /\ Engine!EngineInv /\ Glue /\ Stopper \in Handlers /\ Loop \in Handlers
  BY DEF RuntimeInd, Handlers
<1>1. CASE UNCHANGED vars
  BY <1>0, <1>1, QuietStep DEF vars, busVars, engineVars
<1>2. CASE \E e \in Faults : Inject(e)
  BY <1>2, InjectStep
<1>3. CASE \/ BusAlone(Bus!Start) \/ BusAlone(Bus!LoopExit(Loop)) \/ BusAlone(Bus!Join(Stopper))
           \/ BusAlone(Bus!StopBegin(Stopper)) \/ BusAlone(Bus!DrainEmpty(Stopper))
  <2>1. UNCHANGED <<published, fate, holding>>
    BY <1>3 DEF BusAlone, Bus!Start, Bus!LoopExit, Bus!Join, Bus!StopBegin, Bus!DrainEmpty
  <2>2. UNCHANGED <<engineVars, content, epochOf, overlapped>>
    BY <1>3 DEF BusAlone
  <2> QED BY <1>0, <2>1, <2>2, QuietStep DEF engineVars
<1>4. CASE LoopTake
  <2>1. holding[Loop] = 0
    BY <1>0, <1>4, BusFacts DEF LoopTake, Bus!LoopTake
  <2> QED BY <1>0, <1>4, <2>1, ReceiveStep DEF LoopTake, Bus!LoopTake, Bus!Take
<1>5. CASE DrainTake
  <2>1. holding[Stopper] = 0
    BY <1>0, <1>5, BusFacts DEF DrainTake, Bus!DrainTake
  <2> QED BY <1>0, <1>5, <2>1, ReceiveStep DEF DrainTake, Bus!DrainTake, Bus!Take
<1>6. CASE DrainReturnTake
  BY <1>0, <1>6, ReceiveStep DEF DrainReturnTake, Returned, Bus!DrainReturnTake, Bus!Take
<1>7. CASE LoopReturn
  BY <1>0, <1>7, ReturnStep DEF LoopReturn, Returned, Bus!LoopReturn, Bus!Nothing, engineVars
<1>8. CASE DrainReturnLast
  BY <1>0, <1>8, ReturnStep
     DEF DrainReturnLast, Returned, Bus!DrainReturnLast, Bus!Nothing, engineVars
<1>9. CASE DrainTimeout
  BY <1>0, <1>9, CancelStep DEF DrainTimeout, Bus!DrainTimeout, Bus!Nothing
<1>10. CASE CancelLoop /\ holding[Loop] # 0
  <2>1. Engine!Cancel(Loop)
    BY <1>0, <1>10 DEF CancelLoop, LoopIsFree
  <2>2. task = Loop
    BY <1>0, <1>10, BusFacts DEF CancelLoop, Bus!Cancel
  <2> QED BY <1>0, <1>10, <2>1, <2>2, CancelStep DEF CancelLoop, Bus!Cancel, Bus!Nothing
<1>11. CASE CancelLoop /\ holding[Loop] = 0
  <2>1. ~Suspended(Loop)
    BY <1>0, <1>11, BusFacts DEF Glue, HandsNamed, Suspended
  <2>0. task = Loop
    BY <1>0, <1>11, BusFacts DEF CancelLoop, Bus!Cancel
  <2>2. UNCHANGED <<engineVars, content, epochOf, overlapped, published, fate>>
    BY <1>11, <2>0, <2>1 DEF CancelLoop, Bus!Cancel, Bus!Nothing
  <2>3. holding' = [holding EXCEPT ![Loop] = 0]
    BY <1>11, <2>0 DEF CancelLoop, Bus!Cancel, Bus!Nothing
  <2>4. holding' = holding
    BY <1>0, <1>11, <2>3, BusFacts
  <2> QED BY <1>0, <2>2, <2>4, QuietStep DEF engineVars
<1>12. CASE \E c \in Handlers : Resume(c)
  BY <1>12, ResumeStep
<1> QED BY <1>1, <1>2, <1>3, <1>4, <1>5, <1>6, <1>7, <1>8, <1>9, <1>10, <1>11, <1>12 DEF Next

(* What the two components promise holds of them wired together, and each  *)
(* event, call, epoch and audit entry is the one the others say it is.     *)
THEOREM RuntimeInductive == Spec => []RuntimeInd
<1>1. RuntimeInd /\ [Next]_vars => RuntimeInd'
  <2> SUFFICES ASSUME RuntimeInd, [Next]_vars PROVE RuntimeInd'
    OBVIOUS
  <2>1. Bus!BusInv'
    BY BusPart, BusKept DEF RuntimeInd
  <2>2. Engine!EngineInv'
    BY EnginePart, EngineKept DEF RuntimeInd
  <2> QED BY <2>1, <2>2, GluePart DEF RuntimeInd
<1> QED BY RuntimeInit, <1>1, PTL DEF Spec

-----------------------------------------------------------------------------
(* What became of an event is what the engine says of it, for any number   *)
(* of events and however stop() cuts in: an ended handler has left an      *)
(* audit record unless a layer raised, a cancelled one has not, no call is *)
(* in flight that no task holds (_on_event, _route, stop()).               *)
THEOREM EventsAreAnswered == Spec => []EventsAnswered
<1>1. RuntimeInd => EventsAnswered
  <2> SUFFICES ASSUME RuntimeInd PROVE EventsAnswered
    OBVIOUS
  <2>0. Bus!BusInv /\ Engine!EngineInv /\ Glue
    BY DEF RuntimeInd
  <2>1. \A ep : ep \in AuditEpochs => Engine!Audited(ep)
    BY DEF AuditEpochs, Engine!Audited
  <2>2. ASSUME NEW n \in Events, Engine!InFlight(epochOf[n]) PROVE fate[n] = "held"
    <3>1. PICK c \in DOMAIN job : job[c].epoch = epochOf[n]
      BY <2>2 DEF Engine!InFlight
    <3> QED BY <3>1, HeldCall
  <2>3. \A n \in Events :
          /\ (epochOf[n] = 0) <=> fate[n] \in {"unpublished", "queued", "dropped"}
          /\ fate[n] = "done" => Engine!Audited(epochOf[n]) \/ (Raising # {} /\ epochOf[n] \in lost)
          /\ fate[n] = "cancelled" => epochOf[n] \in lost
    BY <2>0, <2>1 DEF Glue, EpochsGiven, WhereTo
  <2>4. AuditNamed
    BY <2>0 DEF Glue
  <2> QED BY <2>2, <2>3, <2>4 DEF EventsAnswered, AuditNamed
<1> QED BY RuntimeInductive, <1>1, PTL

(* Epochs are handed out in publish order, above the epoch each publisher  *)
(* had seen, whichever tasks take the events (next_epoch(), _drain()).     *)
THEOREM EpochsAreInOrder == Spec => []EpochsInOrder
<1>1. RuntimeInd => EpochsInOrder
  BY DEF RuntimeInd, Glue
<1> QED BY RuntimeInductive, <1>1, PTL

(* The audit log is in epoch order, and every rank has reported at least   *)
(* each epoch it recovered at, while no drain overlaps a suspended         *)
(* handler (_append_audit, report_epoch()).                                *)
THEOREM AuditIsInOrder == Spec => []AuditInOrder
<1>1. RuntimeInd => AuditInOrder
  BY DEF RuntimeInd, Glue
<1> QED BY RuntimeInductive, <1>1, PTL

-----------------------------------------------------------------------------
(* The runtime implements its two components.                              *)

(* The wiring of runtime.py lets the bus do what TelemetryBus specifies    *)
(* and nothing else, whatever _on_event makes of an event.                 *)
THEOREM RuntimeIsBus == Spec => BusP!Spec
<1>1. Init => BusP!Init
  BY BusStepSame DEF Init
<1>2. [Next]_vars => [BusP!Next]_(BusP!vars)
  BY BusPart, BusStepSame DEF busVars, BusP!vars, BusP!life
<1> QED BY <1>1, <1>2, PTL DEF Spec, BusP!Spec

(* The engine, called by no task but the dispatch task and the draining    *)
(* stop(), with the events they took from the queue, does what             *)
(* EscalationEngine specifies for any callers and any events.              *)
THEOREM RuntimeIsEngine == Spec => EngineP!Spec
<1>1. Init => EngineP!Init
  BY EngineStepSame DEF Init
<1>2. RuntimeInd /\ [Next]_vars => [EngineP!Next]_(EngineP!vars)
  <2>1. EngineStep => EngineP!Next
    BY EngineStepSame DEF EngineStep, EngineP!Next
  <2> QED BY <2>1, EnginePart DEF engineVars, EngineP!vars
<1> QED BY <1>1, <1>2, RuntimeInductive, PTL DEF Spec, EngineP!Spec

(* So what each promises holds of the two wired together: an event is      *)
(* delivered at most once and in order, what was accepted before a stop()  *)
(* is drained, the counters agree and a stopped runtime runs no dispatch   *)
(* task; the policy only climbs, the KPIs are those of the audit log, and  *)
(* a burst of one rack is escalated.                                       *)
THEOREM RuntimeKeepsPromises ==
  Spec => /\ BusP!Delivers /\ []BusP!StopDrains
          /\ []BusP!OrderedWhileRunning /\ []BusP!CountersMatch
          /\ []BusP!QuietWhenStopped
          /\ EngineP!ClimbsOnly /\ []EngineP!EscalationSound
          /\ []EngineP!KpiMatchesAudit /\ []EngineP!BurstEscalates
<1>1. BusP!Spec => /\ BusP!Delivers /\ []BusP!StopDrains
                   /\ []BusP!OrderedWhileRunning /\ []BusP!CountersMatch
                   /\ []BusP!QuietWhenStopped
  <2>1. BusP!Spec => []BusP!QuietWhenStopped
    BY BusAssumed, BusP!SoloStopQuiet
  <2> QED BY <2>1, BusAssumed, BusP!DeliveryImplemented, BusP!StopDrainsQueue,
             BusP!DispatchOrdered, BusP!CountersAreRight, PTL
<1>2. EngineP!Spec => /\ EngineP!ClimbsOnly /\ []EngineP!EscalationSound
                      /\ []EngineP!KpiMatchesAudit /\ []EngineP!BurstEscalates
  BY EngineAssumed, EngineP!OnlyClimbs, EngineP!EscalationIsSound, EngineP!KpiIsAudit,
     EngineP!BurstsEscalate, PTL
<1> QED BY <1>1, <1>2, RuntimeIsBus, RuntimeIsEngine, PTL

(* Where only NIC migration and absorption suspend, as in the code, the    *)
(* gate a call in the runtime was given is still the one the ranks agree   *)
(* on when storage recovers under it (_urc_gate).                          *)
THEOREM RuntimeGateFresh ==
  ASSUME Suspending \subseteq {EngineP!B0, EngineP!B1}
  PROVE  Spec => EngineP!GateFresh
<1>1. EngineP!Spec => EngineP!GateFresh
  BY EngineAssumed, EngineP!GateStaysFresh
<1> QED BY <1>1, RuntimeIsEngine, PTL
=============================================================================
