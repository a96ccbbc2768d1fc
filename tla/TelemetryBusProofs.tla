------------------------ MODULE TelemetryBusProofs --------------------------
(***************************************************************************)
(* Theorems about TelemetryBus, for every queue size, number of events,    *)
(* subscribers and stopping tasks.                                         *)
(***************************************************************************)
EXTENDS TelemetryBus, FiniteSetTheorems, TLAPS

(* What put and get do to a queue. *)
LEMMA QueueFacts ==
  ASSUME NEW S, NEW q \in Seq(S)
  PROVE  /\ Len(q) \in Nat
         /\ \A i \in 1..Len(q) : q[i] \in S
         /\ \A x \in S : /\ Append(q, x) \in Seq(S)
                         /\ Len(Append(q, x)) = Len(q) + 1
                         /\ \A i \in 1..Len(q) : Append(q, x)[i] = q[i]
                         /\ Append(q, x)[Len(q) + 1] = x
         /\ q # << >> => /\ Len(q) > 0
                         /\ Head(q) \in S
                         /\ Head(q) = q[1]
                         /\ Tail(q) \in Seq(S)
                         /\ Len(Tail(q)) = Len(q) - 1
                         /\ \A i \in 1..Len(Tail(q)) : Tail(q)[i] = q[i + 1]
  OBVIOUS

(* The two kinds of consumer are apart. *)
LEMMA Kinds ==
  /\ \A s \in Stoppers : s \in Consumers /\ s \notin Loops
  /\ \A l \in Loops : l \in Consumers /\ l \notin Stoppers
  /\ NoTask \notin Loops
BY BusAssumption DEF Consumers

(* The type invariant holds initially and no action breaks it. *)
LEMMA TypeInit == Init => TypeOK
<1> SUFFICES ASSUME Init PROVE TypeOK
  OBVIOUS
<1>1. queue \in Seq(Events) /\ Len(queue) <= QueueSize
  BY BusAssumption DEF Init, Consumers, Events, Fates, Nothing
<1>2. fate \in [Events -> Fates]
  BY BusAssumption DEF Init, Consumers, Events, Fates, Nothing
<1>3. /\ pc \in [Consumers -> {"waiting", "handling", "exited", "idle", "draining",
                               "drained", "joining", "failed"}]
      /\ \A l \in Loops : pc[l] = "exited"
      /\ \A s \in Stoppers : pc[s] = "idle"
  BY Kinds DEF Init
<1>4. holding \in [Consumers -> Events \cup {Nothing}] /\ at \in [Consumers -> 0..NSubs]
  BY BusAssumption DEF Init, Consumers, Events, Fates, Nothing
<1>5. mark \in [Stoppers -> 0..MaxEvents] /\ timedOut \in [Stoppers -> BOOLEAN]
  BY BusAssumption DEF Init, Consumers, Events, Fates, Nothing
<1>6. published \in 0..MaxEvents /\ eventCount \in Nat /\ dropCount \in Nat
  BY BusAssumption DEF Init
<1>7. /\ running \in BOOLEAN /\ started \in BOOLEAN
      /\ task \in Loops \cup {NoTask} /\ late \subseteq Loops
      /\ awaits \in [Stoppers -> Loops \cup {NoTask}]
  BY DEF Init
<1> QED BY <1>1, <1>2, <1>3, <1>4, <1>5, <1>6, <1>7 DEF TypeOK

LEMMA TypeStep == TypeOK /\ [Next]_vars => TypeOK'
<1> SUFFICES ASSUME TypeOK, [Next]_vars PROVE TypeOK'
  OBVIOUS
<1> USE BusAssumption, Kinds DEF TypeOK, Events, Fates, Nothing, life
<1>1. CASE Accept
  <2>1. published + 1 \in Events
    BY <1>1 DEF Accept
  <2>2. queue' \in Seq(Events) /\ Len(queue') <= QueueSize
    BY <1>1, <2>1, QueueFacts DEF Accept
  <2> QED BY <1>1, <2>1, <2>2 DEF Accept
<1>2. CASE Drop
  BY <1>2 DEF Drop
<1>3. CASE Start
  BY <1>3 DEF Start
<1>4. ASSUME NEW c \in Consumers, Take(c)
      PROVE  /\ Head(queue) \in Events
             /\ queue' \in Seq(Events) /\ Len(queue') <= QueueSize
             /\ holding' \in [Consumers -> Events \cup {Nothing}]
             /\ at' \in [Consumers -> 0..NSubs]
  <2>1. Head(queue) \in Events /\ queue' \in Seq(Events) /\ Len(queue') <= QueueSize
    BY <1>4, QueueFacts DEF Take
  <2> QED BY <1>4, <2>1 DEF Take
<1>12. ASSUME NEW c \in Consumers, NEW f \in Fates,
              holding' = [holding EXCEPT ![c] = Nothing],
              at' = [at EXCEPT ![c] = Nothing],
              fate' = [fate EXCEPT ![holding[c]] = f]
       PROVE  /\ holding' \in [Consumers -> Events \cup {Nothing}]
              /\ at' \in [Consumers -> 0..NSubs]
              /\ fate' \in [Events -> Fates]
  <2>1. holding' \in [Consumers -> Events \cup {Nothing}] /\ at' \in [Consumers -> 0..NSubs]
    BY <1>12
  <2>2. fate' \in [Events -> Fates]
    BY <1>12
  <2> QED BY <2>1, <2>2
<1>5. ASSUME NEW l \in Loops, LoopTake(l) PROVE TypeOK'
  BY <1>5, <1>4 DEF LoopTake
<1>6. ASSUME NEW l \in Loops, LoopReturn(l) PROVE TypeOK'
  <2>1. /\ holding' \in [Consumers -> Events \cup {Nothing}] /\ at' \in [Consumers -> 0..NSubs]
        /\ fate' \in [Events -> Fates]
    BY <1>6, <1>12 DEF LoopReturn
  <2> QED BY <1>6, <2>1 DEF LoopReturn
<1>7. ASSUME NEW l \in Loops, LoopExit(l) PROVE TypeOK'
  BY <1>7 DEF LoopExit
<1>8. ASSUME NEW c \in Consumers, NextSubscriber(c) PROVE TypeOK'
  BY <1>8 DEF NextSubscriber
<1>9. ASSUME NEW s \in Stoppers, Stop(s) PROVE TypeOK'
  <2>1. CASE StopBegin(s)
    BY <2>1 DEF StopBegin
  <2>2. CASE DrainTake(s)
    BY <2>2, <1>4 DEF DrainTake
  <2>3. CASE DrainEmpty(s)
    BY <2>3 DEF DrainEmpty
  <2>4. CASE DrainReturnTake(s)
    BY <2>4, <1>4 DEF DrainReturnTake
  <2>5. CASE DrainReturnLast(s)
    <3>1. /\ holding' \in [Consumers -> Events \cup {Nothing}] /\ at' \in [Consumers -> 0..NSubs]
          /\ fate' \in [Events -> Fates]
      BY <2>5, <1>12 DEF DrainReturnLast
    <3> QED BY <2>5, <3>1 DEF DrainReturnLast
  <2>6. CASE DrainTimeout(s)
    <3>1. /\ holding' \in [Consumers -> Events \cup {Nothing}] /\ at' \in [Consumers -> 0..NSubs]
          /\ fate' \in [Events -> Fates]
      BY <2>6, <1>12 DEF DrainTimeout
    <3> QED BY <2>6, <3>1 DEF DrainTimeout
  <2>7. CASE Cancel(s)
    <3>0. task \in Loops
      BY <2>7 DEF Cancel
    <3>1. fate' \in [Events -> Fates]
      BY <2>7, <3>0 DEF Cancel
    <3>2. /\ holding' \in [Consumers -> Events \cup {Nothing}]
          /\ at' \in [Consumers -> 0..NSubs]
      BY <2>7, <3>0 DEF Cancel
    <3>3. /\ pc' \in [Consumers -> {"waiting", "handling", "exited", "idle", "draining",
                                     "drained", "joining", "failed"}]
          /\ \A l \in Loops : pc'[l] \in {"waiting", "handling", "exited"}
          /\ \A z \in Stoppers : pc'[z] \in {"idle", "draining", "handling", "drained",
                                             "joining", "failed"}
      BY <2>7, <3>0 DEF Cancel
    <3> QED BY <2>7, <3>0, <3>1, <3>2, <3>3 DEF Cancel
  <2>8. CASE CancelNone(s)
    BY <2>8 DEF CancelNone
  <2>9. CASE Join(s)
    BY <2>9 DEF Join
  <2> QED BY <1>9, <2>1, <2>2, <2>3, <2>4, <2>5, <2>6, <2>7, <2>8, <2>9 DEF Stop
<1>11. CASE UNCHANGED vars
  BY <1>11 DEF vars
<1> QED
  BY <1>1, <1>2, <1>3, <1>5, <1>6, <1>7, <1>8, <1>9, <1>11 DEF Next, Publish

(* Every reachable state has the types bus.py gives its fields. *)
THEOREM TypeCorrect == Spec => []TypeOK
  BY TypeInit, TypeStep, PTL DEF Spec

-----------------------------------------------------------------------------
(* What the queue and the tasks' hands contain after each kind of change. *)

LEMMA AfterPut ==
  ASSUME TypeOK, QueueInOrder, published < MaxEvents,
         \A n \in Events : Queued(n) => n <= published,
         queue' = Append(queue, published + 1)
  PROVE  /\ QueueInOrder'
         /\ \A n \in Events : Queued(n)' <=> (Queued(n) \/ n = published + 1)
<1> DEFINE p == published + 1
<1>1. queue \in Seq(Events) /\ p \in Events /\ published \in Nat
  BY BusAssumption DEF TypeOK, Events
<1>2. /\ Len(queue) \in Nat
      /\ Len(queue') = Len(queue) + 1
      /\ \A i \in 1..Len(queue) : queue'[i] = queue[i] /\ queue[i] \in Events
      /\ queue'[Len(queue) + 1] = p
  BY <1>1, QueueFacts
<1>3. \A i \in 1..Len(queue) : queue[i] < p
  BY <1>1, <1>2 DEF Queued, Events
<1>4. QueueInOrder'
  <2> SUFFICES ASSUME NEW i \in 1..(Len(queue) + 1), NEW j \in 1..(Len(queue) + 1), i < j
               PROVE  queue'[i] < queue'[j]
    BY <1>2 DEF QueueInOrder
  <2>1. i \in 1..Len(queue)
    BY <1>2
  <2>2. CASE j \in 1..Len(queue)
    BY <1>2, <2>1, <2>2 DEF QueueInOrder
  <2>3. CASE j = Len(queue) + 1
    BY <1>2, <1>3, <2>1, <2>3
  <2> QED BY <1>2, <2>2, <2>3
<1>5. \A n \in Events : Queued(n)' <=> (Queued(n) \/ n = p)
  BY <1>1, <1>2 DEF Queued
<1> QED BY <1>4, <1>5

LEMMA AfterGet ==
  ASSUME TypeOK, QueueInOrder, queue # << >>, queue' = Tail(queue)
  PROVE  /\ QueueInOrder'
         /\ Head(queue) \in Events
         /\ Queued(Head(queue))
         /\ \A n \in Events : Queued(n) => Head(queue) <= n
         /\ \A n \in Events : Queued(n)' <=> (Queued(n) /\ n # Head(queue))
<1>1. /\ queue \in Seq(Events)
      /\ Len(queue) \in Nat /\ Len(queue) > 0
      /\ Len(queue') = Len(queue) - 1
      /\ Head(queue) = queue[1] /\ Head(queue) \in Events
      /\ \A i \in 1..Len(queue) : queue[i] \in Events
      /\ \A i \in 1..Len(queue') : queue'[i] = queue[i + 1]
  BY QueueFacts DEF TypeOK
<1>2. QueueInOrder'
  BY <1>1 DEF QueueInOrder
<1>3. Queued(Head(queue))
  BY <1>1 DEF Queued
<1>4. \A i \in 1..Len(queue) : i # 1 => queue[1] < queue[i]
  BY <1>1 DEF QueueInOrder
<1>5. \A n \in Events : Queued(n) => Head(queue) <= n
  BY <1>1, <1>4 DEF Queued, Events
<1>6. ASSUME NEW n \in Events PROVE Queued(n)' <=> (Queued(n) /\ n # Head(queue))
  <2>1. ASSUME Queued(n)' PROVE Queued(n) /\ n # Head(queue)
    <3>1. PICK i \in 1..Len(queue') : queue'[i] = n
      BY <2>1 DEF Queued
    <3>2. i + 1 \in 1..Len(queue) /\ queue[i + 1] = n /\ i + 1 # 1
      BY <3>1, <1>1
    <3> QED BY <3>2, <1>1, <1>4 DEF Queued, Events
  <2>2. ASSUME Queued(n), n # Head(queue) PROVE Queued(n)'
    <3>1. PICK i \in 1..Len(queue) : queue[i] = n
      BY <2>2 DEF Queued
    <3>2. i - 1 \in 1..Len(queue') /\ queue'[i - 1] = n
      BY <3>1, <2>2, <1>1
    <3> QED BY <3>2 DEF Queued
  <2> QED BY <2>1, <2>2
<1> QED BY <1>1, <1>2, <1>3, <1>5, <1>6

LEMMA AfterHand ==
  ASSUME TypeOK, HandsDisjoint, NEW c \in Consumers, NEW v,
         v = Nothing \/ (v \in Events /\ ~Held(v)),
         holding' = [holding EXCEPT ![c] = v]
  PROVE  /\ HandsDisjoint'
         /\ \A n \in Events : Held(n)' <=> (n = v \/ (Held(n) /\ n # holding[c]))
<1>1. /\ holding \in [Consumers -> Events \cup {Nothing}]
      /\ holding'[c] = v
      /\ \A d \in Consumers : d # c => holding'[d] = holding[d]
  BY DEF TypeOK
<1>2. \A n \in Events : n # Nothing
  BY BusAssumption DEF Events, Nothing
<1>3. HandsDisjoint'
  BY <1>1 DEF HandsDisjoint, Held
<1>4. \A n \in Events : Held(n)' <=> (n = v \/ (Held(n) /\ n # holding[c]))
  BY <1>1, <1>2 DEF HandsDisjoint, Held
<1> QED BY <1>3, <1>4

-----------------------------------------------------------------------------
(* The inductive invariant: conservation of events. *)

LEMMA InvInit == Init => BusInv
<1> SUFFICES ASSUME Init PROVE BusInv
  OBVIOUS
<1>1. TypeOK
  BY TypeInit
<1>2. QueueInOrder /\ \A n \in Events : ~Queued(n)
  BY DEF Init, QueueInOrder, Queued
<1>3. HandsDisjoint /\ HandsMatchPc /\ \A n \in Events : ~Held(n)
  BY BusAssumption, Kinds DEF Init, HandsDisjoint, HandsMatchPc, Held, Events, Nothing
<1>4. FateMatches
  BY BusAssumption, <1>2, <1>3 DEF Init, FateMatches, Events
<1>5. StartedHasTask /\ JoinedHasEnded
  BY Kinds DEF Init, StartedHasTask, JoinedHasEnded, Joining
<1> QED BY <1>1, <1>2, <1>3, <1>4, <1>5 DEF BusInv, Conservation

(* A step that leaves the queue, the hands and the fates alone, and moves  *)
(* no task into or out of a handler.                                       *)
LEMMA Untouched ==
  ASSUME BusInv, UNCHANGED <<queue, holding, fate, published>>,
         \A c \in Consumers : (pc'[c] = "handling") <=> (pc[c] = "handling")
  PROVE  Conservation'
<1>1. QueueInOrder' /\ HandsDisjoint' /\ HandsMatchPc'
  BY DEF BusInv, Conservation, QueueInOrder, HandsDisjoint, HandsMatchPc
<1>2. FateMatches'
  BY DEF BusInv, Conservation, FateMatches, Queued, Held
<1> QED BY <1>1, <1>2 DEF Conservation

(* A free task takes the oldest event. *)
LEMMA TakeConserves ==
  ASSUME BusInv, NEW c \in Consumers, pc[c] # "handling", Take(c),
         pc' = [pc EXCEPT ![c] = "handling"],
         fate' = [fate EXCEPT ![Head(queue)] = "held"],
         published' = published
  PROVE  Conservation'
<1> DEFINE v == Head(queue)
<1>1. TypeOK /\ QueueInOrder /\ HandsDisjoint /\ HandsMatchPc /\ FateMatches
  BY DEF BusInv, Conservation
<1>2. /\ queue # << >> /\ queue' = Tail(queue)
      /\ holding' = [holding EXCEPT ![c] = v]
  BY DEF Take
<1>3. /\ QueueInOrder' /\ v \in Events /\ Queued(v)
      /\ \A n \in Events : Queued(n)' <=> (Queued(n) /\ n # v)
  BY <1>1, <1>2, AfterGet
<1>4. ~Held(v)
  BY <1>1, <1>3 DEF FateMatches
<1>5. holding[c] = Nothing /\ v # Nothing
  BY <1>1, <1>3, BusAssumption DEF HandsMatchPc, Events, Nothing
<1>6. /\ HandsDisjoint'
      /\ \A n \in Events : Held(n)' <=> (n = v \/ (Held(n) /\ n # holding[c]))
  BY <1>1, <1>2, <1>3, <1>4, AfterHand
<1>7. HandsMatchPc'
  BY <1>1, <1>2, <1>5 DEF HandsMatchPc, TypeOK
<1>8. \A n \in Events : fate'[n] = IF n = v THEN "held" ELSE fate[n]
  BY <1>1, <1>3 DEF TypeOK
<1>9. \A n \in Events : Held(n)' <=> (n = v \/ Held(n))
  BY <1>5, <1>6, BusAssumption DEF Events, Nothing
<1>10. FateMatches'
  BY <1>1, <1>3, <1>8, <1>9 DEF FateMatches
<1> QED BY <1>3, <1>6, <1>7, <1>10 DEF Conservation

(* A task's handler ends, with the fate f, and the task takes nothing. *)
LEMMA ReleaseConserves ==
  ASSUME BusInv, NEW c \in Consumers, pc[c] = "handling",
         NEW f \in {"done", "cancelled"},
         holding' = [holding EXCEPT ![c] = Nothing],
         fate' = [fate EXCEPT ![holding[c]] = f],
         \A d \in Consumers : (pc'[d] = "handling") <=> (d # c /\ pc[d] = "handling"),
         UNCHANGED <<queue, published>>
  PROVE  Conservation'
<1> DEFINE v == holding[c]
<1>1. TypeOK /\ QueueInOrder /\ HandsDisjoint /\ HandsMatchPc /\ FateMatches
  BY DEF BusInv, Conservation
<1>2. v \in Events /\ v # Nothing /\ Held(v)
  BY <1>1 DEF HandsMatchPc, TypeOK, Held
<1>3. /\ HandsDisjoint'
      /\ \A n \in Events : Held(n)' <=> (n = Nothing \/ (Held(n) /\ n # v))
  BY <1>1, AfterHand
<1>4. \A n \in Events : Held(n)' <=> (Held(n) /\ n # v)
  BY <1>3, BusAssumption DEF Events, Nothing
<1>5. HandsMatchPc'
  BY <1>1 DEF HandsMatchPc, TypeOK
<1>6. \A n \in Events : fate'[n] = IF n = v THEN f ELSE fate[n]
  BY <1>1, <1>2 DEF TypeOK
<1>7. QueueInOrder' /\ \A n \in Events : Queued(n)' <=> Queued(n)
  BY <1>1 DEF QueueInOrder, Queued
<1>8. FateMatches'
  BY <1>1, <1>2, <1>4, <1>6, <1>7 DEF FateMatches
<1> QED BY <1>3, <1>5, <1>7, <1>8 DEF Conservation

LEMMA InvStep == BusInv /\ [Next]_vars => BusInv'
<1> SUFFICES ASSUME BusInv, [Next]_vars PROVE BusInv'
  OBVIOUS
<1>1. TypeOK'
  BY TypeStep DEF BusInv
<1>2. Conservation'
  <2> USE DEF BusInv
  <2>1. CASE Accept
    <3> DEFINE p == published + 1
    <3>1. \A n \in Events : Queued(n) => n <= published
      BY DEF Conservation, FateMatches, Events, TypeOK
    <3>2. p \in Events /\ ~Held(p) /\ fate[p] = "unpublished"
      BY <2>1, BusAssumption DEF Accept, Conservation, FateMatches, Events, TypeOK
    <3>3. /\ QueueInOrder'
          /\ \A n \in Events : Queued(n)' <=> (Queued(n) \/ n = p)
      BY <2>1, <3>1, AfterPut DEF Accept, Conservation
    <3>4. HandsDisjoint' /\ HandsMatchPc' /\ \A n \in Events : Held(n)' <=> Held(n)
      BY <2>1 DEF Accept, Conservation, HandsDisjoint, HandsMatchPc, Held
    <3>5. \A n \in Events : fate'[n] = IF n = p THEN "queued" ELSE fate[n]
      BY <2>1, <3>2 DEF Accept, TypeOK
    <3>6. \A n \in Events : (published' < n) <=> (published < n /\ n # p)
      BY <2>1, BusAssumption DEF Accept, TypeOK, Events
    <3>7. FateMatches'
      BY <3>2, <3>3, <3>4, <3>5, <3>6 DEF Conservation, FateMatches
    <3> QED BY <3>3, <3>4, <3>7 DEF Conservation
  <2>2. CASE Drop
    <3> DEFINE p == published + 1
    <3>1. p \in Events /\ ~Held(p) /\ ~Queued(p) /\ fate[p] = "unpublished"
      BY <2>2, BusAssumption DEF Drop, Conservation, FateMatches, Events, TypeOK
    <3>2. \A n \in Events : fate'[n] = IF n = p THEN "dropped" ELSE fate[n]
      BY <2>2, <3>1 DEF Drop, TypeOK
    <3>3. \A n \in Events : (published' < n) <=> (published < n /\ n # p)
      BY <2>2, BusAssumption DEF Drop, TypeOK, Events
    <3>4. /\ QueueInOrder' /\ HandsDisjoint' /\ HandsMatchPc'
          /\ \A n \in Events : (Held(n)' <=> Held(n)) /\ (Queued(n)' <=> Queued(n))
      BY <2>2 DEF Drop, Conservation, QueueInOrder, HandsDisjoint, HandsMatchPc, Held, Queued
    <3>5. FateMatches'
      BY <3>1, <3>2, <3>3, <3>4 DEF Conservation, FateMatches
    <3> QED BY <3>4, <3>5 DEF Conservation
  <2>3. CASE Start
    BY <2>3, Kinds, Untouched DEF Start, Free, TypeOK
  <2>4. ASSUME NEW l \in Loops, LoopTake(l) PROVE Conservation'
    BY <2>4, Kinds, TakeConserves DEF LoopTake
  <2>5. ASSUME NEW l \in Loops, LoopReturn(l) PROVE Conservation'
    BY <2>5, Kinds, ReleaseConserves DEF LoopReturn, TypeOK
  <2>6. ASSUME NEW l \in Loops, LoopExit(l) PROVE Conservation'
    BY <2>6, Kinds, Untouched DEF LoopExit, TypeOK
  <2>7. ASSUME NEW c \in Consumers, NextSubscriber(c) PROVE Conservation'
    BY <2>7, Untouched DEF NextSubscriber
  <2>8. ASSUME NEW s \in Stoppers, Stop(s) PROVE Conservation'
    <3>0. s \in Consumers /\ s \notin Loops
      BY Kinds
    <3>1. CASE StopBegin(s)
      BY <3>0, <3>1, Untouched DEF StopBegin, TypeOK
    <3>2. CASE DrainTake(s)
      BY <3>0, <3>2, TakeConserves DEF DrainTake
    <3>3. CASE DrainEmpty(s)
      BY <3>0, <3>3, Untouched DEF DrainEmpty, TypeOK
    <3>4. CASE DrainReturnTake(s)
      <4> DEFINE old == holding[s]
                 new == Head(queue)
      <4>1. TypeOK /\ QueueInOrder /\ HandsDisjoint /\ HandsMatchPc /\ FateMatches
        BY DEF Conservation
      <4>2. /\ QueueInOrder' /\ new \in Events /\ Queued(new)
            /\ \A n \in Events : Queued(n)' <=> (Queued(n) /\ n # new)
        BY <3>4, <4>1, AfterGet DEF DrainReturnTake, Take
      <4>3. old \in Events /\ Held(old) /\ ~Held(new) /\ ~Queued(old) /\ old # new
        BY <3>0, <3>4, <4>1, <4>2 DEF DrainReturnTake, HandsMatchPc, FateMatches, TypeOK, Held
      <4>4. /\ HandsDisjoint'
            /\ \A n \in Events : Held(n)' <=> (n = new \/ (Held(n) /\ n # old))
        BY <3>0, <3>4, <4>1, <4>2, <4>3, AfterHand DEF DrainReturnTake, Take
      <4>5. HandsMatchPc'
        BY <3>0, <3>4, <4>1, <4>2, BusAssumption
           DEF DrainReturnTake, Take, HandsMatchPc, TypeOK, Events, Nothing
      <4>6. \A n \in Events : fate'[n] = IF n = new THEN "held" ELSE IF n = old THEN "done" ELSE fate[n]
        BY <3>4, <4>1, <4>2, <4>3 DEF DrainReturnTake, TypeOK
      <4>7. published' = published
        BY <3>4 DEF DrainReturnTake
      <4>8. FateMatches'
        BY <4>1, <4>2, <4>3, <4>4, <4>6, <4>7 DEF FateMatches
      <4> QED BY <4>2, <4>4, <4>5, <4>8 DEF Conservation
    <3>5. CASE DrainReturnLast(s)
      BY <3>0, <3>5, ReleaseConserves DEF DrainReturnLast, TypeOK
    <3>6. CASE DrainTimeout(s)
      BY <3>0, <3>6, ReleaseConserves DEF DrainTimeout, TypeOK
    <3>7. CASE Cancel(s)
      <4>1. task \in Loops /\ task \in Consumers
        BY <3>7, Kinds DEF Cancel, TypeOK
      <4>2. /\ pc'[task] = "exited" /\ pc'[s] = "joining" /\ pc[s] = "drained"
            /\ \A c \in Consumers : c # task /\ c # s => pc'[c] = pc[c]
        BY <3>0, <3>7, <4>1 DEF Cancel, TypeOK
      <4>3. CASE holding[task] = Nothing
        <5>1. holding' = holding /\ fate' = fate
          BY <3>7, <4>3 DEF Cancel, TypeOK
        <5>2. pc[task] # "handling"
          BY <4>1, <4>3 DEF Conservation, HandsMatchPc
        <5> QED BY <3>7, <4>2, <5>1, <5>2, Untouched DEF Cancel
      <4>4. CASE holding[task] # Nothing
        <5>1. pc[task] = "handling"
          BY <4>1, <4>4 DEF Conservation, HandsMatchPc
        <5>2. \A c \in Consumers : (pc'[c] = "handling") <=> (c # task /\ pc[c] = "handling")
          BY <4>2
        <5> QED BY <3>7, <4>1, <4>4, <5>1, <5>2, ReleaseConserves DEF Cancel
      <4> QED BY <4>3, <4>4
    <3>8. CASE CancelNone(s)
      BY <3>0, <3>8, Untouched DEF CancelNone, TypeOK
    <3>9. CASE Join(s)
      BY <3>0, <3>9, Untouched DEF Join, TypeOK
    <3> QED BY <2>8, <3>1, <3>2, <3>3, <3>4, <3>5, <3>6, <3>7, <3>8, <3>9 DEF Stop
  <2>10. CASE UNCHANGED vars
    BY <2>10, Untouched DEF vars
  <2> QED
    BY <2>1, <2>2, <2>3, <2>4, <2>5, <2>6, <2>7, <2>8, <2>10 DEF Next, Publish
<1>3. StartedHasTask' /\ JoinedHasEnded'
  <2> USE Kinds DEF BusInv, TypeOK, StartedHasTask, JoinedHasEnded, Joining, life
  <2>1. CASE Publish \/ UNCHANGED vars
    BY <2>1 DEF Publish, Accept, Drop, vars
  <2>2. CASE Start
    BY <2>2 DEF Start, Free
  <2>3. ASSUME NEW l \in Loops, LoopTake(l) \/ LoopReturn(l) \/ LoopExit(l)
        PROVE  StartedHasTask' /\ JoinedHasEnded'
    BY <2>3 DEF LoopTake, LoopReturn, LoopExit
  <2>4. ASSUME NEW c \in Consumers, NextSubscriber(c)
        PROVE  StartedHasTask' /\ JoinedHasEnded'
    BY <2>4 DEF NextSubscriber
  <2>5. ASSUME NEW s \in Stoppers, Stop(s)
        PROVE  StartedHasTask' /\ JoinedHasEnded'
    <3>1. CASE StopBegin(s) \/ DrainTake(s) \/ DrainEmpty(s) \/ DrainReturnTake(s)
               \/ DrainReturnLast(s) \/ DrainTimeout(s) \/ CancelNone(s)
      BY <3>1 DEF StopBegin, DrainTake, DrainEmpty, DrainReturnTake, DrainReturnLast,
                  DrainTimeout, CancelNone
    <3>2. CASE Cancel(s)
      BY <3>2 DEF Cancel
    <3>3. CASE Join(s)
      BY <3>3 DEF Join
    <3> QED BY <2>5, <3>1, <3>2, <3>3 DEF Stop
  <2> QED BY <2>1, <2>2, <2>3, <2>4, <2>5 DEF Next
<1> QED BY <1>1, <1>2, <1>3 DEF BusInv

(* No event is lost silently or dispatched twice, whatever the queue size  *)
(* and however many stop() calls drain beside the dispatch loop.           *)
THEOREM EventsConserved == Spec => []BusInv
<1> QED BY InvInit, InvStep, PTL DEF Spec

-----------------------------------------------------------------------------
(* Who owns a dispatch task that runs.  A stop() that is still to wake up  *)
(* either awaits the task it will let go of, or that one is late.          *)
JoiningKnows == \A s \in Joining : task \in {NoTask, awaits[s]} \cup late
OwnInv == BusInv /\ LoopsOwned /\ JoiningKnows

(* The stop() actions that move no task but their own.                     *)
OwnStopStep(s) == \/ StopBegin(s) \/ DrainTake(s) \/ DrainEmpty(s) \/ DrainReturnTake(s)
                  \/ DrainReturnLast(s) \/ DrainTimeout(s) \/ CancelNone(s)

LEMMA OwnStopMoves ==
  ASSUME BusInv, NEW s \in Stoppers, OwnStopStep(s)
  PROVE  /\ UNCHANGED life
         /\ \A c \in Consumers \ {s} : pc'[c] = pc[c]
         /\ pc'[s] # "joining"
<1> USE Kinds DEF BusInv, TypeOK, life
<1>1. CASE StopBegin(s) \/ DrainTake(s) \/ DrainEmpty(s) \/ DrainReturnTake(s)
  BY <1>1 DEF StopBegin, DrainTake, DrainEmpty, DrainReturnTake
<1>2. CASE DrainReturnLast(s) \/ DrainTimeout(s) \/ CancelNone(s)
  BY <1>2 DEF DrainReturnLast, DrainTimeout, CancelNone
<1> QED BY <1>1, <1>2 DEF OwnStopStep

LEMMA OwnStep == OwnInv /\ [Next]_vars => OwnInv'
<1> SUFFICES ASSUME OwnInv, [Next]_vars PROVE LoopsOwned' /\ JoiningKnows'
  BY InvStep DEF OwnInv
<1> USE Kinds DEF OwnInv, BusInv, TypeOK, LoopsOwned, Alive, JoiningKnows, Joining, life
<1>1. CASE Publish \/ UNCHANGED vars \/ \E c \in Consumers : NextSubscriber(c)
  BY <1>1 DEF Publish, Accept, Drop, NextSubscriber, vars
<1>2. CASE Start
  <2>1. task = NoTask
    BY <1>2 DEF Start, StartedHasTask
  <2> QED BY <1>2, <2>1 DEF Start
<1>3. ASSUME NEW l \in Loops, LoopTake(l) \/ LoopReturn(l) \/ LoopExit(l)
      PROVE  LoopsOwned' /\ JoiningKnows'
  BY <1>3 DEF LoopTake, LoopReturn, LoopExit
<1>4. ASSUME NEW s \in Stoppers, Stop(s) PROVE LoopsOwned' /\ JoiningKnows'
  <2>1. CASE OwnStopStep(s)
    BY <2>1, OwnStopMoves
  <2>2. CASE Cancel(s)
    BY <2>2 DEF Cancel
  <2>3. CASE Join(s)
    <3>1. awaits[s] \in Loops /\ pc[awaits[s]] = "exited"
      BY <2>3 DEF Join, JoinedHasEnded
    <3> QED BY <2>3, <3>1 DEF Join
  <2> QED BY <1>4, <2>1, <2>2, <2>3 DEF Stop, OwnStopStep
<1> QED BY <1>1, <1>2, <1>3, <1>4 DEF Next

(* A dispatch task runs only while the runtime owns it, unless a start()   *)
(* created it while a stop() that had waited for an earlier one was still  *)
(* to wake up (stop(), start()).                                           *)
THEOREM NoLoopLeftBehind == Spec => []LoopsOwned
<1>1. Init => OwnInv
  BY InvInit, Kinds DEF Init, OwnInv, LoopsOwned, Alive, JoiningKnows, Joining
<1>2. OwnInv => LoopsOwned
  BY DEF OwnInv
<1> QED BY OwnStep, <1>1, <1>2, PTL DEF Spec

(* What a caller sees of stop(): the runtime that says it is stopped runs  *)
(* no dispatch task.                                                       *)
QuietWhenStopped == ~started => \A l \in Loops : ~Alive(l)
SoloInv == OwnInv /\ late = {} /\ \A s \in Joining : started

(* Where one task alone calls stop(), as the async context manager of      *)
(* runtime.py does, a stopped runtime runs no dispatch task; with two it   *)
(* may.                                                                    *)
THEOREM SoloStopQuiet ==
  ASSUME \A s, t \in Stoppers : s = t
  PROVE  Spec => []QuietWhenStopped
<1>1. Init => SoloInv
  BY InvInit, Kinds DEF Init, SoloInv, OwnInv, LoopsOwned, Alive, JoiningKnows, Joining
<1>2. SoloInv /\ [Next]_vars => SoloInv'
  <2> SUFFICES ASSUME SoloInv, [Next]_vars
               PROVE  late' = {} /\ \A s \in Joining' : started'
    BY OwnStep DEF SoloInv
  <2> USE Kinds DEF SoloInv, OwnInv, BusInv, TypeOK, Joining, life
  <2>1. CASE Publish \/ UNCHANGED vars \/ \E c \in Consumers : NextSubscriber(c)
    BY <2>1 DEF Publish, Accept, Drop, NextSubscriber, vars
  <2>2. CASE Start
    BY <2>2 DEF Start
  <2>3. ASSUME NEW l \in Loops, LoopTake(l) \/ LoopReturn(l) \/ LoopExit(l)
        PROVE  late' = {} /\ \A s \in Joining' : started'
    BY <2>3 DEF LoopTake, LoopReturn, LoopExit
  <2>4. ASSUME NEW s \in Stoppers, Stop(s)
        PROVE  late' = {} /\ \A t \in Joining' : started'
    <3>1. CASE OwnStopStep(s)
      BY <3>1, OwnStopMoves
    <3>2. CASE Cancel(s)
      BY <3>2 DEF Cancel, StartedHasTask
    <3>3. CASE Join(s)
      BY <3>3 DEF Join
    <3> QED BY <2>4, <3>1, <3>2, <3>3 DEF Stop, OwnStopStep
  <2> QED BY <2>1, <2>2, <2>3, <2>4 DEF Next
<1>3. SoloInv => QuietWhenStopped
  BY Kinds DEF SoloInv, OwnInv, BusInv, StartedHasTask, LoopsOwned, QuietWhenStopped
<1> QED BY <1>1, <1>2, <1>3, PTL DEF Spec

-----------------------------------------------------------------------------
(* TelemetryBus implements EventDelivery. *)

(* The event a task takes is the oldest one queued. *)
LEMMA TakesOldest ==
  ASSUME BusInv, queue # << >>
  PROVE  /\ Head(queue) \in Events
         /\ Delivery!Oldest(Head(queue))
<1>1. /\ Head(queue) \in Events
      /\ Queued(Head(queue))
      /\ \A n \in Events : Queued(n) => Head(queue) <= n
  <2>2. /\ queue \in Seq(Events)
        /\ Len(queue) \in Nat /\ Len(queue) > 0
        /\ Head(queue) = queue[1] /\ Head(queue) \in Events
        /\ \A i \in 1..Len(queue) : queue[i] \in Events
    BY QueueFacts DEF BusInv, TypeOK
  <2>3. \A i \in 1..Len(queue) : i # 1 => queue[1] < queue[i]
    BY <2>2 DEF BusInv, Conservation, QueueInOrder
  <2> QED BY <2>2, <2>3 DEF Queued, Events
<1>2. \A m \in 1..(Head(queue) - 1) : m \in Events /\ fate[m] # "queued"
  BY <1>1, BusAssumption DEF BusInv, Conservation, FateMatches, Events
<1> QED BY <1>1, <1>2 DEF Delivery!Oldest, BusInv, Conservation, FateMatches

LEMMA DeliveryInit == Init => Delivery!Init
  BY DEF Init, Delivery!Init, Delivery!Events, Events

LEMMA DeliveryStep == BusInv /\ [Next]_vars => [Delivery!Next]_fate
<1> SUFFICES ASSUME BusInv, [Next]_vars PROVE Delivery!Next \/ fate' = fate
  OBVIOUS
<1> USE DEF Delivery!Events, Events
<1>1. CASE Publish
  <2> DEFINE p == published + 1
  <2>1. p \in Events /\ fate[p] = "unpublished" /\ \A m \in 1..(p - 1) : fate[m] # "unpublished"
    BY <1>1, BusAssumption DEF Publish, Accept, Drop, BusInv, TypeOK, Conservation, FateMatches
  <2>2. Delivery!Accept(p) \/ Delivery!Refuse(p)
    BY <1>1, <2>1 DEF Publish, Accept, Drop, Delivery!Accept, Delivery!Refuse,
                      Delivery!Becomes, Delivery!Published
  <2> QED BY <2>1, <2>2 DEF Delivery!Next
<1>2. ASSUME queue # << >>, fate' = [fate EXCEPT ![Head(queue)] = "held"]
      PROVE  Delivery!Next
  <2>1. Head(queue) \in Events /\ Delivery!Oldest(Head(queue))
    BY <1>2, TakesOldest
  <2>2. Delivery!HandOff(Head(queue))
    BY <1>2, <2>1 DEF Delivery!HandOff, Delivery!Becomes, Delivery!Oldest
  <2> QED BY <2>1, <2>2 DEF Delivery!Next
<1>3. ASSUME NEW c \in Consumers, pc[c] = "handling"
      PROVE  holding[c] \in Events /\ fate[holding[c]] = "held"
  BY <1>3 DEF BusInv, TypeOK, Conservation, HandsMatchPc, FateMatches, Held
<1>4. ASSUME NEW c \in Consumers, pc[c] = "handling", NEW f \in {"done", "cancelled"},
             fate' = [fate EXCEPT ![holding[c]] = f]
      PROVE  Delivery!Next
  <2>1. Delivery!Finish(holding[c]) \/ Delivery!Abandon(holding[c])
    BY <1>3, <1>4 DEF Delivery!Finish, Delivery!Abandon, Delivery!Becomes
  <2> QED BY <1>3, <1>4, <2>1 DEF Delivery!Next
<1>5. ASSUME NEW l \in Loops, LoopTake(l) PROVE Delivery!Next
  BY <1>2, <1>5 DEF LoopTake, Take
<1>6. ASSUME NEW l \in Loops, LoopReturn(l) PROVE Delivery!Next
  BY <1>4, <1>6, Kinds DEF LoopReturn
<1>7. ASSUME NEW s \in Stoppers, Stop(s) PROVE Delivery!Next \/ fate' = fate
  <2>0. s \in Consumers
    BY Kinds
  <2>1. CASE DrainTake(s)
    BY <1>2, <2>1 DEF DrainTake, Take
  <2>2. CASE DrainReturnTake(s)
    <3>1. queue # << >> /\ fate' = [fate EXCEPT ![holding[s]] = "done", ![Head(queue)] = "held"]
      BY <2>2 DEF DrainReturnTake, Take
    <3>2. Head(queue) \in Events /\ Delivery!Oldest(Head(queue))
      BY <3>1, TakesOldest
    <3>3. holding[s] \in Events /\ fate[holding[s]] = "held"
      BY <1>3, <2>0, <2>2 DEF DrainReturnTake
    <3>4. Delivery!FinishAndHandOff(holding[s], Head(queue))
      BY <3>1, <3>2, <3>3 DEF Delivery!FinishAndHandOff
    <3> QED BY <3>2, <3>3, <3>4 DEF Delivery!Next
  <2>3. CASE DrainReturnLast(s) \/ DrainTimeout(s)
    BY <1>4, <2>0, <2>3 DEF DrainReturnLast, DrainTimeout
  <2>4. CASE Cancel(s)
    <3>0. task \in Consumers
      BY <2>4, Kinds DEF Cancel, BusInv, TypeOK
    <3>1. CASE holding[task] = Nothing
      BY <2>4, <3>1 DEF Cancel
    <3>2. CASE holding[task] # Nothing
      <4>1. pc[task] = "handling"
        BY <3>0, <3>2 DEF BusInv, Conservation, HandsMatchPc
      <4> QED BY <1>4, <2>4, <3>0, <3>2, <4>1 DEF Cancel
    <3> QED BY <3>1, <3>2
  <2>5. CASE StopBegin(s) \/ DrainEmpty(s) \/ CancelNone(s) \/ Join(s)
    BY <2>5 DEF StopBegin, DrainEmpty, CancelNone, Join
  <2> QED BY <1>7, <2>1, <2>2, <2>3, <2>4, <2>5 DEF Stop
<1>8. CASE \/ Start \/ (\E l \in Loops : LoopExit(l))
           \/ (\E c \in Consumers : NextSubscriber(c)) \/ UNCHANGED vars
  BY <1>8 DEF Start, LoopExit, NextSubscriber, vars
<1> QED BY <1>1, <1>5, <1>6, <1>7, <1>8 DEF Next

(* Every behaviour of the plane is one EventDelivery allows: each event    *)
(* accepted is handed on at most once, oldest first, and its end is final. *)
THEOREM DeliveryImplemented == Spec => Delivers
<1> QED BY InvInit, InvStep, DeliveryInit, DeliveryStep, PTL DEF Spec, Delivers, Delivery!Spec

-----------------------------------------------------------------------------
(* stop() and the order of events: both rest on what is queued being newer *)
(* than all that was ever taken.                                           *)
Taken    == {"held", "done", "cancelled"}
FifoTaken == \A m, n \in Events : m < n /\ fate[m] = "queued" => fate[n] \notin Taken
MarkSeen  == \A s \in Stoppers : mark[s] <= published
(* What makes order inductive: once every stop() has returned, a runtime   *)
(* that is started is running, so a task that is not its own does not end. *)
RunsWhenStarted == started /\ (\A s \in Stoppers : pc[s] = "idle") => running
DrainInv  == /\ BusInv /\ FifoTaken /\ MarkSeen /\ StopDrains
             /\ RunsWhenStarted /\ OrderedWhileRunning

LEMMA DrainInit == Init => DrainInv
<1> SUFFICES ASSUME Init PROVE DrainInv
  OBVIOUS
<1>1. BusInv
  BY InvInit
<1>2. \A n \in Events : fate[n] = "unpublished"
  BY DEF Init
<1>3. FifoTaken /\ OrderedWhileRunning
  BY <1>2 DEF FifoTaken, OrderedWhileRunning, Taken
<1>4. MarkSeen
  BY DEF Init, MarkSeen
<1>5. StopDrains /\ RunsWhenStarted
  BY Kinds DEF Init, StopDrains, RunsWhenStarted
<1> QED BY <1>1, <1>3, <1>4, <1>5 DEF DrainInv

(* How one step may change fates, as far as order is concerned. *)
LEMMA FateChanges ==
  ASSUME BusInv, [Next]_vars
  PROVE  /\ \A n \in Events : fate'[n] = "queued" => fate[n] = "queued" \/ (n = published + 1 /\ published' = n)
         /\ \A n \in Events : fate'[n] \in Taken => fate[n] \in Taken \/ (queue # << >> /\ n = Head(queue))
         /\ \A n \in Events : n = Head(queue) /\ queue # << >> =>
              fate[n] = "queued" /\ \A m \in Events : m < n => fate[m] # "queued"
         /\ published <= published'
<1> USE DEF BusInv, TypeOK
<1>1. \A n \in Events : n = Head(queue) /\ queue # << >> =>
        fate[n] = "queued" /\ \A m \in Events : m < n => fate[m] # "queued"
  BY TakesOldest DEF Delivery!Oldest, Events
<1>2. published <= published'
  BY DEF Next, Publish, Accept, Drop, Start, LoopTake, LoopReturn, LoopExit, NextSubscriber, Stop,
         StopBegin, DrainTake, DrainEmpty, DrainReturnTake, DrainReturnLast, DrainTimeout,
         Cancel, CancelNone, Join, life, vars
<1>3. \A c \in Consumers : pc[c] = "handling" => holding[c] \in Events /\ fate[holding[c]] = "held"
  BY DEF Conservation, HandsMatchPc, FateMatches, Held
<1>4. ASSUME NEW n \in Events
      PROVE  /\ fate'[n] = "queued" => fate[n] = "queued" \/ (n = published + 1 /\ published' = n)
             /\ fate'[n] \in Taken => fate[n] \in Taken \/ (queue # << >> /\ n = Head(queue))
  <2> USE DEF Taken
  <2>1. CASE Publish
    BY <2>1 DEF Publish, Accept, Drop
  <2>2. ASSUME NEW l \in Loops, LoopTake(l) \/ LoopReturn(l)
        PROVE  /\ fate'[n] = "queued" => fate[n] = "queued"
               /\ fate'[n] \in Taken => fate[n] \in Taken \/ (queue # << >> /\ n = Head(queue))
    BY <1>3, <2>2, Kinds DEF LoopTake, LoopReturn, Take
  <2>3. ASSUME NEW s \in Stoppers, Stop(s)
        PROVE  /\ fate'[n] = "queued" => fate[n] = "queued"
               /\ fate'[n] \in Taken => fate[n] \in Taken \/ (queue # << >> /\ n = Head(queue))
    <3>1. CASE DrainTake(s) \/ DrainReturnTake(s)
      BY <1>3, <3>1 DEF DrainTake, DrainReturnTake, Take, Consumers
    <3>2. CASE DrainReturnLast(s) \/ DrainTimeout(s)
      BY <1>3, <3>2 DEF DrainReturnLast, DrainTimeout, Consumers
    <3>3. CASE Cancel(s)
      <4>1. task \in Consumers /\ (holding[task] # Nothing => pc[task] = "handling")
        BY <3>3, Kinds DEF Cancel, Conservation, HandsMatchPc
      <4> QED BY <1>3, <3>3, <4>1 DEF Cancel
    <3>4. CASE StopBegin(s) \/ DrainEmpty(s) \/ CancelNone(s) \/ Join(s)
      BY <3>4 DEF StopBegin, DrainEmpty, CancelNone, Join
    <3> QED BY <2>3, <3>1, <3>2, <3>3, <3>4 DEF Stop
  <2>4. CASE \/ Start \/ (\E l \in Loops : LoopExit(l))
             \/ (\E c \in Consumers : NextSubscriber(c)) \/ UNCHANGED vars
    BY <2>4 DEF Start, LoopExit, NextSubscriber, vars
  <2> QED BY <2>1, <2>2, <2>3, <2>4 DEF Next
<1> QED BY <1>1, <1>2, <1>4

(* A stop() is back where it began only once it has woken up.              *)
LEMMA StopEndsIdle ==
  ASSUME BusInv, NEW s \in Stoppers, Stop(s), pc'[s] = "idle"
  PROVE  Join(s)
<1> USE Kinds DEF BusInv, TypeOK
<1>1. CASE StopBegin(s) \/ DrainTake(s) \/ DrainEmpty(s) \/ DrainReturnTake(s)
  BY <1>1 DEF StopBegin, DrainTake, DrainEmpty, DrainReturnTake
<1>2. CASE DrainReturnLast(s) \/ DrainTimeout(s) \/ CancelNone(s)
  BY <1>2 DEF DrainReturnLast, DrainTimeout, CancelNone
<1>3. CASE Cancel(s)
  BY <1>3 DEF Cancel
<1> QED BY <1>1, <1>2, <1>3 DEF Stop

LEMMA DrainStep == DrainInv /\ [Next]_vars => DrainInv'
<1> SUFFICES ASSUME DrainInv, [Next]_vars PROVE DrainInv'
  OBVIOUS
<1>0. /\ BusInv /\ BusInv' /\ FifoTaken /\ MarkSeen /\ StopDrains
      /\ RunsWhenStarted /\ OrderedWhileRunning
  BY InvStep DEF DrainInv
<1>1. TypeOK /\ TypeOK'
  BY <1>0 DEF BusInv
<1>2. FifoTaken'
  <2> SUFFICES ASSUME NEW m \in Events, NEW n \in Events, m < n,
                      fate'[m] = "queued", fate'[n] \in Taken
               PROVE  FALSE
    BY DEF FifoTaken, Taken
  <2>1. CASE fate[m] = "queued"
    BY <1>0, <2>1, FateChanges DEF FifoTaken
  <2>2. CASE fate[m] # "queued"
    <3>1. published' = m
      BY <1>0, <2>2, FateChanges
    <3>2. fate'[n] = "unpublished"
      BY <1>0, <3>1 DEF BusInv, Conservation, FateMatches
    <3> QED BY <3>2 DEF Taken
  <2> QED BY <2>1, <2>2
<1>3. MarkSeen'
  <2>1. mark' = mark \/ \E s \in Stoppers : mark' = [mark EXCEPT ![s] = published]
    BY DEF Next, Publish, Accept, Drop, Start, LoopTake, LoopReturn, LoopExit, NextSubscriber, Stop,
         StopBegin, DrainTake, DrainEmpty, DrainReturnTake, DrainReturnLast, DrainTimeout,
         Cancel, CancelNone, Join, life, vars
  <2>2. published <= published' /\ published \in Nat /\ published' \in Nat
    BY <1>0, <1>1, FateChanges DEF TypeOK
  <2>3. ASSUME NEW t \in Stoppers PROVE mark'[t] <= published'
    <3>1. mark'[t] = mark[t] \/ mark'[t] = published
      BY <1>1, <2>1 DEF TypeOK
    <3>2. mark[t] <= published /\ mark[t] \in Nat
      BY <1>0, <1>1 DEF MarkSeen, TypeOK
    <3> QED BY <2>2, <3>1, <3>2
  <2> QED BY <2>3 DEF MarkSeen
<1>4. StopDrains'
  <2> SUFFICES ASSUME NEW s \in Stoppers, pc'[s] \in {"drained", "joining"}, ~timedOut'[s],
                      NEW n \in 1..mark'[s], fate'[n] = "queued"
               PROVE  FALSE
    BY DEF StopDrains
  <2>0. s \in Consumers /\ s \notin Loops
    BY Kinds
  <2>1. /\ mark'[s] = mark[s]
        /\ (pc[s] \in {"drained", "joining"} /\ ~timedOut[s]) \/ queue = << >>
    <3> USE <1>1, <2>0 DEF TypeOK
    <3>1. CASE Publish \/ Start \/ (\E c \in Consumers : NextSubscriber(c)) \/ UNCHANGED vars
      BY <3>1 DEF Publish, Accept, Drop, Start, NextSubscriber, vars
    <3>2. ASSUME NEW l \in Loops, LoopTake(l) \/ LoopReturn(l) \/ LoopExit(l)
          PROVE  mark' = mark /\ timedOut' = timedOut /\ pc'[s] = pc[s]
      BY <3>2 DEF LoopTake, LoopReturn, LoopExit
    <3>3. ASSUME NEW z \in Stoppers, Stop(z)
          PROVE  /\ mark'[s] = mark[s]
                 /\ (pc[s] \in {"drained", "joining"} /\ ~timedOut[s]) \/ queue = << >>
      <4>0. z \in Consumers /\ z \notin Loops
        BY Kinds
      <4>1. CASE StopBegin(z)
        BY <4>0, <4>1 DEF StopBegin
      <4>2. CASE DrainTake(z) \/ DrainReturnTake(z)
        BY <4>0, <4>2 DEF DrainTake, DrainReturnTake
      <4>3. CASE DrainEmpty(z) \/ DrainReturnLast(z)
        BY <4>0, <4>3 DEF DrainEmpty, DrainReturnLast
      <4>4. CASE DrainTimeout(z)
        BY <4>0, <4>4 DEF DrainTimeout
      <4>5. CASE Cancel(z) \/ CancelNone(z)
        BY <4>0, <4>5, Kinds DEF Cancel, CancelNone
      <4>6. CASE Join(z)
        BY <4>0, <4>6 DEF Join
      <4> QED BY <3>3, <4>1, <4>2, <4>3, <4>4, <4>5, <4>6 DEF Stop
    <3> QED BY <3>1, <3>2, <3>3 DEF Next
  <2>2. n \in Events /\ n <= published
    BY <1>0, <1>1, <2>1, BusAssumption DEF MarkSeen, TypeOK, Events
  <2>3. fate[n] = "queued"
    BY <1>0, <1>1, <2>2, FateChanges DEF TypeOK
  <2>4. queue # << >>
    BY <1>0, <2>2, <2>3 DEF BusInv, Conservation, FateMatches, Queued
  <2> QED BY <1>0, <2>1, <2>3, <2>4 DEF StopDrains
<1>5. RunsWhenStarted'
  <2> SUFFICES ASSUME started', \A s \in Stoppers : pc'[s] = "idle" PROVE running'
    BY DEF RunsWhenStarted
  <2> USE <1>0, <1>1, Kinds DEF TypeOK, RunsWhenStarted, life
  <2>1. CASE Publish \/ (\E c \in Consumers : NextSubscriber(c)) \/ UNCHANGED vars
    BY <2>1 DEF Publish, Accept, Drop, NextSubscriber, vars
  <2>2. CASE Start
    BY <2>2 DEF Start
  <2>3. ASSUME NEW l \in Loops, LoopTake(l) \/ LoopReturn(l) \/ LoopExit(l) PROVE running'
    BY <2>3 DEF LoopTake, LoopReturn, LoopExit
  <2>4. ASSUME NEW s \in Stoppers, Stop(s) PROVE FALSE
    BY <2>4, StopEndsIdle DEF Join
  <2> QED BY <2>1, <2>2, <2>3, <2>4 DEF Next
<1>6. OrderedWhileRunning'
  <2> SUFFICES ASSUME \A s \in Stoppers : pc'[s] = "idle",
                      \A l \in Loops : pc'[l] # "exited" => l = task',
                      NEW m \in Events, NEW n \in Events, m < n,
                      fate'[m] \in {"queued", "held"}, fate'[n] \in Taken
               PROVE  FALSE
    BY DEF OrderedWhileRunning, Alive, Taken
  <2>1. fate'[m] = "held"
    BY <1>2 DEF FifoTaken
  <2>2. task' \in Loops /\ pc'[task'] = "handling"
    <3>1. Held(m)'
      BY <1>0, <2>1 DEF BusInv, Conservation, FateMatches
    <3>2. PICK c \in Consumers : holding'[c] = m
      BY <3>1 DEF Held
    <3>3. pc'[c] = "handling"
      BY <1>0, <3>2, BusAssumption DEF BusInv, Conservation, HandsMatchPc, Events, Nothing
    <3> QED BY <3>3 DEF Consumers
  <2>3. started'
    BY <1>0, <2>2, Kinds DEF BusInv, StartedHasTask
  <2> USE <1>1, Kinds DEF TypeOK, life
  <2>4. ASSUME NEW l \in Loops, LoopTake(l) PROVE FALSE
    <3>1. /\ \A s \in Stoppers : pc[s] = "idle"
          /\ l = task /\ pc[l] = "waiting" /\ \A k \in Loops : k # l => pc[k] = "exited"
      BY <2>4 DEF LoopTake
    <3>2. ASSUME NEW k \in Events PROVE fate[k] # "held"
      <4>1. \A c \in Consumers : pc[c] # "handling"
        BY <3>1 DEF Consumers
      <4>2. ~Held(k)
        BY <1>0, <4>1, BusAssumption DEF BusInv, Conservation, HandsMatchPc, Held, Events, Nothing
      <4> QED BY <1>0, <4>2 DEF BusInv, Conservation, FateMatches
    <3>3. m = Head(queue) /\ fate[m] = "queued"
      BY <1>0, <2>1, <2>4, <3>2, FateChanges DEF LoopTake, Take
    <3>4. fate[n] \in Taken
      BY <2>4, <3>3 DEF LoopTake, Events
    <3> QED BY <1>0, <3>3, <3>4 DEF FifoTaken
  <2>5. CASE Publish \/ (\E c \in Consumers : NextSubscriber(c)) \/ UNCHANGED vars
    <3>1. pc' = pc /\ task' = task
      BY <2>5 DEF Publish, Accept, Drop, NextSubscriber, vars
    <3>2. fate[m] = "held" /\ fate[n] \in Taken
      BY <2>1, <2>5 DEF Publish, Accept, Drop, NextSubscriber, vars, Taken
    <3> QED BY <1>0, <3>1, <3>2 DEF OrderedWhileRunning, Alive, Taken
  <2>6. CASE Start
    BY <2>2, <2>6 DEF Start
  <2>7. ASSUME NEW l \in Loops, LoopReturn(l) \/ LoopExit(l) PROVE FALSE
    <3>1. /\ \A s \in Stoppers : pc[s] = "idle"
          /\ task' = task /\ started' = started /\ running' = running
          /\ \A k \in Loops : k # l => pc'[k] = pc[k]
      BY <2>7 DEF LoopReturn, LoopExit
    <3>2. running
      BY <1>0, <2>3, <3>1 DEF RunsWhenStarted
    <3>3. LoopReturn(l) /\ pc'[l] = "waiting"
      BY <2>7, <3>2 DEF LoopReturn, LoopExit
    <3> QED BY <2>2, <3>3
  <2>8. ASSUME NEW s \in Stoppers, Stop(s) PROVE FALSE
    <3>1. Join(s)
      BY <1>0, <2>8, StopEndsIdle
    <3> QED BY <2>2, <3>1 DEF Join
  <2> QED BY <2>4, <2>5, <2>6, <2>7, <2>8 DEF Next
<1> QED BY <1>0, <1>2, <1>3, <1>4, <1>5, <1>6 DEF DrainInv

(* A stop() whose drain was not cut short leaves nothing queued of what    *)
(* had been accepted when it began.                                        *)
THEOREM StopDrainsQueue == Spec => []StopDrains
<1>1. DrainInv => StopDrains
  BY DEF DrainInv
<1> QED BY DrainInit, DrainStep, <1>1, PTL DEF Spec

(* While no stop() is under way and no dispatch task runs that the runtime *)
(* does not own, events reach the subscribers in the order they were       *)
(* published (_dispatch_loop).                                             *)
THEOREM DispatchOrdered == Spec => []OrderedWhileRunning
<1>1. DrainInv => OrderedWhileRunning
  BY DEF DrainInv
<1> QED BY DrainInit, DrainStep, <1>1, PTL DEF Spec

-----------------------------------------------------------------------------
(* The counters. *)
Accepted == {n \in Events : fate[n] \notin {"unpublished", "dropped"}}
Dropped  == {n \in Events : fate[n] = "dropped"}

LEMMA EventSetsFinite ==
  \A S \in SUBSET Events : IsFiniteSet(S) /\ Cardinality(S) \in Nat
<1>1. IsFiniteSet(Events)
  BY BusAssumption, FS_Interval DEF Events
<1> QED BY <1>1, FS_Subset, FS_CardinalityType

(* A step moves no event into or out of either set but the one it publishes. *)
LEMMA CountedSets ==
  ASSUME BusInv, [Next]_vars
  PROVE  \/ /\ Accept
            /\ published + 1 \notin Accepted /\ Accepted' = Accepted \cup {published + 1}
            /\ Dropped' = Dropped
         \/ /\ Drop
            /\ published + 1 \notin Dropped /\ Dropped' = Dropped \cup {published + 1}
            /\ Accepted' = Accepted
         \/ /\ UNCHANGED <<eventCount, dropCount>>
            /\ Accepted' = Accepted /\ Dropped' = Dropped
<1> DEFINE p == published + 1
<1> USE DEF BusInv, TypeOK
<1>1. CASE Accept
  <2>1. p \in Events /\ fate[p] = "unpublished"
    BY <1>1, BusAssumption DEF Accept, Conservation, FateMatches, Events
  <2>2. \A n \in Events : fate'[n] = IF n = p THEN "queued" ELSE fate[n]
    BY <1>1, <2>1 DEF Accept
  <2>3. p \notin Accepted /\ Accepted' = Accepted \cup {p} /\ Dropped' = Dropped
    BY <2>1, <2>2 DEF Accepted, Dropped
  <2> QED BY <1>1, <2>3
<1>2. CASE Drop
  <2>1. p \in Events /\ fate[p] = "unpublished"
    BY <1>2, BusAssumption DEF Drop, Conservation, FateMatches, Events
  <2>2. \A n \in Events : fate'[n] = IF n = p THEN "dropped" ELSE fate[n]
    BY <1>2, <2>1 DEF Drop
  <2>3. p \notin Dropped /\ Dropped' = Dropped \cup {p} /\ Accepted' = Accepted
    BY <2>1, <2>2 DEF Accepted, Dropped
  <2> QED BY <1>2, <2>3
<1>3. CASE ~Publish
  <2>1. UNCHANGED <<eventCount, dropCount>>
    BY <1>3 DEF Next, Start, LoopTake, LoopReturn, LoopExit, NextSubscriber, Stop,
         StopBegin, DrainTake, DrainEmpty, DrainReturnTake, DrainReturnLast, DrainTimeout,
         Cancel, CancelNone, Join, life, vars
  <2>2. \A n \in Events : \/ fate'[n] = fate[n]
                          \/ /\ fate[n] \in {"queued", "held"}
                             /\ fate'[n] \in {"held", "done", "cancelled"}
    <3>1. fate' = fate \/ Delivery!Next
      BY DeliveryStep
    <3>2. published' = published
      BY <1>3 DEF Next, Start, LoopTake, LoopReturn, LoopExit, NextSubscriber, Stop,
         StopBegin, DrainTake, DrainEmpty, DrainReturnTake, DrainReturnLast, DrainTimeout,
         Cancel, CancelNone, Join, life, vars
    <3>3. \A n \in Events : (fate[n] = "unpublished") <=> (fate'[n] = "unpublished")
      BY <3>2, InvStep DEF Conservation, FateMatches
    <3> QED BY <3>1, <3>3 DEF Delivery!Next, Delivery!Events, Events, Delivery!Accept,
              Delivery!Refuse, Delivery!HandOff, Delivery!Finish, Delivery!Abandon,
              Delivery!FinishAndHandOff, Delivery!Oldest, Delivery!Becomes, Fates
  <2>3. Accepted' = Accepted /\ Dropped' = Dropped
    BY <2>2 DEF Accepted, Dropped
  <2> QED BY <2>1, <2>3
<1> QED BY <1>1, <1>2, <1>3 DEF Publish

(* event_count and drop_count count exactly the events accepted and refused. *)
THEOREM CountersAreRight == Spec => []CountersMatch
<1>1. Init => CountersMatch
  <2> SUFFICES ASSUME Init PROVE CountersMatch
    OBVIOUS
  <2>1. Accepted = {} /\ Dropped = {}
    BY DEF Init, Accepted, Dropped
  <2> QED BY <2>1, FS_EmptySet DEF Init, CountersMatch, Accepted, Dropped
<1>2. BusInv /\ CountersMatch /\ [Next]_vars => CountersMatch'
  <2> SUFFICES ASSUME BusInv, CountersMatch, [Next]_vars PROVE CountersMatch'
    OBVIOUS
  <2>1. eventCount = Cardinality(Accepted) /\ dropCount = Cardinality(Dropped)
    BY DEF CountersMatch, Accepted, Dropped
  <2>2. \A S \in SUBSET Events, x \in Events :
          x \notin S => Cardinality(S \cup {x}) = Cardinality(S) + 1
    BY EventSetsFinite, FS_AddElement
  <2>3. Accepted \subseteq Events /\ Dropped \subseteq Events
    BY DEF Accepted, Dropped
  <2>4. eventCount' = Cardinality(Accepted') /\ dropCount' = Cardinality(Dropped')
    <3>1. Accept \/ Drop => published + 1 \in Events
      BY BusAssumption DEF Accept, Drop, BusInv, TypeOK, Events
    <3> QED BY <2>1, <2>2, <2>3, <3>1, CountedSets DEF Accept, Drop
  <2> QED BY <2>4 DEF CountersMatch, Accepted, Dropped
<1> QED BY InvInit, InvStep, <1>1, <1>2, PTL DEF Spec

-----------------------------------------------------------------------------
(* A stop() returns.  It goes through its stages one after the other, and  *)
(* nobody else moves it.                                                   *)

StopStages == {"draining", "handling", "drained", "joining"}

LEMMA StopStage ==
  ASSUME BusInv, [Next]_vars, NEW s \in Stoppers
  PROVE  /\ pc[s] = "draining" => pc'[s] \in {"draining", "handling", "drained"}
         /\ pc[s] = "handling" => pc'[s] \in {"handling", "drained"}
         /\ pc[s] = "drained" => pc'[s] \in {"drained", "joining", "failed"}
         /\ pc[s] = "joining" => pc'[s] \in {"joining", "idle"}
<1>0. s \in Consumers /\ s \notin Loops /\ pc = [c \in Consumers |-> pc[c]]
  BY Kinds DEF BusInv, TypeOK
<1>1. CASE Publish \/ Start \/ (\E c \in Consumers : NextSubscriber(c)) \/ UNCHANGED vars
  BY <1>0, <1>1 DEF Publish, Accept, Drop, Start, NextSubscriber, vars
<1>2. ASSUME NEW l \in Loops, LoopTake(l) \/ LoopReturn(l) \/ LoopExit(l)
      PROVE  pc'[s] = pc[s]
  BY <1>0, <1>2 DEF LoopTake, LoopReturn, LoopExit
<1>4. ASSUME NEW t \in Stoppers, Stop(t)
      PROVE  \/ pc'[s] = pc[s]
             \/ pc[s] = "idle"
             \/ pc[s] = "draining" /\ pc'[s] \in {"handling", "drained"}
             \/ pc[s] = "handling" /\ pc'[s] \in {"handling", "drained"}
             \/ pc[s] = "drained" /\ pc'[s] \in {"joining", "failed"}
             \/ pc[s] = "joining" /\ pc'[s] = "idle"
  <2>1. CASE StopBegin(t)
    BY <1>0, <2>1 DEF StopBegin
  <2>2. CASE DrainTake(t) \/ DrainEmpty(t)
    BY <1>0, <2>2 DEF DrainTake, DrainEmpty
  <2>3. CASE DrainReturnTake(t) \/ DrainReturnLast(t) \/ DrainTimeout(t)
    BY <1>0, <2>3 DEF DrainReturnTake, DrainReturnLast, DrainTimeout
  <2>4. CASE Cancel(t) \/ CancelNone(t)
    BY <1>0, <2>4 DEF Cancel, CancelNone, BusInv, TypeOK
  <2>5. CASE Join(t)
    BY <1>0, <2>5 DEF Join
  <2> QED BY <1>4, <2>1, <2>2, <2>3, <2>4, <2>5 DEF Stop
<1> QED BY <1>1, <1>2, <1>4 DEF Next

(* Its own turn brings it to a later stage, its task's end to "idle".      *)
LEMMA TurnMoves ==
  ASSUME BusInv, NEW s \in Stoppers
  PROVE  /\ <<StopTurn(s)>>_vars =>
              /\ pc[s] = "draining" => pc'[s] \in {"handling", "drained"}
              /\ pc[s] = "handling" => pc'[s] = "drained"
              /\ pc[s] = "drained" => pc'[s] \in {"joining", "failed"}
         /\ <<Join(s)>>_vars => (pc[s] = "joining" => pc'[s] = "idle")
<1>0. s \in Consumers /\ s \notin Loops /\ pc = [c \in Consumers |-> pc[c]]
  BY Kinds DEF BusInv, TypeOK
<1>1. ASSUME StopTurn(s)
      PROVE  /\ pc[s] = "draining" => pc'[s] \in {"handling", "drained"}
             /\ pc[s] = "handling" => pc'[s] = "drained"
             /\ pc[s] = "drained" => pc'[s] \in {"joining", "failed"}
  BY <1>0, <1>1 DEF StopTurn, DrainEmpty, DrainTake, DrainTimeout, Cancel, CancelNone
<1>2. Join(s) => (pc[s] = "joining" => pc'[s] = "idle")
  BY <1>0 DEF Join
<1> QED BY <1>1, <1>2

LEMMA FairToStop ==
  ASSUME NEW s \in Stoppers
  PROVE  FairSpec => Spec /\ WF_vars(StopTurn(s)) /\ WF_vars(Join(s))
<1>1. (\A t \in Stoppers : GoesOn(t)) => GoesOn(s)
  OBVIOUS
<1>2. FairSpec => GoesOn(s)
  BY <1>1, PTL DEF FairSpec
<1> QED BY <1>2, PTL DEF FairSpec, GoesOn

(* stop() returns, or raises, though every handler hangs and whatever the  *)
(* other stop()s, the publishers and start() do, for any number of them.   *)
(* The hypothesis is about ENABLED only.                                   *)
THEOREM StopsReturn == FairSpec /\ []StopNotBlocked => StopReturns
<1> SUFFICES ASSUME NEW s \in Stoppers
             PROVE  FairSpec /\ []StopNotBlocked
                      => (pc[s] # "idle" ~> pc[s] \in {"idle", "failed"})
  BY DEF StopReturns
<1> DEFINE Draining == pc[s] = "draining"
           Handling == pc[s] = "handling"
           Drained  == pc[s] = "drained"
           Awaiting == pc[s] = "joining"
           Returned == pc[s] \in {"idle", "failed"}
           Open     == ENABLED <<StopTurn(s)>>_vars
           Woken    == ENABLED <<Join(s)>>_vars
<1>1. FairSpec => Spec /\ WF_vars(StopTurn(s)) /\ WF_vars(Join(s))
  BY FairToStop, PTL
<1>2. StopNotBlocked => /\ Draining \/ Handling \/ Drained => Open
                        /\ Awaiting => Woken
  <2>1. StopNotBlocked => NotBlocked(s)
    BY DEF StopNotBlocked
  <2> QED BY <2>1 DEF NotBlocked
<1>3. BusInv => Draining \/ Handling \/ Drained \/ Awaiting \/ Returned
  BY DEF BusInv, TypeOK
<1>4. BusInv /\ [Next]_vars => /\ Draining => Draining' \/ Handling' \/ Drained'
                               /\ Handling => Handling' \/ Drained'
                               /\ Drained => Drained' \/ Awaiting' \/ Returned'
                               /\ Awaiting => Awaiting' \/ Returned'
  BY StopStage
<1>5. BusInv /\ <<StopTurn(s)>>_vars => /\ Draining => Handling' \/ Drained'
                                        /\ Handling => Drained'
                                        /\ Drained => Awaiting' \/ Returned'
  BY TurnMoves
<1>6. BusInv /\ <<Join(s)>>_vars => (Awaiting => Returned')
  BY TurnMoves
<1>7. Draining \/ Handling \/ Drained \/ Awaiting \/ Returned
        => /\ Draining => ~Handling /\ ~Drained /\ ~Awaiting
           /\ Handling => ~Drained /\ ~Awaiting
           /\ Drained => ~Awaiting
  OBVIOUS
<1>8. FairSpec /\ []StopNotBlocked => []<>Returned
  <2> HIDE DEF Draining, Handling, Drained, Awaiting, Returned
  <2> QED BY <1>1, <1>2, <1>3, <1>4, <1>5, <1>6, <1>7, EventsConserved, PTL DEF Spec
<1> QED BY <1>8, PTL
=============================================================================
