----------------------- MODULE EscalationEngineProofs -----------------------
(***************************************************************************)
(* Theorems about EscalationEngine, for all ranks, nodes and racks, every  *)
(* window and threshold, any number of overlapping calls, and every set of *)
(* layers that suspend or raise.                                           *)
(***************************************************************************)
EXTENDS EscalationEngine, FiniteSetTheorems, SequenceTheorems, WellFoundedInduction, TLAPS

-----------------------------------------------------------------------------
(* Lemmas about data. *)

LEMMA LeastExists ==
  ASSUME NEW S \in SUBSET Nat, S # {}
  PROVE  \E m \in S : \A n \in S : m <= n
<1>1. PICK m \in S : \A n \in S : ~(<<n, m>> \in OpToRel(<, Nat))
  BY WFMin, NatLessThanWellFounded
<1>2. \A n \in S : ~(n < m)
  BY <1>1 DEF OpToRel
<1> QED BY <1>2

LEMMA AppendFacts ==
  ASSUME NEW S, NEW q \in Seq(S), NEW x \in S
  PROVE  /\ Len(q) \in Nat
         /\ \A i \in 1..Len(q) : q[i] \in S
         /\ Append(q, x) \in Seq(S)
         /\ Len(Append(q, x)) = Len(q) + 1
         /\ \A i \in 1..Len(q) : Append(q, x)[i] = q[i]
         /\ Append(q, x)[Len(q) + 1] = x
  OBVIOUS

(* The classifier gives every signal a tier. *)
LEMMA ClassifyIsTier == \A e \in Faults : Classify(e) \in Tiers
<1> SUFFICES ASSUME NEW e \in Faults PROVE Classify(e) \in Tiers
  OBVIOUS
<1>1. e.signal \in DOMAIN TierOf
  BY EngineAssumption DEF FaultSignal, TelemetryEvent
<1>2. \A s \in DOMAIN TierOf : TierOf[s] \in 0..4
  BY DEF TierOf, B0, B1, B2, B3, B4
<1> QED BY <1>1, <1>2 DEF Classify, Tiers, B0, B4

(* Pruning the deque keeps it a deque of node failures. *)
LEMMA PrunedIsSeq ==
  ASSUME NEW S, NEW q \in Seq(S)
  PROVE  Pruned(q) \in Seq(S)
<1> DEFINE kept == {i \in 1..Len(q) : \E j \in 1..i : InWindow(q[j])}
           m == Len(q) - Cardinality(kept) + 1
<1>1. Len(q) \in Nat /\ \A i \in 1..Len(q) : q[i] \in S
  OBVIOUS
<1>2. IsFiniteSet(1..Len(q)) /\ Cardinality(1..Len(q)) = Len(q)
  <2> DEFINE l == Len(q)
  <2>1. l \in Nat
    BY <1>1
  <2> HIDE DEF l
  <2>2. IsFiniteSet(1..l) /\ Cardinality(1..l) = l
    BY <2>1, FS_Interval
  <2> QED BY <2>2 DEF l
<1>3. IsFiniteSet(kept) /\ Cardinality(kept) <= Len(q)
  <2>1. kept \in SUBSET (1..Len(q))
    OBVIOUS
  <2> QED BY <1>2, <2>1, FS_Subset
<1>4. Cardinality(kept) \in Nat
  BY <1>3, FS_CardinalityType
<1>5. m \in Int /\ m >= 1
  BY <1>1, <1>3, <1>4
<1> HIDE DEF m
<1>6. \A i \in m..Len(q) : q[i] \in S
  BY <1>1, <1>5
<1>7. SubSeq(q, m, Len(q)) \in Seq(S)
  BY <1>1, <1>5, <1>6, SubSeqProperties
<1> QED BY <1>7 DEF Pruned, m

(* The gate is none, or the least epoch the other ranks have reported. *)
LEMMA GateIsLeast ==
  ASSUME rankEpochs \in [Ranks -> 0..MaxFaults], NEW rank, NEW tier \in Tiers
  PROVE  /\ UrcGate(rank, tier) \in 0..MaxFaults
         /\ tier >= B2 =>
              /\ (UrcGate(rank, tier) = None) <=> (Survivors(rank) = {})
              /\ \A r \in Survivors(rank) : UrcGate(rank, tier) <= rankEpochs[r]
<1> DEFINE S == {rankEpochs[r] : r \in Survivors(rank)}
<1>1. MaxFaults \in Nat
  BY EngineAssumption
<1>2. CASE tier < B2 \/ Survivors(rank) = {}
  <2>1. UrcGate(rank, tier) = None
    BY <1>2 DEF UrcGate
  <2>2. tier >= B2 => Survivors(rank) = {}
    BY <1>2 DEF Tiers, B0, B2, B4
  <2> QED BY <2>1, <2>2, <1>1 DEF None
<1>3. CASE ~(tier < B2 \/ Survivors(rank) = {})
  <2>1. S \subseteq 1..MaxFaults /\ S # {}
    BY <1>3, <1>1 DEF Survivors, None
  <2> HIDE DEF S
  <2>a. S \in SUBSET Nat
    BY <2>1, <1>1
  <2>2. \E m \in S : \A n \in S : m <= n
    BY <2>1, <2>a, LeastExists
  <2> USE DEF S
  <2>3. \E m \in S : \A r \in Survivors(rank) : m <= rankEpochs[r]
    BY <2>2
  <2>4. UrcGate(rank, tier) = CHOOSE m \in S : \A r \in Survivors(rank) : m <= rankEpochs[r]
    BY <1>3 DEF UrcGate
  <2>5. UrcGate(rank, tier) \in S /\ \A r \in Survivors(rank) : UrcGate(rank, tier) <= rankEpochs[r]
    BY <2>3, <2>4
  <2> QED BY <2>5, <2>1, <1>1, <1>3 DEF None
<1> QED BY <1>2, <1>3

(* A handler lets go of its record, or takes one. *)
LEMMA FreeFacts ==
  ASSUME NEW h, Free(h)
  PROVE  /\ DOMAIN job' = DOMAIN job \ {h}
         /\ \A x \in DOMAIN job' : job'[x] = job[x]
  BY DEF Free

LEMMA HoldFacts ==
  ASSUME NEW h, NEW q, Hold(h, q)
  PROVE  /\ DOMAIN job' = DOMAIN job \cup {h}
         /\ job'[h] = q
         /\ \A x \in DOMAIN job : x # h => job'[x] = job[x]
  BY DEF Hold

(* A fault is opened at the tier the window left it. *)
LEMMA OpenedIsSound ==
  ASSUME TypeOK, NEW e \in Faults, NEW ep \in 1..MaxFaults
  PROVE  LET r == Opened(e, TierAfterWindow(e), ep) IN
           /\ r \in Records /\ RecordSound(r)
           /\ r.epoch = ep /\ r.final = r.original
<1>1. TierAfterWindow(e) \in Tiers
  BY ClassifyIsTier DEF TierAfterWindow, Tiers, B0, B4
<1>2. 0 \in 0..MaxFaults
  BY EngineAssumption
<1> QED BY <1>1, <1>2 DEF Opened, Records, RecordSound, None, Tiers, B0, B4

(* A layer that accepts at or above the record's tier makes the record no  *)
(* lower, and flags it exactly if it moved.                                *)
LEMMA AttemptIsSound ==
  ASSUME TypeOK, NEW r \in Records, RecordSound(r), NEW tier \in Tiers, tier >= r.final
  PROVE  LET q == Attempt(r, tier) IN
           /\ q \in Records /\ RecordSound(q)
           /\ q.epoch = r.epoch /\ q.event = r.event /\ q.final = tier
           /\ q.gate = UrcGate(r.event.rank, tier)
<1> DEFINE g == UrcGate(r.event.rank, tier)
<1>1. g \in 0..MaxFaults
  BY GateIsLeast DEF TypeOK
<1>2. r.original \in 0..4 /\ r.final \in 0..4 /\ tier \in 0..4 /\ r.escalated \in BOOLEAN
  BY DEF Records, Tiers, B0, B4
<1>3. r.final >= r.original /\ (r.escalated <=> r.final # r.original)
  BY DEF RecordSound
<1>4. tier >= r.original /\ (r.escalated \/ tier # r.original <=> tier # r.original)
  BY <1>2, <1>3
<1>5. Attempt(r, tier) = [r EXCEPT !.final = tier, !.escalated = @ \/ tier # r.original, !.gate = g]
  BY DEF Attempt
<1> HIDE DEF g
<1>6. /\ Attempt(r, tier) \in Records
      /\ Attempt(r, tier).epoch = r.epoch /\ Attempt(r, tier).event = r.event
      /\ Attempt(r, tier).final = tier /\ Attempt(r, tier).gate = g
      /\ Attempt(r, tier).original = r.original
      /\ Attempt(r, tier).escalated = (r.escalated \/ tier # r.original)
  BY <1>1, <1>5 DEF Records
<1>7. RecordSound(Attempt(r, tier))
  BY <1>4, <1>6 DEF RecordSound
<1> QED BY <1>6, <1>7 DEF g

-----------------------------------------------------------------------------
(* Every call ends a step in one of four ways, for some record made from   *)
(* the one it had.                                                         *)

Outcome(h, q) ==
  \/ q.final \in Suspending /\ Hold(h, q) /\ UNCHANGED <<rankEpochs, kpi, audit, lost>>
  \/ Succeed(h, q) \/ Abandon(h, q) \/ Exhaust(h, q)

FreshGate(q) == q.gate = UrcGate(q.event.rank, q.final)

MadeFrom(r, q) == /\ q \in Records /\ RecordSound(q)
                  /\ q.epoch = r.epoch /\ q.final >= r.final

LEMMA RouteOutcome ==
  ASSUME TypeOK, NEW h, NEW r \in Records, RecordSound(r),
         NEW from \in Nat, from >= r.final, Route(h, r, from)
  PROVE  \E q : /\ MadeFrom(r, q) /\ Outcome(h, q)
                /\ Exhaust(h, q) \/ (q.final >= from /\ FreshGate(q))
<1>0. r.final \in 0..4 /\ B4 = 4
  BY DEF Records, Tiers, B0, B4
<1>1. CASE Exhaust(h, r)
  BY <1>0, <1>1 DEF MadeFrom, Outcome
<1>2. ASSUME NEW tier \in from..B4,
             \/ tier \in Suspending /\ Hold(h, Attempt(r, tier))
                                    /\ UNCHANGED <<rankEpochs, kpi, audit, lost>>
             \/ Succeed(h, Attempt(r, tier))
             \/ tier \in Raising /\ Abandon(h, Attempt(r, tier))
             \/ Exhaust(h, Attempt(r, tier))
      PROVE  \E q : /\ MadeFrom(r, q) /\ Outcome(h, q)
                    /\ Exhaust(h, q) \/ (q.final >= from /\ FreshGate(q))
  <2> DEFINE q == Attempt(r, tier)
  <2>1. tier \in Tiers /\ tier >= r.final /\ tier >= from
    BY <1>0 DEF Tiers, B0, B4
  <2>2. /\ q \in Records /\ RecordSound(q)
        /\ q.epoch = r.epoch /\ q.event = r.event /\ q.final = tier
        /\ q.gate = UrcGate(r.event.rank, tier)
    BY <2>1, AttemptIsSound
  <2>3. MadeFrom(r, q) /\ q.final >= from /\ FreshGate(q)
    BY <2>1, <2>2 DEF MadeFrom, FreshGate
  <2>4. Outcome(h, q)
    BY <1>2, <2>2 DEF Outcome
  <2> QED BY <2>3, <2>4
<1> QED BY <1>1, <1>2 DEF Route

LEMMA ResumeOutcome ==
  ASSUME EngineInv, NEW h \in Handlers, Resume(h)
  PROVE  /\ h \in DOMAIN job
         /\ \E q : /\ MadeFrom(job[h], q) /\ Outcome(h, q)
                   /\ \/ q.final > job[h].final /\ FreshGate(q)
                      \/ q = job[h] /\ Succeed(h, q)
                      \/ Abandon(h, q) \/ Exhaust(h, q)
<1> DEFINE r == job[h]
<1>1. h \in DOMAIN job /\ r \in Records /\ RecordSound(r)
  BY DEF Resume, EngineInv, TypeOK, EscalationSound
<1>2. r.final \in 0..4
  BY <1>1 DEF Records, Tiers, B0, B4
<1>3. CASE Succeed(h, r) \/ Abandon(h, r)
  BY <1>1, <1>2, <1>3 DEF MadeFrom, Outcome
<1>4. CASE Route(h, r, r.final + 1)
  <2>1. PICK q : /\ MadeFrom(r, q) /\ Outcome(h, q)
                 /\ Exhaust(h, q) \/ (q.final >= r.final + 1 /\ FreshGate(q))
    BY <1>1, <1>2, <1>4, RouteOutcome DEF EngineInv
  <2>2. q.final \in 0..4
    BY <2>1 DEF MadeFrom, Records, Tiers, B0, B4
  <2> QED BY <1>1, <1>2, <2>1, <2>2
<1> QED BY <1>1, <1>3, <1>4 DEF Resume

LEMMA OnEventOutcome ==
  ASSUME EngineInv, NEW h \in Handlers, NEW e \in Faults, OnEvent(h, e), ~observeOnly
  PROVE  \E q : /\ q \in Records /\ RecordSound(q) /\ q.epoch = epoch + 1
                /\ Outcome(h, q)
                /\ Exhaust(h, q) \/ FreshGate(q)
<1> DEFINE r == Opened(e, TierAfterWindow(e), epoch + 1)
<1>1. epoch + 1 \in 1..MaxFaults
  BY EngineAssumption DEF OnEvent, EngineInv, TypeOK
<1>2. r \in Records /\ RecordSound(r) /\ r.epoch = epoch + 1 /\ r.final = r.original
  BY <1>1, OpenedIsSound DEF EngineInv
<1>3. r.final \in Nat
  BY <1>2 DEF Records, Tiers, B0, B4
<1>4. Route(h, r, r.final)
  BY <1>2 DEF OnEvent
<1> HIDE DEF r
<1>5. PICK q : /\ MadeFrom(r, q) /\ Outcome(h, q)
               /\ Exhaust(h, q) \/ (q.final >= r.final /\ FreshGate(q))
  BY <1>2, <1>3, <1>4, RouteOutcome DEF EngineInv
<1> QED BY <1>2, <1>5 DEF MadeFrom

-----------------------------------------------------------------------------
(* The epoch of the call in hand is its own: no audit entry, no other      *)
(* handler and no lost call has it.                                        *)

OwnEpoch(h, ep) == /\ ep \in 1..MaxFaults
                   /\ ~Audited(ep) /\ ep \notin lost
                   /\ \A g \in DOMAIN job : (job[g].epoch = ep) <=> (g = h)
                   /\ \A n \in 1..MaxFaults : (n <= epoch') <=> (n <= epoch \/ n = ep)

LEMMA HeldEpochOwned ==
  ASSUME EngineInv, NEW h \in DOMAIN job, UNCHANGED epoch
  PROVE  OwnEpoch(h, job[h].epoch)
<1>1. job[h].epoch \in 1..MaxFaults
  BY DEF EngineInv, TypeOK, Records
<1>2. InFlight(job[h].epoch)
  BY DEF InFlight
<1>3. ~Audited(job[h].epoch) /\ job[h].epoch \notin lost /\ job[h].epoch <= epoch
  BY <1>1, <1>2 DEF EngineInv, EpochsAccounted
<1>4. \A g \in DOMAIN job : (job[g].epoch = job[h].epoch) <=> (g = h)
  BY DEF EngineInv, EpochsAccounted
<1>5. \A n \in 1..MaxFaults : (n <= epoch') <=> (n <= epoch \/ n = job[h].epoch)
  BY <1>3
<1> QED BY <1>1, <1>3, <1>4, <1>5 DEF OwnEpoch

LEMMA NextEpochOwned ==
  ASSUME EngineInv, NEW h, h \notin DOMAIN job, epoch < MaxFaults, epoch' = epoch + 1
  PROVE  OwnEpoch(h, epoch + 1)
<1>1. epoch \in Nat /\ MaxFaults \in Nat
  BY EngineAssumption DEF EngineInv, TypeOK
<1>2. epoch + 1 \in 1..MaxFaults /\ ~(epoch + 1 <= epoch)
  BY <1>1
<1>3. ~Audited(epoch + 1) /\ ~InFlight(epoch + 1) /\ epoch + 1 \notin lost
  BY <1>2 DEF EngineInv, EpochsAccounted
<1>4. \A g \in DOMAIN job : (job[g].epoch = epoch + 1) <=> (g = h)
  BY <1>3 DEF InFlight
<1>5. \A n \in 1..MaxFaults : (n <= epoch') <=> (n <= epoch \/ n = epoch + 1)
  BY <1>1
<1> QED BY <1>2, <1>3, <1>4, <1>5 DEF OwnEpoch

(* The three places a fault can be, after each way a step can end. *)
LEMMA Settled ==
  ASSUME EngineInv, NEW h, NEW q \in Records, NEW ok \in BOOLEAN, OwnEpoch(h, q.epoch),
         audit' = Append(audit, Entry(q, ok)),
         DOMAIN job' = DOMAIN job \ {h}, \A x \in DOMAIN job' : job'[x] = job[x],
         lost' = lost
  PROVE  EpochsAccounted'
<1> DEFINE a == Entry(q, ok)
           n == Len(audit)
<1>1. a \in Entries /\ a.epoch = q.epoch
  BY DEF Entry, Entries, Records
<1>2. /\ n \in Nat /\ Len(audit') = n + 1
      /\ \A i \in 1..n : audit'[i] = audit[i]
      /\ audit'[n + 1] = a
  BY <1>1, AppendFacts DEF EngineInv, TypeOK
<1> HIDE DEF a, n
<1>3. 1..Len(audit') = (1..n) \cup {n + 1}
  BY <1>2
<1>4. \A ep : Audited(ep)' <=> (Audited(ep) \/ ep = q.epoch)
  BY <1>1, <1>2, <1>3 DEF Audited, n
<1>5. \A ep : InFlight(ep)' <=> (InFlight(ep) /\ ep # q.epoch)
  BY DEF InFlight, OwnEpoch
<1>6. ASSUME NEW ep \in 1..MaxFaults
      PROVE  /\ (ep <= epoch') <=> (Audited(ep)' \/ InFlight(ep)' \/ ep \in lost')
             /\ ~(Audited(ep)' /\ InFlight(ep)')
             /\ ep \in lost' => ~Audited(ep)' /\ ~InFlight(ep)'
  BY <1>4, <1>5 DEF EngineInv, EpochsAccounted, OwnEpoch
<1>7. ASSUME NEW i \in 1..Len(audit'), NEW j \in 1..Len(audit'),
             audit'[i].epoch = audit'[j].epoch
      PROVE  i = j
  <2>1. \A k \in 1..n : audit[k].epoch # q.epoch
    BY DEF OwnEpoch, Audited, n
  <2>2. \A k, l \in 1..n : audit[k].epoch = audit[l].epoch => k = l
    BY DEF EngineInv, EpochsAccounted, n
  <2> QED BY <1>1, <1>2, <1>3, <1>7, <2>1, <2>2
<1>8. \A g, k \in DOMAIN job' : job'[g].epoch = job'[k].epoch => g = k
  BY DEF EngineInv, EpochsAccounted
<1> QED BY <1>6, <1>7, <1>8 DEF EpochsAccounted

LEMMA HeldOn ==
  ASSUME EngineInv, NEW h, NEW q \in Records, OwnEpoch(h, q.epoch),
         audit' = audit, lost' = lost, Hold(h, q)
  PROVE  EpochsAccounted'
<1>1. /\ DOMAIN job' = DOMAIN job \cup {h}
      /\ job'[h] = q
      /\ \A x \in DOMAIN job : x # h => job'[x] = job[x]
  BY HoldFacts
<1>2. \A ep : Audited(ep)' <=> Audited(ep)
  BY DEF Audited
<1>3. \A ep : InFlight(ep)' <=> (InFlight(ep) \/ ep = q.epoch)
  BY <1>1 DEF InFlight, OwnEpoch
<1>4. ASSUME NEW ep \in 1..MaxFaults
      PROVE  /\ (ep <= epoch') <=> (Audited(ep)' \/ InFlight(ep)' \/ ep \in lost')
             /\ ~(Audited(ep)' /\ InFlight(ep)')
             /\ ep \in lost' => ~Audited(ep)' /\ ~InFlight(ep)'
  BY <1>2, <1>3 DEF EngineInv, EpochsAccounted, OwnEpoch
<1>5. \A i, j \in 1..Len(audit') : audit'[i].epoch = audit'[j].epoch => i = j
  BY DEF EngineInv, EpochsAccounted
<1>6. \A g, k \in DOMAIN job' : job'[g].epoch = job'[k].epoch => g = k
  BY <1>1 DEF EngineInv, EpochsAccounted, OwnEpoch
<1> QED BY <1>4, <1>5, <1>6 DEF EpochsAccounted

LEMMA LetGo ==
  ASSUME EngineInv, NEW h, NEW q \in Records, OwnEpoch(h, q.epoch), Abandon(h, q)
  PROVE  EpochsAccounted'
<1>1. /\ DOMAIN job' = DOMAIN job \ {h}
      /\ \A x \in DOMAIN job' : job'[x] = job[x]
  BY FreeFacts DEF Abandon
<1>2. \A ep : Audited(ep)' <=> Audited(ep)
  BY DEF Audited, Abandon
<1>3. \A ep : InFlight(ep)' <=> (InFlight(ep) /\ ep # q.epoch)
  BY <1>1 DEF InFlight, OwnEpoch
<1>4. ASSUME NEW ep \in 1..MaxFaults
      PROVE  /\ (ep <= epoch') <=> (Audited(ep)' \/ InFlight(ep)' \/ ep \in lost')
             /\ ~(Audited(ep)' /\ InFlight(ep)')
             /\ ep \in lost' => ~Audited(ep)' /\ ~InFlight(ep)'
  BY <1>2, <1>3 DEF EngineInv, EpochsAccounted, OwnEpoch, Abandon
<1>5. \A i, j \in 1..Len(audit') : audit'[i].epoch = audit'[j].epoch => i = j
  BY DEF EngineInv, EpochsAccounted, Abandon
<1>6. \A g, k \in DOMAIN job' : job'[g].epoch = job'[k].epoch => g = k
  BY <1>1 DEF EngineInv, EpochsAccounted
<1> QED BY <1>4, <1>5, <1>6 DEF EpochsAccounted

-----------------------------------------------------------------------------
(* What a call may change, and what is true of it afterwards. *)

Recording == /\ rankEpochs \in [Ranks -> 0..MaxFaults]
             /\ kpi \in Seq([epoch : 1..MaxFaults, tier : Tiers])
             /\ audit \in Seq(Entries)
             /\ DOMAIN job \subseteq Handlers
             /\ \A g \in DOMAIN job : job[g] \in Records
             /\ lost \subseteq 1..MaxFaults
             /\ EscalationSound /\ HeldSuspends /\ EpochsAccounted

(* An audit entry made from a sound record is sound, and the rest is too.  *)
LEMMA EntryKeeps ==
  ASSUME EngineInv, NEW q \in Records, RecordSound(q), NEW ok \in BOOLEAN,
         audit' = Append(audit, Entry(q, ok))
  PROVE  /\ audit' \in Seq(Entries)
         /\ \A i \in 1..Len(audit') : RecordSound(audit'[i])
         /\ Len(audit') = Len(audit) + 1 /\ Len(audit) \in Nat
         /\ \A i \in 1..Len(audit) : audit'[i] = audit[i]
         /\ audit'[Len(audit) + 1] = Entry(q, ok)
<1> DEFINE a == Entry(q, ok)
           n == Len(audit)
<1>1. a \in Entries /\ RecordSound(a)
  BY DEF Entry, Entries, Records, RecordSound
<1>2. /\ audit' \in Seq(Entries)
      /\ n \in Nat /\ Len(audit') = n + 1
      /\ \A i \in 1..n : audit'[i] = audit[i]
      /\ audit'[n + 1] = a
  BY <1>1, AppendFacts DEF EngineInv, TypeOK
<1>3. \A i \in 1..n : RecordSound(audit[i])
  BY DEF EngineInv, EscalationSound
<1> HIDE DEF a, n
<1>4. ASSUME NEW i \in 1..Len(audit') PROVE RecordSound(audit'[i])
  <2>1. CASE i \in 1..n
    BY <2>1, <1>2, <1>3 DEF RecordSound
  <2>2. CASE i = n + 1
    BY <2>2, <1>1, <1>2
  <2> QED BY <1>2, <2>1, <2>2
<1> QED BY <1>2, <1>4 DEF a, n

(* The other handlers' records are not touched. *)
LEMMA FreeKeeps ==
  ASSUME EngineInv, NEW h, Free(h)
  PROVE  /\ DOMAIN job' \subseteq Handlers
         /\ \A g \in DOMAIN job' : /\ job'[g] \in Records /\ RecordSound(job'[g])
                                   /\ job'[g].final \in Suspending
<1>1. DOMAIN job' = DOMAIN job \ {h} /\ \A x \in DOMAIN job' : job'[x] = job[x]
  BY FreeFacts
<1> QED BY <1>1 DEF EngineInv, TypeOK, EscalationSound, HeldSuspends

LEMMA OutcomeKeeps ==
  ASSUME EngineInv, NEW h \in Handlers, NEW q \in Records, RecordSound(q),
         OwnEpoch(h, q.epoch), Outcome(h, q)
  PROVE  Recording'
<1>1. q.event.rank \in Ranks /\ q.epoch \in 1..MaxFaults /\ q.final \in Tiers
  BY EngineAssumption DEF Records, TelemetryEvent
<1>2. /\ rankEpochs \in [Ranks -> 0..MaxFaults]
      /\ kpi \in Seq([epoch : 1..MaxFaults, tier : Tiers])
      /\ audit \in Seq(Entries) /\ lost \subseteq 1..MaxFaults
      /\ \A i \in 1..Len(audit) : RecordSound(audit[i])
  BY DEF EngineInv, TypeOK, EscalationSound
<1>3. CASE q.final \in Suspending /\ Hold(h, q) /\ UNCHANGED <<rankEpochs, kpi, audit, lost>>
  <2>1. DOMAIN job' = DOMAIN job \cup {h} /\ job'[h] = q
        /\ \A x \in DOMAIN job : x # h => job'[x] = job[x]
    BY <1>3, HoldFacts
  <2>2. /\ DOMAIN job' \subseteq Handlers
        /\ \A g \in DOMAIN job' : /\ job'[g] \in Records /\ RecordSound(job'[g])
                                  /\ job'[g].final \in Suspending
    BY <1>3, <2>1 DEF EngineInv, TypeOK, EscalationSound, HeldSuspends
  <2>3. EpochsAccounted'
    BY <1>3, HeldOn
  <2>4. \A i \in 1..Len(audit') : RecordSound(audit'[i])
    BY <1>2, <1>3
  <2>5. (EscalationSound /\ HeldSuspends)'
    BY <2>2, <2>4 DEF EscalationSound, HeldSuspends
  <2> QED BY <1>2, <1>3, <2>2, <2>3, <2>5 DEF Recording
<1>4. ASSUME NEW ok \in BOOLEAN, audit' = Append(audit, Entry(q, ok)), Free(h), lost' = lost
      PROVE  /\ audit' \in Seq(Entries) /\ lost' \subseteq 1..MaxFaults
             /\ DOMAIN job' \subseteq Handlers /\ \A g \in DOMAIN job' : job'[g] \in Records
             /\ (EscalationSound /\ HeldSuspends /\ EpochsAccounted)'
  <2>1. EpochsAccounted'
    BY <1>4, FreeFacts, Settled
  <2>2. /\ audit' \in Seq(Entries)
        /\ \A i \in 1..Len(audit') : RecordSound(audit'[i])
    BY <1>4, EntryKeeps
  <2>3. /\ DOMAIN job' \subseteq Handlers
        /\ \A g \in DOMAIN job' : /\ job'[g] \in Records /\ RecordSound(job'[g])
                                  /\ job'[g].final \in Suspending
    BY <1>4, FreeKeeps
  <2>4. (EscalationSound /\ HeldSuspends)'
    BY <2>2, <2>3 DEF EscalationSound, HeldSuspends
  <2> QED BY <1>2, <1>4, <2>1, <2>2, <2>3, <2>4
<1>5. CASE Succeed(h, q)
  <2>1. rankEpochs' \in [Ranks -> 0..MaxFaults]
    BY <1>1, <1>2, <1>5 DEF Succeed, ReportEpoch
  <2>2. kpi' \in Seq([epoch : 1..MaxFaults, tier : Tiers])
    <3>1. [epoch |-> q.epoch, tier |-> q.final] \in [epoch : 1..MaxFaults, tier : Tiers]
      BY <1>1
    <3>2. kpi' = Append(kpi, [epoch |-> q.epoch, tier |-> q.final])
      BY <1>5 DEF Succeed, RecordKpi
    <3> QED BY <1>2, <3>1, <3>2, AppendFacts
  <2>3. audit' = Append(audit, Entry(q, TRUE)) /\ Free(h) /\ lost' = lost
    BY <1>5 DEF Succeed
  <2> QED BY <2>1, <2>2, <2>3, <1>4 DEF Recording
<1>6. CASE Abandon(h, q)
  <2>1. /\ DOMAIN job' \subseteq Handlers
        /\ \A g \in DOMAIN job' : /\ job'[g] \in Records /\ RecordSound(job'[g])
                                  /\ job'[g].final \in Suspending
    BY <1>6, FreeKeeps DEF Abandon
  <2>2. /\ lost' \subseteq 1..MaxFaults
        /\ \A i \in 1..Len(audit') : RecordSound(audit'[i])
        /\ UNCHANGED <<rankEpochs, kpi, audit>>
    BY <1>1, <1>2, <1>6 DEF Abandon
  <2>3. EpochsAccounted'
    BY <1>6, LetGo
  <2>4. (EscalationSound /\ HeldSuspends)'
    BY <2>1, <2>2 DEF EscalationSound, HeldSuspends
  <2> QED BY <1>2, <2>1, <2>2, <2>3, <2>4 DEF Recording
<1>7. CASE Exhaust(h, q)
  <2>1. audit' = Append(audit, Entry(q, FALSE)) /\ Free(h) /\ UNCHANGED <<rankEpochs, kpi, lost>>
    BY <1>7 DEF Exhaust
  <2> QED BY <1>2, <2>1, <1>4 DEF Recording
<1> QED BY <1>3, <1>5, <1>6, <1>7 DEF Outcome

-----------------------------------------------------------------------------
(* The invariant holds initially, and every step preserves it. *)

LEMMA EngineInit == Init => EngineInv
<1> SUFFICES ASSUME Init PROVE EngineInv
  OBVIOUS
<1>1. MaxTime \in Nat /\ MaxFaults \in Nat /\ ObserveOnly \subseteq BOOLEAN
  BY EngineAssumption
<1>2. DOMAIN job = {}
  BY DEF Init
<1>3. audit = << >> /\ Len(audit) = 0
  BY DEF Init
<1>4. TypeOK
  BY <1>1, <1>2 DEF Init, TypeOK, None, Policies
<1>5. EscalationSound /\ HeldSuspends
  BY <1>2, <1>3 DEF EscalationSound, HeldSuspends
<1>6. \A ep : ~Audited(ep) /\ ~InFlight(ep)
  BY <1>2, <1>3 DEF Audited, InFlight
<1>7. epoch = 0 /\ lost = {}
  BY DEF Init
<1>8. EpochsAccounted
  BY <1>1, <1>2, <1>3, <1>6, <1>7 DEF EpochsAccounted
<1> QED BY <1>4, <1>5, <1>8 DEF EngineInv

(* The correlation window keeps its deque and its history well formed. *)
LEMMA WindowTypes ==
  ASSUME TypeOK, NEW e \in Faults, ApplyCorrelationWindow(e)
  PROVE  /\ recent' \in Seq(B1Entries)
         /\ arrivals' \in Seq(Arrivals)
<1> DEFINE b == B1Entry(e)
           q == Append(recent, b)
           a == [entry |-> b, policy |-> policy, escalated |-> Correlated(e)]
<1>1. b \in B1Entries
  BY EngineAssumption DEF TypeOK, B1Entry, B1Entries, TelemetryEvent
<1>2. q \in Seq(B1Entries)
  BY <1>1 DEF TypeOK
<1>3. Pruned(q) \in Seq(B1Entries)
  BY <1>2, PrunedIsSeq
<1>4. Correlated(e) \in BOOLEAN
  <2>1. \A s \in Seq(B1Entries) : SameRack(s, e) \in Nat
    <3> SUFFICES ASSUME NEW s \in Seq(B1Entries) PROVE SameRack(s, e) \in Nat
      OBVIOUS
    <3>1. IsFiniteSet(1..Len(s))
      BY FS_Interval
    <3>2. IsFiniteSet({i \in 1..Len(s) : s[i].rack = e.rack})
      BY <3>1, FS_Subset
    <3> QED BY <3>2, FS_CardinalityType DEF SameRack
  <2>2. SameRack(Pruned(q), e) \in Nat /\ policy.threshold \in Nat
    BY <1>3, <2>1, EngineAssumption DEF TypeOK, Policies
  <2> QED BY <2>2 DEF Correlated
<1>5. CASE Classify(e) = B1
  <2>1. recent' = Pruned(q) /\ arrivals' = Append(arrivals, a)
    BY <1>5 DEF ApplyCorrelationWindow
  <2>2. a \in Arrivals
    BY <1>1, <1>4 DEF TypeOK, Arrivals
  <2>3. arrivals \in Seq(Arrivals)
    BY DEF TypeOK
  <2>4. arrivals' \in Seq(Arrivals)
    BY <2>1, <2>2, <2>3, AppendFacts
  <2> QED BY <1>3, <2>1, <2>4
<1>6. CASE Classify(e) # B1
  BY <1>6 DEF ApplyCorrelationWindow, TypeOK
<1> QED BY <1>5, <1>6

(* A call that records its outcome, with the rest of the state typed.      *)
LEMMA RecordingSuffices ==
  ASSUME EngineInv, Recording', now' = now, observeOnly' = observeOnly, policy' = policy,
         epoch' \in 0..MaxFaults, recent' \in Seq(B1Entries),
         arrivals' \in Seq(Arrivals)
  PROVE  EngineInv'
  BY DEF EngineInv, TypeOK, Recording

LEMMA EngineStep == EngineInv /\ [Next]_vars => EngineInv'
<1> SUFFICES ASSUME EngineInv, [Next]_vars PROVE EngineInv'
  OBVIOUS
<1>0. /\ epoch \in 0..MaxFaults /\ MaxFaults \in Nat
      /\ recent \in Seq(B1Entries)
      /\ arrivals \in Seq(Arrivals)
  BY EngineAssumption DEF EngineInv, TypeOK
<1>1. CASE UNCHANGED vars
  <2>1. Recording'
    BY <1>1 DEF EngineInv, TypeOK, Recording, EscalationSound, RecordSound, HeldSuspends,
                EpochsAccounted, Audited, InFlight, vars
  <2> QED BY <1>0, <1>1, <2>1, RecordingSuffices DEF vars
<1>2. CASE Tick
  <2>1. now' \in 0..MaxTime
    BY <1>2, EngineAssumption DEF Tick, EngineInv, TypeOK
  <2>2. UNCHANGED <<observeOnly, policy, epoch, recent, rankEpochs, kpi, audit, job, lost,
                  arrivals>>
    BY <1>2 DEF Tick
  <2>3. TypeOK'
    BY <2>1, <2>2 DEF EngineInv, TypeOK
  <2>4. (EpochsAccounted /\ EscalationSound /\ HeldSuspends)'
    BY <2>2 DEF EngineInv, EscalationSound, RecordSound, HeldSuspends,
                EpochsAccounted, Audited, InFlight
  <2> QED BY <2>3, <2>4 DEF EngineInv
<1>2a. CASE SetPolicy
  <2>1. policy' \in Policies
    BY <1>2a DEF SetPolicy, EngineInv, TypeOK, Policies
  <2>2. UNCHANGED <<now, observeOnly, epoch, recent, rankEpochs, kpi, audit, job, lost, arrivals>>
    BY <1>2a DEF SetPolicy
  <2>3. TypeOK'
    BY <2>1, <2>2 DEF EngineInv, TypeOK
  <2>4. (EpochsAccounted /\ EscalationSound /\ HeldSuspends)'
    BY <2>2 DEF EngineInv, EscalationSound, RecordSound, HeldSuspends,
                EpochsAccounted, Audited, InFlight
  <2> QED BY <2>3, <2>4 DEF EngineInv
<1>3. ASSUME NEW h \in Handlers, NEW e \in Faults, OnEvent(h, e)
      PROVE  EngineInv'
  <2>1. /\ h \notin DOMAIN job /\ epoch < MaxFaults /\ epoch' = epoch + 1
        /\ now' = now /\ observeOnly' = observeOnly /\ policy' = policy
    BY <1>3 DEF OnEvent
  <2>2. recent' \in Seq(B1Entries) /\ arrivals' \in Seq(Arrivals)
    BY <1>3, WindowTypes DEF OnEvent, EngineInv
  <2>3. OwnEpoch(h, epoch + 1) /\ epoch' \in 0..MaxFaults
    BY <1>0, <2>1, NextEpochOwned
  <2>4. CASE ~observeOnly
    <3>1. PICK q : q \in Records /\ RecordSound(q) /\ q.epoch = epoch + 1 /\ Outcome(h, q)
      BY <1>3, <2>4, OnEventOutcome
    <3>2. Recording'
      BY <2>3, <3>1, OutcomeKeeps
    <3> QED BY <2>1, <2>2, <2>3, <3>2, RecordingSuffices
  <2>5. CASE observeOnly
    <3> DEFINE r == Opened(e, TierAfterWindow(e), epoch + 1)
    <3>1. /\ audit' = Append(audit, Entry(r, TRUE))
          /\ UNCHANGED <<rankEpochs, kpi, job, lost>>
      BY <1>3, <2>5 DEF OnEvent
    <3>2. r \in Records /\ RecordSound(r) /\ r.epoch = epoch + 1
      BY <2>3, OpenedIsSound DEF OwnEpoch, EngineInv
    <3> HIDE DEF r
    <3>3. DOMAIN job' = DOMAIN job \ {h} /\ \A x \in DOMAIN job' : job'[x] = job[x]
      BY <2>1, <3>1
    <3>4. EpochsAccounted'
      BY <2>3, <3>1, <3>2, <3>3, Settled
    <3>5. audit' \in Seq(Entries) /\ \A i \in 1..Len(audit') : RecordSound(audit'[i])
      BY <3>1, <3>2, EntryKeeps
    <3>6. /\ (\A g \in DOMAIN job' : RecordSound(job'[g]) /\ job'[g].final \in Suspending
                                      /\ job'[g] \in Records)
          /\ DOMAIN job' \subseteq Handlers
      BY <3>1 DEF EngineInv, TypeOK, EscalationSound, HeldSuspends, RecordSound
    <3>7. (EscalationSound /\ HeldSuspends)'
      BY <3>5, <3>6 DEF EscalationSound, HeldSuspends
    <3>8. Recording'
      BY <3>1, <3>4, <3>5, <3>6, <3>7 DEF Recording, EngineInv, TypeOK
    <3> QED BY <2>1, <2>2, <2>3, <3>8, RecordingSuffices
  <2> QED BY <2>4, <2>5
<1>4. ASSUME NEW h \in Handlers, Resume(h)
      PROVE  EngineInv'
  <2>1. h \in DOMAIN job /\ UNCHANGED <<now, observeOnly, policy, epoch, recent, arrivals>>
    BY <1>4 DEF Resume
  <2>2. PICK q : MadeFrom(job[h], q) /\ Outcome(h, q)
    BY <1>4, ResumeOutcome
  <2>3. OwnEpoch(h, q.epoch)
    BY <2>1, <2>2, HeldEpochOwned DEF MadeFrom
  <2>4. Recording'
    BY <2>2, <2>3, OutcomeKeeps DEF MadeFrom
  <2> QED BY <1>0, <2>1, <2>4, RecordingSuffices
<1>5. ASSUME NEW h \in Handlers, Cancel(h)
      PROVE  EngineInv'
  <2>1. h \in DOMAIN job /\ UNCHANGED <<now, observeOnly, policy, epoch, recent, arrivals>>
    BY <1>5 DEF Cancel
  <2>2. job[h] \in Records /\ RecordSound(job[h]) /\ Outcome(h, job[h])
    BY <1>5, <2>1 DEF Cancel, Outcome, EngineInv, TypeOK, EscalationSound
  <2>3. OwnEpoch(h, job[h].epoch)
    BY <2>1, HeldEpochOwned
  <2>4. Recording'
    BY <2>2, <2>3, OutcomeKeeps
  <2> QED BY <1>0, <2>1, <2>4, RecordingSuffices
<1> QED BY <1>1, <1>2, <1>2a, <1>3, <1>4, <1>5 DEF Next

(* The inductive invariant: types, accounting, soundness of the records.   *)
THEOREM EngineInvariant == Spec => []EngineInv
  BY EngineInit, EngineStep, PTL DEF Spec

(* No epoch is handed out twice, and the fault it names is in exactly one  *)
(* place: in flight in one call, audited once, or lost.                    *)
THEOREM EpochsAccountedFor == Spec => []EpochsAccounted
<1>1. EngineInv => EpochsAccounted
  BY DEF EngineInv
<1> QED BY <1>1, EngineInvariant, PTL

(* Escalation is one-directional, for every set of layers. *)
THEOREM EscalationIsSound == Spec => []EscalationSound
<1>1. EngineInv => EscalationSound
  BY DEF EngineInv
<1> QED BY <1>1, EngineInvariant, PTL

-----------------------------------------------------------------------------
(* Action properties: what a single step may not do. *)

(* An outcome adds at most one audit entry, made from its own record.      *)
LEMMA OutcomeAudits ==
  ASSUME EngineInv, NEW h, NEW q \in Records, RecordSound(q), Outcome(h, q)
  PROVE  /\ \A i \in 1..Len(audit') :
              \/ i \in 1..Len(audit) /\ audit'[i] = audit[i]
              \/ i = Len(audit) + 1 /\ Exhaust(h, q) /\ audit'[i] = Entry(q, FALSE)
              \/ i = Len(audit) + 1 /\ Succeed(h, q) /\ audit'[i] = Entry(q, TRUE)
<1>1. CASE UNCHANGED audit
  BY <1>1
<1>2. ASSUME NEW ok \in BOOLEAN, audit' = Append(audit, Entry(q, ok)),
             IF ok THEN Succeed(h, q) ELSE Exhaust(h, q)
      PROVE  \A i \in 1..Len(audit') :
               \/ i \in 1..Len(audit) /\ audit'[i] = audit[i]
               \/ i = Len(audit) + 1 /\ Exhaust(h, q) /\ audit'[i] = Entry(q, FALSE)
               \/ i = Len(audit) + 1 /\ Succeed(h, q) /\ audit'[i] = Entry(q, TRUE)
  <2>1. /\ Len(audit') = Len(audit) + 1 /\ Len(audit) \in Nat
        /\ \A i \in 1..Len(audit) : audit'[i] = audit[i]
        /\ audit'[Len(audit) + 1] = Entry(q, ok)
    BY <1>2, EntryKeeps
  <2>2. ASSUME NEW i \in 1..Len(audit') PROVE i \in 1..Len(audit) \/ i = Len(audit) + 1
    BY <2>1
  <2> QED BY <1>2, <2>1, <2>2
<1> QED BY <1>1, <1>2 DEF Outcome, Succeed, Exhaust, Abandon

ClimbStep ==
  \A h \in DOMAIN job :
    /\ h \in DOMAIN job' => job'[h] = job[h] \/ job'[h].final > job[h].final
    /\ \A i \in 1..Len(audit') :
         audit'[i].epoch = job[h].epoch => audit'[i].final >= job[h].final

LEMMA OutcomeClimbs ==
  ASSUME EngineInv, NEW g \in Handlers, NEW q \in Records, RecordSound(q),
         OwnEpoch(g, q.epoch), Outcome(g, q),
         g \in DOMAIN job =>
           /\ q.final >= job[g].final
           /\ g \in DOMAIN job' => q.final > job[g].final
  PROVE  ClimbStep
<1> SUFFICES ASSUME NEW h \in DOMAIN job
             PROVE  /\ h \in DOMAIN job' => job'[h] = job[h] \/ job'[h].final > job[h].final
                    /\ \A i \in 1..Len(audit') :
                         audit'[i].epoch = job[h].epoch => audit'[i].final >= job[h].final
  BY DEF ClimbStep
<1>1. ~Audited(job[h].epoch)
  <2>1. job[h].epoch \in 1..MaxFaults /\ InFlight(job[h].epoch)
    BY DEF EngineInv, TypeOK, Records, InFlight
  <2> QED BY <2>1 DEF EngineInv, EpochsAccounted
<1>2. (job[h].epoch = q.epoch) <=> (h = g)
  BY DEF OwnEpoch
<1>3. ASSUME NEW i \in 1..Len(audit'), audit'[i].epoch = job[h].epoch
      PROVE  audit'[i].final >= job[h].final
  <2>1. ~(i \in 1..Len(audit) /\ audit'[i] = audit[i])
    BY <1>1, <1>3 DEF Audited
  <2>2. audit'[i] \in {Entry(q, FALSE), Entry(q, TRUE)}
    BY <2>1, OutcomeAudits
  <2>3. audit'[i].epoch = q.epoch /\ audit'[i].final = q.final
    BY <2>2 DEF Entry
  <2> QED BY <1>2, <1>3, <2>3
<1>4. ASSUME h \in DOMAIN job' PROVE job'[h] = job[h] \/ job'[h].final > job[h].final
  <2>1. CASE Hold(g, q)
    BY <1>4, <2>1, HoldFacts
  <2>2. CASE Free(g)
    BY <1>4, <2>2, FreeFacts
  <2> QED BY <2>1, <2>2 DEF Outcome, Succeed, Abandon, Exhaust
<1> QED BY <1>3, <1>4

(* While a fault is being handled it only climbs: no handler's record, and *)
(* no audit entry made from it, is ever below the tier it waited in.       *)
THEOREM OnlyClimbs == Spec => ClimbsOnly
<1>1. ASSUME EngineInv, [Next]_vars PROVE [ClimbStep]_vars
  <2> SUFFICES ASSUME Next PROVE ClimbStep
    BY <1>1
  <2>0. \A h \in DOMAIN job : h \in Handlers /\ job[h] \in Records /\ RecordSound(job[h])
    BY <1>1 DEF EngineInv, TypeOK, EscalationSound
  <2>a. \A h \in DOMAIN job : ~Audited(job[h].epoch) /\ job[h].epoch <= epoch
    <3>1. \A h \in DOMAIN job : job[h].epoch \in 1..MaxFaults /\ InFlight(job[h].epoch)
      BY <2>0 DEF Records, InFlight
    <3> QED BY <1>1, <3>1 DEF EngineInv, EpochsAccounted
  <2>1. CASE Tick \/ SetPolicy
    BY <2>1, <2>a DEF Tick, SetPolicy, ClimbStep, Audited
  <2>2. ASSUME NEW g \in Handlers, NEW e \in Faults, OnEvent(g, e)
        PROVE  ClimbStep
    <3>1. g \notin DOMAIN job /\ epoch < MaxFaults /\ epoch' = epoch + 1
      BY <2>2 DEF OnEvent
    <3>2. OwnEpoch(g, epoch + 1)
      BY <1>1, <3>1, NextEpochOwned
    <3>3. CASE ~observeOnly
      <4>1. PICK q : q \in Records /\ RecordSound(q) /\ q.epoch = epoch + 1 /\ Outcome(g, q)
        BY <1>1, <2>2, <3>3, OnEventOutcome
      <4> QED BY <1>1, <3>1, <3>2, <4>1, OutcomeClimbs
    <3>4. CASE observeOnly
      <4> DEFINE r == Opened(e, TierAfterWindow(e), epoch + 1)
      <4>1. audit' = Append(audit, Entry(r, TRUE)) /\ job' = job
        BY <2>2, <3>4 DEF OnEvent
      <4>2. r \in Records /\ RecordSound(r) /\ r.epoch = epoch + 1
        BY <1>1, <3>2, OpenedIsSound DEF OwnEpoch, EngineInv
      <4> HIDE DEF r
      <4>3. /\ Len(audit') = Len(audit) + 1 /\ Len(audit) \in Nat
            /\ \A i \in 1..Len(audit) : audit'[i] = audit[i]
            /\ audit'[Len(audit) + 1] = Entry(r, TRUE)
        BY <1>1, <4>1, <4>2, EntryKeeps
      <4>4. audit'[Len(audit) + 1].epoch = epoch + 1
        BY <4>2, <4>3 DEF Entry
      <4>5. \A h \in DOMAIN job : \A i \in 1..Len(audit') : audit'[i].epoch # job[h].epoch
        <5> SUFFICES ASSUME NEW h \in DOMAIN job, NEW i \in 1..Len(audit')
                     PROVE  audit'[i].epoch # job[h].epoch
          OBVIOUS
        <5>1. i \in 1..Len(audit) \/ i = Len(audit) + 1
          BY <4>3
        <5>2. job[h].epoch # epoch + 1
          BY <3>1, <3>2 DEF OwnEpoch
        <5> QED BY <2>a, <4>3, <4>4, <5>1, <5>2 DEF Audited
      <4> QED BY <4>1, <4>5 DEF ClimbStep
    <3> QED BY <3>3, <3>4
  <2>3. ASSUME NEW g \in Handlers, Resume(g)
        PROVE  ClimbStep
    <3>1. g \in DOMAIN job /\ UNCHANGED epoch
      BY <2>3 DEF Resume
    <3>2. PICK q : /\ MadeFrom(job[g], q) /\ Outcome(g, q)
                   /\ \/ q.final > job[g].final /\ FreshGate(q)
                      \/ q = job[g] /\ Succeed(g, q)
                      \/ Abandon(g, q) \/ Exhaust(g, q)
      BY <1>1, <2>3, ResumeOutcome
    <3>3. Succeed(g, q) \/ Abandon(g, q) \/ Exhaust(g, q) => g \notin DOMAIN job'
      BY FreeFacts DEF Succeed, Abandon, Exhaust
    <3>4. OwnEpoch(g, q.epoch)
      BY <1>1, <3>1, <3>2, HeldEpochOwned DEF MadeFrom
    <3> QED BY <1>1, <3>2, <3>3, <3>4, OutcomeClimbs DEF MadeFrom
  <2>4. ASSUME NEW g \in Handlers, Cancel(g)
        PROVE  ClimbStep
    <3>1. g \in DOMAIN job /\ UNCHANGED epoch /\ Abandon(g, job[g])
      BY <2>4 DEF Cancel
    <3>2. g \notin DOMAIN job'
      BY <3>1, FreeFacts DEF Abandon
    <3>3. OwnEpoch(g, job[g].epoch) /\ Outcome(g, job[g])
      BY <1>1, <3>1, HeldEpochOwned DEF Outcome
    <3>4. job[g].final >= job[g].final
      BY <2>0, <3>1 DEF Records, Tiers, B0, B4
    <3> QED BY <1>1, <2>0, <3>1, <3>2, <3>3, <3>4, OutcomeClimbs
  <2> QED BY <2>1, <2>2, <2>3, <2>4 DEF Next
<1> QED BY <1>1, EngineInvariant, PTL DEF Spec, ClimbsOnly, ClimbStep

GateStep ==
  \A i \in 1..Len(audit') :
    i > Len(audit) /\ audit'[i].success /\ audit'[i].final >= B2 /\ ~observeOnly =>
      LET others == Survivors(audit'[i].event.rank) IN
        /\ (audit'[i].gate = None) <=> (others = {})
        /\ \A r \in others : audit'[i].gate <= rankEpochs[r]

(* A call does not both succeed and exhaust its tiers in a step.           *)
LEMMA OneVerdict ==
  ASSUME EngineInv, NEW h, NEW q \in Records, RecordSound(q)
  PROVE  ~(Succeed(h, q) /\ Exhaust(h, q))
<1>1. Entry(q, TRUE) # Entry(q, FALSE)
  BY DEF Entry
<1>2. ASSUME NEW ok \in BOOLEAN, audit' = Append(audit, Entry(q, ok))
      PROVE  audit'[Len(audit) + 1] = Entry(q, ok)
  BY <1>2, EntryKeeps
<1> QED BY <1>1, <1>2 DEF Succeed, Exhaust

(* A success that goes with a gate read in the same step is fresh.         *)
LEMMA OutcomeGated ==
  ASSUME EngineInv, NEW h, NEW q \in Records, RecordSound(q), Outcome(h, q),
         Succeed(h, q) /\ q.final >= B2 => FreshGate(q)
  PROVE  GateStep
<1> SUFFICES ASSUME NEW i \in 1..Len(audit'), i > Len(audit), audit'[i].success,
                    audit'[i].final >= B2
             PROVE  LET others == Survivors(audit'[i].event.rank) IN
                      /\ (audit'[i].gate = None) <=> (others = {})
                      /\ \A r \in others : audit'[i].gate <= rankEpochs[r]
  BY DEF GateStep
<1>1. Len(audit) \in Nat
  BY DEF EngineInv, TypeOK
<1>2. Succeed(h, q) /\ audit'[i] = Entry(q, TRUE)
  <2>1. ~(i \in 1..Len(audit))
    BY <1>1
  <2>2. audit'[i] # Entry(q, FALSE)
    BY DEF Entry
  <2> QED BY <2>1, <2>2, OutcomeAudits
<1>3. audit'[i].final = q.final /\ audit'[i].gate = q.gate /\ audit'[i].event = q.event
  BY <1>2 DEF Entry
<1>4. q.final >= B2 /\ q.final \in Tiers /\ q.gate = UrcGate(q.event.rank, q.final)
  BY <1>2, <1>3 DEF FreshGate, Records
<1>5. rankEpochs \in [Ranks -> 0..MaxFaults]
  BY DEF EngineInv, TypeOK
<1>6. /\ (q.gate = None) <=> (Survivors(q.event.rank) = {})
      /\ \A r \in Survivors(q.event.rank) : q.gate <= rankEpochs[r]
  BY <1>4, <1>5, GateIsLeast
<1> QED BY <1>3, <1>6

(* The gate read before recover() is not stale after it, provided the      *)
(* storage tiers do not suspend in recover(): layers/storage.py awaits     *)
(* nothing there.                                                          *)
THEOREM GateStaysFresh ==
  ASSUME Suspending \subseteq {B0, B1}
  PROVE  Spec => GateFresh
<1>1. ASSUME EngineInv, [Next]_vars PROVE [GateStep]_vars
  <2> SUFFICES ASSUME Next PROVE GateStep
    BY <1>1
  <2>1. CASE UNCHANGED audit
    <3>1. Len(audit) \in Nat
      BY <1>1 DEF EngineInv, TypeOK
    <3> QED BY <2>1, <3>1 DEF GateStep
  <2>2. ASSUME NEW h \in Handlers, NEW e \in Faults, OnEvent(h, e)
        PROVE  GateStep
    <3>1. CASE observeOnly
      BY <3>1 DEF GateStep
    <3>2. CASE ~observeOnly
      <4>1. PICK q : /\ q \in Records /\ RecordSound(q) /\ q.epoch = epoch + 1
                     /\ Outcome(h, q)
                     /\ Exhaust(h, q) \/ FreshGate(q)
        BY <1>1, <2>2, <3>2, OnEventOutcome
      <4>2. ~(Succeed(h, q) /\ Exhaust(h, q))
        BY <1>1, <4>1, OneVerdict
      <4> QED BY <1>1, <4>1, <4>2, OutcomeGated
    <3> QED BY <3>1, <3>2
  <2>3. ASSUME NEW h \in Handlers, Resume(h)
        PROVE  GateStep
    <3>1. h \in DOMAIN job
      BY <2>3 DEF Resume
    <3>2. PICK q : /\ MadeFrom(job[h], q) /\ Outcome(h, q)
                   /\ \/ q.final > job[h].final /\ FreshGate(q)
                      \/ q = job[h] /\ Succeed(h, q)
                      \/ Abandon(h, q) \/ Exhaust(h, q)
      BY <1>1, <2>3, ResumeOutcome
    <3>3. job[h].final \in {B0, B1}
      BY <1>1, <3>1 DEF EngineInv, HeldSuspends
    <3>4. ~(job[h].final >= B2)
      BY <3>3 DEF B0, B1, B2
    <3>5. CASE Abandon(h, q)
      BY <2>1, <3>5 DEF Abandon
    <3>6. CASE Exhaust(h, q)
      <4>1. ~Succeed(h, q)
        BY <1>1, <3>2, <3>6, OneVerdict DEF MadeFrom
      <4> QED BY <1>1, <3>2, <4>1, OutcomeGated DEF MadeFrom
    <3>7. CASE q = job[h]
      BY <1>1, <3>2, <3>4, <3>7, OutcomeGated DEF MadeFrom
    <3>8. CASE FreshGate(q)
      BY <1>1, <3>2, <3>8, OutcomeGated DEF MadeFrom
    <3> QED BY <3>2, <3>5, <3>6, <3>7, <3>8
  <2> QED BY <2>1, <2>2, <2>3 DEF Next, Tick, SetPolicy, Cancel, Abandon
<1> QED BY <1>1, EngineInvariant, PTL DEF Spec, GateFresh, GateStep

-----------------------------------------------------------------------------
(* The KPI log and the audit log. *)

(* Nothing is in flight in shadow mode, so nothing is recorded there.      *)
ShadowIdle == observeOnly => DOMAIN job = {}
KpiInv == KpiMatchesAudit /\ ShadowIdle

(* A step that leaves the KPI log alone, and adds to the audit log no      *)
(* success that counts, keeps the two in agreement.                        *)
LEMMA KpiKept ==
  ASSUME EngineInv, KpiMatchesAudit, UNCHANGED <<observeOnly, kpi>>,
         NEW q \in Records, RecordSound(q), NEW ok \in BOOLEAN, ok => observeOnly,
         audit' = audit \/ audit' = Append(audit, Entry(q, ok))
  PROVE  KpiMatchesAudit'
<1>1. CASE audit' = audit
  BY <1>1 DEF KpiMatchesAudit
<1>2. CASE audit' = Append(audit, Entry(q, ok))
  <2>1. /\ Len(audit') = Len(audit) + 1 /\ Len(audit) \in Nat
        /\ \A i \in 1..Len(audit) : audit'[i] = audit[i]
        /\ audit'[Len(audit) + 1] = Entry(q, ok)
    BY <1>2, EntryKeeps
  <2>2. Entry(q, ok).success = ok
    BY DEF Entry
  <2>3. \A i \in 1..Len(audit') : i \in 1..Len(audit) \/ i = Len(audit) + 1
    BY <2>1
  <2>4. \A i \in 1..Len(audit) : i \in 1..Len(audit')
    BY <2>1
  <2>5. \A i \in 1..Len(audit') : audit'[i].success /\ ~observeOnly' =>
          \E k \in 1..Len(kpi') : kpi'[k] = [epoch |-> audit'[i].epoch, tier |-> audit'[i].final]
    BY <2>1, <2>2, <2>3 DEF KpiMatchesAudit
  <2>6. \A k \in 1..Len(kpi') : \E i \in 1..Len(audit') :
          audit'[i].success /\ audit'[i].epoch = kpi'[k].epoch /\ audit'[i].final = kpi'[k].tier
    <3> SUFFICES ASSUME NEW k \in 1..Len(kpi)
                 PROVE  \E i \in 1..Len(audit') : /\ audit'[i].success
                                                  /\ audit'[i].epoch = kpi[k].epoch
                                                  /\ audit'[i].final = kpi[k].tier
      OBVIOUS
    <3>1. PICK i \in 1..Len(audit) : /\ audit[i].success /\ audit[i].epoch = kpi[k].epoch
                                     /\ audit[i].final = kpi[k].tier
      BY DEF KpiMatchesAudit
    <3>2. i \in 1..Len(audit') /\ audit'[i] = audit[i]
      BY <2>1, <2>4
    <3> QED BY <3>1, <3>2
  <2> QED BY <2>5, <2>6 DEF KpiMatchesAudit
<1> QED BY <1>1, <1>2

(* A success is written to both logs, under an epoch neither had.          *)
LEMMA KpiAdded ==
  ASSUME EngineInv, KpiMatchesAudit, UNCHANGED observeOnly, ~observeOnly,
         NEW h, NEW q \in Records, RecordSound(q), ~Audited(q.epoch), Succeed(h, q)
  PROVE  KpiMatchesAudit'
<1> DEFINE m == Len(kpi)
           n == Len(audit)
           b == [epoch |-> q.epoch, tier |-> q.final]
           a == Entry(q, TRUE)
<1>1. a.success = TRUE /\ a.epoch = q.epoch /\ a.final = q.final
  BY DEF Entry
<1>2. /\ Len(audit') = n + 1 /\ n \in Nat
      /\ \A i \in 1..n : audit'[i] = audit[i]
      /\ audit'[n + 1] = a
  BY EntryKeeps DEF Succeed
<1>3. /\ Len(kpi') = m + 1 /\ m \in Nat
      /\ \A k \in 1..m : kpi'[k] = kpi[k]
      /\ kpi'[m + 1] = b
  <2>1. b \in [epoch : 1..MaxFaults, tier : Tiers]
    BY DEF Records
  <2>2. kpi \in Seq([epoch : 1..MaxFaults, tier : Tiers]) /\ kpi' = Append(kpi, b)
    BY DEF EngineInv, TypeOK, Succeed, RecordKpi
  <2> QED BY <2>1, <2>2, AppendFacts
<1>4. b.epoch = q.epoch /\ b.tier = q.final
  OBVIOUS
<1>5. \A i \in 1..n : audit[i].epoch # q.epoch
  BY DEF Audited
<1>6. /\ \A i \in 1..n : audit[i].success =>
           \E k \in 1..m : kpi[k] = [epoch |-> audit[i].epoch, tier |-> audit[i].final]
      /\ \A k \in 1..m : \E i \in 1..n :
           audit[i].success /\ audit[i].epoch = kpi[k].epoch /\ audit[i].final = kpi[k].tier
      /\ \A k, l \in 1..m : kpi[k].epoch = kpi[l].epoch => k = l
  BY DEF KpiMatchesAudit
<1>7. 1..Len(audit') = 1..n \cup {n + 1} /\ 1..Len(kpi') = 1..m \cup {m + 1}
  BY <1>2, <1>3
<1>8. b = [epoch |-> a.epoch, tier |-> a.final]
  BY <1>1
<1> HIDE DEF a, b, m, n
<1>9. \A k \in 1..m : kpi[k].epoch # q.epoch
  BY <1>5, <1>6
<1>10. \A i \in 1..Len(audit') : audit'[i].success =>
         \E k \in 1..Len(kpi') : kpi'[k] = [epoch |-> audit'[i].epoch, tier |-> audit'[i].final]
  <2>1. ASSUME NEW i \in 1..n, audit'[i].success
        PROVE  \E k \in 1..Len(kpi') :
                 kpi'[k] = [epoch |-> audit'[i].epoch, tier |-> audit'[i].final]
    <3>1. audit'[i] = audit[i]
      BY <1>2
    <3>2. PICK k \in 1..m : kpi[k] = [epoch |-> audit[i].epoch, tier |-> audit[i].final]
      BY <1>6, <2>1, <3>1
    <3> QED BY <1>3, <1>7, <3>1, <3>2
  <2>2. kpi'[m + 1] = [epoch |-> audit'[n + 1].epoch, tier |-> audit'[n + 1].final]
    BY <1>2, <1>3, <1>8
  <2> QED BY <1>7, <2>1, <2>2
<1>11. \A k \in 1..Len(kpi') : \E i \in 1..Len(audit') :
         audit'[i].success /\ audit'[i].epoch = kpi'[k].epoch /\ audit'[i].final = kpi'[k].tier
  <2>1. ASSUME NEW k \in 1..m
        PROVE  \E i \in 1..Len(audit') : /\ audit'[i].success
                                         /\ audit'[i].epoch = kpi'[k].epoch
                                         /\ audit'[i].final = kpi'[k].tier
    <3>1. PICK i \in 1..n : /\ audit[i].success /\ audit[i].epoch = kpi[k].epoch
                            /\ audit[i].final = kpi[k].tier
      BY <1>6
    <3>2. kpi'[k] = kpi[k] /\ audit'[i] = audit[i]
      BY <1>2, <1>3
    <3> QED BY <1>7, <3>1, <3>2
  <2>2. /\ audit'[n + 1].success /\ audit'[n + 1].epoch = kpi'[m + 1].epoch
        /\ audit'[n + 1].final = kpi'[m + 1].tier
    BY <1>1, <1>2, <1>3, <1>4
  <2> QED BY <1>7, <2>1, <2>2
<1>12. \A k, l \in 1..Len(kpi') : kpi'[k].epoch = kpi'[l].epoch => k = l
  BY <1>3, <1>4, <1>6, <1>7, <1>9
<1> QED BY <1>10, <1>11, <1>12 DEF KpiMatchesAudit

LEMMA OutcomeKpi ==
  ASSUME EngineInv, KpiMatchesAudit, UNCHANGED observeOnly, ~observeOnly,
         NEW h, NEW q \in Records, RecordSound(q), ~Audited(q.epoch), Outcome(h, q)
  PROVE  KpiMatchesAudit'
<1>1. CASE Succeed(h, q)
  BY <1>1, KpiAdded
<1>2. CASE UNCHANGED <<kpi, audit>>
  BY <1>2 DEF KpiMatchesAudit
<1>3. CASE Exhaust(h, q)
  BY <1>3, KpiKept DEF Exhaust
<1> QED BY <1>1, <1>2, <1>3 DEF Outcome, Abandon

LEMMA KpiStep == EngineInv /\ KpiInv /\ [Next]_vars => KpiInv'
<1> SUFFICES ASSUME EngineInv, KpiInv, [Next]_vars PROVE KpiInv'
  OBVIOUS
<1>1. CASE UNCHANGED vars \/ Tick \/ SetPolicy
  BY <1>1 DEF vars, Tick, SetPolicy, KpiInv, ShadowIdle, KpiMatchesAudit
<1>2. ASSUME NEW h \in Handlers, NEW e \in Faults, OnEvent(h, e)
      PROVE  KpiInv'
  <2>1. /\ h \notin DOMAIN job /\ epoch < MaxFaults /\ epoch' = epoch + 1
        /\ observeOnly' = observeOnly
    BY <1>2 DEF OnEvent
  <2>2. OwnEpoch(h, epoch + 1)
    BY <2>1, NextEpochOwned
  <2>3. CASE ~observeOnly
    <3>1. PICK q : q \in Records /\ RecordSound(q) /\ q.epoch = epoch + 1 /\ Outcome(h, q)
      BY <1>2, <2>3, OnEventOutcome
    <3>2. KpiMatchesAudit'
      BY <2>1, <2>2, <2>3, <3>1, OutcomeKpi DEF OwnEpoch, KpiInv
    <3> QED BY <2>1, <2>3, <3>2 DEF KpiInv, ShadowIdle
  <2>4. CASE observeOnly
    <3> DEFINE r == Opened(e, TierAfterWindow(e), epoch + 1)
    <3>1. audit' = Append(audit, Entry(r, TRUE)) /\ UNCHANGED <<kpi, job>>
      BY <1>2, <2>4 DEF OnEvent
    <3>2. r \in Records /\ RecordSound(r)
      BY <2>2, OpenedIsSound DEF OwnEpoch, EngineInv
    <3> HIDE DEF r
    <3>3. KpiMatchesAudit'
      BY <2>1, <2>4, <3>1, <3>2, KpiKept DEF KpiInv
    <3> QED BY <2>1, <3>1, <3>3 DEF KpiInv, ShadowIdle
  <2> QED BY <2>3, <2>4
<1>3. ASSUME NEW h \in Handlers, Resume(h) \/ Cancel(h)
      PROVE  KpiInv'
  <2>1. h \in DOMAIN job /\ UNCHANGED <<observeOnly, epoch>>
    BY <1>3 DEF Resume, Cancel
  <2>2. ~observeOnly
    BY <2>1 DEF KpiInv, ShadowIdle
  <2>3. \E q \in Records : RecordSound(q) /\ q.epoch = job[h].epoch /\ Outcome(h, q)
    <3>1. CASE Resume(h)
      BY <3>1, ResumeOutcome DEF MadeFrom
    <3>2. CASE Cancel(h)
      BY <2>1, <3>2 DEF Cancel, Outcome, EngineInv, TypeOK, EscalationSound
    <3> QED BY <1>3, <3>1, <3>2
  <2>4. PICK q \in Records : RecordSound(q) /\ q.epoch = job[h].epoch /\ Outcome(h, q)
    BY <2>3
  <2>5. OwnEpoch(h, q.epoch)
    BY <2>1, <2>4, HeldEpochOwned
  <2>6. KpiMatchesAudit'
    BY <2>1, <2>2, <2>4, <2>5, OutcomeKpi DEF OwnEpoch, KpiInv
  <2> QED BY <2>1, <2>2, <2>6 DEF KpiInv, ShadowIdle
<1> QED BY <1>1, <1>2, <1>3 DEF Next

(* The savings reported are the recoveries audited: one KPI record per     *)
(* success, at the tier that absorbed it, and none in shadow mode.         *)
THEOREM KpiIsAudit == Spec => []KpiMatchesAudit
<1>1. Init => KpiInv
  <2> SUFFICES ASSUME Init PROVE KpiInv
    OBVIOUS
  <2>1. kpi = << >> /\ Len(kpi) = 0 /\ Len(audit) = 0 /\ DOMAIN job = {}
    BY DEF Init
  <2> QED BY <2>1 DEF KpiInv, KpiMatchesAudit, ShadowIdle
<1>2. KpiInv => KpiMatchesAudit
  BY DEF KpiInv
<1> QED BY <1>1, <1>2, KpiStep, EngineInvariant, PTL DEF Spec

-----------------------------------------------------------------------------
(* The correlation window and the whole stream of node failures. *)

Dropped == Len(arrivals) - Len(recent)

(* The deque is the end of the stream.                                     *)
RecentIsSuffix == /\ Len(recent) <= Len(arrivals)
                  /\ \A k \in 1..Len(recent) : recent[k] = arrivals[Dropped + k].entry

(* The stream is in the order of the clock.                                *)
TimesRise == /\ \A i \in 1..Len(arrivals) : arrivals[i].entry.t <= now
             /\ \A i, j \in 1..Len(arrivals) : i <= j => arrivals[i].entry.t <= arrivals[j].entry.t

(* What has left the deque had left the window of some arrival since.      *)
DroppedIsOld ==
  \A i \in 1..Dropped : \E j \in i..Len(arrivals) :
    arrivals[i].entry.t + arrivals[j].policy.window < arrivals[j].entry.t

BurstInv == RecentIsSuffix /\ TimesRise /\ DroppedIsOld /\ BurstEscalates

(* Windows, thresholds and times are numbers.                              *)
LEMMA PolicyTypes ==
  ASSUME NEW p \in Policies
  PROVE  p.window \in Nat /\ p.threshold \in Nat
<1>1. p.window \in Windows /\ p.threshold \in Thresholds
  BY DEF Policies
<1> QED BY <1>1, EngineAssumption

LEMMA ArrivalTypes ==
  ASSUME NEW a \in Arrivals
  PROVE  a.entry.t \in Nat /\ a.policy.window \in Nat /\ a.policy.threshold \in Nat
<1>1. a.entry \in B1Entries /\ a.policy \in Policies
  BY DEF Arrivals
<1>2. a.entry.t \in 0..MaxTime
  BY <1>1 DEF B1Entries
<1> QED BY <1>1, <1>2, EngineAssumption, PolicyTypes

(* Moving a set of indices up by D gives a set of the same size.           *)
LEMMA ShiftCardinality ==
  ASSUME NEW D \in Nat, NEW P, P \subseteq Nat,
         NEW B, IsFiniteSet(B), \A k \in P : D + k \in B
  PROVE  /\ Cardinality(P) \in Nat /\ Cardinality(B) \in Nat
         /\ Cardinality(P) <= Cardinality(B)
         /\ (\A j \in B : \E k \in P : j = D + k) => Cardinality(P) = Cardinality(B)
<1> DEFINE f == [k \in P |-> D + k]
<1>1. f \in Injection(P, B)
  BY DEF Injection, IsInjective
<1>2. IsFiniteSet(P) /\ Cardinality(P) <= Cardinality(B)
  BY <1>1, FS_Injection
<1>3. ASSUME \A j \in B : \E k \in P : j = D + k
      PROVE  Cardinality(B) <= Cardinality(P)
  <2>1. f \in Surjection(P, B)
    BY <1>1, <1>3 DEF Injection, Surjection
  <2> HIDE DEF f
  <2> QED BY <1>2, <2>1, FS_Surjection
<1>4. Cardinality(P) \in Nat /\ Cardinality(B) \in Nat
  BY <1>2, FS_CardinalityType
<1> QED BY <1>2, <1>3, <1>4

(* popleft stops at the first entry inside the window, and what it keeps   *)
(* is the deque from there on.                                             *)
LEMMA PrunedShape ==
  ASSUME NEW S, NEW q \in Seq(S), Len(q) >= 1, InWindow(q[Len(q)])
  PROVE  \E m \in 1..Len(q) :
           /\ \A i \in 1..(m - 1) : ~InWindow(q[i])
           /\ InWindow(q[m])
           /\ Len(Pruned(q)) = Len(q) - m + 1
           /\ \A k \in 1..Len(Pruned(q)) : Pruned(q)[k] = q[m + k - 1]
<1> DEFINE L == Len(q)
           K == {i \in 1..L : InWindow(q[i])}
           kept == {i \in 1..L : \E j \in 1..i : InWindow(q[j])}
<1>1. L \in Nat /\ L >= 1 /\ L \in K /\ K \in SUBSET Nat
  OBVIOUS
<1>2. PICK m \in K : \A n \in K : m <= n
  <2>1. K # {}
    BY <1>1
  <2> HIDE DEF K
  <2> QED BY <1>1, <2>1, LeastExists
<1>3. m \in 1..L /\ InWindow(q[m]) /\ \A i \in 1..(m - 1) : ~InWindow(q[i])
  BY <1>1, <1>2
<1>4. kept = m..L
  <2> DEFINE In(i) == InWindow(q[i])
  <2>1. m \in 1..L /\ In(m) /\ \A i \in 1..(m - 1) : ~In(i)
    BY <1>3
  <2>2. kept = {i \in 1..L : \E j \in 1..i : In(j)}
    OBVIOUS
  <2> HIDE DEF In, kept
  <2> QED BY <1>1, <2>1, <2>2
<1>5. Cardinality(kept) = L - m + 1
  <2>1. m \in Int /\ L \in Int /\ ~(m > L)
    BY <1>1, <1>3
  <2> HIDE DEF L, kept, K
  <2>2. Cardinality(m..L) = L - m + 1
    BY <2>1, FS_Interval
  <2> QED BY <1>4, <2>2
<1>6. Pruned(q) = SubSeq(q, m, L)
  <2>1. L - Cardinality(kept) + 1 = m
    BY <1>1, <1>3, <1>5
  <2> QED BY <2>1 DEF Pruned
<1>7. \A i \in m..L : q[i] \in S
  BY <1>1, <1>3
<1> HIDE DEF L, kept
<1>8. /\ Len(Pruned(q)) = L - m + 1
      /\ \A k \in 1..(L - m + 1) : Pruned(q)[k] = q[m + k - 1]
  BY <1>1, <1>3, <1>6, <1>7, SubSeqProperties
<1> QED BY <1>3, <1>8 DEF L

(* A node failure arrives: the stream grows by one, and the deque becomes  *)
(* the end of the stream, cut after the last entry outside the window.     *)
Arrives(e, n, D) ==
  /\ n = Len(arrivals) + 1 /\ n \in Nat
  /\ Len(arrivals') = n
  /\ \A i \in 1..(n - 1) : arrivals'[i] = arrivals[i]
  /\ arrivals'[n].entry = B1Entry(e) /\ arrivals'[n].policy = policy
  /\ arrivals'[n].escalated = (SameRack(recent', e) >= policy.threshold)
  /\ D \in Nat /\ D >= Dropped /\ D < n /\ Dropped \in Nat
  /\ Len(recent') = n - D
  /\ \A k \in 1..(n - D) : recent'[k] = arrivals'[D + k].entry
  /\ \A i \in (Dropped + 1)..D : ~InWindow(arrivals'[i].entry)
  /\ InWindow(arrivals'[D + 1].entry)

LEMMA WindowMoves ==
  ASSUME EngineInv, RecentIsSuffix, NEW e \in Faults, Classify(e) = B1,
         ApplyCorrelationWindow(e)
  PROVE  \E n, D : Arrives(e, n, D)
<1> DEFINE b == B1Entry(e)
           q == Append(recent, b)
           a == [entry |-> b, policy |-> policy, escalated |-> Correlated(e)]
           l == Len(recent)
           N == Len(arrivals)
<1>1. recent \in Seq(B1Entries) /\ arrivals \in Seq(Arrivals)
  BY DEF EngineInv, TypeOK
<1>2. b \in B1Entries /\ b.t = now
  BY EngineAssumption DEF EngineInv, TypeOK, B1Entry, B1Entries, TelemetryEvent
<1>3. recent' = Pruned(q) /\ arrivals' = Append(arrivals, a)
  BY DEF ApplyCorrelationWindow
<1>4. /\ q \in Seq(B1Entries) /\ l \in Nat /\ Len(q) = l + 1
      /\ \A i \in 1..l : q[i] = recent[i]
      /\ q[l + 1] = b
  BY <1>1, <1>2, AppendFacts
<1>5. /\ N \in Nat /\ Len(arrivals') = N + 1
      /\ \A i \in 1..N : arrivals'[i] = arrivals[i]
      /\ arrivals'[N + 1] = a
  BY <1>1, <1>3
<1>6. a.entry = b /\ a.policy = policy /\ a.escalated = Correlated(e)
  OBVIOUS
<1>7. Correlated(e) = (SameRack(recent', e) >= policy.threshold)
  BY <1>3 DEF Correlated
<1>8. l <= N /\ Dropped = N - l /\ \A k \in 1..l : recent[k] = arrivals[(N - l) + k].entry
  BY DEF RecentIsSuffix, Dropped
<1>9. InWindow(q[Len(q)])
  <2>1. policy.window \in Nat /\ now \in Nat
    <3> HIDE DEF q, b, a, l, N
    <3>1. policy \in Policies /\ now \in 0..MaxTime
      BY DEF EngineInv, TypeOK
    <3> QED BY <3>1, EngineAssumption, PolicyTypes
  <2>2. q[Len(q)].t = now
    BY <1>2, <1>4
  <2> HIDE DEF q
  <2> QED BY <2>1, <2>2 DEF InWindow
<1> HIDE DEF b, q, a, l, N
<1>9a. Len(q) >= 1
  BY <1>4
<1>10. PICK m \in 1..Len(q) :
           /\ \A i \in 1..(m - 1) : ~InWindow(q[i])
           /\ InWindow(q[m])
           /\ Len(Pruned(q)) = Len(q) - m + 1
           /\ \A k \in 1..Len(Pruned(q)) : Pruned(q)[k] = q[m + k - 1]
  BY <1>4, <1>9, <1>9a, PrunedShape
<1>11. \A x \in 1..(l + 1) : q[x] = arrivals'[(N - l) + x].entry
  <2> SUFFICES ASSUME NEW x \in 1..(l + 1) PROVE q[x] = arrivals'[(N - l) + x].entry
    OBVIOUS
  <2>1. CASE x \in 1..l
    BY <1>4, <1>5, <1>8, <2>1
  <2>2. CASE x = l + 1
    BY <1>4, <1>5, <1>6, <1>8, <2>2
  <2> QED BY <1>4, <2>1, <2>2
<1> DEFINE D == (N - l) + (m - 1)
           n == N + 1
<1>12. n \in Nat /\ D \in Nat /\ D >= Dropped /\ D < n /\ Dropped \in Nat
  BY <1>4, <1>5, <1>8, <1>10
<1>13. Len(recent') = n - D
  BY <1>3, <1>4, <1>5, <1>8, <1>10
<1>14. \A k \in 1..(n - D) : recent'[k] = arrivals'[D + k].entry
  <2> SUFFICES ASSUME NEW k \in 1..(n - D) PROVE recent'[k] = arrivals'[D + k].entry
    OBVIOUS
  <2>1. k \in 1..Len(Pruned(q)) /\ m + k - 1 \in 1..(l + 1) /\ (N - l) + (m + k - 1) = D + k
    BY <1>3, <1>4, <1>5, <1>8, <1>10, <1>12, <1>13
  <2>2. recent'[k] = q[m + k - 1]
    BY <1>3, <1>10, <2>1
  <2>3. q[m + k - 1] = arrivals'[(N - l) + (m + k - 1)].entry
    BY <1>11, <2>1
  <2> QED BY <2>1, <2>2, <2>3
<1>15. \A i \in (Dropped + 1)..D : ~InWindow(arrivals'[i].entry)
  <2> SUFFICES ASSUME NEW i \in (Dropped + 1)..D PROVE ~InWindow(arrivals'[i].entry)
    OBVIOUS
  <2>1. i - (N - l) \in 1..(m - 1) /\ i - (N - l) \in 1..(l + 1)
    BY <1>4, <1>5, <1>8, <1>10
  <2>2. (N - l) + (i - (N - l)) = i
    BY <1>4, <1>5, <2>1
  <2>3. q[i - (N - l)] = arrivals'[i].entry
    BY <1>11, <2>1, <2>2
  <2> QED BY <1>10, <2>1, <2>3
<1>16. InWindow(arrivals'[D + 1].entry)
  <2>1. m \in 1..(l + 1) /\ (N - l) + m = D + 1
    BY <1>4, <1>5, <1>10
  <2> QED BY <1>10, <1>11, <2>1
<1>17. /\ n = N + 1 /\ Len(arrivals') = n
       /\ \A i \in 1..(n - 1) : arrivals'[i] = arrivals[i]
       /\ arrivals'[n].entry = b /\ arrivals'[n].policy = policy
       /\ arrivals'[n].escalated = (SameRack(recent', e) >= policy.threshold)
  BY <1>5, <1>6, <1>7
<1> HIDE DEF D, n
<1>18. Arrives(e, n, D)
  BY <1>12, <1>13, <1>14, <1>15, <1>16, <1>17 DEF Arrives, N, b
<1> QED BY <1>18

(* The stream stays in the order of the clock, and what the cut drops is   *)
(* outside the window that made it.                                        *)
LEMMA ArrivalKeeps ==
  ASSUME EngineInv, BurstInv, UNCHANGED now, NEW e \in Faults, NEW n, NEW D, Arrives(e, n, D),
         arrivals' \in Seq(Arrivals)
  PROVE  RecentIsSuffix' /\ TimesRise' /\ DroppedIsOld'
<1>1. now \in Nat /\ B1Entry(e).t = now
  BY EngineAssumption DEF EngineInv, TypeOK, B1Entry
<1>2. Len(arrivals) = n - 1 /\ n \in Nat /\ n >= 1
  BY DEF Arrives, EngineInv, TypeOK
<1>3. \A i \in 1..n : arrivals'[i].entry.t \in Nat /\ arrivals'[i].policy.window \in Nat
  <2>1. \A i \in 1..n : arrivals'[i] \in Arrivals
    BY DEF Arrives
  <2> QED BY <2>1, ArrivalTypes
<1>4. Dropped' = D
  BY <1>2 DEF Arrives, Dropped
<1>5. RecentIsSuffix'
  <2>1. Len(recent') <= Len(arrivals')
    BY <1>2 DEF Arrives
  <2>2. \A k \in 1..Len(recent') : recent'[k] = arrivals'[D + k].entry
    BY DEF Arrives
  <2> QED BY <1>4, <2>1, <2>2 DEF RecentIsSuffix
<1>6. /\ \A i \in 1..(n - 1) : arrivals'[i] = arrivals[i]
      /\ Len(arrivals') = n /\ arrivals'[n].entry.t = now
  BY <1>1 DEF Arrives
<1>7. /\ \A i \in 1..n : arrivals'[i].entry.t <= now
      /\ \A i, j \in 1..n : i <= j => arrivals'[i].entry.t <= arrivals'[j].entry.t
  <2>1. /\ \A i \in 1..(n - 1) : arrivals[i].entry.t <= now
        /\ \A i, j \in 1..(n - 1) : i <= j => arrivals[i].entry.t <= arrivals[j].entry.t
    BY <1>2 DEF BurstInv, TimesRise
  <2>2. \A i \in 1..n : arrivals'[i].entry.t <= now
    BY <1>1, <1>2, <1>6, <2>1
  <2>3. ASSUME NEW i \in 1..n, NEW j \in 1..n, i <= j
        PROVE  arrivals'[i].entry.t <= arrivals'[j].entry.t
    <3>1. CASE j = n
      BY <1>6, <2>2, <3>1
    <3>2. CASE j # n
      BY <1>2, <1>6, <2>1, <2>3, <3>2
    <3> QED BY <3>1, <3>2
  <2> QED BY <2>2, <2>3
<1>8. TimesRise'
  BY <1>6, <1>7 DEF TimesRise
<1>9. ASSUME NEW i \in 1..D
      PROVE  \E j \in i..n :
               arrivals'[i].entry.t + arrivals'[j].policy.window < arrivals'[j].entry.t
  <2>0. D \in Nat /\ D < n /\ Dropped \in Nat
    BY DEF Arrives
  <2>1. CASE i \in 1..Dropped
    <3>1. PICK j \in i..(n - 1) :
            arrivals[i].entry.t + arrivals[j].policy.window < arrivals[j].entry.t
      BY <1>2, <2>1 DEF BurstInv, DroppedIsOld
    <3>2. arrivals'[i] = arrivals[i] /\ arrivals'[j] = arrivals[j] /\ j \in i..n
      BY <1>2, <1>6, <2>0
    <3> QED BY <3>1, <3>2
  <2>2. CASE i \notin 1..Dropped
    <3>1. ~InWindow(arrivals'[i].entry)
      BY <2>0, <2>2 DEF Arrives
    <3>2. arrivals'[n].policy = policy /\ n \in i..n
      BY <1>2, <2>0 DEF Arrives
    <3>3. ~(arrivals'[i].entry.t + arrivals'[n].policy.window >= arrivals'[n].entry.t)
      BY <1>6, <3>1, <3>2 DEF InWindow
    <3>4. arrivals'[i].entry.t \in Nat /\ arrivals'[n].policy.window \in Nat /\ now \in Nat
      BY <1>1, <1>2, <1>3, <2>0
    <3> QED BY <1>6, <3>2, <3>3, <3>4
  <2> QED BY <2>1, <2>2
<1>10. DroppedIsOld'
  BY <1>4, <1>6, <1>9 DEF DroppedIsOld
<1> QED BY <1>5, <1>8, <1>10

(* The count made in the pruned deque is at most the count in the whole    *)
(* stream, and the same if nothing was dropped by a shorter window.        *)
LEMMA CountsAgree ==
  ASSUME EngineInv, BurstInv, UNCHANGED now, NEW e \in Faults, NEW n, NEW D, Arrives(e, n, D),
         arrivals' \in Seq(Arrivals)
  PROVE  LET seen == {j \in 1..n : /\ arrivals'[j].entry.rack = arrivals'[n].entry.rack
                                   /\ arrivals'[j].entry.t + arrivals'[n].policy.window
                                        >= arrivals'[n].entry.t}
             c == Cardinality(seen)
             d == SameRack(recent', e)
         IN  /\ c \in Nat /\ d \in Nat /\ d <= c
             /\ (\A j \in 1..n : arrivals'[j].policy.window >= arrivals'[n].policy.window)
                  => d = c
<1> DEFINE seen == {j \in 1..n : /\ arrivals'[j].entry.rack = arrivals'[n].entry.rack
                                 /\ arrivals'[j].entry.t + arrivals'[n].policy.window
                                      >= arrivals'[n].entry.t}
           P == {k \in 1..(n - D) : recent'[k].rack = e.rack}
<1>1. n \in Nat /\ D \in Nat /\ D < n
  BY DEF Arrives
<1>2. SameRack(recent', e) = Cardinality(P)
  BY DEF SameRack, Arrives
<1>3. TimesRise' /\ DroppedIsOld' /\ RecentIsSuffix'
  BY ArrivalKeeps
<1>4. \A k \in 1..(n - D) : recent'[k] = arrivals'[D + k].entry
  BY DEF Arrives
<1>5. arrivals'[n].entry.rack = e.rack /\ arrivals'[n].entry.t = now /\ arrivals'[n].policy = policy
  BY DEF Arrives, B1Entry
<1>6. \A j \in 1..n : arrivals'[j].entry.t \in Nat /\ arrivals'[j].policy.window \in Nat
  <2>1. \A i \in 1..n : arrivals'[i] \in Arrivals
    BY DEF Arrives
  <2> QED BY <2>1, ArrivalTypes
<1>7. \A i, j \in 1..n : i <= j => arrivals'[i].entry.t <= arrivals'[j].entry.t
  BY <1>3 DEF TimesRise, Arrives
<1>8. arrivals'[D + 1].entry.t + arrivals'[n].policy.window >= arrivals'[n].entry.t
  BY <1>5 DEF Arrives, InWindow
<1>9. \A k \in P : D + k \in seen
  <2> SUFFICES ASSUME NEW k \in P PROVE D + k \in seen
    OBVIOUS
  <2>1. k \in 1..(n - D) /\ recent'[k].rack = e.rack /\ D + k \in 1..n /\ D + 1 \in 1..n
    BY <1>1
  <2>2. arrivals'[D + k].entry.rack = arrivals'[n].entry.rack
    BY <1>4, <1>5, <2>1
  <2>3. arrivals'[D + 1].entry.t <= arrivals'[D + k].entry.t
    BY <1>1, <1>7, <2>1
  <2>4. arrivals'[D + k].entry.t + arrivals'[n].policy.window >= arrivals'[n].entry.t
    <3>1. /\ arrivals'[D + 1].entry.t \in Nat /\ arrivals'[D + k].entry.t \in Nat
          /\ arrivals'[n].policy.window \in Nat /\ arrivals'[n].entry.t \in Nat
      BY <1>1, <1>6, <2>1
    <3> QED BY <1>8, <2>3, <3>1
  <2> QED BY <2>1, <2>2, <2>4
<1>10. IsFiniteSet(seen)
  <2>1. IsFiniteSet(1..n) /\ seen \in SUBSET (1..n)
    BY <1>1, FS_Interval
  <2> QED BY <2>1, FS_Subset
<1>11. ASSUME \A j \in 1..n : arrivals'[j].policy.window >= arrivals'[n].policy.window,
              NEW j \in seen
       PROVE  \E k \in P : j = D + k
  <2>1. j \in 1..n /\ arrivals'[j].entry.rack = e.rack
        /\ arrivals'[j].entry.t + arrivals'[n].policy.window >= arrivals'[n].entry.t
    BY <1>5
  <2>2. ~(j \in 1..D)
    <3> SUFFICES ASSUME j \in 1..D PROVE FALSE
      OBVIOUS
    <3>1. Dropped' = D /\ Len(arrivals') = n
      BY <1>1 DEF Arrives, Dropped
    <3>2. PICK x \in j..n :
            arrivals'[j].entry.t + arrivals'[x].policy.window < arrivals'[x].entry.t
      BY <1>3, <3>1 DEF DroppedIsOld
    <3>3. x \in 1..n /\ n \in 1..n /\ x <= n
      BY <1>1, <2>1
    <3>4. /\ arrivals'[x].entry.t <= arrivals'[n].entry.t
          /\ arrivals'[x].policy.window >= arrivals'[n].policy.window
      BY <1>7, <1>11, <3>3
    <3>5. /\ arrivals'[j].entry.t \in Nat /\ arrivals'[x].entry.t \in Nat
          /\ arrivals'[n].entry.t \in Nat
          /\ arrivals'[x].policy.window \in Nat /\ arrivals'[n].policy.window \in Nat
      BY <1>6, <2>1, <3>3
    <3> QED BY <2>1, <3>2, <3>4, <3>5
  <2>3. j - D \in 1..(n - D) /\ j = D + (j - D)
    BY <1>1, <2>1, <2>2
  <2>4. recent'[j - D] = arrivals'[j].entry
    BY <1>4, <2>3
  <2>5. j - D \in P
    BY <2>1, <2>3, <2>4
  <2> QED BY <2>3, <2>5
<1>12. P \subseteq Nat
  BY <1>1
<1> HIDE DEF P, seen
<1>13. /\ Cardinality(P) \in Nat /\ Cardinality(seen) \in Nat
       /\ Cardinality(P) <= Cardinality(seen)
       /\ (\A j \in seen : \E k \in P : j = D + k) => Cardinality(P) = Cardinality(seen)
  BY <1>1, <1>9, <1>10, <1>12, ShiftCardinality
<1> QED BY <1>2, <1>11, <1>13 DEF seen

(* What was decided of the arrivals before this one does not change.       *)
LEMMA EarlierArrivals ==
  ASSUME EngineInv, BurstEscalates, NEW e \in Faults, NEW n, NEW D, Arrives(e, n, D),
         NEW i \in 1..(n - 1)
  PROVE  LET earlier == {j \in 1..i : /\ arrivals'[j].entry.rack = arrivals'[i].entry.rack
                                      /\ arrivals'[j].entry.t + arrivals'[i].policy.window
                                           >= arrivals'[i].entry.t}
             burst == Cardinality(earlier) >= arrivals'[i].policy.threshold
         IN  /\ arrivals'[i].escalated => burst
             /\ (\A j \in 1..i : arrivals'[j].policy.window >= arrivals'[i].policy.window)
                  => (burst => arrivals'[i].escalated)
<1>1. n \in Nat /\ n = Len(arrivals) + 1 /\ Len(arrivals) \in Nat
      /\ \A j \in 1..(n - 1) : arrivals'[j] = arrivals[j]
  BY DEF Arrives, EngineInv, TypeOK
<1>2. i \in 1..Len(arrivals) /\ arrivals'[i] = arrivals[i]
      /\ \A j \in 1..i : arrivals'[j] = arrivals[j]
  BY <1>1
<1>3. {j \in 1..i : /\ arrivals'[j].entry.rack = arrivals'[i].entry.rack
                    /\ arrivals'[j].entry.t + arrivals'[i].policy.window
                         >= arrivals'[i].entry.t} = Before(i)
  BY <1>2 DEF Before
<1>4. /\ arrivals[i].escalated => IsBurst(i)
      /\ (\A j \in 1..i : arrivals[j].policy.window >= arrivals[i].policy.window)
           => (IsBurst(i) => arrivals[i].escalated)
  BY <1>2 DEF BurstEscalates
<1> QED BY <1>2, <1>3, <1>4 DEF IsBurst

LEMMA BurstArrives ==
  ASSUME EngineInv, BurstInv, UNCHANGED now, NEW e \in Faults, NEW n, NEW D, Arrives(e, n, D),
         arrivals' \in Seq(Arrivals)
  PROVE  BurstInv'
<1>1. RecentIsSuffix' /\ TimesRise' /\ DroppedIsOld'
  BY ArrivalKeeps
<1>2. n \in Nat /\ n >= 1 /\ Len(arrivals') = n
  BY DEF Arrives, EngineInv, TypeOK
<1> DEFINE before(i) == {j \in 1..i : /\ arrivals'[j].entry.rack = arrivals'[i].entry.rack
                                      /\ arrivals'[j].entry.t + arrivals'[i].policy.window
                                           >= arrivals'[i].entry.t}
           burst(i) == Cardinality(before(i)) >= arrivals'[i].policy.threshold
           agrees(i) ==
             /\ arrivals'[i].escalated => burst(i)
             /\ (\A j \in 1..i : arrivals'[j].policy.window >= arrivals'[i].policy.window)
                  => (burst(i) => arrivals'[i].escalated)
<1>3. \A i \in 1..(n - 1) : agrees(i)
  BY EarlierArrivals DEF BurstInv
<1>4. agrees(n)
  <2> DEFINE c == Cardinality(before(n))
             d == SameRack(recent', e)
             th == arrivals'[n].policy.threshold
             steady == \A j \in 1..n : arrivals'[j].policy.window >= arrivals'[n].policy.window
  <2>1. c \in Nat /\ d \in Nat /\ d <= c /\ (steady => d = c)
    BY CountsAgree
  <2>2. arrivals'[n] \in Arrivals
    BY <1>2
  <2>3. th \in Nat
    BY <2>2, ArrivalTypes
  <2>4. arrivals'[n].escalated <=> d >= th
    BY DEF Arrives
  <2> HIDE DEF c, d, th, steady
  <2>5. (d >= th => c >= th) /\ (steady => (c >= th => d >= th))
    BY <2>1, <2>3
  <2> USE DEF c, th, steady
  <2> QED BY <2>4, <2>5
<1> HIDE DEF agrees
<1>5. \A i \in 1..n : agrees(i)
  BY <1>2, <1>3, <1>4
<1> USE DEF agrees
<1>6. BurstEscalates'
  BY <1>2, <1>5 DEF BurstEscalates, IsBurst, Before
<1> QED BY <1>1, <1>6 DEF BurstInv

LEMMA BurstStep == EngineInv /\ BurstInv /\ [Next]_vars => BurstInv'
<1> SUFFICES ASSUME EngineInv, BurstInv, [Next]_vars PROVE BurstInv'
  OBVIOUS
<1>1. CASE UNCHANGED <<now, recent, arrivals>>
  BY <1>1 DEF BurstInv, RecentIsSuffix, Dropped, TimesRise, DroppedIsOld,
              BurstEscalates, IsBurst, Before
<1>2. CASE Tick
  <2>1. UNCHANGED <<recent, arrivals>> /\ now' = now + 1 /\ now \in Nat
    BY <1>2, EngineAssumption DEF Tick, EngineInv, TypeOK
  <2>2. \A i \in 1..Len(arrivals) : arrivals[i].entry.t \in Nat
    <3>1. \A i \in 1..Len(arrivals) : arrivals[i] \in Arrivals
      BY DEF EngineInv, TypeOK
    <3> QED BY <3>1, ArrivalTypes
  <2>3. TimesRise'
    BY <2>1, <2>2 DEF BurstInv, TimesRise
  <2>4. (RecentIsSuffix /\ DroppedIsOld /\ BurstEscalates)'
    BY <2>1 DEF BurstInv, RecentIsSuffix, Dropped, DroppedIsOld, BurstEscalates, IsBurst, Before
  <2> QED BY <2>3, <2>4 DEF BurstInv
<1>3. ASSUME NEW h \in Handlers, NEW e \in Faults, OnEvent(h, e)
      PROVE  BurstInv'
  <2>1. ApplyCorrelationWindow(e) /\ now' = now
    BY <1>3 DEF OnEvent
  <2>2. CASE Classify(e) = B1
    <3>1. \E n, D : Arrives(e, n, D)
      BY <2>1, <2>2, WindowMoves DEF BurstInv
    <3>2. arrivals' \in Seq(Arrivals)
      BY <2>1, WindowTypes DEF EngineInv
    <3> QED BY <2>1, <3>1, <3>2, BurstArrives
  <2>3. CASE Classify(e) # B1
    BY <1>1, <2>1, <2>3 DEF ApplyCorrelationWindow
  <2> QED BY <2>2, <2>3
<1>4. CASE UNCHANGED vars \/ SetPolicy \/ \E h \in Handlers : Resume(h) \/ Cancel(h)
  BY <1>1, <1>4 DEF vars, SetPolicy, Resume, Cancel
<1> QED BY <1>2, <1>3, <1>4 DEF Next

(* The pruned deque decides as the whole stream of node failures would: a  *)
(* B1 is made a B4 only if it is at least the Nth of its rack in the       *)
(* window, and always if no earlier arrival pruned with a shorter one.     *)
THEOREM BurstsEscalate == Spec => []BurstEscalates
<1>1. Init => BurstInv
  <2> SUFFICES ASSUME Init PROVE BurstInv
    OBVIOUS
  <2>1. Len(arrivals) = 0 /\ Len(recent) = 0
    BY DEF Init
  <2>2. Dropped = 0
    BY <2>1 DEF Dropped
  <2> QED BY <2>1, <2>2 DEF BurstInv, RecentIsSuffix, TimesRise, DroppedIsOld, BurstEscalates
<1>2. BurstInv => BurstEscalates
  BY DEF BurstInv
<1> QED BY <1>1, <1>2, BurstStep, EngineInvariant, PTL DEF Spec

-----------------------------------------------------------------------------
(* What the rest of the runtime sees of one call, of event e at epoch ep:  *)
(* it waits in a layer, has its audit entry, or is lost.                   *)

Gone(h) == /\ DOMAIN job' = DOMAIN job \ {h}
           /\ \A g \in DOMAIN job' : job'[g] = job[g]

Waits(h, e, ep) ==
  /\ DOMAIN job' = DOMAIN job \cup {h}
  /\ job'[h].event = e /\ job'[h].epoch = ep
  /\ \A g \in DOMAIN job : g # h => job'[g] = job[g]
  /\ UNCHANGED <<rankEpochs, audit, lost>>

Ends(h, e, ep) == \E a \in Entries :
  /\ a.event = e /\ a.epoch = ep
  /\ audit' = Append(audit, a)
  /\ \/ a.success /\ rankEpochs' = [rankEpochs EXCEPT ![e.rank] = ep]
     \/ (a.success => observeOnly) /\ rankEpochs' = rankEpochs
  /\ Gone(h)
  /\ UNCHANGED lost

Loses(h, ep) == lost' = lost \cup {ep} /\ Gone(h) /\ UNCHANGED <<rankEpochs, audit>>

CallStep(h, e, ep) == Waits(h, e, ep) \/ Ends(h, e, ep) \/ (Raising # {} /\ Loses(h, ep))

LEMMA EntryOf ==
  ASSUME NEW q \in Records, NEW ok \in BOOLEAN
  PROVE  /\ Entry(q, ok) \in Entries
         /\ Entry(q, ok).event = q.event /\ Entry(q, ok).epoch = q.epoch
         /\ Entry(q, ok).success = ok
BY DEF Entry, Entries, Records

LEMMA OutcomeCalls ==
  ASSUME NEW h, NEW q \in Records
  PROVE  /\ Hold(h, q) /\ UNCHANGED <<rankEpochs, audit, lost>> => Waits(h, q.event, q.epoch)
         /\ Succeed(h, q) => Ends(h, q.event, q.epoch)
         /\ Abandon(h, q) => Loses(h, q.epoch)
         /\ Exhaust(h, q) => Ends(h, q.event, q.epoch)
<1>1. ASSUME Hold(h, q), UNCHANGED <<rankEpochs, audit, lost>> PROVE Waits(h, q.event, q.epoch)
  BY <1>1, HoldFacts DEF Waits
<1>2. Free(h) => Gone(h)
  BY FreeFacts DEF Gone
<1>3. ASSUME Succeed(h, q) PROVE Ends(h, q.event, q.epoch)
  <2>1. Entry(q, TRUE) \in Entries /\ Entry(q, TRUE).event = q.event
        /\ Entry(q, TRUE).epoch = q.epoch /\ Entry(q, TRUE).success
    BY EntryOf
  <2> QED BY <1>2, <1>3, <2>1 DEF Succeed, ReportEpoch, Ends
<1>4. ASSUME Exhaust(h, q) PROVE Ends(h, q.event, q.epoch)
  <2>1. Entry(q, FALSE) \in Entries /\ Entry(q, FALSE).event = q.event
        /\ Entry(q, FALSE).epoch = q.epoch /\ ~Entry(q, FALSE).success
    BY EntryOf
  <2> QED BY <1>2, <1>4, <2>1 DEF Exhaust, Ends
<1>5. Abandon(h, q) => Loses(h, q.epoch)
  BY <1>2 DEF Abandon, Loses
<1> QED BY <1>1, <1>3, <1>4, <1>5

LEMMA RouteCalls ==
  ASSUME TypeOK, NEW h, NEW r \in Records, RecordSound(r),
         NEW from \in Nat, from >= r.final, Route(h, r, from)
  PROVE  CallStep(h, r.event, r.epoch)
<1>0. r.final \in 0..4 /\ B4 = 4
  BY DEF Records, Tiers, B0, B4
<1>1. CASE Exhaust(h, r)
  BY <1>1, OutcomeCalls DEF CallStep
<1>2. ASSUME NEW tier \in from..B4,
             \/ tier \in Suspending /\ Hold(h, Attempt(r, tier))
                                    /\ UNCHANGED <<rankEpochs, kpi, audit, lost>>
             \/ Succeed(h, Attempt(r, tier))
             \/ tier \in Raising /\ Abandon(h, Attempt(r, tier))
             \/ Exhaust(h, Attempt(r, tier))
      PROVE  CallStep(h, r.event, r.epoch)
  <2> DEFINE q == Attempt(r, tier)
  <2>1. tier \in Tiers /\ tier >= r.final
    BY <1>0 DEF Tiers, B0, B4
  <2>2. q \in Records /\ q.epoch = r.epoch /\ q.event = r.event
    BY <2>1, AttemptIsSound
  <2> HIDE DEF q
  <2>3. \/ Hold(h, q) /\ UNCHANGED <<rankEpochs, audit, lost>>
        \/ Succeed(h, q) \/ (Raising # {} /\ Abandon(h, q)) \/ Exhaust(h, q)
    BY <1>2 DEF q
  <2> QED BY <2>2, <2>3, OutcomeCalls DEF CallStep
<1> QED BY <1>1, <1>2 DEF Route

LEMMA OnEventCalls ==
  ASSUME EngineInv, NEW h, NEW e \in Faults, OnEvent(h, e)
  PROVE  /\ h \notin DOMAIN job /\ epoch' = epoch + 1 /\ epoch + 1 \in 1..MaxFaults
         /\ CallStep(h, e, epoch + 1)
<1> DEFINE r == Opened(e, TierAfterWindow(e), epoch + 1)
<1>1. h \notin DOMAIN job /\ epoch' = epoch + 1 /\ epoch + 1 \in 1..MaxFaults
  BY EngineAssumption DEF OnEvent, EngineInv, TypeOK
<1>2. r \in Records /\ RecordSound(r) /\ r.epoch = epoch + 1 /\ r.final = r.original
  BY <1>1, OpenedIsSound DEF EngineInv
<1>3. r.event = e /\ r.final \in Nat
  BY <1>2 DEF Opened, Records, Tiers, B0, B4
<1>4. CASE observeOnly
  <2>1. audit' = Append(audit, Entry(r, TRUE)) /\ UNCHANGED <<rankEpochs, job, lost>>
    BY <1>4 DEF OnEvent
  <2> HIDE DEF r
  <2>2. Gone(h)
    BY <1>1, <2>1 DEF Gone
  <2>3. Entry(r, TRUE) \in Entries /\ Entry(r, TRUE).event = e /\ Entry(r, TRUE).epoch = epoch + 1
    BY <1>2, <1>3, EntryOf
  <2> QED BY <1>1, <1>4, <2>1, <2>2, <2>3 DEF CallStep, Ends
<1>5. CASE ~observeOnly
  <2>1. Route(h, r, r.final)
    BY <1>2, <1>5 DEF OnEvent
  <2> HIDE DEF r
  <2>2. CallStep(h, r.event, r.epoch)
    BY <1>2, <1>3, <2>1, RouteCalls DEF EngineInv
  <2> QED BY <1>1, <1>2, <1>3, <2>2
<1> QED BY <1>4, <1>5

LEMMA ResumeCalls ==
  ASSUME EngineInv, NEW h, Resume(h)
  PROVE  /\ h \in DOMAIN job /\ epoch' = epoch
         /\ CallStep(h, job[h].event, job[h].epoch)
<1> DEFINE r == job[h]
<1>1. h \in DOMAIN job /\ r \in Records /\ RecordSound(r) /\ epoch' = epoch
  BY DEF Resume, EngineInv, TypeOK, EscalationSound
<1>2. r.final \in 0..4
  BY <1>1 DEF Records, Tiers, B0, B4
<1>3. \/ Succeed(h, r) \/ Route(h, r, r.final + 1) \/ (Raising # {} /\ Abandon(h, r))
  BY DEF Resume
<1> HIDE DEF r
<1>4. CallStep(h, r.event, r.epoch)
  BY <1>1, <1>2, <1>3, OutcomeCalls, RouteCalls DEF EngineInv, CallStep
<1> QED BY <1>1, <1>4 DEF r

LEMMA CancelCalls ==
  ASSUME EngineInv, NEW h, Cancel(h)
  PROVE  h \in DOMAIN job /\ epoch' = epoch /\ Loses(h, job[h].epoch)
BY OutcomeCalls DEF Cancel, EngineInv, TypeOK
=============================================================================
