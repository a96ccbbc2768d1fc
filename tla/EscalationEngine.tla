-------------------------- MODULE EscalationEngine --------------------------
(***************************************************************************)
(* The escalation policy engine: aegis/policy/engine.py with the failure   *)
(* classifier, the fault epoch service, the recovery consensus (URC) and   *)
(* the KPI log it drives.  The recovery layers appear as what the contract *)
(* of aegis/layers/base.py lets any layer do: refuse a fault, fail,        *)
(* succeed, raise, and suspend inside recover().                           *)
(*                                                                         *)
(* Each handler runs one call of _on_event at a time.  Between two         *)
(* suspensions a call is one step, so the tiers it climbs without          *)
(* suspending are one choice of where it stops.                            *)
(***************************************************************************)
EXTENDS Naturals, Sequences, FiniteSets, Classifier

CONSTANTS Handlers,    \* calls of _on_event that may be in flight together
          Faults,      \* the events sensors publish: [signal, rank, node, rack]
          Ranks, Nodes, Racks,
          NoRack,      \* rack_id is None
          Windows,     \* values of correlation_window_secs
          Thresholds,  \* values of correlation_node_threshold
          Suspending,  \* tiers whose layer really suspends in recover()
          Raising,     \* tiers whose layer may raise in recover()
          ObserveOnly, \* the values _observe_only may have been given by init()
          MaxFaults,   \* bound: _on_event is called at most MaxFaults times
          MaxTime      \* bound on the clock

(* aegis/telemetry/events.py.                                              *)
TelemetryEvent == [signal : FaultSignal, rank : Ranks, node : Nodes, rack : Racks \cup {NoRack}]

ASSUME EngineAssumption ==
  /\ Ranks # {} /\ NoRack \notin Racks
  /\ Faults \subseteq TelemetryEvent
  /\ Windows \subseteq Nat /\ Thresholds \subseteq Nat /\ MaxFaults \in Nat /\ MaxTime \in Nat
  /\ Suspending \subseteq Tiers /\ Raising \subseteq Tiers
  /\ ObserveOnly \subseteq BOOLEAN

VARIABLES
  now,          \* time.monotonic()
  observeOnly,  \* _observe_only
  policy,       \* the OperatorPolicy: [window, threshold]
  epoch,        \* FaultEpochService._epoch
  recent,       \* _recent_b1s
  rankEpochs,   \* URC _rank_epochs, 0 when the rank has not reported
  kpi,          \* KPIMeter._records: [epoch, tier]
  audit,        \* _history
  job,          \* the FaultRecord of each handler suspended in recover()
  lost,         \* history: epochs whose call raised or was cancelled
  arrivals      \* history: every B1 seen, and whether it was made a B4

vars == <<now, observeOnly, policy, epoch, recent, rankEpochs, kpi, audit, job, lost, arrivals>>

None == 0    \* no epoch reported, no min_valid_epoch: epochs start at 1

Init == /\ now = 0
        /\ observeOnly \in ObserveOnly
        /\ policy \in [window : Windows, threshold : Thresholds]
        /\ epoch = 0
        /\ recent = << >>
        /\ rankEpochs = [r \in Ranks |-> None]
        /\ kpi = << >>
        /\ audit = << >>
        /\ job = << >>
        /\ lost = {}
        /\ arrivals = << >>

Tick == /\ now < MaxTime
        /\ now' = now + 1
        /\ UNCHANGED <<observeOnly, policy, epoch, recent, rankEpochs, kpi, audit, job, lost,
                       arrivals>>

(* aegis.policy.set: one setting at a time, at any moment.                 *)
SetPolicy == /\ \/ \E w \in Windows : policy' = [policy EXCEPT !.window = w]
                \/ \E n \in Thresholds : policy' = [policy EXCEPT !.threshold = n]
             /\ UNCHANGED <<now, observeOnly, epoch, recent, rankEpochs, kpi, audit, job, lost,
                            arrivals>>

-----------------------------------------------------------------------------
(* _apply_correlation_window: a B1 joins the deque, the head of the deque  *)
(* is pruned, and the entries left of the same rack are counted.           *)

B1Entry(e) == [t |-> now, node |-> e.node, rack |-> e.rack]

(* Mutant: an entry exactly as old as the window has left the window.     *)
InWindowStrict(entry) == entry.t + policy.window > now

InWindow(entry) == entry.t + policy.window >= now

(* popleft while the head is outside the window: keep from the first       *)
(* entry inside it on.                                                     *)
Pruned(q) == LET kept == {i \in 1..Len(q) : \E j \in 1..i : InWindow(q[j])}
             IN  SubSeq(q, Len(q) - Cardinality(kept) + 1, Len(q))

SameRack(q, e) == Cardinality({i \in 1..Len(q) : q[i].rack = e.rack})

Correlated(e) == SameRack(Pruned(Append(recent, B1Entry(e))), e) >= policy.threshold

TierAfterWindow(e) == IF Classify(e) = B1 /\ Correlated(e) THEN B4 ELSE Classify(e)

ApplyCorrelationWindow(e) ==
  IF Classify(e) = B1
  THEN /\ recent' = Pruned(Append(recent, B1Entry(e)))
       /\ arrivals' = Append(arrivals, [entry |-> B1Entry(e), policy |-> policy,
                                        escalated |-> Correlated(e)])
  ELSE UNCHANGED <<recent, arrivals>>

-----------------------------------------------------------------------------
(* _urc_gate and UnifiedRecoveryConsensus.agree: the least epoch reported  *)
(* by another rank, for the storage tiers only.                            *)

Survivors(rank) == {r \in Ranks \ {rank} : rankEpochs[r] # None}

UrcGate(rank, tier) ==
  IF tier < B2 \/ Survivors(rank) = {} THEN None
  ELSE CHOOSE m \in {rankEpochs[r] : r \in Survivors(rank)} :
         \A r \in Survivors(rank) : m <= rankEpochs[r]

-----------------------------------------------------------------------------
(* A FaultRecord, with the gate its last recover() was given.              *)
Opened(e, tier, ep) == [event |-> e, original |-> tier, final |-> tier, epoch |-> ep,
                        escalated |-> FALSE, gate |-> None]

(* Mutant: the gate of the first tier is kept through the climb.           *)
AttemptKeepsGate(r, tier) == [r EXCEPT !.final = tier, !.escalated = @ \/ tier # r.original]

(* can_handle() accepted at this tier: the record is updated before        *)
(* recover() is awaited.                                                   *)
Attempt(r, tier) == [r EXCEPT !.final = tier,
                              !.escalated = @ \/ tier # r.original,
                              !.gate = UrcGate(r.event.rank, tier)]

Entry(r, ok) == [event |-> r.event, original |-> r.original, final |-> r.final,
                 epoch |-> r.epoch, escalated |-> r.escalated, gate |-> r.gate, success |-> ok]

Free(h)    == job' = [x \in DOMAIN job \ {h} |-> job[x]]
Hold(h, r) == job' = [x \in DOMAIN job \cup {h} |-> IF x = h THEN r ELSE job[x]]

(* UnifiedRecoveryConsensus.report_epoch and KPIMeter.record. *)
ReportEpoch(rank, ep) == rankEpochs' = [rankEpochs EXCEPT ![rank] = ep]
RecordKpi(ep, tier)   == kpi' = Append(kpi, [epoch |-> ep, tier |-> tier])

(* Mutant: the KPI is recorded at the tier the fault was classified at.    *)
SucceedCountsOriginal(h, r) ==
  /\ ReportEpoch(r.event.rank, r.epoch)
  /\ RecordKpi(r.epoch, r.original)
  /\ audit' = Append(audit, Entry(r, TRUE))
  /\ Free(h)
  /\ UNCHANGED lost

(* Mutant: a rank restored under a gate reports the gate.                  *)
SucceedReportsGate(h, r) ==
  /\ rankEpochs' = [rankEpochs EXCEPT ![r.event.rank] = IF r.gate = None THEN r.epoch ELSE r.gate]
  /\ RecordKpi(r.epoch, r.final)
  /\ audit' = Append(audit, Entry(r, TRUE))
  /\ Free(h)
  /\ UNCHANGED lost

(* recover() returned success: report to the URC, record the KPI, append   *)
(* to the history, all without suspending.                                 *)
Succeed(h, r) == /\ ReportEpoch(r.event.rank, r.epoch)
                 /\ RecordKpi(r.epoch, r.final)
                 /\ audit' = Append(audit, Entry(r, TRUE))
                 /\ Free(h)
                 /\ UNCHANGED lost

(* recover() raised, or the call was cancelled: nothing after the await    *)
(* runs, the history included.                                             *)
Abandon(h, r) == /\ lost' = lost \cup {r.epoch}
                 /\ Free(h)
                 /\ UNCHANGED <<rankEpochs, kpi, audit>>

(* Mutant: a fault every tier refused is not written to the history.       *)
ExhaustSilent(h, r) == Free(h) /\ UNCHANGED <<rankEpochs, kpi, audit, lost>>

Exhaust(h, r) == /\ audit' = Append(audit, Entry(r, FALSE))
                 /\ Free(h)
                 /\ UNCHANGED <<rankEpochs, kpi, lost>>

(* Mutant: every fault starts its climb at B0.                             *)
RouteFromBottom(h, r, from) ==
  \/ \E tier \in Tiers : Succeed(h, Attempt(r, tier)) \/ Exhaust(h, Attempt(r, tier))
  \/ Exhaust(h, r)

(* _route from one tier up: it suspends, succeeds or raises in the         *)
(* recover() of some tier, or every tier refuses or fails; the last tier   *)
(* whose layer accepted stays in the record.                               *)
Route(h, r, from) ==
  \/ \E tier \in from..B4 :
       \/ tier \in Suspending /\ Hold(h, Attempt(r, tier))
                              /\ UNCHANGED <<rankEpochs, kpi, audit, lost>>
       \/ Succeed(h, Attempt(r, tier))
       \/ tier \in Raising /\ Abandon(h, Attempt(r, tier))
       \/ Exhaust(h, Attempt(r, tier))
  \/ Exhaust(h, r)

-----------------------------------------------------------------------------
(* _on_event, up to its first suspension.                                  *)
OnEvent(h, e) ==
  /\ h \notin DOMAIN job
  /\ epoch < MaxFaults
  /\ epoch' = epoch + 1
  /\ ApplyCorrelationWindow(e)
  /\ LET r == Opened(e, TierAfterWindow(e), epoch + 1) IN
       IF observeOnly
       THEN /\ audit' = Append(audit, Entry(r, TRUE))
            /\ UNCHANGED <<rankEpochs, kpi, job, lost>>
       ELSE Route(h, r, r.original)
  /\ UNCHANGED <<now, observeOnly, policy>>

(* Mutant: a failed tier sends the fault back to where it started.         *)
ResumeRestarts(h) ==
  /\ h \in DOMAIN job
  /\ \/ Succeed(h, job[h])
     \/ Route(h, job[h], job[h].original)
     \/ job[h].final \in Raising /\ Abandon(h, job[h])
  /\ UNCHANGED <<now, observeOnly, policy, epoch, recent, arrivals>>

(* The suspended recover() returns or raises.                              *)
Resume(h) ==
  /\ h \in DOMAIN job
  /\ \/ Succeed(h, job[h])
     \/ Route(h, job[h], job[h].final + 1)
     \/ job[h].final \in Raising /\ Abandon(h, job[h])
  /\ UNCHANGED <<now, observeOnly, policy, epoch, recent, arrivals>>

(* stop() cancels the task the suspended call runs in.                     *)
Cancel(h) ==
  /\ h \in DOMAIN job
  /\ Abandon(h, job[h])
  /\ UNCHANGED <<now, observeOnly, policy, epoch, recent, arrivals>>

Next == \/ Tick
        \/ SetPolicy
        \/ \E h \in Handlers : \/ \E e \in Faults : OnEvent(h, e)
                               \/ Resume(h)
                               \/ Cancel(h)

Spec == Init /\ [][Next]_vars

-----------------------------------------------------------------------------
Records == [event : Faults, original : Tiers, final : Tiers, epoch : 1..MaxFaults,
            escalated : BOOLEAN, gate : 0..MaxFaults]
Entries == [event : Faults, original : Tiers, final : Tiers, epoch : 1..MaxFaults,
            escalated : BOOLEAN, gate : 0..MaxFaults, success : BOOLEAN]
B1Entries == [t : 0..MaxTime, node : Nodes, rack : Racks \cup {NoRack}]
Policies == [window : Windows, threshold : Thresholds]
Arrivals == [entry : B1Entries, policy : Policies, escalated : BOOLEAN]

TypeOK == /\ now \in 0..MaxTime
          /\ observeOnly \in BOOLEAN
          /\ policy \in Policies
          /\ epoch \in 0..MaxFaults
          /\ recent \in Seq(B1Entries)
          /\ rankEpochs \in [Ranks -> 0..MaxFaults]
          /\ kpi \in Seq([epoch : 1..MaxFaults, tier : Tiers])
          /\ audit \in Seq(Entries)
          /\ DOMAIN job \subseteq Handlers
          /\ \A h \in DOMAIN job : job[h] \in Records
          /\ lost \subseteq 1..MaxFaults
          /\ arrivals \in Seq(Arrivals)

Audited(ep)  == \E i \in 1..Len(audit) : audit[i].epoch = ep
InFlight(ep) == \E h \in DOMAIN job : job[h].epoch = ep

(* Every epoch handed out belongs to exactly one fault, and that fault is  *)
(* in exactly one place: in flight in one handler, in the audit log once,  *)
(* or lost to a raise or a cancellation (_on_event, next_epoch).           *)
EpochsAccounted ==
  /\ \A ep \in 1..MaxFaults :
       /\ (ep <= epoch) <=> (Audited(ep) \/ InFlight(ep) \/ ep \in lost)
       /\ ~(Audited(ep) /\ InFlight(ep))
       /\ ep \in lost => ~Audited(ep) /\ ~InFlight(ep)
  /\ \A i, j \in 1..Len(audit) : audit[i].epoch = audit[j].epoch => i = j
  /\ \A g, h \in DOMAIN job : job[g].epoch = job[h].epoch => g = h

(* One-directional escalation (engine.py:7): whatever the layers did, no   *)
(* fault ends, or waits, below the tier it was classified at, and the      *)
(* escalated flag tells exactly the faults that moved.                     *)
RecordSound(r) == /\ r.final >= r.original
                  /\ r.escalated <=> (r.final # r.original)
EscalationSound == /\ \A i \in 1..Len(audit) : RecordSound(audit[i])
                   /\ \A h \in DOMAIN job : RecordSound(job[h])

(* What makes the two inductive: a call waits only in the recover() of a   *)
(* layer that suspends.                                                    *)
HeldSuspends == \A h \in DOMAIN job : job[h].final \in Suspending
EngineInv == TypeOK /\ EpochsAccounted /\ EscalationSound /\ HeldSuspends

(* Mid-fault, a handler that leaves a layer only ever climbs: the tier it  *)
(* waits in, or is recorded at, is never below the one it waited in        *)
(* (_route).                                                               *)
ClimbsOnly ==
  [][\A h \in DOMAIN job :
       /\ h \in DOMAIN job' => job'[h] = job[h] \/ job'[h].final > job[h].final
       /\ \A i \in 1..Len(audit') :
            audit'[i].epoch = job[h].epoch => audit'[i].final >= job[h].final]_vars

(* The savings reported are the recoveries audited: the KPI log holds one  *)
(* record per successful fault, at the tier that absorbed it, and none     *)
(* for a shadow-mode fault (_route, _on_event).                            *)
KpiMatchesAudit ==
  /\ \A i \in 1..Len(audit) : audit[i].success /\ ~observeOnly
       => \E k \in 1..Len(kpi) : kpi[k] = [epoch |-> audit[i].epoch, tier |-> audit[i].final]
  /\ \A k \in 1..Len(kpi) : \E i \in 1..Len(audit) :
       audit[i].success /\ audit[i].epoch = kpi[k].epoch /\ audit[i].final = kpi[k].tier
  /\ \A k, l \in 1..Len(kpi) : kpi[k].epoch = kpi[l].epoch => k = l
  /\ observeOnly => kpi = << >>

(* A storage restore that commits was given a gate no survivor is behind   *)
(* at that moment, and no gate only if no other rank has ever reported:    *)
(* the consensus read before recover() is not stale after it.              *)
GateFresh ==
  [][\A i \in 1..Len(audit') :
       i > Len(audit) /\ audit'[i].success /\ audit'[i].final >= B2 /\ ~observeOnly =>
         LET others == Survivors(audit'[i].event.rank) IN
           /\ (audit'[i].gate = None) <=> (others = {})
           /\ \A r \in others : audit'[i].gate <= rankEpochs[r]]_vars

(* The pruned deque decides as the whole stream of node failures would: a  *)
(* B1 becomes a B4 only if it is at least the Nth of its rack in the       *)
(* window, both as set when it arrived, and always if no earlier arrival   *)
(* pruned with a shorter window (_apply_correlation_window, policy.set).   *)
Before(i) == {j \in 1..i : /\ arrivals[j].entry.rack = arrivals[i].entry.rack
                           /\ arrivals[j].entry.t + arrivals[i].policy.window
                                >= arrivals[i].entry.t}
IsBurst(i) == Cardinality(Before(i)) >= arrivals[i].policy.threshold
BurstEscalates ==
  \A i \in 1..Len(arrivals) :
    /\ arrivals[i].escalated => IsBurst(i)
    /\ (\A j \in 1..i : arrivals[j].policy.window >= arrivals[i].policy.window)
         => (IsBurst(i) => arrivals[i].escalated)

(* test_it6_escalation_invariant.py:108 "Every injected fault must produce *)
(* exactly one audit record": none vanishes without one.                   *)
EveryFaultAudited == \A ep \in 1..epoch : Audited(ep) \/ InFlight(ep)
=============================================================================
