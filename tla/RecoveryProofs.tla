--------------------------- MODULE RecoveryProofs ---------------------------
(***************************************************************************)
(* Theorems about the two layers that recover in place, and about what the *)
(* benchmark says of recovery.                                             *)
(*                                                                         *)
(* B0, TransportLayer: any number of NICs, of recoveries overlapping on    *)
(* them, of cancellations and of registrations.  B1, ComputeLayer: any     *)
(* number of nodes, of recoveries overlapping on them, of fallback windows *)
(* and of exits, and any bound on the windows.  BenchSim: traces of any    *)
(* faults and any length.                                                  *)
(***************************************************************************)
EXTENDS TransportLayer, ComputeLayer, BenchSim,
        FiniteSetTheorems, SequenceTheorems, WellFoundedInduction, TLAPS

-----------------------------------------------------------------------------
(* Lemmas about data. *)

(* Induction over the naturals, of a set: from the least number in what is *)
(* left out of it, since Nat is well founded.                              *)
LEMMA LeastNumber ==
  ASSUME NEW S \in SUBSET Nat, S # {}
  PROVE  \E n \in S : \A m \in S : n <= m
<1>1. IsWellFoundedOn(OpToRel(<, Nat), Nat)
  BY NatLessThanWellFounded
<1>2. \E n \in S : \A m \in S : <<m, n>> \notin OpToRel(<, Nat)
  BY <1>1, WFMin
<1>3. \A m, n \in S : <<m, n>> \in OpToRel(<, Nat) <=> m < n
  BY DEF OpToRel
<1>4. PICK n \in S : \A m \in S : ~(m < n)
  BY <1>2, <1>3
<1>5. n \in Nat /\ S \subseteq Nat
  OBVIOUS
<1> QED BY <1>4, <1>5

LEMMA InductiveSet ==
  ASSUME NEW S, 0 \in S, \A n \in Nat : n \in S => n + 1 \in S
  PROVE  Nat \subseteq S
<1> SUFFICES ASSUME Nat \ S # {} PROVE FALSE
  OBVIOUS
<1>1. PICK n \in Nat \ S : \A m \in Nat \ S : n <= m
  BY LeastNumber
<1>2. n - 1 \in Nat /\ n - 1 \in S
  BY <1>1
<1> QED BY <1>1, <1>2

(* First picks the least member of a set of NICs.                          *)
LEMMA FirstIsLeast ==
  ASSUME NEW S \in SUBSET Nics, S # {}
  PROVE  /\ First(S) \in S
         /\ \A n \in S : First(S) <= n
<1>0. S \in SUBSET Nat
  BY DEF Nics
<1>1. PICK m \in S : \A n \in S : ~(<<n, m>> \in OpToRel(<, Nat))
  BY <1>0, WFMin, NatLessThanWellFounded
<1>2. \A n \in S : ~(n < m)
  BY <1>0, <1>1 DEF OpToRel
<1>3. \A n \in S : m <= n
  BY <1>0, <1>2
<1> QED BY <1>3 DEF First

(* Of two NICs one is left when one is taken away.                         *)
LEMMA TwoLeaveOne ==
  ASSUME NEW S \in SUBSET Nics, Cardinality(S) >= 2, NEW x
  PROVE  S \ {x} # {}
<1> SUFFICES ASSUME S \ {x} = {} PROVE FALSE
  OBVIOUS
<1>1. S \in SUBSET {x}
  OBVIOUS
<1>2. IsFiniteSet({x}) /\ Cardinality({x}) = 1
  BY FS_Singleton
<1>3. IsFiniteSet(S) /\ Cardinality(S) <= 1
  BY <1>1, <1>2, FS_Subset
<1>4. Cardinality(S) \in Nat
  BY <1>3, FS_CardinalityType
<1> QED BY <1>3, <1>4

-----------------------------------------------------------------------------
NodeNics == [state : {"stable", "migrating", "migrated", "failed"},
             active_nic : Nics, failed_nics : SUBSET Nics]
Calls    == [pc : {"idle", "refused", "migrating", "succeeded", "failed", "cancelled"},
             entry : Entries, fault : Faults \cup {NoFault},
             from : Nics \cup {NoNic}, to : Nics \cup {NoNic}]

(* The first half of recover() moves to the first NIC that will be         *)
(* healthy once the failed one is given up.                                *)
LEMMA BeginFacts ==
  ASSUME TypeOK, NEW h \in Handlers, NEW f \in Faults, Begin(h, f)
  PROVE  LET x == FailedNic(f)
             to == First(Healthy(current) \ {x})
         IN  /\ x \in Nics
             /\ Healthy(current) \ {x} # {}
             /\ to \in Healthy(current) /\ to \in Nics
             /\ entry' \in [Entries -> NodeNics]
             /\ entry'[current].state = "migrating"
             /\ entry'[current].failed_nics = entry[current].failed_nics \cup {x}
             /\ \A e \in Entries \ {current} : entry'[e] = entry[e]
             /\ handler' = [handler EXCEPT ![h] =
                  [pc |-> "migrating", entry |-> current, fault |-> f, from |-> x, to |-> to]]
<1> DEFINE x == FailedNic(f)
           to == First(Healthy(current) \ {x})
           old == entry[current]
<1>1. /\ current \in Entries
      /\ old \in [state : {"stable", "migrating", "migrated", "failed"},
                  active_nic : Nics, failed_nics : SUBSET Nics]
  BY DEF TypeOK
<1>2. x \in Nics
  BY <1>1 DEF TypeOK, FailedNic
<1>3. Healthy(current) \in SUBSET Nics /\ Cardinality(Healthy(current)) >= 2
  BY DEF Healthy, Begin
<1>4. Healthy(current) \ {x} # {}
  BY <1>3, TwoLeaveOne
<1>5. to \in Healthy(current) /\ to \in Nics
  BY <1>3, <1>4, FirstIsLeast
<1>6. /\ entry' \in [Entries -> NodeNics]
      /\ entry'[current].state = "migrating"
      /\ entry'[current].failed_nics = old.failed_nics \cup {x}
      /\ \A e \in Entries \ {current} : entry'[e] = entry[e]
  <2> DEFINE new == [old EXCEPT !.state = "migrating", !.failed_nics = @ \cup {x}]
  <2>1. entry' = [entry EXCEPT ![current] = new]
    BY DEF Begin
  <2> HIDE DEF x
  <2>2. /\ new \in NodeNics /\ new.state = "migrating"
        /\ new.failed_nics = old.failed_nics \cup {x}
    BY <1>1, <1>2 DEF NodeNics
  <2> HIDE DEF new
  <2> QED BY <1>1, <2>1, <2>2 DEF TypeOK, NodeNics
<1>7. handler' = [handler EXCEPT ![h] =
        [pc |-> "migrating", entry |-> current, fault |-> f, from |-> x, to |-> to]]
  BY DEF Begin, Candidates
<1> HIDE DEF x, to
<1> QED BY <1>2, <1>4, <1>5, <1>6, <1>7 DEF x, to

(* The second half: for a call that is migrating, its entry gets a new     *)
(* state, and the NIC moved to if the migration succeeded.                 *)
LEMMA EndFacts ==
  ASSUME TypeOK, NEW h \in Handlers, Migrated(h) \/ BackendFails(h)
  PROVE  LET c == handler[h].entry IN
           /\ handler[h].pc = "migrating" /\ c \in Entries
           /\ entry'[c].state = IF Migrated(h) THEN "migrated" ELSE "failed"
           /\ Migrated(h) => entry'[c].active_nic = handler[h].to
           /\ entry'[c].failed_nics = entry[c].failed_nics
           /\ \A e \in Entries \ {c} : entry'[e] = entry[e]
           /\ handler'[h].pc # "migrating"
           /\ \A g \in Handlers \ {h} : handler'[g] = handler[g]
           /\ UNCHANGED <<current, nicOf, calls, abandoned, raced>>
<1> DEFINE c == handler[h].entry
<1>1. /\ handler[h] \in Calls /\ c \in Entries /\ entry[c] \in NodeNics
      /\ handler[h].pc = "migrating"
      /\ DOMAIN entry = Entries /\ DOMAIN handler = Handlers
  BY DEF TypeOK, Calls, NodeNics, Migrated, BackendFails
<1>2. CASE Migrated(h)
  <2>1. /\ entry' = [entry EXCEPT ![c] = [@ EXCEPT !.active_nic = handler[h].to,
                                                   !.state = "migrated"]]
        /\ handler' = [handler EXCEPT ![h] = [@ EXCEPT !.pc = "succeeded"]]
    BY <1>2 DEF Migrated
  <2>2. UNCHANGED <<current, nicOf, calls, abandoned, raced>>
    BY <1>2 DEF Migrated
  <2> HIDE DEF c
  <2>3. /\ entry'[c].state = "migrated" /\ entry'[c].active_nic = handler[h].to
        /\ entry'[c].failed_nics = entry[c].failed_nics
        /\ \A e \in Entries \ {c} : entry'[e] = entry[e]
    BY <1>1, <2>1 DEF NodeNics
  <2>4. handler'[h].pc = "succeeded" /\ \A g \in Handlers \ {h} : handler'[g] = handler[g]
    BY <1>1, <2>1 DEF Calls
  <2> QED BY <1>1, <1>2, <2>2, <2>3, <2>4 DEF c
<1>3. CASE BackendFails(h) /\ ~Migrated(h)
  <2>1. /\ entry' = [entry EXCEPT ![c] = [@ EXCEPT !.state = "failed"]]
        /\ handler' = [handler EXCEPT ![h] = [@ EXCEPT !.pc = "failed"]]
    BY <1>3 DEF BackendFails
  <2>2. UNCHANGED <<current, nicOf, calls, abandoned, raced>>
    BY <1>3 DEF BackendFails
  <2> HIDE DEF c
  <2>3. /\ entry'[c].state = "failed"
        /\ entry'[c].failed_nics = entry[c].failed_nics
        /\ \A e \in Entries \ {c} : entry'[e] = entry[e]
    BY <1>1, <2>1 DEF NodeNics
  <2>4. handler'[h].pc = "failed" /\ \A g \in Handlers \ {h} : handler'[g] = handler[g]
    BY <1>1, <2>1 DEF Calls
  <2> QED BY <1>1, <1>3, <2>2, <2>3, <2>4 DEF c
<1> QED BY <1>2, <1>3

LEMMA CancelFacts ==
  ASSUME TypeOK, NEW h \in Handlers, Cancel(h)
  PROVE  /\ handler[h].pc = "migrating" /\ handler'[h].pc = "cancelled"
         /\ \A g \in Handlers \ {h} : handler'[g] = handler[g]
         /\ abandoned' = abandoned \cup {handler[h].entry}
         /\ UNCHANGED <<entry, current, nicOf, calls, raced>>
  BY DEF Cancel, TypeOK

LEMMA RefuseFacts ==
  ASSUME TypeOK, NEW h \in Handlers, NEW f \in Faults, Refuse(h, f)
  PROVE  /\ handler[h].pc # "migrating" /\ handler'[h].pc = "refused"
         /\ \A g \in Handlers \ {h} : handler'[g] = handler[g]
         /\ UNCHANGED <<entry, current, nicOf, abandoned, raced>>
  BY DEF Refuse, Call, TypeOK, Idle

-----------------------------------------------------------------------------
(* The invariants. *)

(* Recoveries that come one after another: one at a time on an entry, and  *)
(* each is moving to the first healthy NIC.                                *)
OneAtATime == \A g, h \in Handlers :
  /\ handler[g].pc = "migrating" /\ handler[h].pc = "migrating"
  /\ handler[g].entry = handler[h].entry /\ handler[g].entry \notin raced
  => g = h
TargetIsFirst == \A h \in Handlers :
  handler[h].pc = "migrating" /\ handler[h].entry \notin raced =>
    handler[h].to = First(Healthy(handler[h].entry))

HasTarget == \A h \in Handlers : handler[h].pc = "migrating" => handler[h].to \in Nics

Rest == /\ OneNicLeft /\ HasTarget
        /\ SerialActiveHealthy /\ OneAtATime /\ TargetIsFirst
        /\ StuckOnlyIfCancelled

TransportInd == TypeOK /\ Rest

LEMMA NicTypes ==
  ASSUME TypeOK, HasTarget, [Next]_vars
  PROVE  TypeOK'
<1>0. /\ entry \in [Entries -> NodeNics] /\ handler \in [Handlers -> Calls]
      /\ current \in Entries /\ nicOf \in [Faults -> Nics \cup {NoNic}]
      /\ calls \in 0..MaxCalls /\ abandoned \subseteq Entries /\ raced \subseteq Entries
  BY DEF TypeOK, NodeNics, Calls
<1>a. /\ NumNics \in Nat \ {0} /\ MaxCalls \in Nat /\ MaxRegistrations \in Nat \ {0}
  BY TransportAssumption
<1> SUFFICES /\ entry' \in [Entries -> NodeNics] /\ handler' \in [Handlers -> Calls]
             /\ current' \in Entries /\ nicOf' \in [Faults -> Nics \cup {NoNic}]
             /\ calls' \in 0..MaxCalls /\ abandoned' \subseteq Entries /\ raced' \subseteq Entries
  BY DEF TypeOK, NodeNics, Calls
<1>1. CASE UNCHANGED vars
  BY <1>0, <1>1 DEF vars
<1>2. CASE Register
  BY <1>0, <1>a, <1>2 DEF Register, Entries
<1>3. ASSUME NEW h \in Handlers, NEW f \in Faults, Refuse(h, f)
      PROVE  /\ entry' \in [Entries -> NodeNics] /\ handler' \in [Handlers -> Calls]
             /\ current' \in Entries /\ nicOf' \in [Faults -> Nics \cup {NoNic}]
             /\ calls' \in 0..MaxCalls /\ abandoned' \subseteq Entries /\ raced' \subseteq Entries
  <2> DEFINE new == [Idle EXCEPT !.pc = "refused", !.entry = current, !.fault = f]
  <2>1. new \in Calls
    BY <1>0 DEF Idle, Calls
  <2>2. handler' = [handler EXCEPT ![h] = new]
    BY <1>3 DEF Refuse
  <2> HIDE DEF new
  <2>3. handler' \in [Handlers -> Calls]
    BY <1>0, <2>1, <2>2
  <2>4. calls' \in 0..MaxCalls
    BY <1>0, <1>a, <1>3 DEF Refuse, Call
  <2> QED BY <1>0, <1>3, <2>3, <2>4 DEF Refuse
<1>4. ASSUME NEW h \in Handlers, NEW f \in Faults, Begin(h, f)
      PROVE  /\ entry' \in [Entries -> NodeNics] /\ handler' \in [Handlers -> Calls]
             /\ current' \in Entries /\ nicOf' \in [Faults -> Nics \cup {NoNic}]
             /\ calls' \in 0..MaxCalls /\ abandoned' \subseteq Entries /\ raced' \subseteq Entries
  <2> DEFINE x == FailedNic(f)
             to == First(Healthy(current) \ {x})
             new == [pc |-> "migrating", entry |-> current, fault |-> f, from |-> x, to |-> to]
  <2>1. /\ x \in Nics /\ to \in Nics /\ entry' \in [Entries -> NodeNics]
        /\ handler' = [handler EXCEPT ![h] = new]
    BY <1>4, BeginFacts
  <2> HIDE DEF x, to
  <2>2. new \in Calls
    BY <1>0, <2>1 DEF Calls
  <2> HIDE DEF new
  <2>3. handler' \in [Handlers -> Calls]
    BY <1>0, <2>1, <2>2
  <2>4. calls' \in 0..MaxCalls /\ raced' \subseteq Entries
    BY <1>0, <1>a, <1>4 DEF Begin, Call
  <2> QED BY <1>0, <1>4, <2>1, <2>3, <2>4 DEF Begin
<1>5. ASSUME NEW h \in Handlers, Migrated(h) \/ BackendFails(h) \/ Cancel(h)
      PROVE  /\ entry' \in [Entries -> NodeNics] /\ handler' \in [Handlers -> Calls]
             /\ current' \in Entries /\ nicOf' \in [Faults -> Nics \cup {NoNic}]
             /\ calls' \in 0..MaxCalls /\ abandoned' \subseteq Entries /\ raced' \subseteq Entries
  <2>1. handler[h] \in Calls /\ handler[h].entry \in Entries /\ handler[h].pc = "migrating"
    BY <1>0, <1>5 DEF Calls, Migrated, BackendFails, Cancel
  <2>2. handler' \in [Handlers -> Calls]
    <3>1. \A p \in {"succeeded", "failed", "cancelled"} : [handler[h] EXCEPT !.pc = p] \in Calls
      BY <2>1 DEF Calls
    <3>2. \E p \in {"succeeded", "failed", "cancelled"} :
            handler' = [handler EXCEPT ![h] = [handler[h] EXCEPT !.pc = p]]
      BY <1>5 DEF Migrated, BackendFails, Cancel
    <3> QED BY <1>0, <3>1, <3>2
  <2>3. entry' \in [Entries -> NodeNics]
    <3>1. CASE Migrated(h)
      <4>1. handler[h].to \in Nics
        BY <2>1 DEF HasTarget
      <4> QED BY <1>0, <2>1, <3>1, <4>1 DEF Migrated, NodeNics
    <3>2. CASE BackendFails(h)
      BY <1>0, <2>1, <3>2 DEF BackendFails, NodeNics
    <3>3. CASE Cancel(h)
      BY <1>0, <3>3 DEF Cancel
    <3> QED BY <1>5, <3>1, <3>2, <3>3
  <2> QED BY <1>0, <1>5, <2>1, <2>2, <2>3 DEF Migrated, BackendFails, Cancel
<1> QED BY <1>1, <1>2, <1>3, <1>4, <1>5 DEF Next

(* A step that touches no entry and no call that is migrating.             *)
LEMMA QuietStep ==
  ASSUME TransportInd, UNCHANGED <<entry, raced>>, abandoned \subseteq abandoned',
         NEW h, handler[h].pc = "migrating" => handler[h].entry \in abandoned',
         handler'[h].pc # "migrating",
         \A g \in Handlers \ {h} : handler'[g] = handler[g]
  PROVE  Rest'
<1>1. \A g \in Handlers : handler'[g].pc = "migrating" =>
        g # h /\ handler[g].pc = "migrating" /\ handler'[g] = handler[g]
  OBVIOUS
<1>2. \A e : Healthy(e)' = Healthy(e)
  BY DEF Healthy
<1>3. (OneNicLeft /\ HasTarget /\ SerialActiveHealthy /\ OneAtATime)'
  BY <1>1, <1>2 DEF TransportInd, Rest, OneNicLeft, HasTarget, SerialActiveHealthy, OneAtATime
<1>4. TargetIsFirst'
  BY <1>1, <1>2 DEF TransportInd, Rest, TargetIsFirst
<1>5. ASSUME NEW e \in Entries \ abandoned', entry[e].state = "migrating"
      PROVE  Migrating(e)'
  <2>1. PICK g \in Handlers : handler[g].pc = "migrating" /\ handler[g].entry = e
    BY <1>5 DEF TransportInd, Rest, StuckOnlyIfCancelled, Migrating
  <2>2. g # h
    BY <1>5, <2>1
  <2> QED BY <2>1, <2>2 DEF Migrating
<1>6. StuckOnlyIfCancelled'
  BY <1>5 DEF StuckOnlyIfCancelled
<1> QED BY <1>3, <1>4, <1>6 DEF Rest

(* The first half of a recovery.                                           *)
LEMMA BeginStep ==
  ASSUME TransportInd, NEW h \in Handlers, NEW f \in Faults, Begin(h, f)
  PROVE  Rest'
<1> DEFINE x == FailedNic(f)
           left == Healthy(current) \ {x}
           new == [pc |-> "migrating", entry |-> current, fault |-> f, from |-> x,
                   to |-> First(left)]
<1>1. /\ x \in Nics /\ left # {} /\ First(left) \in Nics
      /\ entry'[current].state = "migrating"
      /\ entry'[current].failed_nics = entry[current].failed_nics \cup {x}
      /\ \A e \in Entries \ {current} : entry'[e] = entry[e]
      /\ handler' = [handler EXCEPT ![h] = new]
  BY BeginFacts DEF TransportInd
<1>2. /\ handler[h].pc # "migrating" /\ current \in Entries
      /\ raced' = IF Migrating(current) THEN raced \cup {current} ELSE raced
      /\ UNCHANGED <<current, abandoned>>
  BY DEF Begin, Call, TransportInd, TypeOK
<1>3. new.pc = "migrating" /\ new.entry = current /\ new.to = First(left)
  OBVIOUS
<1>4. handler'[h] = new /\ \A g \in Handlers \ {h} : handler'[g] = handler[g]
  BY <1>1 DEF TransportInd, TypeOK
<1>5. Healthy(current)' = left /\ \A e \in Entries \ {current} : Healthy(e)' = Healthy(e)
  BY <1>1, <1>2 DEF Healthy
<1> HIDE DEF new, left, x
<1>6. OneNicLeft'
  BY <1>1, <1>2, <1>5 DEF OneNicLeft, TransportInd, Rest
<1>7. HasTarget'
  BY <1>1, <1>3, <1>4 DEF HasTarget, TransportInd, Rest
<1>8. SerialActiveHealthy'
  <2> SUFFICES ASSUME NEW e \in Entries \ raced', entry'[e].state \in {"stable", "migrated"}
               PROVE  entry'[e].active_nic = First(Healthy(e)')
    BY DEF SerialActiveHealthy, First
  <2>1. e # current /\ e \notin raced
    BY <1>1, <1>2
  <2> QED BY <1>1, <1>5, <2>1 DEF SerialActiveHealthy, TransportInd, Rest
<1>9. OneAtATime'
  <2> SUFFICES ASSUME NEW a \in Handlers, NEW b \in Handlers,
                      handler'[a].pc = "migrating", handler'[b].pc = "migrating",
                      handler'[a].entry = handler'[b].entry, handler'[a].entry \notin raced'
               PROVE  a = b
    BY DEF OneAtATime
  <2>1. CASE a # h /\ b # h
    BY <1>2, <1>4, <2>1 DEF OneAtATime, TransportInd, Rest
  <2>2. CASE (a = h) # (b = h)
    <3>1. \E g \in Handlers \ {h} : handler[g].pc = "migrating" /\ handler[g].entry = current
      BY <1>3, <1>4, <2>2
    <3>2. current \in raced'
      BY <1>2, <3>1 DEF Migrating
    <3> QED BY <1>3, <1>4, <2>2, <3>2
  <2> QED BY <2>1, <2>2
<1>10. TargetIsFirst'
  <2> SUFFICES ASSUME NEW g \in Handlers, handler'[g].pc = "migrating",
                      handler'[g].entry \notin raced'
               PROVE  handler'[g].to = First(Nics \ entry'[handler'[g].entry].failed_nics)
    BY DEF TargetIsFirst, First, Healthy
  <2>0. Nics \ entry'[current].failed_nics = left
    BY <1>1 DEF left, Healthy
  <2>1. CASE g = h
    BY <1>3, <1>4, <2>0, <2>1
  <2>2. CASE g # h
    <3>1. handler'[g] = handler[g] /\ handler[g].pc = "migrating"
          /\ handler[g].entry \notin raced
      BY <1>2, <1>4, <2>2
    <3>2. handler[g].entry # current
      BY <1>2, <3>1 DEF Migrating
    <3>3. handler[g].entry \in Entries
      BY DEF TransportInd, TypeOK
    <3>4. handler[g].to = First(Healthy(handler[g].entry))
      BY <3>1 DEF TransportInd, Rest, TargetIsFirst
    <3>5. Nics \ entry'[handler[g].entry].failed_nics = Healthy(handler[g].entry)
      BY <1>1, <3>2, <3>3 DEF Healthy
    <3> QED BY <3>1, <3>4, <3>5
  <2> QED BY <2>1, <2>2
<1>11. StuckOnlyIfCancelled'
  <2> SUFFICES ASSUME NEW e \in Entries \ abandoned, entry'[e].state = "migrating"
               PROVE  Migrating(e)'
    BY <1>2 DEF StuckOnlyIfCancelled
  <2>1. CASE e = current
    BY <1>3, <1>4, <2>1 DEF Migrating
  <2>2. CASE e # current
    <3>1. PICK g \in Handlers : handler[g].pc = "migrating" /\ handler[g].entry = e
      BY <1>1, <2>2 DEF TransportInd, Rest, StuckOnlyIfCancelled, Migrating
    <3>2. handler'[g] = handler[g]
      BY <1>2, <1>4, <3>1
    <3> QED BY <3>1, <3>2 DEF Migrating
  <2> QED BY <2>1, <2>2
<1> QED BY <1>6, <1>7, <1>8, <1>9, <1>10, <1>11 DEF Rest

(* The second half of a recovery.                                          *)
LEMMA EndStep ==
  ASSUME TransportInd, NEW h \in Handlers, Migrated(h) \/ BackendFails(h)
  PROVE  Rest'
<1> DEFINE c == handler[h].entry
<1>1. /\ handler[h].pc = "migrating" /\ c \in Entries
      /\ entry'[c].state = IF Migrated(h) THEN "migrated" ELSE "failed"
      /\ Migrated(h) => entry'[c].active_nic = handler[h].to
      /\ entry'[c].failed_nics = entry[c].failed_nics
      /\ \A e \in Entries \ {c} : entry'[e] = entry[e]
      /\ handler'[h].pc # "migrating"
      /\ \A g \in Handlers \ {h} : handler'[g] = handler[g]
      /\ UNCHANGED <<current, nicOf, calls, abandoned, raced>>
  BY EndFacts DEF TransportInd
<1> HIDE DEF c
<1>2. \A g \in Handlers : handler'[g].pc = "migrating" =>
        g # h /\ handler[g].pc = "migrating" /\ handler'[g] = handler[g]
              /\ handler[g].entry \in Entries
  BY <1>1 DEF TransportInd, TypeOK
<1>3. \A e \in Entries : Healthy(e)' = Healthy(e)
  BY <1>1 DEF Healthy
<1>4. (OneNicLeft /\ HasTarget /\ OneAtATime)'
  BY <1>1, <1>2, <1>3 DEF TransportInd, Rest, OneNicLeft, HasTarget, OneAtATime
<1>5. TargetIsFirst'
  BY <1>1, <1>2, <1>3 DEF TransportInd, Rest, TargetIsFirst
<1>6. SerialActiveHealthy'
  <2> SUFFICES ASSUME NEW e \in Entries \ raced, entry'[e].state \in {"stable", "migrated"}
               PROVE  entry'[e].active_nic = First(Healthy(e))
    BY <1>1, <1>3 DEF SerialActiveHealthy
  <2>1. CASE e = c
    <3>1. Migrated(h)
      BY <1>1, <2>1
    <3>2. handler[h].to = First(Healthy(c))
      BY <1>1, <2>1 DEF c, TransportInd, Rest, TargetIsFirst
    <3> QED BY <1>1, <2>1, <3>1, <3>2
  <2>2. CASE e # c
    BY <1>1, <2>2 DEF TransportInd, Rest, SerialActiveHealthy
  <2> QED BY <2>1, <2>2
<1>7. StuckOnlyIfCancelled'
  <2> SUFFICES ASSUME NEW e \in Entries \ abandoned, entry'[e].state = "migrating"
               PROVE  Migrating(e)'
    BY <1>1 DEF StuckOnlyIfCancelled
  <2>1. e # c
    BY <1>1
  <2>2. PICK g \in Handlers : handler[g].pc = "migrating" /\ handler[g].entry = e
    BY <1>1, <2>1 DEF TransportInd, Rest, StuckOnlyIfCancelled, Migrating
  <2>3. handler'[g] = handler[g]
    BY <1>1, <2>1, <2>2 DEF c
  <2> QED BY <2>2, <2>3 DEF Migrating
<1> QED BY <1>4, <1>5, <1>6, <1>7 DEF Rest

LEMMA TransportInit == Init => TransportInd
<1> SUFFICES ASSUME Init PROVE TransportInd
  OBVIOUS
<1>1. NumNics \in Nat \ {0} /\ MaxCalls \in Nat /\ MaxRegistrations \in Nat \ {0}
  BY TransportAssumption
<1>2. 1 \in Nics /\ 1 \in Entries
  BY <1>1 DEF Nics, Entries
<1>3. Fresh \in NodeNics /\ Idle \in Calls
  BY <1>2 DEF Fresh, Idle, NodeNics, Calls
<1>4. TypeOK
  BY <1>1, <1>2, <1>3 DEF Init, TypeOK, NodeNics, Calls
<1>5. \A h \in Handlers : handler[h].pc # "migrating"
  BY DEF Init, Idle
<1>6. \A e \in Entries : /\ Healthy(e) = Nics
                         /\ entry[e].state = "stable" /\ entry[e].active_nic = 1
  BY DEF Init, Fresh, Healthy
<1>7. First(Nics) = 1
  <2>1. First(Nics) \in Nics /\ First(Nics) <= 1
    BY <1>2, FirstIsLeast
  <2> QED BY <1>1, <2>1 DEF Nics
<1>8. Rest
  BY <1>2, <1>5, <1>6, <1>7 DEF Rest, OneNicLeft, HasTarget, SerialActiveHealthy, OneAtATime,
                               TargetIsFirst, StuckOnlyIfCancelled
<1> QED BY <1>4, <1>8 DEF TransportInd

LEMMA TransportStep == TransportInd /\ [Next]_vars => TransportInd'
<1> SUFFICES ASSUME TransportInd, [Next]_vars PROVE TransportInd'
  OBVIOUS
<1>1. TypeOK'
  BY NicTypes DEF TransportInd, Rest
<1>2. CASE UNCHANGED <<entry, handler, abandoned, raced>>
  <2>1. Rest'
    BY <1>2 DEF TransportInd, Rest, OneNicLeft, HasTarget, SerialActiveHealthy, OneAtATime,
                TargetIsFirst, StuckOnlyIfCancelled, Healthy, Migrating
  <2> QED BY <1>1, <2>1 DEF TransportInd
<1>3. ASSUME NEW h \in Handlers, NEW f \in Faults, Refuse(h, f)
      PROVE  TransportInd'
  <2>1. /\ handler[h].pc # "migrating" /\ handler'[h].pc = "refused"
        /\ \A g \in Handlers \ {h} : handler'[g] = handler[g]
        /\ UNCHANGED <<entry, abandoned, raced>>
    BY <1>3, RefuseFacts DEF TransportInd
  <2> QED BY <1>1, <2>1, QuietStep DEF TransportInd
<1>4. ASSUME NEW h \in Handlers, NEW f \in Faults, Begin(h, f)
      PROVE  TransportInd'
  BY <1>1, <1>4, BeginStep DEF TransportInd
<1>5. ASSUME NEW h \in Handlers, Migrated(h) \/ BackendFails(h)
      PROVE  TransportInd'
  BY <1>1, <1>5, EndStep DEF TransportInd
<1>6. ASSUME NEW h \in Handlers, Cancel(h)
      PROVE  TransportInd'
  <2>1. /\ handler'[h].pc = "cancelled"
        /\ \A g \in Handlers \ {h} : handler'[g] = handler[g]
        /\ abandoned' = abandoned \cup {handler[h].entry}
        /\ UNCHANGED <<entry, raced>>
    BY <1>6, CancelFacts DEF TransportInd
  <2> QED BY <1>1, <2>1, QuietStep DEF TransportInd
<1> QED BY <1>2, <1>3, <1>4, <1>5, <1>6 DEF Next, Register, vars

THEOREM TransportInvariant == Spec => []TransportInd
  BY TransportInit, TransportStep, PTL DEF Spec

(* However recoveries of a node overlap, a healthy NIC is always left.     *)
THEOREM HealthyNicLeft == Spec => []NicInv
<1>1. TransportInd => NicInv
  BY DEF TransportInd, Rest, NicInv
<1> QED BY <1>1, TransportInvariant, PTL

(* Recoveries that come one after another leave a connection that says it  *)
(* is up on the first healthy NIC.                                         *)
THEOREM ActiveIsHealthy == Spec => []SerialActiveHealthy
<1>1. TransportInd => SerialActiveHealthy
  BY DEF TransportInd, Rest
<1> QED BY <1>1, TransportInvariant, PTL

(* Only a cancelled recover() can leave a node in state "migrating".       *)
THEOREM NeverStuck == Spec => []StuckOnlyIfCancelled
<1>1. TransportInd => StuckOnlyIfCancelled
  BY DEF TransportInd, Rest
<1> QED BY <1>1, TransportInvariant, PTL

-----------------------------------------------------------------------------
(* B1, ComputeLayer. *)

(* The recoveries under way whose count is below the bound. *)
Early(n) == {h \in Absorbing(n) : absorbing[h].count < MaxFallbacks}

(* What makes WarnsInTime inductive, node by node: until a node is warned  *)
(* about, the windows it has completed were all counted below the bound,   *)
(* so with those still under way below it they are too few to reach it.    *)
NodeInv(n) ==
  /\ fallbacks[n] <= begun
  /\ IsFiniteSet(Absorbing(n))
  /\ windows[n] + Cardinality(Absorbing(n)) <= fallbacks[n]
  /\ \A h, k \in Absorbing(n) : /\ absorbing[h].count <= fallbacks[n]
                                /\ absorbing[h].count = absorbing[k].count => h = k
  /\ n \notin warned =>
       /\ windows[n] + Cardinality(Early(n)) < MaxFallbacks
       /\ windows[n] + Cardinality(Early(n)) <= fallbacks[n]

Named == \A h \in Tasks : InBackend(h) => absorbing[h].node \in Nodes

ComputeInd == /\ ComputeTypeOK
              /\ Named
              /\ \A n \in Nodes : NodeInv(n)

(* The cardinalities are numbers. *)
LEMMA AbsorbingCounted ==
  ASSUME NEW n \in Nodes, IsFiniteSet(Absorbing(n))
  PROVE  /\ IsFiniteSet(Early(n))
         /\ Cardinality(Absorbing(n)) \in Nat
         /\ Cardinality(Early(n)) \in Nat
<1>1. Early(n) \in SUBSET Absorbing(n)
  BY DEF Early
<1>2. IsFiniteSet(Early(n))
  BY <1>1, FS_Subset
<1> QED BY <1>2, FS_CardinalityType

(* A node none of whose variables a step touches keeps its part. *)
LEMMA NodeKept ==
  ASSUME NEW n \in Nodes, NodeInv(n), ComputeTypeOK,
         begun' \in Nat, begun' >= begun,
         fallbacks'[n] = fallbacks[n], windows'[n] = windows[n],
         n \in warned => n \in warned',
         Absorbing(n)' = Absorbing(n),
         \A h \in Absorbing(n) : absorbing'[h].count = absorbing[h].count
  PROVE  NodeInv(n)'
<1>1. Early(n)' = Early(n)
  BY DEF Early
<1>2. fallbacks[n] \in Nat /\ begun \in Nat
  BY ComputeAssumption DEF ComputeTypeOK
<1> QED BY <1>1, <1>2 DEF NodeInv

(* Nor does a step that leaves all of them alone, whatever else it does.   *)
LEMMA StillNodes ==
  ASSUME ComputeInd,
         UNCHANGED <<fallbacks, absorbing, begun, windows, warned>>
  PROVE  \A n \in Nodes : NodeInv(n)'
<1> SUFFICES ASSUME NEW n \in Nodes PROVE NodeInv(n)'
  OBVIOUS
<1>1. NodeInv(n) /\ ComputeTypeOK
  BY DEF ComputeInd
<1>2. Absorbing(n)' = Absorbing(n)
  BY DEF Absorbing, InBackend
<1>3. begun \in Nat
  BY <1>1 DEF ComputeTypeOK
<1> QED BY <1>1, <1>2, <1>3, NodeKept

(* The invariant holds before any recovery, *)
LEMMA ComputeIndInit == ComputeInit => ComputeInd
<1> SUFFICES ASSUME ComputeInit PROVE ComputeInd
  OBVIOUS
<1>1. ComputeTypeOK
  BY ComputeAssumption DEF ComputeInit, ComputeTypeOK, NoWindow
<1>2. ASSUME NEW n \in Nodes PROVE NodeInv(n)
  <2>1. Absorbing(n) = {} /\ Early(n) = {}
    BY DEF ComputeInit, Absorbing, InBackend, NoWindow, Early
  <2>2. IsFiniteSet({}) /\ Cardinality({}) = 0
    BY FS_EmptySet
  <2> QED BY <2>1, <2>2, ComputeAssumption DEF ComputeInit, NodeInv
<1>3. Named
  BY DEF ComputeInit, Named, InBackend, NoWindow
<1> QED BY <1>1, <1>2, <1>3 DEF ComputeInd

(* when a recovery counts its window and enters the backend,               *)
LEMMA AbsorbBegins ==
  ASSUME ComputeInd, NEW h \in Tasks, NEW n \in Nodes,
         BeginAbsorb(h, n)
  PROVE  ComputeInd'
<1>0. ComputeTypeOK /\ \A m \in Nodes : NodeInv(m)
  BY DEF ComputeInd
<1>1. fallbacks[n] \in Nat /\ fallbacks[n] <= begun /\ begun < MaxWindows /\ begun \in Nat
      /\ MaxWindows \in Nat
  BY <1>0, ComputeAssumption DEF ComputeTypeOK, NodeInv, BeginAbsorb
<1>2. /\ absorbing'[h].pc = "absorbing" /\ absorbing'[h].node = n
      /\ absorbing'[h].count = fallbacks[n] + 1 /\ absorbing'[h].fresh = TRUE
      /\ \A k \in Tasks \ {h} : absorbing'[k] = absorbing[k]
  BY <1>0 DEF BeginAbsorb, ComputeTypeOK
<1>3. ComputeTypeOK'
  BY <1>0, <1>1 DEF BeginAbsorb, ComputeTypeOK
<1>4. ASSUME NEW m \in Nodes, m # n PROVE NodeInv(m)'
  <2>1. Absorbing(m)' = Absorbing(m)
    BY <1>2, <1>4 DEF Absorbing, InBackend, BeginAbsorb
  <2>2. \A k \in Absorbing(m) : absorbing'[k].count = absorbing[k].count
    BY <1>2 DEF Absorbing, InBackend, BeginAbsorb
  <2>3. fallbacks'[m] = fallbacks[m] /\ windows' = windows /\ warned' = warned
        /\ begun' \in Nat /\ begun' >= begun
    BY <1>0, <1>1, <1>4 DEF BeginAbsorb, ComputeTypeOK
  <2> QED BY <1>0, <2>1, <2>2, <2>3, NodeKept
<1>5. NodeInv(n)'
  <2>1. Absorbing(n)' = Absorbing(n) \cup {h} /\ h \notin Absorbing(n)
    BY <1>2 DEF Absorbing, InBackend, BeginAbsorb
  <2>2. \A k \in Absorbing(n) : k # h /\ absorbing'[k] = absorbing[k]
    BY <1>2, <2>1 DEF Absorbing
  <2>3. /\ IsFiniteSet(Absorbing(n)')
        /\ Cardinality(Absorbing(n)') = Cardinality(Absorbing(n)) + 1
    BY <1>0, <2>1, FS_AddElement DEF NodeInv
  <2>4. fallbacks'[n] = fallbacks[n] + 1 /\ begun' = begun + 1 /\ windows' = windows
        /\ warned' = warned
    BY <1>0 DEF BeginAbsorb, ComputeTypeOK
  <2>5. windows[n] \in Nat
    BY <1>0, ComputeAssumption DEF ComputeTypeOK
  <2>6. /\ Cardinality(Absorbing(n)) \in Nat /\ Cardinality(Early(n)) \in Nat
        /\ IsFiniteSet(Early(n))
    BY <1>0, AbsorbingCounted DEF NodeInv
  <2>7. \A k \in Absorbing(n) :
          absorbing[k].count \in Nat /\ absorbing[k].count <= fallbacks[n]
    <3>1. \A k \in Absorbing(n) : absorbing[k].count <= fallbacks[n]
      BY <1>0 DEF NodeInv
    <3>2. \A k \in Tasks : absorbing[k].count \in Nat
      BY <1>0, ComputeAssumption DEF ComputeTypeOK
    <3> QED BY <3>1, <3>2 DEF Absorbing
  <2>8. \A k, j \in Absorbing(n)' : /\ absorbing'[k].count <= fallbacks'[n]
                                    /\ absorbing'[k].count = absorbing'[j].count => k = j
    <3>1. \A k, j \in Absorbing(n) : absorbing[k].count = absorbing[j].count => k = j
      BY <1>0 DEF NodeInv, Absorbing
    <3> QED BY <1>1, <1>2, <2>1, <2>2, <2>4, <2>7, <3>1
  <2>9. n \notin warned' => /\ windows'[n] + Cardinality(Early(n)') < MaxFallbacks
                            /\ windows'[n] + Cardinality(Early(n)') <= fallbacks'[n]
    <3> SUFFICES ASSUME n \notin warned
                 PROVE  /\ windows[n] + Cardinality(Early(n)') < MaxFallbacks
                        /\ windows[n] + Cardinality(Early(n)') <= fallbacks[n] + 1
      BY <2>4
    <3>1. /\ windows[n] + Cardinality(Early(n)) < MaxFallbacks
          /\ windows[n] + Cardinality(Early(n)) <= fallbacks[n]
      BY <1>0 DEF NodeInv
    <3>2. CASE fallbacks[n] + 1 < MaxFallbacks
      <4>1. Early(n)' = Early(n) \cup {h} /\ h \notin Early(n)
        BY <1>2, <2>1, <2>2, <3>2 DEF Early
      <4>2. Cardinality(Early(n)') = Cardinality(Early(n)) + 1
        BY <2>6, <4>1, FS_AddElement
      <4> QED BY <1>1, <2>5, <2>6, <3>1, <3>2, <4>2, ComputeAssumption
    <3>3. CASE ~(fallbacks[n] + 1 < MaxFallbacks)
      <4>1. Early(n)' = Early(n)
        BY <1>2, <2>1, <2>2, <3>3 DEF Early
      <4> QED BY <1>1, <2>5, <2>6, <3>1, <4>1
    <3> QED BY <3>2, <3>3
  <2> QED BY <1>0, <1>1, <2>3, <2>4, <2>5, <2>6, <2>8, <2>9 DEF NodeInv
<1>6. Named'
  BY <1>2 DEF ComputeInd, Named, InBackend
<1> QED BY <1>3, <1>4, <1>5, <1>6 DEF ComputeInd

(* A recovery that leaves the backend, warned about or not. *)
LEMMA AbsorbEnds ==
  ASSUME ComputeInd, NEW h \in Tasks, InBackend(h),
         NEW pc \in {"degraded", "failed"},
         absorbing' = [absorbing EXCEPT ![h].pc = pc],
         UNCHANGED <<topology, fallbacks, begun>>,
         \/ pc = "failed" /\ UNCHANGED <<windows, warned>>
         \/ /\ windows' = [windows EXCEPT ![absorbing[h].node] =
                             IF absorbing[h].fresh THEN @ + 1 ELSE @]
            /\ warned' = IF absorbing[h].count >= MaxFallbacks
                         THEN warned \cup {absorbing[h].node} ELSE warned
  PROVE  ComputeInd'
<1>0. ComputeTypeOK /\ \A m \in Nodes : NodeInv(m)
  BY DEF ComputeInd
<1>n. PICK n \in Nodes : absorbing[h].node = n
  BY DEF ComputeInd, Named
<1>1. /\ absorbing'[h].pc = pc /\ ~InBackend(h)'
      /\ \A k \in Tasks : absorbing'[k].count = absorbing[k].count
      /\ \A k \in Tasks \ {h} : absorbing'[k] = absorbing[k]
  BY <1>0 DEF ComputeTypeOK, InBackend
<1>2. /\ ComputeTypeOK /\ begun \in Nat /\ windows[n] \in Nat /\ fallbacks[n] \in Nat
      /\ fallbacks[n] <= begun
      /\ begun <= MaxWindows /\ MaxWindows \in Nat /\ MaxFallbacks \in Nat
      /\ absorbing[h].count \in Nat
  BY <1>0, <1>n, ComputeAssumption DEF ComputeTypeOK, NodeInv
<1>3. \A m \in Nodes : /\ m # n => windows'[m] = windows[m]
                       /\ m \in warned => m \in warned'
                       /\ ~absorbing[h].fresh => windows'[m] = windows[m]
  BY <1>0, <1>n DEF ComputeTypeOK
<1>4. ASSUME NEW m \in Nodes, m # n \/ ~absorbing[h].fresh PROVE NodeInv(m)'
  <2>1. Absorbing(m)' = Absorbing(m)
    BY <1>1, <1>4, <1>n DEF Absorbing, InBackend
  <2>2. \A k \in Absorbing(m) : absorbing'[k].count = absorbing[k].count
    BY <1>1 DEF Absorbing
  <2>3. windows'[m] = windows[m]
    BY <1>3, <1>4
  <2> QED BY <1>0, <1>2, <1>3, <2>1, <2>2, <2>3, NodeKept
<1>5. ASSUME absorbing[h].fresh PROVE NodeInv(n)'
  <2>1. h \in Absorbing(n) /\ Absorbing(n)' = Absorbing(n) \ {h}
    BY <1>1, <1>5, <1>n DEF Absorbing, InBackend
  <2>2. /\ IsFiniteSet(Absorbing(n)) /\ IsFiniteSet(Early(n))
        /\ Cardinality(Absorbing(n)) \in Nat /\ Cardinality(Early(n)) \in Nat
    BY <1>0, <1>n, AbsorbingCounted DEF NodeInv
  <2>3. /\ IsFiniteSet(Absorbing(n)')
        /\ Cardinality(Absorbing(n)') = Cardinality(Absorbing(n)) - 1
    BY <2>1, <2>2, FS_RemoveElement
  <2>4. Early(n)' = Early(n) \ {h} /\ (h \in Early(n) <=> absorbing[h].count < MaxFallbacks)
    BY <1>1, <2>1 DEF Early, Absorbing
  <2>5. absorbing[h].count < MaxFallbacks => Cardinality(Early(n)') = Cardinality(Early(n)) - 1
    BY <2>2, <2>4, FS_RemoveElement
  <2>5b. ~(absorbing[h].count < MaxFallbacks) => Cardinality(Early(n)') = Cardinality(Early(n))
    <3>1. h \notin Early(n) => Early(n) \ {h} = Early(n)
      OBVIOUS
    <3> QED BY <2>4, <3>1
  <2>6. /\ windows[n] + Cardinality(Absorbing(n)) <= fallbacks[n]
        /\ n \notin warned =>
             /\ windows[n] + Cardinality(Early(n)) < MaxFallbacks
             /\ windows[n] + Cardinality(Early(n)) <= fallbacks[n]
    BY <1>0, <1>n DEF NodeInv
  <2>7. /\ windows'[n] = windows[n] \/ windows'[n] = windows[n] + 1
        /\ n \notin warned' => n \notin warned
        /\ n \notin warned' /\ windows'[n] # windows[n] => absorbing[h].count < MaxFallbacks
    BY <1>0, <1>n, <1>2, <1>5 DEF ComputeTypeOK
  <2>8. /\ windows'[n] + Cardinality(Absorbing(n)') <= fallbacks'[n]
        /\ n \notin warned' => /\ windows'[n] + Cardinality(Early(n)') < MaxFallbacks
                               /\ windows'[n] + Cardinality(Early(n)') <= fallbacks'[n]
    <3> DEFINE A == Cardinality(Absorbing(n)')
               E == Cardinality(Early(n)')
               a == Cardinality(Absorbing(n))
               e == Cardinality(Early(n))
               w == windows'[n]
    <3>1. A = a - 1 /\ a \in Nat /\ e \in Nat /\ (E = e \/ E = e - 1)
          /\ (absorbing[h].count < MaxFallbacks => E = e - 1)
      BY <2>2, <2>3, <2>5, <2>5b
    <3>2. /\ windows[n] + a <= fallbacks[n]
          /\ n \notin warned' => windows[n] + e < MaxFallbacks /\ windows[n] + e <= fallbacks[n]
      BY <2>6, <2>7
    <3>3. /\ w = windows[n] \/ w = windows[n] + 1
          /\ n \notin warned' /\ w # windows[n] => absorbing[h].count < MaxFallbacks
      BY <2>7
    <3>4. fallbacks' = fallbacks
      OBVIOUS
    <3> HIDE DEF A, E, a, e, w
    <3>5. w + A <= fallbacks[n]
      BY <1>2, <3>1, <3>2, <3>3
    <3>6. n \notin warned' => w + E < MaxFallbacks /\ w + E <= fallbacks[n]
      BY <1>2, <3>1, <3>2, <3>3
    <3> QED BY <3>4, <3>5, <3>6 DEF A, E, w
  <2>9. \A k, j \in Absorbing(n)' : /\ absorbing'[k].count <= fallbacks'[n]
                                    /\ absorbing'[k].count = absorbing'[j].count => k = j
    <3>1. \A k, j \in Absorbing(n) : /\ absorbing[k].count <= fallbacks[n]
                                     /\ absorbing[k].count = absorbing[j].count => k = j
      BY <1>0, <1>n DEF NodeInv
    <3>2. \A k \in Absorbing(n)' :
            k \in Absorbing(n) /\ absorbing'[k].count = absorbing[k].count
      BY <1>1, <2>1 DEF Absorbing
    <3> QED BY <3>1, <3>2
  <2>10. fallbacks'[n] <= begun'
    BY <1>2
  <2> QED BY <2>3, <2>8, <2>9, <2>10 DEF NodeInv
<1>6. \A m \in Nodes : NodeInv(m)'
  BY <1>4, <1>5
<1>7. ComputeTypeOK'
  <2>1. absorbing' \in [Tasks -> [pc : {"idle", "absorbing", "degraded", "failed"},
                                   node : Nodes \cup {NoNode}, count : 0..MaxWindows,
                                   fresh : BOOLEAN]]
    BY <1>0 DEF ComputeTypeOK
  <2>2. warned' \in SUBSET Nodes
    BY <1>0, <1>n DEF ComputeTypeOK
  <2>3. /\ Cardinality(Absorbing(n)') \in Nat
        /\ windows'[n] + Cardinality(Absorbing(n)') <= fallbacks[n]
    BY <1>n, <1>6, FS_CardinalityType DEF NodeInv
  <2>4. windows'[n] \in 0..MaxWindows
    <3>1. windows'[n] \in Nat
      BY <1>0, <1>n, <1>2 DEF ComputeTypeOK
    <3> QED BY <1>2, <2>3, <3>1
  <2>5. windows' \in [Nodes -> 0..MaxWindows]
    BY <1>0, <1>n, <1>3, <2>4 DEF ComputeTypeOK
  <2> QED BY <1>0, <2>1, <2>2, <2>5 DEF ComputeTypeOK
<1>8. Named'
  BY <1>1 DEF ComputeInd, Named, InBackend
<1> QED BY <1>6, <1>7, <1>8 DEF ComputeInd

(* when a node leaves its fallback and its count starts again,             *)
LEMMA FallbackExits ==
  ASSUME ComputeInd, NEW n \in Nodes, ExitFallback(n)
  PROVE  ComputeInd'
<1>0. ComputeTypeOK /\ \A m \in Nodes : NodeInv(m)
  BY DEF ComputeInd
<1>1. \A h \in Tasks :
        /\ absorbing'[h].pc = absorbing[h].pc /\ absorbing'[h].node = absorbing[h].node
        /\ absorbing'[h].count = absorbing[h].count
        /\ absorbing[h].node = n => absorbing'[h].fresh = FALSE
        /\ absorbing[h].node # n => absorbing'[h].fresh = absorbing[h].fresh
  BY <1>0 DEF ExitFallback, ComputeTypeOK
<1>2. ComputeTypeOK'
  <2>1. absorbing' \in [Tasks -> [pc : {"idle", "absorbing", "degraded", "failed"},
                                   node : Nodes \cup {NoNode}, count : 0..MaxWindows,
                                   fresh : BOOLEAN]]
    BY <1>0 DEF ExitFallback, ComputeTypeOK
  <2> QED BY <1>0, <2>1, ComputeAssumption DEF ExitFallback, ComputeTypeOK
<1>3. ASSUME NEW m \in Nodes, m # n PROVE NodeInv(m)'
  <2>1. Absorbing(m)' = Absorbing(m)
    BY <1>1, <1>3 DEF Absorbing, InBackend
  <2>2. \A k \in Absorbing(m) : absorbing'[k].count = absorbing[k].count
    BY <1>1 DEF Absorbing
  <2>3. fallbacks'[m] = fallbacks[m] /\ windows'[m] = windows[m] /\ begun' = begun
        /\ (m \in warned => m \in warned') /\ begun \in Nat
    BY <1>0, <1>3, ComputeAssumption DEF ExitFallback, ComputeTypeOK
  <2> QED BY <1>0, <2>1, <2>2, <2>3, NodeKept
<1>4. NodeInv(n)'
  <2>1. Absorbing(n)' = {}
    BY <1>1 DEF Absorbing, InBackend
  <2>2. Early(n)' = {}
    BY <2>1 DEF Early
  <2>3. IsFiniteSet({}) /\ Cardinality({}) = 0
    BY FS_EmptySet
  <2>4. fallbacks'[n] = 0 /\ windows'[n] = 0 /\ begun' = begun /\ begun \in Nat
    BY <1>0, ComputeAssumption DEF ExitFallback, ComputeTypeOK
  <2> QED BY <2>1, <2>2, <2>3, <2>4, ComputeAssumption DEF NodeInv
<1>5. Named'
  BY <1>1 DEF ComputeInd, Named, InBackend
<1> QED BY <1>2, <1>3, <1>4, <1>5 DEF ComputeInd

(* and so after every step.                                                *)
LEMMA ComputeStep == ComputeInd /\ [ComputeNext]_computeVars => ComputeInd'
<1> SUFFICES ASSUME ComputeInd, [ComputeNext]_computeVars PROVE ComputeInd'
  OBVIOUS
<1>1. ASSUME NEW n \in Nodes, RegisterNeighbor(n) PROVE ComputeInd'
  <2>1. ComputeTypeOK'
    BY <1>1 DEF ComputeInd, RegisterNeighbor, ComputeTypeOK
  <2>2. \A m \in Nodes : NodeInv(m)'
    <3>1. UNCHANGED <<fallbacks, absorbing, begun, windows, warned>>
      BY <1>1 DEF RegisterNeighbor
    <3> QED BY <3>1, StillNodes
  <2>3. Named'
    BY <1>1 DEF ComputeInd, RegisterNeighbor, Named, InBackend
  <2> QED BY <2>1, <2>2, <2>3 DEF ComputeInd
<1>2. ASSUME NEW h \in Tasks, Absorbed(h) PROVE ComputeInd'
  BY <1>2, AbsorbEnds DEF Absorbed
<1>3. ASSUME NEW h \in Tasks, AbsorbFails(h) PROVE ComputeInd'
  BY <1>3, AbsorbEnds DEF AbsorbFails
<1>4. CASE UNCHANGED computeVars
  <2>0. UNCHANGED <<topology, fallbacks, absorbing, begun, windows, warned>>
    BY <1>4 DEF computeVars
  <2>1. ComputeTypeOK' /\ Named'
    BY <2>0 DEF ComputeInd, Named, ComputeTypeOK, InBackend
  <2>2. \A m \in Nodes : NodeInv(m)'
    BY <2>0, StillNodes
  <2> QED BY <2>1, <2>2 DEF ComputeInd
<1> QED BY <1>1, <1>2, <1>3, <1>4, AbsorbBegins, FallbackExits DEF ComputeNext

(* It says what the run checks.                                            *)
LEMMA ComputeIndImplies == ComputeInd => ComputeInv
<1> SUFFICES ASSUME ComputeInd PROVE CountsTaken /\ WarnsInTime
  BY DEF ComputeInd, ComputeInv
<1>1. CountsTaken
  BY DEF ComputeInd, NodeInv, CountsTaken, Absorbing, Cardinality
<1>2. ASSUME NEW n \in Nodes, windows[n] >= MaxFallbacks, n \notin warned PROVE FALSE
  <2>1. windows[n] \in Nat /\ Cardinality(Early(n)) \in Nat
    BY AbsorbingCounted, ComputeAssumption DEF ComputeInd, NodeInv, ComputeTypeOK
  <2>2. windows[n] + Cardinality(Early(n)) < MaxFallbacks
    BY <1>2 DEF ComputeInd, NodeInv
  <2> QED BY <1>2, <2>1, <2>2, ComputeAssumption
<1> QED BY <1>1, <1>2 DEF WarnsInTime

(* In any interleaving of recoveries, failures and exits, the bound on     *)
(* consecutive fallback windows is never passed without a warning.         *)
THEOREM BoundIsTold == ComputeSpec => []ComputeInv
<1>1. ComputeInit => ComputeInd
  BY ComputeIndInit
<1>2. ComputeInd /\ [ComputeNext]_computeVars => ComputeInd'
  BY ComputeStep
<1>3. ComputeInd => ComputeInv
  BY ComputeIndImplies
<1> QED BY <1>1, <1>2, <1>3, PTL DEF ComputeSpec

-----------------------------------------------------------------------------
(* What the benchmark says of recovery, BenchSim. *)

RanSystems == {Systems[i] : i \in 1..run}

(* How a system may score a fault: AEGIS at the tier of the trace, or late. *)
Scores(s, f) == IF s = "AEGIS"
                THEN {Outcome(CostTable["AEGIS"][f.tier] * Second, f.tier, FALSE), VanillaFallback(f)}
                ELSE {TableOutcome(s, f)}

RecoveryOutcomes == [ticks : Int, tier : Int, restart : BOOLEAN]

BenchInd ==
  /\ workload \in Workloads
  /\ trace \in Seq(FaultEvents)
  /\ run \in 0..Len(Systems)
  /\ DOMAIN outcomes = RanSystems
  /\ \A s \in RanSystems :
       /\ outcomes[s] \in Seq(RecoveryOutcomes)
       /\ Len(outcomes[s]) <= Len(trace)
       /\ \A i \in 1..Len(outcomes[s]) : outcomes[s][i] \in Scores(s, trace[i])

LEMMA SystemsRun ==
  /\ Len(Systems) = 6
  /\ \A i \in 1..6 : Systems[i] \in DOMAIN CostTable
BY DEF Systems, CostTable

(* The faults of a trace, and what they are.                               *)
LEMMA FaultTypes ==
  ASSUME NEW f \in FaultEvents
  PROVE  f.tier \in Tiers /\ f.tier = Classify(f) /\ f.step \in Nat
<1>1. PICK n \in Steps, p \in Pool :
        f = [step |-> n, signal |-> p.signal, rack |-> p.rack, tier |-> p.tier]
  BY DEF FaultEvents
<1>2. p.tier \in Tiers /\ p.tier = Classify(p) /\ n \in Nat
  BY <1>1, BenchAssumption
<1> QED BY <1>1, <1>2 DEF Classify

LEMMA RestartTypes ==
  ASSUME NEW f \in FaultEvents, workload \in Workloads
  PROVE  /\ VanillaFallback(f) \in RecoveryOutcomes
         /\ VanillaTicks(f) \in Nat /\ VanillaTicks(f) >= 120 * Second
<1>1. f.step \in Nat
  BY FaultTypes
<1>2. /\ workload.interval \in Nat \ {0} /\ workload.step \in Nat
      /\ workload.restore \in Nat /\ workload.restore >= 120 * Second
  BY BenchAssumption DEF W1, W2, W3, Second
<1>3. LostSteps(f) \in Nat
  BY <1>1, <1>2 DEF LostSteps
<1> DEFINE lost == LostSteps(f) * workload.step
<1>4. lost \in Nat
  BY <1>2, <1>3
<1> HIDE DEF lost
<1>5. VanillaTicks(f) = lost + workload.restore
  BY DEF VanillaTicks, lost
<1>6. VanillaTicks(f) \in Nat /\ VanillaTicks(f) >= 120 * Second
  BY <1>2, <1>4, <1>5 DEF Second
<1> QED BY <1>6 DEF VanillaFallback, Outcome, Restart, RecoveryOutcomes

(* The prices: AEGIS has one for each tier, none above another system's.   *)
LEMMA Prices ==
  /\ \A t \in Tiers : CostTable["AEGIS"][t] \in Nat
  /\ \A t \in B0..B3 : CostTable["AEGIS"][t] <= 55
  /\ \A s \in DOMAIN CostTable \ {"AEGIS"} : \A t \in DOMAIN CostTable[s] :
       CostTable[s][t] \in Nat /\ (t \in Tiers => CostTable["AEGIS"][t] <= CostTable[s][t])
<1>1. \A t \in Tiers : t = 0 \/ t = 1 \/ t = 2 \/ t = 3 \/ t = 4
  BY DEF Tiers, B0, B4
<1>2. /\ CostTable["AEGIS"][0] = 5 /\ CostTable["AEGIS"][1] = 25 /\ CostTable["AEGIS"][2] = 8
      /\ CostTable["AEGIS"][3] = 55 /\ CostTable["AEGIS"][4] = 270
  BY DEF CostTable, Tiers, B0, B4
<1>3. \A t \in DOMAIN CostTable["R2CCL"] : t = 0 /\ CostTable["R2CCL"][t] = 5
  BY DEF CostTable, B0
<1>4. \A t \in DOMAIN CostTable["MECEFO"] : t = 1 /\ CostTable["MECEFO"][t] = 30
  BY DEF CostTable, B1
<1>5. DOMAIN CostTable["VANILLA"] = {}
  BY DEF CostTable
<1>6. /\ DOMAIN CostTable["TIERCHECK"] = {2, 3, 4}
      /\ CostTable["TIERCHECK"][2] = 10 /\ CostTable["TIERCHECK"][3] = 60
      /\ CostTable["TIERCHECK"][4] = 300
  BY DEF CostTable, B2, B4
<1>7. /\ DOMAIN CostTable["TORCHFT"] = Tiers
      /\ CostTable["TORCHFT"][0] = 60 /\ CostTable["TORCHFT"][1] = 45
      /\ CostTable["TORCHFT"][2] = 90 /\ CostTable["TORCHFT"][3] = 300
      /\ CostTable["TORCHFT"][4] = 1800
  BY DEF CostTable, Tiers, B0, B4
<1>8. DOMAIN CostTable = {"AEGIS", "VANILLA", "R2CCL", "MECEFO", "TIERCHECK", "TORCHFT"}
  BY DEF CostTable
<1>9. ASSUME NEW s \in DOMAIN CostTable \ {"AEGIS"}, NEW t \in DOMAIN CostTable[s]
      PROVE  CostTable[s][t] \in Nat /\ (t \in Tiers => CostTable["AEGIS"][t] <= CostTable[s][t])
  <2>1. CASE s = "R2CCL" \/ s = "MECEFO" \/ s = "VANILLA"
    BY <1>2, <1>3, <1>4, <1>5, <2>1
  <2>2. CASE s = "TIERCHECK"
    BY <1>2, <1>6, <2>2
  <2>3. CASE s = "TORCHFT"
    BY <1>1, <1>2, <1>7, <2>3
  <2> QED BY <1>8, <2>1, <2>2, <2>3
<1>10. \A t \in B0..B3 : t = 0 \/ t = 1 \/ t = 2 \/ t = 3
  BY DEF B0, B3
<1> QED BY <1>1, <1>2, <1>9, <1>10

(* A runtime that has seen one fault only never makes a B4 of a B1.        *)
LEMMA OneFaultNoBurst ==
  ASSUME NEW f \in FaultEvents
  PROVE  FinalTier(f) = f.tier
<1> DEFINE same == {i \in DOMAIN Seen(f) : Seen(f)[i] = f.rack}
<1>1. Seen(f) = << >> \/ Seen(f) = <<f.rack>>
  BY DEF Seen, NewRuntime
<1>2. same \in SUBSET {1}
  BY <1>1
<1>3. Cardinality(same) <= 1
  <2>1. IsFiniteSet({1}) /\ Cardinality({1}) = 1
    BY FS_Singleton
  <2> QED BY <1>2, <2>1, FS_Subset
<1>4. Cardinality(same) \in Nat
  BY <1>2, FS_Singleton, FS_Subset, FS_CardinalityType
<1>5. ~(Cardinality(same) >= Threshold)
  BY <1>3, <1>4 DEF Threshold
<1> QED BY <1>5, FaultTypes DEF FinalTier

LEMMA ScoreTypes ==
  ASSUME NEW f \in FaultEvents, workload \in Workloads, NEW s \in DOMAIN CostTable
  PROVE  Scores(s, f) \subseteq RecoveryOutcomes
<1>1. f.tier \in Tiers /\ f.tier \in Int
  BY FaultTypes DEF Tiers, B0, B4
<1>2. CASE s = "AEGIS"
  BY <1>1, <1>2, Prices, RestartTypes DEF Scores, Outcome, RecoveryOutcomes, Second
<1>3. CASE s # "AEGIS"
  <2>1. f.tier \in DOMAIN CostTable[s] => CostTable[s][f.tier] \in Nat
    BY <1>3, Prices
  <2> QED BY <1>1, <1>3, <2>1, RestartTypes
          DEF Scores, TableOutcome, Outcome, RecoveryOutcomes, Second
<1> QED BY <1>2, <1>3

LEMMA BenchIndInit == BenchInit => BenchInd
<1> SUFFICES ASSUME BenchInit PROVE BenchInd
  OBVIOUS
<1>1. trace \in Seq(FaultEvents)
  BY BenchAssumption DEF BenchInit, Traces, BoundedSeq, SeqOf
<1>2. RanSystems = {} /\ DOMAIN outcomes = {}
  BY DEF BenchInit, RanSystems
<1> QED BY <1>1, <1>2, SystemsRun DEF BenchInit, BenchInd

(* The system that runs scores the next fault.                             *)
LEMMA RecordKeeps ==
  ASSUME BenchInd, Running, NEW o \in Scores(System, Fault), Record(o),
         UNCHANGED <<workload, trace, run>>
  PROVE  BenchInd'
<1>0. /\ run \in 1..6 /\ System \in RanSystems /\ System \in DOMAIN CostTable
  BY SystemsRun DEF BenchInd, Running, RanSystems, System
<1> DEFINE n == Len(outcomes[System]) + 1
<1>1. /\ outcomes[System] \in Seq(RecoveryOutcomes) /\ n \in 1..Len(trace)
      /\ Fault = trace[n] /\ trace[n] \in FaultEvents
  <2>1. /\ outcomes[System] \in Seq(RecoveryOutcomes) /\ Len(outcomes[System]) <= Len(trace)
        /\ System \in DOMAIN outcomes /\ trace \in Seq(FaultEvents)
    BY <1>0 DEF BenchInd
  <2>2. Len(outcomes[System]) # Len(trace)
    BY <2>1 DEF Running, Handled
  <2>3. n \in 1..Len(trace)
    BY <2>1, <2>2
  <2> QED BY <2>1, <2>3 DEF Fault
<1>2. o \in RecoveryOutcomes
  BY <1>0, <1>1, ScoreTypes DEF BenchInd
<1>3. /\ RanSystems' = RanSystems /\ DOMAIN outcomes' = RanSystems
      /\ outcomes'[System] = Append(outcomes[System], o)
      /\ \A s \in RanSystems \ {System} : outcomes'[s] = outcomes[s]
  BY <1>0 DEF BenchInd, Record, RanSystems
<1>4. \A s, f : Scores(s, f)' = Scores(s, f)
  BY DEF Scores, TableOutcome, VanillaFallback, VanillaTicks, LostSteps
<1>5. ASSUME NEW s \in RanSystems
      PROVE  /\ outcomes'[s] \in Seq(RecoveryOutcomes)
             /\ Len(outcomes'[s]) <= Len(trace)
             /\ \A i \in 1..Len(outcomes'[s]) : outcomes'[s][i] \in Scores(s, trace[i])
  <2>1. CASE s # System
    BY <1>3, <2>1 DEF BenchInd
  <2>2. CASE s = System
    <3>1. /\ outcomes'[s] \in Seq(RecoveryOutcomes) /\ Len(outcomes'[s]) = n
          /\ outcomes'[s][n] = o
          /\ \A i \in 1..Len(outcomes[System]) : outcomes'[s][i] = outcomes[System][i]
      BY <1>1, <1>2, <1>3, <2>2
    <3>2. \A i \in 1..n : i = n \/ i \in 1..Len(outcomes[System])
      BY <1>1
    <3>3. \A i \in 1..Len(outcomes[System]) : outcomes[System][i] \in Scores(System, trace[i])
      BY <1>0 DEF BenchInd
    <3> QED BY <1>1, <2>2, <3>1, <3>2, <3>3
  <2> QED BY <2>1, <2>2
<1> QED BY <1>3, <1>4, <1>5 DEF BenchInd

LEMMA BenchStep == BenchInd /\ [BenchNext]_benchVars => BenchInd'
<1> SUFFICES ASSUME BenchInd, [BenchNext]_benchVars PROVE BenchInd'
  OBVIOUS
<1>1. CASE HandleTable
  BY <1>1, RecordKeeps DEF HandleTable, Scores
<1>2. CASE HandleAegis \/ HandleAegisLate
  <2>1. Running /\ System = "AEGIS" /\ UNCHANGED <<workload, trace, run>>
    BY <1>2 DEF HandleAegis, HandleAegisLate
  <2>2. Fault \in FaultEvents
    <3>1. /\ System \in DOMAIN outcomes /\ System \in RanSystems
      BY <2>1, SystemsRun DEF BenchInd, Running, RanSystems, System
    <3>2. /\ trace \in Seq(FaultEvents) /\ outcomes[System] \in Seq(RecoveryOutcomes)
          /\ Len(outcomes[System]) <= Len(trace) /\ Len(outcomes[System]) # Len(trace)
      BY <2>1, <3>1 DEF BenchInd, Running, Handled
    <3>3. Len(outcomes[System]) + 1 \in 1..Len(trace)
      BY <3>2
    <3> QED BY <3>2, <3>3 DEF Fault
  <2>3. FinalTier(Fault) = Fault.tier
    BY <2>2, OneFaultNoBurst
  <2>4. \E o \in Scores(System, Fault) : Record(o)
    BY <1>2, <2>1, <2>3 DEF HandleAegis, HandleAegisLate, Scores
  <2> QED BY <2>1, <2>4, RecordKeeps
<1>3. CASE NextSystem
  <2>1. /\ run \in 0..5 /\ run' = run + 1 /\ UNCHANGED <<workload, trace>>
    BY <1>3, SystemsRun DEF NextSystem, BenchInd
  <2>2. RanSystems' = RanSystems \cup {Systems[run + 1]}
    BY <2>1 DEF RanSystems
  <2>3. /\ DOMAIN outcomes' = RanSystems'
        /\ \A s \in RanSystems' : outcomes'[s] = IF s \in RanSystems THEN outcomes[s] ELSE << >>
    BY <1>3, <2>2 DEF NextSystem, BenchInd
  <2>4. \A s, f : Scores(s, f)' = Scores(s, f)
    BY <2>1 DEF Scores, TableOutcome, VanillaFallback, VanillaTicks, LostSteps
  <2>5. ASSUME NEW s \in RanSystems'
        PROVE  /\ outcomes'[s] \in Seq(RecoveryOutcomes)
               /\ Len(outcomes'[s]) <= Len(trace)
               /\ \A i \in 1..Len(outcomes'[s]) : outcomes'[s][i] \in Scores(s, trace[i])
    <3>1. CASE s \in RanSystems
      BY <2>3, <3>1 DEF BenchInd
    <3>2. CASE s \notin RanSystems
      <4>1. outcomes'[s] = << >> /\ Len(trace) \in Nat
        BY <2>3, <3>2 DEF BenchInd
      <4> QED BY <4>1
    <3> QED BY <3>1, <3>2
  <2> QED BY <2>1, <2>3, <2>4, <2>5, SystemsRun DEF BenchInd
<1>4. CASE UNCHANGED benchVars
  BY <1>4 DEF benchVars, BenchInd, RanSystems, Scores, TableOutcome, VanillaFallback,
              VanillaTicks, LostSteps
<1> QED BY <1>1, <1>2, <1>3, <1>4 DEF BenchNext

LEMMA BenchInvariant == BenchSpec => []BenchInd
BY BenchIndInit, BenchStep, PTL DEF BenchSpec

(* On a trace of any faults and any length, a fault that AEGIS answers in  *)
(* time is recovered at the tier the trace says.                           *)
THEOREM RecoversAtTier == BenchSpec => []AtExpectedTier
<1>1. BenchInd => AtExpectedTier
  <2> SUFFICES ASSUME BenchInd, NEW s \in DOMAIN outcomes, NEW i \in DOMAIN outcomes[s]
               PROVE  outcomes[s][i].restart \/ outcomes[s][i].tier = trace[i].tier
    BY DEF AtExpectedTier
  <2>1. outcomes[s][i] \in Scores(s, trace[i])
    BY DEF BenchInd
  <2> QED BY <2>1 DEF Scores, TableOutcome, VanillaFallback, Outcome
<1> QED BY <1>1, BenchInvariant, PTL

(* Fault by fault no system is faster than AEGIS: of a fault both have     *)
(* handled, unless the answer was late or a restart costs less than        *)
(* Tier-3.  The sums of CompositionWins are over these.                    *)
FaultByFault ==
  \A s \in DOMAIN outcomes : "AEGIS" \in DOMAIN outcomes =>
    \A i \in DOMAIN outcomes[s] \cap DOMAIN outcomes["AEGIS"] :
      ~outcomes["AEGIS"][i].restart /\ ~CheapRestart(trace[i]) =>
        outcomes["AEGIS"][i].ticks <= outcomes[s][i].ticks

(* The composition claim of test_bt2_composition_claim.py, fault by fault, *)
(* on a trace of any faults and any length.                                *)
THEOREM NoneIsFaster == BenchSpec => []FaultByFault
<1>1. BenchInd => FaultByFault
  <2> SUFFICES ASSUME BenchInd, NEW s \in DOMAIN outcomes, "AEGIS" \in DOMAIN outcomes,
                      NEW i \in DOMAIN outcomes[s], i \in DOMAIN outcomes["AEGIS"],
                      ~outcomes["AEGIS"][i].restart, ~CheapRestart(trace[i])
               PROVE  outcomes["AEGIS"][i].ticks <= outcomes[s][i].ticks
    BY DEF FaultByFault
  <2> DEFINE f == trace[i]
  <2>0. s \in DOMAIN CostTable
    BY SystemsRun DEF BenchInd, RanSystems
  <2>1. /\ outcomes[s][i] \in Scores(s, f) /\ outcomes["AEGIS"][i] \in Scores("AEGIS", f)
        /\ outcomes[s][i] \in RecoveryOutcomes
    BY DEF BenchInd
  <2>2. f \in FaultEvents
    <3>1. i \in 1..Len(trace)
      BY DEF BenchInd
    <3> QED BY <3>1 DEF BenchInd
  <2>3. f.tier \in Tiers
    BY <2>2, FaultTypes
  <2>4. outcomes["AEGIS"][i].ticks = CostTable["AEGIS"][f.tier] * Second
    BY <2>1 DEF Scores, VanillaFallback, Outcome
  <2>5. CASE s = "AEGIS"
    BY <2>1, <2>5 DEF RecoveryOutcomes
  <2>6. CASE s # "AEGIS" /\ f.tier \in DOMAIN CostTable[s]
    <3>1. outcomes[s][i].ticks = CostTable[s][f.tier] * Second
      BY <2>1, <2>6 DEF Scores, TableOutcome, Outcome
    <3>2. /\ CostTable["AEGIS"][f.tier] <= CostTable[s][f.tier]
          /\ CostTable["AEGIS"][f.tier] \in Nat /\ CostTable[s][f.tier] \in Nat
      BY <2>0, <2>3, <2>6, Prices
    <3> QED BY <2>4, <3>1, <3>2 DEF Second
  <2>7. CASE s # "AEGIS" /\ f.tier \notin DOMAIN CostTable[s]
    <3>1. outcomes[s][i].ticks = VanillaTicks(f)
      BY <2>1, <2>7 DEF Scores, TableOutcome, VanillaFallback, Outcome
    <3>2. VanillaTicks(f) \in Nat /\ VanillaTicks(f) >= 120 * Second
      BY <2>2, RestartTypes DEF BenchInd
    <3>3. CostTable["AEGIS"][f.tier] \in Nat
      BY <2>3, Prices
    <3>4. CASE f.tier = B4
      BY <2>4, <3>1, <3>2, <3>3, <3>4 DEF CheapRestart, Second
    <3>5. CASE f.tier # B4
      <4>1. f.tier \in B0..B3
        BY <2>3, <3>5 DEF Tiers, B0, B3, B4
      <4>2. CostTable["AEGIS"][f.tier] <= 55
        BY <4>1, Prices
      <4> QED BY <2>4, <3>1, <3>2, <3>3, <4>2 DEF Second
    <3> QED BY <3>4, <3>5
  <2> QED BY <2>5, <2>6, <2>7
<1> QED BY <1>1, BenchInvariant, PTL

(* total is the running total of the recovery times in the sequence os.    *)
SumsUp(total, os, len) ==
  total = [n \in 0..len |-> IF n = 0 THEN 0 ELSE total[n - 1] + os[n].ticks]

(* There is such a function for any sequence: each is the one before it,   *)
(* and one term more.                                                      *)
LEMMA TotalExists ==
  ASSUME NEW os
  PROVE  \A len \in Nat : \E total : SumsUp(total, os, len)
<1> DEFINE S == {len \in Nat : \E total : SumsUp(total, os, len)}
<1>1. 0 \in S
  <2>1. SumsUp([n \in 0..0 |-> 0], os, 0)
    BY DEF SumsUp
  <2> QED BY <2>1
<1>2. ASSUME NEW len \in Nat, len \in S PROVE len + 1 \in S
  <2>1. PICK total : SumsUp(total, os, len)
    BY <1>2
  <2> DEFINE longer == [n \in 0..(len + 1) |-> IF n = len + 1 THEN total[len] + os[n].ticks
                                                              ELSE total[n]]
  <2>2. \A n \in 0..len : total[n] = IF n = 0 THEN 0 ELSE total[n - 1] + os[n].ticks
    BY <2>1 DEF SumsUp
  <2>3. ASSUME NEW n \in 0..(len + 1)
        PROVE  longer[n] = IF n = 0 THEN 0 ELSE longer[n - 1] + os[n].ticks
    <3>1. CASE n = len + 1
      BY <3>1
    <3>2. CASE n # len + 1
      BY <2>2, <3>2
    <3> QED BY <3>1, <3>2
  <2>4. longer = [n \in 0..(len + 1) |-> longer[n]]
    OBVIOUS
  <2> HIDE DEF longer
  <2>5. SumsUp(longer, os, len + 1)
    BY <2>3, <2>4 DEF SumsUp
  <2> QED BY <2>5
<1> HIDE DEF S
<1>3. Nat \subseteq S
  BY <1>1, <1>2, InductiveSet
<1> QED BY <1>3 DEF S

LEMMA TotalIsSum ==
  ASSUME NEW s, Len(outcomes[s]) \in Nat
  PROVE  SumsUp(RunningTotal(s), outcomes[s], Len(outcomes[s]))
<1>1. \E total : SumsUp(total, outcomes[s], Len(outcomes[s]))
  BY TotalExists
<1> QED BY <1>1 DEF SumsUp, RunningTotal

(* Of two sums of as many terms, the one whose terms are not greater is    *)
(* not greater.                                                            *)
LEMMA TermByTerm ==
  ASSUME NEW len \in Nat,
         NEW os \in Seq(RecoveryOutcomes), NEW us \in Seq(RecoveryOutcomes),
         Len(os) = len, Len(us) = len,
         \A i \in 1..len : os[i].ticks <= us[i].ticks,
         NEW ot, SumsUp(ot, os, len), NEW ut, SumsUp(ut, us, len)
  PROVE  ot[len] \in Int /\ ut[len] \in Int /\ ot[len] <= ut[len]
<1> DEFINE S == {n \in Nat : n <= len => ot[n] \in Int /\ ut[n] \in Int /\ ot[n] <= ut[n]}
<1>1. \A n \in 0..len : /\ ot[n] = IF n = 0 THEN 0 ELSE ot[n - 1] + os[n].ticks
                        /\ ut[n] = IF n = 0 THEN 0 ELSE ut[n - 1] + us[n].ticks
  BY DEF SumsUp
<1>2. 0 \in S
  BY <1>1
<1>3. ASSUME NEW n \in Nat, n \in S PROVE n + 1 \in S
  <2> SUFFICES ASSUME n + 1 <= len
               PROVE  /\ ot[n + 1] \in Int /\ ut[n + 1] \in Int
                      /\ ot[n + 1] <= ut[n + 1]
    OBVIOUS
  <2>1. ot[n] \in Int /\ ut[n] \in Int /\ ot[n] <= ut[n]
    BY <1>3
  <2>2. n + 1 \in 1..len /\ n + 1 \in 0..len /\ (n + 1) - 1 = n /\ n + 1 # 0
    OBVIOUS
  <2>3. ot[n + 1] = ot[n] + os[n + 1].ticks /\ ut[n + 1] = ut[n] + us[n + 1].ticks
    BY <1>1, <2>2
  <2>4. os[n + 1].ticks \in Int /\ us[n + 1].ticks \in Int
        /\ os[n + 1].ticks <= us[n + 1].ticks
    <3>1. os[n + 1] \in RecoveryOutcomes /\ us[n + 1] \in RecoveryOutcomes
      BY <2>2
    <3>2. os[n + 1].ticks <= us[n + 1].ticks
      BY <2>2
    <3> QED BY <3>1, <3>2 DEF RecoveryOutcomes
  <2> HIDE DEF S
  <2> QED BY <2>1, <2>3, <2>4
<1> HIDE DEF S
<1>4. Nat \subseteq S
  BY <1>2, <1>3, InductiveSet
<1> QED BY <1>4 DEF S

(* The composition claim itself: over a whole trace, of any faults and any *)
(* length, no system of the benchmark spends less time recovering, nor has *)
(* more goodput, than an AEGIS that answers in time, unless the trace has  *)
(* a rack fault so soon after a checkpoint that a restart is cheaper.      *)
THEOREM NoneWins == BenchSpec => []CompositionWins
<1>1. BenchInd /\ FaultByFault => CompositionWins
  <2> SUFFICES ASSUME BenchInd, FaultByFault, NEW s \in DOMAIN outcomes,
                      Handled(s), Handled("AEGIS"), ~Late,
                      \A i \in DOMAIN trace : ~CheapRestart(trace[i])
               PROVE  Saved("AEGIS", s) >= 0 /\ ProductiveTicks("AEGIS") >= ProductiveTicks(s)
    BY DEF CompositionWins
  <2> DEFINE len == Len(trace)
             os  == outcomes["AEGIS"]
             us  == outcomes[s]
  <2>1. /\ "AEGIS" \in DOMAIN outcomes /\ os \in Seq(RecoveryOutcomes)
        /\ us \in Seq(RecoveryOutcomes) /\ len \in Nat /\ Len(os) = len /\ Len(us) = len
    BY DEF BenchInd, Handled
  <2>2. \A i \in 1..len : os[i].ticks <= us[i].ticks
    <3> TAKE i \in 1..len
    <3>1. i \in DOMAIN os /\ i \in DOMAIN us /\ i \in DOMAIN trace
      BY <2>1 DEF BenchInd
    <3>2. ~os[i].restart
      BY <2>1, <3>1 DEF Late
    <3> QED BY <2>1, <3>1, <3>2 DEF FaultByFault
  <2>3. /\ SumsUp(RunningTotal("AEGIS"), os, len)
        /\ SumsUp(RunningTotal(s), us, len)
    BY <2>1, TotalIsSum
  <2>4. /\ TotalTicks("AEGIS") \in Int /\ TotalTicks(s) \in Int
        /\ TotalTicks("AEGIS") <= TotalTicks(s)
    <3> HIDE DEF os, us, len
    <3>1. /\ RunningTotal("AEGIS")[len] \in Int /\ RunningTotal(s)[len] \in Int
          /\ RunningTotal("AEGIS")[len] <= RunningTotal(s)[len]
      BY <2>1, <2>2, <2>3, TermByTerm
    <3> QED BY <2>1, <3>1 DEF TotalTicks, os, us
  <2>5. TotalSteps * workload.step \in Int
    <3>1. TotalSteps \in Nat /\ workload.step \in Nat
      BY BenchAssumption DEF BenchInd, W1, W2, W3
    <3> QED BY <3>1
  <2> QED BY <2>4, <2>5 DEF Saved, ProductiveTicks
<1>2. BenchSpec => []FaultByFault
  BY NoneIsFaster
<1> QED BY <1>1, <1>2, BenchInvariant, PTL
=============================================================================
