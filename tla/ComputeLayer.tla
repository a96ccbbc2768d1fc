---------------------------- MODULE ComputeLayer ----------------------------
(***************************************************************************)
(* B1 recovery: neighbour absorption, aegis/layers/compute.py, and the     *)
(* bound on consecutive fallback windows.                                  *)
(*                                                                         *)
(* recover() counts the window before it awaits the backend and warns      *)
(* after it, with the count it took; between the two another recovery, an  *)
(* exit_fallback() or a cancellation may come.                             *)
(***************************************************************************)
EXTENDS Naturals, FiniteSets

CONSTANTS Nodes, Tasks,
          MaxFallbacks,   \* MAX_CONSECUTIVE_FALLBACKS
          MaxWindows      \* bound

ASSUME ComputeAssumption == /\ MaxFallbacks \in Nat \ {0}
                            /\ MaxWindows \in Nat

NoNode == "none"

VARIABLES
  topology,    \* the nodes with a registered neighbour
  fallbacks,   \* _consecutive_fallbacks
  absorbing,   \* the recover() call each task is in
  begun,       \* history: recoveries begun
  windows,     \* history: recoveries begun and completed since the last exit
  warned       \* history: the nodes warned about since the last exit

computeVars == <<topology, fallbacks, absorbing, begun, windows, warned>>

NoWindow == [pc |-> "idle", node |-> NoNode, count |-> 0, fresh |-> TRUE]

ComputeInit == /\ topology = {}
               /\ fallbacks = [n \in Nodes |-> 0]
               /\ absorbing = [h \in Tasks |-> NoWindow]
               /\ begun = 0
               /\ windows = [n \in Nodes |-> 0]
               /\ warned = {}

RegisterNeighbor(n) == /\ n \notin topology
                       /\ topology' = topology \cup {n}
                       /\ UNCHANGED <<fallbacks, absorbing, begun, windows, warned>>

(* can_handle, and recover() up to the await.                              *)
BeginAbsorb(h, n) ==
  /\ absorbing[h].pc # "absorbing"
  /\ begun < MaxWindows
  /\ n \in topology
  /\ begun' = begun + 1
  /\ fallbacks' = [fallbacks EXCEPT ![n] = @ + 1]
  /\ absorbing' = [absorbing EXCEPT ![h] =
       [pc |-> "absorbing", node |-> n, count |-> fallbacks[n] + 1, fresh |-> TRUE]]
  /\ UNCHANGED <<topology, windows, warned>>

(* absorb() is under way: any backend may suspend in it, for any time.     *)
InBackend(h) == absorbing[h].pc = "absorbing"

(* Mutant: the warning comes one window late.                              *)
AbsorbedLate(h) ==
  /\ InBackend(h)
  /\ LET n == absorbing[h].node
     IN  /\ windows' = [windows EXCEPT ![n] = IF absorbing[h].fresh THEN @ + 1 ELSE @]
         /\ warned' = IF absorbing[h].count > MaxFallbacks THEN warned \cup {n} ELSE warned
  /\ absorbing' = [absorbing EXCEPT ![h].pc = "degraded"]
  /\ UNCHANGED <<topology, fallbacks, begun>>

(* absorb() succeeded: the result is degraded, and the bound is looked at. *)
Absorbed(h) ==
  /\ InBackend(h)
  /\ LET n == absorbing[h].node
     IN  /\ windows' = [windows EXCEPT ![n] = IF absorbing[h].fresh THEN @ + 1 ELSE @]
         /\ warned' = IF absorbing[h].count >= MaxFallbacks THEN warned \cup {n} ELSE warned
  /\ absorbing' = [absorbing EXCEPT ![h].pc = "degraded"]
  /\ UNCHANGED <<topology, fallbacks, begun>>

(* absorb() reports failure, raises, or is cancelled: the count stands.    *)
AbsorbFails(h) == /\ InBackend(h)
                  /\ absorbing' = [absorbing EXCEPT ![h].pc = "failed"]
                  /\ UNCHANGED <<topology, fallbacks, begun, windows, warned>>

ExitFallback(n) ==
  /\ fallbacks[n] # 0
  /\ fallbacks' = [fallbacks EXCEPT ![n] = 0]
  /\ windows' = [windows EXCEPT ![n] = 0]
  /\ warned' = warned \ {n}
  /\ absorbing' = [h \in Tasks |->
       IF absorbing[h].node = n THEN [absorbing[h] EXCEPT !.fresh = FALSE] ELSE absorbing[h]]
  /\ UNCHANGED <<topology, begun>>

ComputeNext == \/ \E n \in Nodes : RegisterNeighbor(n) \/ ExitFallback(n)
               \/ \E h \in Tasks : \/ \E n \in Nodes : BeginAbsorb(h, n)
                                   \/ Absorbed(h) \/ AbsorbFails(h)

ComputeSpec == ComputeInit /\ [][ComputeNext]_computeVars
-----------------------------------------------------------------------------
ComputeTypeOK == /\ topology \subseteq Nodes
                 /\ fallbacks \in [Nodes -> 0..MaxWindows]
                 /\ absorbing \in [Tasks -> [pc : {"idle", "absorbing", "degraded", "failed"},
                                              node : Nodes \cup {NoNode}, count : 0..MaxWindows,
                                              fresh : BOOLEAN]]
                 /\ begun \in 0..MaxWindows
                 /\ windows \in [Nodes -> 0..MaxWindows]
                 /\ warned \subseteq Nodes

Absorbing(n) == {h \in Tasks : InBackend(h) /\ absorbing[h].fresh /\ absorbing[h].node = n}

(* The counter a handler compares was taken before it suspended: the       *)
(* windows completed and those under way never outnumber it, and of those  *)
(* under way no two hold the same count (_fallback_counts).                *)
CountsTaken ==
  \A n \in Nodes :
    /\ windows[n] + Cardinality(Absorbing(n)) <= fallbacks[n]
    /\ \A h, k \in Absorbing(n) : /\ absorbing[h].count <= fallbacks[n]
                                  /\ absorbing[h].count = absorbing[k].count => h = k

(* The bound is never passed silently: once a node has completed that many *)
(* fallback windows since its last exit it has been warned about, whatever *)
(* order overlapping recoveries, failures and exits come in.               *)
WarnsInTime == \A n \in Nodes : windows[n] >= MaxFallbacks => n \in warned

(* Types, and both of the above, in any interleaving of recoveries.        *)
ComputeInv == ComputeTypeOK /\ CountsTaken /\ WarnsInTime
=============================================================================
