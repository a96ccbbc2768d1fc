--------------------------- MODULE TransportLayer ---------------------------
(***************************************************************************)
(* B0 recovery: the NIC state machine of aegis/layers/transport.py for one *)
(* node (nodes share nothing but last_migration).                          *)
(*                                                                         *)
(* recover() suspends once, inside backend.migrate(), so a second call for *)
(* the node can run between its two halves: the engine's handlers overlap  *)
(* while the bus stops.  A handler suspended there can also be cancelled.  *)
(* NICs are numbered in registration order.                                *)
(***************************************************************************)
EXTENDS Naturals, FiniteSets

CONSTANTS NumNics,       \* NICs of the node
          Handlers,      \* the tasks a recover() call can run in
          Faults,        \* distinct faults the node can suffer
          MaxCalls, MaxRegistrations   \* bounds

ASSUME TransportAssumption == /\ NumNics \in Nat \ {0}
                              /\ MaxCalls \in Nat /\ MaxRegistrations \in Nat \ {0}

Nics    == 1..NumNics
NoNic   == 0              \* nic_id is None, or names no NIC of the node
Entries == 1..MaxRegistrations
NoFault == "none"

VARIABLES
  entry,     \* every NodeNics made so far; _nodes[node] is the last
  current,   \* how many there are
  nicOf,     \* the nic_id each fault's signal carries, once raised
  handler,   \* the recover() call each task is in
  calls,     \* history: calls to can_handle
  abandoned, \* history: the entries on which a recover() was cancelled
  raced      \* history: the entries on which two recover() calls overlapped

vars == <<entry, current, nicOf, handler, calls, abandoned, raced>>

Fresh == [state |-> "stable", active_nic |-> 1, failed_nics |-> {}]
Idle  == [pc |-> "idle", entry |-> 1, fault |-> NoFault, from |-> NoNic, to |-> NoNic]

Init == /\ entry = [e \in Entries |-> Fresh]
        /\ current = 1
        /\ nicOf \in [Faults -> Nics \cup {NoNic}]
        /\ handler = [h \in Handlers |-> Idle]
        /\ calls = 0
        /\ abandoned = {}
        /\ raced = {}

Healthy(e) == Nics \ entry[e].failed_nics
Migrating(e) == \E h \in Handlers : handler[h].pc = "migrating" /\ handler[h].entry = e
First(S)   == CHOOSE n \in S : \A m \in S : n <= m

-----------------------------------------------------------------------------
(* register_node_nics again (a NIC was repaired): a new entry replaces the *)
(* old one, which a suspended recover() still holds.                       *)
Register == /\ current < MaxRegistrations
            /\ current' = current + 1
            /\ UNCHANGED <<entry, nicOf, handler, calls, abandoned, raced>>

(* can_handle: two healthy NICs, and then recover() up to its await, with  *)
(* no suspension in between.  Two healthy NICs leave a candidate whichever *)
(* NIC failed, so behind can_handle the "no backup" return is never taken. *)
FailedNic(f)  == IF nicOf[f] = NoNic THEN entry[current].active_nic ELSE nicOf[f]
(* Mutant: the failed NIC is a candidate for itself.                       *)
CandidatesAll(f) == Healthy(current)

Candidates(f) == Healthy(current) \ {FailedNic(f)}

Call(h, f) == /\ handler[h].pc # "migrating"
              /\ calls < MaxCalls
              /\ calls' = calls + 1

Refuse(h, f) ==
  /\ Call(h, f)
  /\ Cardinality(Healthy(current)) < 2
  /\ handler' = [handler EXCEPT ![h] = [Idle EXCEPT !.pc = "refused", !.entry = current, !.fault = f]]
  /\ UNCHANGED <<entry, current, nicOf, abandoned, raced>>

Begin(h, f) ==
  /\ Call(h, f)
  /\ Cardinality(Healthy(current)) >= 2
  /\ entry' = [entry EXCEPT ![current].state = "migrating",
                            ![current].failed_nics = @ \cup {FailedNic(f)}]
  /\ handler' = [handler EXCEPT ![h] =
       [pc |-> "migrating", entry |-> current, fault |-> f,
        from |-> FailedNic(f), to |-> First(Candidates(f))]]
  /\ raced' = IF Migrating(current) THEN raced \cup {current} ELSE raced
  /\ UNCHANGED <<current, nicOf, abandoned>>

(* migrate() returned: the simulated backend always succeeds, the RDMA one *)
(* fails when the backup's link is down.                                   *)
Migrated(h) ==
  /\ handler[h].pc = "migrating"
  /\ entry' = [entry EXCEPT ![handler[h].entry].active_nic = handler[h].to,
                            ![handler[h].entry].state = "migrated"]
  /\ handler' = [handler EXCEPT ![h].pc = "succeeded"]
  /\ UNCHANGED <<current, nicOf, calls, abandoned, raced>>

(* Mutant: the backup whose link was down is failed as well.               *)
BackendFailsBackup(h) ==
  /\ handler[h].pc = "migrating"
  /\ entry' = [entry EXCEPT ![handler[h].entry].state = "failed",
                            ![handler[h].entry].failed_nics = @ \cup {handler[h].to}]
  /\ handler' = [handler EXCEPT ![h].pc = "failed"]
  /\ UNCHANGED <<current, nicOf, calls, abandoned, raced>>

(* Mutant: a failed migration leaves the state as it was.                  *)
BackendFailsQuietly(h) ==
  /\ handler[h].pc = "migrating"
  /\ handler' = [handler EXCEPT ![h].pc = "failed"]
  /\ UNCHANGED <<entry, current, nicOf, calls, abandoned, raced>>

BackendFails(h) ==
  /\ handler[h].pc = "migrating"
  /\ entry' = [entry EXCEPT ![handler[h].entry].state = "failed"]
  /\ handler' = [handler EXCEPT ![h].pc = "failed"]
  /\ UNCHANGED <<current, nicOf, calls, abandoned, raced>>

(* The bus stops, or the backend raises: what the first half wrote stays.  *)
Cancel(h) ==
  /\ handler[h].pc = "migrating"
  /\ handler' = [handler EXCEPT ![h].pc = "cancelled"]
  /\ abandoned' = abandoned \cup {handler[h].entry}
  /\ UNCHANGED <<entry, current, nicOf, calls, raced>>

Next == \/ Register
        \/ \E h \in Handlers :
             \/ \E f \in Faults : Refuse(h, f) \/ Begin(h, f)
             \/ Migrated(h) \/ BackendFails(h) \/ Cancel(h)

Spec == Init /\ [][Next]_vars
-----------------------------------------------------------------------------
TypeOK ==
  /\ entry \in [Entries -> [state : {"stable", "migrating", "migrated", "failed"},
                            active_nic : Nics, failed_nics : SUBSET Nics]]
  /\ current \in Entries
  /\ nicOf \in [Faults -> Nics \cup {NoNic}]
  /\ handler \in [Handlers -> [pc : {"idle", "refused", "migrating",
                                     "succeeded", "failed", "cancelled"},
                               entry : Entries, fault : Faults \cup {NoFault},
                               from : Nics \cup {NoNic}, to : Nics \cup {NoNic}]]
  /\ calls \in 0..MaxCalls
  /\ abandoned \subseteq Entries /\ raced \subseteq Entries

(* Never every NIC is given up: can_handle admits a fault only while two   *)
(* are healthy, and each recover() fails one, so a healthy NIC is always   *)
(* left, however calls interleave.                                         *)
OneNicLeft == \A e \in Entries : Healthy(e) # {}

(* Types hold, and so does OneNicLeft, however recoveries overlap.         *)
NicInv == TypeOK /\ OneNicLeft

(* While the recoveries of a node come one after another, one that says    *)
(* its connection is up (stable, migrated) uses a NIC it believes healthy, *)
(* the first such in registration order: failing over never lands on a     *)
(* failed NIC, whatever was cancelled or failed before.                    *)
SerialActiveHealthy ==
  \A e \in Entries \ raced : entry[e].state \in {"stable", "migrated"} =>
    entry[e].active_nic = First(Healthy(e))

(* A node does not stay migrating: unless a recover() on it was cancelled, *)
(* state "migrating" means that a migration is under way, whichever of     *)
(* several overlapping recoveries wrote the state last.                    *)
StuckOnlyIfCancelled == \A e \in Entries \ abandoned : entry[e].state = "migrating" => Migrating(e)
=============================================================================
