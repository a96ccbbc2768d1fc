--------------------------- MODULE CheckpointApi ----------------------------
(***************************************************************************)
(* The explicit checkpoint API: aegis/checkpoint.py over the three         *)
(* histories of StorageLayer.                                              *)
(*                                                                         *)
(* save() and restore() run in training threads while the AEGIS loop       *)
(* thread moves the fault epoch.  A save is one write per tier and may     *)
(* raise between two of them; a restore looks at one tier after another.   *)
(* How a write reaches the disk is StorageLayer's business: here it        *)
(* appends its epoch, and neither the state given to save() nor the epoch  *)
(* given to restore() is looked at by the code.                            *)
(***************************************************************************)
EXTENDS Naturals, Sequences

CONSTANTS Callers,              \* training threads calling the API
          MaxSaves, MaxEpoch    \* bounds

ASSUME ApiAssumption == MaxSaves \in Nat /\ MaxEpoch \in Nat

Tiers   == {"local", "peer", "remote"}
Epochs  == 0..MaxEpoch
NoEpoch == MaxEpoch + 1     \* no epoch

VARIABLES
  epoch,      \* FaultEpochService.current()
  log,        \* _tier1["local"], _tier2["local"], _tier3: epochs, oldest first
  saver,      \* the save() each thread is in
  reader,     \* the restore() under way, or its outcome
  saves,      \* history: save() calls
  raced,      \* history: a call began while another was under way
  delivered   \* history: the newest epoch a restore() has returned

apiVars == <<epoch, log, saver, reader, saves, raced, delivered>>

Idle == [todo |-> << >>, epoch |-> 0]

ApiInit == /\ epoch = 0
           /\ log = [t \in Tiers |-> << >>]
           /\ saver = [s \in Callers |-> Idle]
           /\ reader = [pc |-> "idle"]
           /\ saves = 0
           /\ raced = FALSE
           /\ delivered = 0

-----------------------------------------------------------------------------
NextEpoch == /\ epoch < MaxEpoch
             /\ epoch' = epoch + 1
             /\ UNCHANGED <<log, saver, reader, saves, raced, delivered>>

Restoring == reader.pc \in Tiers
Free(s)   == saver[s].todo = << >> /\ (Restoring => reader.by # s)
Enter(s)  == Free(s) /\ raced' = (raced \/ \E t \in Callers : ~Free(t))

(* save(): the epoch is read once, then "auto" writes every tier in turn. *)

Plan(tier) == IF tier = "auto" THEN <<"local", "peer", "remote">> ELSE <<tier>>

Save(s, tier) ==
  /\ Enter(s)
  /\ saves < MaxSaves
  /\ saves' = saves + 1
  /\ saver' = [saver EXCEPT ![s] = [todo |-> Plan(tier), epoch |-> epoch]]
  /\ UNCHANGED <<epoch, log, reader, delivered>>

WriteTier(s) ==
  /\ saver[s].todo # << >>
  /\ log' = [log EXCEPT ![Head(saver[s].todo)] = Append(@, saver[s].epoch)]
  /\ saver' = [saver EXCEPT ![s].todo = Tail(@)]
  /\ UNCHANGED <<epoch, reader, saves, raced, delivered>>

(* Mutant: a save that raises takes the entries of its epoch back.         *)
SaveUndone(s) ==
  /\ saver[s].todo # << >>
  /\ saver' = [saver EXCEPT ![s].todo = << >>]
  /\ log' = [t \in Tiers |-> SelectSeq(log[t], LAMBDA e : e # saver[s].epoch)]
  /\ UNCHANGED <<epoch, reader, saves, raced, delivered>>

(* A write raises: the tiers already written keep their entry.             *)
SaveRaises(s) ==
  /\ saver[s].todo # << >>
  /\ saver' = [saver EXCEPT ![s].todo = << >>]
  /\ UNCHANGED <<epoch, log, reader, saves, raced, delivered>>

-----------------------------------------------------------------------------
(* restore(): the first tier that has anything, newest entry first.        *)

LastOf(t) == log[t][Len(log[t])]
Durable   == IF log["remote"] = << >> THEN 0 ELSE LastOf("remote")
Nonempty  == {t \in Tiers : log[t] # << >>}

(* Mutant: the cheapest tier is looked at first.                           *)
RestoreLocalFirst(s) ==
  /\ ~Restoring
  /\ Enter(s)
  /\ reader' = [pc |-> "local", by |-> s, epoch |-> NoEpoch,
                saw |-> Nonempty # {}, durable |-> Durable]
  /\ UNCHANGED <<epoch, log, saver, saves, delivered>>

Restore(s) ==
  /\ ~Restoring
  /\ Enter(s)
  /\ reader' = [pc |-> "remote", by |-> s, epoch |-> NoEpoch,
                saw |-> Nonempty # {}, durable |-> Durable]
  /\ UNCHANGED <<epoch, log, saver, saves, delivered>>

Found ==
  /\ Restoring
  /\ log[reader.pc] # << >>
  /\ LET e == LastOf(reader.pc)
     IN  /\ reader' = [reader EXCEPT !.pc = "returned", !.epoch = e]
         /\ delivered' = IF e > delivered THEN e ELSE delivered
  /\ UNCHANGED <<epoch, log, saver, saves, raced>>

FallThrough == [remote |-> "peer", peer |-> "local", local |-> "raised"]

NotFound ==
  /\ Restoring
  /\ log[reader.pc] = << >>
  /\ reader' = [reader EXCEPT !.pc = FallThrough[@]]
  /\ UNCHANGED <<epoch, log, saver, saves, raced, delivered>>

ApiNext == \/ NextEpoch
           \/ \E s \in Callers : \/ \E tier \in Tiers \cup {"auto"} : Save(s, tier)
                                 \/ WriteTier(s) \/ SaveRaises(s)
                                 \/ Restore(s)
           \/ Found \/ NotFound

ApiSpec == ApiInit /\ [][ApiNext]_apiVars

-----------------------------------------------------------------------------
ApiTypeOK == /\ epoch \in Epochs
             /\ log \in [Tiers -> Seq(Epochs)]
             /\ saver \in [Callers -> [todo : Seq(Tiers), epoch : Epochs]]
             /\ \/ reader = [pc |-> "idle"]
                \/ reader \in [pc : Tiers \cup {"returned", "raised"}, by : Callers,
                               epoch : Epochs \cup {NoEpoch}, saw : BOOLEAN, durable : Epochs]
             /\ saves \in 0..MaxSaves /\ raced \in BOOLEAN
             /\ delivered \in Epochs

(* While calls come one after another, however the saves were split over   *)
(* tiers, cut short or mixed with epoch changes, no restore() returns an   *)
(* older epoch than one before it did: falling through to another tier     *)
(* never rolls the caller back (restore).                                  *)
NeverRollsBack ==
  [][reader'.pc = "returned" /\ reader.pc # "returned" /\ ~raced
       => reader'.epoch >= delivered]_apiVars

(* Nor does it return anything older than what had reached Tier-3 when it  *)
(* was called.                                                             *)
DurableIsEnough == reader.pc = "returned" /\ ~raced => reader.epoch >= reader.durable

(* restore() raises only if no tier held anything when it was called, and  *)
(* the epoch it returns was saved by somebody, whatever ran meanwhile.     *)
RaisesOnlyIfEmpty == /\ reader.pc = "raised" => ~reader.saw
                     /\ reader.pc = "returned" =>
                          \E t \in Tiers : \E i \in 1..Len(log[t]) : log[t][i] = reader.epoch

(* What restore() owes its caller in any interleaving with save(): the two *)
(* properties above, and types.                                            *)
ApiInv == ApiTypeOK /\ DurableIsEnough /\ RaisesOnlyIfEmpty
=============================================================================
