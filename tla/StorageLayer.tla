---------------------------- MODULE StorageLayer ----------------------------
(***************************************************************************)
(* Tiered checkpoint storage: aegis/layers/storage.py.                     *)
(*                                                                         *)
(* Two threads share a history with no lock: the training thread writes,   *)
(* the AEGIS loop thread restores, and the interpreter may switch between  *)
(* them anywhere.  The writer's steps are split where a reader can see the *)
(* difference: the file is stored, then its metadata is appended.          *)
(*                                                                         *)
(* The payload of the nth write is n.  An XOR diff is the pair it was made *)
(* from; applied to any other base it yields bytes that are no payload.    *)
(***************************************************************************)
EXTENDS Naturals, Sequences, FiniteSets

CONSTANTS NodeShards,    \* the Tier-1 and Tier-2 histories, one per tier and node
          Remote,        \* the Tier-3 history
          BaseInterval,  \* base_interval
          MaxWrites, MaxEpoch, MaxDamage, MaxRestarts   \* bounds

Shards == NodeShards \cup {Remote}

ASSUME StorageAssumption ==
  /\ Remote \notin NodeShards
  /\ BaseInterval \in Nat \ {0}
  /\ MaxWrites \in Nat /\ MaxEpoch \in Nat /\ MaxDamage \in Nat /\ MaxRestarts \in Nat

Payloads == 1..MaxWrites
Corrupt  == 0                     \* bytes that are no checkpoint's payload
Bytes    == Payloads \cup {Corrupt}
Epochs   == 0..MaxEpoch
NoGate   == MaxEpoch + 1          \* min_valid_epoch is None
NoBase   == 0

VARIABLES
  epoch,       \* the epoch the writer tags with: FaultEpochService.current()
  hist,        \* _tier1, _tier2, _tier3: metadata, oldest first
  count,       \* _write_count1, _write_count2
  baseIndex,   \* _base_index1, _base_index2
  files,       \* what each backend holds: path -> content
  writer,      \* the write under way in the training thread
  reader,      \* the restore under way in the loop thread, or its outcome
  writes,      \* history: writes begun
  damaged,     \* history: files lost or altered since they were written
  restarts     \* history: process restarts

meta   == <<hist, count, baseIndex>>
ghosts == <<writes, damaged, restarts>>
vars   == <<epoch, meta, files, writer, reader, ghosts>>

Idle      == [pc |-> "idle"]
NoHistory == [sh \in Shards |-> << >>]
NoCounts  == [sh \in NodeShards |-> 0]

Init == /\ epoch = 0
        /\ hist = NoHistory
        /\ count = NoCounts
        /\ baseIndex = NoCounts
        /\ files = NoHistory
        /\ writer = Idle
        /\ reader = Idle
        /\ writes = 0
        /\ damaged = {}
        /\ restarts = 0

-----------------------------------------------------------------------------
(* What the rest of the process, and the disks, do meanwhile. *)

NextEpoch == /\ epoch < MaxEpoch
             /\ epoch' = epoch + 1
             /\ UNCHANGED <<meta, files, writer, reader, ghosts>>

(* A stored file is altered, or lost with its host. *)
Damage(sh, path) ==
  /\ Cardinality(damaged) < MaxDamage
  /\ <<sh, path>> \notin damaged
  /\ \/ files' = [files EXCEPT ![sh][path].bytes = Corrupt]
     \/ files' = [files EXCEPT ![sh] = [p \in DOMAIN @ \ {path} |-> @[p]]]
  /\ damaged' = damaged \cup {<<sh, path>>}
  /\ UNCHANGED <<epoch, meta, writer, reader, writes, restarts>>

(* The process dies and is started again over the same root_dir: metadata, *)
(* counters and the epoch live in memory only; the files stay.             *)
Restart == /\ restarts < MaxRestarts
           /\ restarts' = restarts + 1
           /\ epoch' = 0
           /\ hist' = NoHistory
           /\ count' = NoCounts
           /\ baseIndex' = NoCounts
           /\ writer' = Idle
           /\ reader' = Idle
           /\ UNCHANGED <<files, writes, damaged>>

-----------------------------------------------------------------------------
(* write_tier1/2/3 and _write_node_tier. *)

BeginWrite(sh) ==
  /\ writer = Idle
  /\ writes < MaxWrites
  /\ writes' = writes + 1
  /\ writer' = [pc |-> "store", shard |-> sh, epoch |-> epoch, payload |-> writes + 1]
  /\ UNCHANGED <<epoch, meta, files, reader, damaged, restarts>>

Target == writer.shard
(* Mutant: the file name has no index.                                     *)
PathByEpoch == <<writer.epoch, 0>>

Path   == <<writer.epoch, IF Target = Remote THEN Len(hist[Remote]) ELSE count[Target]>>
(* Mutant: only the first write of a history is full.                      *)
IsBaseOnce == Target \in NodeShards => baseIndex[Target] = NoBase

IsBase == Target \in NodeShards =>
            count[Target] % BaseInterval = 0 \/ baseIndex[Target] = NoBase

BasePath == hist[Target][baseIndex[Target]].path
Content  == [bytes   |-> writer.payload,
             against |-> IF IsBase THEN Corrupt ELSE files[Target][BasePath].bytes]

NewEntry == [epoch |-> writer.epoch, path |-> Path, checksum |-> writer.payload,
             diff |-> ~IsBase, base |-> IF IsBase THEN NoBase ELSE baseIndex[Target]]

(* The base is read, the diff made, the file written under its own path.   *)
StoreFile ==
  /\ writer.pc = "store"
  /\ ~IsBase => BasePath \in DOMAIN files[Target]
  /\ files' = [files EXCEPT ![Target] =
                 [p \in DOMAIN @ \cup {Path} |-> IF p = Path THEN Content ELSE @[p]]]
  /\ damaged' = damaged \ {<<Target, Path>>}
  /\ writer' = [writer EXCEPT !.pc = "append"]
  /\ UNCHANGED <<epoch, meta, reader, writes, restarts>>

(* The metadata joins the history; only the writer reads the counters.     *)
AppendEntry ==
  /\ writer.pc = "append"
  /\ hist' = [hist EXCEPT ![Target] = Append(@, NewEntry)]
  /\ IF Target = Remote THEN UNCHANGED <<count, baseIndex>>
     ELSE /\ count' = [count EXCEPT ![Target] = @ + 1]
          /\ baseIndex' = [baseIndex EXCEPT ![Target] =
                             IF IsBase THEN Len(hist[Target]) + 1 ELSE @]
  /\ writer' = Idle
  /\ UNCHANGED <<epoch, files, reader, ghosts>>

(* The disk refuses the file, or the base to diff against is gone: the     *)
(* exception leaves the write before any metadata.                         *)
WriteRaises ==
  /\ writer.pc = "store"
  /\ writer' = Idle
  /\ UNCHANGED <<epoch, meta, files, reader, ghosts>>

-----------------------------------------------------------------------------
(* recover(): can_handle, _select, then _reconstruct and the checksum. *)

Candidates(h, gate) == {i \in 1..Len(h) : h[i].epoch <= gate}

(* Mutants: the newest entry whatever the gate; the oldest one.            *)
SelectedNewest(h, gate) == Len(h)
SelectedOldest(h, gate) == CHOOSE i \in Candidates(h, gate) : \A j \in Candidates(h, gate) : i <= j

(* max() by epoch keeps the first of equal epochs.                         *)
Selected(h, gate) ==
  CHOOSE i \in Candidates(h, gate) : \A j \in Candidates(h, gate) :
    h[j].epoch < h[i].epoch \/ (h[j].epoch = h[i].epoch /\ i <= j)

Restore(pc, sh, gate, i, e) ==
  reader' = [pc |-> pc, shard |-> sh, gate |-> gate, index |-> i, epoch |-> e]

Restoring == reader.pc \in {"index", "read"}

(* With no gate the newest entry and its index are two reads of the list;  *)
(* Tier 3 needs no index, it reads the file the entry names.               *)
RestoreUngated(sh) ==
  /\ ~Restoring
  /\ hist[sh] # << >>
  /\ LET last == Len(hist[sh])
     IN  Restore(IF sh = Remote THEN "read" ELSE "index", sh, NoGate, last, hist[sh][last].epoch)
  /\ UNCHANGED <<epoch, meta, files, writer, ghosts>>

ReadIndex ==
  /\ reader.pc = "index"
  /\ Restore("read", reader.shard, NoGate, Len(hist[reader.shard]), reader.epoch)
  /\ UNCHANGED <<epoch, meta, files, writer, ghosts>>

RestoreGated(sh, gate) ==
  /\ ~Restoring
  /\ Candidates(hist[sh], gate) # {}
  /\ LET i == Selected(hist[sh], gate) IN Restore("read", sh, gate, i, hist[sh][i].epoch)
  /\ UNCHANGED <<epoch, meta, files, writer, ghosts>>

(* Nothing at or before the gate: the layer fails and the engine escalates. *)
RestoreNothing(sh, gate) ==
  /\ ~Restoring
  /\ hist[sh] # << >>
  /\ Candidates(hist[sh], gate) = {}
  /\ Restore("failed", sh, gate, 0, 0)
  /\ UNCHANGED <<epoch, meta, files, writer, ghosts>>

(* _reconstruct: a diff applied to the base its entry names.               *)
PathOf(sh, i)     == hist[sh][i].path
BasePathOf(sh, i) == hist[sh][hist[sh][i].base].path
Present(sh, i)    == /\ PathOf(sh, i) \in DOMAIN files[sh]
                     /\ hist[sh][i].diff => BasePathOf(sh, i) \in DOMAIN files[sh]
Reconstruct(sh, i) ==
  LET stored == files[sh][PathOf(sh, i)]
  IN  IF hist[sh][i].diff => stored.against = files[sh][BasePathOf(sh, i)].bytes
      THEN stored.bytes ELSE Corrupt

Verified(sh, i) == Present(sh, i) /\ Reconstruct(sh, i) = hist[sh][i].checksum

(* zlib cannot inflate a damaged diff.                                     *)
Readable(sh, i) == /\ Present(sh, i)
                   /\ hist[sh][i].diff => files[sh][PathOf(sh, i)].bytes # Corrupt

Finish(outcome) == /\ reader' = [reader EXCEPT !.pc = outcome]
                   /\ UNCHANGED <<epoch, meta, files, writer, ghosts>>

RestoreSucceeds == /\ reader.pc = "read"
                   /\ Verified(reader.shard, reader.index)
                   /\ Finish("restored")

ChecksumMismatch == /\ reader.pc = "read"
                    /\ Present(reader.shard, reader.index)
                    /\ ~Verified(reader.shard, reader.index)
                    /\ Finish("failed")

(* recover() raises instead of returning success=False.                    *)
RestoreRaises == /\ reader.pc = "read"
                 /\ ~Readable(reader.shard, reader.index)
                 /\ Finish("raised")

Next == \/ NextEpoch \/ Restart
        \/ \E sh \in Shards : \/ \E path \in DOMAIN files[sh] : Damage(sh, path)
                              \/ BeginWrite(sh)
                              \/ RestoreUngated(sh)
                              \/ \E gate \in 1..MaxEpoch :
                                   RestoreGated(sh, gate) \/ RestoreNothing(sh, gate)
        \/ StoreFile \/ AppendEntry \/ WriteRaises
        \/ ReadIndex \/ RestoreSucceeds \/ ChecksumMismatch \/ RestoreRaises

Spec == Init /\ [][Next]_vars

-----------------------------------------------------------------------------
Paths   == Epochs \X (0..MaxWrites)
Entries == [epoch : Epochs, path : Paths, checksum : Payloads, diff : BOOLEAN,
            base : 0..MaxWrites]
Restores == [pc : {"index", "read", "restored", "failed", "raised"}, shard : Shards,
             gate : 1..NoGate, index : 0..MaxWrites, epoch : Epochs]

TypeOK == /\ epoch \in Epochs
          /\ hist \in [Shards -> Seq(Entries)]
          /\ count \in [NodeShards -> 0..MaxWrites]
          /\ baseIndex \in [NodeShards -> 0..MaxWrites]
          /\ DOMAIN files = Shards
          /\ \A sh \in Shards : /\ DOMAIN files[sh] \subseteq Paths
                                /\ \A p \in DOMAIN files[sh] :
                                     files[sh][p] \in [bytes : Bytes, against : Bytes]
          /\ writer \in {Idle} \cup [pc : {"store", "append"}, shard : Shards, epoch : Epochs,
                                     payload : Payloads]
          /\ reader \in {Idle} \cup Restores
          /\ writes \in 0..MaxWrites
          /\ damaged \subseteq Shards \X Paths
          /\ restarts \in 0..MaxRestarts

Indexes(sh) == 1..Len(hist[sh])

(* A chain is never deeper than one diff: every differential entry names   *)
(* the last full one before it, at most base_interval - 1 writes back, and *)
(* no two entries share a file (_write_node_tier).                         *)
DiffsNameBases ==
  \A sh \in Shards : \A i \in Indexes(sh) :
    LET e == hist[sh][i] IN
      /\ e.diff => /\ e.base \in 1..(i - 1)
                   /\ \A j \in e.base..(i - 1) : hist[sh][j].diff <=> (j # e.base)
                   /\ i - e.base < BaseInterval
      /\ \A j \in Indexes(sh) : j # i => hist[sh][j].path # e.path

(* Types hold, and so does DiffsNameBases, whatever the two threads do.    *)
StorageInv == TypeOK /\ DiffsNameBases

(* Whatever the other thread is in the middle of, every checkpoint a       *)
(* reader can see, and whose files are as they were written, reads back as *)
(* the bytes it was given (store the file, then append; base_index).       *)
Intact(sh, i) == /\ <<sh, PathOf(sh, i)>> \notin damaged
                 /\ hist[sh][i].diff => <<sh, BasePathOf(sh, i)>> \notin damaged
VisibleReadsBack == \A sh \in Shards : \A i \in Indexes(sh) : Intact(sh, i) => Verified(sh, i)

(* A gated restore chooses an entry no newer than the gate, and of no      *)
(* older epoch than any it could have had (_select).                       *)
GateRespected ==
  [][reader' # reader /\ reader'.pc = "read" /\ reader'.gate # NoGate =>
       LET h == hist[reader'.shard] IN
         /\ h[reader'.index].epoch = reader'.epoch
         /\ reader'.epoch <= reader'.gate
         /\ \A i \in Candidates(h, reader'.gate) : h[i].epoch <= reader'.epoch]_vars

(* The layer is a log per shard; with the restart, the damage and the two  *)
(* threads hidden, every step is one CheckpointStore allows.               *)
LogOf(h) == [i \in 1..Len(h) |-> [epoch |-> h[i].epoch, payload |-> h[i].checksum]]
Restored ==
  IF reader.pc = "restored"
  THEN [shard |-> reader.shard, gate |-> reader.gate,
        payload |-> hist[reader.shard][reader.index].checksum]
  ELSE [shard |-> "none", gate |-> 0, payload |-> 0]
Store == INSTANCE CheckpointStore WITH log <- [sh \in Shards |-> LogOf(hist[sh])],
                                       restored <- Restored
IsCheckpointStore == Store!Spec
=============================================================================
