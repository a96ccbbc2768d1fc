-------------------------- MODULE StorageLayerProofs --------------------------
(***************************************************************************)
(* Theorems about StorageLayer, for any number of nodes, writes, epochs,   *)
(* damaged files and restarts, and any base interval.                      *)
(***************************************************************************)
EXTENDS StorageLayer, Integers, SequenceTheorems, WellFoundedInduction, TLAPS

-----------------------------------------------------------------------------
(* What makes the properties inductive. *)

(* Each backend is a map from paths to contents. *)
FilesAreMaps == /\ files = [sh \in Shards |-> files[sh]]
                /\ \A sh \in Shards : files[sh] = [p \in DOMAIN files[sh] |-> files[sh][p]]

(* The counters count the entries, and no payload is given twice. *)
Counted == /\ \A sh \in NodeShards : count[sh] = Len(hist[sh])
           /\ \A sh \in Shards : /\ Len(hist[sh]) <= writes
                                 /\ writer # Idle => Len(hist[sh]) < writes
           /\ writer # Idle => writer.payload = writes

(* base_index is the newest full entry, at a multiple of the interval. *)
LastBase ==
  \A sh \in NodeShards :
    /\ count[sh] = 0 => baseIndex[sh] = NoBase
    /\ count[sh] # 0 =>
         /\ baseIndex[sh] \in 1..count[sh]
         /\ (baseIndex[sh] - 1) % BaseInterval = 0
         /\ count[sh] - baseIndex[sh] < BaseInterval
         /\ \A j \in baseIndex[sh]..count[sh] : hist[sh][j].diff <=> (j # baseIndex[sh])

(* A file's name ends with the place of its entry. *)
Numbered == \A sh \in Shards : \A i \in Indexes(sh) : hist[sh][i].path[2] = i - 1

(* The writer's tags are the newest there are. *)
Ordered ==
  /\ writer # Idle => writer.epoch <= epoch
  /\ \A sh \in Shards : \A i \in Indexes(sh) :
       /\ hist[sh][i].epoch <= epoch /\ hist[sh][i].checksum <= writes
       /\ writer # Idle => /\ hist[sh][i].epoch <= writer.epoch
                           /\ hist[sh][i].checksum < writer.payload

(* The first half of DiffsNameBases. *)
Chains ==
  \A sh \in Shards : \A i \in Indexes(sh) :
    hist[sh][i].diff =>
      /\ hist[sh][i].base \in 1..(i - 1)
      /\ \A j \in hist[sh][i].base..(i - 1) : hist[sh][j].diff <=> (j # hist[sh][i].base)
      /\ i - hist[sh][i].base < BaseInterval

Stored(sh, path, bytes) == path \in DOMAIN files[sh] /\ files[sh][path].bytes = bytes

(* An undamaged file is the one its entry was written with; a diff's, made *)
(* against an undamaged base, was made against that base's payload.        *)
EntriesStored ==
  \A sh \in Shards : \A i \in Indexes(sh) :
    <<sh, PathOf(sh, i)>> \notin damaged =>
      /\ Stored(sh, PathOf(sh, i), hist[sh][i].checksum)
      /\ hist[sh][i].diff /\ <<sh, BasePathOf(sh, i)>> \notin damaged =>
           files[sh][PathOf(sh, i)].against = hist[sh][hist[sh][i].base].checksum

(* The same of a file whose entry is about to be appended. *)
WriteStored ==
  writer.pc = "append" /\ <<Target, Path>> \notin damaged =>
    /\ Stored(Target, Path, writer.payload)
    /\ ~IsBase /\ <<Target, BasePath>> \notin damaged =>
         files[Target][Path].against = hist[Target][baseIndex[Target]].checksum

(* The restore under way names an entry its gate allows. *)
ReaderInRange ==
  reader.pc \in {"index", "read", "restored"} =>
    /\ reader.index \in Indexes(reader.shard)
    /\ reader.gate # NoGate => hist[reader.shard][reader.index].epoch <= reader.gate

WriterInd == /\ Counted /\ LastBase /\ Numbered /\ Ordered /\ Chains
             /\ EntriesStored /\ WriteStored
StorageInd == TypeOK /\ FilesAreMaps /\ WriterInd /\ ReaderInRange

-----------------------------------------------------------------------------
(* Lemmas about data. *)

LEMMA LeastExists ==
  ASSUME NEW S \in SUBSET Nat, S # {}
  PROVE  \E m \in S : \A n \in S : m <= n
<1>1. PICK m \in S : \A n \in S : ~(<<n, m>> \in OpToRel(<, Nat))
  BY WFMin, NatLessThanWellFounded
<1>2. \A n \in S : ~(n < m)
  BY <1>1 DEF OpToRel
<1> QED BY <1>2

LEMMA ZeroIsMultiple == ASSUME NEW n \in Nat \ {0} PROVE 0 % n = 0
  BY SMT

LEMMA IsMultiple ==
  ASSUME NEW n \in Nat \ {0}, NEW b \in Nat, NEW q \in Int, b = n * q + 0
  PROVE  b % n = 0
  BY SMT

(* The multiple after a multiple of n is n further on. *)
LEMMA NextMultiple ==
  ASSUME NEW n \in Nat \ {0}, NEW a \in Nat, a % n = 0
  PROVE  (a + n) % n = 0
<1>1. a = n * (a \div n) + (a % n) /\ a \div n \in Int
  BY SMT
<1>2. n * (a \div n) + n = n * ((a \div n) + 1)
  BY <1>1
<1>3. a + n = n * ((a \div n) + 1) + 0
  BY <1>1, <1>2
<1> DEFINE q == (a \div n) + 1
           b == a + n
<1>4. q \in Int /\ b \in Nat /\ b = n * q + 0
  BY <1>1, <1>3
<1> HIDE DEF q, b
<1>5. b % n = 0
  BY <1>4, IsMultiple
<1> QED BY <1>5 DEF b

LEMMA AppendFacts ==
  ASSUME NEW S, NEW q \in Seq(S), NEW x \in S
  PROVE  /\ Len(q) \in Nat
         /\ \A i \in 1..Len(q) : q[i] \in S
         /\ Append(q, x) \in Seq(S)
         /\ Len(Append(q, x)) = Len(q) + 1
         /\ \A i \in 1..Len(q) : Append(q, x)[i] = q[i]
         /\ Append(q, x)[Len(q) + 1] = x
  OBVIOUS

(* The lengths and entries of the histories, and the constants, are typed. *)
LEMMA Shapes ==
  ASSUME TypeOK
  PROVE  /\ BaseInterval \in Nat \ {0} /\ MaxWrites \in Nat /\ MaxEpoch \in Nat
         /\ Remote \notin NodeShards /\ epoch \in Nat /\ writes \in Nat
         /\ \A sh \in Shards : /\ hist[sh] \in Seq(Entries) /\ Len(hist[sh]) \in Nat
                               /\ \A i \in Indexes(sh) : hist[sh][i] \in Entries
  BY StorageAssumption DEF TypeOK, Indexes, Epochs

(* A write under way is for a shard, and there is room for its entry. *)
LEMMA WriterFacts ==
  ASSUME TypeOK, Counted, writer # Idle
  PROVE  /\ Target \in Shards /\ writer.pc \in {"store", "append"}
         /\ writer.epoch \in Epochs /\ writer.payload \in Payloads
         /\ Len(hist[Target]) < MaxWrites
         /\ Path = <<writer.epoch, Len(hist[Target])>> /\ Path \in Paths
<1>1. /\ Target \in Shards /\ writer.pc \in {"store", "append"}
      /\ writer.epoch \in Epochs /\ writer.payload \in Payloads
  BY DEF TypeOK, Target
<1>2. Len(hist[Target]) \in Nat /\ writes \in 0..MaxWrites /\ Len(hist[Target]) < writes
  BY <1>1, Shapes DEF Counted, TypeOK
<1>3. Len(hist[Target]) < MaxWrites
  BY <1>2, Shapes
<1>4. Path = <<writer.epoch, Len(hist[Target])>>
  BY <1>1 DEF Path, Counted, Shards
<1> QED BY <1>1, <1>2, <1>3, <1>4, Shapes DEF Paths

(* A diff is made against a full entry less than an interval back. *)
LEMMA BaseFacts ==
  ASSUME TypeOK, Counted, LastBase, writer # Idle, ~IsBase
  PROVE  /\ Target \in NodeShards /\ baseIndex[Target] \in Indexes(Target)
         /\ count[Target] = Len(hist[Target])
         /\ Len(hist[Target]) + 1 - baseIndex[Target] < BaseInterval
         /\ \A j \in baseIndex[Target]..Len(hist[Target]) :
              hist[Target][j].diff <=> (j # baseIndex[Target])
<1> DEFINE c == count[Target]
           b == baseIndex[Target]
<1>1. Target \in NodeShards /\ c % BaseInterval # 0 /\ b # NoBase
  BY DEF IsBase
<1>2. c \in Nat /\ c = Len(hist[Target]) /\ BaseInterval \in Nat \ {0}
  BY <1>1, Shapes DEF Counted, Shards
<1>3. /\ b \in 1..c /\ (b - 1) % BaseInterval = 0 /\ c - b < BaseInterval
      /\ \A j \in b..c : hist[Target][j].diff <=> (j # b)
  BY <1>1, <1>2 DEF LastBase
<1> HIDE DEF c, b
<1>4. b - 1 \in Nat
  BY <1>2, <1>3
<1>5. ((b - 1) + BaseInterval) % BaseInterval = 0
  BY <1>2, <1>3, <1>4, NextMultiple
<1>6. (b - 1) + BaseInterval # c
  BY <1>1, <1>5
<1>7. c + 1 - b < BaseInterval
  BY <1>2, <1>3, <1>6
<1> USE DEF c, b
<1> QED BY <1>1, <1>2, <1>3, <1>7 DEF Indexes

-----------------------------------------------------------------------------
(* The invariant is established. *)

LEMMA StorageInit == Init => StorageInd
<1> SUFFICES ASSUME Init PROVE StorageInd
  OBVIOUS
<1>1. \A sh \in Shards : hist[sh] = << >> /\ files[sh] = << >>
  BY DEF Init, NoHistory
<1>2. \A sh \in Shards : /\ Len(hist[sh]) = 0 /\ Indexes(sh) = {}
                         /\ files[sh] = [p \in DOMAIN files[sh] |-> files[sh][p]]
                         /\ DOMAIN files[sh] = {}
  BY <1>1 DEF Indexes
<1>3. TypeOK
  <2>1. hist \in [Shards -> Seq(Entries)] /\ DOMAIN files = Shards
    BY DEF Init, NoHistory
  <2>2. \A sh \in Shards : /\ DOMAIN files[sh] \subseteq Paths
                           /\ \A p \in DOMAIN files[sh] :
                                files[sh][p] \in [bytes : Bytes, against : Bytes]
    BY <1>2
  <2>3. /\ count \in [NodeShards -> 0..MaxWrites] /\ baseIndex \in [NodeShards -> 0..MaxWrites]
        /\ epoch \in Epochs /\ writes \in 0..MaxWrites /\ restarts \in 0..MaxRestarts
        /\ damaged = {} /\ writer = Idle /\ reader = Idle
    BY StorageAssumption DEF Init, NoCounts, Epochs
  <2> QED BY <2>1, <2>2, <2>3 DEF TypeOK
<1>4. FilesAreMaps
  BY <1>2 DEF FilesAreMaps, Init, NoHistory
<1>5. Counted /\ LastBase
  BY <1>2 DEF Counted, LastBase, Init, NoCounts, NoHistory, NoBase, Shards, Idle
<1>6. Numbered /\ Ordered /\ Chains /\ EntriesStored
  BY <1>2 DEF Numbered, Ordered, Chains, EntriesStored, Init, Idle
<1>7. WriteStored /\ ReaderInRange
  BY DEF WriteStored, ReaderInRange, Init, Idle
<1> QED BY <1>3, <1>4, <1>5, <1>6, <1>7 DEF StorageInd, WriterInd

(* The steps of the loop thread change the restore and nothing else. *)
LEMMA WriterUntouched ==
  ASSUME FilesAreMaps, WriterInd, UNCHANGED <<epoch, meta, files, writer, ghosts>>
  PROVE  FilesAreMaps' /\ WriterInd'
<1>1. /\ hist' = hist /\ count' = count /\ baseIndex' = baseIndex /\ files' = files
      /\ writer' = writer /\ writes' = writes /\ damaged' = damaged /\ epoch' = epoch
  BY DEF meta, ghosts
<1>2. FilesAreMaps' /\ Counted' /\ LastBase'
  BY <1>1 DEF WriterInd, FilesAreMaps, Counted, LastBase
<1>3. Numbered' /\ Ordered' /\ Chains'
  BY <1>1 DEF WriterInd, Numbered, Ordered, Chains, Indexes
<1>4. EntriesStored' /\ WriteStored'
  BY <1>1 DEF WriterInd, EntriesStored, WriteStored, Indexes, PathOf, BasePathOf, Stored,
              Target, Path, IsBase, BasePath
<1> QED BY <1>2, <1>3, <1>4 DEF WriterInd

LEMMA ReaderSuffices ==
  ASSUME StorageInd, UNCHANGED <<epoch, meta, files, writer, ghosts>>,
         reader' \in {Idle} \cup Restores, ReaderInRange'
  PROVE  StorageInd'
<1>1. TypeOK'
  BY DEF StorageInd, TypeOK, meta, ghosts
<1> QED BY <1>1, WriterUntouched DEF StorageInd

(* _select under a gate takes a candidate of the newest epoch there is. *)
LEMMA SelectedIsNewest ==
  ASSUME NEW h \in Seq(Entries), NEW gate, Candidates(h, gate) # {}
  PROVE  /\ Selected(h, gate) \in Candidates(h, gate)
         /\ \A j \in Candidates(h, gate) : h[j].epoch <= h[Selected(h, gate)].epoch
<1> DEFINE C == Candidates(h, gate)
           Age(i) == MaxEpoch - h[i].epoch
           D == {Age(i) : i \in C}
<1>1. Len(h) \in Nat /\ C \subseteq 1..Len(h) /\ MaxEpoch \in Nat
  BY StorageAssumption DEF Candidates
<1>2. \A i \in C : h[i].epoch \in 0..MaxEpoch
  <2>1. \A i \in 1..Len(h) : h[i] \in Entries
    OBVIOUS
  <2> QED BY <1>1, <2>1 DEF Entries, Epochs
<1>3. D \in SUBSET Nat /\ D # {}
  BY <1>1, <1>2
<1> HIDE DEF C
<1>4. PICK m \in D : \A n \in D : m <= n
  BY <1>3, LeastExists
<1> DEFINE F == {i \in C : Age(i) = m}
<1>5. F \in SUBSET Nat /\ F # {}
  BY <1>1, <1>4
<1>6. PICK i \in F : \A j \in F : i <= j
  BY <1>5, LeastExists
<1>7. \A j \in C : h[j].epoch < h[i].epoch \/ (h[j].epoch = h[i].epoch /\ i <= j)
  <2> SUFFICES ASSUME NEW j \in C
               PROVE  h[j].epoch < h[i].epoch \/ (h[j].epoch = h[i].epoch /\ i <= j)
    OBVIOUS
  <2>1. h[i].epoch \in 0..MaxEpoch /\ h[j].epoch \in 0..MaxEpoch
    BY <1>2, <1>6
  <2>2. Age(i) = m /\ m <= Age(j)
    BY <1>4, <1>6
  <2>3. CASE Age(j) = m
    BY <1>6, <2>1, <2>2, <2>3, <1>1
  <2>4. CASE Age(j) # m
    BY <2>1, <2>2, <2>4, <1>1
  <2> QED BY <2>3, <2>4
<1>8. i \in C
  BY <1>6
<1> DEFINE s == Selected(h, gate)
<1>9. s = CHOOSE x \in C : \A j \in C : h[j].epoch < h[x].epoch \/ (h[j].epoch = h[x].epoch /\ x <= j)
  BY DEF Selected, C
<1> HIDE DEF s
<1>10. s \in C /\ \A j \in C : h[j].epoch < h[s].epoch \/ (h[j].epoch = h[s].epoch /\ s <= j)
  BY <1>7, <1>8, <1>9
<1>11. ASSUME NEW j \in C PROVE h[j].epoch <= h[s].epoch
  <2>1. h[j].epoch \in 0..MaxEpoch /\ h[s].epoch \in 0..MaxEpoch
    BY <1>2, <1>10
  <2> QED BY <1>1, <1>10, <2>1
<1> QED BY <1>10, <1>11 DEF C, s

LEMMA RestoreUngatedKeeps ==
  ASSUME StorageInd, NEW sh \in Shards, RestoreUngated(sh) PROVE StorageInd'
<1> DEFINE last == Len(hist[sh])
<1>1. last \in 1..MaxWrites /\ hist[sh][last] \in Entries
  <2>1. last \in Nat /\ last <= writes /\ writes \in 0..MaxWrites /\ hist[sh] \in Seq(Entries)
    BY Shapes DEF StorageInd, WriterInd, Counted, TypeOK
  <2>2. last # 0
    BY <2>1 DEF RestoreUngated
  <2> QED BY <2>1, <2>2, Shapes DEF StorageInd
<1>2. /\ reader' = [pc |-> IF sh = Remote THEN "read" ELSE "index", shard |-> sh, gate |-> NoGate,
                    index |-> last, epoch |-> hist[sh][last].epoch]
      /\ UNCHANGED <<epoch, meta, files, writer, ghosts>>
  BY DEF RestoreUngated, Restore
<1>3. reader' \in Restores
  BY <1>1, <1>2, StorageAssumption DEF Restores, NoGate, Entries
<1>4. ReaderInRange'
  BY <1>1, <1>2 DEF ReaderInRange, Indexes, meta
<1> QED BY <1>2, <1>3, <1>4, ReaderSuffices

LEMMA ReadIndexKeeps == ASSUME StorageInd, ReadIndex PROVE StorageInd'
<1> DEFINE sh == reader.shard
           last == Len(hist[sh])
<1>1. reader \in Restores /\ sh \in Shards /\ reader.index \in 1..last
  BY DEF ReadIndex, StorageInd, TypeOK, ReaderInRange, Indexes, Idle, Restores
<1>2. last \in 1..MaxWrites
  BY <1>1, Shapes DEF StorageInd, WriterInd, Counted, TypeOK
<1>3. /\ reader' = [pc |-> "read", shard |-> sh, gate |-> NoGate, index |-> last,
                    epoch |-> reader.epoch]
      /\ UNCHANGED <<epoch, meta, files, writer, ghosts>>
  BY DEF ReadIndex, Restore
<1>4. reader' \in Restores
  BY <1>1, <1>2, <1>3, StorageAssumption DEF Restores, NoGate
<1>5. ReaderInRange'
  BY <1>1, <1>2, <1>3 DEF ReaderInRange, Indexes, meta
<1> QED BY <1>3, <1>4, <1>5, ReaderSuffices

LEMMA RestoreGatedKeeps ==
  ASSUME StorageInd, NEW sh \in Shards, NEW gate \in 1..MaxEpoch, RestoreGated(sh, gate)
  PROVE  StorageInd'
<1> DEFINE i == Selected(hist[sh], gate)
<1>1. hist[sh] \in Seq(Entries) /\ Len(hist[sh]) \in 0..MaxWrites
  BY Shapes DEF StorageInd, WriterInd, Counted, TypeOK
<1>2. i \in Candidates(hist[sh], gate)
  BY <1>1, SelectedIsNewest DEF RestoreGated
<1>3. i \in 1..Len(hist[sh]) /\ hist[sh][i] \in Entries /\ hist[sh][i].epoch <= gate
  BY <1>1, <1>2 DEF Candidates
<1>4. /\ reader' = [pc |-> "read", shard |-> sh, gate |-> gate, index |-> i,
                    epoch |-> hist[sh][i].epoch]
      /\ UNCHANGED <<epoch, meta, files, writer, ghosts>>
  BY DEF RestoreGated, Restore
<1> HIDE DEF i
<1>5. reader' \in Restores
  BY <1>1, <1>3, <1>4, StorageAssumption DEF Restores, NoGate, Entries
<1>6. ReaderInRange'
  BY <1>3, <1>4 DEF ReaderInRange, Indexes, meta
<1> QED BY <1>4, <1>5, <1>6, ReaderSuffices

LEMMA RestoreNothingKeeps ==
  ASSUME StorageInd, NEW sh \in Shards, NEW gate \in 1..MaxEpoch, RestoreNothing(sh, gate)
  PROVE  StorageInd'
<1>1. /\ reader' = [pc |-> "failed", shard |-> sh, gate |-> gate, index |-> 0, epoch |-> 0]
      /\ UNCHANGED <<epoch, meta, files, writer, ghosts>>
  BY DEF RestoreNothing, Restore
<1>2. reader' \in Restores
  BY <1>1, StorageAssumption DEF Restores, NoGate, Epochs
<1>3. ReaderInRange'
  BY <1>1 DEF ReaderInRange
<1> QED BY <1>1, <1>2, <1>3, ReaderSuffices

LEMMA FinishKeeps ==
  ASSUME StorageInd, reader.pc = "read", NEW outcome \in {"restored", "failed", "raised"},
         Finish(outcome)
  PROVE  StorageInd'
<1>1. reader \in Restores
  BY DEF StorageInd, TypeOK, Idle
<1>2. /\ reader' = [reader EXCEPT !.pc = outcome]
      /\ UNCHANGED <<epoch, meta, files, writer, ghosts>>
  BY DEF Finish
<1>3. reader' \in Restores
  BY <1>1, <1>2 DEF Restores
<1>4. ReaderInRange'
  BY <1>1, <1>2 DEF ReaderInRange, Indexes, meta, StorageInd, Restores
<1> QED BY <1>2, <1>3, <1>4, ReaderSuffices

(* The clock of epochs, and a write that begins or is given up, leave the  *)
(* histories and the files alone.                                          *)
LEMMA HistoriesUntouched ==
  ASSUME StorageInd, UNCHANGED <<meta, files, reader, damaged>>
  PROVE  FilesAreMaps' /\ LastBase' /\ Numbered' /\ Chains' /\ EntriesStored' /\ ReaderInRange'
<1>1. /\ hist' = hist /\ count' = count /\ baseIndex' = baseIndex /\ files' = files
      /\ reader' = reader /\ damaged' = damaged
  BY DEF meta
<1>2. FilesAreMaps' /\ LastBase' /\ Numbered' /\ Chains' /\ ReaderInRange'
  BY <1>1 DEF StorageInd, WriterInd, FilesAreMaps, LastBase, Numbered, Chains, ReaderInRange, Indexes
<1>3. EntriesStored'
  BY <1>1 DEF StorageInd, WriterInd, EntriesStored, Indexes, PathOf, BasePathOf, Stored
<1> QED BY <1>2, <1>3

LEMMA NextEpochKeeps == ASSUME StorageInd, NextEpoch PROVE StorageInd'
<1>1. /\ epoch' = epoch + 1 /\ epoch < MaxEpoch
      /\ UNCHANGED <<meta, files, reader, damaged>> /\ writer' = writer /\ writes' = writes
      /\ hist' = hist /\ count' = count /\ baseIndex' = baseIndex /\ files' = files
      /\ restarts' = restarts /\ damaged' = damaged /\ reader' = reader
  BY DEF NextEpoch, meta, ghosts
<1>2. TypeOK'
  BY <1>1, StorageAssumption DEF StorageInd, TypeOK, Epochs
<1>3. Counted' /\ WriteStored'
  BY <1>1 DEF StorageInd, WriterInd, Counted, WriteStored, Target, Path, IsBase, BasePath, Stored
<1>4. Ordered'
  <2>1. \A sh \in Shards : \A i \in Indexes(sh) : hist[sh][i].epoch \in Nat
    BY Shapes DEF StorageInd, Entries, Epochs
  <2>2. epoch \in Nat /\ (writer # Idle => writer.epoch \in Nat)
    BY WriterFacts, Shapes DEF StorageInd, WriterInd, Epochs
  <2> QED BY <1>1, <2>1, <2>2 DEF StorageInd, WriterInd, Ordered, Indexes
<1> QED BY <1>1, <1>2, <1>3, <1>4, HistoriesUntouched DEF StorageInd, WriterInd

LEMMA BeginWriteKeeps ==
  ASSUME StorageInd, NEW sh \in Shards, BeginWrite(sh) PROVE StorageInd'
<1>1. /\ writer = Idle /\ writes < MaxWrites /\ writes' = writes + 1
      /\ writer' = [pc |-> "store", shard |-> sh, epoch |-> epoch, payload |-> writes + 1]
      /\ UNCHANGED <<meta, files, reader, damaged>> /\ epoch' = epoch /\ restarts' = restarts
      /\ hist' = hist /\ count' = count /\ baseIndex' = baseIndex /\ files' = files
      /\ damaged' = damaged /\ reader' = reader
  BY DEF BeginWrite, meta
<1>2. writes \in Nat /\ MaxWrites \in Nat /\ epoch \in Nat
  BY Shapes DEF StorageInd
<1>3. TypeOK'
  BY <1>1, <1>2 DEF StorageInd, TypeOK, Payloads
<1>4. Counted'
  <2>1. \A x \in Shards : Len(hist[x]) \in Nat
    BY Shapes DEF StorageInd
  <2> QED BY <1>1, <1>2, <2>1 DEF StorageInd, WriterInd, Counted
<1>5. WriteStored'
  BY <1>1 DEF WriteStored
<1>6. Ordered'
  <2>1. \A x \in Shards : \A i \in Indexes(x) : hist[x][i].epoch \in Nat /\ hist[x][i].checksum \in Nat
    <3>1. \A x \in Shards : \A i \in Indexes(x) : hist[x][i] \in Entries
      BY Shapes DEF StorageInd
    <3>2. MaxEpoch \in Nat /\ MaxWrites \in Nat
      BY Shapes DEF StorageInd
    <3>3. \A e \in Entries : e.epoch \in Nat /\ e.checksum \in Nat
      BY <3>2 DEF Entries, Epochs, Payloads
    <3> QED BY <3>1, <3>3
  <2> QED BY <1>1, <1>2, <2>1 DEF StorageInd, WriterInd, Ordered, Indexes
<1> QED BY <1>1, <1>3, <1>4, <1>5, <1>6, HistoriesUntouched DEF StorageInd, WriterInd

LEMMA WriteRaisesKeeps == ASSUME StorageInd, WriteRaises PROVE StorageInd'
<1>1. /\ writer' = Idle /\ writes' = writes
      /\ UNCHANGED <<meta, files, reader, damaged>> /\ epoch' = epoch /\ restarts' = restarts
      /\ hist' = hist /\ count' = count /\ baseIndex' = baseIndex /\ files' = files
      /\ damaged' = damaged /\ reader' = reader
  BY DEF WriteRaises, meta, ghosts
<1>2. TypeOK'
  BY <1>1 DEF StorageInd, TypeOK
<1>3. Counted' /\ WriteStored' /\ Ordered'
  BY <1>1 DEF StorageInd, WriterInd, Counted, WriteStored, Ordered, Indexes, Idle
<1> QED BY <1>1, <1>2, <1>3, HistoriesUntouched DEF StorageInd, WriterInd

LEMMA RestartKeeps == ASSUME StorageInd, Restart PROVE StorageInd'
<1>1. /\ epoch' = 0 /\ hist' = NoHistory /\ count' = NoCounts /\ baseIndex' = NoCounts
      /\ writer' = Idle /\ reader' = Idle /\ restarts' = restarts + 1 /\ restarts < MaxRestarts
      /\ files' = files /\ writes' = writes /\ damaged' = damaged
  BY DEF Restart
<1>2. \A sh \in Shards : /\ hist'[sh] = << >> /\ Len(hist'[sh]) = 0 /\ Indexes(sh)' = {}
                         /\ hist'[sh] \in Seq(Entries)
  BY <1>1 DEF Indexes, NoHistory
<1>3. TypeOK'
  <2>1. hist' \in [Shards -> Seq(Entries)] /\ count' \in [NodeShards -> 0..MaxWrites]
        /\ baseIndex' \in [NodeShards -> 0..MaxWrites]
    BY <1>1, <1>2, StorageAssumption DEF NoHistory, NoCounts
  <2> QED BY <1>1, <2>1, StorageAssumption DEF StorageInd, TypeOK, Epochs
<1>4. FilesAreMaps'
  BY <1>1 DEF StorageInd, FilesAreMaps
<1>5. Counted' /\ LastBase'
  <2>1. writes' >= 0
    BY <1>1, Shapes DEF StorageInd
  <2> QED BY <1>1, <1>2, <2>1 DEF Counted, LastBase, NoCounts, NoBase, Shards
<1>6. Numbered' /\ Ordered' /\ Chains' /\ EntriesStored'
  BY <1>1, <1>2 DEF Numbered, Ordered, Chains, EntriesStored
<1>7. WriteStored' /\ ReaderInRange'
  BY <1>1 DEF WriteStored, ReaderInRange, Idle
<1> QED BY <1>3, <1>4, <1>5, <1>6, <1>7 DEF StorageInd, WriterInd

-----------------------------------------------------------------------------
(* Files change: by damage, and by a write. *)

Same(sh, path) == path \in DOMAIN files[sh] =>
                    path \in DOMAIN files'[sh] /\ files'[sh][path] = files[sh][path]

(* Entries stay stored if no file of theirs changes without being damaged. *)
LEMMA EntriesKeep ==
  ASSUME EntriesStored, Chains, hist' = hist, TypeOK,
         \A sh \in Shards : \A i \in Indexes(sh) :
           <<sh, PathOf(sh, i)>> \notin damaged' =>
             <<sh, PathOf(sh, i)>> \notin damaged /\ Same(sh, PathOf(sh, i))
  PROVE  EntriesStored'
<1> SUFFICES ASSUME NEW sh \in Shards, NEW i \in Indexes(sh), <<sh, PathOf(sh, i)>> \notin damaged'
             PROVE  /\ Stored(sh, PathOf(sh, i), hist[sh][i].checksum)'
                    /\ hist[sh][i].diff /\ <<sh, BasePathOf(sh, i)>> \notin damaged' =>
                         files'[sh][PathOf(sh, i)].against = hist[sh][hist[sh][i].base].checksum
  BY DEF EntriesStored, Indexes, PathOf, BasePathOf
<1>1. <<sh, PathOf(sh, i)>> \notin damaged /\ Same(sh, PathOf(sh, i))
  OBVIOUS
<1>2. Stored(sh, PathOf(sh, i), hist[sh][i].checksum)
  BY <1>1 DEF EntriesStored
<1>3. Stored(sh, PathOf(sh, i), hist[sh][i].checksum)'
  BY <1>1, <1>2 DEF Stored, Same, PathOf
<1>4. ASSUME hist[sh][i].diff, <<sh, BasePathOf(sh, i)>> \notin damaged'
      PROVE  files'[sh][PathOf(sh, i)].against = hist[sh][hist[sh][i].base].checksum
  <2>1. hist[sh][i].base \in Indexes(sh)
    BY <1>4, Shapes DEF Chains, Indexes
  <2>2. <<sh, BasePathOf(sh, i)>> \notin damaged
    BY <1>4, <2>1 DEF BasePathOf, PathOf
  <2>3. files[sh][PathOf(sh, i)].against = hist[sh][hist[sh][i].base].checksum
    BY <1>1, <1>4, <2>2 DEF EntriesStored
  <2> QED BY <1>1, <1>2, <2>3 DEF Stored, Same
<1> QED BY <1>3, <1>4

LEMMA DamageFacts ==
  ASSUME StorageInd, NEW sh \in Shards, NEW path \in DOMAIN files[sh], Damage(sh, path)
  PROVE  /\ DOMAIN files' = Shards /\ FilesAreMaps'
         /\ \A x \in Shards : /\ DOMAIN files'[x] \subseteq Paths
                              /\ \A p \in DOMAIN files'[x] :
                                   files'[x][p] \in [bytes : Bytes, against : Bytes]
         /\ \A x \in Shards : \A p : <<x, p>> # <<sh, path>> => Same(x, p)
<1> DEFINE f == files[sh]
<1>1. /\ files = [x \in Shards |-> files[x]] /\ f = [p \in DOMAIN f |-> f[p]]
      /\ \A x \in Shards : /\ files[x] = [p \in DOMAIN files[x] |-> files[x][p]]
                           /\ DOMAIN files[x] \subseteq Paths
                           /\ \A p \in DOMAIN files[x] :
                                files[x][p] \in [bytes : Bytes, against : Bytes]
  BY DEF StorageInd, FilesAreMaps, TypeOK
<1> DEFINE Replaces(g) ==
             /\ files' = [files EXCEPT ![sh] = g]
             /\ g = [p \in DOMAIN g |-> g[p]] /\ DOMAIN g \subseteq DOMAIN f
             /\ \A p \in DOMAIN g : g[p] \in [bytes : Bytes, against : Bytes]
             /\ \A p \in DOMAIN f : p # path => p \in DOMAIN g /\ g[p] = f[p]
<1>2. PICK g : Replaces(g)
  <2>1. CASE files' = [files EXCEPT ![sh][path].bytes = Corrupt]
    <3> DEFINE g == [f EXCEPT ![path] = [f[path] EXCEPT !.bytes = Corrupt]]
    <3>1. files' = [files EXCEPT ![sh] = g]
      BY <2>1
    <3>2. DOMAIN g = DOMAIN f /\ g = [p \in DOMAIN g |-> g[p]]
      BY <1>1
    <3>3. g[path] \in [bytes : Bytes, against : Bytes] /\ \A p \in DOMAIN f : p # path => g[p] = f[p]
      BY <1>1 DEF Bytes, Corrupt
    <3> HIDE DEF g
    <3>4. Replaces(g)
      BY <1>1, <3>1, <3>2, <3>3
    <3> HIDE DEF Replaces
    <3> QED BY <3>4
  <2>2. CASE files' = [files EXCEPT ![sh] = [p \in DOMAIN @ \ {path} |-> @[p]]]
    <3> DEFINE g == [p \in DOMAIN f \ {path} |-> f[p]]
    <3>1. files' = [files EXCEPT ![sh] = g]
      BY <2>2
    <3>2. DOMAIN g = DOMAIN f \ {path} /\ \A p \in DOMAIN g : g[p] = f[p]
      OBVIOUS
    <3>3. g = [p \in DOMAIN g |-> g[p]]
      OBVIOUS
    <3> HIDE DEF g
    <3>4. Replaces(g)
      BY <1>1, <3>1, <3>2, <3>3
    <3> HIDE DEF Replaces
    <3> QED BY <3>4
  <2> QED BY <2>1, <2>2 DEF Damage
<1>3. /\ DOMAIN files' = Shards /\ files'[sh] = g
      /\ \A x \in Shards : x # sh => files'[x] = files[x]
      /\ files' = [x \in Shards |-> files'[x]]
  BY <1>1, <1>2
<1>4. FilesAreMaps'
  BY <1>1, <1>2, <1>3 DEF FilesAreMaps
<1>5. \A x \in Shards : /\ DOMAIN files'[x] \subseteq Paths
                        /\ \A p \in DOMAIN files'[x] :
                             files'[x][p] \in [bytes : Bytes, against : Bytes]
  BY <1>1, <1>2, <1>3
<1>6. \A x \in Shards : \A p : <<x, p>> # <<sh, path>> => Same(x, p)
  BY <1>2, <1>3 DEF Same
<1> QED BY <1>3, <1>4, <1>5, <1>6

LEMMA DamageKeeps ==
  ASSUME StorageInd, NEW sh \in Shards, NEW path \in DOMAIN files[sh], Damage(sh, path)
  PROVE  StorageInd'
<1>1. /\ damaged' = damaged \cup {<<sh, path>>}
      /\ epoch' = epoch /\ hist' = hist /\ count' = count /\ baseIndex' = baseIndex
      /\ writer' = writer /\ reader' = reader /\ writes' = writes /\ restarts' = restarts
  BY DEF Damage, meta
<1>2. <<sh, path>> \in Shards \X Paths
  BY DEF StorageInd, TypeOK
<1>3. TypeOK'
  BY <1>1, <1>2, DamageFacts DEF StorageInd, TypeOK
<1>4. Counted' /\ LastBase' /\ Numbered' /\ Ordered' /\ Chains' /\ ReaderInRange'
  BY <1>1 DEF StorageInd, WriterInd, Counted, LastBase, Numbered, Ordered, Chains, ReaderInRange,
              Indexes
<1>5. EntriesStored'
  <2>1. \A x \in Shards : \A i \in Indexes(x) :
          <<x, PathOf(x, i)>> \notin damaged' =>
            <<x, PathOf(x, i)>> \notin damaged /\ Same(x, PathOf(x, i))
    BY <1>1, DamageFacts
  <2> QED BY <1>1, <2>1, EntriesKeep DEF StorageInd, WriterInd
<1>6. WriteStored'
  <2> SUFFICES ASSUME writer.pc = "append", <<Target, Path>> \notin damaged'
               PROVE  /\ Stored(Target, Path, writer.payload)'
                      /\ ~IsBase /\ <<Target, BasePath>> \notin damaged' =>
                           files'[Target][Path].against = hist[Target][baseIndex[Target]].checksum
    BY <1>1 DEF WriteStored, Target, Path, IsBase, BasePath
  <2>1. Target \in Shards
    BY WriterFacts DEF StorageInd, WriterInd, Idle
  <2>2. <<Target, Path>> \notin damaged /\ Same(Target, Path)
    BY <1>1, <2>1, DamageFacts
  <2>3. WriteStored
    BY DEF StorageInd, WriterInd
  <2>4. Stored(Target, Path, writer.payload)'
    BY <1>1, <2>2, <2>3 DEF WriteStored, Stored, Same, Target, Path
  <2>5. ~IsBase /\ <<Target, BasePath>> \notin damaged' =>
           files'[Target][Path].against = hist[Target][baseIndex[Target]].checksum
    BY <1>1, <2>2, <2>3 DEF WriteStored, Stored, Same
  <2> QED BY <2>4, <2>5
<1> QED BY <1>3, <1>4, <1>5, <1>6, DamageFacts DEF StorageInd, WriterInd

LEMMA StoreFileKeeps == ASSUME StorageInd, StoreFile PROVE StorageInd'
<1> DEFINE f == files[Target]
           g == [p \in DOMAIN f \cup {Path} |-> IF p = Path THEN Content ELSE f[p]]
<1>1. /\ writer # Idle /\ writer.pc = "store" /\ (~IsBase => BasePath \in DOMAIN f)
      /\ files' = [files EXCEPT ![Target] = g]
      /\ damaged' = damaged \ {<<Target, Path>>} /\ writer' = [writer EXCEPT !.pc = "append"]
      /\ epoch' = epoch /\ hist' = hist /\ count' = count /\ baseIndex' = baseIndex
      /\ reader' = reader /\ writes' = writes /\ restarts' = restarts
  BY DEF StoreFile, Idle, meta
<1>2. /\ Target \in Shards /\ Path = <<writer.epoch, Len(hist[Target])>> /\ Path \in Paths
      /\ writer.payload \in Payloads
  BY <1>1, WriterFacts DEF StorageInd, WriterInd
<1>3. /\ files = [x \in Shards |-> files[x]]
      /\ \A x \in Shards : /\ files[x] = [p \in DOMAIN files[x] |-> files[x][p]]
                           /\ DOMAIN files[x] \subseteq Paths
                           /\ \A p \in DOMAIN files[x] :
                                files[x][p] \in [bytes : Bytes, against : Bytes]
  BY DEF StorageInd, FilesAreMaps, TypeOK
<1>4. /\ Content \in [bytes : Bytes, against : Bytes] /\ Content.bytes = writer.payload
      /\ ~IsBase => Content.against = f[BasePath].bytes
  BY <1>1, <1>2, <1>3 DEF Content, Bytes
<1>5. /\ DOMAIN g = DOMAIN f \cup {Path} /\ g[Path] = Content
      /\ \A p \in DOMAIN f : p # Path => g[p] = f[p]
      /\ g = [p \in DOMAIN g |-> g[p]]
  OBVIOUS
<1> HIDE DEF g
<1>6. /\ DOMAIN files' = Shards /\ files'[Target] = g
      /\ \A x \in Shards : x # Target => files'[x] = files[x]
      /\ files' = [x \in Shards |-> files'[x]]
  BY <1>1, <1>2, <1>3
<1>7. FilesAreMaps'
  BY <1>3, <1>5, <1>6 DEF FilesAreMaps
<1>8. TypeOK'
  <2>1. \A x \in Shards : /\ DOMAIN files'[x] \subseteq Paths
                          /\ \A p \in DOMAIN files'[x] :
                               files'[x][p] \in [bytes : Bytes, against : Bytes]
    <3>1. /\ DOMAIN g \subseteq Paths
          /\ \A p \in DOMAIN g : g[p] \in [bytes : Bytes, against : Bytes]
      BY <1>2, <1>3, <1>4, <1>5
    <3> QED BY <1>3, <1>6, <3>1
  <2>2. writer' \in [pc : {"store", "append"}, shard : Shards, epoch : Epochs, payload : Payloads]
    BY <1>1 DEF StorageInd, TypeOK
  <2> QED BY <1>1, <1>6, <2>1, <2>2 DEF StorageInd, TypeOK
<1>9. writer' # Idle /\ writer'.epoch = writer.epoch /\ writer'.payload = writer.payload
      /\ Target' = Target /\ Path' = Path /\ (IsBase' <=> IsBase) /\ BasePath' = BasePath
  <2>1. /\ writer'.pc = "append" /\ writer'.epoch = writer.epoch
        /\ writer'.payload = writer.payload /\ writer'.shard = writer.shard
    BY <1>1 DEF StorageInd, TypeOK
  <2> QED BY <1>1, <2>1 DEF Target, Path, IsBase, BasePath, Idle
<1>10. Counted' /\ LastBase' /\ Numbered' /\ Ordered' /\ Chains' /\ ReaderInRange'
  BY <1>1, <1>9 DEF StorageInd, WriterInd, Counted, LastBase, Numbered, Ordered, Chains,
                    ReaderInRange, Indexes
<1>11. \A x \in Shards : \A i \in Indexes(x) :
         <<x, PathOf(x, i)>> # <<Target, Path>> /\ Same(x, PathOf(x, i))
  <2> SUFFICES ASSUME NEW x \in Shards, NEW i \in Indexes(x)
               PROVE  <<x, PathOf(x, i)>> # <<Target, Path>> /\ Same(x, PathOf(x, i))
    OBVIOUS
  <2>1. x = Target => PathOf(x, i)[2] # Path[2]
    <3>1. PathOf(x, i)[2] = i - 1
      BY DEF StorageInd, WriterInd, Numbered, PathOf
    <3>2. Len(hist[x]) \in Nat /\ i \in 1..Len(hist[x])
      BY Shapes DEF StorageInd, Indexes
    <3> QED BY <1>2, <3>1, <3>2
  <2>2. x # Target \/ PathOf(x, i) # Path
    BY <2>1
  <2> QED BY <1>5, <1>6, <2>2 DEF Same
<1>12. EntriesStored'
  <2>1. \A x \in Shards : \A i \in Indexes(x) :
          <<x, PathOf(x, i)>> \notin damaged' =>
            <<x, PathOf(x, i)>> \notin damaged /\ Same(x, PathOf(x, i))
    BY <1>1, <1>11
  <2> QED BY <1>1, <2>1, EntriesKeep DEF StorageInd, WriterInd
<1>13. WriteStored'
  <2>1. Stored(Target, Path, writer.payload)'
    BY <1>4, <1>5, <1>6, <1>9 DEF Stored
  <2>2. ASSUME ~IsBase, <<Target, BasePath>> \notin damaged'
        PROVE  files'[Target][Path].against = hist[Target][baseIndex[Target]].checksum
    <3>1. baseIndex[Target] \in Indexes(Target) /\ BasePath = PathOf(Target, baseIndex[Target])
      BY <1>1, <2>2, BaseFacts DEF StorageInd, WriterInd, BasePath, PathOf
    <3>2. <<Target, BasePath>> \notin damaged
      BY <1>1, <1>2, <1>11, <2>2, <3>1
    <3>3. f[BasePath].bytes = hist[Target][baseIndex[Target]].checksum
      BY <1>2, <3>1, <3>2 DEF StorageInd, WriterInd, EntriesStored, Stored
    <3> QED BY <1>4, <1>5, <1>6, <2>2, <3>3
  <2> QED BY <1>1, <1>9, <2>1, <2>2 DEF WriteStored
<1> QED BY <1>7, <1>8, <1>10, <1>12, <1>13 DEF StorageInd, WriterInd

-----------------------------------------------------------------------------
(* A history grows by the entry whose file has been stored. *)

(* What AppendEntry does to the histories. *)
LEMMA AppendEntryFacts ==
  ASSUME StorageInd, AppendEntry
  PROVE  /\ Target \in Shards /\ writer # Idle /\ writer.pc = "append" /\ NewEntry \in Entries
         /\ Len(hist[Target]) \in Nat /\ Len(hist[Target]) < writes
         /\ hist'[Target] \in Seq(Entries) /\ Len(hist'[Target]) = Len(hist[Target]) + 1
         /\ \A i \in 1..Len(hist[Target]) : hist'[Target][i] = hist[Target][i]
         /\ hist'[Target][Len(hist[Target]) + 1] = NewEntry
         /\ \A sh \in Shards : sh # Target => hist'[sh] = hist[sh]
         /\ DOMAIN hist' = Shards /\ hist' \in [Shards -> Seq(Entries)]
         /\ hist'[Target] = Append(hist[Target], NewEntry)
<1>1. writer # Idle /\ writer.pc = "append" /\ hist' = [hist EXCEPT ![Target] = Append(@, NewEntry)]
  BY DEF AppendEntry, Idle
<1>2. TypeOK /\ Counted /\ LastBase /\ Target \in Shards /\ Path \in Paths
      /\ writer.epoch \in Epochs /\ writer.payload \in Payloads
  BY <1>1, WriterFacts DEF StorageInd, WriterInd
<1>3. ~IsBase => baseIndex[Target] \in 0..MaxWrites
  BY <1>1, <1>2, BaseFacts DEF TypeOK
<1>4. NewEntry \in Entries
  BY <1>2, <1>3, StorageAssumption DEF NewEntry, Entries, NoBase
<1>5. hist[Target] \in Seq(Entries) /\ hist \in [Shards -> Seq(Entries)]
  BY <1>2 DEF TypeOK
<1>6. Len(hist[Target]) < writes
  BY <1>1, <1>2 DEF Counted
<1>7. hist'[Target] = Append(hist[Target], NewEntry)
  BY <1>1, <1>2, <1>5
<1>8. hist' \in [Shards -> Seq(Entries)] /\ \A sh \in Shards : sh # Target => hist'[sh] = hist[sh]
  BY <1>1, <1>2, <1>4, <1>5
<1> QED BY <1>1, <1>2, <1>4, <1>5, <1>6, <1>7, <1>8, AppendFacts

LEMMA AppendEntryKeeps == ASSUME StorageInd, AppendEntry PROVE StorageInd'
<1> DEFINE n == Len(hist[Target])
           h == hist'[Target]
<1>1. /\ Target \in Shards /\ writer # Idle /\ writer.pc = "append" /\ NewEntry \in Entries
      /\ n \in Nat /\ n < writes /\ h \in Seq(Entries) /\ Len(h) = n + 1
      /\ \A i \in 1..n : h[i] = hist[Target][i]
      /\ h[n + 1] = NewEntry
      /\ \A sh \in Shards : sh # Target => hist'[sh] = hist[sh]
      /\ hist' \in [Shards -> Seq(Entries)]
  BY AppendEntryFacts
<1>2. /\ writer' = Idle /\ epoch' = epoch /\ files' = files /\ reader' = reader
      /\ writes' = writes /\ damaged' = damaged /\ restarts' = restarts
  BY DEF AppendEntry, ghosts
<1>3. /\ TypeOK /\ FilesAreMaps /\ Counted /\ LastBase /\ Numbered /\ Ordered /\ Chains
      /\ EntriesStored /\ WriteStored /\ ReaderInRange
  BY DEF StorageInd, WriterInd
<1>4. /\ BaseInterval \in Nat \ {0} /\ MaxWrites \in Nat /\ writes \in 0..MaxWrites
      /\ \A sh \in Shards : Len(hist[sh]) \in Nat
  BY <1>3, Shapes DEF TypeOK
<1>5. \A sh \in NodeShards :
        /\ count'[sh] = IF sh = Target THEN count[sh] + 1 ELSE count[sh]
        /\ baseIndex'[sh] = IF sh = Target /\ IsBase THEN n + 1 ELSE baseIndex[sh]
  BY <1>3, StorageAssumption DEF AppendEntry, TypeOK
<1>6. /\ NewEntry.epoch = writer.epoch /\ NewEntry.checksum = writer.payload
      /\ NewEntry.path = Path /\ Path = <<writer.epoch, n>>
      /\ NewEntry.diff <=> ~IsBase
      /\ ~IsBase => NewEntry.base = baseIndex[Target]
  BY <1>1, <1>3, WriterFacts DEF NewEntry
<1>7. /\ \A sh \in Shards : \A i \in Indexes(sh) : i \in Indexes(sh)' /\ hist'[sh][i] = hist[sh][i]
      /\ \A sh \in Shards : \A i \in Indexes(sh)' :
           i \in Indexes(sh) \/ (sh = Target /\ i = n + 1)
      /\ \A sh \in Shards : Len(hist'[sh]) = IF sh = Target THEN n + 1 ELSE Len(hist[sh])
      /\ Indexes(Target) = 1..n
  BY <1>1, <1>4 DEF Indexes
<1>8. ~IsBase => /\ Target \in NodeShards /\ baseIndex[Target] \in 1..n
                 /\ n + 1 - baseIndex[Target] < BaseInterval
                 /\ \A j \in baseIndex[Target]..n :
                      hist[Target][j].diff <=> (j # baseIndex[Target])
  BY <1>1, <1>3, BaseFacts DEF Indexes
<1>9. TypeOK'
  <2>1. count' \in [NodeShards -> 0..MaxWrites]
    <3>1. DOMAIN count' = NodeShards /\ count' = [sh \in NodeShards |-> count'[sh]]
      BY <1>3 DEF AppendEntry, TypeOK
    <3>2. \A sh \in NodeShards : count'[sh] \in 0..MaxWrites
      <4>1. Target \in NodeShards => count[Target] = n
        BY <1>3 DEF Counted
      <4>2. n + 1 \in 0..MaxWrites
        BY <1>1, <1>4
      <4>3. \A sh \in NodeShards : count[sh] \in 0..MaxWrites
        BY <1>3 DEF TypeOK
      <4> QED BY <1>5, <4>1, <4>2, <4>3
    <3> QED BY <3>1, <3>2
  <2>2. baseIndex' \in [NodeShards -> 0..MaxWrites]
    <3>1. DOMAIN baseIndex' = NodeShards /\ baseIndex' = [sh \in NodeShards |-> baseIndex'[sh]]
      BY <1>3 DEF AppendEntry, TypeOK
    <3>2. \A sh \in NodeShards : baseIndex'[sh] \in 0..MaxWrites
      BY <1>1, <1>3, <1>4, <1>5 DEF TypeOK
    <3> QED BY <3>1, <3>2
  <2> QED BY <1>1, <1>2, <1>3, <2>1, <2>2 DEF TypeOK
<1>10. Counted'
  <2>1. \A sh \in NodeShards : count'[sh] = Len(hist'[sh])
    BY <1>3, <1>5, <1>7 DEF Counted, Shards
  <2>2. \A sh \in Shards : Len(hist'[sh]) <= writes'
    BY <1>1, <1>2, <1>3, <1>4, <1>7 DEF Counted
  <2> QED BY <1>2, <2>1, <2>2 DEF Counted
<1>11. LastBase'
  <2> SUFFICES ASSUME NEW sh \in NodeShards
               PROVE  /\ count'[sh] = 0 => baseIndex'[sh] = NoBase
                      /\ count'[sh] # 0 =>
                           /\ baseIndex'[sh] \in 1..count'[sh]
                           /\ (baseIndex'[sh] - 1) % BaseInterval = 0
                           /\ count'[sh] - baseIndex'[sh] < BaseInterval
                           /\ \A j \in baseIndex'[sh]..count'[sh] :
                                hist'[sh][j].diff <=> (j # baseIndex'[sh])
    BY DEF LastBase
  <2>1. CASE sh # Target
    <3>1. /\ count'[sh] = count[sh] /\ baseIndex'[sh] = baseIndex[sh]
          /\ hist'[sh] = hist[sh]
      BY <1>1, <1>5, <2>1 DEF Shards
    <3> QED BY <1>3, <3>1 DEF LastBase
  <2>2. CASE sh = Target /\ IsBase
    <3>1. count[sh] = n /\ count'[sh] = n + 1 /\ baseIndex'[sh] = n + 1
      BY <1>3, <1>5, <2>2 DEF Counted
    <3>2. n % BaseInterval = 0
      <4>1. n % BaseInterval = 0 \/ baseIndex[sh] = NoBase
        BY <2>2, <3>1 DEF IsBase
      <4>2. baseIndex[sh] = NoBase => n = 0
        BY <1>3, <3>1 DEF LastBase, NoBase
      <4> QED BY <1>4, <4>1, <4>2, ZeroIsMultiple
    <3>3. ~h[n + 1].diff
      BY <1>1, <1>6, <2>2
    <3>4. n + 1 - 1 = n /\ n + 1 - (n + 1) < BaseInterval /\ (n + 1)..(n + 1) = {n + 1}
      BY <1>1, <1>4
    <3> QED BY <1>1, <2>2, <3>1, <3>2, <3>3, <3>4
  <2>3. CASE sh = Target /\ ~IsBase
    <3>1. count[sh] = n /\ count'[sh] = n + 1 /\ baseIndex'[sh] = baseIndex[sh] /\ n # 0
      BY <1>1, <1>3, <1>5, <1>8, <2>3 DEF Counted
    <3>2. (baseIndex[sh] - 1) % BaseInterval = 0
      BY <1>3, <3>1 DEF LastBase
    <3>3. \A j \in baseIndex[sh]..(n + 1) : h[j].diff <=> (j # baseIndex[sh])
      <4>1. \A j \in baseIndex[sh]..n : h[j] = hist[sh][j]
        BY <1>1, <1>8, <2>3
      <4>2. /\ h[n + 1].diff /\ n + 1 # baseIndex[sh]
            /\ n \in Nat /\ baseIndex[sh] \in 1..n
        BY <1>1, <1>6, <1>8, <2>3
      <4>3. \A j \in baseIndex[sh]..n : hist[sh][j].diff <=> (j # baseIndex[sh])
        BY <1>8, <2>3
      <4>4. baseIndex[sh]..(n + 1) = (baseIndex[sh]..n) \cup {n + 1}
        BY <4>2
      <4> SUFFICES ASSUME NEW j \in (baseIndex[sh]..n) \cup {n + 1}
                   PROVE  h[j].diff <=> (j # baseIndex[sh])
        BY <4>4
      <4>5. CASE j \in baseIndex[sh]..n
        BY <4>1, <4>3, <4>5
      <4>6. CASE j = n + 1
        BY <4>2, <4>6
      <4> QED BY <4>5, <4>6
    <3>4. /\ n + 1 # 0 /\ n + 1 - baseIndex[sh] < BaseInterval
          /\ baseIndex[sh] \in 1..(n + 1)
      BY <1>1, <1>8, <2>3
    <3> QED BY <2>3, <3>1, <3>2, <3>3, <3>4
  <2> QED BY <2>1, <2>2, <2>3
<1>12. Numbered'
  <2>1. NewEntry.path[2] = n + 1 - 1
    BY <1>1, <1>6
  <2>2. \A sh \in Shards : \A i \in Indexes(sh)' : hist'[sh][i].path[2] = i - 1
    <3> SUFFICES ASSUME NEW sh \in Shards, NEW i \in Indexes(sh)'
                 PROVE  hist'[sh][i].path[2] = i - 1
      OBVIOUS
    <3>1. CASE i \in Indexes(sh)
      BY <1>3, <1>7, <3>1 DEF Numbered
    <3>2. CASE sh = Target /\ i = n + 1
      BY <1>1, <2>1, <3>2
    <3> QED BY <1>7, <3>1, <3>2
  <2> QED BY <2>2 DEF Numbered
<1>13. Ordered'
  <2>1. writer.payload = writes /\ writer.epoch <= epoch
    BY <1>1, <1>3 DEF Counted, Ordered
  <2>2. NewEntry.epoch <= epoch /\ NewEntry.checksum <= writes
    BY <1>4, <1>6, <2>1
  <2>3. \A sh \in Shards : \A i \in Indexes(sh)' :
          hist'[sh][i].epoch <= epoch /\ hist'[sh][i].checksum <= writes
    BY <1>1, <1>3, <1>7, <2>2 DEF Ordered
  <2> QED BY <1>2, <2>3 DEF Ordered
<1>14. Chains'
  <2> SUFFICES ASSUME NEW sh \in Shards, NEW i \in Indexes(sh)', hist'[sh][i].diff
               PROVE  /\ hist'[sh][i].base \in 1..(i - 1)
                      /\ \A j \in hist'[sh][i].base..(i - 1) :
                           hist'[sh][j].diff <=> (j # hist'[sh][i].base)
                      /\ i - hist'[sh][i].base < BaseInterval
    BY DEF Chains
  <2>1. CASE i \in Indexes(sh)
    <3>1. hist'[sh][i] = hist[sh][i] /\ hist[sh][i].base \in 1..(i - 1)
      BY <1>3, <1>7, <2>1 DEF Chains
    <3>2. \A j \in hist[sh][i].base..(i - 1) : hist'[sh][j] = hist[sh][j]
      <4>1. \A j \in hist[sh][i].base..(i - 1) : j \in Indexes(sh)
        BY <1>4, <2>1, <3>1 DEF Indexes
      <4> QED BY <1>7, <4>1
    <3> QED BY <1>3, <2>1, <3>1, <3>2 DEF Chains
  <2>2. CASE sh = Target /\ i = n + 1
    <3> DEFINE b == baseIndex[Target]
    <3>1. hist'[sh][i] = NewEntry /\ ~IsBase /\ NewEntry.base = b
      BY <1>1, <1>6, <2>2
    <3>2. /\ b \in 1..n /\ n + 1 - b < BaseInterval /\ n \in Nat
          /\ \A j \in b..n : hist[Target][j].diff <=> (j # b)
      BY <1>1, <1>8, <3>1
    <3> HIDE DEF b
    <3>3. \A j \in b..n : hist'[sh][j] = hist[Target][j]
      BY <1>1, <2>2, <3>2
    <3>4. i - 1 = n /\ i = n + 1
      BY <2>2, <3>2
    <3> QED BY <3>1, <3>2, <3>3, <3>4
  <2> QED BY <1>7, <2>1, <2>2
<1>15. EntriesStored'
  <2> SUFFICES ASSUME NEW sh \in Shards, NEW i \in Indexes(sh)', <<sh, hist'[sh][i].path>> \notin damaged
               PROVE  /\ Stored(sh, hist'[sh][i].path, hist'[sh][i].checksum)
                      /\ hist'[sh][i].diff /\ <<sh, hist'[sh][hist'[sh][i].base].path>> \notin damaged =>
                           files[sh][hist'[sh][i].path].against = hist'[sh][hist'[sh][i].base].checksum
    BY <1>2 DEF EntriesStored, PathOf, BasePathOf, Stored
  <2>1. CASE i \in Indexes(sh)
    <3>1. hist'[sh][i] = hist[sh][i]
      BY <1>7, <2>1
    <3>2. hist[sh][i].diff => hist'[sh][hist[sh][i].base] = hist[sh][hist[sh][i].base]
      <4>1. hist[sh][i].diff => hist[sh][i].base \in Indexes(sh)
        BY <1>3, <1>4, <2>1 DEF Chains, Indexes
      <4> QED BY <1>7, <4>1
    <3>3. Stored(sh, hist[sh][i].path, hist[sh][i].checksum)
      BY <1>3, <2>1, <3>1 DEF EntriesStored, PathOf
    <3>4. hist[sh][i].diff /\ <<sh, hist[sh][hist[sh][i].base].path>> \notin damaged =>
            files[sh][hist[sh][i].path].against = hist[sh][hist[sh][i].base].checksum
      BY <1>3, <2>1, <3>1 DEF EntriesStored, PathOf, BasePathOf
    <3> QED BY <3>1, <3>2, <3>3, <3>4
  <2>3. CASE sh = Target /\ i = n + 1
    <3>1. Stored(Target, Path, writer.payload)
      BY <1>1, <1>3, <1>6, <2>3 DEF WriteStored
    <3>2. ~IsBase => hist'[Target][baseIndex[Target]] = hist[Target][baseIndex[Target]]
      BY <1>1, <1>8
    <3> QED BY <1>1, <1>3, <1>6, <2>3, <3>1, <3>2 DEF WriteStored, BasePath
  <2> QED BY <1>7, <2>1, <2>3
<1>16. ReaderInRange'
  <2> SUFFICES ASSUME reader.pc \in {"index", "read", "restored"}
               PROVE  /\ reader.index \in 1..Len(hist'[reader.shard])
                      /\ reader.gate # NoGate =>
                           hist'[reader.shard][reader.index].epoch <= reader.gate
    BY <1>2 DEF ReaderInRange, Indexes
  <2>1. reader.shard \in Shards /\ reader.index \in Indexes(reader.shard)
    BY <1>3 DEF TypeOK, ReaderInRange, Idle, Restores
  <2>2. /\ reader.index \in 1..Len(hist'[reader.shard])
        /\ hist'[reader.shard][reader.index] = hist[reader.shard][reader.index]
    BY <1>7, <2>1 DEF Indexes
  <2> QED BY <1>3, <2>2 DEF ReaderInRange
<1>17. FilesAreMaps' /\ WriteStored'
  BY <1>2, <1>3 DEF FilesAreMaps, WriteStored, Idle
<1> QED BY <1>9, <1>10, <1>11, <1>12, <1>13, <1>14, <1>15, <1>16, <1>17 DEF StorageInd, WriterInd

-----------------------------------------------------------------------------
(* Every step keeps the invariant. *)

LEMMA StorageStep == ASSUME StorageInd, [Next]_vars PROVE StorageInd'
<1>1. CASE \E sh \in Shards : \/ \E path \in DOMAIN files[sh] : Damage(sh, path)
                              \/ BeginWrite(sh) \/ RestoreUngated(sh)
                              \/ \E gate \in 1..MaxEpoch :
                                   RestoreGated(sh, gate) \/ RestoreNothing(sh, gate)
  BY <1>1, DamageKeeps, BeginWriteKeeps, RestoreUngatedKeeps, RestoreGatedKeeps, RestoreNothingKeeps
<1>2. CASE RestoreSucceeds \/ ChecksumMismatch \/ RestoreRaises
  <2>1. reader.pc = "read" /\ \E outcome \in {"restored", "failed", "raised"} : Finish(outcome)
    BY <1>2 DEF RestoreSucceeds, ChecksumMismatch, RestoreRaises
  <2> QED BY <2>1, FinishKeeps
<1>3. CASE UNCHANGED vars
  <2>1. UNCHANGED <<epoch, meta, files, writer, ghosts>> /\ reader' = reader
        /\ hist' = hist
    BY <1>3 DEF vars, meta
  <2>2. ReaderInRange'
    BY <2>1 DEF StorageInd, ReaderInRange, Indexes
  <2>3. reader' \in {Idle} \cup Restores
    BY <2>1 DEF StorageInd, TypeOK
  <2> QED BY <2>1, <2>2, <2>3, ReaderSuffices
<1> QED
  BY <1>1, <1>2, <1>3, NextEpochKeeps, RestartKeeps, StoreFileKeeps, AppendEntryKeeps,
     WriteRaisesKeeps, ReadIndexKeeps DEF Next

LEMMA StorageInvariant == Spec => []StorageInd
<1>1. StorageInd /\ [Next]_vars => StorageInd'
  BY StorageStep
<1> QED BY <1>1, StorageInit, PTL DEF Spec

-----------------------------------------------------------------------------
(* Whatever the two threads interleave, and whatever is damaged or         *)
(* restarted, the state is typed, no chain of diffs is longer than one,    *)
(* each diff names the last full entry before it, and no two entries of a  *)
(* history share a file (_write_node_tier).                                *)
THEOREM ChainsAreShort == Spec => []StorageInv
<1>1. StorageInd => StorageInv
  <2> SUFFICES ASSUME StorageInd PROVE DiffsNameBases
    BY DEF StorageInv, StorageInd
  <2>1. \A sh \in Shards : \A i, j \in Indexes(sh) : j # i => hist[sh][j].path # hist[sh][i].path
    <3> SUFFICES ASSUME NEW sh \in Shards, NEW i \in Indexes(sh), NEW j \in Indexes(sh), j # i
                 PROVE  hist[sh][j].path[2] # hist[sh][i].path[2]
      OBVIOUS
    <3>1. hist[sh][i].path[2] = i - 1 /\ hist[sh][j].path[2] = j - 1
      BY DEF StorageInd, WriterInd, Numbered
    <3> QED BY <3>1, Shapes DEF StorageInd, Indexes
  <2>2. Chains
    BY DEF StorageInd, WriterInd
  <2> QED BY <2>1, <2>2 DEF DiffsNameBases, Chains
<1> QED BY <1>1, StorageInvariant, PTL

(* At every moment between any two steps of the two threads, an entry the  *)
(* loop thread can see, whose files are undamaged, reconstructs to the     *)
(* payload it was given: the file is stored before its entry is appended,  *)
(* and base_index names the base it was made against (_reconstruct).       *)
THEOREM VisibleReads == Spec => []VisibleReadsBack
<1>1. StorageInd => VisibleReadsBack
  <2> SUFFICES ASSUME StorageInd, NEW sh \in Shards, NEW i \in Indexes(sh), Intact(sh, i)
               PROVE  Verified(sh, i)
    BY DEF VisibleReadsBack
  <2>1. EntriesStored /\ Chains
    BY DEF StorageInd, WriterInd
  <2>2. Stored(sh, PathOf(sh, i), hist[sh][i].checksum)
    BY <2>1 DEF EntriesStored, Intact
  <2>3. CASE ~hist[sh][i].diff
    BY <2>2, <2>3 DEF Verified, Present, Reconstruct, Stored
  <2>4. CASE hist[sh][i].diff
    <3>1. hist[sh][i].base \in Indexes(sh)
      BY <2>1, <2>4, Shapes DEF StorageInd, Chains, Indexes
    <3>2. Stored(sh, BasePathOf(sh, i), hist[sh][hist[sh][i].base].checksum)
      BY <2>1, <2>4, <3>1 DEF EntriesStored, Intact, PathOf, BasePathOf
    <3>3. files[sh][PathOf(sh, i)].against = hist[sh][hist[sh][i].base].checksum
      BY <2>1, <2>4 DEF EntriesStored, Intact
    <3> QED BY <2>2, <3>2, <3>3 DEF Verified, Present, Reconstruct, Stored
  <2> QED BY <2>3, <2>4
<1> QED BY <1>1, StorageInvariant, PTL

(* A gated restore takes an entry of the newest epoch the gate allows,     *)
(* whatever the training thread is appending (_select).                    *)
THEOREM GateIsRespected == Spec => GateRespected
<1> DEFINE Chosen ==
      reader' # reader /\ reader'.pc = "read" /\ reader'.gate # NoGate =>
        LET h == hist[reader'.shard] IN
          /\ h[reader'.index].epoch = reader'.epoch
          /\ reader'.epoch <= reader'.gate
          /\ \A i \in Candidates(h, reader'.gate) : h[i].epoch <= reader'.epoch
<1>1. StorageInd /\ [Next]_vars => Chosen
  <2> SUFFICES ASSUME StorageInd, Next, reader' # reader, reader'.pc = "read", reader'.gate # NoGate
               PROVE  LET h == hist[reader'.shard] IN
                        /\ h[reader'.index].epoch = reader'.epoch
                        /\ reader'.epoch <= reader'.gate
                        /\ \A i \in Candidates(h, reader'.gate) : h[i].epoch <= reader'.epoch
    BY DEF vars
  <2>1. \E sh \in Shards : \E gate \in 1..MaxEpoch : RestoreGated(sh, gate)
    <3>1. ~(NextEpoch \/ StoreFile \/ AppendEntry \/ WriteRaises)
      BY DEF NextEpoch, StoreFile, AppendEntry, WriteRaises
    <3>2. ~(Restart \/ ReadIndex)
      BY DEF Restart, ReadIndex, Restore, Idle
    <3>3. ~(RestoreSucceeds \/ ChecksumMismatch \/ RestoreRaises)
      <4>1. reader.pc = "read" => reader \in Restores
        BY DEF StorageInd, TypeOK, Idle
      <4> QED BY <4>1 DEF RestoreSucceeds, ChecksumMismatch, RestoreRaises, Finish, Restores
    <3>4. \A sh \in Shards : ~(BeginWrite(sh) \/ \E path \in DOMAIN files[sh] : Damage(sh, path))
      BY DEF BeginWrite, Damage
    <3>5. \A sh \in Shards : ~(RestoreUngated(sh) \/ \E gate \in 1..MaxEpoch : RestoreNothing(sh, gate))
      BY DEF RestoreUngated, RestoreNothing, Restore
    <3> QED BY <3>1, <3>2, <3>3, <3>4, <3>5 DEF Next
  <2>2. PICK sh \in Shards, gate \in 1..MaxEpoch : RestoreGated(sh, gate)
    BY <2>1
  <2>3. /\ reader'.shard = sh /\ reader'.gate = gate
        /\ reader'.index = Selected(hist[sh], gate)
        /\ reader'.epoch = hist[sh][Selected(hist[sh], gate)].epoch
    BY <2>2 DEF RestoreGated, Restore
  <2>4. /\ Selected(hist[sh], gate) \in Candidates(hist[sh], gate)
        /\ \A j \in Candidates(hist[sh], gate) :
             hist[sh][j].epoch <= hist[sh][Selected(hist[sh], gate)].epoch
    BY <2>2, Shapes, SelectedIsNewest DEF RestoreGated, StorageInd
  <2>5. hist[sh][Selected(hist[sh], gate)].epoch <= gate
    BY <2>4 DEF Candidates
  <2> QED BY <2>3, <2>4, <2>5
<1> QED BY <1>1, StorageInvariant, PTL DEF Spec, GateRespected

-----------------------------------------------------------------------------
(* The layer implements the log per shard of CheckpointStore. *)

Log == [sh \in Shards |-> LogOf(hist[sh])]

LEMMA StoreInit == ASSUME Init PROVE Store!Init
<1>1. \A sh \in Shards : LogOf(hist[sh]) = << >>
  BY DEF Init, NoHistory, LogOf
<1>2. Restored = Store!Nothing
  BY DEF Init, Idle, Restored, Store!Nothing
<1> QED BY <1>1, <1>2 DEF Store!Init

LEMMA LogOfFacts ==
  ASSUME NEW h \in Seq(Entries)
  PROVE  /\ LogOf(h) \in Seq([epoch : Epochs, payload : Payloads])
         /\ Len(LogOf(h)) = Len(h)
         /\ \A i \in 1..Len(h) : /\ LogOf(h)[i] = [epoch |-> h[i].epoch, payload |-> h[i].checksum]
                                 /\ LogOf(h)[i].epoch = h[i].epoch
                                 /\ LogOf(h)[i].payload = h[i].checksum
<1>1. Len(h) \in Nat /\ \A i \in 1..Len(h) : h[i] \in Entries
  OBVIOUS
<1>2. \A i \in 1..Len(h) : [epoch |-> h[i].epoch, payload |-> h[i].checksum]
                            \in [epoch : Epochs, payload : Payloads]
  BY <1>1 DEF Entries
<1> QED BY <1>1, <1>2 DEF LogOf

(* No step but an append, the end of a restore and a restart is seen.      *)
LEMMA StoreStutters ==
  ASSUME hist' = hist, Restored' = Restored \/ Restored' = Store!Nothing
  PROVE  [Store!Next]_(Store!vars)
<1>1. Log' = Log
  BY DEF Log, LogOf
<1> QED BY <1>1 DEF Log, Store!Next, Store!Clear, Store!vars

LEMMA StoreTakes == ASSUME StorageInd, AppendEntry PROVE Store!Next
<1> DEFINE e == [epoch |-> writer.epoch, payload |-> writer.payload]
           h == hist[Target]
<1>1. /\ Target \in Shards /\ writer # Idle /\ NewEntry \in Entries
      /\ hist'[Target] = Append(h, NewEntry) /\ h \in Seq(Entries)
      /\ \A sh \in Shards : sh # Target => hist'[sh] = hist[sh]
      /\ writer.epoch \in Epochs /\ writer.payload \in Payloads
  BY AppendEntryFacts, WriterFacts, Shapes DEF StorageInd, WriterInd
<1>2. \A i \in 1..Len(LogOf(h)) : LogOf(h)[i].epoch <= writer.epoch /\ LogOf(h)[i].payload # writer.payload
  <2>1. \A i \in 1..Len(h) : h[i].epoch <= writer.epoch /\ h[i].checksum < writer.payload
    BY <1>1 DEF StorageInd, WriterInd, Ordered, Indexes
  <2>2. writer.payload \in Nat /\ \A i \in 1..Len(h) : h[i].checksum \in Nat
    <3>1. MaxWrites \in Nat /\ \A i \in 1..Len(h) : h[i] \in Entries
      BY <1>1, StorageAssumption
    <3> QED BY <1>1, <3>1 DEF Entries, Payloads
  <2>3. \A i \in 1..Len(h) : h[i].checksum # writer.payload
    BY <2>1, <2>2
  <2>4. /\ Len(LogOf(h)) = Len(h)
        /\ \A i \in 1..Len(h) : LogOf(h)[i].epoch = h[i].epoch /\ LogOf(h)[i].payload = h[i].checksum
    BY <1>1, LogOfFacts
  <2> QED BY <2>1, <2>3, <2>4
<1>3. LogOf(hist'[Target]) = Append(LogOf(h), e)
  <2> DEFINE h2 == Append(h, NewEntry)
             l1 == LogOf(h2)
             l2 == Append(LogOf(h), e)
             R == [epoch : Epochs, payload : Payloads]
  <2>1. /\ h2 \in Seq(Entries) /\ Len(h2) = Len(h) + 1 /\ Len(h) \in Nat
        /\ \A i \in 1..Len(h) : h2[i] = h[i]
        /\ h2[Len(h) + 1] = NewEntry
    BY <1>1, AppendFacts
  <2>2. /\ l1 \in Seq(R) /\ Len(l1) = Len(h) + 1
        /\ \A i \in 1..(Len(h) + 1) : l1[i] = [epoch |-> h2[i].epoch, payload |-> h2[i].checksum]
    BY <2>1, LogOfFacts
  <2>3. /\ l2 \in Seq(R) /\ Len(l2) = Len(h) + 1
        /\ \A i \in 1..Len(h) : l2[i] = [epoch |-> h[i].epoch, payload |-> h[i].checksum]
        /\ l2[Len(h) + 1] = e
    <3>1. LogOf(h) \in Seq(R) /\ Len(LogOf(h)) = Len(h) /\ e \in R
      BY <1>1, LogOfFacts
    <3> QED BY <1>1, <3>1, AppendFacts, LogOfFacts
  <2>4. NewEntry.epoch = writer.epoch /\ NewEntry.checksum = writer.payload
    BY DEF NewEntry
  <2> HIDE DEF h2, l1, l2, e
  <2>5. \A i \in 1..(Len(h) + 1) : l1[i] = l2[i]
    <3>1. ASSUME NEW i \in 1..Len(h) PROVE l1[i] = l2[i]
      <4>1. h2[i] = h[i] /\ i \in 1..(Len(h) + 1)
        BY <2>1
      <4>2. l1[i] = [epoch |-> h2[i].epoch, payload |-> h2[i].checksum]
        BY <2>2, <4>1
      <4>3. l2[i] = [epoch |-> h[i].epoch, payload |-> h[i].checksum]
        BY <2>3
      <4> QED BY <4>1, <4>2, <4>3
    <3>2. l1[Len(h) + 1] = l2[Len(h) + 1]
      BY <2>1, <2>2, <2>3, <2>4 DEF e
    <3> QED BY <2>1, <3>1, <3>2
  <2>6. l1 = l2
    BY <2>2, <2>3, <2>5, SeqEqual
  <2> QED BY <1>1, <2>6 DEF l1, l2, h2
<1>4. Log' = [Log EXCEPT ![Target] = Append(@, e)]
  <2>1. \A sh \in Shards : LogOf(hist'[sh]) = IF sh = Target THEN Append(LogOf(h), e) ELSE LogOf(hist[sh])
    BY <1>1, <1>3
  <2>2. Log' = [sh \in Shards |-> LogOf(hist'[sh])]
    BY DEF Log, LogOf
  <2> HIDE DEF e
  <2> QED BY <1>1, <2>1, <2>2 DEF Log
<1>5. Restored' = Restored
  <2>1. reader' = reader
    BY DEF AppendEntry
  <2>2. CASE reader.pc = "restored"
    <3>1. reader.shard \in Shards /\ reader.index \in Indexes(reader.shard)
      BY <2>2 DEF StorageInd, TypeOK, ReaderInRange, Idle, Restores
    <3>2. hist'[reader.shard][reader.index] = hist[reader.shard][reader.index]
      BY <3>1, AppendEntryFacts DEF Indexes
    <3> QED BY <2>1, <3>2 DEF Restored
  <2>3. CASE reader.pc # "restored"
    BY <2>1, <2>3 DEF Restored
  <2> QED BY <2>2, <2>3
<1>6. Store!Take(Target, writer.epoch, writer.payload)
  BY <1>1, <1>2, <1>4, <1>5 DEF Store!Take, Log
<1> QED BY <1>1, <1>6 DEF Store!Next

LEMMA StoreRestores == ASSUME StorageInd, RestoreSucceeds PROVE Store!Next
<1> DEFINE sh == reader.shard
           i == reader.index
           result == [shard |-> sh, gate |-> reader.gate, payload |-> hist[sh][i].checksum]
<1>1. reader.pc = "read" /\ reader' = [reader EXCEPT !.pc = "restored"] /\ hist' = hist
  BY DEF RestoreSucceeds, Finish, meta
<1>2. reader \in Restores /\ reader.gate \in Epochs \cup {NoGate} /\ sh \in Shards
  BY <1>1, StorageAssumption DEF StorageInd, TypeOK, Idle, Restores, Epochs, NoGate
<1>3. i \in 1..Len(hist[sh]) /\ (reader.gate # NoGate => hist[sh][i].epoch <= reader.gate)
  BY <1>1 DEF StorageInd, ReaderInRange, Indexes
<1>4. Restored' = result /\ Log' = Log
  BY <1>1, <1>2 DEF Restored, Log, LogOf, Restores
<1>5. /\ Log[sh] = LogOf(hist[sh]) /\ i \in 1..Len(LogOf(hist[sh]))
      /\ LogOf(hist[sh])[i].epoch = hist[sh][i].epoch
      /\ LogOf(hist[sh])[i].payload = hist[sh][i].checksum
  <2>1. hist[sh] \in Seq(Entries)
    BY <1>2, Shapes DEF StorageInd
  <2> QED BY <1>2, <1>3, <2>1, LogOfFacts DEF Log
<1>6. Store!Restore(sh, reader.gate)
  BY <1>3, <1>4, <1>5 DEF Store!Restore, Log
<1> QED BY <1>2, <1>6 DEF Store!Next

LEMMA StoreRestarts == ASSUME Restart PROVE Store!Next
<1>1. /\ hist' = NoHistory /\ reader' = Idle
  BY DEF Restart
<1>2. Log' = [sh \in Shards |-> << >>]
  BY <1>1 DEF Log, LogOf, NoHistory
<1>3. Restored' = Store!Nothing
  BY <1>1 DEF Restored, Idle, Store!Nothing
<1> QED BY <1>2, <1>3 DEF Log, Store!Next

(* A restore that begins, fails or raises leaves nothing restored. *)
LEMMA ReaderStutters ==
  ASSUME hist' = hist, reader' = reader \/ reader'.pc # "restored"
  PROVE  [Store!Next]_(Store!vars)
<1>1. Restored' = Restored \/ Restored' = Store!Nothing
  BY DEF Restored, Store!Nothing
<1> QED BY <1>1, StoreStutters

LEMMA StoreStep == ASSUME StorageInd, [Next]_vars PROVE [Store!Next]_(Store!vars)
<1>1. CASE NextEpoch \/ StoreFile \/ WriteRaises \/ UNCHANGED vars
  <2>1. hist' = hist /\ reader' = reader
    BY <1>1 DEF NextEpoch, StoreFile, WriteRaises, vars, meta
  <2> QED BY <2>1, ReaderStutters
<1>2. CASE \E sh \in Shards : BeginWrite(sh) \/ \E path \in DOMAIN files[sh] : Damage(sh, path)
  <2>1. hist' = hist /\ reader' = reader
    BY <1>2 DEF BeginWrite, Damage, meta
  <2> QED BY <2>1, ReaderStutters
<1>3. CASE \/ ReadIndex
           \/ \E sh \in Shards : \/ RestoreUngated(sh)
                                 \/ \E gate \in 1..MaxEpoch : RestoreGated(sh, gate) \/ RestoreNothing(sh, gate)
  <2>1. hist' = hist /\ reader'.pc # "restored"
    BY <1>3 DEF ReadIndex, RestoreUngated, RestoreGated, RestoreNothing, Restore, meta
  <2> QED BY <2>1, ReaderStutters
<1>4. CASE ChecksumMismatch \/ RestoreRaises
  <2>1. reader \in Restores
    BY <1>4 DEF ChecksumMismatch, RestoreRaises, StorageInd, TypeOK, Idle
  <2>2. hist' = hist /\ reader'.pc # "restored"
    BY <1>4, <2>1 DEF ChecksumMismatch, RestoreRaises, Finish, meta, Restores
  <2> QED BY <2>2, ReaderStutters
<1>5. CASE AppendEntry \/ RestoreSucceeds \/ Restart
  BY <1>5, StoreTakes, StoreRestores, StoreRestarts
<1> QED BY <1>1, <1>2, <1>3, <1>4, <1>5 DEF Next

(* With the second thread, the disks and the restarts hidden, every step   *)
(* appends a whole checkpoint, hands one back that the gate allows, or     *)
(* does nothing the store's user can see.                                  *)
THEOREM StoreImplemented == Spec => IsCheckpointStore
<1>1. Init => Store!Init
  BY StoreInit
<1>2. StorageInd /\ [Next]_vars => [Store!Next]_(Store!vars)
  BY StoreStep
<1> QED BY <1>1, <1>2, StorageInvariant, PTL DEF Spec, IsCheckpointStore, Store!Spec
=============================================================================
