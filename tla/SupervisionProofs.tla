-------------------------- MODULE SupervisionProofs --------------------------
(***************************************************************************)
(* Theorems about Supervision: any ranks, any number of launches, of       *)
(* launchers killed and run again, and of ranks stuck in driver calls.     *)
(***************************************************************************)
EXTENDS Supervision, SequenceTheorems, TLAPS

-----------------------------------------------------------------------------
(* The invariant. *)

Conditions == Phase0 \cup Phase1
Ended      == {"returned", "raised", "killed"}
Pcs        == {"waiting", "startup", "watching", "finally"} \cup Ended
Launch     == [condition : Conditions, dir : Launches, pc : Pcs]
RankStates == {"none", "boot", "joining", "training", "stuck", "gone"}
Pc1(k)     == launches[k].pc

(* Launches come one after another, each in a directory of its own or of   *)
(* an earlier one; the ranks of one that has not begun do not exist.       *)
OneAfterAnother ==
  /\ Last <= MaxLaunches
  /\ \A k \in 1..Last : /\ k < Last => Pc1(k) \in Ended
                        /\ launches[k].dir <= k
  /\ \A k \in Launches : k > Last => \A r \in Ranks : rank[k][r] = "none"

(* The ranks of a launch that has returned are dead or stuck.              *)
ReturnedIsDead ==
  \A k \in 1..Last : Pc1(k) = "returned" =>
    \A r \in Ranks : /\ rank[k][r] \in {"none", "stuck", "gone"}
                     /\ rank[k][r] = "stuck" => <<k, r>> \in condemned

(* Those of one whose launcher was killed have a GPU or are orphans.       *)
KilledIsOrphan ==
  \A k \in 1..Last : Pc1(k) = "killed" =>
    \A r \in Ranks : rank[k][r] \in {"boot", "joining"} => <<k, r>> \in orphans

(* One that raised before every rank was started never trains.             *)
RaisedIsShort ==
  \A k \in 1..Last : Pc1(k) = "raised" =>
    /\ \E r \in Ranks : rank[k][r] = "none"
    /\ \A r \in Ranks : ~HoldsGpu(k, r)

(* Past the preflight of GPU r, no rank of an earlier launch is on it but  *)
(* an orphan.                                                              *)
PastPreflight ==
  \A j, k \in Launches : \A r \in Ranks :
    j < k /\ HoldsGpu(j, r) /\ rank[k][r] \in {"joining", "training", "stuck"}
      => <<j, r>> \in orphans

RankInv == ReturnedIsDead /\ KilledIsOrphan /\ RaisedIsShort /\ PastPreflight

(* A sampler runs until it is told to stop, or crashes.                    *)
FilesInv ==
  /\ stopFile \subseteq 1..Last
  /\ \A k \in 1..Last :
       (k \in stopFile /\ launches[k].dir = k) => Pc1(k) \in {"finally"} \cup Ended
  /\ adopted \subseteq 1..Last /\ \A k \in adopted : Pc1(k) = "killed"
  /\ SamplerCovers

SupervisionInd == TypeOK /\ OneAfterAnother /\ RankInv /\ FilesInv

-----------------------------------------------------------------------------
(* What a step does to launches and ranks. *)

LEMMA LaunchTypes ==
  ASSUME TypeOK
  PROVE  /\ Last \in Nat /\ launches \in Seq(Launch)
         /\ \A k \in 1..Last : launches[k] \in Launch /\ Pc1(k) \in Pcs
         /\ rank \in [Launches -> [Ranks -> RankStates]]
         /\ MaxLaunches \in Nat
<1>1. launches \in Seq(Launch)
  BY DEF TypeOK, Launch, Conditions, Pcs, Ended
<1>2. Last \in Nat /\ \A k \in 1..Last : launches[k] \in Launch
  BY <1>1 DEF Last
<1>3. \A k \in 1..Last : Pc1(k) \in Pcs
  BY <1>2 DEF Launch, Pc1
<1> QED BY <1>1, <1>2, <1>3, SupervisionAssumption DEF TypeOK, RankStates

LEMMA GotoFacts ==
  ASSUME TypeOK, NEW k \in 1..Last, NEW l \in Pcs, Goto(k, l)
  PROVE  /\ launches' \in Seq(Launch) /\ Len(launches') = Last
         /\ \A j \in 1..Last : /\ launches'[j].pc = IF j = k THEN l ELSE launches[j].pc
                               /\ launches'[j].dir = launches[j].dir
<1> DEFINE new == [launches[k] EXCEPT !.pc = l]
<1>1. launches \in Seq(Launch) /\ launches[k] \in Launch
  BY LaunchTypes
<1>2. new \in Launch /\ new.pc = l /\ new.dir = launches[k].dir
  BY <1>1 DEF Launch
<1>3. launches' = [launches EXCEPT ![k] = new]
  BY DEF Goto
<1> HIDE DEF new
<1>4. /\ launches' \in Seq(Launch) /\ Len(launches') = Len(launches)
      /\ \A j \in 1..Len(launches) : launches'[j] = IF j = k THEN new ELSE launches[j]
  BY <1>1, <1>2, <1>3, ExceptSeq DEF Last
<1> QED BY <1>2, <1>4 DEF Last

LEMMA BecomeFacts ==
  ASSUME TypeOK, NEW k \in Launches, NEW r \in Ranks, NEW s \in RankStates, Become(k, r, s)
  PROVE  /\ rank' \in [Launches -> [Ranks -> RankStates]]
         /\ rank'[k][r] = s
         /\ \A j \in Launches, q \in Ranks : j # k \/ q # r => rank'[j][q] = rank[j][q]
<1>1. rank \in [Launches -> [Ranks -> RankStates]]
  BY LaunchTypes
<1>2. rank' = [rank EXCEPT ![k] = [rank[k] EXCEPT ![r] = s]]
  BY DEF Become
<1> QED BY <1>1, <1>2

(* Only a rank stuck in a driver call outlives SIGTERM.                    *)
LEMMA TermFacts ==
  ASSUME TypeOK, NEW k \in Launches, SigTerm(k)
  PROVE  /\ rank' \in [Launches -> [Ranks -> RankStates]]
         /\ \A r \in Ranks : rank'[k][r] = IF rank[k][r] \in {"none", "stuck", "gone"}
                                           THEN rank[k][r] ELSE "gone"
         /\ \A j \in Launches : j # k => rank'[j] = rank[j]
<1>1. rank \in [Launches -> [Ranks -> RankStates]]
  BY LaunchTypes
<1>2. rank' = [rank EXCEPT ![k] = Terminated(k)]
  BY DEF SigTerm
<1>3. \A r \in Ranks : Terminated(k)[r] = IF rank[k][r] \in {"none", "stuck", "gone"}
                                          THEN rank[k][r] ELSE "gone"
  BY DEF Terminated, Live, Stuck
<1>4. Terminated(k) \in [Ranks -> RankStates]
  BY <1>1 DEF Terminated, RankStates
<1> HIDE DEF RankStates
<1> QED BY <1>1, <1>2, <1>3, <1>4

(* What a rank may do in a step that neither starts a launch nor lets one  *)
(* train: nothing, end, pass the preflight or get stuck.                   *)
Advances(j, r) ==
  \/ rank'[j][r] = rank[j][r]
  \/ rank[j][r] # "none" /\ rank'[j][r] = "gone"
  \/ rank[j][r] = "boot" /\ rank'[j][r] = "joining" /\ \A i \in Launches : ~HoldsGpu(i, r)
  \/ rank[j][r] = "training" /\ rank'[j][r] = "stuck"

(* What its launcher may do: only the last moves, not once it has ended,   *)
(* and it returns from ranks that are dead or condemned.                   *)
Moves(j) ==
  \/ launches'[j].pc = launches[j].pc
  \/ /\ j = Last /\ Pc1(j) \notin Ended
     /\ launches'[j].pc \in Pcs \ {"raised"}
     /\ Pc1(j) = "finally" => launches'[j].pc \in Ended
     /\ launches'[j].pc = "returned" =>
          \A r \in Ranks : /\ rank'[j][r] \in {"none", "stuck", "gone"}
                           /\ rank'[j][r] = "stuck" => <<j, r>> \in condemned'
     /\ launches'[j].pc = "killed" =>
          \A r \in Ranks : rank'[j][r] \in {"boot", "joining"} => <<j, r>> \in orphans'

Goes == /\ Len(launches') = Last
        /\ \A j \in 1..Last : Moves(j) /\ launches'[j].dir = launches[j].dir
        /\ \A j \in Launches, r \in Ranks :
             /\ Advances(j, r)
             /\ <<j, r>> \in condemned => <<j, r>> \in condemned' \/ rank'[j][r] = "gone"
        /\ orphans \subseteq orphans'

(* What may become of its files: the last launch alone writes its stop     *)
(* file, as it ends, and loses its sampler then or by an error.            *)
Files == /\ \A d \in stopFile' \ stopFile : \E k \in 1..Last :
              k = Last /\ d = launches[k].dir /\ launches'[k].pc \in {"finally"} \cup Ended
         /\ \A a \in adopted' \ adopted : a \in 1..Last /\ a = Last /\ launches'[a].pc = "killed"
         /\ \A k \in 1..Last :
              k = Last /\ launches'[k].pc = "watching" /\ launches[k].dir = k
                => k \in sampler' \/ crashed'

LEMMA GoesKeeps ==
  ASSUME SupervisionInd, Goes
  PROVE  (OneAfterAnother /\ RankInv)'
<1>0. Last' = Last /\ Last \in Nat /\ Last <= MaxLaunches /\ 1..Last \subseteq Launches
      /\ MaxLaunches \in Nat
  BY LaunchTypes DEF Goes, Last, SupervisionInd, OneAfterAnother, Launches
<1>1. OneAfterAnother'
  <2>1. \A k \in 1..Last : (k < Last => launches'[k].pc \in Ended) /\ launches'[k].dir <= k
    BY <1>0 DEF SupervisionInd, OneAfterAnother, Goes, Moves, Pc1
  <2>2. \A k \in Launches : k > Last => \A r \in Ranks : rank'[k][r] = "none"
    <3> SUFFICES ASSUME NEW k \in Launches, k > Last, NEW r \in Ranks
                 PROVE  rank'[k][r] = "none"
      OBVIOUS
    <3>1. rank[k][r] = "none"
      BY DEF SupervisionInd, OneAfterAnother
    <3>2. Advances(k, r)
      BY DEF Goes
    <3> QED BY <3>1, <3>2 DEF Advances
  <2> QED BY <1>0, <2>1, <2>2 DEF OneAfterAnother, Pc1
<1>2. ReturnedIsDead'
  <2> SUFFICES ASSUME NEW k \in 1..Last, launches'[k].pc = "returned", NEW r \in Ranks
               PROVE  /\ rank'[k][r] \in {"none", "stuck", "gone"}
                      /\ rank'[k][r] = "stuck" => <<k, r>> \in condemned'
    BY <1>0 DEF ReturnedIsDead, Pc1
  <2>1. CASE launches[k].pc = "returned"
    <3>1. /\ rank[k][r] \in {"none", "stuck", "gone"}
          /\ rank[k][r] = "stuck" => <<k, r>> \in condemned
      BY <2>1 DEF SupervisionInd, RankInv, ReturnedIsDead, Pc1
    <3>2. /\ Advances(k, r)
          /\ <<k, r>> \in condemned => <<k, r>> \in condemned' \/ rank'[k][r] = "gone"
      BY <1>0 DEF Goes
    <3> QED BY <3>1, <3>2 DEF Advances
  <2>2. CASE launches[k].pc # "returned"
    BY <2>2 DEF Goes, Moves
  <2> QED BY <2>1, <2>2
<1>3. KilledIsOrphan'
  <2> SUFFICES ASSUME NEW k \in 1..Last, launches'[k].pc = "killed", NEW r \in Ranks,
                      rank'[k][r] \in {"boot", "joining"}
               PROVE  <<k, r>> \in orphans'
    BY <1>0 DEF KilledIsOrphan, Pc1
  <2>1. CASE launches[k].pc = "killed"
    <3>1. Advances(k, r)
      BY <1>0 DEF Goes
    <3>2. rank[k][r] \in {"boot", "joining"}
      BY <3>1 DEF Advances
    <3> QED BY <2>1, <3>2 DEF SupervisionInd, RankInv, KilledIsOrphan, Pc1, Goes
  <2>2. CASE launches[k].pc # "killed"
    BY <2>2 DEF Goes, Moves
  <2> QED BY <2>1, <2>2
<1>4. RaisedIsShort'
  <2> SUFFICES ASSUME NEW k \in 1..Last, launches'[k].pc = "raised"
               PROVE  /\ \E r \in Ranks : rank'[k][r] = "none"
                      /\ \A r \in Ranks : ~(rank'[k][r] \in {"training", "stuck"})
    BY <1>0 DEF RaisedIsShort, Pc1, HoldsGpu
  <2>1. launches[k].pc = "raised"
    BY DEF Goes, Moves
  <2>2. /\ \E r \in Ranks : rank[k][r] = "none"
        /\ \A r \in Ranks : ~(rank[k][r] \in {"training", "stuck"})
    BY <2>1 DEF SupervisionInd, RankInv, RaisedIsShort, Pc1, HoldsGpu
  <2>3. \A r \in Ranks : Advances(k, r)
    BY <1>0 DEF Goes
  <2> QED BY <2>2, <2>3 DEF Advances
<1>5. PastPreflight'
  <2> SUFFICES ASSUME NEW j \in Launches, NEW k \in Launches, NEW r \in Ranks, j < k,
                      rank'[j][r] \in {"training", "stuck"},
                      rank'[k][r] \in {"joining", "training", "stuck"}
               PROVE  <<j, r>> \in orphans'
    BY DEF PastPreflight, HoldsGpu
  <2>1. Advances(j, r) /\ Advances(k, r)
    BY DEF Goes
  <2>2. HoldsGpu(j, r)
    BY <2>1 DEF Advances, HoldsGpu
  <2>3. rank[k][r] \in {"joining", "training", "stuck"}
    BY <2>1, <2>2 DEF Advances
  <2> QED BY <2>2, <2>3 DEF SupervisionInd, RankInv, PastPreflight, Goes
<1> QED BY <1>1, <1>2, <1>3, <1>4, <1>5 DEF RankInv

LEMMA FilesKeep ==
  ASSUME SupervisionInd, Goes, Files
  PROVE  FilesInv'
<1>0. Last' = Last /\ Last \in Nat
  BY LaunchTypes DEF Goes, Last, SupervisionInd
<1>a. \A k \in 1..Last : /\ launches[k].dir \in 1..k
                         /\ k < Last => Pc1(k) \in Ended
                         /\ launches[k] \in Launch
  <2>1. \A k \in 1..Last : launches[k] \in Launch
    BY LaunchTypes DEF SupervisionInd
  <2>2. \A k \in 1..Last : launches[k].dir \in Nat /\ launches[k].dir >= 1
    BY <2>1 DEF Launch, Launches
  <2> QED BY <2>1, <2>2 DEF SupervisionInd, OneAfterAnother
<1>1. stopFile' \subseteq 1..Last
  <2> SUFFICES ASSUME NEW d \in stopFile', d \notin stopFile
               PROVE  d \in 1..Last
    BY DEF SupervisionInd, FilesInv
  <2>1. PICK k \in 1..Last : d = launches[k].dir
    BY DEF Files
  <2>2. launches[k].dir \in 1..k
    BY <1>a
  <2> QED BY <1>0, <2>1, <2>2
<1>2. ASSUME NEW k \in 1..Last, k \in stopFile', launches[k].dir = k
      PROVE  launches'[k].pc \in {"finally"} \cup Ended
  <2>1. CASE k \in stopFile
    <3>1. Pc1(k) \in {"finally"} \cup Ended
      BY <1>2, <2>1 DEF SupervisionInd, FilesInv
    <3> QED BY <3>1 DEF Goes, Moves, Pc1
  <2>2. CASE k \notin stopFile
    <3>1. PICK j \in 1..Last : /\ j = Last /\ k = launches[j].dir
                               /\ launches'[j].pc \in {"finally"} \cup Ended
      BY <1>2, <2>2 DEF Files
    <3>2. CASE k = Last
      BY <3>1, <3>2
    <3>3. CASE k # Last
      <4>1. Pc1(k) \in Ended
        BY <1>0, <1>a, <3>3
      <4> QED BY <4>1 DEF Goes, Moves, Pc1
    <3> QED BY <3>2, <3>3
  <2> QED BY <2>1, <2>2
<1>3. ASSUME NEW k \in adopted' PROVE k \in 1..Last /\ launches'[k].pc = "killed"
  <2>1. CASE k \in adopted
    <3>1. k \in 1..Last /\ Pc1(k) = "killed"
      BY <2>1 DEF SupervisionInd, FilesInv
    <3> QED BY <3>1 DEF Goes, Moves, Pc1, Ended
  <2> QED BY <2>1 DEF Files
<1>4. SamplerCovers'
  BY <1>0 DEF Files, SamplerCovers, Pc, Goes
<1> QED BY <1>0, <1>1, <1>2, <1>3, <1>4 DEF FilesInv, Pc1, Goes

-----------------------------------------------------------------------------
(* Parts of a step. *)

LEMMA LaunchesStay ==
  ASSUME UNCHANGED launches
  PROVE  /\ Len(launches') = Last
         /\ \A j \in 1..Last : Moves(j) /\ launches'[j].dir = launches[j].dir
BY DEF Last, Moves

LEMMA RanksStay ==
  ASSUME UNCHANGED <<rank, condemned>>
  PROVE  \A j \in Launches, r \in Ranks :
             /\ Advances(j, r)
             /\ <<j, r>> \in condemned => <<j, r>> \in condemned' \/ rank'[j][r] = "gone"
BY DEF Advances

LEMMA FilesStay ==
  ASSUME SupervisionInd, Goes, UNCHANGED <<stopFile, adopted, crashed>>,
         \A k \in 1..Last : Pc1(k) # "watching" => launches'[k].pc # "watching",
         sampler' = sampler
  PROVE  Files
BY DEF Files, SupervisionInd, FilesInv, SamplerCovers, Pc, Pc1, Goes

LEMMA TermAdvances ==
  ASSUME TypeOK, NEW k \in Launches, SigTerm(k)
  PROVE  \A j \in Launches, r \in Ranks : Advances(j, r)
<1> SUFFICES ASSUME NEW j \in Launches, NEW r \in Ranks PROVE Advances(j, r)
  OBVIOUS
<1>1. CASE j = k
  <2>1. rank'[k][r] = IF rank[k][r] \in {"none", "stuck", "gone"} THEN rank[k][r] ELSE "gone"
    BY TermFacts
  <2> QED BY <1>1, <2>1 DEF Advances
<1>2. CASE j # k
  BY <1>2, TermFacts DEF Advances
<1> QED BY <1>1, <1>2

(* What SIGKILL leaves of a launch is stuck and condemned.                 *)
LEMMA KillFacts ==
  ASSUME TypeOK, NEW k \in Launches, SigKill(k)
  PROVE  /\ rank' \in [Launches -> [Ranks -> RankStates]]
         /\ condemned' \subseteq Launches \X Ranks
         /\ \A r \in Ranks : /\ rank'[k][r] \in {"none", "stuck", "gone"}
                             /\ rank'[k][r] = "stuck" => <<k, r>> \in condemned'
         /\ \A j \in Launches, r \in Ranks :
              /\ Advances(j, r)
              /\ <<j, r>> \in condemned => <<j, r>> \in condemned' \/ rank'[j][r] = "gone"
<1>1. SigTerm(k) /\ condemned' = condemned \cup ({k} \X Stuck(k))
  BY DEF SigKill
<1>2. Stuck(k) \subseteq Ranks
  BY DEF Stuck
<1>3. \A r \in Ranks : rank'[k][r] = IF rank[k][r] \in {"none", "stuck", "gone"}
                                     THEN rank[k][r] ELSE "gone"
  BY <1>1, TermFacts
<1>4. ASSUME NEW r \in Ranks
      PROVE  /\ rank'[k][r] \in {"none", "stuck", "gone"}
             /\ rank'[k][r] = "stuck" => <<k, r>> \in condemned'
  <2>1. rank'[k][r] = "stuck" => r \in Stuck(k)
    BY <1>3 DEF Stuck
  <2> QED BY <1>1, <1>3, <2>1
<1>5. condemned' \subseteq Launches \X Ranks
  BY <1>1, <1>2 DEF TypeOK
<1> QED BY <1>1, <1>4, <1>5, TermFacts, TermAdvances

LEMMA TypesKept ==
  ASSUME launches' \in Seq(Launch), rank' \in [Launches -> [Ranks -> RankStates]],
         condemned' \subseteq Launches \X Ranks, orphans' \subseteq Launches \X Ranks,
         sampler' \subseteq Launches, adopted' \subseteq sampler',
         stopFile' \subseteq Launches, stepLog' \subseteq Launches, crashed' \in BOOLEAN
  PROVE  TypeOK'
BY DEF TypeOK, Launch, Conditions, Pcs, Ended, RankStates

(* The files of a launch are in a directory.                               *)
LEMMA InRange ==
  ASSUME SupervisionInd, NEW k \in 1..Last
  PROVE  k \in Launches /\ launches[k].dir \in Launches /\ Last \in Nat
<1>1. Last \in Nat /\ Last <= MaxLaunches /\ MaxLaunches \in Nat /\ launches[k] \in Launch
  BY LaunchTypes DEF SupervisionInd, OneAfterAnother
<1> QED BY <1>1 DEF Launch, Launches

-----------------------------------------------------------------------------
(* The steps of a launcher. *)

LEMMA RunAndReapStep ==
  ASSUME SupervisionInd, NEW k \in 1..Last, RunAndReap(k)
  PROVE  TypeOK' /\ Goes /\ Files
<1>0. TypeOK /\ k \in Launches /\ k = Last /\ launches[k].pc = "waiting"
      /\ UNCHANGED <<sampler, adopted, stopFile, stepLog, orphans, crashed>>
  BY InRange DEF SupervisionInd, RunAndReap, Pc
<1>1. Goto(k, "returned") /\ SigKill(k) /\ "returned" \in Pcs
  BY DEF RunAndReap, Pcs, Ended
<1>2. /\ launches' \in Seq(Launch) /\ Len(launches') = Last
      /\ \A j \in 1..Last : /\ launches'[j].pc = IF j = k THEN "returned" ELSE launches[j].pc
                            /\ launches'[j].dir = launches[j].dir
  BY <1>0, <1>1, GotoFacts
<1>3. \A j \in 1..Last : Moves(j)
  BY <1>0, <1>1, <1>2, KillFacts DEF Moves, Pc1, Ended, Pcs
<1>4. Goes
  BY <1>0, <1>1, <1>2, <1>3, KillFacts DEF Goes
<1>5. Files
  BY <1>0, <1>2, <1>4, FilesStay DEF Pc1
<1>6. TypeOK'
  BY <1>0, <1>1, <1>2, KillFacts, TypesKept DEF TypeOK
<1> QED BY <1>4, <1>5, <1>6

LEMMA StartSamplerStep ==
  ASSUME SupervisionInd, NEW k \in 1..Last, StartSampler(k)
  PROVE  TypeOK' /\ Goes /\ Files
<1>0. TypeOK /\ k \in Launches /\ k = Last /\ launches[k].pc = "startup"
      /\ UNCHANGED <<rank, condemned, adopted, stopFile, stepLog, orphans, crashed>>
      /\ sampler' = sampler \cup {k}
  BY InRange DEF SupervisionInd, StartSampler, Pc
<1>1. Goto(k, "watching") /\ "watching" \in Pcs
  BY DEF StartSampler, Pcs
<1>2. /\ launches' \in Seq(Launch) /\ Len(launches') = Last
      /\ \A j \in 1..Last : /\ launches'[j].pc = IF j = k THEN "watching" ELSE launches[j].pc
                            /\ launches'[j].dir = launches[j].dir
  BY <1>0, <1>1, GotoFacts
<1>3. \A j \in 1..Last : Moves(j)
  BY <1>0, <1>1, <1>2 DEF Moves, Pc1, Ended
<1>4. Goes
  BY <1>0, <1>2, <1>3, RanksStay DEF Goes
<1>5. Files
  BY <1>0, <1>2 DEF Files
<1>6. TypeOK'
  BY <1>0, <1>2, LaunchTypes, TypesKept DEF TypeOK
<1> QED BY <1>4, <1>5, <1>6

LEMMA ToFinallyStep ==
  ASSUME SupervisionInd, NEW k \in 1..Last, StartupFails(k) \/ Raise(k)
  PROVE  TypeOK' /\ Goes /\ Files
<1>0. TypeOK /\ k \in Launches /\ k = Last /\ launches[k].pc \in {"startup", "watching"}
      /\ UNCHANGED <<rank, condemned, sampler, adopted, stopFile, stepLog, orphans, crashed>>
  BY InRange DEF SupervisionInd, StartupFails, Raise, Pc
<1>1. Goto(k, "finally") /\ "finally" \in Pcs
  BY DEF StartupFails, Raise, Pcs
<1>2. /\ launches' \in Seq(Launch) /\ Len(launches') = Last
      /\ \A j \in 1..Last : /\ launches'[j].pc = IF j = k THEN "finally" ELSE launches[j].pc
                            /\ launches'[j].dir = launches[j].dir
  BY <1>0, <1>1, GotoFacts
<1>3. \A j \in 1..Last : Moves(j)
  BY <1>0, <1>1, <1>2 DEF Moves, Pc1, Ended
<1>4. Goes
  BY <1>0, <1>2, <1>3, RanksStay DEF Goes
<1>5. Files
  BY <1>0, <1>2, <1>4, FilesStay DEF Pc1
<1>6. TypeOK'
  BY <1>0, <1>2, LaunchTypes, TypesKept DEF TypeOK
<1> QED BY <1>4, <1>5, <1>6

(* The stop file is touched as the watching ends, and again in finally.    *)
LEMMA StopStep ==
  ASSUME SupervisionInd, NEW k \in 1..Last, RanksOver(k) \/ Finally(k)
  PROVE  TypeOK' /\ Goes /\ Files
<1> DEFINE l == IF RanksOver(k) THEN "finally" ELSE "returned"
<1>0. /\ TypeOK /\ k \in Launches /\ k = Last /\ launches[k].dir \in Launches
      /\ launches[k].pc \in {"watching", "finally"}
      /\ launches[k].pc = "finally" => l = "returned"
      /\ UNCHANGED <<adopted, stepLog, orphans, crashed>>
      /\ stopFile' = stopFile \cup {launches[k].dir}
      /\ sampler' \in {sampler, sampler \ {k}}
  BY InRange DEF SupervisionInd, RanksOver, Finally, Pc
<1>1. Goto(k, l) /\ SigKill(k) /\ l \in Pcs /\ l \in {"finally", "returned"}
  BY DEF RanksOver, Finally, Pcs, Ended
<1> HIDE DEF l
<1>2. /\ launches' \in Seq(Launch) /\ Len(launches') = Last
      /\ \A j \in 1..Last : /\ launches'[j].pc = IF j = k THEN l ELSE launches[j].pc
                            /\ launches'[j].dir = launches[j].dir
  BY <1>0, <1>1, GotoFacts
<1>3. \A j \in 1..Last : Moves(j)
  BY <1>0, <1>1, <1>2, KillFacts DEF Moves, Pc1, Ended
<1>4. Goes
  BY <1>0, <1>1, <1>2, <1>3, KillFacts DEF Goes
<1>5. Files
  BY <1>0, <1>1, <1>2 DEF Files, Ended
<1>6. TypeOK'
  <2>1. k \notin adopted
    BY <1>0 DEF SupervisionInd, FilesInv, Pc1
  <2> QED BY <1>0, <1>1, <1>2, <2>1, KillFacts, TypesKept DEF TypeOK
<1> QED BY <1>4, <1>5, <1>6

LEMMA LauncherKilledStep ==
  ASSUME SupervisionInd, NEW k \in 1..Last, LauncherKilled(k)
  PROVE  TypeOK' /\ Goes /\ Files
<1>0. /\ TypeOK /\ k \in Launches /\ k = Last /\ launches[k].pc \notin Ended
      /\ UNCHANGED <<rank, condemned, sampler, stopFile, stepLog, crashed>>
      /\ adopted' \in {adopted, adopted \cup ({k} \cap sampler)}
  BY InRange DEF SupervisionInd, LauncherKilled, Ended
<1>1. Goto(k, "killed") /\ "killed" \in Pcs
  BY DEF LauncherKilled, Pcs, Ended
<1>2. /\ launches' \in Seq(Launch) /\ Len(launches') = Last
      /\ \A j \in 1..Last : /\ launches'[j].pc = IF j = k THEN "killed" ELSE launches[j].pc
                            /\ launches'[j].dir = launches[j].dir
  BY <1>0, <1>1, GotoFacts
<1>3. \A r \in Ranks : rank'[k][r] \in {"boot", "joining"} => <<k, r>> \in orphans'
  <2> SUFFICES ASSUME NEW r \in Ranks, rank[k][r] \in {"boot", "joining"}
               PROVE  <<k, r>> \in orphans'
    BY <1>0
  <2>1. r \in {q \in Live(k) : ~HoldsGpu(k, q)}
    BY DEF Live, HoldsGpu
  <2> QED BY <2>1 DEF LauncherKilled
<1>4. \A j \in 1..Last : Moves(j)
  BY <1>0, <1>1, <1>2, <1>3 DEF Moves, Pc1, Ended
<1>5. orphans \subseteq orphans' /\ orphans' \subseteq Launches \X Ranks
  BY <1>0 DEF LauncherKilled, TypeOK, Live
<1>6. Goes
  BY <1>0, <1>2, <1>4, <1>5, RanksStay DEF Goes
<1>7. Files
  <2>1. \A a \in adopted' \ adopted : a = k
    BY <1>0
  <2>2. \A j \in 1..Last : launches'[j].pc = "watching" => launches[j].pc = "watching"
    BY <1>2
  <2> QED BY <1>0, <1>2, <2>1, <2>2 DEF Files, SupervisionInd, FilesInv, SamplerCovers, Pc
<1>8. TypeOK'
  <2>1. adopted' \subseteq sampler'
    BY <1>0 DEF TypeOK
  <2> QED BY <1>0, <1>2, <1>5, <2>1, LaunchTypes, TypesKept DEF TypeOK
<1> QED BY <1>6, <1>7, <1>8

(* The sampler of a launch that is watched in a directory of its own has   *)
(* no reason to exit.                                                      *)
LEMMA SamplerExitsStep ==
  ASSUME SupervisionInd, NEW k \in 1..Last, SamplerExits(k)
  PROVE  TypeOK' /\ Goes /\ Files
<1>0. /\ TypeOK /\ MustStop(k)
      /\ sampler' = sampler \ {k} /\ adopted' = adopted \ {k}
      /\ UNCHANGED <<launches, rank, condemned, stopFile, stepLog, orphans, crashed>>
  BY DEF SupervisionInd, SamplerExits
<1>1. Goes
  BY <1>0, LaunchesStay, RanksStay DEF Goes
<1>2. ~(k = Last /\ launches[k].pc = "watching" /\ launches[k].dir = k)
  BY <1>0 DEF MustStop, SupervisionInd, FilesInv, Pc1, Ended
<1>3. Files
  BY <1>0, <1>2 DEF Files, SupervisionInd, FilesInv, SamplerCovers, Pc
<1>4. TypeOK'
  BY <1>0, LaunchTypes, TypesKept DEF TypeOK
<1> QED BY <1>1, <1>3, <1>4

(* One that crashes is known to have.                                      *)
LEMMA SamplerCrashesStep ==
  ASSUME SupervisionInd, NEW k \in 1..Last, SamplerCrashes(k)
  PROVE  TypeOK' /\ Goes /\ Files
<1>0. /\ TypeOK
      /\ sampler' = sampler \ {k} /\ adopted' = adopted \ {k}
      /\ crashed' \in BOOLEAN /\ (crashed \/ k = Last => crashed')
      /\ UNCHANGED <<launches, rank, condemned, stopFile, stepLog, orphans>>
  BY DEF SupervisionInd, SamplerCrashes, TypeOK
<1>1. Goes
  BY <1>0, LaunchesStay, RanksStay DEF Goes
<1>2. Files
  BY <1>0 DEF Files, SupervisionInd, FilesInv, SamplerCovers, Pc
<1>3. TypeOK'
  BY <1>0, LaunchTypes, TypesKept DEF TypeOK
<1> QED BY <1>1, <1>2, <1>3

-----------------------------------------------------------------------------
(* The steps of a rank. *)

LEMMA RankStep ==
  ASSUME SupervisionInd, NEW k \in 1..Last, NEW r \in Ranks,
         Preflight(k, r) \/ Wedge(k, r) \/ Exit(k, r)
  PROVE  TypeOK' /\ Goes /\ Files
<1>0. /\ TypeOK /\ k \in Launches
      /\ UNCHANGED <<launches, sampler, adopted, stopFile, stepLog, orphans, crashed>>
      /\ condemned' \in {condemned, condemned \ {<<k, r>>}}
  BY InRange DEF SupervisionInd, Preflight, Wedge, Exit
<1>1. \E t \in RankStates : Become(k, r, t)
  BY DEF Preflight, Wedge, Exit, RankStates
<1>2. /\ rank' \in [Launches -> [Ranks -> RankStates]]
      /\ \A j \in Launches, q \in Ranks : j # k \/ q # r => rank'[j][q] = rank[j][q]
  BY <1>0, <1>1, BecomeFacts
<1>3. Advances(k, r) /\ (condemned' # condemned => rank'[k][r] = "gone")
  <2>1. CASE Preflight(k, r)
    <3>1. CASE \E j \in Launches : HoldsGpu(j, r)
      <4>1. Become(k, r, "gone") /\ "gone" \in RankStates
        BY <2>1, <3>1 DEF Preflight, RankStates
      <4> QED BY <1>0, <2>1, <4>1, BecomeFacts DEF Preflight, Advances
    <3>2. CASE ~\E j \in Launches : HoldsGpu(j, r)
      <4>1. Become(k, r, "joining") /\ "joining" \in RankStates
        BY <2>1, <3>2 DEF Preflight, RankStates
      <4> QED BY <1>0, <2>1, <3>2, <4>1, BecomeFacts DEF Preflight, Advances
    <3> QED BY <3>1, <3>2
  <2>2. CASE Wedge(k, r)
    <3>1. Become(k, r, "stuck") /\ "stuck" \in RankStates
      BY <2>2 DEF Wedge, RankStates
    <3> QED BY <1>0, <2>2, <3>1, BecomeFacts DEF Wedge, Advances
  <2>3. CASE Exit(k, r)
    <3>1. Become(k, r, "gone") /\ "gone" \in RankStates
      BY <2>3 DEF Exit, RankStates
    <3> QED BY <1>0, <2>3, <3>1, BecomeFacts DEF Exit, Advances
  <2> QED BY <2>1, <2>2, <2>3
<1>4. ASSUME NEW j \in Launches, NEW q \in Ranks
      PROVE  /\ Advances(j, q)
             /\ <<j, q>> \in condemned => <<j, q>> \in condemned' \/ rank'[j][q] = "gone"
  <2>1. CASE j = k /\ q = r
    BY <1>0, <1>3, <2>1
  <2>2. CASE ~(j = k /\ q = r)
    BY <1>0, <1>2, <2>2 DEF Advances
  <2> QED BY <2>1, <2>2
<1>5. Goes
  BY <1>0, <1>4, LaunchesStay DEF Goes
<1>6. Files
  BY <1>0, <1>5, FilesStay DEF Pc1
<1>7. TypeOK'
  BY <1>0, <1>2, LaunchTypes, TypesKept DEF TypeOK
<1> QED BY <1>5, <1>6, <1>7

LEMMA AgentSweepsStep ==
  ASSUME SupervisionInd, NEW k \in 1..Last, AgentSweeps(k)
  PROVE  TypeOK' /\ Goes /\ Files
<1>0. /\ TypeOK /\ k \in Launches /\ SigTerm(k)
      /\ UNCHANGED <<launches, condemned, sampler, adopted, stopFile, stepLog, orphans, crashed>>
  BY InRange DEF SupervisionInd, AgentSweeps
<1>1. Goes
  BY <1>0, LaunchesStay, TermAdvances DEF Goes
<1>2. Files
  BY <1>0, <1>1, FilesStay DEF Pc1
<1>3. TypeOK'
  BY <1>0, LaunchTypes, TermFacts, TypesKept DEF TypeOK
<1> QED BY <1>1, <1>2, <1>3

(* The ranks of an ended launch that all join are those of one that lost   *)
(* its launcher: the earlier launch trains beside a later one only then.   *)
LEMMA TrainStep ==
  ASSUME SupervisionInd, NEW k \in 1..Last, Train(k)
  PROVE  SupervisionInd'
<1>0. /\ TypeOK /\ k \in Launches /\ launches[k].dir \in Launches /\ Last \in Nat
      /\ UNCHANGED <<launches, condemned, sampler, adopted, stopFile, orphans, crashed>>
      /\ stepLog' = stepLog \cup {launches[k].dir}
      /\ rank \in [Launches -> [Ranks -> RankStates]]
  BY InRange, LaunchTypes DEF SupervisionInd, Train
<1>1. /\ \A r \in Ranks : rank[k][r] = "joining"
      /\ rank' \in [Launches -> [Ranks -> RankStates]]
      /\ \A j \in Launches, r \in Ranks :
           rank'[j][r] = IF j = k THEN "training" ELSE rank[j][r]
  <2>1. rank' = [rank EXCEPT ![k] = [r \in Ranks |-> "training"]]
    BY DEF Train
  <2>2. [r \in Ranks |-> "training"] \in [Ranks -> RankStates]
    BY DEF RankStates
  <2> HIDE DEF RankStates
  <2> QED BY <1>0, <2>1, <2>2 DEF Train
<1>2. TypeOK'
  BY <1>0, <1>1, LaunchTypes, TypesKept DEF TypeOK
<1>3. OneAfterAnother'
  <2>1. ASSUME NEW j \in Launches, j > Last, NEW r \in Ranks PROVE rank'[j][r] = "none"
    BY <1>0, <1>1, <2>1 DEF SupervisionInd, OneAfterAnother
  <2> QED BY <1>0, <2>1 DEF SupervisionInd, OneAfterAnother, Last, Pc1
<1>4. ReturnedIsDead'
  <2> SUFFICES ASSUME NEW j \in 1..Last, Pc1(j) = "returned", NEW r \in Ranks
               PROVE  /\ rank'[j][r] \in {"none", "stuck", "gone"}
                      /\ rank'[j][r] = "stuck" => <<j, r>> \in condemned
    BY <1>0 DEF ReturnedIsDead, Pc1, Last
  <2>1. /\ rank[j][r] \in {"none", "stuck", "gone"}
        /\ rank[j][r] = "stuck" => <<j, r>> \in condemned
    BY DEF SupervisionInd, RankInv, ReturnedIsDead
  <2>2. j \in Launches
    BY InRange
  <2> QED BY <1>1, <2>1, <2>2
<1>5. KilledIsOrphan'
  <2> SUFFICES ASSUME NEW j \in 1..Last, Pc1(j) = "killed", NEW r \in Ranks,
                      rank'[j][r] \in {"boot", "joining"}
               PROVE  <<j, r>> \in orphans
    BY <1>0 DEF KilledIsOrphan, Pc1, Last
  <2>1. j \in Launches
    BY InRange
  <2>2. rank[j][r] \in {"boot", "joining"}
    BY <1>1, <2>1
  <2> QED BY <2>2 DEF SupervisionInd, RankInv, KilledIsOrphan
<1>6. RaisedIsShort'
  <2> SUFFICES ASSUME NEW j \in 1..Last, Pc1(j) = "raised"
               PROVE  /\ \E r \in Ranks : rank'[j][r] = "none"
                      /\ \A r \in Ranks : ~(rank'[j][r] \in {"training", "stuck"})
    BY <1>0 DEF RaisedIsShort, Pc1, Last, HoldsGpu
  <2>1. /\ \E r \in Ranks : rank[j][r] = "none"
        /\ \A r \in Ranks : ~(rank[j][r] \in {"training", "stuck"})
    BY DEF SupervisionInd, RankInv, RaisedIsShort, HoldsGpu
  <2>2. j # k /\ j \in Launches
    BY <1>1, <2>1, InRange
  <2> QED BY <1>1, <2>1, <2>2
<1>7. PastPreflight'
  <2> SUFFICES ASSUME NEW i \in Launches, NEW j \in Launches, NEW r \in Ranks, i < j,
                      rank'[i][r] \in {"training", "stuck"},
                      rank'[j][r] \in {"joining", "training", "stuck"}
               PROVE  <<i, r>> \in orphans
    BY <1>0 DEF PastPreflight, HoldsGpu
  <2>1. rank[j][r] \in {"joining", "training", "stuck"}
    BY <1>1
  <2>2. CASE i # k
    <3>1. HoldsGpu(i, r)
      BY <1>1, <2>2 DEF HoldsGpu
    <3> QED BY <2>1, <3>1 DEF SupervisionInd, RankInv, PastPreflight
  <2>3. CASE i = k
    <3>1. rank[k][r] = "joining"
      BY <1>1
    <3>2. k < Last
      <4>1. ~(j > Last)
        BY <2>1 DEF SupervisionInd, OneAfterAnother
      <4> QED BY <1>0, <2>3, <4>1 DEF Launches
    <3>3. Pc1(k) \in Ended
      BY <3>2 DEF SupervisionInd, OneAfterAnother
    <3>4. Pc1(k) # "returned"
      BY <3>1 DEF SupervisionInd, RankInv, ReturnedIsDead
    <3>5. Pc1(k) # "raised"
      BY <1>1 DEF SupervisionInd, RankInv, RaisedIsShort
    <3>6. Pc1(k) = "killed"
      BY <3>3, <3>4, <3>5 DEF Ended
    <3> QED BY <2>3, <3>1, <3>6 DEF SupervisionInd, RankInv, KilledIsOrphan
  <2> QED BY <2>2, <2>3
<1>8. FilesInv'
  BY <1>0 DEF SupervisionInd, FilesInv, SamplerCovers, Pc, Pc1, Last
<1> QED BY <1>2, <1>3, <1>4, <1>5, <1>6, <1>7, <1>8 DEF SupervisionInd, RankInv

-----------------------------------------------------------------------------
(* A new launch. *)

LEMMA BeginStep ==
  ASSUME SupervisionInd, NEW c \in Conditions, NEW p \in {"waiting", "startup", "raised"},
         NEW spawned \in SUBSET Ranks, p = "raised" => spawned # Ranks,
         Begin(c, p, spawned)
  PROVE  SupervisionInd'
<1> DEFINE n == Last + 1
           boot == [r \in Ranks |-> IF r \in spawned THEN "boot" ELSE "none"]
<1>0. /\ TypeOK /\ Last \in Nat /\ n \in Launches /\ Idle
      /\ 1..Last \subseteq Launches /\ n \notin 1..Last /\ 1..n = 1..Last \cup {n}
      /\ UNCHANGED <<condemned, sampler, adopted, stopFile, stepLog, orphans>>
      /\ crashed' = FALSE
      /\ rank \in [Launches -> [Ranks -> RankStates]]
  BY LaunchTypes DEF SupervisionInd, OneAfterAnother, Begin, Launches
<1>1. PICK d \in Dirs(c) : launches' = Append(launches, [condition |-> c, dir |-> d, pc |-> p])
  BY DEF Begin
<1>2. d \in Launches /\ d \in 1..n
  <2>1. CASE d = n
    BY <1>0, <2>1
  <2>2. CASE d # n
    <3>1. PICK k \in 1..Last : d = launches[k].dir
      BY <1>1, <2>2 DEF Dirs
    <3>2. d \in Launches /\ d <= k
      BY <3>1, InRange DEF SupervisionInd, OneAfterAnother
    <3> QED BY <1>0, <3>2 DEF Launches
  <2> QED BY <2>1, <2>2
<1> DEFINE new == [condition |-> c, dir |-> d, pc |-> p]
<1>3. new \in Launch /\ new.pc = p /\ new.dir = d
  BY <1>2 DEF Launch, Pcs, Ended
<1> HIDE DEF new
<1>4. /\ launches' \in Seq(Launch) /\ Last' = n
      /\ \A k \in 1..Last : launches'[k] = launches[k]
      /\ launches'[n] = new
  <2>1. launches' = Append(launches, new)
    BY <1>1 DEF new
  <2>2. launches \in Seq(Launch)
    BY LaunchTypes DEF SupervisionInd
  <2> QED BY <1>3, <2>1, <2>2, AppendProperties DEF Last
<1>5. /\ rank' \in [Launches -> [Ranks -> RankStates]]
      /\ \A j \in Launches : j # n => rank'[j] = rank[j]
      /\ rank'[n] = boot
  <2>1. rank' = [rank EXCEPT ![n] = boot]
    BY DEF Begin
  <2>2. boot \in [Ranks -> RankStates]
    BY DEF RankStates
  <2> HIDE DEF boot, n, RankStates
  <2> QED BY <1>0, <2>1, <2>2
<1>6. \A r \in Ranks : rank'[n][r] = IF r \in spawned THEN "boot" ELSE "none"
  BY <1>5
<1> HIDE DEF boot
<1>7. TypeOK'
  BY <1>0, <1>4, <1>5, TypesKept DEF TypeOK
<1>8. OneAfterAnother'
  <2>1. n <= MaxLaunches
    BY <1>0, LaunchTypes DEF Launches, SupervisionInd
  <2>2. ASSUME NEW k \in 1..n PROVE /\ k < n => launches'[k].pc \in Ended
                                    /\ launches'[k].dir <= k
    <3>1. CASE k = n
      BY <1>2, <1>3, <1>4, <3>1
    <3>2. CASE k # n
      <4>1. k \in 1..Last
        BY <1>0, <3>2
      <4>2. launches[k].pc \in Ended /\ launches[k].dir <= k
        BY <1>0, <4>1 DEF Idle, Ended, SupervisionInd, OneAfterAnother
      <4> QED BY <1>4, <4>1, <4>2
    <3> QED BY <3>1, <3>2
  <2>3. ASSUME NEW k \in Launches, k > n, NEW r \in Ranks PROVE rank'[k][r] = "none"
    <3>1. k > Last /\ k # n
      BY <1>0, <2>3 DEF Launches
    <3> QED BY <1>5, <3>1 DEF SupervisionInd, OneAfterAnother
  <2> QED BY <1>4, <2>1, <2>2, <2>3 DEF OneAfterAnother, Pc1
<1> HIDE DEF n
<1>9. ReturnedIsDead'
  <2> SUFFICES ASSUME NEW k \in 1..n, launches'[k].pc = "returned", NEW r \in Ranks
               PROVE  /\ rank'[k][r] \in {"none", "stuck", "gone"}
                      /\ rank'[k][r] = "stuck" => <<k, r>> \in condemned'
    BY <1>4 DEF ReturnedIsDead, Pc1
  <2>1. k \in 1..Last
    BY <1>0, <1>3, <1>4
  <2> QED BY <1>0, <1>4, <1>5, <2>1 DEF SupervisionInd, RankInv, ReturnedIsDead, Pc1
<1>10. KilledIsOrphan'
  <2> SUFFICES ASSUME NEW k \in 1..n, launches'[k].pc = "killed", NEW r \in Ranks,
                      rank'[k][r] \in {"boot", "joining"}
               PROVE  <<k, r>> \in orphans'
    BY <1>4 DEF KilledIsOrphan, Pc1
  <2>1. k \in 1..Last
    BY <1>0, <1>3, <1>4
  <2> QED BY <1>0, <1>4, <1>5, <2>1 DEF SupervisionInd, RankInv, KilledIsOrphan, Pc1
<1>11. RaisedIsShort'
  <2> SUFFICES ASSUME NEW k \in 1..n, launches'[k].pc = "raised"
               PROVE  /\ \E r \in Ranks : rank'[k][r] = "none"
                      /\ \A r \in Ranks : ~(rank'[k][r] \in {"training", "stuck"})
    BY <1>4 DEF RaisedIsShort, Pc1, HoldsGpu
  <2>1. CASE k = n
    <3>1. \E r \in Ranks : r \notin spawned
      BY <1>3, <1>4, <2>1
    <3> QED BY <1>6, <2>1, <3>1
  <2>2. CASE k # n
    <3>1. k \in 1..Last
      BY <1>0, <2>2
    <3> QED BY <1>0, <1>4, <1>5, <2>2, <3>1 DEF SupervisionInd, RankInv, RaisedIsShort, Pc1, HoldsGpu
  <2> QED BY <2>1, <2>2
<1>12. PastPreflight'
  <2> SUFFICES ASSUME NEW i \in Launches, NEW j \in Launches, NEW r \in Ranks, i < j,
                      rank'[i][r] \in {"training", "stuck"},
                      rank'[j][r] \in {"joining", "training", "stuck"}
               PROVE  <<i, r>> \in orphans
    BY <1>0 DEF PastPreflight, HoldsGpu
  <2>1. i # n /\ j # n
    BY <1>6
  <2> QED BY <1>5, <2>1 DEF SupervisionInd, RankInv, PastPreflight, HoldsGpu
<1>13. FilesInv'
  <2>1. stopFile' \subseteq 1..n /\ n \notin stopFile
    BY <1>0 DEF SupervisionInd, FilesInv
  <2>2. ASSUME NEW k \in 1..n, k \in stopFile', launches'[k].dir = k
        PROVE  launches'[k].pc \in {"finally"} \cup Ended
    <3>1. k \in 1..Last
      BY <1>0, <2>1, <2>2
    <3> QED BY <1>0, <1>4, <2>2, <3>1 DEF SupervisionInd, FilesInv, Pc1
  <2>3. adopted' \subseteq 1..n /\ \A k \in adopted' : launches'[k].pc = "killed"
    BY <1>0, <1>4 DEF SupervisionInd, FilesInv, Pc1
  <2>4. launches'[n].pc # "watching"
    BY <1>3, <1>4
  <2>5. SamplerCovers'
    BY <1>4, <2>4 DEF SamplerCovers, Pc
  <2> QED BY <1>4, <2>1, <2>2, <2>3, <2>5 DEF FilesInv, Pc1
<1> QED BY <1>7, <1>8, <1>9, <1>10, <1>11, <1>12, <1>13 DEF SupervisionInd, RankInv

-----------------------------------------------------------------------------
(* The invariant is inductive. *)

LEMMA StartsIn ==
  ASSUME Init
  PROVE  SupervisionInd
<1>1. TypeOK
  <2>1. launches \in Seq(Launch) /\ rank \in [Launches -> [Ranks -> RankStates]]
    BY DEF Init, RankStates
  <2> QED BY <2>1 DEF Init, TypeOK, Launch, Conditions, Pcs, Ended, RankStates
<1>2. Last = 0 /\ MaxLaunches \in Nat
  BY SupervisionAssumption DEF Init, Last
<1>3. OneAfterAnother /\ FilesInv
  BY <1>2 DEF Init, OneAfterAnother, FilesInv, SamplerCovers
<1>4. RankInv
  BY <1>2 DEF Init, RankInv, ReturnedIsDead, KilledIsOrphan, RaisedIsShort, PastPreflight, HoldsGpu
<1> QED BY <1>1, <1>3, <1>4 DEF SupervisionInd

LEMMA StepsKeep ==
  ASSUME SupervisionInd, [Next]_vars
  PROVE  SupervisionInd'
<1>a. TypeOK' /\ Goes /\ Files => SupervisionInd'
  BY GoesKeeps, FilesKeep DEF SupervisionInd
<1>1. CASE \E c \in Phase0 : StartPhase0(c)
  BY <1>1, BeginStep DEF StartPhase0, Conditions
<1>2. CASE \E c \in Phase1 : StartPhase1(c) \/ LaunchRaises(c)
  <2>1. PICK c \in Phase1 : StartPhase1(c) \/ LaunchRaises(c)
    BY <1>2
  <2>2. CASE StartPhase1(c)
    BY <2>2, BeginStep DEF StartPhase1, Conditions
  <2>3. CASE LaunchRaises(c)
    BY <2>3, BeginStep DEF LaunchRaises, Conditions
  <2> QED BY <2>1, <2>2, <2>3
<1>3. ASSUME NEW k \in 1..Last, LaunchStep(k) PROVE SupervisionInd'
  BY <1>3, <1>a, RunAndReapStep, StartSamplerStep, ToFinallyStep, StopStep DEF LaunchStep
<1>4. ASSUME NEW k \in 1..Last, \/ AgentSweeps(k) \/ LauncherKilled(k)
                                \/ SamplerExits(k) \/ SamplerCrashes(k)
      PROVE  SupervisionInd'
  BY <1>4, <1>a, AgentSweepsStep, LauncherKilledStep, SamplerExitsStep, SamplerCrashesStep
<1>5. ASSUME NEW k \in 1..Last, Train(k) PROVE SupervisionInd'
  BY <1>5, TrainStep
<1>6. ASSUME NEW k \in 1..Last, NEW r \in Ranks, Preflight(k, r) \/ Wedge(k, r) \/ Exit(k, r)
      PROVE  SupervisionInd'
  BY <1>6, <1>a, RankStep
<1>7. CASE UNCHANGED vars
  <2>1. TypeOK'
    BY <1>7, LaunchTypes, TypesKept DEF vars, SupervisionInd, TypeOK
  <2>2. Goes
    BY <1>7, LaunchesStay, RanksStay DEF vars, Goes
  <2>3. Files
    BY <1>7, <2>2, FilesStay DEF vars, Pc1
  <2> QED BY <1>a, <2>1, <2>2, <2>3
<1> QED BY <1>1, <1>2, <1>3, <1>4, <1>5, <1>6, <1>7 DEF Next

THEOREM SupervisionInductive == Spec => []SupervisionInd
<1>1. Init => SupervisionInd
  BY StartsIn
<1>2. SupervisionInd /\ [Next]_vars => SupervisionInd'
  BY StepsKeep
<1> QED BY <1>1, <1>2, PTL DEF Spec

-----------------------------------------------------------------------------
(* The properties. *)

(* A launch that has ended as its code meant it to has left no process it  *)
(* has not sent SIGKILL to (run_phase0._run_and_reap, _terminate_all of    *)
(* report_phase1), and the state is typed.                                 *)
THEOREM NoneLeftRunning == Spec => []SupervisionInv
<1>1. SupervisionInd => SupervisionInv
  <2> SUFFICES ASSUME SupervisionInd, NEW k \in 1..Last, launches[k].pc = "returned",
                      NEW r \in Live(k)
               PROVE  <<k, r>> \in condemned
    BY DEF SupervisionInd, SupervisionInv, LeavesNoneRunning
  <2>1. r \in Ranks /\ rank[k][r] \notin {"none", "gone"}
    BY DEF Live
  <2> QED BY <2>1 DEF SupervisionInd, RankInv, ReturnedIsDead, Pc1
<1> QED BY <1>1, SupervisionInductive, PTL

(* No two launches train on one GPU, though launchers are killed and run   *)
(* again: the preflight of w1_llama7b sees the memory of an earlier rank,  *)
(* unless that one had still to build its model when it was orphaned.      *)
THEOREM GpuIsNotShared == Spec => []OneLaunchPerGpu
<1>1. SupervisionInd => OneLaunchPerGpu
  BY DEF SupervisionInd, RankInv, PastPreflight, OneLaunchPerGpu, HoldsGpu
<1> QED BY <1>1, SupervisionInductive, PTL

(* In a directory of its own, the sampler of a condition runs as long as   *)
(* its ranks are watched unless an error of its own ends it: no stop file  *)
(* of another launch, no launcher or init seen by mistake does             *)
(* (gpu_sampler.run, run_condition).                                       *)
THEOREM SamplerNotCutOff == Spec => []SamplerCovers
<1>1. SupervisionInd => SamplerCovers
  BY DEF SupervisionInd, FilesInv
<1> QED BY <1>1, SupervisionInductive, PTL

-----------------------------------------------------------------------------
(* A sampler ends.                                                         *)

(* Only a condition that is watched, is ending or has lost its launcher    *)
(* has a sampler.                                                          *)
SamplerPlace == \A k \in sampler : k \in 1..Last /\ Pc1(k) \in {"watching", "finally", "killed"}

(* A launch that has begun is not begun again. *)
LEMMA BeginStays ==
  ASSUME TypeOK, NEW c \in Conditions, NEW l \in Pcs, NEW spawned, Begin(c, l, spawned)
  PROVE  /\ sampler' = sampler /\ Len(launches') = Last + 1
         /\ \A k \in 1..Last : launches'[k] = launches[k]
<1>1. PICK d : launches' = Append(launches, [condition |-> c, dir |-> d, pc |-> l])
  BY DEF Begin
<1>2. launches \in Seq(Launch)
  BY LaunchTypes
<1>3. sampler' = sampler
  BY DEF Begin
<1> QED BY <1>1, <1>2, <1>3 DEF Last

(* Where a launch with a sampler may go: on, to its finally, or nowhere    *)
(* once its launcher was killed.                                           *)
Leads(k) == \/ k \notin sampler /\ launches'[k].pc = "watching"
            \/ k \in sampler /\ launches'[k].pc = Pc1(k)
            \/ k \in sampler /\ Pc1(k) = "watching" /\ launches'[k].pc \in {"finally", "killed"}
            \/ k \in sampler /\ Pc1(k) = "finally" /\ launches'[k].pc = "killed"

LEMMA SamplerLeads ==
  ASSUME SupervisionInd, SamplerPlace, [Next]_vars, NEW k \in sampler'
  PROVE  k \in 1..Len(launches') /\ Leads(k)
<1>0. TypeOK /\ Last \in Nat /\ \A j \in 1..Last : Pc1(j) = launches[j].pc
  BY LaunchTypes DEF SupervisionInd, Pc1
<1>1. ASSUME UNCHANGED launches, sampler' \subseteq sampler
      PROVE  k \in 1..Len(launches') /\ Leads(k)
  BY <1>0, <1>1 DEF SamplerPlace, Leads, Last
<1>2. ASSUME NEW c \in Conditions, NEW l \in Pcs, NEW spawned, Begin(c, l, spawned)
      PROVE  k \in 1..Len(launches') /\ Leads(k)
  BY <1>0, <1>2, BeginStays DEF SamplerPlace, Leads
<1>3. CASE \E c \in Phase0 : StartPhase0(c)
  BY <1>2, <1>3 DEF StartPhase0, Conditions, Pcs
<1>4. CASE \E c \in Phase1 : StartPhase1(c) \/ LaunchRaises(c)
  BY <1>2, <1>4 DEF StartPhase1, LaunchRaises, Conditions, Pcs, Ended
<1>5. ASSUME NEW j \in 1..Last, NEW l \in Pcs, Goto(j, l), sampler' \subseteq sampler \cup {j},
             \/ sampler' = sampler /\ j \notin sampler
             \/ sampler' = sampler \ {j}
             \/ sampler' = sampler \cup {j} /\ j \notin sampler /\ l = "watching"
             \/ sampler' = sampler /\ Pc1(j) = "watching" /\ l \in {"finally", "killed"}
             \/ sampler' = sampler /\ Pc1(j) = "finally" /\ l = "killed"
      PROVE  k \in 1..Len(launches') /\ Leads(k)
  <2>1. /\ Len(launches') = Last
        /\ \A i \in 1..Last : launches'[i].pc = IF i = j THEN l ELSE launches[i].pc
    BY <1>0, <1>5, GotoFacts
  <2> QED BY <1>0, <1>5, <2>1 DEF SamplerPlace, Leads
<1>6. ASSUME NEW j \in 1..Last, LaunchStep(j) \/ LauncherKilled(j)
      PROVE  k \in 1..Len(launches') /\ Leads(k)
  <2>1. CASE RunAndReap(j)
    BY <1>0, <1>5, <2>1 DEF RunAndReap, Pc, SamplerPlace, Pcs, Ended
  <2>2. CASE StartSampler(j)
    BY <1>0, <1>5, <2>2 DEF StartSampler, Pc, SamplerPlace, Pcs, Ended
  <2>3. CASE StartupFails(j)
    BY <1>0, <1>5, <2>3 DEF StartupFails, Pc, SamplerPlace, Pcs, Ended
  <2>4. CASE RanksOver(j)
    BY <1>0, <1>5, <2>4 DEF RanksOver, Pc, SamplerPlace, Pcs, Ended
  <2>5. CASE Raise(j)
    BY <1>0, <1>5, <2>5 DEF Raise, Pc, SamplerPlace, Pcs, Ended
  <2>6. CASE Finally(j)
    BY <1>0, <1>5, <2>6 DEF Finally, Pc, SamplerPlace, Pcs, Ended
  <2>7. CASE LauncherKilled(j)
    BY <1>0, <1>5, <2>7 DEF LauncherKilled, SamplerPlace, Pcs, Ended
  <2> QED BY <1>6, <2>1, <2>2, <2>3, <2>4, <2>5, <2>6, <2>7 DEF LaunchStep
<1>7. ASSUME NEW j \in 1..Last,
             AgentSweeps(j) \/ SamplerExits(j) \/ SamplerCrashes(j) \/ Train(j)
      PROVE  k \in 1..Len(launches') /\ Leads(k)
  BY <1>1, <1>7 DEF AgentSweeps, SamplerExits, SamplerCrashes, Train
<1>8. ASSUME NEW j \in 1..Last, NEW r \in Ranks, Preflight(j, r) \/ Wedge(j, r) \/ Exit(j, r)
      PROVE  k \in 1..Len(launches') /\ Leads(k)
  BY <1>1, <1>8 DEF Preflight, Wedge, Exit
<1>9. CASE UNCHANGED vars
  BY <1>1, <1>9 DEF vars
<1> QED BY <1>3, <1>4, <1>6, <1>7, <1>8, <1>9 DEF Next

LEMMA SamplerPlaceStep == SupervisionInd /\ SamplerPlace /\ [Next]_vars => SamplerPlace'
<1> SUFFICES ASSUME SupervisionInd, SamplerPlace, [Next]_vars, NEW k \in sampler'
             PROVE  k \in 1..Last' /\ Pc1(k)' \in {"watching", "finally", "killed"}
  BY DEF SamplerPlace
<1>1. k \in 1..Len(launches') /\ Leads(k)
  BY SamplerLeads
<1> QED BY <1>1 DEF Leads, SamplerPlace, Last, Pc1

(* The launcher's turn takes it to its finally, and there it stops the     *)
(* sampler; the sampler's turn is its last.                                *)
LEMMA SamplerTurns ==
  ASSUME SupervisionInd, SamplerPlace, NEW k \in sampler
  PROVE  /\ LaunchTurn(k) => /\ Pc1(k) = "watching" => launches'[k].pc = "finally"
                             /\ Pc1(k) = "finally" => k \notin sampler'
         /\ SamplerTurn(k) => k \notin sampler'
<1>0. TypeOK /\ k \in 1..Last /\ Pc1(k) = launches[k].pc
  BY DEF SupervisionInd, SamplerPlace, Pc1
<1>1. ASSUME LaunchStep(k), Pc1(k) = "watching" PROVE launches'[k].pc = "finally"
  <2>1. Goto(k, "finally")
    BY <1>0, <1>1 DEF LaunchStep, RunAndReap, StartSampler, StartupFails, RanksOver, Raise,
                      Finally, Pc
  <2> QED BY <1>0, <2>1, GotoFacts DEF Pcs
<1>2. ASSUME LaunchStep(k), Pc1(k) = "finally" PROVE k \notin sampler'
  BY <1>0, <1>2 DEF LaunchStep, RunAndReap, StartSampler, StartupFails, RanksOver, Raise,
                    Finally, Pc
<1>3. SamplerExits(k) => k \notin sampler'
  BY DEF SamplerExits
<1> QED BY <1>1, <1>2, <1>3 DEF LaunchTurn, SamplerTurn

LEMMA FairToLaunch ==
  ASSUME NEW k \in Launches
  PROVE  FairSpec => Spec /\ WF_vars(LaunchTurn(k)) /\ WF_vars(SamplerTurn(k))
<1>1. (\A j \in Launches : GoesOn(j)) => GoesOn(k)
  OBVIOUS
<1>2. FairSpec => GoesOn(k)
  BY <1>1, PTL DEF FairSpec
<1> QED BY <1>2, PTL DEF FairSpec, GoesOn

(* No sampler runs for ever: the finally of its condition stops it, and    *)
(* when the launcher was killed it sees that (gpu_sampler.run,             *)
(* run_condition), for any number of launches and of launchers killed.     *)
(* The hypothesis is about ENABLED only.                                   *)
THEOREM SamplersEnd == FairSpec /\ []SamplerNotBlocked => SamplerEnds
<1> SUFFICES ASSUME NEW k \in Launches
             PROVE  FairSpec /\ []SamplerNotBlocked => (k \in sampler ~> k \notin sampler)
  BY DEF SamplerEnds
<1> DEFINE Runs     == k \in sampler
           Over     == k \notin sampler
           Watching == k \in sampler /\ Pc1(k) = "watching"
           Ending   == k \in sampler /\ Pc1(k) = "finally"
           Orphaned == k \in sampler /\ Pc1(k) = "killed"
           Open     == ENABLED <<LaunchTurn(k)>>_vars
           Polls    == ENABLED <<SamplerTurn(k)>>_vars
           Inv      == SupervisionInd /\ SamplerPlace
<1>1. FairSpec => Spec /\ WF_vars(LaunchTurn(k)) /\ WF_vars(SamplerTurn(k))
  BY FairToLaunch, PTL
<1>2. SamplerNotBlocked => /\ Watching \/ Ending => Open
                           /\ Orphaned => Polls
  <2>1. SamplerNotBlocked => NotBlocked(k)
    BY DEF SamplerNotBlocked
  <2> QED BY <2>1 DEF NotBlocked, Pc1
<1>3. Spec => []Inv
  <2>1. Init => SamplerPlace
    BY DEF Init, SamplerPlace
  <2> QED BY <2>1, SamplerPlaceStep, SupervisionInductive, PTL DEF Spec
<1>4. Inv => (Runs => Watching \/ Ending \/ Orphaned)
  BY DEF SamplerPlace
<1>5. Inv /\ [Next]_vars => /\ Watching => Watching' \/ Ending' \/ Orphaned' \/ Over'
                            /\ Ending => Ending' \/ Orphaned' \/ Over'
                            /\ Orphaned => Orphaned' \/ Over'
  BY SamplerLeads DEF Leads, Pc1
<1>6. Inv /\ <<LaunchTurn(k)>>_vars => /\ Watching => Ending' \/ Over'
                                       /\ Ending => Over'
  BY SamplerTurns DEF Pc1
<1>7. Inv /\ <<SamplerTurn(k)>>_vars => (Orphaned => Over')
  BY SamplerTurns
<1>8. FairSpec /\ []SamplerNotBlocked => [](Runs => <>Over)
  <2> HIDE DEF Runs, Over, Watching, Ending, Orphaned, Inv
  <2> QED BY <1>1, <1>2, <1>3, <1>4, <1>5, <1>6, <1>7, PTL DEF Spec
<1> QED BY <1>8, PTL
=============================================================================
