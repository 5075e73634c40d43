------------------------ MODULE CheckpointStoreProofs ------------------------
(***************************************************************************)
(* Proofs about CheckpointStore, for any length of the log, any number of  *)
(* failures and either synchronization mode.                               *)
(*                                                                         *)
(* EvidenceRetained and HistoryMatchesFiles need each other: compaction    *)
(* respects the cuts the history knows, so it spares what recovery reads   *)
(* only while the history agrees with the files.                           *)
(***************************************************************************)
EXTENDS CheckpointStore, WellFoundedInduction, TLAPS

(* Leaves are tried with Zenon unless they name another prover.           *)
USE Zenon

\* What is committed bounds what is stored, cut and planned.
Bounds ==
  /\ disk <= raft.commit
  /\ topo.ck <= raft.commit /\ topoAlt.ck <= raft.commit
  /\ journal <= raft.commit /\ journalAlt <= raft.commit /\ hist.cand.cut <= raft.commit

\* A stream that needs no recovery ends with what is applied.
Ended == run = "up" => applied <= disk /\ (~poisoned => disk = applied)

\* A store that is not running remembers nothing, a worker's lease stands for
\* a reservation, and a fresh one has left nothing in the journal.
Memory ==
  /\ run # "up" => ~poisoned /\ lease = "none" /\ hist = NewHistory(0)
  /\ lease # "none" => hist.cand.cut # 0
  /\ lease = "fresh" => journal = 0 /\ journalAlt = 0
  /\ run = "up" /\ ~poisoned => topoAlt = topo

\* The two parts of EvidenceRetained.
Whole(t) == t.starts \subseteq files /\ (Min(t.starts) <= t.ck \/ Min(t.starts) = 0)
Spared(c) == c # 0 => raft.base <= c
Kept ==
  /\ Spared(topo.ck) /\ Spared(topoAlt.ck) /\ Spared(journal) /\ Spared(journalAlt)
  /\ Spared(hist.cand.cut) /\ raft.base <= synced

\* HistoryMatchesFiles.
Matched ==
  run = "up" =>
    /\ journal # 0 => hist.cand.cut = journal
    /\ journalAlt # 0 => hist.cand.cut = journalAlt
    /\ ~hist.uncertain => hist.selected = topo.ck /\ hist.compacted = raft.base

\* With strict synchronization the record that installed a selected image is
\* on stable storage.
Backed(c) == c # 0 => \E i \in 1..MaxIndex : pub[i] = c /\ i <= synced
Strict ==
  ~deferred => /\ run # "refused"
               /\ run = "up" => applied <= synced
               /\ Backed(topo.ck) /\ Backed(topoAlt.ck)

IInv ==
  /\ TypeOK
  /\ \A i \in 1..MaxIndex : pub[i] # 0 => pub[i] < i
  /\ Bounds /\ Ended /\ Memory
  /\ Whole(topo) /\ Whole(topoAlt) /\ Kept /\ Matched /\ Strict

(***************************************************************************)
(* Least and greatest positions.                                           *)
(***************************************************************************)
\* A set of naturals that is not empty has a least member, and Min is it.
LEMMA MinOf == ASSUME NEW S \in SUBSET Nat, S # {} PROVE Min(S) \in S /\ \A y \in S : Min(S) <= y
<1> DEFINE R == OpToRel(<, Nat)
<1>1. IsWellFoundedOn(R, Nat)
  BY NatLessThanWellFounded
<1>2. \A x, y \in Nat : x < y => <<x, y>> \in R
  BY SMT DEF OpToRel
<1> HIDE DEF R
<1>3. PICK x \in S : \A y \in S : ~(<<y, x>> \in R)
  BY <1>1, WFMin
<1>4. \A y \in S : x <= y
  <2> TAKE y \in S
  <2>1. ~(y < x)
    BY <1>2, <1>3
  <2>2. x \in Nat /\ y \in Nat
    OBVIOUS
  <2> QED BY SMT, <2>1, <2>2
<1> QED BY <1>4 DEF Min

\* A set of positions that is not empty has a greatest member, and Max is it.
LEMMA MaxOf ==
  ASSUME NEW S \in SUBSET Index, S # {}
  PROVE  Max(S) \in S /\ \A y \in S : y <= Max(S)
<1> DEFINE T == {MaxIndex - x : x \in S}
<1>0. MaxIndex \in Nat
  BY CheckpointStoreAssumption
<1>1. T \in SUBSET Nat /\ T # {}
  <2>1. ASSUME NEW x \in S PROVE MaxIndex - x \in Nat
    BY SMT, <1>0 DEF Index
  <2> QED BY <2>1
<1>2. Min(T) \in T /\ \A y \in T : Min(T) <= y
  BY <1>1, MinOf
<1>3. PICK x \in S : Min(T) = MaxIndex - x
  BY <1>2
<1>4. ASSUME NEW y \in S PROVE x >= y
  <2>1. MaxIndex - x <= MaxIndex - y
    BY <1>2, <1>3
  <2> QED BY SMT, <1>0, <2>1 DEF Index
<1>5. Max(S) \in S /\ \A y \in S : Max(S) >= y
  BY <1>4 DEF Max
<1> QED BY SMT, <1>0, <1>5 DEF Index

\* Dropping the closed segments a cut covers leaves the active one, and the
\* first that stays starts where the first did or at or below the cut
\* (checkpoint_applied).
LEMMA RetainedSegments ==
  ASSUME NEW S \in SUBSET Index, S # {}, NEW cut \in Index
  PROVE  /\ Retained(S, cut) \subseteq S /\ Retained(S, cut) # {}
         /\ Min(Retained(S, cut)) = Min(S) \/ Min(Retained(S, cut)) <= cut
<1> DEFINE T == Retained(S, cut)
<1>0. MaxIndex \in Nat /\ S \in SUBSET Nat
  BY SMT, CheckpointStoreAssumption DEF Index
<1>1. Max(S) \in S /\ \A y \in S : y <= Max(S)
  BY MaxOf
<1>2. T \subseteq S /\ Max(S) \in T
  BY <1>1 DEF Retained
<1>3. Min(T) \in T /\ \A y \in T : Min(T) <= y
  BY <1>0, <1>2, MinOf
<1>4. Min(S) \in S /\ \A y \in S : Min(S) <= y
  BY <1>0, MinOf
<1>5. ASSUME Min(T) # Min(S) PROVE Min(T) <= cut
  <2> DEFINE m == Min(T)
             B == {q \in S : q < m}
  <2>0. cut \in Nat
    BY SMT, <1>0 DEF Index
  <2>1. m \in Nat /\ Min(S) \in Nat /\ m \in S /\ cut \in Nat
    BY <1>0, <1>2, <1>3, <1>4, <2>0
  <2>2. Min(S) <= m
    BY <1>4, <2>1 DEF m
  <2>3. Min(S) < m
    BY SMT, <1>5, <2>1, <2>2
  <2> HIDE DEF m
  <2>4. B \in SUBSET Index /\ B # {}
    BY <1>4, <2>3
  <2>5. Max(B) \in B /\ \A y \in B : y <= Max(B)
    BY <2>4, MaxOf
  <2>6. PICK p : p = Max(B)
    OBVIOUS
  <2>7. p \in S /\ p < m /\ p \in Nat /\ \A y \in B : y <= p
    BY <1>0, <2>5, <2>6
  <2>8. p \notin T
    <3>1. p \in T => m <= p
      BY <1>3 DEF m
    <3> QED BY SMT, <2>1, <2>7, <3>1
  <2>9. EndOf(S, p) = m
    <3> DEFINE U == {q \in S : q > p}
    <3>1. m \in U
      BY SMT, <2>1, <2>7
    <3>2. U \in SUBSET Nat /\ U # {}
      BY <1>0, <3>1
    <3>3. Min(U) \in U /\ \A y \in U : Min(U) <= y
      BY <3>2, MinOf
    <3>4. ASSUME NEW q \in U PROVE m <= q
      <4>1. q \in S /\ q > p /\ q \in Nat
        BY <1>0
      <4>2. q < m => q <= p
        BY <2>7, <4>1
      <4> QED BY SMT, <2>1, <2>7, <4>1, <4>2
    <3>5. Min(U) <= m /\ m <= Min(U) /\ Min(U) \in Nat
      BY <3>1, <3>2, <3>3, <3>4
    <3>6. Min(U) = m
      BY SMT, <2>1, <3>5
    <3> QED BY <3>6 DEF EndOf
  <2>10. ~(m > cut)
    BY <2>7, <2>8, <2>9 DEF Retained
  <2>11. m <= cut
    BY SMT, <2>1, <2>10
  <2> QED BY <2>11 DEF m
<1> QED BY <1>2, <1>5

\* A new active segment does not move the first one (rotate).
LEMMA RotatedSegments ==
  ASSUME NEW S \in SUBSET Index, S # {}, NEW a \in Index, a > Max(S)
  PROVE  Min(S \cup {a}) = Min(S)
<1>0. MaxIndex \in Nat /\ S \cup {a} \in SUBSET Nat /\ S \cup {a} # {}
  BY SMT, CheckpointStoreAssumption DEF Index
<1>1. Max(S) \in S /\ \A y \in S : y <= Max(S)
  BY MaxOf
<1>2. Min(S) \in S /\ \A y \in S : Min(S) <= y
  BY <1>0, MinOf
<1>3. Min(S \cup {a}) \in S \cup {a} /\ \A y \in S \cup {a} : Min(S \cup {a}) <= y
  BY <1>0, MinOf
<1>4. /\ Min(S) \in Nat /\ Max(S) \in Nat /\ a \in Nat /\ Min(S \cup {a}) \in Nat
      /\ Min(S) <= Max(S) /\ Min(S \cup {a}) <= Min(S)
  BY <1>0, <1>1, <1>2, <1>3
<1>5. Min(S \cup {a}) # a
  BY SMT, <1>4
<1>6. Min(S) <= Min(S \cup {a})
  BY <1>2, <1>3, <1>5
<1> QED BY SMT, <1>4, <1>6

\* The image adoption selects: installed by an applied entry.
LEMMA LatestPublished ==
  ASSUME TypeOK, AnyPublished
  PROVE  Latest \in 1..MaxIndex /\ Latest <= applied /\ pub[Latest] # 0 /\ pub[Latest] \in Index
<1> DEFINE S == {i \in Publications : i <= applied}
<1>0. MaxIndex \in Nat
  BY CheckpointStoreAssumption
<1>1. S \in SUBSET Index /\ S # {}
  BY SMT, <1>0 DEF AnyPublished, Publications, Index
<1>2. Max(S) \in S
  BY <1>1, MaxOf
<1>3. Latest \in 1..MaxIndex /\ Latest <= applied /\ pub[Latest] # 0
  BY <1>2 DEF Latest, Publications
<1> QED BY <1>3 DEF TypeOK

(***************************************************************************)
(* The steps.                                                              *)
(***************************************************************************)
\* What the operations of CheckpointHistory make of a history is a history.
LEMMA HistoryTypes ==
  /\ \A h \in Histories, c \in Index : [h EXCEPT !.selected = c] \in Histories
  /\ \A h \in Histories, c \in Index : [h EXCEPT !.compacted = c] \in Histories
  /\ \A h \in Histories, d \in Candidates : [h EXCEPT !.cand = d] \in Histories
  /\ \A h \in Histories, c \in Index, d \in Candidates :
        [h EXCEPT !.compacted = c, !.cand = d] \in Histories
  /\ \A h \in Histories : [h EXCEPT !.uncertain = TRUE] \in Histories
  BY DEF Histories

\* The candidates it reserves are candidates.
LEMMA CandidateTypes ==
  /\ 0 \in Index /\ NoCandidate \in Candidates
  /\ \A c \in Index : /\ Candidate(c) \in Candidates
                      /\ [cut |-> c, claimed |-> FALSE] \in Candidates
                      /\ NewHistory(c) \in Histories
  /\ \A d \in Candidates : [d EXCEPT !.claimed = FALSE] \in Candidates
<1>0. 0 \in Index
  BY SMT, CheckpointStoreAssumption DEF Index
<1>1. NoCandidate \in Candidates
  BY <1>0 DEF NoCandidate, Candidates
<1>2. \A c \in Index : Candidate(c) \in Candidates /\ [cut |-> c, claimed |-> FALSE] \in Candidates
  BY DEF Candidate, Candidates
<1>3. \A c \in Index : NewHistory(c) \in Histories
  BY <1>0, <1>1 DEF NewHistory, Histories
<1>4. \A d \in Candidates : [d EXCEPT !.claimed = FALSE] \in Candidates
  BY DEF Candidates
<1> QED BY <1>0, <1>1, <1>2, <1>3, <1>4

\* The history, the flags and the lease.
MemoryTypes ==
  /\ deferred \in BOOLEAN /\ pub \in [1..MaxIndex -> Index]
  /\ run \in {"up", "down", "refused"} /\ poisoned \in BOOLEAN
  /\ hist \in Histories /\ lease \in {"none", "fresh", "durable"}

\* The positions.
PositionTypes ==
  /\ raft \in [base : Index, commit : Index]
  /\ disk \in Index /\ synced \in Index /\ synced <= disk
  /\ topo \in Topologies /\ topoAlt \in Topologies /\ files \subseteq Index
  /\ journal \in Index /\ journalAlt \in Index
  /\ applied \in Index /\ failures \in 0..MaxFailures

\* Every step keeps the types of the history, the flags and the lease.
LEMMA MemoryStep == ASSUME IInv, [Next]_vars PROVE MemoryTypes'
<1>0. MemoryTypes /\ journal \in Index /\ applied \in Index /\ raft.base \in Index /\ topo.ck \in Index
      /\ hist.cand \in Candidates /\ hist.cand.cut \in Index
      /\ hist \in Histories
  BY DEF IInv, TypeOK, MemoryTypes, Topologies, Histories, Candidates
<1> USE <1>0 DEF fixed
<1>1. CASE Commit
  BY <1>1 DEF Commit, mem, MemoryTypes
<1>2. CASE Apply
  BY <1>2 DEF Apply, MemoryTypes
<1>3. CASE ApplyFails
  BY <1>3 DEF ApplyFails, MemoryTypes
<1>4. CASE Rotate
  BY <1>4 DEF Rotate, mem, MemoryTypes
<1>5. CASE RotateFails
  BY <1>5 DEF RotateFails, MemoryTypes
<1>6. CASE Freeze
  <2>1. hist' \in Histories
    BY <1>6, HistoryTypes, CandidateTypes DEF Freeze
  <2> QED BY <1>6, <2>1 DEF Freeze, platter, MemoryTypes
<1>7. CASE Stage
  BY <1>7 DEF Stage, MemoryTypes
<1>8. CASE StageFails
  <2>1. hist' \in Histories
    BY <1>8, HistoryTypes, CandidateTypes DEF StageFails
  <2> QED BY <1>8, <2>1 DEF StageFails, MemoryTypes
<1>9. CASE Claim
  <2>1. hist' \in Histories
    BY <1>9, HistoryTypes, CandidateTypes DEF Claim
  <2> QED BY <1>9, <2>1 DEF Claim, MemoryTypes
<1>10. CASE Drop
  <2>1. Dropped \in Candidates
    BY CandidateTypes DEF Dropped
  <2>2. hist' \in Histories
    BY <1>10, <2>1, HistoryTypes DEF Drop
  <2> QED BY <1>10, <2>2 DEF Drop, platter, MemoryTypes
<1>11. CASE Adopt
  <2>1. hist' \in Histories
    BY <1>11, HistoryTypes, LatestPublished DEF Adopt, IInv
  <2> QED BY <1>11, <2>1 DEF Adopt, MemoryTypes
<1>12. CASE AdoptFails
  <2>1. hist' \in Histories
    BY <1>12, HistoryTypes DEF AdoptFails
  <2> QED BY <1>12, <2>1 DEF AdoptFails, MemoryTypes
<1>13. CASE Finish
  <2>1. hist' \in Histories
    BY <1>13, HistoryTypes, CandidateTypes DEF Finish
  <2> QED BY <1>13, <2>1 DEF Finish, MemoryTypes
<1>14. CASE FinishFails
  BY <1>14 DEF FinishFails, mem, MemoryTypes
<1>15. CASE Exit
  <2>1. hist' \in Histories
    BY <1>15, CandidateTypes DEF Exit, Forgotten
  <2> QED BY <1>15, <2>1 DEF Exit, Forgotten, platter, MemoryTypes
<1>16. CASE PowerLoss
  <2>1. hist' \in Histories
    BY <1>16, CandidateTypes DEF PowerLoss, Forgotten
  <2> QED BY <1>16, <2>1 DEF PowerLoss, Forgotten, MemoryTypes
<1>17. CASE Recover
  <2>1. RestoredCandidate \in Candidates
    BY CandidateTypes DEF RestoredCandidate
  <2>2. hist' \in Histories
    <3>1. [NewHistory(topo.ck) EXCEPT !.compacted = ObservedBase, !.cand = RestoredCandidate]
            \in Histories
      BY <2>1, HistoryTypes, CandidateTypes DEF ObservedBase
    <3> QED BY <1>17, <3>1 DEF Recover
  <2>3. run' \in {"up", "down", "refused"}
    BY <1>17 DEF Recover
  <2> QED BY <1>17, <2>2, <2>3 DEF Recover, MemoryTypes
<1>18. ASSUME NEW floor \in 1..MaxIndex, Compact(floor) PROVE MemoryTypes'
  <2>1. floor \in Index
    BY SMT DEF Index
  <2>2. hist' \in Histories
    BY ZenonT(60), <1>18, <2>1, HistoryTypes DEF Compact
  <2> QED BY <1>18, <2>2 DEF Compact, MemoryTypes
<1>19. CASE UNCHANGED vars
  BY <1>19 DEF vars, mem, MemoryTypes
<1> QED BY ZenonT(60), <1>1, <1>2, <1>3, <1>4, <1>5, <1>6, <1>7, <1>8, <1>9, <1>10, <1>11, <1>12, <1>13, <1>14, <1>15, <1>16, <1>17, <1>18, <1>19 DEF Next

\* Every step keeps the types of the positions.
LEMMA PositionStep == ASSUME IInv, [Next]_vars PROVE PositionTypes'
<1>0. MaxIndex \in Nat /\ MaxFailures \in Nat /\ PositionTypes /\ hist.cand.cut \in Index
      /\ (run = "up" => applied <= disk /\ (~poisoned => disk = applied))
      /\ disk <= raft.commit
  BY CheckpointStoreAssumption DEF IInv, Bounds, Ended, TypeOK, PositionTypes, Histories, Candidates
<1> USE <1>0 DEF PositionTypes, Topologies, Index
<1>1. CASE Commit
  BY SMT, <1>1 DEF Commit, Up, NoFail, mem
<1>2. CASE Apply
  BY SMT, <1>2 DEF Apply, Up, NoFail
<1>3. CASE ApplyFails
  BY SMT, <1>3 DEF ApplyFails, Up, Fail
<1>4. CASE Rotate
  BY SMT, <1>4 DEF Rotate, Up, NoFail, mem, Published, Rotated
<1>5. CASE RotateFails
  BY SMT, <1>5 DEF RotateFails, Up, Fail, PublishFails, Rotated
<1>6. CASE Freeze
  BY SMT, <1>6 DEF Freeze, Up, NoFail, platter
<1>7. CASE Stage
  BY SMT, <1>7 DEF Stage, Up, NoFail
<1>8. CASE StageFails
  BY SMT, <1>8 DEF StageFails, Up, Fail
<1>9. CASE Claim
  BY SMT, <1>9 DEF Claim, Up, NoFail
<1>10. CASE Drop
  BY SMTT(30), <1>10 DEF Drop, Up, NoFail, platter
<1>11. CASE Adopt
  <2>1. pub[Latest] \in Index
    BY <1>11, LatestPublished DEF Adopt, IInv
  <2>2. Selected(pub[Latest]) \in Topologies
    BY <2>1, RetainedSegments DEF Selected
  <2> QED BY SMT, <1>11, <2>2 DEF Adopt, Up, NoFail, Published
<1>12. CASE AdoptFails
  <2>1. pub[Latest] \in Index
    BY <1>12, LatestPublished DEF AdoptFails, IInv
  <2>2. Selected(pub[Latest]) \in Topologies
    BY <2>1, RetainedSegments DEF Selected
  <2> QED BY SMT, <1>12, <2>2 DEF AdoptFails, Up, Fail, Published, PublishFails
<1>13. CASE Finish
  BY SMT, <1>13 DEF Finish, Up, NoFail
<1>14. CASE FinishFails
  BY SMT, <1>14 DEF FinishFails, Up, Fail, mem
<1>15. CASE Exit
  BY SMT, <1>15 DEF Exit, Up, Forgotten, platter
<1>16. CASE PowerLoss
  BY SMT, <1>16 DEF PowerLoss, Fail, Forgotten
<1>17. CASE Recover
  BY SMT, <1>17 DEF Recover, NoFail
<1>18. ASSUME NEW floor \in 1..MaxIndex, Compact(floor) PROVE PositionTypes'
  BY SMT, <1>18 DEF Compact, Up, Fail, NoFail, BarrierSync
<1>19. CASE UNCHANGED vars
  BY SMT, <1>19 DEF vars, platter, mem
<1> QED BY <1>1, <1>2, <1>3, <1>4, <1>5, <1>6, <1>7, <1>8, <1>9, <1>10, <1>11, <1>12, <1>13, <1>14, <1>15, <1>16, <1>17, <1>18, <1>19 DEF Next

\* The published topologies name only files that exist and lack no segment
\* that no image covers (rotate, checkpoint_applied, reclaim_obsolete).
LEMMA SegmentsStep == ASSUME IInv, [Next]_vars PROVE Whole(topo)' /\ Whole(topoAlt)'
<1>0. /\ Whole(topo) /\ Whole(topoAlt) /\ topo \in Topologies /\ applied \in Index /\ MaxIndex \in Nat
      /\ files \subseteq Index /\ topo.starts \in SUBSET Index /\ topo.starts # {} /\ topo.ck \in Index
  BY CheckpointStoreAssumption DEF IInv, TypeOK, Topologies
<1>1. ASSUME UNCHANGED <<topo, topoAlt, files>> PROVE Whole(topo)' /\ Whole(topoAlt)'
  BY <1>0, <1>1 DEF Whole
<1>2. ASSUME NEW t, t = topo \/ t = topoAlt, topo' = t, topoAlt' \in {t, topo}, files \subseteq files'
      PROVE  Whole(topo)' /\ Whole(topoAlt)'
  BY <1>0, <1>2 DEF Whole
<1>3. ASSUME applied > Max(topo.starts), files' = files \cup {applied},
             topo' \in {topo, Rotated}, topoAlt' \in {topo, Rotated}
      PROVE  Whole(topo)' /\ Whole(topoAlt)'
  <2>1. Rotated.starts = topo.starts \cup {applied} /\ Rotated.ck = topo.ck
    BY <1>0 DEF Rotated, Topologies
  <2>2. Min(Rotated.starts) = Min(topo.starts)
    BY <1>0, <1>3, <2>1, RotatedSegments
  <2>3. Rotated.starts \subseteq files' /\ topo.starts \subseteq files'
    BY <1>0, <1>3, <2>1 DEF Whole
  <2> QED BY <1>0, <1>3, <2>1, <2>2, <2>3 DEF Whole
<1>4. ASSUME NEW cut \in Index, cut >= topo.ck, topo' \in {topo, Selected(cut)},
             topoAlt' \in {topo, Selected(cut)},
             \/ files' = files
             \/ /\ topo' = Selected(cut) /\ topoAlt' = Selected(cut)
                /\ \E gone \in SUBSET {p \in files : p < Min(Selected(cut).starts)} : files' = files \ gone
      PROVE  Whole(topo)' /\ Whole(topoAlt)'
  <2>1. Selected(cut).ck = cut /\ Selected(cut).starts = Retained(topo.starts, cut)
    BY DEF Selected
  <2> DEFINE T == Retained(topo.starts, cut)
  <2>2. T \subseteq topo.starts /\ T # {} /\ (Min(T) = Min(topo.starts) \/ Min(T) <= cut)
    BY <1>0, RetainedSegments
  <2>3. topo.starts \in SUBSET Nat /\ cut \in Nat /\ topo.ck \in Nat
    BY SMT, <1>0 DEF Index
  <2>4. Min(topo.starts) \in Nat /\ Min(T) \in T /\ (\A y \in T : Min(T) <= y) /\ Min(T) \in Nat
    BY <1>0, <2>2, <2>3, MinOf
  <2> HIDE DEF T
  <2>5. Min(T) <= cut \/ Min(T) = 0
    BY SMT, <1>0, <1>4, <2>2, <2>3, <2>4 DEF Whole
  <2>6. CASE files' = files
    <3>1. T \subseteq files' /\ topo.starts \subseteq files'
      BY <1>0, <2>2, <2>6 DEF Whole
    <3> QED BY <1>0, <1>4, <2>1, <2>5, <3>1 DEF Whole, T
  <2>7. ASSUME topo' = Selected(cut), topoAlt' = Selected(cut),
               NEW gone \in SUBSET {p \in files : p < Min(Selected(cut).starts)}, files' = files \ gone
        PROVE  Whole(topo)' /\ Whole(topoAlt)'
    <3>1. ASSUME NEW p \in T PROVE p \in files'
      <4>1. Min(T) <= p /\ p \in Nat /\ p \in files
        BY <1>0, <2>2, <2>3, <2>4 DEF Whole
      <4>2. ~(p < Min(T))
        BY SMT, <2>4, <4>1
      <4> QED BY <2>1, <2>7, <4>1, <4>2 DEF T
    <3> QED BY <2>1, <2>5, <2>7, <3>1 DEF Whole, T
  <2> QED BY <1>4, <2>6, <2>7
<1>5. CASE Rotate
  BY <1>3, <1>5 DEF Rotate, Published
<1>6. CASE RotateFails
  BY <1>1, <1>3, <1>6 DEF RotateFails, PublishFails
<1>7. CASE Adopt
  <2>1. pub[Latest] \in Index
    BY <1>7, LatestPublished DEF Adopt, IInv
  <2>2. {p \in files : p < Min(Selected(pub[Latest]).starts)} \in
          SUBSET {p \in files : p < Min(Selected(pub[Latest]).starts)}
    OBVIOUS
  <2> QED BY <1>4, <1>7, <2>1, <2>2 DEF Adopt, Published, Selectable
<1>8. CASE AdoptFails
  <2>1. pub[Latest] \in Index
    BY <1>8, LatestPublished DEF AdoptFails, IInv
  <2> QED BY <1>4, <1>8, <2>1 DEF AdoptFails, Published, PublishFails, Selectable
<1>9. CASE PowerLoss
  BY <1>2, <1>9 DEF PowerLoss
<1>10. CASE Recover
  BY <1>1, <1>2, <1>10 DEF Recover
<1>11. CASE UNCHANGED vars
  BY <1>1, <1>11 DEF vars, platter
<1> USE <1>1 DEF platter
<1>12. CASE Commit \/ Apply \/ ApplyFails
  BY <1>12 DEF Commit, Apply, ApplyFails
<1>13. CASE Freeze \/ Stage \/ StageFails \/ Claim \/ Drop
  BY <1>13 DEF Freeze, Stage, StageFails, Claim, Drop
<1>14. CASE Finish \/ FinishFails \/ Exit
  BY <1>14 DEF Finish, FinishFails, Exit
<1>15. CASE \E floor \in 1..MaxIndex : Compact(floor)
  BY <1>15 DEF Compact
<1> QED BY <1>5, <1>6, <1>7, <1>8, <1>9, <1>10, <1>11, <1>12, <1>13, <1>14, <1>15 DEF Next

\* Reserving or freeing a candidate leaves the rest of the history alone.
LEMMA CandidateSet ==
  ASSUME hist \in Histories, NEW d, hist' = [hist EXCEPT !.cand = d]
  PROVE  /\ hist'.cand = d /\ hist'.selected = hist.selected /\ hist'.compacted = hist.compacted
         /\ hist'.uncertain = hist.uncertain
  BY DEF Histories

\* So does selecting an image.
LEMMA SelectedSet ==
  ASSUME hist \in Histories, NEW c, hist' = [hist EXCEPT !.selected = c]
  PROVE  /\ hist'.selected = c /\ hist'.cand = hist.cand /\ hist'.compacted = hist.compacted
         /\ hist'.uncertain = hist.uncertain
  BY DEF Histories

\* So does recording a compacted base.
LEMMA CompactedSet ==
  ASSUME hist \in Histories, NEW c, hist' = [hist EXCEPT !.compacted = c]
  PROVE  /\ hist'.compacted = c /\ hist'.cand = hist.cand /\ hist'.selected = hist.selected
         /\ hist'.uncertain = hist.uncertain
  BY DEF Histories

\* A failed write leaves the reservation in force.
LEMMA UncertainSet ==
  ASSUME hist \in Histories, hist' = [hist EXCEPT !.uncertain = TRUE]
  PROVE  hist'.uncertain /\ hist'.cand = hist.cand
  BY DEF Histories

\* Synchronizing more keeps what backs the selected images.
LEMMA StaysBacked ==
  ASSUME MaxIndex \in Nat, synced \in Index, synced' \in Index, synced <= synced', pub' = pub,
         NEW c, Backed(c)
  PROVE  c # 0 => \E i \in 1..MaxIndex : pub'[i] = c /\ i <= synced'
<1> SUFFICES ASSUME c # 0 PROVE \E i \in 1..MaxIndex : pub'[i] = c /\ i <= synced'
  OBVIOUS
<1>1. PICK i \in 1..MaxIndex : pub[i] = c /\ i <= synced
  BY DEF Backed
<1>2. i <= synced'
  BY SMT, <1>1 DEF Index
<1> QED BY <1>1, <1>2

\* A step that selects no image and synchronizes no less.
LEMMA StaysStrict ==
  ASSUME MaxIndex \in Nat, Strict, synced \in Index, synced' \in Index, synced <= synced',
         UNCHANGED <<deferred, pub>>, topo' \in {topo, topoAlt}, topoAlt' \in {topo, topoAlt},
         ~deferred => run' # "refused" /\ (run' = "up" => applied' <= synced')
  PROVE  Strict'
<1> SUFFICES ASSUME ~deferred PROVE Backed(topo.ck)' /\ Backed(topoAlt.ck)'
  BY DEF Strict
<1>1. Backed(topo.ck) /\ Backed(topoAlt.ck)
  BY DEF Strict
<1>2. /\ topo.ck # 0 => \E i \in 1..MaxIndex : pub'[i] = topo.ck /\ i <= synced'
      /\ topoAlt.ck # 0 => \E i \in 1..MaxIndex : pub'[i] = topoAlt.ck /\ i <= synced'
  BY <1>1, StaysBacked
<1> QED BY <1>2 DEF Backed

\* Every step keeps the cuts within the committed log, the history in step with the
\* files and the evidence of every cut that recovery may read.
LEMMA CutsStep == ASSUME IInv, [Next]_vars PROVE (Bounds /\ Ended /\ Memory /\ Kept /\ Matched /\ Strict)'
<1>0. /\ MaxIndex \in Nat /\ PositionTypes /\ hist \in Histories /\ pub \in [1..MaxIndex -> Index]
      /\ hist.cand \in Candidates /\ hist.cand.cut \in Index /\ hist.selected \in Index
      /\ hist.compacted \in Index
      /\ \A i \in 1..MaxIndex : pub[i] # 0 => pub[i] < i
      /\ Bounds /\ Ended /\ Memory /\ Kept /\ Matched /\ Strict
  BY CheckpointStoreAssumption DEF IInv, TypeOK, PositionTypes, Histories, Candidates
<1>00. /\ synced \in Index /\ synced <= synced /\ disk \in Index /\ synced <= disk /\ synced \in 0..MaxIndex
       /\ raft.base \in Nat /\ raft.commit \in Nat /\ topo.ck \in Nat /\ topoAlt.ck \in Nat
       /\ journal \in Nat /\ journalAlt \in Nat /\ hist.cand.cut \in Nat /\ disk \in Nat
       /\ synced \in Nat /\ applied \in Nat
  BY SMTT(30), <1>0 DEF PositionTypes, Topologies, Index
<1> USE <1>0, <1>00
<1>1. CASE Commit
  <2>1. raft'.base = raft.base /\ raft'.commit = raft.commit + 1
    BY <1>1 DEF Commit, PositionTypes
  <2>2. /\ UNCHANGED <<disk, synced, topo, topoAlt, files, journal, journalAlt, pub, deferred>>
        /\ UNCHANGED <<run, applied, poisoned, hist, lease>>
    BY <1>1 DEF Commit, fixed, mem
  <2>3. Bounds'
    BY SMTT(30), <2>1, <2>2 DEF Bounds
  <2>4. Ended' /\ Memory' /\ Kept' /\ Matched'
    BY SMTT(30), <2>1, <2>2 DEF Ended, Memory, Kept, Spared, Matched
  <2>5. Strict'
    BY <2>2, StaysStrict DEF Strict
  <2> QED BY <2>3, <2>4, <2>5
<1>2. CASE Apply
  <2>1. /\ UNCHANGED <<raft, topo, topoAlt, journal, journalAlt, run, poisoned, hist, lease, pub, deferred>>
        /\ run = "up" /\ ~poisoned /\ applied < raft.commit
        /\ applied' = applied + 1 /\ disk' = applied + 1
        /\ synced' = applied + 1 \/ (deferred /\ synced' = synced)
    BY <1>2 DEF Apply, fixed, Up
  <2>2. disk = applied
    BY <2>1 DEF Ended
  <2>3. /\ synced <= synced' /\ applied + 1 <= raft.commit /\ raft.base <= synced' /\ synced' \in Index
        /\ ~deferred => applied' <= synced'
    <3>1. disk' = disk + 1 /\ disk + 1 <= raft.commit /\ disk + 1 \in Index
      BY SMTT(30), <2>1, <2>2 DEF PositionTypes, Index
    <3>2. CASE synced' = applied + 1
      BY SMTT(30), <2>1, <2>2, <3>1, <3>2 DEF Kept, Index
    <3>3. CASE deferred /\ synced' = synced
      <4>1. applied + 1 <= raft.commit
        BY SMTT(30), <2>2, <3>1
      <4> QED BY <3>3, <4>1 DEF Kept
    <3> QED BY <2>1, <3>2, <3>3
  <2>4. Bounds' /\ Kept' /\ applied' <= disk'
    BY SMT, <2>1, <2>3 DEF Bounds, Kept, Spared
  <2>5. Ended' /\ Memory' /\ Matched'
    BY <2>1, <2>4 DEF Ended, Memory, Matched
  <2>6. Strict'
    BY <2>1, <2>3, StaysStrict
  <2> QED BY <2>4, <2>5, <2>6
<1>3. CASE ApplyFails
  <2>1. /\ UNCHANGED <<raft, synced, topo, topoAlt, journal, journalAlt, run, applied, hist, lease, pub,
                       deferred>>
        /\ run = "up" /\ ~poisoned /\ applied < raft.commit
        /\ disk' \in {disk, applied + 1} /\ poisoned'
    BY <1>3 DEF ApplyFails, fixed, Up
  <2>2. Bounds' /\ Ended'
    BY SMT, <2>1 DEF Bounds, Ended
  <2>3. Memory' /\ Kept' /\ Matched'
    BY ZenonT(60), <2>1 DEF Memory, Kept, Spared, Matched
  <2>4. Strict'
    BY <2>1, StaysStrict DEF Strict
  <2> QED BY <2>2, <2>3, <2>4
<1>4. CASE Rotate
  BY SMTT(30), <1>4 DEF Rotate, Up, NoFail, mem, Published, Rotated, PositionTypes, Topologies, Index, Bounds, Ended, Memory, Kept, Spared,
         Matched, Strict, Backed, fixed
<1>5. CASE RotateFails
  BY SMTT(30), <1>5 DEF RotateFails, Up, Fail, PublishFails, Rotated, PositionTypes, Topologies, Index, Bounds, Ended, Memory, Kept, Spared,
         Matched, Strict, Backed, fixed
<1>6. CASE Freeze
  BY SMTT(30), <1>6 DEF Freeze, Up, NoFail, Certain, platter, Candidate, CheckCut, NoCandidate, PositionTypes, Topologies, Index, Bounds, Ended, Memory, Kept, Spared,
         Matched, Strict, Backed, fixed
<1>7. CASE Stage
  BY SMTT(30), <1>7 DEF Stage, Up, NoFail, Certain, PositionTypes, Topologies, Index, Bounds, Ended, Memory, Kept, Spared,
         Matched, Strict, Backed, fixed
<1>8. CASE StageFails
  <2>1. /\ UNCHANGED <<raft, disk, synced, topo, topoAlt, run, applied, poisoned, pub, deferred>>
        /\ run = "up" /\ lease = "fresh"
    BY ZenonT(60), <1>8 DEF StageFails, fixed, Up
  <2>2. CASE journal' = hist.cand.cut /\ journalAlt' = 0 /\ lease' = "durable" /\ UNCHANGED hist
    BY SMTT(30), <2>1, <2>2 DEF Bounds, Ended, Memory, Kept, Spared, Matched, Strict, Backed, PositionTypes, Index
  <2>3. CASE UNCHANGED <<journal, journalAlt, hist>> /\ lease' = "durable"
    <3>1. Bounds' /\ Ended' /\ Memory' /\ Kept' /\ Matched'
      BY <2>1, <2>3 DEF Bounds, Ended, Memory, Kept, Spared, Matched
    <3>2. Strict'
      BY <2>1, StaysStrict DEF Strict
    <3> QED BY <3>1, <3>2
  <2>4. CASE /\ UNCHANGED <<journal, journalAlt>> /\ lease' = "none"
             /\ hist' = [hist EXCEPT !.cand = NoCandidate]
    <3>1. /\ hist'.cand.cut = 0 /\ hist'.selected = hist.selected /\ hist'.compacted = hist.compacted
          /\ hist'.uncertain = hist.uncertain
      BY <2>4, CandidateSet DEF NoCandidate
    <3>2. journal' = 0 /\ journalAlt' = 0
      BY <2>1, <2>4 DEF Memory
    <3>3. Bounds'
      BY SMT, <2>1, <3>1, <3>2 DEF Bounds
    <3>4. Ended' /\ Memory' /\ Kept' /\ Matched'
      BY ZenonT(60), <2>1, <2>4, <3>1, <3>2 DEF Ended, Memory, Kept, Spared, Matched
    <3>5. Strict'
      BY <2>1, StaysStrict DEF Strict
    <3> QED BY <3>3, <3>4, <3>5
  <2> QED BY <1>8, <2>2, <2>3, <2>4 DEF StageFails
<1>9. CASE Claim
  BY SMT, <1>9 DEF Claim, Up, NoFail, Certain, Candidate, CheckCut, NoCandidate, PositionTypes, Topologies, Index, Bounds, Ended, Memory, Kept, Spared,
         Matched, Strict, Backed, fixed
<1>10. CASE Drop
  <2>1. /\ UNCHANGED <<raft, disk, synced, topo, topoAlt, journal, journalAlt, run, applied, poisoned, pub,
                       deferred>>
        /\ run = "up" /\ lease' = "none" /\ hist' = [hist EXCEPT !.cand = Dropped]
    BY <1>10 DEF Drop, fixed, platter, Up
  <2>2. /\ hist'.cand = Dropped /\ hist'.selected = hist.selected /\ hist'.compacted = hist.compacted
        /\ hist'.uncertain = hist.uncertain
    BY <2>1, CandidateSet
  <2>3. Strict'
    BY <2>1, StaysStrict DEF Strict
  <2>4. \/ hist'.cand.cut = hist.cand.cut
        \/ hist'.cand.cut = 0 /\ journal = 0 /\ journalAlt = 0
    <3>1. CASE lease = "durable"
      <4>1. [hist.cand EXCEPT !.claimed = FALSE].cut = hist.cand.cut
        BY DEF Candidates
      <4> QED BY <2>2, <3>1, <4>1 DEF Dropped
    <3>2. CASE lease = "fresh"
      <4>1. Dropped = NoCandidate /\ journal = 0 /\ journalAlt = 0
        BY <3>2 DEF Dropped, Memory
      <4>2. NoCandidate.cut = 0
        BY DEF NoCandidate
      <4> QED BY <2>2, <4>1, <4>2
    <3>3. lease = "durable" \/ lease = "fresh"
      BY <1>10 DEF Drop, IInv, TypeOK
    <3> QED BY <3>1, <3>2, <3>3
  <2>5. Bounds'
    BY SMT, <2>1, <2>4 DEF Bounds
  <2>6. Ended' /\ Memory' /\ Kept' /\ Matched'
    BY SMTT(30), <2>1, <2>2, <2>4 DEF Ended, Memory, Kept, Spared, Matched
  <2> QED BY <2>3, <2>5, <2>6
<1>11. CASE Adopt
  <2> DEFINE cut == pub[Latest]
  <2>1. /\ UNCHANGED <<raft, disk, synced, journal, journalAlt, run, applied, poisoned, lease, pub, deferred>>
        /\ run = "up" /\ ~hist.uncertain /\ ~poisoned
        /\ cut >= hist.compacted /\ cut <= applied /\ topo' = Selected(cut) /\ topoAlt' = Selected(cut)
        /\ hist' = [hist EXCEPT !.selected = cut]
    BY <1>11 DEF Adopt, fixed, Up, Certain, CheckCut, Selectable, Published
  <2>2. Latest \in 1..MaxIndex /\ Latest <= applied /\ cut # 0 /\ cut \in Index
    BY <1>11, LatestPublished DEF Adopt, IInv
  <2>3. /\ hist'.cand = hist.cand /\ hist'.selected = cut /\ hist'.compacted = hist.compacted
        /\ topo'.ck = cut /\ topoAlt'.ck = cut
    BY <2>1, SelectedSet DEF Selected
  <2>4. hist.compacted = raft.base
    BY <2>1 DEF Matched
  <2> HIDE DEF cut
  <2>5. Bounds' /\ Kept'
    <3>1. /\ UNCHANGED <<raft, disk, synced, journal, journalAlt>> /\ hist'.cand = hist.cand
          /\ cut >= hist.compacted /\ cut <= applied /\ applied <= disk /\ cut \in Nat
      BY SMTT(30), <2>1, <2>2, <2>3 DEF Ended, Index
    <3> QED BY SMTT(30), <2>3, <2>4, <3>1 DEF Bounds, Kept, Spared
  <2>6. Ended' /\ Memory' /\ Matched'
    BY <2>1, <2>3, <2>4 DEF Ended, Memory, Matched
  <2>7. Strict'
    <3> SUFFICES ASSUME ~deferred PROVE Strict'
      BY <2>1 DEF Strict
    <3>1. run # "refused" /\ applied <= synced
      BY <2>1 DEF Strict
    <3>2. Latest <= synced /\ pub[Latest] = cut
      BY SMTT(30), <2>2, <3>1 DEF cut, PositionTypes, Index
    <3>3. Backed(topo.ck)' /\ Backed(topoAlt.ck)'
      BY <2>1, <2>2, <2>3, <3>2 DEF Backed
    <3> QED BY <2>1, <3>1, <3>3 DEF Strict
  <2> QED BY <2>5, <2>6, <2>7
<1>12. CASE AdoptFails
  <2> DEFINE cut == pub[Latest]
  <2>1. /\ UNCHANGED <<raft, disk, synced, journal, journalAlt, run, applied, lease, pub, deferred>>
        /\ run = "up" /\ ~hist.uncertain /\ ~poisoned
        /\ cut >= hist.compacted /\ cut <= applied
        /\ hist' = [hist EXCEPT !.uncertain = TRUE]
    BY <1>12 DEF AdoptFails, fixed, Up, Certain, CheckCut, Selectable
  <2>2. Latest \in 1..MaxIndex /\ Latest <= applied /\ cut # 0 /\ cut \in Index
    BY <1>12, LatestPublished DEF AdoptFails, IInv
  <2>3. \/ topo' \in {topo, Selected(cut)} /\ topoAlt' = topo /\ poisoned'
        \/ topo' = Selected(cut) /\ topoAlt' = Selected(cut) /\ poisoned' = poisoned
    BY <1>12 DEF AdoptFails, Published, PublishFails
  <2>4. /\ hist'.cand = hist.cand /\ hist'.uncertain /\ hist.compacted = raft.base
        /\ topo'.ck \in {topo.ck, cut} /\ topoAlt'.ck \in {topo.ck, cut}
    <3>1. hist'.cand = hist.cand /\ hist'.uncertain
      BY <2>1, UncertainSet
    <3>2. hist.compacted = raft.base
      BY <2>1 DEF Matched
    <3>3. Selected(cut).ck = cut
      BY DEF Selected
    <3> QED BY <2>3, <3>1, <3>2, <3>3
  <2> HIDE DEF cut
  <2>5. Bounds' /\ Kept'
    <3>1. /\ UNCHANGED <<raft, disk, synced, journal, journalAlt>> /\ hist'.cand = hist.cand
          /\ cut >= hist.compacted /\ cut <= applied /\ applied <= disk /\ cut \in Nat
      BY SMT, <2>1, <2>2, <2>4 DEF Ended, Index
    <3> QED BY SMTT(30), <2>4, <3>1 DEF Bounds, Kept, Spared
  <2>6. Ended' /\ Memory' /\ Matched'
    BY <2>1, <2>3, <2>4 DEF Ended, Memory, Matched
  <2>7. Strict'
    <3> SUFFICES ASSUME ~deferred PROVE Strict'
      BY <2>1 DEF Strict
    <3>1. run # "refused" /\ applied <= synced /\ Backed(topo.ck)
      BY <2>1 DEF Strict
    <3>2. Latest <= synced /\ pub[Latest] = cut
      BY SMTT(30), <2>2, <3>1 DEF cut, PositionTypes, Index
    <3>3. Backed(topo.ck)' /\ Backed(topoAlt.ck)'
      BY <2>1, <2>2, <2>4, <3>1, <3>2 DEF Backed
    <3> QED BY <2>1, <3>1, <3>3 DEF Strict
  <2> QED BY <2>5, <2>6, <2>7
<1>13. CASE Finish
  BY SMTT(30), <1>13 DEF Finish, Up, NoFail, Certain, NoCandidate, PositionTypes, Topologies, Index, Bounds, Ended, Memory, Kept, Spared,
         Matched, Strict, Backed, fixed
<1>14. CASE FinishFails
  <2>1. /\ UNCHANGED <<raft, disk, synced, topo, topoAlt, run, applied, poisoned, hist, lease, pub, deferred>>
        /\ run = "up" /\ lease = "durable" /\ journal' \in {0, journal} /\ journalAlt' = journal
    BY <1>14 DEF FinishFails, fixed, mem, Up
  <2>2. Bounds'
    BY SMT, <2>1 DEF Bounds
  <2>4. Ended' /\ Memory' /\ Kept' /\ Matched'
    BY <2>1, <2>2 DEF Ended, Memory, Kept, Spared, Matched
  <2>5. Strict'
    BY <2>1, StaysStrict DEF Strict
  <2> QED BY <2>2, <2>4, <2>5
<1>15. CASE Exit
  <2>1. /\ UNCHANGED <<raft, disk, synced, topo, topoAlt, journal, journalAlt, pub, deferred>>
        /\ run' = "down" /\ ~poisoned' /\ hist' = NewHistory(0) /\ lease' = "none"
    BY <1>15 DEF Exit, fixed, platter, Forgotten
  <2>2. hist'.cand.cut = 0
    BY <2>1 DEF NewHistory, NoCandidate
  <2>3. Bounds'
    BY SMTT(30), <2>1, <2>2 DEF Bounds
  <2>4. Ended' /\ Memory' /\ Kept' /\ Matched'
    BY <2>1, <2>2 DEF Ended, Memory, Kept, Spared, Matched
  <2>5. Strict'
    BY <2>1, StaysStrict DEF Strict
  <2> QED BY <2>2, <2>3, <2>4, <2>5
<1>16. CASE PowerLoss
  <2>1. /\ UNCHANGED <<raft, pub, deferred>>
        /\ run' = "down" /\ ~poisoned' /\ hist' = NewHistory(0) /\ lease' = "none"
        /\ disk' \in synced..disk /\ synced' = disk'
        /\ topo' \in {topo, topoAlt} /\ topoAlt' \in {topo, topoAlt}
        /\ journal' \in {journal, journalAlt} /\ journalAlt' \in {journal, journalAlt}
    BY <1>16 DEF PowerLoss, fixed, Forgotten
  <2>2. hist'.cand.cut = 0 /\ topo'.ck \in {topo.ck, topoAlt.ck} /\ topoAlt'.ck \in {topo.ck, topoAlt.ck}
    BY <2>1 DEF NewHistory, NoCandidate
  <2>3. synced' \in Index /\ synced <= synced' /\ disk' <= disk /\ disk' \in Nat
    BY SMT, <2>1 DEF Index
  <2>4. Bounds' /\ Kept'
    <3>1. raft' = raft /\ journal' \in {journal, journalAlt} /\ journalAlt' \in {journal, journalAlt}
      BY <2>1
    <3>2. Bounds'
      <4>1. disk' <= raft.commit /\ 0 <= raft.commit
        BY SMTT(30), <2>3 DEF Bounds
      <4> QED BY <2>2, <3>1, <4>1 DEF Bounds
    <3>3. raft.base <= synced'
      BY SMTT(30), <2>3 DEF Kept, Index
    <3>4. Kept'
      BY <2>2, <3>1, <3>3 DEF Kept, Spared
    <3> QED BY <3>2, <3>4
  <2>5. Ended' /\ Memory' /\ Matched'
    BY <2>1 DEF Ended, Memory, Matched
  <2>6. Strict'
    BY <2>1, <2>3, StaysStrict
  <2> QED BY <2>4, <2>5, <2>6
<1>17. CASE Recover
  <2>1. /\ UNCHANGED <<raft, disk, topo, files, journal, poisoned, lease, pub, deferred>>
        /\ run = "down" /\ ~poisoned /\ lease = "none" /\ hist = NewHistory(0)
    BY <1>17 DEF Recover, fixed, Memory
  <2>2. CASE Recoverable
    <3>1. /\ run' = "up" /\ applied' = disk /\ synced' = disk /\ topoAlt' = topo /\ journalAlt' = journal
          /\ hist' = [NewHistory(topo.ck) EXCEPT !.compacted = raft.base, !.cand = RestoredCandidate]
      BY <1>17, <2>2 DEF Recover, ObservedBase
    <3>2. /\ hist'.selected = topo.ck /\ hist'.compacted = raft.base
          /\ hist'.cand.cut = journal
      <4>1. RestoredCandidate.cut = journal
        BY DEF RestoredCandidate, NoCandidate
      <4> QED BY <3>1, <4>1 DEF NewHistory
    <3>3. Bounds' /\ Kept' /\ applied' <= disk'
      BY SMTT(30), <2>1, <3>1, <3>2 DEF Bounds, Kept, Spared
    <3>4. Ended' /\ Memory' /\ Matched'
      BY <2>1, <3>1, <3>2, <3>3 DEF Ended, Memory, Matched
    <3>5. disk <= disk
      BY SMT
    <3>6. Strict'
      BY <2>1, <3>1, <3>5, StaysStrict
    <3> QED BY <3>3, <3>4, <3>6
  <2>3. CASE ~Recoverable
    <3>1. run' = "refused" /\ UNCHANGED <<applied, synced, topoAlt, journalAlt, hist>>
      BY <1>17, <2>3 DEF Recover
    <3>2. Bounds' /\ Ended' /\ Memory' /\ Kept' /\ Matched'
      BY <2>1, <3>1 DEF Bounds, Ended, Memory, Kept, Spared, Matched
    <3>3. deferred
      <4> SUFFICES ASSUME ~deferred PROVE Recoverable
        BY <2>3
      <4>1. topo.starts \subseteq files /\ ValidTopology(topo)
        BY DEF IInv, Whole, ValidTopology
      <4>2. disk >= raft.base
        BY SMTT(30) DEF Kept
      <4>3. journal # 0 => ConfigurationFound(journal)
        BY DEF ConfigurationFound, Kept, Spared, Bounds
      <4>4. ASSUME topo.ck # 0 PROVE ConfigurationFound(topo.ck) /\ PublicationFound(topo.ck)
        <5>1. raft.base <= topo.ck /\ topo.ck <= raft.commit
          BY <4>4 DEF Kept, Spared, Bounds
        <5>2. PICK i \in 1..MaxIndex : pub[i] = topo.ck /\ i <= synced
          BY <4>4 DEF Strict, Backed
        <5>3. topo.ck < i
          BY <4>4, <5>2
        <5>4. i > topo.ck /\ i <= disk /\ i > raft.base
          BY SMTT(30), <5>1, <5>2, <5>3
        <5>5. i \in Publications
          BY <4>4, <5>2 DEF Publications
        <5> QED BY <5>1, <5>2, <5>4, <5>5 DEF ConfigurationFound, PublicationFound
      <4> QED BY <4>1, <4>2, <4>3, <4>4 DEF Recoverable
    <3>4. Strict'
      BY <2>1, <3>3 DEF Strict
    <3> QED BY <3>2, <3>4
  <2> QED BY <2>2, <2>3
<1>18. ASSUME NEW floor \in 1..MaxIndex, Compact(floor) PROVE (Bounds /\ Ended /\ Memory /\ Kept /\ Matched /\ Strict)'
  <2>1. /\ UNCHANGED <<disk, topo, topoAlt, journal, journalAlt, run, applied, poisoned, lease, pub, deferred>>
        /\ run = "up" /\ ~poisoned /\ floor <= applied /\ ~hist.uncertain /\ synced' = disk
        /\ \A c \in Reserved : floor <= c
    BY <1>18 DEF Compact, fixed, Up, CompactionAllowed, Certain, BarrierSync
  <2>2. /\ topoAlt = topo /\ hist.selected = topo.ck /\ disk = applied
        /\ (journal # 0 => hist.cand.cut = journal) /\ (journalAlt # 0 => hist.cand.cut = journalAlt)
    BY <2>1 DEF Memory, Matched, Ended
  <2>3. (topo.ck # 0 => floor <= topo.ck) /\ (hist.cand.cut # 0 => floor <= hist.cand.cut)
    BY <2>1, <2>2 DEF Reserved
  <2>4. /\ raft'.commit = raft.commit /\ raft'.base \in {raft.base, floor}
        /\ hist'.cand = hist.cand
        /\ hist'.uncertain \/ (hist'.selected = hist.selected /\ hist'.compacted = raft'.base)
    <3>1. raft' \in {raft, [raft EXCEPT !.base = floor]}
      BY <1>18 DEF Compact
    <3>2. [raft EXCEPT !.base = floor].commit = raft.commit /\ [raft EXCEPT !.base = floor].base = floor
      BY DEF PositionTypes
    <3>3. CASE raft' = [raft EXCEPT !.base = floor] /\ hist' = [hist EXCEPT !.compacted = floor]
      BY <3>2, <3>3, CompactedSet
    <3>4. CASE hist' = [hist EXCEPT !.uncertain = TRUE]
      BY <3>1, <3>2, <3>4, UncertainSet
    <3> QED BY <1>18, <3>3, <3>4 DEF Compact
  <2>5. floor \in Nat
    BY SMTT(30)
  <2>6. Bounds' /\ Kept'
    <3>1. UNCHANGED <<disk, topo, topoAlt, journal, journalAlt>> /\ synced' = disk /\ floor <= disk
      BY <2>1, <2>2
    <3> QED BY SMTT(30), <2>2, <2>3, <2>4, <2>5, <3>1 DEF Bounds, Kept, Spared
  <2>7. Ended' /\ Memory' /\ Matched'
    BY <2>1, <2>2, <2>4 DEF Ended, Memory, Matched
  <2>8. Strict'
    <3>1. disk \in Index /\ disk <= disk
      BY SMT
    <3> QED BY <2>1, <2>2, <3>1, StaysStrict
  <2> QED BY <2>6, <2>7, <2>8
<1>19. CASE UNCHANGED vars
  <2>1. /\ UNCHANGED <<raft, disk, synced, topo, topoAlt, files, journal, journalAlt, pub, deferred>>
        /\ UNCHANGED <<run, applied, poisoned, hist, lease>>
    BY <1>19 DEF vars, platter, mem, fixed
  <2>2. Bounds' /\ Ended' /\ Memory' /\ Kept' /\ Matched'
    BY SMTT(30), <2>1 DEF Bounds, Ended, Memory, Kept, Spared, Matched
  <2>3. Strict'
    BY <2>1, StaysStrict DEF Strict
  <2> QED BY <2>2, <2>3
<1> QED BY ZenonT(60), <1>1, <1>2, <1>3, <1>4, <1>5, <1>6, <1>7, <1>8, <1>9, <1>10, <1>11, <1>12, <1>13, <1>14, <1>15, <1>16, <1>17, <1>18, <1>19 DEF Next

------------------------------------------------------------------------------
(***************************************************************************)
(* The invariant and what it says.                                         *)
(***************************************************************************)
\* A new store: nothing committed, one segment, no image.
LEMMA InitInv == Init => IInv
<1> SUFFICES ASSUME Init PROVE IInv
  OBVIOUS
<1>0. /\ MaxIndex \in Nat /\ MaxFailures \in Nat /\ 0 \in Index /\ 0 <= 0 /\ 0 \in 0..MaxFailures
      /\ deferred \in BOOLEAN
  BY SMT, CheckpointStoreAssumption DEF Init, Index
<1>1. topo = [ck |-> 0, starts |-> {0}] /\ topoAlt = [ck |-> 0, starts |-> {0}] /\ files = {0}
  BY DEF Init
<1>2. topo \in Topologies /\ topoAlt \in Topologies
  BY <1>0, <1>1 DEF Topologies
<1>3. raft.base = 0 /\ raft.commit = 0 /\ raft \in [base : Index, commit : Index]
  BY <1>0 DEF Init
<1>4. hist = NewHistory(0) /\ hist.cand.cut = 0 /\ hist.selected = 0 /\ hist.compacted = 0
  BY DEF Init, NewHistory, NoCandidate
<1>5. TypeOK
  BY <1>0, <1>2, <1>3, <1>4, CandidateTypes DEF Init, TypeOK
<1>6. Whole(topo) /\ Whole(topoAlt)
  <2>1. {0} \in SUBSET Nat /\ {0} # {}
    BY SMT
  <2>2. Min({0}) = 0
    BY <2>1, MinOf
  <2> QED BY <1>1, <2>2 DEF Whole
<1>7. /\ topo.ck = 0 /\ topoAlt.ck = 0 /\ journal = 0 /\ journalAlt = 0 /\ disk = 0 /\ synced = 0
      /\ applied = 0 /\ run = "up" /\ lease = "none" /\ topoAlt = topo /\ ~poisoned
  <2>1. topo.ck = 0 /\ topoAlt.ck = 0 /\ topoAlt = topo
    BY <1>1
  <2>2. /\ journal = 0 /\ journalAlt = 0 /\ disk = 0 /\ synced = 0
        /\ applied = 0 /\ run = "up" /\ lease = "none" /\ ~poisoned
    BY DEF Init
  <2> QED BY <2>1, <2>2
<1>8. Bounds /\ Ended /\ Memory /\ Kept /\ Matched /\ Strict
  <2>1. Bounds /\ Kept
    BY SMT, <1>3, <1>4, <1>7 DEF Bounds, Kept, Spared
  <2>2. Ended /\ Memory
    BY <1>0, <1>7 DEF Ended, Memory
  <2>3. Matched
    BY <1>3, <1>4, <1>7 DEF Matched
  <2>4. Strict
    BY <1>0, <1>7 DEF Strict, Backed
  <2> QED BY <2>1, <2>2, <2>3, <2>4
<1>9. \A i \in 1..MaxIndex : pub[i] # 0 => pub[i] < i
  BY DEF Init
<1> QED BY <1>5, <1>6, <1>8, <1>9 DEF IInv

\* Every step keeps the invariant.
LEMMA StepInv == IInv /\ [Next]_vars => IInv'
<1> SUFFICES ASSUME IInv, [Next]_vars PROVE IInv'
  OBVIOUS
<1>1. TypeOK'
  BY MemoryStep, PositionStep DEF TypeOK, MemoryTypes, PositionTypes
<1>2. pub' = pub
  <2>1. CASE UNCHANGED vars
    BY <2>1 DEF vars, fixed
  <2>2. CASE Commit \/ Apply \/ ApplyFails \/ Rotate \/ RotateFails
    BY <2>2 DEF Commit, Apply, ApplyFails, Rotate, RotateFails, fixed
  <2>3. CASE Freeze \/ Stage \/ StageFails \/ Claim \/ Drop
    BY <2>3 DEF Freeze, Stage, StageFails, Claim, Drop, fixed
  <2>4. CASE Adopt \/ AdoptFails \/ Finish \/ FinishFails
    BY <2>4 DEF Adopt, AdoptFails, Finish, FinishFails, fixed
  <2>5. CASE Exit \/ PowerLoss \/ Recover \/ \E floor \in 1..MaxIndex : Compact(floor)
    BY <2>5 DEF Exit, PowerLoss, Recover, Compact, fixed
  <2> QED BY <2>1, <2>2, <2>3, <2>4, <2>5 DEF Next
<1>3. (\A i \in 1..MaxIndex : pub[i] # 0 => pub[i] < i)'
  BY <1>2 DEF IInv
<1> QED BY <1>1, <1>3, SegmentsStep, CutsStep DEF IInv

\* The inductive invariant holds throughout, whatever fails and whenever the
\* process or the power ends.
THEOREM StoreInvariant == Spec => []IInv
<1>1. Init => IInv
  BY InitInv
<1>2. IInv /\ [Next]_vars => IInv'
  BY StepInv
<1> QED BY <1>1, <1>2, PTL DEF Spec

\* Every variable keeps its type.
THEOREM StoreTypes == Spec => []TypeOK
<1>1. IInv => TypeOK
  BY DEF IInv
<1> QED BY <1>1, StoreInvariant, PTL

\* With strict synchronization recovery refuses no store (open_inner).
THEOREM StrictRecovers == Spec => []StrictStoreRecovers
<1>1. IInv => StrictStoreRecovers
  BY DEF IInv, Strict, StrictStoreRecovers
<1> QED BY <1>1, StoreInvariant, PTL

\* No compaction, adoption or unlink removes what recovery reads, whatever a
\* power loss brings back (with_compaction, sync_applied_now,
\* checkpoint_applied, reclaim_obsolete).
THEOREM EvidenceStays == Spec => []EvidenceRetained
<1>1. IInv => EvidenceRetained
  BY DEF IInv, Kept, Spared, Whole, EvidenceRetained
<1> QED BY <1>1, StoreInvariant, PTL

\* The history a running store decides by agrees with its files
\* (CheckpointCandidate::drop, restore_checkpoint_candidate,
\* bind_checkpoint_history).
THEOREM HistoryTrue == Spec => []HistoryMatchesFiles
<1>1. IInv => HistoryMatchesFiles
  BY DEF IInv, Matched, HistoryMatchesFiles, Certain
<1> QED BY <1>1, StoreInvariant, PTL

==============================================================================
