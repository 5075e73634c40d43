--------------------------- MODULE CheckpointStore ---------------------------
(***************************************************************************)
(* One data group's local store: segmented engine WAL, checkpoint history, *)
(* flush journal and the base of the Raft log, through checkpoint          *)
(* adoption, log compaction, failed writes, exits and power losses.        *)
(*                                                                         *)
(* Three files depend on each other without a common transaction.  The WAL *)
(* topology names a checkpoint and drops the segments it covers; the Raft  *)
(* log drops a prefix; the journal names a cut still to be published.      *)
(* Recovery (data_group.rs open_inner) refuses the store unless the        *)
(* checkpoint's own publication batch is in the WAL tail and matches a     *)
(* retained Raft entry, and the pending cut's configuration is retained.   *)
(*                                                                         *)
(* What the group commits is fixed in advance: pub[i] is the cut of the    *)
(* manifest that entry i installs, 0 for any other entry.  Its shape is    *)
(* what Manifest!CutsFollowPublications establishes.                       *)
(***************************************************************************)
EXTENDS Integers, FiniteSets, FiniteSetsExt

CONSTANTS
  MaxIndex,     \* bound: committed entries
  MaxFailures,  \* bound: failed writes, exits and power losses
  SyncModes     \* settings of `deferred' a store may run with

ASSUME CheckpointStoreAssumption ==
  MaxIndex \in Nat /\ MaxFailures \in Nat /\ SyncModes \subseteq BOOLEAN

Index == 0..MaxIndex

VARIABLES
  deferred,  \* KV9_DATA_SYNC_DEFER_BYTES > 0: apply records sync late
  pub,       \* index -> cut of the manifest it installs, or 0 (prophecy)
  raft,      \* [base, commit]: durable Raft log, entries base+1..commit
  disk,      \* last record of the engine WAL in the page cache
  synced,    \* last record of the engine WAL on stable storage
  topo,      \* [ck, starts]: published topology as the file system shows it
  topoAlt,   \* the topology a power loss may bring back
  files,     \* segment files, named by the position they start after
  journal,   \* cut in the flush journal, or 0
  journalAlt,\* the journal a power loss may bring back
  run,       \* "up", "down" or "refused"
  applied,   \* memory: last applied entry
  poisoned,  \* memory: the WAL stream needs recovery
  hist,      \* memory: CheckpointHistory [selected, compacted, uncertain, cand]
  lease,     \* memory: the worker's CheckpointCandidate "none","fresh","durable"
  failures

mem == <<run, applied, poisoned, hist, lease>>
platter == <<raft, disk, synced, topo, topoAlt, files, journal, journalAlt>>
fixed == <<pub, deferred>>
vars == <<fixed, platter, mem, failures>>

Publications == {i \in 1..MaxIndex : pub[i] # 0}
NoCandidate == [cut |-> 0, claimed |-> FALSE]
Candidate(cut) == [cut |-> cut, claimed |-> TRUE]
NewHistory(selected) ==
  [selected |-> selected, compacted |-> 0, uncertain |-> FALSE, cand |-> NoCandidate]

(***************************************************************************)
(* Segments.  `starts' holds the position before each live segment; the    *)
(* last one is the active segment, the others are sealed.                  *)
(***************************************************************************)

EndOf(starts, p) == Min({q \in starts : q > p})

\* checkpoint_applied: closed segments entirely covered by the cut go.
Retained(starts, cut) ==
  {p \in starts : p = Max(starts) \/ EndOf(starts, p) > cut}

\* Topology::validate: missing segments need checkpoint coverage.
ValidTopology(t) == Min(t.starts) = 0 \/ Min(t.starts) <= t.ck

(***************************************************************************)
(* CheckpointHistory.                                                      *)
(***************************************************************************)

Certain == ~hist.uncertain
CheckCut(cut) == cut # 0 /\ cut >= hist.compacted

\* Mutant: a staged cut is not protected.
ReservedSelectedOnly == {hist.selected} \ {0}

\* Positions whose protocol evidence compaction must leave alone.
Reserved == {hist.selected, hist.cand.cut} \ {0}

CompactionAllowed(floor) == Certain /\ floor > 0 /\ \A c \in Reserved : floor <= c

Topologies == [ck : Index, starts : (SUBSET Index) \ {{}}]
Candidates == [cut : Index, claimed : BOOLEAN]
Histories ==
  [selected : Index, compacted : Index, uncertain : BOOLEAN, cand : Candidates]

TypeOK ==
  /\ deferred \in BOOLEAN /\ pub \in [1..MaxIndex -> Index]
  /\ raft \in [base : Index, commit : Index]
  /\ disk \in Index /\ synced \in Index /\ synced <= disk
  /\ topo \in Topologies /\ topoAlt \in Topologies /\ files \subseteq Index
  /\ journal \in Index /\ journalAlt \in Index
  /\ run \in {"up", "down", "refused"}
  /\ applied \in Index /\ poisoned \in BOOLEAN
  /\ hist \in Histories
  /\ lease \in {"none", "fresh", "durable"}
  /\ failures \in 0..MaxFailures

Init ==
  /\ deferred \in SyncModes
  /\ pub \in [1..MaxIndex -> Index]
  /\ \A i \in 1..MaxIndex : pub[i] # 0 =>
       pub[i] < i /\ \A j \in 1..(i - 1) : pub[j] # 0 => pub[i] >= j
  /\ raft = [base |-> 0, commit |-> 0]
  /\ disk = 0 /\ synced = 0
  /\ topo = [ck |-> 0, starts |-> {0}] /\ topoAlt = topo
  /\ files = {0}
  /\ journal = 0 /\ journalAlt = 0
  /\ run = "up" /\ applied = 0 /\ poisoned = FALSE
  /\ hist = NewHistory(0) /\ lease = "none"
  /\ failures = 0

Up == run = "up"
Fail == failures < MaxFailures /\ failures' = failures + 1
NoFail == UNCHANGED failures

(***************************************************************************)
(* Commit and apply.                                                       *)
(***************************************************************************)

\* The group commits; the commit is durable here before anything applies
\* (bound: one committed entry waits to be applied).
Commit ==
  /\ Up /\ raft.commit < MaxIndex /\ raft.commit <= applied
  /\ raft' = [raft EXCEPT !.commit = @ + 1]
  /\ UNCHANGED <<fixed, disk, synced, topo, topoAlt, files, journal, journalAlt, mem>> /\ NoFail

\* append: strict mode synchronizes the record, deferred mode may not yet.
Apply ==
  /\ Up /\ ~poisoned /\ applied < raft.commit
  /\ applied' = applied + 1 /\ disk' = applied + 1
  /\ \/ synced' = applied + 1
     \/ deferred /\ UNCHANGED synced
  /\ UNCHANGED <<fixed, raft, topo, topoAlt, files, journal, journalAlt,
                 run, poisoned, hist, lease>> /\ NoFail

\* A failed append leaves the record or nothing, and the stream poisoned.
ApplyFails ==
  /\ Up /\ ~poisoned /\ applied < raft.commit /\ Fail
  /\ disk' \in {disk, applied + 1}
  /\ poisoned' = TRUE
  /\ UNCHANGED <<fixed, raft, synced, topo, topoAlt, files, journal, journalAlt,
                 run, applied, hist, lease>>

(***************************************************************************)
(* Topology publication: temporary file, rename, directory sync.           *)
(***************************************************************************)

Published(t) == topo' = t /\ topoAlt' = t
PublishFails(t) == topo' \in {topo, t} /\ topoAlt' = topo

Rotated == [topo EXCEPT !.starts = @ \cup {applied}]

\* rotate: seal the active segment, create the next file, publish.
Rotate ==
  /\ Up /\ ~poisoned /\ applied > Max(topo.starts)
  /\ synced' = disk
  /\ files' = files \cup {applied}
  /\ Published(Rotated)
  /\ UNCHANGED <<fixed, raft, disk, journal, journalAlt, mem>> /\ NoFail

RotateFails ==
  /\ Up /\ ~poisoned /\ applied > Max(topo.starts) /\ Fail
  /\ poisoned' = TRUE
  /\ \/ UNCHANGED <<synced, files, topo, topoAlt>>       \* seal failed
     \/ /\ synced' = disk /\ files' = files \cup {applied}
        /\ PublishFails(Rotated)
  /\ UNCHANGED <<fixed, raft, disk, journal, journalAlt, run, applied, hist, lease>>

(***************************************************************************)
(* Planning, staging and settling one attempt.                             *)
(***************************************************************************)

\* freeze_checkpoint_candidate: one reservation at the applied position.
Freeze ==
  /\ Up /\ Certain /\ ~poisoned
  /\ hist.cand = NoCandidate /\ lease = "none" /\ journal = 0
  /\ CheckCut(applied)
  /\ hist' = [hist EXCEPT !.cand = Candidate(applied)]
  /\ lease' = "fresh"
  /\ UNCHANGED <<fixed, platter, run, applied, poisoned>> /\ NoFail

\* stage_with: the candidate counts as durable before the journal is written.
Stage ==
  /\ Up /\ Certain /\ lease = "fresh"
  /\ journal' = hist.cand.cut /\ journalAlt' = hist.cand.cut
  /\ lease' = "durable"
  /\ UNCHANGED <<fixed, raft, disk, synced, topo, topoAlt, files, run, applied, poisoned,
                 hist>> /\ NoFail

\* A failed stage is cancelled only when the journal provably has nothing.
StageFails ==
  /\ Up /\ Certain /\ lease = "fresh" /\ Fail
  /\ \/ /\ journal' = hist.cand.cut /\ journalAlt' = 0    \* renamed, not synced
        /\ lease' = "durable" /\ UNCHANGED hist
     \/ /\ UNCHANGED <<journal, journalAlt>>              \* nothing, load failed
        /\ lease' = "durable" /\ UNCHANGED hist
     \/ /\ UNCHANGED <<journal, journalAlt>>              \* nothing, cancelled
        /\ lease' = "none" /\ hist' = [hist EXCEPT !.cand = NoCandidate]
  /\ UNCHANGED <<fixed, raft, disk, synced, topo, topoAlt, files, run, applied, poisoned>>

\* The worker loads the journal, which makes it durable, and claims it.
Claim ==
  /\ Up /\ Certain /\ journal # 0 /\ lease = "none"
  /\ hist.cand \in {NoCandidate, [cut |-> journal, claimed |-> FALSE]}
  /\ CheckCut(journal)
  /\ journalAlt' = journal
  /\ hist' = [hist EXCEPT !.cand = Candidate(journal)]
  /\ lease' = "durable"
  /\ UNCHANGED <<fixed, raft, disk, synced, topo, topoAlt, files, journal, run, applied,
                 poisoned>> /\ NoFail

\* Mutant: dropping the lease frees the reservation.
DroppedAlways == NoCandidate

\* CheckpointCandidate::drop: a durable reservation stays, unclaimed.
Dropped == IF lease = "durable" THEN [hist.cand EXCEPT !.claimed = FALSE] ELSE NoCandidate

\* The worker is discarded (its pass failed before the stage, or it moved).
Drop ==
  /\ Up /\ lease # "none"
  /\ hist' = [hist EXCEPT !.cand = Dropped]
  /\ lease' = "none"
  /\ UNCHANGED <<fixed, platter, run, applied, poisoned>> /\ NoFail

\* The publication the applied pair names, newest first.
Latest == Max({i \in Publications : i <= applied})
AnyPublished == \E i \in Publications : i <= applied

\* check_selection and the topology the adoption publishes.
Selectable(cut) == cut <= applied /\ cut >= topo.ck
Selected(cut) == [ck |-> cut, starts |-> Retained(topo.starts, cut)]

\* adopt: select the newest installed image, then unlink what it covers.
Adopt ==
  /\ Up /\ Certain /\ ~poisoned /\ AnyPublished
  /\ LET cut == pub[Latest] IN
     /\ CheckCut(cut) /\ Selectable(cut)
     /\ Published(Selected(cut))
     /\ files' = files \ {p \in files : p < Min(Selected(cut).starts)}
     /\ hist' = [hist EXCEPT !.selected = cut]
  /\ UNCHANGED <<fixed, raft, disk, synced, journal, journalAlt, run, applied, poisoned,
                 lease>> /\ NoFail

\* The publication or the unlinking fails: the history becomes uncertain.
AdoptFails ==
  /\ Up /\ Certain /\ ~poisoned /\ AnyPublished /\ Fail
  /\ LET cut == pub[Latest] IN
     /\ CheckCut(cut) /\ Selectable(cut)
     /\ hist' = [hist EXCEPT !.uncertain = TRUE]
     /\ \/ PublishFails(Selected(cut)) /\ poisoned' = TRUE /\ UNCHANGED files
        \/ /\ Published(Selected(cut)) /\ UNCHANGED poisoned
           /\ \E gone \in SUBSET {p \in files : p < Min(Selected(cut).starts)} :
                files' = files \ gone
  /\ UNCHANGED <<fixed, raft, disk, synced, journal, journalAlt, run, applied, lease>>

\* finish: a positive settlement has adopted an image at or past the cut; a
\* refusal keeps nothing.  The journal is cleared, then the reservation.
Settled(cut) ==
  \/ hist.selected >= cut
  \/ \A i \in Publications : i <= applied => pub[i] # cut
Finish ==
  /\ Up /\ Certain /\ lease = "durable"
  /\ Settled(hist.cand.cut)
  /\ journal' = 0 /\ journalAlt' = 0
  /\ hist' = [hist EXCEPT !.cand = NoCandidate]
  /\ lease' = "none"
  /\ UNCHANGED <<fixed, raft, disk, synced, topo, topoAlt, files, run, applied,
                 poisoned>> /\ NoFail

\* The journal's unlink is visible but not synced: the reservation stays.
FinishFails ==
  /\ Up /\ Certain /\ lease = "durable" /\ Fail
  /\ Settled(hist.cand.cut)
  /\ journal' \in {0, journal} /\ journalAlt' = journal
  /\ UNCHANGED <<fixed, raft, disk, synced, topo, topoAlt, files, mem>>

(***************************************************************************)
(* Compaction of the Raft log at a floor the metadata group decided.       *)
(***************************************************************************)

\* Mutant: a barrier that vouches for a record not yet written.
BarrierAhead == synced' = applied + 1

\* sync_applied_now: no replay source goes before its effects are durable.
BarrierSync == synced' = disk

Compact(floor) ==
  /\ Up /\ ~poisoned /\ floor <= applied /\ floor > raft.base
  /\ CompactionAllowed(floor)
  /\ BarrierSync
  /\ \/ /\ raft' = [raft EXCEPT !.base = floor]
        /\ hist' = [hist EXCEPT !.compacted = floor]
        /\ NoFail
     \/ /\ Fail
        /\ raft' \in {raft, [raft EXCEPT !.base = floor]}
        /\ hist' = [hist EXCEPT !.uncertain = TRUE]
  /\ UNCHANGED <<fixed, disk, topo, topoAlt, files, journal, journalAlt, run, applied,
                 poisoned, lease>>

(***************************************************************************)
(* Failure and recovery.                                                   *)
(***************************************************************************)

Forgotten ==
  /\ applied' = 0 /\ poisoned' = FALSE /\ hist' = NewHistory(0) /\ lease' = "none"

\* The process ends; what the page cache holds stays visible.
Exit ==
  /\ Up /\ (poisoned \/ ~Certain \/ failures < MaxFailures)
  /\ failures' = IF poisoned \/ ~Certain THEN failures ELSE failures + 1
  /\ run' = "down" /\ Forgotten
  /\ UNCHANGED <<fixed, platter>>

\* Power fails: unsynchronized records and renames may be gone.
PowerLoss ==
  /\ run \in {"up", "down"} /\ Fail
  /\ run' = "down" /\ Forgotten
  /\ disk' \in synced..disk /\ synced' = disk'
  /\ \E t \in {topo, topoAlt} : topo' = t /\ topoAlt' = t
  /\ \E c \in {journal, journalAlt} : journal' = c /\ journalAlt' = c
  /\ UNCHANGED <<fixed, raft, files>>

\* configuration_at_committed: the cut is at or above the compacted base.
ConfigurationFound(cut) == raft.base <= cut /\ cut <= raft.commit

\* CheckpointRecovery::batch and finish: the selected manifest's own
\* publication is in the recovered tail and in the retained Raft log.
PublicationFound(cut) ==
  \E i \in Publications : pub[i] = cut /\ i > cut /\ i <= disk /\ i > raft.base

\* open_inner, and bind_checkpoint_history when the driver is built.
Recoverable ==
  /\ topo.starts \subseteq files /\ ValidTopology(topo)
  /\ topo.ck # 0 => ConfigurationFound(topo.ck) /\ PublicationFound(topo.ck)
  /\ disk >= raft.base
  /\ journal # 0 => ConfigurationFound(journal)

\* Mutant: the journal is not reserved at recovery.
RestoredNothing == NoCandidate

\* restore_checkpoint_candidate.
RestoredCandidate == IF journal = 0 THEN NoCandidate ELSE [cut |-> journal, claimed |-> FALSE]

\* bind_checkpoint_history, observe_compacted_base.
ObservedBase == raft.base

Recover ==
  /\ run = "down"
  /\ IF Recoverable
     THEN /\ run' = "up" /\ applied' = disk /\ synced' = disk
          /\ topoAlt' = topo /\ journalAlt' = journal
          /\ hist' = [NewHistory(topo.ck) EXCEPT !.compacted = ObservedBase,
                                                 !.cand = RestoredCandidate]
     ELSE run' = "refused" /\ UNCHANGED <<applied, synced, topoAlt, journalAlt, hist>>
  /\ UNCHANGED <<fixed, raft, disk, topo, files, journal, poisoned, lease>> /\ NoFail

Next ==
  \/ Commit \/ Apply \/ ApplyFails \/ Rotate \/ RotateFails
  \/ Freeze \/ Stage \/ StageFails \/ Claim \/ Drop \/ Adopt \/ AdoptFails
  \/ Finish \/ FinishFails \/ Exit \/ PowerLoss \/ Recover
  \/ \E floor \in 1..MaxIndex : Compact(floor)

Spec == Init /\ [][Next]_vars

(***************************************************************************)
(* Properties.                                                             *)
(***************************************************************************)

\* With strict synchronization no order of adoption, rotation, compaction,
\* staging, failed write, exit and power loss leaves a store that recovery
\* refuses to open (data_group.rs open_inner).
StrictStoreRecovers == run = "refused" => deferred

\* The same whatever the mode: deferral "only widens the replayed window".
\* No order of adoption, rotation, compaction, staging, failed write, exit
\* and power loss leaves a store that recovery refuses to open
\* (data_group.rs open_inner).
RecoveryNeverRefused == run # "refused"

\* Whatever a power loss leaves behind, what recovery reads is still there.
\* Compaction keeps the Raft log's base at or below the selected cut, the
\* reserved cut and any cut a journal on disk may still name
\* (CheckpointHistory::with_compaction), and never outruns the engine records
\* that survive (sync_applied_now).  Every record an image does not hold is in
\* a segment file that its topology names (checkpoint_applied,
\* reclaim_obsolete).
EvidenceRetained ==
  /\ \A c \in {topo.ck, topoAlt.ck, journal, journalAlt, hist.cand.cut} \ {0} : raft.base <= c
  /\ raft.base <= synced
  /\ \A t \in {topo, topoAlt} :
       t.starts \subseteq files /\ (Min(t.starts) <= t.ck \/ Min(t.starts) = 0)

\* The history a running store decides by agrees with its three files.  While
\* a journal may name an unsettled cut its reservation is in force, so no other
\* image is planned and no compaction passes it (CheckpointCandidate::drop,
\* restore_checkpoint_candidate); unless it knows it is uncertain, its selected
\* and compacted positions are those of the topology and of the Raft log.
HistoryMatchesFiles ==
  run = "up" =>
    /\ \A c \in {journal, journalAlt} \ {0} : hist.cand.cut = c
    /\ Certain => hist.selected = topo.ck /\ hist.compacted = raft.base

=============================================================================
