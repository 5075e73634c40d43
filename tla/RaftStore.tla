------------------------------ MODULE RaftStore ------------------------------
(***************************************************************************)
(* The durable Raft log of one replica and the peer that publishes from    *)
(* it: DiskRaftStorage (crates/raft/src/storage.rs, storage/snapshot.rs,   *)
(* storage/configuration.rs) under RaftPeer (rawnode.rs).                  *)
(*                                                                         *)
(* raft.log is one append-only file of checksummed records.  Opening it    *)
(* replays the records into MemStorage; a running peer appends records,    *)
(* synchronizes, updates MemStorage and only then lets messages out.       *)
(* Prefix compaction appends a record; reclamation rewrites the whole file *)
(* and renames it into place.  A write may fail halfway, the process may   *)
(* exit, and a power loss drops any unsynchronized suffix.                 *)
(*                                                                         *)
(* The bytes of a record and its checksum are abstracted: a torn or short  *)
(* record ends the replay, so what survives of an unsynchronized tail is   *)
(* a prefix of its records.  A ConfState is the number of configuration    *)
(* changes applied to reach it, which is enough to tell a change applied   *)
(* twice from a change applied once.  Raft itself is external: an entry is *)
(* determined by its index and term, ConfChanges says which of them change *)
(* the configuration, and `chosen` is the history the group commits.       *)
(***************************************************************************)
EXTENDS Integers, Sequences, FiniteSets, SequencesExt

CONSTANTS
    Candidates,   \* nodes this replica may vote for
    MaxIndex,     \* bound on the log
    MaxTerm,      \* bound on terms
    ConfChanges,  \* positions <<index, term>> of configuration changes
    MaxVoted,     \* bound on the log of a replica that votes
    MaxBatch,     \* entries in one Ready
    MaxRecords,   \* bound on the records of the file
    MaxFailures   \* bound on failed writes and on ends of a healthy process

Indexes == 1..MaxIndex
Terms == 1..MaxTerm

ASSUME RaftStoreAssumption ==
    /\ MaxIndex \in Nat \ {0} /\ MaxTerm \in Nat \ {0} /\ MaxBatch \in Nat
    /\ MaxVoted \in Nat /\ MaxRecords \in Nat /\ MaxFailures \in Nat
    /\ 0 \notin Candidates
    /\ ConfChanges \subseteq Indexes \X Terms

ConfStates == 0..MaxIndex
NoBase == [index |-> 0, term |-> 0, state |-> 0]

VARIABLES
    chosen,     \* external: the terms of the entries the group commits
    file,       \* records of raft.log, in file order
    synced,     \* how many of them are durable
    unrenamed,  \* the file a rename replaced, until the directory is synced
    mem,        \* MemStorage and the histories kept beside it
    writer,     \* the writer slot holds a usable handle
    phase,      \* "down", "open" (no peer yet), "running", "fatal"
    applied,    \* raft_log.applied of the running peer
    told,       \* the promises last let out with a message
    contested,  \* a failed Ready was replacing the log from here on
    ballots,    \* every vote let out, [term, vote]
    failures

vars == <<chosen, file, synced, unrenamed, mem, writer, phase, applied, told,
          contested, ballots, failures>>

Views == [base : 0..MaxIndex, baseTerm : 0..MaxTerm,
          log : [Indexes -> 0..MaxTerm], last : 0..MaxIndex,
          term : 0..MaxTerm, vote : Candidates \cup {0}, commit : 0..MaxIndex,
          conf : ConfStates, confIndex : 0..MaxIndex,
          initial : BOOLEAN, changes : SUBSET [index : Indexes, state : ConfStates],
          ambiguous : BOOLEAN,
          confBase : [index : 0..MaxIndex, term : 0..MaxTerm, state : ConfStates],
          image : 0..MaxIndex,    \* index of the selected protocol snapshot
          refused : BOOLEAN]      \* replay met a record it must not guess about

EmptyView ==
    [base |-> 0, baseTerm |-> 0, log |-> [i \in Indexes |-> 0], last |-> 0,
     term |-> 0, vote |-> 0, commit |-> 0, conf |-> 0, confIndex |-> 0,
     initial |-> FALSE, changes |-> {}, ambiguous |-> FALSE, confBase |-> NoBase,
     image |-> 0, refused |-> FALSE]

(***************************************************************************)
(* MemStorage, external.                                                   *)
(***************************************************************************)
TermAt(v, i) == IF i = v.base THEN v.baseTerm ELSE v.log[i]

\* An appended index replaces the suffix from it on.
MemAppend(v, i, e) ==
    IF i <= v.base \/ i > v.last + 1
    THEN [v EXCEPT !.refused = TRUE]
    ELSE [v EXCEPT !.last = i,
                   !.log = [j \in Indexes |-> IF j < i THEN v.log[j]
                                              ELSE IF j = i THEN e ELSE 0]]

MemSnapshot(v, at) ==
    IF at.index <= v.base
    THEN [v EXCEPT !.refused = TRUE]
    ELSE [v EXCEPT !.base = at.index, !.baseTerm = at.term, !.last = at.index,
                   !.log = [i \in Indexes |-> 0],
                   !.term = IF at.term > v.term THEN at.term ELSE v.term,
                   !.commit = at.index, !.conf = at.state]

(***************************************************************************)
(* What a record does to the view.                                         *)
(***************************************************************************)
\* ConfigurationHistory::initial and ::applied
HistoryInitial(v) ==
    [v EXCEPT !.ambiguous = v.ambiguous \/ v.initial \/ v.changes # {},
              !.initial = TRUE]

HistoryApplied(v, i, s) ==
    [v EXCEPT !.ambiguous = \/ v.ambiguous
                            \/ \E c \in v.changes : c.index > i
                            \/ \E c \in v.changes : c.index = i /\ c.state # s,
              !.changes = IF \E c \in v.changes : c.index = i THEN v.changes
                          ELSE v.changes \cup {[index |-> i, state |-> s]}]

\* apply_snapshot would drop the tail and lower the commit: both are restored.
CompactMemory(v, at) ==
    IF v.base >= at.index THEN v
    ELSE IF at.index > v.last \/ TermAt(v, at.index) # at.term
    THEN [v EXCEPT !.refused = TRUE]
    ELSE [MemSnapshot(v, at) EXCEPT
            !.log = [i \in Indexes |-> IF i > at.index THEN v.log[i] ELSE 0],
            !.last = v.last, !.term = v.term, !.commit = v.commit, !.conf = v.conf]

SetHardState(v, h) == [v EXCEPT !.term = h.term, !.vote = h.vote, !.commit = h.commit]
SetConfState(v, i, s) ==
    [HistoryApplied(v, i, s) EXCEPT !.conf = s, !.confIndex = i]
ConfBaseAt(r) == [index |-> r.index, term |-> r.term, state |-> r.state]

\* A snapshot replaces the prefix and the configuration history with it.
Installed(v, r) ==
    [SetHardState(MemSnapshot(v, r), r.hs) EXCEPT
        !.confIndex = r.index, !.initial = FALSE, !.changes = {}, !.ambiguous = FALSE,
        !.confBase = ConfBaseAt(r), !.image = r.index]

\* validate_transition: an installation moves the commit forward and lowers
\* neither term nor vote.
ValidInstall(v, r) ==
    /\ r.hs.commit = r.index /\ r.hs.term >= r.term
    /\ r.hs.term >= v.term
    /\ r.hs.term = v.term /\ v.vote # 0 => r.hs.vote = v.vote
    /\ r.index > v.commit
    /\ v.commit # 0 => TermAt(v, v.commit) <= r.term

ReplayRecord(v, r) ==
    CASE r.kind = "conf" -> [HistoryInitial(v) EXCEPT !.conf = 0]
      [] r.kind = "confAt" -> SetConfState(v, r.index, r.state)
      [] r.kind = "hard" -> SetHardState(v, r.hs)
      [] r.kind = "entry" -> MemAppend(v, r.index, r.entry)
      [] r.kind = "compaction" ->
            [CompactMemory(v, r) EXCEPT
                !.confBase = IF v.base < r.index THEN ConfBaseAt(r) ELSE v.confBase]
      [] r.kind = "base" ->
            IF v.image # 0 THEN [v EXCEPT !.refused = TRUE]
            ELSE [MemSnapshot(v, r) EXCEPT !.confBase = ConfBaseAt(r)]
      [] r.kind = "snapshot" ->
            IF ValidInstall(v, r) THEN Installed(v, r) ELSE [v EXCEPT !.refused = TRUE]

Replay(f) == FoldLeft(ReplayRecord, EmptyView, f)

ConfRecord == [kind |-> "conf"]
ConfAtRecord(i, s) == [kind |-> "confAt", index |-> i, state |-> s]
HardRecord(h) == [kind |-> "hard", hs |-> h]
EntryRecord(i, e) == [kind |-> "entry", index |-> i, entry |-> e]
CutRecord(kind, i, t, s) == [kind |-> kind, index |-> i, term |-> t, state |-> s]
HardStateOf(v) == [term |-> v.term, vote |-> v.vote, commit |-> v.commit]

(***************************************************************************)
(* The configuration in force at a committed cut.                          *)
(***************************************************************************)
Unavailable == -1

Newest(changes) == CHOOSE c \in changes : \A d \in changes : d.index <= c.index

\* configuration_at_base: the state encoded at the durable base, refused when
\* the indexed history contradicts it.
ConfigurationAtBase(v) ==
    LET upto == {c \in v.changes : c.index <= v.base}
        agrees == IF upto # {} THEN Newest(upto).state = v.confBase.state
                  ELSE v.initial => v.confBase.state = 0
    IN  IF v.confBase.index = v.base /\ v.confBase.term = v.baseTerm
           /\ ~v.ambiguous /\ agrees
        THEN v.confBase.state ELSE Unavailable

UnappliedIgnored(v, from, cut) == FALSE
\* A configuration change above the newest applied one and at or below the cut
\* is committed and not applied yet.
Unapplied(v, from, cut) == \E i \in from + 1..cut : <<i, v.log[i]>> \in ConfChanges

ConfigurationAtCommitted(v, cut) ==
    LET baseState == IF v.base = 0
                     THEN (IF v.initial THEN 0 ELSE Unavailable)
                     ELSE ConfigurationAtBase(v)
        retained == {c \in v.changes : v.base < c.index /\ c.index <= cut}
        from == IF retained = {} THEN v.base ELSE Newest(retained).index
    IN  IF v.ambiguous \/ cut < v.base \/ baseState = Unavailable \/ Unapplied(v, from, cut)
        THEN Unavailable
        ELSE IF retained = {} THEN baseState ELSE Newest(retained).state

\* The configuration a cut of the committed history really has.
TrueConf(cut) == Cardinality({i \in 1..cut : <<i, chosen[i]>> \in ConfChanges})

(***************************************************************************)
(* Opening and starting.                                                   *)
(***************************************************************************)
Nobody == EmptyView

PromiseOf(v) == [term |-> v.term, vote |-> v.vote, commit |-> v.commit,
                 base |-> v.base, last |-> v.last, log |-> v.log]

Init ==
    /\ chosen \in {c \in [Indexes -> Terms] : \A i, j \in Indexes : i < j => c[i] <= c[j]}
    /\ file = <<>> /\ synced = 0 /\ unrenamed = <<>>
    /\ mem = Nobody /\ writer = FALSE /\ phase = "down" /\ applied = 0
    /\ told = PromiseOf(Nobody) /\ contested = MaxIndex + 1 /\ ballots = {} /\ failures = 0

RecoverySyncSkipped(f) == IF file = <<>> THEN 1 ELSE synced
\* The replayed prefix is made durable before it may justify a response.
RecoverySync(f) == Len(f)

\* open_mode: replay, drop the torn tail, synchronize, and on an empty file
\* write the creation configuration.
Open ==
    LET f == IF file = <<>> THEN <<ConfRecord>> ELSE file
    IN  /\ phase = "down"
        /\ ~Replay(f).refused
        /\ file' = f /\ synced' = RecoverySync(f) /\ unrenamed' = <<>>
        /\ mem' = Replay(f) /\ writer' = TRUE /\ phase' = "open"
        /\ UNCHANGED <<chosen, applied, told, contested, ballots, failures>>

\* with_storage, or with_installed_storage when the log has a base: the base
\* was applied by construction, everything above it is delivered again.
StartPeer ==
    /\ phase = "open"
    /\ phase' = "running" /\ applied' = mem.base
    /\ UNCHANGED <<chosen, file, synced, unrenamed, mem, writer, told, contested, ballots, failures>>

(***************************************************************************)
(* One Ready: persist, publish in memory, persist the commit LightReady    *)
(* adds, and only then let the messages out.                               *)
(***************************************************************************)
Fits(f) == Len(f) <= MaxRecords

\* A failed write leaves some prefix of its records in the file and empties
\* the writer slot.
WriteFails(f, recs) ==
    /\ failures < MaxFailures /\ failures' = failures + 1
    /\ \E k \in 0..Len(recs) : file' = f \o SubSeq(recs, 1, k)
    /\ writer' = FALSE

\* What Raft may hand out: entries of some leader from `first` on, above the
\* commit, and a HardState that moves forward.
Batches(first) ==
    {b \in UNION {[1..n -> Terms] : n \in 0..MaxBatch} :
        /\ first + Len(b) - 1 <= MaxIndex
        /\ \A k \in 1..Len(b) :
             TermAt(mem, first - 1) <= b[k] /\ (k > 1 => b[k - 1] <= b[k])
        /\ b # <<>> /\ first <= mem.last => b[1] # mem.log[first]}

Appended(v, first, b) ==
    FoldLeft(LAMBDA w, k : MemAppend(w, first + k - 1, b[k]), v, [k \in 1..Len(b) |-> k])

MatchesChosen(v, n) ==
    /\ n <= v.last
    /\ \A i \in v.base + 1..n : v.log[i] = chosen[i]

LegalHardState(v, h) ==
    /\ h.term >= v.term /\ h.commit >= v.commit
    /\ h.term = v.term /\ v.vote # 0 => h.vote = v.vote
    /\ MatchesChosen(v, h.commit)
    /\ \A i \in v.base + 1..v.last : v.log[i] <= h.term

ReadyRecordsHardFirst(first, b, h) ==
    <<HardRecord(h)>> \o [k \in 1..Len(b) |-> EntryRecord(first + k - 1, b[k])]
\* The records of one Ready: the entries, then the HardState that may commit them.
ReadyRecords(first, b, h) ==
    [k \in 1..Len(b) |-> EntryRecord(first + k - 1, b[k])] \o <<HardRecord(h)>>

\* Messages leave only when everything they rest on was persisted.
LetOut(v, first, persisted) ==
    /\ told' = IF persisted THEN PromiseOf(v) ELSE told
    /\ contested' = IF persisted THEN MaxIndex + 1
                    ELSE IF first < contested THEN first ELSE contested
    /\ ballots' = IF persisted /\ v.vote # 0
                  THEN ballots \cup {[term |-> v.term, vote |-> v.vote]} ELSE ballots

Ready(first, b, h, light) ==
    LET stable == Appended(mem, first, b)
        next == SetHardState(stable, h)
        recs == ReadyRecords(first, b, h)
        more == IF light > h.commit
                THEN <<HardRecord([h EXCEPT !.commit = light])>> ELSE <<>>
        final == IF more = <<>> THEN next ELSE [next EXCEPT !.commit = light]
    IN  /\ phase = "running"
        /\ h.vote # 0 => stable.last <= MaxVoted
        /\ LegalHardState(stable, h)
        /\ b # <<>> /\ first <= mem.last => h.term > mem.log[first]
        /\ light = h.commit \/ LegalHardState(next, [h EXCEPT !.commit = light])
        /\ next # mem
        /\ Fits(file \o recs \o more)
        /\ \/ /\ writer
              /\ file' = file \o recs \o more /\ synced' = Len(file')
              /\ mem' = final
              /\ LetOut(final, first, TRUE)
              /\ UNCHANGED <<writer, phase, failures>>
           \/ /\ writer
              /\ WriteFails(file, recs)
              /\ phase' = "fatal"
              /\ LetOut(next, first, FALSE)
              /\ UNCHANGED <<mem, synced>>
           \/ /\ writer /\ more # <<>>
              /\ WriteFails(file \o recs, more)
              /\ synced' = Len(file) + Len(recs)
              /\ mem' = next /\ phase' = "fatal"
              /\ LetOut(final, first, FALSE)
           \/ /\ ~writer
              /\ phase' = "fatal"
              /\ UNCHANGED <<file, synced, mem, writer, told, contested, ballots, failures>>
        /\ UNCHANGED <<chosen, unrenamed, applied>>

\* A Ready with neither entries nor HardState skips persistence: its messages
\* (a repeated vote or append response) rest on what memory already holds.
Respond ==
    /\ phase = "running" /\ told # PromiseOf(mem)
    /\ LetOut(mem, 0, TRUE)
    /\ UNCHANGED <<chosen, file, synced, unrenamed, mem, writer, phase, applied, failures>>

(***************************************************************************)
(* Ordered apply reaches a committed entry.  A configuration change at or  *)
(* below the recovered boundary is skipped, any other is persisted with    *)
(* its index in one record.                                                *)
(***************************************************************************)
ReplayedNever(i) == FALSE
Replayed(i) == i <= mem.confIndex

ApplyEntry ==
    LET i == applied + 1
        s == mem.conf + 1
        recs == <<ConfAtRecord(i, s)>>
    IN  /\ phase = "running" /\ i <= mem.commit
        /\ \/ /\ <<i, mem.log[i]>> \notin ConfChanges \/ Replayed(i)
              /\ applied' = i
              /\ UNCHANGED <<file, synced, mem, writer, phase, failures>>
           \/ /\ <<i, mem.log[i]>> \in ConfChanges /\ ~Replayed(i)
              /\ Fits(file \o recs)
              /\ \/ /\ writer
                    /\ file' = file \o recs /\ synced' = Len(file')
                    /\ mem' = SetConfState(mem, i, s) /\ applied' = i
                    /\ UNCHANGED <<writer, phase, failures>>
                 \/ /\ writer /\ WriteFails(file, recs)
                    /\ phase' = "fatal"
                    /\ UNCHANGED <<synced, mem, applied>>
                 \/ /\ ~writer /\ phase' = "fatal"
                    /\ UNCHANGED <<file, synced, mem, writer, applied, failures>>
        /\ UNCHANGED <<chosen, unrenamed, told, contested, ballots>>

(***************************************************************************)
(* Prefix compaction (truncate_retained_log, compact_confirmed_prefix).  A *)
(* failed write does not stop the peer: only the writer slot is emptied.   *)
(***************************************************************************)
Compact(i) ==
    LET s == ConfigurationAtCommitted(mem, i)
        r == CutRecord("compaction", i, TermAt(mem, i), s)
    IN  /\ phase = "running" /\ writer
        /\ mem.base < i /\ i <= applied /\ i <= mem.commit
        /\ s # Unavailable
        /\ Fits(Append(file, r))
        /\ \/ /\ file' = Append(file, r) /\ synced' = Len(file')
              /\ mem' = [CompactMemory(mem, r) EXCEPT !.confBase = ConfBaseAt(r)]
              /\ UNCHANGED <<writer, failures>>
           \/ /\ WriteFails(file, <<r>>)
              /\ UNCHANGED <<synced, mem>>
        /\ UNCHANGED <<chosen, unrenamed, phase, applied, told, contested, ballots>>

(***************************************************************************)
(* Reclamation: the live state as a fresh file, renamed into place.        *)
(***************************************************************************)
\* The base is re-encoded with the configuration it had, not the latest one.
BaseState(v) == ConfigurationAtBase(v)

ArrangedHardFirst(base, history, tail, hard) == hard \o base \o history \o tail
\* Replay is last-write-wins and a base lowers the commit: the HardState is last.
Arranged(base, history, tail, hard) == base \o history \o tail \o hard

ReclamationRecords(v) ==
    Arranged(
      IF v.base > 0 THEN <<CutRecord("base", v.base, v.baseTerm, BaseState(v))>> ELSE <<>>,
      (IF v.initial THEN <<ConfRecord>> ELSE <<>>)
        \o [k \in 1..Cardinality(v.changes) |->
              LET c == SetToSortSeq(v.changes, LAMBDA x, y : x.index < y.index)[k]
              IN  ConfAtRecord(c.index, c.state)],
      [k \in 1..v.last - v.base |-> EntryRecord(v.base + k, v.log[v.base + k])],
      <<HardRecord(HardStateOf(v))>>)

\* The handle a completed reclamation appends to, and what is durable of it.
Reopened(f) == [file |-> f, synced |-> Len(f), unrenamed |-> <<>>]

RewriteLog ==
    LET f == ReclamationRecords(mem)
    IN  /\ phase = "running" /\ writer
        /\ mem.image = 0 /\ ~mem.ambiguous
        /\ mem.base > 0 => ConfigurationAtBase(mem) # Unavailable
        /\ f # file
        /\ \/ /\ file' = Reopened(f).file /\ synced' = Reopened(f).synced
              /\ unrenamed' = Reopened(f).unrenamed
              /\ UNCHANGED <<writer, failures>>
           \/ \* past the rename, before the directory is known to be durable
              /\ failures < MaxFailures /\ failures' = failures + 1
              /\ file' = f /\ synced' = Len(f) /\ unrenamed' = file
              /\ writer' = FALSE
        /\ UNCHANGED <<chosen, mem, phase, applied, told, contested, ballots>>

(***************************************************************************)
(* install_protocol_snapshot: one record holds the image and its           *)
(* HardState.  The joint installer runs it on the new store of a fresh     *)
(* generation, before any peer (snapshot_install.rs).                      *)
(***************************************************************************)
InstallSnapshot(i, t, v) ==
    LET r == [kind |-> "snapshot", index |-> i, term |-> chosen[i],
              state |-> TrueConf(i), hs |-> [term |-> t, vote |-> v, commit |-> i]]
    IN  /\ phase = "open" /\ writer
        /\ file = <<ConfRecord>>
        /\ ValidInstall(mem, r)
        /\ Fits(Append(file, r))
        /\ \/ /\ file' = Append(file, r) /\ synced' = Len(file')
              /\ mem' = Installed(mem, r)
              /\ UNCHANGED <<writer, phase, failures>>
           \/ /\ WriteFails(file, <<r>>)
              /\ phase' = "fatal"
              /\ UNCHANGED <<synced, mem>>
        /\ UNCHANGED <<chosen, unrenamed, applied, told, contested, ballots>>

(***************************************************************************)
(* The process ends.  An exit leaves the page cache in place; a power loss *)
(* keeps any prefix of the unsynchronized tail, and either name of a       *)
(* rename that was not yet durable.                                        *)
(***************************************************************************)
Ended ==
    /\ \/ phase = "fatal" /\ UNCHANGED failures
       \/ phase # "fatal" /\ failures < MaxFailures /\ failures' = failures + 1
    /\ phase' = "down" /\ writer' = FALSE /\ mem' = Nobody /\ applied' = 0
    /\ UNCHANGED <<chosen, told, contested, ballots>>

Exit == phase # "down" /\ Ended /\ UNCHANGED <<file, synced, unrenamed>>

PowerLoss ==
    /\ Ended /\ unrenamed' = <<>>
    /\ \/ \E k \in synced..Len(file) : file' = SubSeq(file, 1, k)
       \/ unrenamed # <<>> /\ file' = unrenamed
    /\ synced' = Len(file')

Readies ==
    \E first \in mem.commit + 1..mem.last + 1 : \E b \in Batches(first) :
      \E h \in [term : mem.term..MaxTerm, vote : Candidates \cup {0},
                commit : mem.commit..MaxIndex], light \in mem.commit..MaxIndex :
         h.term > 0 /\ light >= h.commit /\ Ready(first, b, h, light)

Next ==
    \/ Open \/ StartPeer
    \/ Readies \/ Respond
    \/ ApplyEntry
    \/ \E i \in Indexes : Compact(i)
    \/ RewriteLog
    \/ \E i \in Indexes, t \in Terms, v \in Candidates \cup {0} : InstallSnapshot(i, t, v)
    \/ Exit \/ PowerLoss

Spec == Init /\ [][Next]_vars

(***************************************************************************)
(* Properties.                                                             *)
(***************************************************************************)
TypeOK ==
    /\ synced \in 0..Len(file) /\ Len(file) <= MaxRecords + MaxIndex
    /\ mem \in Views 
    /\ told \in [term : 0..MaxTerm,
         vote : Candidates \cup {0}, commit : 0..MaxIndex, base : 0..MaxIndex,
         last : 0..MaxIndex, log : [Indexes -> 0..MaxTerm]]
    /\ writer \in BOOLEAN /\ phase \in {"down", "open", "running", "fatal"}
    /\ applied \in 0..MaxIndex
    /\ contested \in 1..MaxIndex + 1
    /\ ballots \subseteq [term : Terms, vote : Candidates]
    /\ failures \in 0..MaxFailures

\* Whatever the peer reads from MemStorage while its writer is usable is what
\* replaying the file would give: entries, HardState, base, membership and the
\* configuration history.  Compaction, reclamation and snapshot installation
\* update memory and file along different paths (open_mode, the operations).
ReplayEqualsMemory == writer => mem = Replay(file)

\* Every file a power loss can leave opens: replay meets no gap, no entry
\* below the base and no base it cannot take, and the recovered commit lies
\* between the base and the last entry, which RawNode::new requires.  What it
\* recovers as committed is what the group chose: no write, failed write,
\* compaction or reclamation puts another entry at or below the commit.
EveryTailLoads ==
    \A f \in {SubSeq(file, 1, k) : k \in synced..Len(file)} \cup
             (IF unrenamed = <<>> THEN {} ELSE {unrenamed}) :
        LET v == Replay(f)
        IN  /\ ~v.refused
            /\ v.base <= v.commit /\ v.commit <= v.last
            /\ v.confIndex <= v.commit
            /\ \A i \in v.base..v.commit : i > 0 => TermAt(v, i) = chosen[i]

\* No promise that left this replica is forgotten by a restart: the term, the
\* vote of the term, the commit, and every acknowledged entry, unless a Ready
\* that was replacing it had begun to be written when it failed.  No term is
\* told two votes, across any number of restarts.
Up == phase \in {"open", "running"}
PromisesSurvive ==
    /\ Up => /\ mem.term >= told.term /\ mem.commit >= told.commit
             /\ mem.term = told.term => told.vote = 0 \/ mem.vote = told.vote
             /\ \A i \in told.base + 1..told.last :
                   i > mem.base /\ i < contested => i <= mem.last /\ mem.log[i] = told.log[i]
    /\ \A x, y \in ballots : x.term = y.term => x.vote = y.vote

\* The configuration answered for a committed cut is the one in force there,
\* through compaction, reclamation, snapshots and redelivery after a restart.
\* It is available for every cut the running peer has applied, so compaction
\* is never stuck behind its own history (configuration_at_committed).  The
\* membership the peer runs with counts every applied change once.
ConfigurationTrue ==
    Up => /\ mem.conf = TrueConf(mem.confIndex)
          /\ \A cut \in Indexes :
               mem.base <= cut /\ cut <= mem.commit =>
                 LET answer == ConfigurationAtCommitted(mem, cut)
                 IN  \/ answer = TrueConf(cut)
                     \/ answer = Unavailable /\ ~(phase = "running" /\ writer /\ cut <= applied)
=============================================================================
