------------------------------ MODULE Manifest ------------------------------
(***************************************************************************)
(* Publication of checkpoint manifests through the Raft log.               *)
(*                                                                         *)
(* A node freezes an image of its applied state, uploads it, and proposes  *)
(* "replace generation `exp' by this manifest".  Apply decides the         *)
(* compare-and-swap the same way on every replica (raft state_machine.rs), *)
(* and the publication seam (region manifest.rs) turns what the node can   *)
(* observe - its replicated pair, the transition history, the effect page  *)
(* and the receipt of its own proposal - into one settlement.  The worker  *)
(* (server data_checkpoint/worker.rs) keeps the attempt in a flush journal *)
(* until it is settled, and retires its remote objects only on the one     *)
(* refusal that proves the manifest can never be installed.                *)
(*                                                                         *)
(* The consensus group is abstracted to one authoritative log of which     *)
(* only the committed prefix is stable; an election keeps any suffix.      *)
(* Apply is a function of the log prefix, so every entry carries the state *)
(* a replica has after applying it.                                        *)
(***************************************************************************)
EXTENDS Integers, Sequences

CONSTANTS
  Nodes,         \* the replicas of one data group
  MaxLog,        \* bound: entries of the log
  MaxElections,  \* bound: changes of leader
  MaxCrashes,    \* bound: crashes of checkpoint workers' processes
  Crashing,      \* bound: the nodes they happen to
  MaxEpoch,      \* bound: region epoch changes
  PageRows,      \* MAX_MANIFEST_EFFECT_ROWS, rows of one effect page
  None           \* no leader, no attempt, no settlement

ASSUME ManifestAssumption ==
  /\ MaxLog \in Nat /\ MaxElections \in Nat /\ MaxCrashes \in Nat
  /\ MaxEpoch \in Nat
  /\ PageRows \in Nat \ {0}
  /\ None \notin Nodes

VARIABLES
  log,      \* entries [term, kind, change, verdict, after]
  commit,   \* committed length
  leader,   \* the node whose proposals are accepted, or None
  term,
  applied,  \* node -> length of the prefix it has applied
  journal,  \* node -> the FlushJournal's attempt (durable) or None
  job,      \* node -> worker memory, lost by a crash
  settled,  \* node -> settlement of the attempt held in memory, or None
  retired,  \* attempts whose remote objects have been retired
  sent,     \* node -> every attempt it has ever proposed (history variable)
  crashes

vars == <<log, commit, leader, term, applied, journal, job, settled, retired,
          sent, crashes>>
consensus == <<log, commit, leader, term, applied>>

(***************************************************************************)
(* The replicated state and the compare-and-swap.                          *)
(***************************************************************************)

\* The manifest identity: content-derived from generation, scope and cut.
Changes == [exp : 0..MaxLog, cut : 1..MaxLog, epoch : 0..MaxEpoch]

\* hist[g] is the manifest installed as generation g; rev counts the entries
\* that changed user data.
Virgin == [hist |-> <<>>, epoch |-> 0, rev |-> 0]

After(k) == IF k = 0 THEN Virgin ELSE log[k].after
Pair(n) == After(applied[n])

\* checkpoint_error: refused before the compare-and-swap is looked at.
Inadmissible(s, c, index) == c.epoch < s.epoch \/ c.cut >= index

SameChange(s, c) == c.exp + 1 = Len(s.hist) /\ s.hist[c.exp + 1] = c

\* What apply answers to a manifest change at the given index.
Verdict(s, c, index) ==
  CASE Inadmissible(s, c, index) -> "invalid"
    [] ~Inadmissible(s, c, index) /\ c.exp = Len(s.hist) -> "applied"
    [] ~Inadmissible(s, c, index) /\ SameChange(s, c) -> "already"
    [] OTHER -> "stale"

ApplyManifest(s, c, index) ==
  IF Verdict(s, c, index) = "applied" THEN [s EXCEPT !.hist = Append(@, c)] ELSE s

AppendEntry(kind, change, verdict, after) ==
  log' = Append(log, [term |-> term, kind |-> kind, change |-> change,
                      verdict |-> verdict, after |-> after])

(***************************************************************************)
(* The seam's evidence.                                                    *)
(***************************************************************************)

\* classify_reconciliation: what the pair alone says of an attempt.
Classify(s, c) ==
  CASE SameChange(s, c) -> "AlreadyApplied"
    [] Len(s.hist) = c.exp + 1 /\ ~SameChange(s, c) -> "WindowRefused"
    [] OTHER -> "Unknown"

\* Mutants: an unspent predecessor taken for a loss; any later generation
\* taken for the attempt's own.
ReconcileUnchangedAsRefused(s, c) ==
  IF Len(s.hist) = c.exp THEN "WindowRefused"
  ELSE IF s.hist[c.exp + 1] = c THEN "AlreadyApplied" ELSE "WindowRefused"

ReconcileByGeneration(s, c) ==
  IF Len(s.hist) > c.exp THEN "AlreadyApplied" ELSE "Unknown"

\* The pair, and outside its window the recorded transition out of `exp'.
Reconcile(s, c) ==
  IF Len(s.hist) > c.exp + 1
  THEN IF s.hist[c.exp + 1] = c THEN "AlreadyApplied" ELSE "WindowRefused"
  ELSE Classify(s, c)

\* The files of an image: they change with user data and with the pair.
Files(k) == <<After(k).rev, Len(After(k).hist), After(k).epoch>>

\* covers_effect: row w serves everything attempt c would have served.
CoversEffect(w, c) ==
  /\ w.epoch = c.epoch
  /\ w.cut >= c.cut
  /\ Files(w.cut) = Files(c.cut)

\* manifest_effect_page: generations of one page, newest first.
PageOf(s, next) == {g \in 1..Len(s.hist) : g <= next /\ g + PageRows > next}

Positive == {"MyChangeApplied", "AlreadyApplied", "EffectSettled"}
Settlements == Positive \cup {"WindowRefused", "ReceiptRefused", "InvalidRefused"}
ASSUME NoneAssumption == None \notin Settlements

IdleJob == [pc |-> "idle", slot |-> FALSE, attempt |-> None, seen |-> 0,
            next |-> 0, at |-> 0, rev |-> 0, last |-> 0]

Pcs == {"idle", "freeze", "upload", "look", "scan", "send", "wait"}

TypeOK ==
  /\ commit \in 0..Len(log) /\ Len(log) <= MaxLog
  /\ leader \in Nodes \cup {None}
  /\ term \in 0..MaxElections
  /\ \A k \in 1..Len(log) :
       /\ log[k].term \in 0..term
       /\ log[k].change \in Changes \cup {None}
  /\ applied \in [Nodes -> 0..commit]
  /\ journal \in [Nodes -> Changes \cup {None}]
  /\ settled \in [Nodes -> Settlements \cup {None}]
  /\ \A n \in Nodes : job[n].pc \in Pcs /\ job[n].slot \in BOOLEAN
  /\ retired \subseteq Changes
  /\ sent \in [Nodes -> SUBSET Changes]
  /\ crashes \in 0..MaxCrashes

Init ==
  /\ log = <<>> /\ commit = 0 /\ leader = None /\ term = 0
  /\ applied = [n \in Nodes |-> 0]
  /\ journal = [n \in Nodes |-> None]
  /\ job = [n \in Nodes |-> IdleJob]
  /\ settled = [n \in Nodes |-> None]
  /\ retired = {} /\ crashes = 0
  /\ sent = [n \in Nodes |-> {}]

(***************************************************************************)
(* The consensus group.                                                    *)
(***************************************************************************)

unchangedWorkers == UNCHANGED <<journal, job, settled, retired, sent, crashes>>

\* A new leader starts from any log that extends the committed prefix.
Elect(n) ==
  /\ term < MaxElections
  /\ term' = term + 1 /\ leader' = n
  /\ \E k \in commit..Len(log) : log' = SubSeq(log, 1, k)
  /\ UNCHANGED <<commit, applied>> /\ unchangedWorkers

Commit ==
  /\ leader # None /\ commit < Len(log)
  /\ commit' = commit + 1
  /\ UNCHANGED <<log, leader, term, applied>> /\ unchangedWorkers

Apply(n) ==
  /\ applied[n] < commit
  /\ applied' = [applied EXCEPT ![n] = @ + 1]
  /\ UNCHANGED <<log, commit, leader, term>> /\ unchangedWorkers

\* Client writes change user data; a membership or range change the epoch.
Write ==
  /\ leader # None /\ Len(log) < MaxLog
  /\ LET s == After(Len(log)) IN
     \/ AppendEntry("data", None, "ok", [s EXCEPT !.rev = @ + 1])
     \/ s.epoch < MaxEpoch
        /\ AppendEntry("epoch", None, "ok", [s EXCEPT !.epoch = @ + 1])
  /\ UNCHANGED <<commit, leader, term, applied>> /\ unchangedWorkers

(***************************************************************************)
(* One node's checkpoint worker.                                           *)
(***************************************************************************)

SetJob(n, j) == job' = [job EXCEPT ![n] = j]
Yield(n) == [job[n] EXCEPT !.pc = "idle", !.at = 0, !.seen = 0]

\* A settlement the worker remembers; the seam clears its slot.
Settle(n, s) ==
  /\ settled' = [settled EXCEPT ![n] = s]
  /\ SetJob(n, [Yield(n) EXCEPT !.slot = FALSE, !.next = 0])

\* tick, nothing pending: a leader with unpublished data passes the barrier.
Barrier(n) ==
  /\ job[n].pc = "idle" /\ ~job[n].slot
  /\ journal[n] = None /\ settled[n] = None
  /\ leader = n
  /\ Pair(n).rev # job[n].last
  /\ SetJob(n, [job[n] EXCEPT !.pc = "freeze", !.at = commit])
  /\ UNCHANGED <<consensus, journal, settled, retired, sent, crashes>>

\* Mutant: the cut is taken one entry early.
FrozenBeforeApplied(n) ==
  [exp |-> Len(Pair(n).hist), cut |-> applied[n] - 1, epoch |-> Pair(n).epoch]

\* The frozen image names its own predecessor generation and scope.
FrozenChange(n) ==
  [exp |-> Len(Pair(n).hist), cut |-> applied[n], epoch |-> Pair(n).epoch]

\* Freeze, plan and stage: the journal owns recovery from here on.
Plan(n) ==
  /\ job[n].pc = "freeze" /\ applied[n] >= job[n].at
  /\ LET c == FrozenChange(n) IN
     /\ journal' = [journal EXCEPT ![n] = c]
     /\ SetJob(n, [job[n] EXCEPT !.pc = "idle", !.attempt = c, !.at = 0,
                                 !.rev = Pair(n).rev])
  /\ UNCHANGED <<consensus, settled, retired, sent, crashes>>

\* resume: claim the journal's attempt; exact history may settle it at once.
Resume(n) ==
  /\ job[n].pc = "idle" /\ ~job[n].slot
  /\ settled[n] = None /\ journal[n] # None
  /\ LET c == journal[n]
         verdict == Reconcile(Pair(n), c)
         j == [job[n] EXCEPT !.attempt = c]
     IN IF verdict = "Unknown"
        THEN SetJob(n, [j EXCEPT !.pc = "upload"]) /\ UNCHANGED settled
        ELSE /\ settled' = [settled EXCEPT ![n] = verdict]
             /\ SetJob(n, j)
  /\ UNCHANGED <<consensus, journal, retired, sent, crashes>>

\* Upload and readback succeed: the seam grants the region's slot.
Upload(n) ==
  /\ job[n].pc = "upload"
  /\ SetJob(n, [job[n] EXCEPT !.pc = "look", !.slot = TRUE, !.next = 0])
  /\ UNCHANGED <<consensus, journal, settled, retired, sent, crashes>>

\* The pass fails (remote I/O, ledger, deadline): retried by a later tick.
PassFails(n) ==
  /\ job[n].pc \in {"freeze", "upload"}
  /\ SetJob(n, Yield(n))
  /\ UNCHANGED <<consensus, journal, settled, retired, sent, crashes>>

\* A later tick converges the slot that an earlier pass left occupied.
Converge(n) ==
  /\ job[n].pc = "idle" /\ job[n].slot
  /\ SetJob(n, [job[n] EXCEPT !.pc = "look"])
  /\ UNCHANGED <<consensus, journal, settled, retired, sent, crashes>>

\* converge_running, first half: one read of the pair, then exact history.
Look(n) ==
  /\ job[n].pc = "look"
  /\ LET verdict == Reconcile(Pair(n), job[n].attempt) IN
     IF verdict = "Unknown"
     THEN /\ SetJob(n, [job[n] EXCEPT !.pc = "scan", !.seen = Len(Pair(n).hist)])
          /\ UNCHANGED settled
     ELSE Settle(n, verdict)
  /\ UNCHANGED <<consensus, journal, retired, sent, crashes>>

\* Mutant: a pending attempt is only watched, never sent again.
ScanWithoutSend(n) ==
  /\ job[n].pc = "scan"
  /\ SetJob(n, Yield(n))
  /\ UNCHANGED <<consensus, journal, settled, retired, sent, crashes>>

\* Second half: one effect page, read after the pair and maybe newer than it.
Scan(n) ==
  /\ job[n].pc = "scan"
  /\ LET s == Pair(n)
         latest == Len(s.hist)
         first == IF job[n].next = 0 \/ job[n].next > latest THEN latest ELSE job[n].next
         older == IF first > PageRows THEN first - PageRows ELSE 0
     IN IF \E g \in PageOf(s, first) : CoversEffect(s.hist[g], job[n].attempt)
        THEN Settle(n, "EffectSettled")
        ELSE /\ SetJob(n, [Yield(n) EXCEPT !.next = older, !.pc =
                  IF job[n].seen = job[n].attempt.exp THEN "send" ELSE "idle"])
             /\ UNCHANGED settled
  /\ UNCHANGED <<consensus, journal, retired, sent, crashes>>

\* drive_attempt: propose the same identity; a refusal holds the slot.
Send(n) ==
  /\ job[n].pc = "send"
  /\ IF leader = n /\ Len(log) < MaxLog
     THEN LET c == job[n].attempt
              s == After(Len(log))
              index == Len(log) + 1
          IN /\ AppendEntry("manifest", c, Verdict(s, c, index),
                            ApplyManifest(s, c, index))
             /\ sent' = [sent EXCEPT ![n] = @ \cup {c}]
             /\ SetJob(n, [job[n] EXCEPT !.pc = "wait", !.at = index, !.seen = term])
     ELSE /\ SetJob(n, Yield(n))
          /\ UNCHANGED <<log, sent>>
  /\ UNCHANGED <<commit, leader, term, applied, journal, settled, retired, crashes>>

\* Mutant: a refused receipt taken as proof that the attempt lost its window.
ReceiptSettlementAsWindow(verdict) ==
  CASE verdict = "applied" -> "MyChangeApplied"
    [] verdict = "already" -> "AlreadyApplied"
    [] OTHER -> "WindowRefused"

ReceiptSettlement(verdict) ==
  CASE verdict = "applied" -> "MyChangeApplied"
    [] verdict = "already" -> "AlreadyApplied"
    [] verdict = "stale"   -> "ReceiptRefused"
    [] verdict = "invalid" -> "InvalidRefused"

\* The claim's own entry applied: its verdict settles.  Another entry in its
\* place says nothing of the identity: Unknown, slot held.
Receipt(n) ==
  /\ job[n].pc = "wait" /\ applied[n] >= job[n].at
  /\ LET e == log[job[n].at] IN
     IF e.term = job[n].seen
     THEN Settle(n, ReceiptSettlement(e.verdict))
     ELSE SetJob(n, Yield(n)) /\ UNCHANGED settled
  /\ UNCHANGED <<consensus, journal, retired, sent, crashes>>

\* Mutant: a timeout settles the attempt as refused.
WaitExpiresRefused(n) ==
  /\ job[n].pc = "wait"
  /\ Settle(n, "ReceiptRefused")
  /\ UNCHANGED <<consensus, journal, retired, sent, crashes>>

WaitExpires(n) ==
  /\ job[n].pc = "wait"
  /\ SetJob(n, Yield(n))
  /\ UNCHANGED <<consensus, journal, settled, retired, sent, crashes>>

\* The one refusal that closes admission and retires the objects, in pages.
Retire(n) ==
  /\ settled[n] = "WindowRefused"
  /\ job[n].attempt \notin retired
  /\ retired' = retired \cup {job[n].attempt}
  /\ UNCHANGED <<consensus, journal, job, settled, sent, crashes>>

\* The installed manifest a positive settlement adopts.
Winner(n) == Pair(n).hist[Len(Pair(n).hist)]

\* The last page retired, or the winner adopted, or nothing to do: the
\* journal is cleared and the worker may plan again.
Finish(n) ==
  /\ settled[n] # None
  /\ settled[n] = "WindowRefused" => job[n].attempt \in retired
  /\ settled[n] \in Positive => Winner(n).cut >= job[n].attempt.cut
  /\ journal' = [journal EXCEPT ![n] = None]
  /\ settled' = [settled EXCEPT ![n] = None]
  /\ SetJob(n, [IdleJob EXCEPT !.last =
       IF settled[n] \in Positive /\ job[n].rev # 0 THEN job[n].rev ELSE job[n].last])
  /\ UNCHANGED <<consensus, retired, sent, crashes>>

\* The process dies: seam slot, settlement and revision are gone.
Crash(n) ==
  /\ n \in Crashing /\ crashes < MaxCrashes /\ crashes' = crashes + 1
  /\ job[n] # IdleJob
  /\ SetJob(n, IdleJob)
  /\ settled' = [settled EXCEPT ![n] = None]
  /\ leader' = IF leader = n THEN None ELSE leader
  /\ UNCHANGED <<log, commit, term, applied, journal, retired, sent>>

Worker(n) ==
  \/ Barrier(n) \/ Plan(n) \/ Resume(n) \/ Upload(n) \/ Converge(n)
  \/ Look(n) \/ Scan(n) \/ Send(n) \/ Receipt(n) \/ Retire(n) \/ Finish(n)

Next ==
  \/ Commit \/ Write
  \/ \E n \in Nodes :
       Elect(n) \/ Apply(n) \/ Worker(n) \/ PassFails(n) \/ WaitExpires(n) \/ Crash(n)

Spec == Init /\ [][Next]_vars

(***************************************************************************)
(* Properties.                                                             *)
(***************************************************************************)

Installed(c) == c.exp < Len(After(commit).hist) /\ After(commit).hist[c.exp + 1] = c

\* A positive settlement is true of the committed log: the identity itself is
\* installed at exp + 1, or (EffectSettled) an installed manifest of the same
\* scope serves every file of the attempt at no older a position
\* (region manifest.rs converge_running, drive_attempt).  The manifest the
\* worker then adopts is never older than the attempt: worker.rs finish never
\* meets "settled winner does not cover candidate".
PositiveSettlementTrue ==
  \A n \in Nodes :
    LET c == job[n].attempt IN
    /\ settled[n] \in {"MyChangeApplied", "AlreadyApplied"} => Installed(c)
    /\ settled[n] = "EffectSettled" =>
         \E g \in 1..Len(After(commit).hist) : CoversEffect(After(commit).hist[g], c)
    /\ settled[n] \in Positive => Pair(n).hist # <<>> /\ Winner(n).cut >= c.cut

\* The objects of an attempt are retired only when its manifest is not, and
\* in no extension of the log ever becomes, an installed generation
\* (worker.rs finish, WindowRefused arm).
RetiredNeverInstalled ==
  \A c \in retired :
    /\ Len(After(commit).hist) > c.exp
    /\ \A k \in 0..Len(log) : \A g \in 1..Len(After(k).hist) : After(k).hist[g] # c

\* A node never has two proposals in doubt: whatever it proposed before the
\* attempt in its journal can no longer be installed by a later entry, or is
\* installed already (one journal, one slot per region).  The journal outlives
\* every settlement and every occupied slot: as long as an attempt may still be
\* decided, a crash finds it on disk.
OneUnresolvedAttempt ==
  \A n \in Nodes :
    /\ \A c \in sent[n] \ {journal[n]} :
         Len(After(commit).hist) > c.exp \/ c.epoch < After(commit).epoch
    /\ (job[n].slot \/ settled[n] # None) => journal[n] = job[n].attempt /\ journal[n] # None

\* Installed cuts only move forward, each past the entry that installed its
\* predecessor: no image can miss the publication it supersedes.
CutsFollowPublications ==
  \A k \in 1..Len(log) : log[k].verdict = "applied" =>
    \A j \in 1..(k - 1) : log[j].verdict = "applied" => log[k].change.cut >= j

\* What OBJECT-STORAGE.md says of a re-send: if the original was applied the
\* repeat is answered "already applied", so a refusal means not installed.
RefusedMeansNotInstalled ==
  \A n \in Nodes : settled[n] = "ReceiptRefused" => ~Installed(job[n].attempt)

(***************************************************************************)
(* Liveness.  The group's threads commit and apply; every worker ticks; a  *)
(* remote upload that is retried forever succeeds in the end.              *)
(***************************************************************************)

Fairness ==
  /\ WF_vars(Commit)
  /\ \A n \in Nodes :
       /\ WF_vars(Apply(n))
       /\ WF_vars(Worker(n)) /\ WF_vars(WaitExpires(n))
       /\ SF_vars(Upload(n))

FairSpec == Spec /\ Fairness

\* A journal does not outlive its attempt's decision for ever: a node that
\* stays leader, with room in the log, settles and clears it (worker.rs tick).
JournalSettles ==
  \A n \in Nodes :
    <>[](leader = n /\ Len(log) < MaxLog) => []<>(journal[n] = None)

=============================================================================
