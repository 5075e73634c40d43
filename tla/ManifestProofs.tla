--------------------------- MODULE ManifestProofs ----------------------------
(***************************************************************************)
(* The publication protocol's safety properties, for any number of nodes   *)
(* and any length of the log, of the effect page and of the epochs.        *)
(*                                                                         *)
(* None of them is inductive.  What they rest on: an attempt names the     *)
(* prefix it was frozen from (Frozen), the histories of two prefixes of    *)
(* the log agree where both are defined (Grows), the manifest installed as *)
(* generation g was frozen at generation g - 1 (Installs), and a worker    *)
(* that waits at an index where its own term wrote finds its own attempt   *)
(* there (Waits).                                                          *)
(***************************************************************************)
EXTENDS Manifest, TLAPS

(* Leaves are tried with Zenon unless they name another prover.           *)
USE Zenon

Pairs == [hist : Seq(Changes), epoch : 0..MaxEpoch, rev : Nat]
Verdicts == {"ok", "applied", "already", "stale", "invalid"}
Entries == [term : Nat, kind : {"data", "epoch", "manifest"}, change : Changes \cup {None},
            verdict : Verdicts, after : Pairs]
Jobs == [pc : Pcs, slot : BOOLEAN, attempt : Changes \cup {None}, seen : Nat, next : Nat,
         at : Nat, rev : Nat, last : Nat]

LogShape ==
  /\ log \in Seq(Entries) /\ Len(log) <= MaxLog /\ commit \in 0..Len(log)
  /\ leader \in Nodes \cup {None} /\ term \in 0..MaxElections
  /\ \A k \in 1..Len(log) : log[k].term <= term
  /\ applied \in [Nodes -> 0..commit]
Shape ==
  /\ LogShape
  /\ journal \in [Nodes -> Changes \cup {None}]
  /\ job \in [Nodes -> Jobs]
  /\ settled \in [Nodes -> Settlements \cup {None}]
  /\ retired \subseteq Changes
  /\ sent \in [Nodes -> SUBSET Changes]
  /\ crashes \in 0..MaxCrashes

\* The attempt names the generation and the epoch of the prefix it was frozen from.
Frozen(c) ==
  /\ c \in Changes /\ c.cut <= commit
  /\ c.exp = Len(After(c.cut).hist) /\ c.epoch = After(c.cut).epoch

\* An entry and the state after it follow from the state before it.
Follows(s, e, k) ==
  \/ e.kind # "manifest" /\ e.verdict = "ok" /\ e.after.hist = s.hist
  \/ /\ e.kind = "manifest" /\ Frozen(e.change) /\ e.change.cut < k
     /\ e.verdict = Verdict(s, e.change, k)
     /\ e.after = ApplyManifest(s, e.change, k)
Decided(k) == Follows(After(k - 1), log[k], k)

\* A later state keeps what an earlier one installed.
Grows(s, t) ==
  /\ s.epoch <= t.epoch /\ Len(s.hist) <= Len(t.hist)
  /\ \A g \in 1..Len(s.hist) : t.hist[g] = s.hist[g]

Installs(k) ==
  \A g \in 1..Len(After(k).hist) :
    /\ Frozen(After(k).hist[g]) /\ After(k).hist[g].cut < k
    /\ After(k).hist[g].exp = g - 1

History ==
  /\ \A k \in 1..Len(log) : Decided(k)
  /\ \A k \in 0..Len(log) : \A j \in 0..k : Grows(After(j), After(k))
  /\ \A k \in 0..Len(log) : Len(After(k).hist) <= k /\ Installs(k)


\* What a worker may hold at each point of its pass.
Busy == {"upload", "look", "scan", "send", "wait"}
Allows(a, c, t, j) ==
  /\ a = 0 => j.rev = 0 /\ j.last = 0 /\ j.pc # "freeze"
  /\ j.slot \/ t # None \/ j.pc \in Busy => c = j.attempt /\ c # None
  /\ j.pc = "freeze" => c = None /\ t = None /\ ~j.slot
  /\ j.pc \in Busy \ {"upload"} => j.slot
  /\ t # None => j.pc = "idle" /\ ~j.slot
Controls(n) == Allows(applied[n], journal[n], settled[n], job[n])

\* No later entry can install the attempt.
Spent(s, c) == Len(s.hist) > c.exp \/ c.epoch < s.epoch
Has(s, c) == Len(s.hist) > c.exp /\ s.hist[c.exp + 1] = c
Lacks(s, c) == Len(s.hist) > c.exp /\ s.hist[c.exp + 1] # c

\* The journal's attempt was frozen here, and every other one ever sent is decided.
Owns(n) ==
  /\ journal[n] # None => Frozen(journal[n])
  /\ None \notin sent[n]
  /\ \A c \in sent[n] \ {journal[n]} : Spent(After(commit), c)

\* An entry of the worker's own term at the index it waits for is its own.
Waits(n) ==
  LET j == job[n] IN
  j.pc = "wait" =>
    /\ j.at >= 1 /\ j.seen <= term
    /\ j.at > Len(log) => j.seen < term
    /\ j.at <= Len(log) /\ log[j.at].term = j.seen =>
         log[j.at].kind = "manifest" /\ log[j.at].change = j.attempt

\* What each settlement says of the state the node has applied.
Claims(s, c, t) ==
  /\ t \in {"MyChangeApplied", "AlreadyApplied"} => Has(s, c)
  /\ t = "EffectSettled" => \E g \in 1..Len(s.hist) : CoversEffect(s.hist[g], c)
  /\ t = "WindowRefused" => Lacks(s, c)
  /\ t = "ReceiptRefused" => Len(s.hist) > c.exp
  /\ t = "InvalidRefused" => c.epoch < s.epoch
Settles(n) == Claims(Pair(n), job[n].attempt, settled[n])

Retires == \A c \in retired : Lacks(After(commit), c)

Worked(n) == Controls(n) /\ Owns(n) /\ Waits(n) /\ Settles(n)
IInv == Shape /\ History /\ Retires /\ \A n \in Nodes : Worked(n)

------------------------------------------------------------------------------
\* The state after every prefix is a state.
LEMMA PairType == LogShape => \A k \in 0..Len(log) : After(k) \in Pairs
<1> SUFFICES ASSUME LogShape, NEW k \in 0..Len(log) PROVE After(k) \in Pairs
  OBVIOUS
<1>1. CASE k = 0
  <2>1. <<>> \in Seq(Changes) /\ 0 \in 0..MaxEpoch
    BY SMT, ManifestAssumption
  <2> QED BY <1>1, <2>1 DEF After, Virgin, Pairs
<1>2. CASE k # 0
  <2>1. log[k] \in Entries
    BY SMT, <1>2 DEF LogShape
  <2> QED BY <1>2, <2>1 DEF After, Entries
<1> QED BY <1>1, <1>2

\* The same of the next state.
LEMMA NextPairType == LogShape' => (\A k \in 0..Len(log) : After(k) \in Pairs)'
BY PairType, PTL

\* What is kept of the log by a step: a prefix that holds the committed one.
Cut(k) ==
  /\ k \in 0..Len(log) /\ k = Len(log') /\ \A i \in 1..k : log'[i] = log[i]
  /\ commit <= commit' /\ commit' \in 0..k

\* A prefix of the log has the same states.
LEMMA CutAfter == \A k : Cut(k) /\ LogShape => \A j \in 0..k : After(j)' = After(j)
<1> SUFFICES ASSUME NEW k, Cut(k), LogShape, NEW j \in 0..k PROVE After(j)' = After(j)
  OBVIOUS
<1> QED BY SMT DEF After, Cut

\* An attempt stays what it is when the log keeps its committed prefix.
LEMMA FrozenStays ==
    ASSUME LogShape, commit <= commit', commit' \in Nat,
           \A j \in 0..commit : After(j)' = After(j)
    PROVE  \A c : Frozen(c) => Frozen(c)'
<1> SUFFICES ASSUME NEW c, Frozen(c) PROVE Frozen(c)'
  OBVIOUS
<1>1. c \in Changes /\ c.cut \in 0..commit
  BY SMT, ManifestAssumption DEF Frozen, Changes, LogShape
<1>2. After(c.cut)' = After(c.cut)
  BY <1>1
<1> QED BY SMT, <1>1, <1>2 DEF Frozen, LogShape

\* An election, a commit or an application keeps the facts about the log.
LEMMA HistoryCut == ASSUME LogShape, History, NEW k, Cut(k) PROVE History'
<1>1. \A j \in 0..k : After(j)' = After(j)
  BY CutAfter
<1>2. \A c : Frozen(c) => Frozen(c)'
  <2>1. commit <= commit' /\ commit' \in Nat /\ 0..commit \subseteq 0..k
    BY SMT DEF Cut, LogShape
  <2> QED BY <1>1, <2>1, FrozenStays
<1>3. Len(log') = k /\ k \in 0..Len(log)
  BY DEF Cut
<1>4. ASSUME NEW i \in 1..k PROVE Decided(i)'
  <2>1. log'[i] = log[i] /\ After(i - 1)' = After(i - 1) /\ Decided(i)
    BY SMT, <1>1, <1>3 DEF Cut, History, LogShape
  <2>2. Frozen(log[i].change) => Frozen(log[i].change)'
    BY <1>2, <2>1
  <2> QED BY <2>1, <2>2 DEF Decided, Follows
<1>5. ASSUME NEW i \in 0..k PROVE Len(After(i)'.hist) <= i /\ Installs(i)'
  <2>1. After(i)' = After(i) /\ Len(After(i).hist) <= i /\ Installs(i)
    BY SMT, <1>1, <1>3 DEF History
  <2>2. \A g \in 1..Len(After(i).hist) : Frozen(After(i).hist[g])'
    BY <1>2, <2>1 DEF Installs
  <2> QED BY <2>1, <2>2 DEF Installs
<1>6. ASSUME NEW i \in 0..k, NEW j \in 0..i PROVE Grows(After(j), After(i))'
  <2>1. After(i)' = After(i) /\ After(j)' = After(j)
    BY SMT, <1>1, <1>3
  <2>2. Grows(After(j), After(i))
    BY SMT, <1>3 DEF History
  <2> QED BY <2>1, <2>2 DEF Grows
<1> QED BY <1>3, <1>4, <1>5, <1>6 DEF History

\* An entry installs at most its own manifest, as the next generation.
LEMMA FollowsGrows ==
    ASSUME NEW s \in Pairs, NEW e \in Entries, NEW k \in Nat, Follows(s, e, k),
           s.epoch <= e.after.epoch
    PROVE  /\ Grows(s, e.after) /\ Len(e.after.hist) <= Len(s.hist) + 1
           /\ \A g \in 1..Len(e.after.hist) :
                \/ g <= Len(s.hist)
                \/ /\ e.after.hist[g] = e.change /\ e.change.exp = g - 1
                   /\ Frozen(e.change) /\ e.change.cut < k
<1>1. s.hist \in Seq(Changes) /\ e.after.hist \in Seq(Changes)
  BY DEF Pairs, Entries
<1>2. CASE e.after.hist = s.hist
  BY SMT, <1>1, <1>2 DEF Grows
<1>3. CASE e.after.hist # s.hist
  <2>1. /\ e.kind = "manifest" /\ Frozen(e.change) /\ e.change.cut < k
        /\ e.after = ApplyManifest(s, e.change, k) /\ Verdict(s, e.change, k) = "applied"
    BY <1>3 DEF Follows, ApplyManifest
  <2>2. e.change.exp = Len(s.hist)
    BY <2>1 DEF Verdict
  <2>3. e.after.hist = Append(s.hist, e.change) /\ e.change \in Changes
    BY <2>1 DEF ApplyManifest, Frozen, Pairs
  <2> QED BY SMT, <1>1, <2>1, <2>2, <2>3 DEF Grows
<1> QED BY <1>2, <1>3

\* What stays installed twice stays installed.
LEMMA GrowsOn ==
    ASSUME NEW r \in Pairs, NEW s \in Pairs, NEW t \in Pairs, Grows(r, s), Grows(s, t)
    PROVE  Grows(r, t)
<1>1. /\ r.hist \in Seq(Changes) /\ s.hist \in Seq(Changes) /\ t.hist \in Seq(Changes)
      /\ r.epoch \in Int /\ s.epoch \in Int /\ t.epoch \in Int
  BY SMT DEF Pairs
<1> QED BY SMTT(30), <1>1 DEF Grows

\* A write, an epoch change or a proposal keeps the facts about the log.
LEMMA HistoryAppend ==
    ASSUME LogShape, History, NEW e \in Entries, log' = Append(log, e), commit' = commit,
           Follows(After(Len(log)), e, Len(log) + 1), After(Len(log)).epoch <= e.after.epoch
    PROVE  History'
<1>0. PICK N \in Nat : N = Len(log)
  BY SMT DEF LogShape
<1> DEFINE s == After(N)
<1>1. Len(log') = N + 1 /\ log'[N + 1] = e /\ \A i \in 1..N : log'[i] = log[i]
  BY SMT, <1>0 DEF LogShape
<1>2. After(N + 1)' = e.after /\ \A j \in 0..N : After(j)' = After(j)
  BY SMT, <1>0, <1>1 DEF After
<1>3. s \in Pairs /\ e.after \in Pairs /\ Installs(N) /\ Len(s.hist) <= N
  BY SMT, <1>0, <1>1, PairType DEF History, Entries
<1>4. \A c : Frozen(c) => Frozen(c)'
  <2>1. commit \in 0..N
    BY <1>0 DEF LogShape
  <2> QED BY SMT, <1>0, <1>1, <1>2, <2>1, FrozenStays
<1>5. /\ Grows(s, e.after) /\ Len(e.after.hist) <= Len(s.hist) + 1
      /\ \A g \in 1..Len(e.after.hist) :
           \/ g <= Len(s.hist)
           \/ /\ e.after.hist[g] = e.change /\ e.change.exp = g - 1
              /\ Frozen(e.change) /\ e.change.cut < N + 1
  BY SMT, <1>0, <1>1, <1>3, FollowsGrows
<1> HIDE DEF s
<1>6. ASSUME NEW i \in 1..(N + 1) PROVE Decided(i)'
  <2>1. CASE i = N + 1
    <3>1. log'[i] = e /\ After(i - 1)' = s
      BY SMT, <1>0, <1>1, <1>2, <2>1 DEF s
    <3>2. Follows(s, e, i)
      BY <1>0, <2>1 DEF s
    <3>3. Frozen(e.change) => Frozen(e.change)'
      BY <1>4
    <3> QED BY <3>1, <3>2, <3>3 DEF Decided, Follows
  <2>2. CASE i \in 1..N
    <3>1. log'[i] = log[i] /\ After(i - 1)' = After(i - 1) /\ Decided(i)
      BY SMT, <1>0, <1>1, <1>2, <2>2 DEF History
    <3>2. Frozen(log[i].change) => Frozen(log[i].change)'
      BY <1>4, <3>1
    <3> QED BY <3>1, <3>2 DEF Decided, Follows
  <2> QED BY SMT, <1>0, <1>1, <2>1, <2>2
<1>7. ASSUME NEW i \in 0..(N + 1) PROVE Len(After(i)'.hist) <= i /\ Installs(i)'
  <2>1. CASE i = N + 1
    <3>1. After(i)' = e.after /\ e.after.hist \in Seq(Changes) /\ s.hist \in Seq(Changes)
      BY <1>2, <1>3, <2>1 DEF Pairs, s
    <3>2. Len(e.after.hist) <= i
      BY SMTT(30), <1>0, <1>1, <1>3, <1>5, <2>1, <3>1
    <3>3. ASSUME NEW g \in 1..Len(e.after.hist)
          PROVE  /\ Frozen(e.after.hist[g]) /\ e.after.hist[g].cut < i
                 /\ e.after.hist[g].exp = g - 1
      <4>1. CASE g <= Len(s.hist)
        <5>1. e.after.hist[g] = s.hist[g] /\ g \in 1..Len(s.hist)
          BY SMT, <1>5, <3>1, <4>1 DEF Grows
        <5>2. Frozen(s.hist[g]) /\ s.hist[g].cut < N /\ s.hist[g].exp = g - 1
          BY <1>3, <5>1 DEF Installs, s
        <5>3. s.hist[g].cut \in Nat
          BY SMTT(30), <5>2 DEF Frozen, Changes
        <5> QED BY SMTT(30), <1>0, <1>1, <2>1, <5>1, <5>2, <5>3
      <4>2. CASE ~(g <= Len(s.hist))
        BY <1>5, <2>1, <4>2
      <4> QED BY <4>1, <4>2
    <3>4. \A g \in 1..Len(e.after.hist) : Frozen(e.after.hist[g])'
      BY <1>4, <3>3
    <3> QED BY <3>1, <3>2, <3>3, <3>4 DEF Installs
  <2>2. CASE i \in 0..N
    <3>1. After(i)' = After(i) /\ Len(After(i).hist) <= i /\ Installs(i)
      BY <1>0, <1>2, <2>2 DEF History
    <3>2. \A g \in 1..Len(After(i).hist) : Frozen(After(i).hist[g])'
      BY <1>4, <3>1 DEF Installs
    <3> QED BY <3>1, <3>2 DEF Installs
  <2> QED BY SMT, <1>0, <1>1, <2>1, <2>2
<1>8. ASSUME NEW i \in 0..(N + 1), NEW j \in 0..i PROVE Grows(After(j), After(i))'
  <2>1. CASE i \in 0..N
    <3>1. After(i)' = After(i) /\ After(j)' = After(j) /\ Grows(After(j), After(i))
      BY SMT, <1>0, <1>1, <1>2, <2>1 DEF History
    <3> QED BY <3>1 DEF Grows
  <2>2. CASE i = N + 1 /\ j \in 0..N
    <3>1. After(i)' = e.after /\ After(j)' = After(j) /\ Grows(After(j), s)
      BY SMT, <1>0, <1>1, <1>2, <2>2 DEF History, s
    <3>2. After(j) \in Pairs
      BY <1>0, <2>2, PairType
    <3>3. Grows(After(j), e.after)
      BY <1>3, <1>5, <3>1, <3>2, GrowsOn
    <3> QED BY <3>1, <3>3 DEF Grows
  <2>3. CASE i = N + 1 /\ j = N + 1
    <3>1. After(i)' = e.after /\ After(j)' = e.after /\ e.after.epoch \in Int
      BY SMT, <1>2, <1>3, <2>3 DEF Pairs
    <3> QED BY SMT, <3>1 DEF Grows
  <2> QED BY SMT, <1>0, <1>1, <2>1, <2>2, <2>3
<1> QED BY <1>0, <1>1, <1>6, <1>7, <1>8 DEF History

------------------------------------------------------------------------------
\* The steps that move the log, and what all of them keep.
Moves ==
  \/ term' = term /\ log' = log
  \/ term' = term /\ \E e \in Entries : log' = Append(log, e) /\ e.term = term
  \/ term' = term + 1 /\ Cut(Len(log'))
Keeps ==
  /\ LogShape' /\ History' /\ Moves
  /\ commit <= commit' /\ \A j \in 0..commit : After(j)' = After(j)
  /\ \A n \in Nodes : applied[n] <= applied'[n]

\* A step that keeps a prefix of the log.
LEMMA KeepsCut ==
    ASSUME LogShape, History, LogShape', Moves, Cut(Len(log')),
           \A n \in Nodes : applied[n] <= applied'[n]
    PROVE  Keeps
<1>1. PICK k : k = Len(log') /\ Cut(k)
  OBVIOUS
<1>2. History'
  BY <1>1, HistoryCut
<1>3. \A j \in 0..commit : After(j)' = After(j)
  <2>1. 0..commit \subseteq 0..k
    BY SMT, <1>1 DEF Cut, LogShape
  <2> QED BY <1>1, <2>1, CutAfter
<1> QED BY <1>1, <1>2, <1>3 DEF Keeps, Cut

\* A step that appends an entry.
LEMMA KeepsAppend ==
    ASSUME LogShape, History, NEW e \in Entries, log' = Append(log, e),
           UNCHANGED <<commit, leader, term, applied>>, Len(log) < MaxLog, e.term = term,
           Follows(After(Len(log)), e, Len(log) + 1), After(Len(log)).epoch <= e.after.epoch
    PROVE  Keeps
<1>1. LogShape'
  <2>1. log' \in Seq(Entries) /\ Len(log') = Len(log) + 1
        /\ \A k \in 1..Len(log') : log'[k] = IF k = Len(log') THEN e ELSE log[k]
    BY SMT DEF LogShape
  <2>2. commit' \in 0..Len(log') /\ Len(log') <= MaxLog
    BY SMT, <2>1, ManifestAssumption DEF LogShape
  <2>3. \A k \in 1..Len(log') : log'[k].term <= term'
    BY SMTT(30), <2>1, ManifestAssumption DEF LogShape
  <2> QED BY <2>1, <2>2, <2>3 DEF LogShape
<1>2. History'
  BY HistoryAppend
<1>3. \A j \in 0..commit : After(j)' = After(j)
  <2>1. \A j \in 1..commit : log'[j] = log[j]
    BY SMT DEF LogShape
  <2> QED BY SMT, <2>1 DEF After, LogShape
<1>4. commit <= commit' /\ \A n \in Nodes : applied[n] <= applied'[n]
  BY SMT DEF LogShape
<1>5. Moves
  BY DEF Moves
<1> QED BY <1>1, <1>2, <1>3, <1>4, <1>5 DEF Keeps

\* A step of the workers that leaves the group alone.
LEMMA KeepsSame ==
    ASSUME LogShape, History, UNCHANGED <<log, commit, term, applied>>,
           leader' \in Nodes \cup {None}
    PROVE  Keeps
<1>1. LogShape'
  BY DEF LogShape
<1>2. Cut(Len(log')) /\ Moves /\ \A n \in Nodes : applied[n] <= applied'[n]
  BY SMT DEF LogShape, Cut, Moves
<1> QED BY <1>1, <1>2, KeepsCut

\* A new leader starts from a log that holds the committed prefix.
LEMMA ElectKeeps == ASSUME LogShape, History, NEW n \in Nodes, Elect(n) PROVE Keeps
<1>1. PICK k \in commit..Len(log) : log' = SubSeq(log, 1, k)
  BY DEF Elect
<1>2. Len(log') = k /\ log' \in Seq(Entries) /\ \A i \in 1..k : log'[i] = log[i]
      /\ k \in 0..Len(log)
  BY SMT, <1>1 DEF LogShape
<1>3. /\ UNCHANGED <<commit, applied>> /\ term' = term + 1 /\ leader' = n
      /\ term \in Nat /\ term' \in 0..MaxElections
  BY SMTT(30), ManifestAssumption DEF Elect, LogShape
<1>4. Cut(Len(log'))
  BY SMT, <1>1, <1>2, <1>3 DEF Cut, LogShape
<1>5. \A i \in 1..k : log'[i].term <= term'
  <2> SUFFICES ASSUME NEW i \in 1..k PROVE log'[i].term <= term'
    OBVIOUS
  <2>1. log[i] \in Entries /\ log[i].term <= term /\ log'[i] = log[i]
    BY SMT, <1>2 DEF LogShape
  <2> QED BY SMT, <1>3, <2>1 DEF Entries
<1>6. LogShape'
  <2>1. commit' \in 0..Len(log') /\ Len(log') <= MaxLog
    BY SMT, <1>1, <1>2, <1>3, ManifestAssumption DEF LogShape
  <2>2. applied' \in [Nodes -> 0..commit']
    BY <1>3 DEF LogShape
  <2> QED BY <1>2, <1>3, <1>5, <2>1, <2>2 DEF LogShape
<1> QED BY SMT, <1>3, <1>4, <1>6, KeepsCut DEF Moves, LogShape

\* Committing an entry moves the stable prefix forward.
LEMMA CommitKeeps == ASSUME LogShape, History, Commit PROVE Keeps
<1>1. LogShape'
  BY SMT DEF LogShape, Commit
<1>2. Cut(Len(log')) /\ Moves /\ \A n \in Nodes : applied[n] <= applied'[n]
  BY SMT DEF LogShape, Commit, Cut, Moves
<1> QED BY <1>1, <1>2, KeepsCut

\* Applying an entry moves one replica forward.
LEMMA ApplyKeeps == ASSUME LogShape, History, NEW n \in Nodes, Apply(n) PROVE Keeps
<1>1. LogShape'
  BY SMT DEF LogShape, Apply
<1>2. Cut(Len(log')) /\ Moves /\ \A m \in Nodes : applied[m] <= applied'[m]
  BY SMT DEF LogShape, Apply, Cut, Moves
<1> QED BY <1>1, <1>2, KeepsCut

\* A write or an epoch change appends an entry that installs nothing.
LEMMA WriteKeeps == ASSUME LogShape, History, Write PROVE Keeps
<1> DEFINE s == After(Len(log))
<1>1. s \in Pairs /\ term \in Nat
  BY SMT, PairType DEF LogShape
<1>2. PICK e : /\ log' = Append(log, e) /\ e.term = term
               /\ \/ e = [term |-> term, kind |-> "data", change |-> None, verdict |-> "ok",
                          after |-> [s EXCEPT !.rev = @ + 1]]
                  \/ /\ s.epoch < MaxEpoch
                     /\ e = [term |-> term, kind |-> "epoch", change |-> None, verdict |-> "ok",
                             after |-> [s EXCEPT !.epoch = @ + 1]]
  BY DEF Write, AppendEntry
<1> HIDE DEF s
<1>3. e.after \in Pairs /\ e.after.hist = s.hist /\ s.epoch <= e.after.epoch
  <2>1. /\ s = [hist |-> s.hist, epoch |-> s.epoch, rev |-> s.rev]
        /\ s.hist \in Seq(Changes) /\ s.epoch \in 0..MaxEpoch /\ s.rev \in Nat
    BY SMT, <1>1 DEF Pairs
  <2>2. \/ e.after = [hist |-> s.hist, epoch |-> s.epoch, rev |-> s.rev + 1]
        \/ /\ s.epoch < MaxEpoch
           /\ e.after = [hist |-> s.hist, epoch |-> s.epoch + 1, rev |-> s.rev]
    BY SMT, <1>2, <2>1
  <2>3. s.epoch <= s.epoch /\ s.epoch <= s.epoch + 1 /\ s.rev + 1 \in Nat
        /\ (s.epoch < MaxEpoch => s.epoch + 1 \in 0..MaxEpoch)
    BY SMTT(30), <2>1, ManifestAssumption
  <2> QED BY SMT, <2>1, <2>2, <2>3 DEF Pairs
<1>4. e \in Entries /\ e.kind # "manifest" /\ e.verdict = "ok"
  BY SMT, <1>1, <1>2, <1>3 DEF Entries, Verdicts
<1>5. Follows(s, e, Len(log) + 1)
  BY <1>3, <1>4 DEF Follows
<1> QED BY <1>2, <1>3, <1>4, <1>5, KeepsAppend DEF Write, s

\* A busy worker's attempt is the journal's, frozen from a committed prefix.
LEMMA AttemptFrozen ==
    ASSUME NEW n \in Nodes, Controls(n), Owns(n),
           job[n].slot \/ settled[n] # None \/ job[n].pc \in Busy
    PROVE  Frozen(job[n].attempt) /\ journal[n] = job[n].attempt /\ journal[n] # None
BY DEF Controls, Allows, Owns

\* A manifest decided or not, the state after it is one.
LEMMA ManifestType ==
    ASSUME NEW s \in Pairs, NEW c \in Changes, NEW k \in Nat
    PROVE  /\ Verdict(s, c, k) \in Verdicts
           /\ ApplyManifest(s, c, k) \in Pairs
           /\ s.epoch <= ApplyManifest(s, c, k).epoch
<1>1. s.hist \in Seq(Changes) /\ s.epoch \in 0..MaxEpoch /\ s.rev \in Nat
  BY DEF Pairs
<1>2. Append(s.hist, c) \in Seq(Changes)
  BY SMT, <1>1
<1>3. ApplyManifest(s, c, k) = s \/ ApplyManifest(s, c, k) = [s EXCEPT !.hist = Append(s.hist, c)]
  BY DEF ApplyManifest
<1>4. ApplyManifest(s, c, k) \in Pairs /\ s.epoch <= ApplyManifest(s, c, k).epoch
  <2>1. CASE ApplyManifest(s, c, k) = s
    BY SMT, <1>1, <2>1, ManifestAssumption
  <2>2. CASE ApplyManifest(s, c, k) = [s EXCEPT !.hist = Append(s.hist, c)]
    <3>1. s = [hist |-> s.hist, epoch |-> s.epoch, rev |-> s.rev]
      BY DEF Pairs
    <3>2. [s EXCEPT !.hist = Append(s.hist, c)]
            = [hist |-> Append(s.hist, c), epoch |-> s.epoch, rev |-> s.rev]
      BY SMTT(30), <3>1
    <3>3. [s EXCEPT !.hist = Append(s.hist, c)] \in Pairs
      BY <1>1, <1>2, <3>2 DEF Pairs
    <3> QED BY SMT, <1>1, <2>2, <3>2, <3>3, ManifestAssumption
  <2> QED BY <1>3, <2>1, <2>2
<1>5. Verdict(s, c, k) \in Verdicts
  BY DEF Verdict, Verdicts
<1> QED BY <1>4, <1>5

\* A proposal (drive_attempt) appends an entry frozen from a committed prefix.
LEMMA SendKeeps ==
    ASSUME IInv, NEW n \in Nodes, Send(n) PROVE Keeps
<1>0. LogShape /\ History /\ Controls(n) /\ Owns(n) /\ job[n].pc = "send"
  BY DEF IInv, Worked, Shape, Send
<1>1. CASE leader = n /\ Len(log) < MaxLog
  <2> DEFINE c == job[n].attempt
             s == After(Len(log))
             k == Len(log) + 1
             e == [term |-> term, kind |-> "manifest", change |-> c,
                   verdict |-> Verdict(s, c, k), after |-> ApplyManifest(s, c, k)]
  <2>1. Frozen(c) /\ c \in Changes
    BY <1>0, AttemptFrozen DEF Busy, Frozen
  <2>2. s \in Pairs /\ term \in Nat /\ k \in Nat /\ commit < k
    BY SMT, <1>0, PairType DEF LogShape
  <2>3. c.cut < k
    BY SMTT(30), <1>0, <2>1, <2>2 DEF Frozen, Changes, LogShape
  <2>4. log' = Append(log, e) /\ UNCHANGED <<commit, leader, term, applied>>
    BY <1>1 DEF Send, AppendEntry
  <2>5. e \in Entries /\ s.epoch <= e.after.epoch
    BY <2>1, <2>2, ManifestType DEF Entries
  <2>6. Follows(s, e, k) /\ e.term = term
    BY <2>1, <2>3 DEF Follows
  <2> HIDE DEF c, e
  <2> QED BY <1>0, <1>1, <2>4, <2>5, <2>6, KeepsAppend
<1>2. CASE ~(leader = n /\ Len(log) < MaxLog)
  <2>1. UNCHANGED <<log, commit, leader, term, applied>>
    BY <1>2 DEF Send
  <2> QED BY <1>0, <2>1, KeepsSame DEF LogShape
<1> QED BY <1>1, <1>2

------------------------------------------------------------------------------
\* What later states keep.
LEMMA GrowsKeeps ==
    ASSUME NEW s \in Pairs, NEW t \in Pairs, Grows(s, t), NEW c \in Changes
    PROVE  /\ Spent(s, c) => Spent(t, c)
           /\ Has(s, c) => Has(t, c)
           /\ Lacks(s, c) => Lacks(t, c)
           /\ Len(s.hist) > c.exp => Len(t.hist) > c.exp
           /\ c.epoch < s.epoch => c.epoch < t.epoch
<1>1. /\ s.hist \in Seq(Changes) /\ t.hist \in Seq(Changes) /\ s.epoch \in Int /\ t.epoch \in Int
      /\ c.exp \in Nat /\ c.epoch \in Int
  BY SMT DEF Pairs, Changes
<1>2. Len(s.hist) > c.exp => c.exp + 1 \in 1..Len(s.hist)
  BY SMT, <1>1
<1> QED BY SMTT(30), <1>1, <1>2 DEF Grows, Spent, Has, Lacks

\* The committed state and every node's state only grow.
LEMMA Forward ==
    ASSUME LogShape, Keeps
    PROVE  /\ After(commit) \in Pairs /\ After(commit)' \in Pairs
           /\ Grows(After(commit), After(commit)')
           /\ \A n \in Nodes : /\ Pair(n) \in Pairs /\ Pair(n)' \in Pairs
                               /\ Grows(Pair(n), Pair(n)')
<1>1. \A i \in 0..commit : \A k \in 0..commit' : i <= k =>
        /\ After(i) \in Pairs /\ After(k)' \in Pairs
        /\ Grows(After(i), After(k)')
  <2> SUFFICES ASSUME NEW i \in 0..commit, NEW k \in 0..commit', i <= k
               PROVE  After(i) \in Pairs /\ After(k)' \in Pairs /\ Grows(After(i), After(k)')
    OBVIOUS
  <2>1. After(i)' = After(i) /\ i \in 0..Len(log) /\ k \in 0..Len(log') /\ i \in 0..k
    BY SMTT(30) DEF Keeps, LogShape
  <2>2. Grows(After(i)', After(k)')
    BY <2>1 DEF Keeps, History
  <2>3. After(i) \in Pairs
    BY <2>1, PairType
  <2>4. After(k)' \in Pairs
    BY <2>1, NextPairType DEF Keeps
  <2> QED BY <2>1, <2>2, <2>3, <2>4
<1>2. commit \in 0..commit /\ commit' \in 0..commit' /\ commit <= commit'
  BY SMT DEF Keeps, LogShape
<1>3. \A n \in Nodes : applied[n] \in 0..commit /\ applied'[n] \in 0..commit' /\ applied[n] <= applied'[n]
  BY DEF Keeps, LogShape
<1>4. /\ After(commit) \in Pairs /\ After(commit)' \in Pairs
      /\ Grows(After(commit), After(commit)')
  BY <1>1, <1>2
<1>5. \A n \in Nodes : /\ Pair(n) \in Pairs /\ Pair(n)' \in Pairs
                      /\ Grows(Pair(n), Pair(n)')
  BY <1>1, <1>3 DEF Pair
<1> QED BY <1>4, <1>5

\* What an installed manifest covers (covers_effect) it goes on covering.
LEMMA CoversStays ==
    ASSUME LogShape, Keeps
    PROVE  \A w, c : Frozen(w) /\ Frozen(c) /\ CoversEffect(w, c) => CoversEffect(w, c)'
<1> SUFFICES ASSUME NEW w, NEW c, Frozen(w), Frozen(c), CoversEffect(w, c)
             PROVE  CoversEffect(w, c)'
  OBVIOUS
<1>1. w.cut \in 0..commit /\ c.cut \in 0..commit
  BY SMTT(30), ManifestAssumption DEF Frozen, Changes, LogShape
<1>2. After(w.cut)' = After(w.cut) /\ After(c.cut)' = After(c.cut)
  BY <1>1 DEF Keeps
<1>3. Files(w.cut)' = Files(w.cut) /\ Files(c.cut)' = Files(c.cut)
  BY <1>2 DEF Files
<1> QED BY <1>3 DEF CoversEffect

\* The attempts a node owns stay decided.
LEMMA OwnsStays ==
    ASSUME LogShape, Keeps, sent \in [Nodes -> SUBSET Changes],
           NEW m \in Nodes, Owns(m), journal'[m] = journal[m], sent'[m] = sent[m]
    PROVE  Owns(m)'
<1>1. \A c : Frozen(c) => Frozen(c)'
  BY SMTT(30), FrozenStays DEF Keeps, LogShape
<1>2. \A c \in Changes : Spent(After(commit), c) => Spent(After(commit), c)'
  BY Forward, GrowsKeeps DEF Spent
<1> QED BY <1>1, <1>2 DEF Owns

\* Nobody else's entry is taken for the one a worker waits for.
LEMMA WaitsStays ==
    ASSUME LogShape, LogShape', Moves, job \in [Nodes -> Jobs], NEW m \in Nodes, Waits(m),
           job'[m] = job[m]
    PROVE  Waits(m)'
<1> SUFFICES ASSUME job[m].pc = "wait"
             PROVE  /\ job[m].at >= 1 /\ job[m].seen <= term'
                    /\ job[m].at > Len(log') => job[m].seen < term'
                    /\ job[m].at <= Len(log') /\ log'[job[m].at].term = job[m].seen =>
                         /\ log'[job[m].at].kind = "manifest"
                         /\ log'[job[m].at].change = job[m].attempt
  BY DEF Waits
<1>1. PICK i, u : i = job[m].at /\ u = job[m].seen /\ i \in Nat /\ u \in Nat
  BY DEF Jobs
<1>2. /\ i >= 1 /\ u <= term /\ (i > Len(log) => u < term)
      /\ i <= Len(log) /\ log[i].term = u =>
           log[i].kind = "manifest" /\ log[i].change = job[m].attempt
  BY <1>1 DEF Waits
<1>3. term \in Nat /\ Len(log) \in Nat /\ Len(log') \in Nat
  BY SMTT(30) DEF LogShape
<1>4. CASE term' = term /\ log' = log
  BY <1>1, <1>2, <1>4
<1>5. ASSUME term' = term, NEW e \in Entries, log' = Append(log, e), e.term = term
      PROVE  /\ i >= 1 /\ u <= term' /\ (i > Len(log') => u < term')
             /\ i <= Len(log') /\ log'[i].term = u =>
                  log'[i].kind = "manifest" /\ log'[i].change = job[m].attempt
  <2>1. Len(log') = Len(log) + 1 /\ log'[Len(log) + 1] = e
        /\ \A k \in 1..Len(log) : log'[k] = log[k]
    BY SMT, <1>5 DEF LogShape
  <2>2. CASE i = Len(log) + 1
    BY SMT, <1>1, <1>2, <1>3, <1>5, <2>1, <2>2
  <2>3. CASE i # Len(log) + 1
    BY SMTT(30), <1>1, <1>2, <1>3, <1>5, <2>1, <2>3
  <2> QED BY <2>2, <2>3
<1>6. CASE term' = term + 1 /\ Cut(Len(log'))
  BY SMTT(30), <1>1, <1>2, <1>3, <1>6 DEF Cut
<1> QED BY <1>1, <1>4, <1>5, <1>6 DEF Moves

\* What was settled stays true.
LEMMA SettlesStays ==
    ASSUME LogShape, History, Keeps, NEW m \in Nodes, Controls(m), Owns(m), Settles(m),
           job'[m] = job[m], settled'[m] = settled[m]
    PROVE  Settles(m)'
<1>1. CASE settled[m] = None
  BY <1>1, NoneAssumption DEF Settles, Claims, Settlements, Positive
<1>2. CASE settled[m] # None
  <2>1. PICK c, s, t : c = job[m].attempt /\ s = Pair(m) /\ t = Pair(m)'
    OBVIOUS
  <2>2. Frozen(c) /\ c \in Changes
    BY <1>2, <2>1, AttemptFrozen DEF Frozen
  <2>3. s \in Pairs /\ t \in Pairs /\ Grows(s, t)
    BY <2>1, Forward
  <2>4. /\ Has(s, c) => Has(t, c)
        /\ Lacks(s, c) => Lacks(t, c)
        /\ Len(s.hist) > c.exp => Len(t.hist) > c.exp
        /\ c.epoch < s.epoch => c.epoch < t.epoch
    BY <2>2, <2>3, GrowsKeeps
  <2>5. ASSUME NEW g \in 1..Len(s.hist), CoversEffect(s.hist[g], c)
        PROVE  \E h \in 1..Len(t.hist) : CoversEffect(t.hist[h], c)'
    <3>1. PICK w : w = s.hist[g]
      OBVIOUS
    <3>2. Frozen(w)
      BY SMTT(30), <2>1, <3>1 DEF History, Installs, Pair, LogShape
    <3>3. CoversEffect(w, c)'
      BY <2>2, <2>5, <3>1, <3>2, CoversStays
    <3>4. g \in 1..Len(t.hist) /\ t.hist[g] = w
      BY SMTT(30), <2>3, <3>1 DEF Grows, Pairs
    <3> QED BY <3>3, <3>4
  <2> QED BY <2>1, <2>4, <2>5 DEF Settles, Claims
<1> QED BY <1>1, <1>2

\* A node that does not step keeps its facts.
LEMMA Bystander ==
    ASSUME Shape, History, Keeps, NEW m \in Nodes, Worked(m),
           job'[m] = job[m], journal'[m] = journal[m], settled'[m] = settled[m], sent'[m] = sent[m]
    PROVE  Worked(m)'
<1>1. Controls(m)'
  <2>1. /\ applied[m] \in 0..commit /\ applied'[m] \in 0..commit' /\ applied[m] <= applied'[m]
    BY DEF Keeps, Shape, LogShape
  <2>2. applied'[m] = 0 => applied[m] = 0
    BY SMT, <2>1
  <2> QED BY <2>2 DEF Worked, Controls, Allows
<1>2. Owns(m)'
  BY OwnsStays DEF Worked, Shape
<1>3. Waits(m)'
  BY WaitsStays DEF Worked, Shape, Keeps
<1>4. Settles(m)'
  BY SettlesStays DEF Worked, Shape
<1> QED BY <1>1, <1>2, <1>3, <1>4 DEF Worked

\* What a retired attempt lost stays lost.
LEMMA RetiresStays ==
    ASSUME Shape, Keeps, Retires, retired' = retired PROVE Retires'
<1>1. \A c \in Changes : Lacks(After(commit), c) => Lacks(After(commit), c)'
  BY Forward, GrowsKeeps DEF Shape, Lacks
<1> QED BY <1>1 DEF Retires, Shape

------------------------------------------------------------------------------
\* A step of one worker that leaves the log alone: the worker goes on with job j,
\* journal w and settlement t.
LEMMA JobStep ==
    ASSUME IInv, NEW n \in Nodes, NEW j \in Jobs, NEW t \in Settlements \cup {None},
           NEW w \in Changes \cup {None},
           job' = [job EXCEPT ![n] = j], settled' = [settled EXCEPT ![n] = t],
           journal' = [journal EXCEPT ![n] = w], UNCHANGED <<log, commit, term, applied, sent>>,
           leader' \in Nodes \cup {None}, crashes' \in 0..MaxCrashes, j.pc # "wait",
           retired' \subseteq Changes, Retires', Owns(n)',
           Allows(applied[n], w, t, j), Claims(Pair(n), j.attempt, t)
    PROVE  IInv'
<1>1. Shape /\ History /\ LogShape /\ \A m \in Nodes : Worked(m)
  BY DEF IInv, Shape
<1>2. Keeps
  BY <1>1, KeepsSame
<1>3. Shape'
  BY <1>1, <1>2 DEF Shape, Keeps
<1>4. job'[n] = j /\ settled'[n] = t /\ journal'[n] = w
  BY <1>1 DEF Shape
<1>5. Controls(n)' /\ Waits(n)'
  BY <1>4 DEF Controls, Waits
<1>6. Settles(n)'
  <2>1. PICK s : s = Pair(n) /\ s = Pair(n)'
    BY DEF Pair, After
  <2>2. \A x : CoversEffect(x, j.attempt)' <=> CoversEffect(x, j.attempt)
    BY DEF CoversEffect, Files, After
  <2>3. Claims(s, j.attempt, t)'
    BY <2>1, <2>2 DEF Claims
  <2> QED BY <1>4, <2>1, <2>3 DEF Settles
<1>7. ASSUME NEW m \in Nodes, m # n PROVE Worked(m)'
  BY <1>1, <1>2, <1>7, Bystander DEF Shape
<1> QED BY <1>2, <1>3, <1>5, <1>6, <1>7 DEF IInv, Keeps, Worked

\* The steps that also leave the journals and the objects alone.
LEMMA PassStep ==
    ASSUME IInv, NEW n \in Nodes, NEW j \in Jobs, NEW t \in Settlements \cup {None},
           job' = [job EXCEPT ![n] = j], settled' = [settled EXCEPT ![n] = t],
           UNCHANGED <<log, commit, term, applied, journal, retired, sent>>,
           leader' \in Nodes \cup {None}, crashes' \in 0..MaxCrashes, j.pc # "wait",
           Allows(applied[n], journal[n], t, j), Claims(Pair(n), j.attempt, t)
    PROVE  IInv'
<1>1. Shape /\ History /\ Retires /\ LogShape /\ Owns(n)
  BY DEF IInv, Shape, Worked
<1>2. Keeps
  BY <1>1, KeepsSame
<1>3. Retires'
  BY <1>1, <1>2, RetiresStays
<1>4. Owns(n)'
  BY <1>1, <1>2, OwnsStays DEF Shape
<1>5. journal' = [journal EXCEPT ![n] = journal[n]] /\ journal[n] \in Changes \cup {None}
  BY <1>1 DEF Shape
<1> QED BY <1>1, <1>3, <1>4, <1>5, JobStep DEF Shape

\* Without a settlement there is nothing to claim.
LEMMA NoClaim == \A s, c : Claims(s, c, None)
BY NoneAssumption DEF Claims, Settlements, Positive

\* The barrier (tick) is passed only by a node that has applied something.
LEMMA BarrierStep == ASSUME IInv, NEW n \in Nodes, Barrier(n) PROVE IInv'
<1> DEFINE j == [job[n] EXCEPT !.pc = "freeze", !.at = commit]
<1>1. job[n] \in Jobs /\ commit \in Nat /\ Controls(n) /\ settled[n] = None /\ Shape
  BY SMT DEF IInv, Shape, LogShape, Worked, Barrier
<1>2. j \in Jobs /\ j.pc = "freeze" /\ j.slot = job[n].slot /\ j.rev = job[n].rev /\ j.last = job[n].last
  BY <1>1 DEF Jobs, Pcs
<1>3. applied[n] # 0
  BY <1>1 DEF Barrier, Pair, After, Virgin, Controls, Allows
<1>4. Allows(applied[n], journal[n], None, j)
  BY <1>1, <1>2, <1>3 DEF Allows, Controls, Barrier, Busy
<1>5. settled' = [settled EXCEPT ![n] = None] /\ job' = [job EXCEPT ![n] = j]
  BY <1>1 DEF Barrier, Shape, SetJob
<1> HIDE DEF j
<1> QED BY ZenonT(60), <1>1, <1>2, <1>4, <1>5, PassStep, NoClaim DEF Barrier, consensus, Shape, LogShape

\* A tick goes back to the attempt whose slot is occupied.
LEMMA ConvergeStep == ASSUME IInv, NEW n \in Nodes, Converge(n) PROVE IInv'
<1> DEFINE j == [job[n] EXCEPT !.pc = "look"]
<1>1. job[n] \in Jobs /\ Controls(n) /\ settled[n] = None /\ Shape
  BY DEF IInv, Shape, Worked, Converge, Controls, Allows
<1>2. /\ j \in Jobs /\ j.pc = "look" /\ j.slot = job[n].slot /\ j.rev = job[n].rev
      /\ j.last = job[n].last /\ j.attempt = job[n].attempt
  BY <1>1 DEF Jobs, Pcs
<1>3. Allows(applied[n], journal[n], None, j)
  BY <1>1, <1>2 DEF Allows, Controls, Converge, Busy
<1>4. settled' = [settled EXCEPT ![n] = None] /\ job' = [job EXCEPT ![n] = j]
  BY <1>1 DEF Converge, Shape, SetJob
<1> HIDE DEF j
<1> QED BY ZenonT(60), <1>1, <1>2, <1>3, <1>4, PassStep, NoClaim DEF Converge, consensus, Shape, LogShape

\* The slot is granted to the journal's attempt.
LEMMA UploadStep == ASSUME IInv, NEW n \in Nodes, Upload(n) PROVE IInv'
<1> DEFINE j == [job[n] EXCEPT !.pc = "look", !.slot = TRUE, !.next = 0]
<1>1. job[n] \in Jobs /\ Controls(n) /\ settled[n] = None /\ Shape
  BY DEF IInv, Shape, Worked, Upload, Controls, Allows
<1>2. /\ j \in Jobs /\ j.pc = "look" /\ j.slot = TRUE /\ j.rev = job[n].rev
      /\ j.last = job[n].last /\ j.attempt = job[n].attempt
  BY <1>1 DEF Jobs, Pcs
<1>3. Allows(applied[n], journal[n], None, j)
  BY <1>1, <1>2 DEF Allows, Controls, Upload, Busy
<1>4. settled' = [settled EXCEPT ![n] = None] /\ job' = [job EXCEPT ![n] = j]
  BY <1>1 DEF Upload, Shape, SetJob
<1> HIDE DEF j
<1> QED BY ZenonT(60), <1>1, <1>2, <1>3, <1>4, PassStep, NoClaim DEF Upload, consensus, Shape, LogShape

\* A worker gives its turn up and keeps what it holds.
LEMMA YieldStep ==
    ASSUME IInv, NEW n \in Nodes, job[n].pc # "idle", UNCHANGED <<consensus, journal, settled, retired, sent, crashes>>,
           SetJob(n, Yield(n))
    PROVE  IInv'
<1> DEFINE j == Yield(n)
<1>1. job[n] \in Jobs /\ Controls(n) /\ settled[n] = None /\ Shape
  BY DEF IInv, Shape, Worked, Controls, Allows
<1>2. /\ j \in Jobs /\ j.pc = "idle" /\ j.slot = job[n].slot /\ j.rev = job[n].rev
      /\ j.last = job[n].last /\ j.attempt = job[n].attempt
  BY <1>1 DEF Jobs, Pcs, Yield
<1>3. Allows(applied[n], journal[n], None, j)
  BY <1>1, <1>2 DEF Allows, Controls, Busy
<1>4. settled' = [settled EXCEPT ![n] = None] /\ job' = [job EXCEPT ![n] = j]
  BY <1>1 DEF Shape, SetJob
<1> HIDE DEF j
<1> QED BY ZenonT(60), <1>1, <1>2, <1>3, <1>4, PassStep, NoClaim DEF consensus, Shape, LogShape

\* A busy worker settles: the claim must be true of its applied state.
LEMMA SettleStep ==
    ASSUME IInv, NEW n \in Nodes, NEW t \in Settlements, job[n].pc \in Busy,
           UNCHANGED <<consensus, journal, retired, sent, crashes>>, Settle(n, t),
           Claims(Pair(n), job[n].attempt, t)
    PROVE  IInv'
<1> DEFINE j == [Yield(n) EXCEPT !.slot = FALSE, !.next = 0]
<1>1. job[n] \in Jobs /\ Controls(n) /\ Shape
  BY DEF IInv, Shape, Worked
<1>2. /\ j \in Jobs /\ j.pc = "idle" /\ j.slot = FALSE /\ j.rev = job[n].rev
      /\ j.last = job[n].last /\ j.attempt = job[n].attempt
  BY <1>1 DEF Jobs, Pcs, Yield
<1>3. Allows(applied[n], journal[n], t, j)
  BY <1>1, <1>2 DEF Allows, Controls, Busy
<1>4. settled' = [settled EXCEPT ![n] = t] /\ job' = [job EXCEPT ![n] = j]
  BY DEF Settle, SetJob
<1> HIDE DEF j
<1> QED BY <1>1, <1>2, <1>3, <1>4, PassStep DEF consensus, Shape, LogShape

\* A crash loses the job and the settlement; the journal is enough to go on.
LEMMA CrashStep == ASSUME IInv, NEW n \in Nodes, Crash(n) PROVE IInv'
<1>1. Shape /\ Controls(n)
  BY DEF IInv, Worked
<1>2. IdleJob \in Jobs
  BY DEF IdleJob, Jobs, Pcs
<1>3. Allows(applied[n], journal[n], None, IdleJob)
  BY DEF Allows, IdleJob, Busy
<1>4. leader' \in Nodes \cup {None} /\ crashes' \in 0..MaxCrashes
  BY SMTT(30), <1>1, ManifestAssumption DEF Crash, Shape, LogShape
<1> QED BY <1>1, <1>2, <1>3, <1>4, PassStep, NoClaim DEF Crash, SetJob, IdleJob

------------------------------------------------------------------------------
\* What the pair and the history say of an attempt is true of the applied state.
LEMMA ReconcileClaims ==
    ASSUME NEW s \in Pairs, NEW c \in Changes
    PROVE  /\ Reconcile(s, c) \in {"Unknown", "AlreadyApplied", "WindowRefused"}
           /\ Reconcile(s, c) = "AlreadyApplied" => Has(s, c)
           /\ Reconcile(s, c) = "WindowRefused" => Lacks(s, c)
<1>1. s.hist \in Seq(Changes) /\ c.exp \in Nat
  BY SMT DEF Pairs, Changes
<1> QED BY SMT, <1>1 DEF Reconcile, Classify, SameChange, Has, Lacks

\* resume: exact history settles the journal's attempt truly, or not at all.
LEMMA ResumeStep == ASSUME IInv, NEW n \in Nodes, Resume(n) PROVE IInv'
<1> DEFINE c == journal[n]
           r == Reconcile(Pair(n), c)
           i == [job[n] EXCEPT !.attempt = c]
           t == IF r = "Unknown" THEN None ELSE r
           j == IF r = "Unknown" THEN [i EXCEPT !.pc = "upload"] ELSE i
<1>1. /\ job[n] \in Jobs /\ Controls(n) /\ Shape /\ LogShape /\ settled[n] = None
      /\ job[n].pc = "idle" /\ ~job[n].slot /\ c # None
  <2>1. Shape /\ Controls(n)
    BY DEF IInv, Worked
  <2>2. job[n] \in Jobs /\ LogShape
    BY SMTT(30), <2>1 DEF Shape
  <2> QED BY <2>1, <2>2 DEF Resume
<1>2. Pair(n) \in Pairs /\ c \in Changes
  BY SMTT(30), <1>1, PairType DEF Pair, Shape, LogShape
<1>3. /\ r \in {"Unknown", "AlreadyApplied", "WindowRefused"}
      /\ r = "AlreadyApplied" => Has(Pair(n), c)
      /\ r = "WindowRefused" => Lacks(Pair(n), c)
  BY <1>2, ReconcileClaims
<1>4. job' = [job EXCEPT ![n] = j] /\ settled' = [settled EXCEPT ![n] = t]
  BY <1>1 DEF Resume, SetJob, Shape
<1> HIDE DEF r
<1>5. /\ j \in Jobs /\ j.slot = job[n].slot /\ j.rev = job[n].rev /\ j.last = job[n].last
      /\ j.attempt = c /\ j.pc = (IF r = "Unknown" THEN "upload" ELSE "idle")
  BY <1>1, <1>2 DEF Jobs, Pcs
<1>6. t \in Settlements \cup {None} /\ Claims(Pair(n), c, t)
  BY <1>3, NoClaim DEF Claims, Settlements, Positive
<1>7. t # None => r # "Unknown"
  OBVIOUS
<1> HIDE DEF j, t
<1>8. Allows(applied[n], journal[n], t, j)
  BY <1>1, <1>5, <1>7 DEF Allows, Controls, Busy
<1> QED BY <1>1, <1>4, <1>5, <1>6, <1>8, PassStep DEF Resume, consensus, Shape, LogShape

\* converge_running, first half: the pair and exact history settle truly.
LEMMA LookStep == ASSUME IInv, NEW n \in Nodes, Look(n) PROVE IInv'
<1> DEFINE c == job[n].attempt
           r == Reconcile(Pair(n), c)
<1>1. /\ job[n] \in Jobs /\ Controls(n) /\ Owns(n) /\ Shape /\ LogShape
      /\ job[n].pc = "look" /\ job[n].pc \in Busy
  BY ZenonT(60) DEF IInv, Shape, Worked, Look, Busy
<1>2. Pair(n) \in Pairs /\ c \in Changes
  BY SMT, <1>1, PairType, AttemptFrozen DEF Pair, Shape, LogShape, Frozen
<1>3. /\ r \in {"Unknown", "AlreadyApplied", "WindowRefused"}
      /\ r = "AlreadyApplied" => Has(Pair(n), c)
      /\ r = "WindowRefused" => Lacks(Pair(n), c)
  BY <1>2, ReconcileClaims
<1>4. CASE r # "Unknown"
  <2>1. r \in Settlements /\ Claims(Pair(n), c, r)
    BY <1>3, <1>4 DEF Claims, Settlements, Positive
  <2>2. Settle(n, r) /\ UNCHANGED <<consensus, journal, retired, sent, crashes>>
    BY <1>4 DEF Look
  <2> HIDE DEF r
  <2> QED BY <1>1, <2>1, <2>2, SettleStep
<1>5. CASE r = "Unknown"
  <2> DEFINE j == [job[n] EXCEPT !.pc = "scan", !.seen = Len(Pair(n).hist)]
  <2>1. settled[n] = None
    BY <1>1 DEF Controls, Allows
  <2>2. Len(Pair(n).hist) \in Nat
    BY SMT, <1>2 DEF Pairs
  <2>3. /\ j \in Jobs /\ j.pc = "scan" /\ j.slot = job[n].slot /\ j.rev = job[n].rev
        /\ j.last = job[n].last /\ j.attempt = c
    BY <1>1, <2>2 DEF Jobs, Pcs
  <2>4. Allows(applied[n], journal[n], None, j)
    BY <1>1, <2>3 DEF Allows, Controls, Busy
  <2>5. settled' = [settled EXCEPT ![n] = None] /\ job' = [job EXCEPT ![n] = j]
    BY <1>1, <1>5, <2>1 DEF Look, Shape, SetJob
  <2> HIDE DEF j
  <2> QED BY <1>1, <2>3, <2>4, <2>5, PassStep, NoClaim DEF Look, consensus, Shape, LogShape
<1> QED BY <1>4, <1>5

\* converge_running, second half: a row of the effect page settles truly.
LEMMA ScanStep == ASSUME IInv, NEW n \in Nodes, Scan(n) PROVE IInv'
<1> DEFINE c == job[n].attempt
           s == Pair(n)
           latest == Len(s.hist)
           first == IF job[n].next = 0 \/ job[n].next > latest THEN latest ELSE job[n].next
           older == IF first > PageRows THEN first - PageRows ELSE 0
           found == \E g \in PageOf(s, first) : CoversEffect(s.hist[g], c)
           then == IF job[n].seen = c.exp THEN "send" ELSE "idle"
           j == [Yield(n) EXCEPT !.next = older, !.pc = then]
<1>1. /\ job[n] \in Jobs /\ Controls(n) /\ Shape /\ LogShape
      /\ job[n].pc = "scan" /\ job[n].pc \in Busy /\ settled[n] = None
  BY DEF IInv, Shape, Worked, Scan, Busy, Controls, Allows
<1>2. /\ UNCHANGED <<consensus, journal, retired, sent, crashes>>
      /\ IF found THEN Settle(n, "EffectSettled") ELSE SetJob(n, j) /\ UNCHANGED settled
  BY DEF Scan
<1>3. CASE found
  <2>1. \E g \in 1..Len(s.hist) : CoversEffect(s.hist[g], c)
    BY <1>3 DEF PageOf
  <2>2. Claims(s, c, "EffectSettled") /\ "EffectSettled" \in Settlements
    BY <2>1 DEF Claims, Settlements, Positive
  <2> QED BY <1>1, <1>2, <1>3, <2>2, SettleStep
<1>4. CASE ~found
  <2>1. latest \in Nat /\ job[n].next \in Nat
    BY SMTT(30), <1>1, PairType DEF Pair, Pairs, LogShape, Jobs
  <2>2. older \in Nat
    BY SMT, <2>1, ManifestAssumption
  <2>3. settled' = [settled EXCEPT ![n] = None] /\ job' = [job EXCEPT ![n] = j]
    BY <1>1, <1>2, <1>4 DEF Shape, SetJob
  <2> HIDE DEF older, found
  <2>4. /\ j \in Jobs /\ j.pc \in {"send", "idle"} /\ j.slot = job[n].slot /\ j.rev = job[n].rev
        /\ j.last = job[n].last /\ j.attempt = c
    BY <1>1, <2>2 DEF Jobs, Pcs, Yield
  <2> HIDE DEF j
  <2>5. Allows(applied[n], journal[n], None, j)
    BY <1>1, <2>4 DEF Allows, Controls, Busy
  <2> QED BY <1>1, <1>2, <2>3, <2>4, <2>5, PassStep, NoClaim DEF consensus, Shape, LogShape
<1> QED BY <1>3, <1>4

\* What the verdict on an entry says of the attempt it carries.
LEMMA VerdictClaims ==
    ASSUME NEW s \in Pairs, NEW c \in Changes, NEW k \in Nat, c.cut < k, c.exp <= Len(s.hist)
    PROVE  /\ Verdict(s, c, k) \in {"applied", "already", "stale", "invalid"}
           /\ Verdict(s, c, k) = "applied" => Has(ApplyManifest(s, c, k), c)
           /\ Verdict(s, c, k) = "already" => Has(s, c)
           /\ Verdict(s, c, k) = "stale" => Len(s.hist) > c.exp
           /\ Verdict(s, c, k) = "invalid" => c.epoch < s.epoch
<1>1. s.hist \in Seq(Changes) /\ c.exp \in Nat /\ c.cut \in Nat
  BY SMT DEF Pairs, Changes
<1>2. Inadmissible(s, c, k) => c.epoch < s.epoch
  BY SMT, <1>1 DEF Inadmissible
<1>3. Verdict(s, c, k) \in {"applied", "already", "stale", "invalid"}
  BY DEF Verdict
<1>4. ASSUME Verdict(s, c, k) = "applied" PROVE Has(ApplyManifest(s, c, k), c)
  <2>1. c.exp = Len(s.hist)
    BY <1>4 DEF Verdict
  <2>2. ApplyManifest(s, c, k).hist = Append(s.hist, c)
    BY <1>4 DEF ApplyManifest, Pairs
  <2> QED BY SMT, <1>1, <2>1, <2>2 DEF Has
<1>5. ASSUME Verdict(s, c, k) = "already" PROVE Has(s, c)
  <2>1. SameChange(s, c)
    BY <1>5 DEF Verdict
  <2> QED BY SMT, <1>1, <2>1 DEF SameChange, Has
<1>6. ASSUME Verdict(s, c, k) = "stale" PROVE Len(s.hist) > c.exp
  <2>1. c.exp # Len(s.hist)
    BY <1>6 DEF Verdict
  <2> QED BY SMT, <1>1, <2>1
<1>7. ASSUME Verdict(s, c, k) = "invalid" PROVE c.epoch < s.epoch
  <2>1. Inadmissible(s, c, k)
    BY <1>7 DEF Verdict
  <2> QED BY <1>2, <2>1
<1> QED BY <1>3, <1>4, <1>5, <1>6, <1>7

\* A receipt settles by the verdict on the worker's own entry, and by nothing else.
LEMMA ReceiptStep == ASSUME IInv, NEW n \in Nodes, Receipt(n) PROVE IInv'
<1> DEFINE c == job[n].attempt
           k == job[n].at
           e == log[k]
<1>1. /\ job[n] \in Jobs /\ Controls(n) /\ Owns(n) /\ Waits(n) /\ Shape /\ LogShape /\ History
      /\ job[n].pc = "wait" /\ job[n].pc \in Busy /\ job[n].pc # "idle"
  BY DEF IInv, Shape, Worked, Receipt, Busy
<1>2. UNCHANGED <<consensus, journal, retired, sent, crashes>>
  BY DEF Receipt
<1>3. CASE e.term # job[n].seen
  BY <1>1, <1>2, <1>3, YieldStep DEF Receipt
<1>4. CASE e.term = job[n].seen
  <2>1. k \in Nat /\ k >= 1 /\ k <= applied[n] /\ applied[n] \in 0..Len(log)
    BY SMTT(30), <1>1 DEF Receipt, Waits, Jobs, LogShape
  <2>2. k \in 1..Len(log) /\ k - 1 \in 0..Len(log) /\ k \in 0..applied[n] /\ k - 1 \in 0..applied[n]
    BY SMTT(30), <1>1, <2>1 DEF LogShape
  <2>3. e.kind = "manifest" /\ e.change = c
    BY SMT, <1>1, <1>4, <2>2 DEF Waits
  <2> DEFINE s == After(k - 1)
             p == Pair(n)
  <2>4. /\ Frozen(c) /\ c \in Changes /\ c.cut < k /\ e.verdict = Verdict(s, c, k)
        /\ e.after = ApplyManifest(s, c, k)
    BY <1>1, <2>2, <2>3 DEF History, Decided, Follows, Frozen
  <2>5. /\ s \in Pairs /\ p \in Pairs /\ e.after \in Pairs /\ e.after = After(k)
        /\ Grows(s, p) /\ Grows(e.after, p)
    <3>1. e.after = After(k)
      BY SMTT(30), <2>1 DEF After
    <3>2. s \in Pairs /\ p \in Pairs /\ After(k) \in Pairs
      BY SMT, <1>1, <2>1, <2>2, PairType DEF Pair
    <3>3. Grows(s, p) /\ Grows(After(k), p)
      BY <1>1, <2>1, <2>2 DEF History, Pair
    <3> QED BY <3>1, <3>2, <3>3
  <2>6. c.exp <= Len(s.hist)
    <3>1. c.cut \in 0..(k - 1)
      BY SMTT(30), <2>1, <2>4 DEF Changes
    <3>2. Grows(After(c.cut), s)
      BY <1>1, <2>2, <3>1 DEF History
    <3>3. c.exp = Len(After(c.cut).hist)
      BY <2>4 DEF Frozen
    <3> QED BY ZenonT(60), <3>2, <3>3 DEF Grows
  <2> DEFINE v == Verdict(s, c, k)
             t == ReceiptSettlement(v)
  <2>7. /\ v \in {"applied", "already", "stale", "invalid"}
        /\ v = "applied" => Has(e.after, c)
        /\ v = "already" => Has(s, c)
        /\ v = "stale" => Len(s.hist) > c.exp
        /\ v = "invalid" => c.epoch < s.epoch
    BY <2>1, <2>4, <2>5, <2>6, VerdictClaims
  <2>8. Settle(n, t)
    BY <1>4, <2>4 DEF Receipt
  <2> HIDE DEF v
  <2>9. /\ v = "applied" => Has(p, c)
        /\ v = "already" => Has(p, c)
        /\ v = "stale" => Len(p.hist) > c.exp
        /\ v = "invalid" => c.epoch < p.epoch
    BY ZenonT(60), <2>4, <2>5, <2>7, GrowsKeeps
  <2>10. t \in Settlements /\ Claims(p, c, t)
    BY <2>7, <2>9 DEF ReceiptSettlement, Claims, Settlements, Positive
  <2> HIDE DEF t
  <2> QED BY ZenonT(60), <1>1, <1>2, <2>8, <2>10, SettleStep
<1> QED BY <1>3, <1>4

------------------------------------------------------------------------------
\* A settled attempt can no longer be installed by a later entry.
LEMMA ClaimSpends ==
    ASSUME LogShape, History, NEW k \in 0..Len(log), NEW c, Frozen(c), NEW t \in Settlements,
           Claims(After(k), c, t)
    PROVE  Spent(After(k), c)
<1>1. c.exp \in Nat /\ After(k).hist \in Seq(Changes)
  <2>1. c \in Changes /\ After(k) \in Pairs
    BY PairType DEF Frozen
  <2> QED BY SMT, <2>1 DEF Changes, Pairs
<1>2. CASE t = "EffectSettled"
  <2>1. PICK g \in 1..Len(After(k).hist) : CoversEffect(After(k).hist[g], c)
    BY <1>2 DEF Claims
  <2>2. PICK w : w = After(k).hist[g]
    OBVIOUS
  <2>3. Frozen(w) /\ w.exp = g - 1
    BY <2>2 DEF History, Installs
  <2>4. Len(After(w.cut).hist) = Len(After(c.cut).hist)
    BY <2>1, <2>2 DEF CoversEffect, Files
  <2>5. c.exp = g - 1
    BY <2>3, <2>4 DEF Frozen
  <2> QED BY SMT, <1>1, <2>5 DEF Spent
<1>3. CASE t # "EffectSettled"
  BY <1>3 DEF Claims, Settlements, Positive, Has, Lacks, Spent
<1> QED BY <1>2, <1>3

\* What is applied is committed.
LEMMA AppliedCommitted ==
    ASSUME LogShape, History, NEW n \in Nodes
    PROVE  /\ Pair(n) \in Pairs /\ After(commit) \in Pairs /\ Grows(Pair(n), After(commit))
           /\ applied[n] \in 0..commit /\ commit \in 0..Len(log) /\ applied[n] \in 0..Len(log)
<1>1. applied[n] \in 0..commit /\ commit \in 0..Len(log) /\ applied[n] \in 0..Len(log)
  BY SMT DEF LogShape
<1> QED BY <1>1, PairType DEF Pair, History

\* A planned attempt is frozen from an applied prefix, and the only one in doubt.
LEMMA PlanStep == ASSUME IInv, NEW n \in Nodes, Plan(n) PROVE IInv'
<1>0. PICK c : c = FrozenChange(n)
  OBVIOUS
<1> DEFINE j == [job[n] EXCEPT !.pc = "idle", !.attempt = c, !.at = 0, !.rev = Pair(n).rev]
<1>1. /\ job[n] \in Jobs /\ Controls(n) /\ Owns(n) /\ Shape /\ LogShape /\ History /\ Retires
      /\ job[n].pc = "freeze"
  BY DEF IInv, Shape, Worked, Plan
<1>2. /\ applied[n] # 0 /\ journal[n] = None /\ settled[n] = None /\ ~job[n].slot
  BY <1>1 DEF Controls, Allows
<1>3. Pair(n) \in Pairs /\ applied[n] \in 1..commit /\ commit \in 0..MaxLog /\ Len(Pair(n).hist) <= applied[n]
  <2>1. Pair(n) \in Pairs /\ applied[n] \in 0..Len(log)
    BY <1>1, AppliedCommitted
  <2>2. Len(Pair(n).hist) <= applied[n]
    BY <1>1, <2>1 DEF History, Pair
  <2> QED BY SMT, <1>1, <1>2, <2>1, <2>2, ManifestAssumption DEF LogShape
<1>4. Len(Pair(n).hist) \in 0..MaxLog /\ applied[n] \in 1..MaxLog /\ Pair(n).epoch \in 0..MaxEpoch
      /\ Pair(n).rev \in Nat
  BY SMTT(30), <1>3, ManifestAssumption DEF Pairs
<1>5. /\ c \in Changes /\ c.exp = Len(Pair(n).hist) /\ c.cut = applied[n]
      /\ c.epoch = Pair(n).epoch
  BY <1>0, <1>4 DEF Changes, FrozenChange
<1>6. Frozen(c)
  BY SMT, <1>3, <1>5 DEF Frozen, Pair
<1>7. /\ journal' = [journal EXCEPT ![n] = c] /\ job' = [job EXCEPT ![n] = j]
      /\ UNCHANGED <<consensus, settled, retired, sent, crashes>>
      /\ settled' = [settled EXCEPT ![n] = None]
  BY <1>0, <1>1, <1>2 DEF Plan, SetJob, Shape
<1>8. Keeps /\ Retires'
  BY <1>1, <1>7, KeepsSame, RetiresStays DEF consensus, LogShape
<1>9. Owns(n)'
  <2>1. Frozen(c)'
    BY SMTT(30), <1>1, <1>6, <1>8, FrozenStays DEF Keeps, LogShape
  <2>2. journal'[n] = c /\ sent'[n] = sent[n] /\ After(commit)' = After(commit)
    BY <1>1, <1>7 DEF Shape, consensus, After
  <2> QED BY ZenonT(60), <1>1, <1>2, <2>1, <2>2 DEF Owns, Spent
<1>10. /\ j \in Jobs /\ j.pc = "idle" /\ j.slot = job[n].slot /\ j.last = job[n].last
       /\ j.attempt = c
  BY <1>1, <1>4, <1>5 DEF Jobs, Pcs
<1> HIDE DEF j
<1>11. Allows(applied[n], c, None, j)
  BY <1>1, <1>2, <1>10 DEF Allows, Busy
<1> QED
  BY <1>1, <1>5, <1>7, <1>8, <1>9, <1>10, <1>11, JobStep, NoClaim DEF consensus, Shape, LogShape

\* Only an attempt that lost its generation is retired.
LEMMA RetireStep == ASSUME IInv, NEW n \in Nodes, Retire(n) PROVE IInv'
<1> DEFINE c == job[n].attempt
<1>1. /\ job[n] \in Jobs /\ Controls(n) /\ Owns(n) /\ Settles(n) /\ Shape /\ LogShape /\ History
      /\ Retires /\ settled[n] = "WindowRefused"
  BY DEF IInv, Shape, Worked, Retire
<1>2. settled[n] # None /\ settled[n] \in Settlements
  BY <1>1, NoneAssumption DEF Settlements
<1>3. c \in Changes /\ Lacks(Pair(n), c)
  BY <1>1, <1>2, AttemptFrozen DEF Settles, Claims, Frozen
<1>4. Lacks(After(commit), c)
  BY <1>1, <1>3, AppliedCommitted, GrowsKeeps
<1>5. /\ job' = [job EXCEPT ![n] = job[n]] /\ settled' = [settled EXCEPT ![n] = settled[n]]
      /\ journal' = [journal EXCEPT ![n] = journal[n]] /\ journal[n] \in Changes \cup {None}
      /\ UNCHANGED <<consensus, journal, job, settled, sent, crashes>>
      /\ retired' = retired \cup {c}
  BY <1>1 DEF Retire, Shape
<1>6. Retires' /\ retired' \subseteq Changes
  BY <1>1, <1>3, <1>4, <1>5 DEF Retires, Shape, consensus, After, Lacks
<1>7. Keeps
  BY <1>1, <1>5, KeepsSame DEF consensus, LogShape
<1>8. Owns(n)'
  BY <1>1, <1>5, <1>7, OwnsStays DEF Shape
<1>9. job[n].pc # "wait"
  BY <1>1, <1>2 DEF Controls, Allows
<1>10. Allows(applied[n], journal[n], settled[n], job[n]) /\ Claims(Pair(n), c, settled[n])
  BY <1>1 DEF Controls, Settles
<1> QED BY ZenonT(60), <1>1, <1>2, <1>5, <1>6, <1>8, <1>9, <1>10, JobStep DEF consensus, Shape, LogShape

\* Clearing the journal leaves no attempt of the node in doubt.
LEMMA FinishStep == ASSUME IInv, NEW n \in Nodes, Finish(n) PROVE IInv'
<1> DEFINE c == job[n].attempt
           l == IF settled[n] \in Positive /\ job[n].rev # 0 THEN job[n].rev ELSE job[n].last
           j == [IdleJob EXCEPT !.last = l]
<1>1. /\ job[n] \in Jobs /\ Controls(n) /\ Owns(n) /\ Settles(n) /\ Shape /\ LogShape /\ History
      /\ Retires /\ settled[n] # None /\ settled[n] \in Settlements
  BY DEF IInv, Shape, Worked, Finish
<1>2. Frozen(c) /\ c \in Changes /\ journal[n] = c
  BY <1>1, AttemptFrozen DEF Frozen
<1>3. Spent(Pair(n), c)
  BY <1>1, <1>2, ClaimSpends, AppliedCommitted DEF Settles, Pair
<1>4. Spent(After(commit), c)
  BY <1>1, <1>2, <1>3, AppliedCommitted, GrowsKeeps
<1>5. /\ job' = [job EXCEPT ![n] = j] /\ settled' = [settled EXCEPT ![n] = None]
      /\ journal' = [journal EXCEPT ![n] = None]
      /\ UNCHANGED <<consensus, retired, sent, crashes>>
  BY DEF Finish, SetJob
<1>6. Keeps /\ Retires'
  BY <1>1, <1>5, KeepsSame, RetiresStays DEF consensus, LogShape
<1>7. Owns(n)'
  <2>1. journal'[n] = None /\ sent'[n] = sent[n] /\ After(commit)' = After(commit)
    BY <1>1, <1>5 DEF Shape, consensus, After
  <2> QED BY <1>1, <1>2, <1>4, <2>1 DEF Owns, Spent
<1>8. l \in Nat /\ (applied[n] = 0 => l = 0)
  BY <1>1 DEF Jobs, Controls, Allows
<1> HIDE DEF l
<1>9. j \in Jobs /\ j.pc = "idle" /\ j.slot = FALSE /\ j.rev = 0 /\ j.last = l
  BY <1>8 DEF Jobs, Pcs, IdleJob
<1> HIDE DEF j
<1>10. Allows(applied[n], None, None, j)
  BY <1>8, <1>9 DEF Allows, Busy
<1> QED
  BY <1>1, <1>5, <1>6, <1>7, <1>9, <1>10, JobStep, NoClaim DEF consensus, Shape, LogShape

\* A proposal is recorded as sent and waited for at its own index.
LEMMA SendStep == ASSUME IInv, NEW n \in Nodes, Send(n) PROVE IInv'
<1>1. /\ job[n] \in Jobs /\ Controls(n) /\ Owns(n) /\ Shape /\ LogShape /\ History /\ Retires
      /\ job[n].pc = "send" /\ job[n].pc \in Busy /\ job[n].pc # "idle" /\ \A m \in Nodes : Worked(m)
  BY DEF IInv, Shape, Worked, Send, Busy
<1>2. CASE ~(leader = n /\ Len(log) < MaxLog)
  BY <1>1, <1>2, YieldStep DEF Send, consensus
<1>3. CASE leader = n /\ Len(log) < MaxLog
  <2>0. PICK c : c = job[n].attempt
    OBVIOUS
  <2> DEFINE k == Len(log) + 1
             j == [job[n] EXCEPT !.pc = "wait", !.at = k, !.seen = term]
  <2>1. Keeps
    BY SendKeeps
  <2>2. Frozen(c) /\ c \in Changes /\ journal[n] = c /\ c # None /\ settled[n] = None
    BY <1>1, <2>0, AttemptFrozen DEF Frozen, Controls, Allows
  <2>3. PICK e : log' = Append(log, e) /\ e.kind = "manifest" /\ e.change = c
    BY SMT, <1>3, <2>0 DEF Send, AppendEntry
  <2>4. /\ sent' = [sent EXCEPT ![n] = @ \cup {c}] /\ job' = [job EXCEPT ![n] = j]
        /\ UNCHANGED <<commit, leader, term, applied, journal, settled, retired, crashes>>
    BY <1>3, <2>0 DEF Send, SetJob
  <2>5. k \in Nat /\ term \in Nat /\ Len(log') = k /\ log'[k] = e
    <3>1. e \in Entries
      <4>1. log' \in Seq(Entries)
        BY <2>1 DEF Keeps, LogShape
      <4> QED BY SMT, <1>1, <2>3, <4>1 DEF LogShape
    <3> QED BY SMTT(30), <1>1, <2>3, <3>1 DEF LogShape
  <2> HIDE DEF k
  <2>6. /\ j \in Jobs /\ j.pc = "wait" /\ j.slot = job[n].slot /\ j.rev = job[n].rev
        /\ j.last = job[n].last /\ j.attempt = c /\ j.at = k /\ j.seen = term
    BY <1>1, <2>0, <2>5 DEF Jobs, Pcs
  <2> HIDE DEF j
  <2>7. Shape'
    BY <1>1, <2>1, <2>2, <2>4, <2>6 DEF Shape, Keeps
  <2>8. Retires'
    BY <1>1, <2>1, <2>4, RetiresStays
  <2>9. /\ job'[n] = j /\ settled'[n] = None /\ journal'[n] = c /\ applied'[n] = applied[n]
        /\ sent'[n] = sent[n] \cup {c}
    BY <1>1, <2>2, <2>4 DEF Shape
  <2>10. Controls(n)'
    BY <1>1, <2>2, <2>6, <2>9 DEF Controls, Allows, Busy
  <2>11. Owns(n)'
    <3>1. Frozen(c)'
      BY SMTT(30), <1>1, <2>1, <2>2, FrozenStays DEF Keeps, LogShape
    <3>2. \A x \in Changes : Spent(After(commit), x) => Spent(After(commit), x)'
      BY <1>1, <2>1, Forward, GrowsKeeps DEF Spent
    <3>3. \A x \in sent[n] \ {c} : x \in Changes /\ Spent(After(commit), x)
      BY SMTT(30), <1>1, <2>2 DEF Owns, Shape
    <3> QED BY ZenonT(60), <1>1, <2>2, <2>9, <3>1, <3>2, <3>3 DEF Owns
  <2>12. Waits(n)'
    <3>1. term' = term /\ term <= term /\ k >= 1
      BY SMT, <2>4, <2>5 DEF k, LogShape
    <3> QED BY SMTT(30), <2>3, <2>5, <2>6, <2>9, <3>1 DEF Waits
  <2>13. Settles(n)'
    BY <2>9, NoneAssumption DEF Settles, Claims, Settlements, Positive
  <2>14. ASSUME NEW m \in Nodes, m # n PROVE Worked(m)'
    BY <1>1, <2>1, <2>4, <2>14, Bystander DEF Shape
  <2> QED BY <2>1, <2>7, <2>8, <2>10, <2>11, <2>12, <2>13, <2>14 DEF IInv, Keeps, Worked
<1> QED BY <1>2, <1>3

------------------------------------------------------------------------------
\* A step of the group leaves the workers' facts true.
LEMMA GroupStep ==
    ASSUME IInv, Keeps, UNCHANGED <<journal, job, settled, retired, sent, crashes>> PROVE IInv'
<1>1. Shape /\ History /\ Retires /\ \A m \in Nodes : Worked(m)
  BY DEF IInv
<1>2. Shape'
  BY <1>1 DEF Shape, Keeps
<1>3. Retires'
  BY <1>1, RetiresStays
<1>4. ASSUME NEW m \in Nodes PROVE Worked(m)'
  BY <1>1, Bystander
<1> QED BY <1>2, <1>3, <1>4 DEF IInv, Keeps

\* An empty log has nothing to follow.
LEMMA Starts == Init => IInv
<1> SUFFICES ASSUME Init PROVE IInv
  OBVIOUS
<1>1. Len(log) = 0 /\ commit = 0 /\ After(0) = Virgin /\ Virgin.hist = <<>> /\ Virgin.epoch = 0
  BY DEF Init, After, Virgin
<1>2. IdleJob \in Jobs
  BY DEF IdleJob, Jobs, Pcs
<1>3. Shape
  <2>1. LogShape
    BY SMT, <1>1, ManifestAssumption DEF Init, LogShape
  <2> QED BY SMTT(30), <1>2, <2>1, ManifestAssumption DEF Init, Shape
<1>4. History
  <2>1. Grows(Virgin, Virgin) /\ Installs(0)
    BY SMT, <1>1 DEF Grows, Installs
  <2> QED BY SMT, <1>1, <2>1 DEF History
<1>5. ASSUME NEW n \in Nodes PROVE Worked(n)
  <2>1. /\ job[n] = IdleJob /\ journal[n] = None /\ settled[n] = None /\ sent[n] = {}
    BY DEF Init
  <2>2. Controls(n) /\ Waits(n)
    BY SMT, <2>1 DEF Controls, Allows, Waits, IdleJob, Busy
  <2>3. Owns(n)
    BY <2>1 DEF Owns
  <2>4. Settles(n)
    BY <2>1, NoClaim DEF Settles
  <2> QED BY <2>2, <2>3, <2>4 DEF Worked
<1> QED BY <1>3, <1>4, <1>5 DEF IInv, Retires, Init

\* Every step of the group, of a worker and of a crash keeps the invariant.
LEMMA Steps == IInv /\ [Next]_vars => IInv'
<1> SUFFICES ASSUME IInv, [Next]_vars PROVE IInv'
  OBVIOUS
<1>0. LogShape /\ History
  BY DEF IInv, Shape
<1>1. CASE Commit
  BY <1>0, <1>1, CommitKeeps, GroupStep DEF Commit, unchangedWorkers
<1>2. CASE Write
  BY <1>0, <1>2, WriteKeeps, GroupStep DEF Write, unchangedWorkers
<1>3. ASSUME NEW n \in Nodes, Elect(n) PROVE IInv'
  BY <1>0, <1>3, ElectKeeps, GroupStep DEF Elect, unchangedWorkers
<1>4. ASSUME NEW n \in Nodes, Apply(n) PROVE IInv'
  BY <1>0, <1>4, ApplyKeeps, GroupStep DEF Apply, unchangedWorkers
<1>5. ASSUME NEW n \in Nodes, Worker(n) PROVE IInv'
  BY <1>5, BarrierStep, PlanStep, ResumeStep, UploadStep, ConvergeStep, LookStep, ScanStep,
     SendStep, ReceiptStep, RetireStep, FinishStep DEF Worker
<1>6. ASSUME NEW n \in Nodes, PassFails(n) \/ WaitExpires(n) PROVE IInv'
  BY <1>6, YieldStep DEF PassFails, WaitExpires
<1>7. ASSUME NEW n \in Nodes, Crash(n) PROVE IInv'
  BY <1>7, CrashStep
<1>8. CASE UNCHANGED vars
  <2>1. Keeps
    BY <1>0, <1>8, KeepsSame DEF vars, LogShape
  <2> QED BY <1>8, <2>1, GroupStep DEF vars
<1> QED BY <1>1, <1>2, <1>3, <1>4, <1>5, <1>6, <1>7, <1>8 DEF Next

\* The inductive invariant holds in every reachable state.
THEOREM ManifestInvariant == Spec => []IInv
BY Starts, Steps, PTL DEF Spec

------------------------------------------------------------------------------
\* The log, the journals, the jobs and the objects have their types (TypeOK).
THEOREM ManifestTypes == Spec => []TypeOK
<1>1. IInv => TypeOK
  <2> SUFFICES ASSUME IInv PROVE TypeOK
    OBVIOUS
  <2>1. Shape /\ LogShape
    BY DEF IInv, Shape
  <2>2. ASSUME NEW k \in 1..Len(log) PROVE log[k].term \in 0..term /\ log[k].change \in Changes \cup {None}
    <3>1. log[k] \in Entries /\ log[k].term <= term
      BY SMT, <2>1 DEF LogShape
    <3> QED BY SMT, <2>1, <3>1 DEF Entries, LogShape
  <2>3. \A n \in Nodes : job[n].pc \in Pcs /\ job[n].slot \in BOOLEAN
    BY <2>1 DEF Shape, Jobs
  <2> QED BY <2>1, <2>2, <2>3 DEF TypeOK, Shape, LogShape
<1> QED BY <1>1, ManifestInvariant, PTL

\* The manifests of a history were frozen in the order they were installed in.
LEMMA CutsRise ==
    ASSUME LogShape, History, NEW k \in 0..Len(log),
           NEW g \in 1..Len(After(k).hist), NEW h \in 1..Len(After(k).hist), g <= h
    PROVE  After(k).hist[g].cut <= After(k).hist[h].cut
<1>1. PICK v, w : v = After(k).hist[g] /\ w = After(k).hist[h]
  OBVIOUS
<1>2. Frozen(v) /\ Frozen(w) /\ v.exp = g - 1 /\ w.exp = h - 1
  BY <1>1 DEF History, Installs
<1>3. v.cut \in 0..Len(log) /\ w.cut \in 0..Len(log) /\ v.cut \in Nat /\ w.cut \in Nat
  <2>1. \A c : Frozen(c) => c.cut \in Nat /\ c.cut <= commit
    BY SMT DEF Frozen, Changes
  <2> QED BY SMTT(30), <1>2, <2>1 DEF LogShape
<1>4. ASSUME w.cut < v.cut PROVE FALSE
  <2>1. Grows(After(w.cut), After(v.cut))
    BY SMT, <1>3, <1>4 DEF History
  <2>2. h - 1 <= g - 1
    BY <1>2, <2>1 DEF Grows, Frozen
  <2>3. After(k).hist \in Seq(Changes)
    BY PairType DEF Pairs
  <2>4. g = h
    BY SMT, <2>2, <2>3
  <2> QED BY SMT, <1>1, <1>3, <1>4, <2>4
<1> QED BY SMTT(30), <1>1, <1>3, <1>4

\* Every positive settlement of the seam (converge_running, drive_attempt) is true of
\* the committed log, and the manifest the worker then adopts is no older than its own
\* (PositiveSettlementTrue).
THEOREM PositiveSettlements == Spec => []PositiveSettlementTrue
<1>1. IInv => PositiveSettlementTrue
  <2> SUFFICES ASSUME IInv, NEW n \in Nodes, settled[n] \in Positive
               PROVE  LET c == job[n].attempt IN
                      /\ settled[n] \in {"MyChangeApplied", "AlreadyApplied"} => Installed(c)
                      /\ settled[n] = "EffectSettled" =>
                           \E g \in 1..Len(After(commit).hist) : CoversEffect(After(commit).hist[g], c)
                      /\ Pair(n).hist # <<>> /\ Winner(n).cut >= c.cut
    BY DEF PositiveSettlementTrue, Positive
  <2>1. LogShape /\ History /\ Controls(n) /\ Owns(n) /\ Settles(n) /\ settled[n] # None
    BY NoneAssumption DEF IInv, Shape, Worked, Settlements
  <2>2. PICK c, s, t : c = job[n].attempt /\ s = Pair(n) /\ t = After(commit)
    OBVIOUS
  <2>3. Frozen(c) /\ c \in Changes /\ c.exp \in Nat /\ c.cut \in Nat
    BY SMT, <2>1, <2>2, AttemptFrozen DEF Frozen, Changes
  <2>4. s \in Pairs /\ t \in Pairs /\ Grows(s, t) /\ applied[n] \in 0..Len(log)
    BY <2>1, <2>2, AppliedCommitted
  <2>5. s.hist \in Seq(Changes) /\ t.hist \in Seq(Changes)
    BY <2>4 DEF Pairs
  <2>6. settled[n] \in {"MyChangeApplied", "AlreadyApplied"} => Has(s, c) /\ Has(t, c)
    BY ZenonT(60), <2>1, <2>2, <2>3, <2>4, GrowsKeeps DEF Settles, Claims
  <2>7. PICK g \in 1..Len(s.hist) :
          /\ s.hist[g].cut >= c.cut
          /\ settled[n] = "EffectSettled" => CoversEffect(s.hist[g], c)
    <3>1. CASE settled[n] = "EffectSettled"
      BY <2>1, <2>2, <3>1 DEF Settles, Claims, CoversEffect
    <3>2. CASE settled[n] # "EffectSettled"
      <4>1. Has(s, c)
        BY <2>6, <3>2 DEF Positive
      <4>2. c.exp + 1 \in 1..Len(s.hist) /\ s.hist[c.exp + 1] = c
        BY SMTT(30), <2>3, <2>5, <4>1 DEF Has
      <4> QED BY SMTT(30), <2>3, <3>2, <4>2
    <3> QED BY <3>1, <3>2
  <2>8. t.hist[g] = s.hist[g] /\ g \in 1..Len(t.hist)
    BY SMT, <2>4, <2>5 DEF Grows
  <2>9. PICK h : h = Len(s.hist) /\ h \in 1..Len(s.hist) /\ g <= h
    BY SMTT(30), <2>5
  <2>10. s.hist[g].cut <= s.hist[h].cut
    BY <2>1, <2>2, <2>4, <2>9, CutsRise DEF Pair
  <2>11. s.hist[g].cut \in Nat /\ s.hist[h].cut \in Nat
    <3>1. s.hist[g] \in Changes /\ s.hist[h] \in Changes
      BY SMT, <2>5, <2>9
    <3> QED BY SMTT(30), <3>1 DEF Changes
  <2>12. s.hist # <<>> /\ Winner(n) = s.hist[h]
    BY SMTT(30), <2>2, <2>5, <2>9 DEF Winner
  <2>13. Winner(n).cut >= c.cut
    BY SMTT(30), <2>3, <2>7, <2>10, <2>11, <2>12
  <2> QED BY <2>2, <2>6, <2>7, <2>8, <2>12, <2>13 DEF Installed, Has
<1> QED BY <1>1, ManifestInvariant, PTL

\* The objects of an attempt are retired only when no log, now or extended, installs its
\* manifest (worker.rs finish; RetiredNeverInstalled).
THEOREM RetiredForGood == Spec => []RetiredNeverInstalled
<1>1. IInv => RetiredNeverInstalled
  <2> SUFFICES ASSUME IInv, NEW c \in retired
               PROVE  /\ Len(After(commit).hist) > c.exp
                      /\ \A k \in 0..Len(log) : \A g \in 1..Len(After(k).hist) : After(k).hist[g] # c
    BY DEF RetiredNeverInstalled
  <2>1. LogShape /\ History /\ Lacks(After(commit), c) /\ commit \in 0..Len(log)
    BY DEF IInv, Shape, Retires, LogShape
  <2>2. ASSUME NEW k \in 0..Len(log), NEW g \in 1..Len(After(k).hist), After(k).hist[g] = c
        PROVE  FALSE
    <3>1. c.exp = g - 1 /\ c.exp + 1 = g
      BY SMTT(30), <2>1, <2>2 DEF History, Installs
    <3>2. g \in 1..Len(After(commit).hist)
      BY SMT, <2>1, <3>1, PairType DEF Lacks, Pairs
    <3>3. Grows(After(k), After(commit)) \/ Grows(After(commit), After(k))
      BY SMT, <2>1 DEF History
    <3>4. After(commit).hist[g] = c
      BY <2>2, <3>2, <3>3 DEF Grows
    <3> QED BY ZenonT(60), <2>1, <3>1, <3>4 DEF Lacks
  <2> QED BY <2>1, <2>2 DEF Lacks
<1> QED BY <1>1, ManifestInvariant, PTL

\* A node never has two proposals in doubt, and the attempt in doubt is in its journal,
\* across elections and crashes (OneUnresolvedAttempt).
THEOREM OneAttempt == Spec => []OneUnresolvedAttempt
<1>1. IInv => OneUnresolvedAttempt
  BY DEF IInv, Worked, Owns, Spent, Controls, Allows, OneUnresolvedAttempt
<1> QED BY <1>1, ManifestInvariant, PTL

\* Every installed manifest was frozen at or after the entry that installed the one
\* before it (apply's compare-and-swap; CutsFollowPublications).
THEOREM CutsFollow == Spec => []CutsFollowPublications
<1>1. IInv => CutsFollowPublications
  <2> SUFFICES ASSUME IInv, NEW k \in 1..Len(log), log[k].verdict = "applied",
                      NEW j \in 1..(k - 1), log[j].verdict = "applied"
               PROVE  log[k].change.cut >= j
    BY DEF CutsFollowPublications
  <2>1. LogShape /\ History
    BY DEF IInv, Shape
  <2>2. ASSUME NEW i \in 1..Len(log), log[i].verdict = "applied"
        PROVE  /\ Frozen(log[i].change) /\ log[i].change.exp = Len(After(i - 1).hist)
               /\ Len(After(i).hist) = Len(After(i - 1).hist) + 1
    <3>1. Decided(i) /\ After(i - 1) \in Pairs /\ After(i) = log[i].after
      BY SMTT(30), <2>1, PairType DEF History, LogShape, After
    <3>2. /\ Frozen(log[i].change) /\ Verdict(After(i - 1), log[i].change, i) = "applied"
          /\ After(i) = ApplyManifest(After(i - 1), log[i].change, i)
      BY <2>2, <3>1 DEF Decided, Follows
    <3>3. log[i].change.exp = Len(After(i - 1).hist)
      BY <3>2 DEF Verdict
    <3>4. After(i).hist = Append(After(i - 1).hist, log[i].change)
      BY <3>1, <3>2 DEF ApplyManifest, Pairs
    <3>5. After(i - 1).hist \in Seq(Changes) /\ log[i].change \in Changes
      BY <3>1, <3>2 DEF Pairs, Frozen
    <3> QED BY SMTT(30), <3>2, <3>3, <3>4, <3>5
  <2>3. j \in 1..Len(log) /\ j \in 0..(k - 1) /\ k - 1 \in 0..Len(log) /\ j - 1 \in 0..Len(log)
    BY SMT, <2>1 DEF LogShape
  <2>4. PICK x : x = log[k].change.cut /\ x \in Nat /\ log[k].change.exp = Len(After(x).hist)
    BY SMTT(30), <2>1, <2>2 DEF Frozen, Changes
  <2>5. ASSUME x < j PROVE FALSE
    <3>1. Grows(After(x), After(j - 1))
      <4>1. x \in 0..(j - 1)
        BY SMT, <2>4, <2>5
      <4> QED BY <2>1, <2>3, <4>1 DEF History
    <3>2. Grows(After(j), After(k - 1))
      BY <2>1, <2>3 DEF History
    <3>3. /\ Len(After(x).hist) <= Len(After(j - 1).hist)
          /\ Len(After(j).hist) <= Len(After(k - 1).hist)
      BY <3>1, <3>2 DEF Grows
    <3>4. /\ Len(After(k - 1).hist) = Len(After(x).hist)
          /\ Len(After(j).hist) = Len(After(j - 1).hist) + 1
      BY <2>2, <2>3, <2>4
    <3>5. Len(After(j - 1).hist) \in Nat /\ Len(After(x).hist) \in Nat
      <4>1. After(j - 1) \in Pairs /\ After(k - 1) \in Pairs
        BY <2>1, <2>3, PairType
      <4> QED BY SMTT(30), <3>4, <4>1 DEF Pairs
    <3> QED BY SMTT(30), <3>3, <3>4, <3>5
  <2> QED BY SMTT(30), <2>3, <2>4, <2>5
<1> QED BY <1>1, ManifestInvariant, PTL

==============================================================================
