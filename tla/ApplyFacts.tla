----------------------------- MODULE ApplyFacts ------------------------------
(***************************************************************************)
(* The log, the pump and the engine of ApplyPath: what a step keeps of the *)
(* committed prefix, of the bounded rings and of the engine's contents.    *)
(***************************************************************************)
EXTENDS ApplyPath, FiniteSetTheorems, WellFoundedInduction, TLAPS

(* Leaves are tried with Zenon unless they name another prover.           *)
USE Zenon

(***************************************************************************)
(* The part of the inductive invariant that is about log, pump and engine. *)
(***************************************************************************)
\* Every position up to the end of the log holds an entry of a term that was.
Filled ==
    /\ leads => term > 0
    /\ \A i \in 1..last : log[i] \in Entries /\ log[i].term <= term

\* How far the pump, the engine and the watermarks are.
Order ==
    /\ batchEnd = taken /\ cursor <= taken /\ taken <= committed
    /\ pc \in {"idle", "service", "serve"} => cursor = taken
    /\ pc = "receipt" =>
         cursor < taken /\ log[cursor + 1].kind = "conf" /\ cursor + 1 <= confApplied
    /\ smApplied <= stored /\ stored <= committed /\ confApplied <= committed
    /\ pc \notin {"poison", "fatal", "stopped"} => stored = smApplied
    /\ driverApplied.index <= cursor
    /\ driverApplied.index > 0 => log[driverApplied.index].term = driverApplied.term

\* Everything the cursor has passed is in the engine or in the ConfState.
Passed ==
    \A i \in 1..cursor : /\ IsCommand(i) => i <= smApplied
                         /\ log[i].kind = "conf" => i <= confApplied

\* The rings hold receipts of passed entries, one per entry.
Rings ==
    /\ IsFiniteSet(ring)
    /\ \A e \in ring : e.index <= cursor /\ e.term = log[e.index].term
    /\ \A e, f \in ring : e.index = f.index => e = f
    /\ \A r \in receipts : /\ r.index <= cursor /\ r.term = log[r.index].term
                           /\ log[r.index].kind = "conf"

------------------------------------------------------------------------------
(***************************************************************************)
(* The bounded rings.                                                      *)
(***************************************************************************)
\* A set of naturals that is not empty has a least member.
LEMMA Least == ASSUME NEW T \in SUBSET Nat, T # {} PROVE \E x \in T : \A y \in T : x <= y
<1> DEFINE R == OpToRel(<, Nat)
<1>1. IsWellFoundedOn(R, Nat)
  BY NatLessThanWellFounded
<1>2. \A x, y \in Nat : x < y => <<x, y>> \in R
  BY DEF OpToRel
<1> HIDE DEF R
<1>3. PICK x \in T : \A y \in T : ~(<<y, x>> \in R)
  BY <1>1, WFMin
<1>4. \A y \in T : x <= y
  <2> TAKE y \in T
  <2>1. ~(y < x)
    BY <1>2, <1>3
  <2>2. x \in Nat /\ y \in Nat
    OBVIOUS
  <2> QED BY SMT, <2>1, <2>2
<1> QED BY <1>4

\* Of a set of receipts that is not empty one is the oldest and one the newest.
LEMMA Ends ==
    ASSUME NEW D, D # {}, NEW N \in Nat, \A e \in D : e.index \in 0..N
    PROVE  /\ \E d \in D : \A e \in D : d.index <= e.index
           /\ \E d \in D : \A e \in D : e.index <= d.index
<1>1. \E d \in D : \A e \in D : d.index <= e.index
  <2> DEFINE T == {e.index : e \in D}
  <2>1. T \in SUBSET Nat /\ T # {}
    BY SMT
  <2>2. PICK x \in T : \A y \in T : x <= y
    BY <2>1, Least
  <2> QED BY <2>2
<1>2. \E d \in D : \A e \in D : e.index <= d.index
  <2> DEFINE T == {N - e.index : e \in D}
  <2>1. T \in SUBSET Nat /\ T # {}
    BY SMT
  <2>2. PICK x \in T : \A y \in T : x <= y
    BY <2>1, Least
  <2>3. PICK d \in D : x = N - d.index
    BY <2>2
  <2>4. \A e \in D : N - d.index <= N - e.index
    BY <2>2, <2>3
  <2>5. \A e \in D : e.index <= d.index
    BY SMT, <2>4
  <2> QED BY <2>5
<1> QED BY <1>1, <1>2

\* The receipts a ring of size n keeps of A (push_ring).
Newest(A, n) == {e \in A : Cardinality({f \in A : f.index > e.index}) < n}

\* A ring drops a receipt only when it is full of later ones.
LEMMA RingKeeps ==
    ASSUME NEW A, IsFiniteSet(A), NEW N \in Nat, \A e \in A : e.index \in 0..N,
           \A e, f \in A : e.index = f.index => e = f, NEW n \in Nat, n > 0
    PROVE  /\ IsFiniteSet(Newest(A, n)) /\ Cardinality(Newest(A, n)) <= n
           /\ Newest(A, n) \subseteq A
           /\ \A e \in A \ Newest(A, n) :
                Cardinality(Newest(A, n)) = n /\ \A f \in Newest(A, n) : e.index < f.index
<1> DEFINE K == Newest(A, n)
           Above(e) == {f \in A : f.index > e.index}
<1>1. K \in SUBSET A /\ IsFiniteSet(K) /\ Cardinality(K) \in Nat
  <2>1. K \in SUBSET A
    BY DEF Newest
  <2> QED BY <2>1, FS_Subset, FS_CardinalityType
<1>2. \A e \in A : Above(e) \in SUBSET A /\ IsFiniteSet(Above(e)) /\ Cardinality(Above(e)) \in Nat
  <2> TAKE e \in A
  <2>1. Above(e) \in SUBSET A
    OBVIOUS
  <2> QED BY <2>1, FS_Subset, FS_CardinalityType
<1>3. \A e \in A : e \in K <=> Cardinality(Above(e)) < n
  BY DEF Newest
<1>4. \A e, f \in A : e.index <= f.index => Cardinality(Above(f)) <= Cardinality(Above(e))
  <2> SUFFICES ASSUME NEW e \in A, NEW f \in A, e.index <= f.index
               PROVE  Cardinality(Above(f)) <= Cardinality(Above(e))
    OBVIOUS
  <2>1. Above(f) \in SUBSET Above(e)
    BY SMT
  <2> QED BY <1>2, <2>1, FS_Subset
<1>5. Cardinality(K) <= n
  <2>1. CASE K = {}
    BY SMTT(30), <2>1, FS_EmptySet
  <2>2. CASE K # {}
    <3>1. PICK d \in K : \A e \in K : d.index <= e.index
      BY <1>1, <2>2, Ends
    <3>2. K \ {d} \subseteq Above(d)
      BY SMT, <1>1, <3>1
    <3>3. Cardinality(K \ {d}) <= Cardinality(Above(d))
      BY <1>1, <1>2, <3>1, <3>2, FS_Subset
    <3>4. Cardinality(K \ {d}) = Cardinality(K) - 1
      BY <1>1, <3>1, FS_RemoveElement
    <3>5. Cardinality(Above(d)) < n /\ Cardinality(Above(d)) \in Nat
      BY <1>1, <1>2, <1>3, <3>1
    <3> QED BY SMTT(30), <1>1, <3>3, <3>4, <3>5
  <2> QED BY <2>1, <2>2
<1>6. ASSUME NEW e \in A \ K
      PROVE  Cardinality(K) = n /\ \A f \in K : e.index < f.index
  <2>1. PICK d \in A \ K : \A f \in A \ K : f.index <= d.index
    <3>1. A \ K # {} /\ \A f \in A \ K : f.index \in 0..N
      OBVIOUS
    <3> QED BY <3>1, Ends
  <2>2. \A f \in K : d.index < f.index
    <3> SUFFICES ASSUME NEW f \in K, f.index <= d.index PROVE FALSE
      BY SMT, <1>1
    <3>1. Cardinality(Above(d)) <= Cardinality(Above(f))
      BY <1>1, <1>4
    <3>2. Cardinality(Above(f)) < n /\ ~(Cardinality(Above(d)) < n)
      BY <1>1, <1>3
    <3> QED BY SMTT(30), <1>1, <1>2, <3>1, <3>2
  <2>3. Above(d) = K
    BY SMTT(30), <1>1, <2>1, <2>2
  <2>4. ~(Cardinality(Above(d)) < n)
    BY <1>3
  <2>5. Cardinality(K) = n
    BY SMTT(30), <1>1, <1>5, <2>3, <2>4
  <2>6. \A f \in K : e.index < f.index
    BY SMTT(30), <1>1, <2>1, <2>2
  <2> QED BY <2>5, <2>6
<1> QED BY <1>1, <1>5, <1>6

\* Receipts that are told apart by their index are finitely many.
LEMMA FiniteReceipts ==
    ASSUME NEW A, NEW N \in Nat, \A e \in A : e.index \in 0..N,
           \A e, f \in A : e.index = f.index => e = f
    PROVE  IsFiniteSet(A)
<1> DEFINE g == [e \in A |-> e.index]
<1>1. g \in Injection(A, 0..N)
  BY DEF Injection, IsInjective
<1>2. IsFiniteSet(0..N)
  BY SMT, FS_Interval
<1> QED BY <1>1, <1>2, FS_Injection

\* Filing later receipts: a receipt of before is in the ring afterwards or the ring
\* is full of later ones, and a position once below a full ring stays below it.
LEMMA Pushed ==
    ASSUME ring \subseteq RingEntries, NEW new \in SUBSET RingEntries, ring' = PushRing(new),
           \A e, f \in ring : e.index = f.index => e = f,
           \A e, f \in new : e.index = f.index => e = f,
           \A e \in ring : \A f \in new : e.index < f.index
    PROVE  /\ ring' \subseteq ring \cup new /\ IsFiniteSet(ring')
           /\ \A e, f \in ring' : e.index = f.index => e = f
           /\ \A e \in ring \cup new : e \in ring' \/ Evicted(e.index)'
           /\ \A i \in Int : Evicted(i) => Evicted(i)'
<1> DEFINE A == ring \cup new
<1>0. RingSize \in Nat /\ RingSize > 0 /\ MaxIndex \in Nat
  BY SMT, ApplyPathAssumption
<1>1. \A e \in A : e.index \in 0..MaxIndex /\ e.index \in Int
  BY SMTT(30), <1>0 DEF RingEntries, Indexes
<1>2. \A e, f \in A : e.index = f.index => e = f
  BY SMT, <1>1
<1>3. ring' = Newest(A, RingSize)
  BY DEF PushRing, Newest
<1>4. IsFiniteSet(A)
  BY <1>0, <1>1, <1>2, FiniteReceipts
<1> HIDE DEF A
<1>5. /\ IsFiniteSet(ring') /\ Cardinality(ring') <= RingSize /\ ring' \subseteq A
      /\ \A e \in A \ ring' : Cardinality(ring') = RingSize /\ \A f \in ring' : e.index < f.index
  BY SMTT(30), <1>0, <1>1, <1>2, <1>3, <1>4, RingKeeps
<1>6. ASSUME NEW i \in Int, Evicted(i) PROVE Evicted(i)'
  <2>1. Cardinality(ring) = RingSize /\ \A e \in ring : i < e.index
    BY <1>6 DEF Evicted
  <2>2. PICK d \in ring : TRUE
    BY SMT, <1>0, <2>1, FS_EmptySet
  <2>3. \A e \in A : i < e.index
    BY SMT, <1>1, <2>1, <2>2 DEF A
  <2>4. Cardinality(ring') = RingSize
    <3>1. CASE ring \subseteq ring'
      <4>1. Cardinality(ring) <= Cardinality(ring')
        BY <1>5, <3>1, FS_Subset
      <4>2. Cardinality(ring') \in Nat
        BY <1>5, FS_CardinalityType
      <4> QED BY SMTT(30), <1>0, <1>5, <2>1, <4>1, <4>2
    <3>2. CASE ~(ring \subseteq ring')
      BY <1>5, <3>2 DEF A
    <3> QED BY <3>1, <3>2
  <2> QED BY <1>5, <2>3, <2>4 DEF Evicted
<1>7. \A e \in A : e \in ring' \/ Evicted(e.index)'
  BY <1>5 DEF Evicted
<1> QED BY <1>2, <1>5, <1>6, <1>7 DEF A

------------------------------------------------------------------------------
(***************************************************************************)
(* The log.                                                                *)
(***************************************************************************)
\* What every step keeps of the committed prefix, and, short of a crash, of the rest.
Stable == committed <= committed' /\ \A i \in 1..committed : log'[i] = log[i]
Moves ==
    /\ term <= term' /\ (term' = term => last <= last')
    /\ \A i \in 1..last' : \/ i <= last /\ log'[i] = log[i]
                           \/ log'[i].term = term' /\ (term' = term => i > last)
LogTypes ==
    /\ log \in [Indexes -> Entries \cup {NoEntry}]
    /\ last \in 0..MaxIndex /\ committed \in 0..last /\ term \in 0..MaxTerm
    /\ leads \in BOOLEAN
LogInv == LogTypes /\ Filled

\* The verdicts on a committed prefix are final.
LEMMA VerdictStays ==
    ASSUME LogTypes, Stable
    PROVE  /\ \A i \in 0..committed : \A e : EpochAfter(i, e)' <=> EpochAfter(i, e)
           /\ \A i \in 1..committed : (Accepted(i)' <=> Accepted(i)) /\ (IsCommand(i)' <=> IsCommand(i))
<1>0. committed \in Nat
  BY SMTT(30), ApplyPathAssumption DEF LogTypes
<1>1. ASSUME NEW i \in 0..committed, NEW e PROVE EpochAfter(i, e)' <=> EpochAfter(i, e)
  <2>1. \A j \in 1..i : log'[j] = log[j] /\ \A m \in (j + 1)..i : log'[m] = log[m]
    BY SMT, <1>0 DEF Stable
  <2> QED BY SMT, <2>1 DEF EpochAfter
<1>2. ASSUME NEW i \in 1..committed
      PROVE  (Accepted(i)' <=> Accepted(i)) /\ (IsCommand(i)' <=> IsCommand(i))
  <2>1. i - 1 \in 0..committed /\ log'[i] = log[i]
    BY SMT, <1>0 DEF Stable
  <2>2. \A e : EpochAfter(i - 1, e)' <=> EpochAfter(i - 1, e)
    BY <1>1, <2>1
  <2> QED BY <2>1, <2>2 DEF Accepted, IsCommand
<1> QED BY <1>1, <1>2

\* Appending one entry, of this term or, at an election, of the next one.
LEMMA Appended ==
    ASSUME LogInv, last < MaxIndex, NEW x \in Entries, last' = last + 1, leads' \in BOOLEAN,
           log' = [log EXCEPT ![last + 1] = x], x.term = term', committed' = committed,
           term' \in 1..MaxTerm, term' = term \/ term' = term + 1
    PROVE  LogInv' /\ Stable /\ Moves
<1>1. /\ last \in Nat /\ committed \in Nat /\ term \in Nat /\ MaxIndex \in Nat /\ committed <= last
      /\ last + 1 \in Indexes
  BY SMTT(30), ApplyPathAssumption DEF LogInv, LogTypes, Indexes
<1>2. log'[last + 1] = x /\ \A i \in 1..last : log'[i] = log[i]
  BY SMTT(30), <1>1 DEF LogInv, LogTypes, Indexes
<1>3. LogTypes'
  BY SMT, <1>1 DEF LogInv, LogTypes
<1>4. ASSUME NEW i \in 1..last' PROVE log'[i] \in Entries /\ log'[i].term <= term'
  <2>1. CASE i = last + 1
    BY SMTT(30), <1>2, <2>1
  <2>2. CASE i \in 1..last
    <3>1. log[i] \in Entries /\ log[i].term <= term /\ log'[i] = log[i]
      BY <1>2, <2>2 DEF LogInv, Filled
    <3>2. log[i].term \in Nat
      BY SMT, <3>1, ApplyPathAssumption DEF Entries, Terms
    <3> QED BY SMTT(30), <1>1, <3>1, <3>2
  <2> QED BY SMTT(30), <1>1, <2>1, <2>2
<1>5. Stable
  BY SMTT(30), <1>1, <1>2 DEF Stable
<1>6. Moves
  <2>1. ASSUME NEW i \in 1..last'
        PROVE  \/ i <= last /\ log'[i] = log[i]
               \/ log'[i].term = term' /\ (term' = term => i > last)
    <3>1. CASE i = last + 1
      BY SMTT(30), <1>1, <1>2, <3>1
    <3>2. CASE i \in 1..last
      BY SMTT(30), <1>1, <1>2, <3>2
    <3> QED BY SMTT(30), <1>1, <3>1, <3>2
  <2>2. term <= term' /\ last <= last'
    BY SMTT(30), <1>1
  <2> QED BY <2>1, <2>2 DEF Moves
<1> QED BY SMTT(30), <1>3, <1>4, <1>5, <1>6, ApplyPathAssumption DEF LogInv, Filled

\* A log that is kept up to n.
LEMMA Kept ==
    ASSUME LogInv, NEW n \in committed..last
    PROVE  /\ Keep(n) \in [Indexes -> Entries \cup {NoEntry}]
           /\ n \in 0..MaxIndex /\ \A i \in 1..n : Keep(n)[i] = log[i]
           /\ \A i \in 1..n : log[i] \in Entries /\ log[i].term <= term /\ i \in Indexes
BY SMT, ApplyPathAssumption DEF LogInv, LogTypes, Filled, Keep, Indexes

\* Raft's own steps: election, deposition, replication and commit.
LEMMA RaftMoves == ASSUME LogInv, Raft PROVE LogInv' /\ Stable /\ Moves
<1>1. CASE Elect
  <2> DEFINE x == [term |-> term + 1, kind |-> "noop", epoch |-> 0]
  <2>1. term + 1 \in 1..MaxTerm /\ x \in Entries
    BY SMT, <1>1, ApplyPathAssumption DEF Elect, LogInv, LogTypes, Entries, Terms, Kinds, Epochs
  <2> HIDE DEF x
  <2>2. x.term = term' /\ log' = [log EXCEPT ![last + 1] = x] /\ last' = last + 1 /\ leads' \in BOOLEAN
        /\ committed' = committed /\ last < MaxIndex /\ term' = term + 1
    BY <1>1 DEF Elect, x
  <2> QED BY <2>1, <2>2, Appended
<1>2. CASE Replicate
  <2>1. PICK k \in Kinds \ {"noop"}, e \in Epochs :
          /\ term > 0 /\ last < MaxIndex /\ last' = last + 1
          /\ log' = [log EXCEPT ![last + 1] = [term |-> term, kind |-> k, epoch |-> e]]
          /\ UNCHANGED <<committed, term, leads>>
    BY <1>2 DEF Replicate
  <2> DEFINE x == [term |-> term, kind |-> k, epoch |-> e]
  <2>2. term \in 1..MaxTerm /\ x \in Entries /\ leads' \in BOOLEAN
    BY SMTT(30), <2>1 DEF LogInv, LogTypes, Entries, Terms
  <2> QED BY <2>1, <2>2, Appended
<1>3. CASE Depose
  <2>1. PICK n \in committed..last :
          /\ term < MaxTerm /\ n < MaxIndex
          /\ term' = term + 1 /\ leads' = FALSE /\ last' = n + 1 /\ committed' = committed
          /\ log' = [Keep(n) EXCEPT ![n + 1] = [term |-> term + 1, kind |-> "noop", epoch |-> 0]]
    BY <1>3 DEF Depose
  <2> DEFINE x == [term |-> term + 1, kind |-> "noop", epoch |-> 0]
  <2>2. /\ term \in Nat /\ committed \in Nat /\ n \in Nat /\ last \in Nat /\ n + 1 \in Indexes
        /\ term + 1 \in 1..MaxTerm
    BY SMTT(30), <2>1, ApplyPathAssumption DEF LogInv, LogTypes, Indexes
  <2>3. x \in Entries /\ x.term = term + 1
    BY SMTT(30), <2>2, ApplyPathAssumption DEF Entries, Terms, Kinds, Epochs
  <2>4. /\ Keep(n) \in [Indexes -> Entries \cup {NoEntry}]
        /\ \A i \in 1..n : Keep(n)[i] = log[i]
        /\ \A i \in 1..n : log[i] \in Entries /\ log[i].term <= term /\ i \in Indexes
    BY <2>1, Kept
  <2>5. log' = [Keep(n) EXCEPT ![n + 1] = x]
    BY <2>1
  <2> HIDE DEF x
  <2>6. log'[n + 1] = x /\ \A i \in 1..n : log'[i] = log[i]
    BY SMTT(30), <2>2, <2>4, <2>5
  <2>7. LogTypes'
    <3>1. log' \in [Indexes -> Entries \cup {NoEntry}]
      BY <2>3, <2>4, <2>5
    <3>2. last' \in 0..MaxIndex /\ committed' \in 0..last' /\ term' \in 0..MaxTerm /\ leads' \in BOOLEAN
      <4>1. committed <= n /\ n < MaxIndex /\ MaxIndex \in Nat /\ MaxTerm \in Nat
        BY SMTT(30), <2>1, <2>2, ApplyPathAssumption
      <4>2. n + 1 \in 0..MaxIndex /\ committed \in 0..(n + 1) /\ term + 1 \in 0..MaxTerm
        BY SMTT(30), <2>2, <4>1
      <4> QED BY <2>1, <4>2
    <3> QED BY <3>1, <3>2 DEF LogTypes
  <2>8. ASSUME NEW i \in 1..last' PROVE log'[i] \in Entries /\ log'[i].term <= term'
    <3>1. CASE i = n + 1
      BY SMTT(30), <2>1, <2>2, <2>3, <2>6, <3>1
    <3>2. CASE i \in 1..n
      <4>1. log'[i] \in Entries /\ log'[i].term <= term
        BY <2>4, <2>6, <3>2
      <4>2. log'[i].term \in Nat
        BY SMTT(30), <4>1, ApplyPathAssumption DEF Entries, Terms
      <4> QED BY SMTT(30), <2>1, <2>2, <4>1, <4>2
    <3> QED BY SMTT(30), <2>1, <2>2, <3>1, <3>2
  <2>9. Stable
    BY SMTT(30), <2>1, <2>2, <2>6 DEF Stable
  <2>10. Moves
    BY SMTT(30), <2>1, <2>2, <2>3, <2>6 DEF Moves
  <2> QED BY ZenonT(60), <2>1, <2>7, <2>8, <2>9, <2>10 DEF LogInv, Filled
<1>4. CASE Commit
  <2>1. PICK k \in (committed + 1)..last : committed' = k /\ UNCHANGED <<log, last, term, leads>>
    BY <1>4 DEF Commit
  <2>2. LogInv'
    <3>1. committed' \in 0..last'
      BY SMTT(30), <2>1, ApplyPathAssumption DEF LogInv, LogTypes
    <3> QED BY <2>1, <3>1 DEF LogInv, LogTypes, Filled
  <2>3. Stable
    BY SMT, <2>1, ApplyPathAssumption DEF LogInv, LogTypes, Stable
  <2>4. Moves
    <3>1. term \in Int /\ last \in Int
      BY SMT, ApplyPathAssumption DEF LogInv, LogTypes
    <3> QED BY SMTT(30), <2>1, <3>1 DEF Moves
  <2> QED BY <2>2, <2>3, <2>4
<1> QED BY <1>1, <1>2, <1>3, <1>4 DEF Raft

\* A proposal appends an entry of the leader's own term.
LEMMA AppendMoves ==
    ASSUME LogInv, NEW w, NEW k \in Kinds, NEW e \in Epochs, Append(w, k, e)
    PROVE  LogInv' /\ Stable /\ Moves
<1> DEFINE x == [term |-> term, kind |-> k, epoch |-> e]
<1>1. term \in 1..MaxTerm /\ x \in Entries
  BY SMT DEF Append, LogInv, LogTypes, Filled, Entries, Terms
<1>2. /\ x.term = term' /\ log' = [log EXCEPT ![last + 1] = x] /\ last' = last + 1
      /\ leads' \in BOOLEAN /\ committed' = committed /\ last < MaxIndex /\ term' = term
  BY DEF Append, LogInv, LogTypes
<1> HIDE DEF x
<1> QED BY <1>1, <1>2, Appended

\* A step that leaves Raft alone.
LEMMA SameMoves == ASSUME LogInv, UNCHANGED raftVars PROVE LogInv' /\ Stable /\ Moves
<1>1. UNCHANGED <<log, last, committed, term, leads>> /\ term \in Int /\ last \in Int /\ committed \in Int
  BY SMTT(30), ApplyPathAssumption DEF LogInv, LogTypes, raftVars
<1>2. LogInv'
  BY <1>1 DEF LogInv, LogTypes, Filled
<1>3. Stable
  BY SMTT(30), <1>1 DEF Stable
<1>4. Moves
  BY SMT, <1>1 DEF Moves
<1> QED BY <1>2, <1>3, <1>4

\* A crash keeps the committed prefix and cuts the log behind some position.
LEMMA CrashKeeps == ASSUME LogInv, Crash PROVE LogInv' /\ Stable
<1>1. PICK n \in committed..last :
        log' = Keep(n) /\ last' = n /\ leads' = FALSE /\ UNCHANGED <<committed, term>>
  BY DEF Crash
<1>2. /\ committed \in Nat /\ n \in Nat /\ committed <= n /\ n <= MaxIndex /\ MaxIndex \in Nat
      /\ term \in 0..MaxTerm
  <2>1. committed \in 0..last /\ last \in 0..MaxIndex /\ MaxIndex \in Nat /\ term \in 0..MaxTerm
    BY ApplyPathAssumption DEF LogInv, LogTypes
  <2> QED BY SMTT(30), <1>1, <2>1
<1>3. /\ Keep(n) \in [Indexes -> Entries \cup {NoEntry}]
      /\ \A i \in 1..n : Keep(n)[i] = log[i]
      /\ \A i \in 1..n : log[i] \in Entries /\ log[i].term <= term
  BY Kept
<1>4. LogTypes'
  <2>1. n \in 0..MaxIndex /\ committed \in 0..n
    BY SMT, <1>2
  <2> QED BY <1>1, <1>2, <1>3, <2>1 DEF LogTypes
<1>5. Filled'
  BY <1>1, <1>2, <1>3 DEF Filled
<1>6. Stable
  BY SMTT(30), <1>1, <1>2, <1>3 DEF Stable
<1> QED BY <1>4, <1>5, <1>6 DEF LogInv

\* The callers' steps append or leave Raft alone.
LEMMA CallerMoves ==
    ASSUME LogInv, NEW w, AsyncCaller(w) \/ SyncCaller(w) \/ ConfCaller(w)
    PROVE  LogInv' /\ Stable /\ Moves
<1>1. (\E k \in Kinds, e \in Epochs : Append(w, k, e)) \/ UNCHANGED raftVars
  <2>1. \A k \in {"raw", "catalog", "conf", "noop"} : k \in Kinds
    BY DEF Kinds
  <2>2. 0 \in Epochs
    BY SMTT(30), ApplyPathAssumption DEF Epochs
  <2>3. CASE AsyncCaller(w)
    BY <2>1, <2>3 DEF AsyncCaller, Reserve, ProposeAsync, Register, Receive, CloseTicket
  <2>4. CASE SyncCaller(w)
    BY <2>1, <2>4 DEF SyncCaller, ProposeSync, LookWatermark, LookRing
  <2>5. CASE ConfCaller(w)
    BY <2>1, <2>2, <2>5 DEF ConfCaller, ProposeConf, LookReceipt, LookPassed
  <2> QED BY <2>3, <2>4, <2>5
<1> QED BY <1>1, AppendMoves, SameMoves

\* The pump's steps and the failures short of a crash leave Raft alone.
LEMMA PumpMoves ==
    ASSUME Pump \/ ApplyFails \/ ConfFails \/ Stop PROVE UNCHANGED raftVars
BY DEF Pump, TakeReady, TakeNothing, ApplyNoop, ApplyRedelivered, ApplyCommands, ApplyConf,
       PushConfReceipt, Publish, PoisonClose, PoisonRecord, LeaveLoop, ServiceTake, ServiceOne,
       ServiceEnd, ApplyFails, ConfFails, Stop

\* What is committed stays, and short of a crash only entries of the new term appear.
LEMMA LogStep == ASSUME LogInv, [Next]_vars PROVE LogInv' /\ Stable /\ (Moves \/ Crash)
<1>1. CASE Raft
  BY <1>1, RaftMoves
<1>2. CASE Pump \/ ApplyFails \/ ConfFails \/ Stop
  BY <1>2, PumpMoves, SameMoves
<1>3. CASE Crash
  BY <1>3, CrashKeeps
<1>4. CASE \E w : AsyncCaller(w) \/ SyncCaller(w) \/ ConfCaller(w)
  BY <1>4, CallerMoves
<1>5. CASE UNCHANGED vars
  BY <1>5, SameMoves DEF vars
<1> QED BY <1>1, <1>2, <1>3, <1>4, <1>5 DEF Next, Failure

------------------------------------------------------------------------------
(***************************************************************************)
(* The engine.                                                             *)
(***************************************************************************)
\* A log prefix establishes one epoch.
LEMMA EpochUnique ==
    ASSUME NEW i \in Nat, NEW e, NEW f, EpochAfter(i, e), EpochAfter(i, f)
    PROVE  e = f
<1> DEFINE C(j) == log[j].kind = "catalog"
           L(j, x) == C(j) /\ log[j].epoch = x /\ \A m \in (j + 1)..i : ~C(m)
<1>1. \A x : EpochAfter(i, x) => \/ x = 0 /\ \A j \in 1..i : ~C(j)
                                \/ \E j \in 1..i : L(j, x)
  BY DEF EpochAfter
<1>2. ASSUME NEW j \in 1..i, NEW k \in 1..i, L(j, e), L(k, f) PROVE e = f
  <2>1. ~(j < k) /\ ~(k < j)
    <3>1. ASSUME j < k PROVE FALSE
      <4>1. k \in (j + 1)..i
        BY SMT, <3>1
      <4> QED BY <1>2, <4>1
    <3>2. ASSUME k < j PROVE FALSE
      <4>1. j \in (k + 1)..i
        BY SMT, <3>2
      <4> QED BY <1>2, <4>1
    <3> QED BY <3>1, <3>2
  <2>2. j = k
    BY SMT, <2>1
  <2> QED BY <1>2, <2>2
<1>3. \A j \in 1..i : \A x : L(j, x) => C(j)
  OBVIOUS
<1> HIDE DEF L
<1> QED BY <1>1, <1>2, <1>3

\* Entries that install no epoch leave it as it was.
LEMMA EpochExtends ==
    ASSUME NEW i \in Nat, NEW k \in Nat, i <= k, NEW e, EpochAfter(i, e),
           \A m \in (i + 1)..k : log[m].kind # "catalog"
    PROVE  EpochAfter(k, e)
<1>1. CASE e = 0 /\ \A j \in 1..i : log[j].kind # "catalog"
  <2>1. \A j \in 1..k : j \in 1..i \/ j \in (i + 1)..k
    BY SMT
  <2> QED BY <1>1, <2>1 DEF EpochAfter
<1>2. CASE \E j \in 1..i : /\ log[j].kind = "catalog" /\ log[j].epoch = e
                           /\ \A m \in (j + 1)..i : log[m].kind # "catalog"
  <2>1. PICK j \in 1..i : /\ log[j].kind = "catalog" /\ log[j].epoch = e
                          /\ \A m \in (j + 1)..i : log[m].kind # "catalog"
    BY <1>2
  <2>2. j \in 1..k /\ \A m \in (j + 1)..k : m \in (j + 1)..i \/ m \in (i + 1)..k
    BY SMT
  <2> QED BY <2>1, <2>2 DEF EpochAfter
<1> QED BY <1>1, <1>2 DEF EpochAfter

\* What the pump holds when it hands a run of commands to the state machine.
EngineInv == TypeOK /\ Filled /\ Order /\ Passed /\ AppliedExactlyOnce
Applies(k) ==
    /\ pc = "apply" /\ cursor < batchEnd /\ k \in Indexes
    /\ k > cursor /\ IsGroup(Next1, k) /\ ~AlreadyApplied(Next1)

\* The run lies in the committed log just above the durable watermark, and the
\* fence's verdict on each of its entries is the log's.
LEMMA GroupFacts ==
    ASSUME EngineInv, NEW k, Applies(k)
    PROVE  /\ cursor \in Nat /\ Next1 \in 1..k /\ k \in 1..committed /\ k <= taken
           /\ stored = smApplied /\ stored <= cursor /\ stored \in Nat /\ committed <= MaxIndex
           /\ \A j \in (stored + 1)..cursor : ~IsCommand(j)
           /\ \A j \in Next1..k : IsCommand(j) /\ (Fresh(j) <=> Accepted(j))
           /\ k = Next1 \/ \A j \in Next1..k : log[j].kind = "raw"
           /\ \A j \in Next1..k : EpochAfter(j - 1, epoch)
<1>1. /\ cursor \in Nat /\ Next1 = cursor + 1 /\ k \in Nat /\ committed \in Nat /\ committed <= MaxIndex
      /\ stored \in Nat /\ smApplied \in Nat
  BY SMT, ApplyPathAssumption DEF EngineInv, TypeOK, Next1, Applies, Indexes
<1>2. Next1 \in 1..k /\ k \in 1..committed /\ k <= taken
  <2>1. k <= batchEnd /\ batchEnd = taken /\ taken <= committed /\ taken \in Nat /\ k > cursor
    BY SMT, ApplyPathAssumption DEF EngineInv, TypeOK, Order, Applies, IsGroup
  <2> QED BY SMTT(30), <1>1, <2>1
<1>3. stored = smApplied /\ stored <= cursor
  <2>1. stored = smApplied /\ ~(Next1 <= smApplied)
    BY DEF EngineInv, Order, Applies, AlreadyApplied
  <2> QED BY SMT, <1>1, <2>1
<1>4. \A j \in (stored + 1)..cursor : ~IsCommand(j)
  <2> TAKE j \in (stored + 1)..cursor
  <2>1. j \in 1..cursor /\ ~(j <= smApplied)
    BY SMTT(30), <1>1, <1>3
  <2> QED BY <2>1 DEF EngineInv, Passed
<1>5. IsCommand(Next1) /\ (k = Next1 \/ \A j \in Next1..k : log[j].kind = "raw")
  BY DEF Applies, IsGroup
<1>6. \A j \in Next1..k : IsCommand(j)
  BY SMT, <1>1, <1>5 DEF IsCommand
<1>7. ASSUME NEW j \in Next1..k PROVE EpochAfter(j - 1, epoch)
  <2>1. j - 1 \in Nat /\ stored <= j - 1
    BY SMTT(30), <1>1, <1>3
  <2>2. ASSUME NEW m \in (stored + 1)..(j - 1) PROVE log[m].kind # "catalog"
    <3>1. CASE m <= cursor
      <4>1. m \in (stored + 1)..cursor
        BY SMTT(30), <1>1, <2>1, <3>1
      <4> QED BY <1>4, <4>1 DEF IsCommand
    <3>2. CASE m > cursor
      <4>1. m \in Next1..k /\ k # Next1
        BY SMTT(30), <1>1, <2>1, <3>2
      <4> QED BY <1>5, <4>1
    <3> QED BY SMTT(30), <1>1, <2>1, <3>1, <3>2
  <2>3. EpochAfter(stored, epoch)
    BY DEF EngineInv, AppliedExactlyOnce
  <2> QED BY <1>1, <2>1, <2>2, <2>3, EpochExtends
<1>8. ASSUME NEW j \in Next1..k PROVE Fresh(j) <=> Accepted(j)
  <2>1. EpochAfter(j - 1, epoch) /\ j - 1 \in Nat
    BY SMT, <1>1, <1>7
  <2>2. \A e : EpochAfter(j - 1, e) => e = epoch
    BY <2>1, EpochUnique
  <2>3. epoch \in Epochs
    BY SMTT(30) DEF EngineInv, TypeOK
  <2> QED BY <2>1, <2>2, <2>3 DEF Fresh, Accepted
<1> QED BY ZenonT(60), <1>1, <1>2, <1>3, <1>4, <1>5, <1>6, <1>7, <1>8

\* A durable batch leaves the engine with each accepted entry exactly once.
LEMMA BatchExact ==
    ASSUME EngineInv, NEW k, Applies(k), WriteApplied(Next1, k), UNCHANGED raftVars
    PROVE  AppliedExactlyOnce' /\ stored' = k /\ writes' \in [Indexes -> Nat] /\ epoch' \in Epochs
<1>1. /\ cursor \in Nat /\ Next1 \in 1..k /\ k \in 1..committed /\ k <= taken
      /\ stored = smApplied /\ stored <= cursor /\ stored \in Nat /\ committed <= MaxIndex
      /\ \A j \in (stored + 1)..cursor : ~IsCommand(j)
      /\ \A j \in Next1..k : IsCommand(j) /\ (Fresh(j) <=> Accepted(j))
      /\ k = Next1 \/ \A j \in Next1..k : log[j].kind = "raw"
      /\ \A j \in Next1..k : EpochAfter(j - 1, epoch)
  BY GroupFacts
<1>2. /\ UNCHANGED <<log, committed>> /\ stored' = k /\ Next1 = cursor + 1
      /\ writes' = [j \in Indexes |-> IF j \in Next1..k /\ Fresh(j) THEN writes[j] + 1 ELSE writes[j]]
      /\ epoch' = IF log[Next1].kind = "catalog" THEN log[Next1].epoch ELSE epoch
  BY DEF WriteApplied, raftVars, Next1
<1>3. /\ writes \in [Indexes -> Nat] /\ epoch \in Epochs /\ MaxIndex \in Nat /\ committed \in Nat
      /\ committed <= last /\ last \in Nat
      /\ \A j \in Indexes : writes[j] = IF j <= stored /\ IsCommand(j) /\ Accepted(j) THEN 1 ELSE 0
  BY SMTT(30), ApplyPathAssumption DEF EngineInv, TypeOK, AppliedExactlyOnce
<1>4. \A j : (Accepted(j)' <=> Accepted(j)) /\ (IsCommand(j)' <=> IsCommand(j))
  BY ZenonT(60), <1>2 DEF Accepted, IsCommand, EpochAfter
<1>5. \A j \in Indexes : writes'[j] = IF j <= k /\ IsCommand(j) /\ Accepted(j) THEN 1 ELSE 0
  <2> TAKE j \in Indexes
  <2>0. j \in Nat /\ j > 0 /\ k \in Nat
    BY SMTT(30), <1>1, <1>3 DEF Indexes
  <2>1. CASE j \in Next1..k
    <3>1. IsCommand(j) /\ (Fresh(j) <=> Accepted(j)) /\ ~(j <= stored) /\ j <= k
      BY SMTT(30), <1>1, <1>2, <2>0, <2>1
    <3>2. writes[j] = 0
      BY <1>3, <3>1
    <3> QED BY SMTT(30), <1>2, <2>1, <3>1, <3>2
  <2>2. CASE j \notin Next1..k
    <3>1. writes'[j] = writes[j]
      BY <1>2, <2>2
    <3>2. CASE j <= stored
      <4>1. j <= k
        BY SMTT(30), <1>1, <1>2, <2>0, <3>2
      <4> QED BY ZenonT(60), <1>3, <3>1, <3>2, <4>1
    <3>3. CASE ~(j <= stored) /\ j <= cursor
      <4>1. j \in (stored + 1)..cursor
        BY SMTT(30), <1>1, <2>0, <3>3
      <4> QED BY ZenonT(60), <1>1, <1>3, <3>1, <3>3, <4>1
    <3>4. CASE ~(j <= stored) /\ ~(j <= cursor)
      <4>1. cursor \in Nat /\ Next1 = cursor + 1
        BY <1>1, <1>2
      <4>2. ~(j <= k)
        BY SMT, <2>0, <2>2, <3>4, <4>1
      <4> QED BY ZenonT(60), <1>3, <3>1, <3>4, <4>2
    <3> QED BY <3>2, <3>3, <3>4
  <2> QED BY <2>1, <2>2
<1>6. epoch' \in Epochs
  <2>1. Next1 \in 1..last
    BY SMTT(30), <1>1, <1>3
  <2>2. log[Next1].epoch \in Epochs
    BY <2>1 DEF EngineInv, Filled, Entries
  <2> QED BY ZenonT(60), <1>2, <1>3, <2>2
<1>7. EpochAfter(k, epoch')
  <2>1. CASE log[Next1].kind = "catalog"
    <3>1. k = Next1 /\ k \in Nat
      BY SMTT(30), <1>1, <2>1
    <3>2. k \in 1..k /\ (k + 1)..k = {}
      BY SMTT(30), <1>1, <3>1
    <3> QED BY ZenonT(60), <1>2, <2>1, <3>1, <3>2 DEF EpochAfter
  <2>2. CASE log[Next1].kind # "catalog"
    <3>1. EpochAfter(k - 1, epoch) /\ epoch' = epoch /\ log[k].kind # "catalog"
      <4>1. k \in Next1..k
        BY SMTT(30), <1>1
      <4> QED BY <1>1, <1>2, <2>2, <4>1
    <3>2. k - 1 \in Nat /\ k \in Nat /\ k - 1 <= k /\ \A m \in ((k - 1) + 1)..k : m = k
      BY SMT, <1>1
    <3> QED BY <3>1, <3>2, EpochExtends
  <2> QED BY <2>1, <2>2
<1>8. EpochAfter(stored, epoch)'
  BY ZenonT(60), <1>2, <1>7 DEF EpochAfter
<1>9. writes' \in [Indexes -> Nat]
  BY SMTT(30), <1>2, <1>3
<1> QED BY SMTT(30), <1>1, <1>2, <1>4, <1>5, <1>6, <1>8, <1>9 DEF AppliedExactlyOnce

\* A step that writes nothing keeps the engine exact.
LEMMA StillExact ==
    ASSUME EngineInv, Stable, LogTypes', UNCHANGED <<stored, epoch, writes>>
    PROVE  AppliedExactlyOnce'
<1>1. /\ LogTypes /\ committed \in Nat /\ committed' >= committed /\ stored \in 0..committed
      /\ stored <= committed'
  <2>1. LogTypes /\ committed \in Nat /\ stored \in Nat /\ stored <= committed /\ committed <= committed'
        /\ committed' \in Int
    BY SMT, ApplyPathAssumption DEF EngineInv, TypeOK, LogTypes, AppliedExactlyOnce, Stable
  <2>2. committed' >= committed /\ stored <= committed' /\ stored \in 0..committed
    BY SMT, <2>1
  <2> QED BY <2>1, <2>2
<1>2. /\ \A i \in 0..committed : \A e : EpochAfter(i, e)' <=> EpochAfter(i, e)
      /\ \A i \in 1..committed : (Accepted(i)' <=> Accepted(i)) /\ (IsCommand(i)' <=> IsCommand(i))
  BY <1>1, VerdictStays
<1>3. EpochAfter(stored, epoch)'
  <2>1. PICK s \in 0..committed, e \in Epochs : s = stored /\ e = epoch
    BY <1>1 DEF EngineInv, TypeOK
  <2>2. EpochAfter(s, e)'
    BY <1>2, <2>1 DEF EngineInv, AppliedExactlyOnce
  <2>3. s = stored' /\ e = epoch'
    BY <2>1
  <2> QED BY <2>2, <2>3 DEF EpochAfter
<1>4. ASSUME NEW i \in Indexes
      PROVE  writes'[i] = IF i <= stored' /\ IsCommand(i)' /\ Accepted(i)' THEN 1 ELSE 0
  <2>1. writes[i] = IF i <= stored /\ IsCommand(i) /\ Accepted(i) THEN 1 ELSE 0
    BY DEF EngineInv, AppliedExactlyOnce
  <2>2. CASE i <= stored
    <3>1. i \in 1..committed
      BY SMTT(30), <1>1, <2>2, ApplyPathAssumption DEF Indexes
    <3> QED BY <1>2, <2>1, <2>2, <3>1
  <2>3. CASE ~(i <= stored)
    BY ZenonT(60), <2>1, <2>3
  <2> QED BY <2>2, <2>3
<1> QED BY <1>1, <1>3, <1>4 DEF AppliedExactlyOnce

\* The pump's position, the watermarks and the rings, apart from what the engine holds.
PumpInv == Order /\ Passed /\ Rings
pumpVars == <<diskVars, smApplied, ring, receipts, driverApplied, pc, taken, cursor, batchEnd>>

\* Numbers of the pump, for arithmetic.
LEMMA PumpNumbers ==
    ASSUME EngineInv
    PROVE  /\ committed \in Nat /\ taken \in Nat /\ cursor \in Nat /\ batchEnd \in Nat /\ stored \in Nat
           /\ smApplied \in Nat /\ confApplied \in Nat /\ driverApplied.index \in Nat /\ last \in Nat
           /\ MaxIndex \in Nat /\ cursor <= taken /\ taken <= committed /\ committed <= last
           /\ last <= MaxIndex /\ driverApplied.index <= cursor
BY SMT, ApplyPathAssumption DEF EngineInv, TypeOK, Order

\* Raft's steps and the callers' leave all of it as it is.
LEMMA PumpQuiet ==
    ASSUME EngineInv, Rings, Stable, LogTypes', UNCHANGED pumpVars PROVE PumpInv' /\ AppliedExactlyOnce'
<1>0. /\ committed \in Nat /\ taken \in Nat /\ cursor \in Nat /\ batchEnd \in Nat /\ stored \in Nat
      /\ smApplied \in Nat /\ confApplied \in Nat /\ driverApplied.index \in Nat /\ last \in Nat
      /\ cursor <= taken /\ taken <= committed /\ driverApplied.index <= cursor
  BY PumpNumbers
<1>1. committed <= committed' /\ committed' \in Int /\ \A i \in 1..committed : log'[i] = log[i]
  BY SMT DEF Stable, LogTypes
<1>2. UNCHANGED <<stored, epoch, writes, confApplied, smApplied, ring, receipts, driverApplied, pc,
                  taken, cursor, batchEnd>>
  BY DEF pumpVars, diskVars
<1>3. Order'
  <2>1. pc = "receipt" => cursor + 1 \in 1..committed
    BY SMTT(30), <1>0 DEF EngineInv, Order
  <2>2. driverApplied.index > 0 => driverApplied.index \in 1..committed
    BY SMTT(30), <1>0
  <2>3. \A n \in Int : n <= committed => n <= committed'
    BY SMTT(30), <1>0, <1>1
  <2>4. taken <= committed' /\ stored <= committed' /\ confApplied <= committed'
    BY SMT, <1>0, <2>3 DEF EngineInv, Order
  <2> QED BY ZenonT(60), <1>1, <1>2, <2>1, <2>2, <2>4 DEF EngineInv, Order
<1>4. Passed'
  <2>1. \A i \in 1..cursor : log'[i] = log[i]
    BY SMTT(30), <1>0, <1>1
  <2> QED BY <1>2, <2>1 DEF EngineInv, Passed, IsCommand
<1>5. Rings'
  <2>1. ASSUME NEW e \in ring PROVE e.index <= cursor /\ e.term = log'[e.index].term
    <3>1. e.index \in 1..committed
      BY SMTT(30), <1>0 DEF EngineInv, TypeOK, RingEntries, Indexes, Rings
    <3> QED BY ZenonT(60), <1>1, <3>1 DEF Rings
  <2>2. ASSUME NEW r \in receipts
        PROVE  r.index <= cursor /\ r.term = log'[r.index].term /\ log'[r.index].kind = "conf"
    <3>1. r.index \in 1..committed
      BY SMTT(30), <1>0 DEF EngineInv, TypeOK, Indexes, Rings
    <3> QED BY <1>1, <3>1 DEF Rings
  <2> QED BY <1>2, <2>1, <2>2 DEF Rings
<1>6. AppliedExactlyOnce'
  BY <1>2, StillExact
<1> QED BY <1>3, <1>4, <1>5, <1>6 DEF PumpInv

PumpTypes ==
    /\ stored \in 0..MaxIndex /\ epoch \in Epochs /\ confApplied \in 0..MaxIndex
    /\ writes \in [Indexes -> Nat]
    /\ smApplied \in 0..MaxIndex
    /\ ring \subseteq RingEntries
    /\ receipts \subseteq [index : Indexes, term : Terms]
    /\ driverApplied \in [term : 0..MaxTerm, index : 0..MaxIndex]
    /\ pc \in {"idle", "apply", "receipt", "poison", "fatal", "service", "serve", "stopped"}
    /\ taken \in 0..MaxIndex /\ cursor \in 0..MaxIndex /\ batchEnd \in 0..MaxIndex
PumpGoal == PumpTypes /\ PumpInv /\ AppliedExactlyOnce

\* The entry the pump is at.
LEMMA AtNext ==
    ASSUME EngineInv, cursor < batchEnd
    PROVE  /\ Next1 \in 1..committed /\ Next1 = cursor + 1 /\ Next1 \in 1..taken /\ Next1 \in Indexes
           /\ log[Next1] \in Entries /\ log[Next1].term \in Terms
<1>1. /\ committed \in Nat /\ taken \in Nat /\ cursor \in Nat /\ last \in Nat /\ MaxIndex \in Nat
      /\ taken <= committed /\ committed <= last /\ last <= MaxIndex /\ batchEnd = taken
  BY PumpNumbers DEF EngineInv, Order
<1>2. Next1 = cursor + 1 /\ Next1 \in 1..committed /\ Next1 \in 1..taken /\ Next1 \in Indexes /\ Next1 \in 1..last
  BY SMT, <1>1 DEF Next1, Indexes
<1>3. log[Next1] \in Entries
  BY <1>2 DEF EngineInv, Filled
<1> QED BY <1>2, <1>3 DEF Entries

\* Filing receipts of the entries the cursor passes.
LEMMA RingStep ==
    ASSUME EngineInv, Rings, NEW new \in SUBSET RingEntries, ring' = PushRing(new),
           UNCHANGED <<log, receipts>>, cursor' \in Nat, cursor <= cursor',
           \A e, f \in new : e.index = f.index => e = f,
           \A e \in new : cursor < e.index /\ e.index <= cursor' /\ e.term = log[e.index].term
    PROVE  /\ Rings' /\ ring' \subseteq RingEntries
           /\ \A e \in ring \cup new : e \in ring' \/ Evicted(e.index)'
           /\ \A i \in Int : Evicted(i) => Evicted(i)'
<1>0. cursor \in Nat /\ ring \subseteq RingEntries /\ \A e \in RingEntries : e.index \in Int
  <2>1. cursor \in Nat /\ ring \subseteq RingEntries
    BY PumpNumbers DEF EngineInv, TypeOK
  <2>2. \A e \in RingEntries : e.index \in Int
    BY SMT, ApplyPathAssumption DEF RingEntries, Indexes
  <2> QED BY <2>1, <2>2
<1>1. \A e \in ring : \A f \in new : e.index < f.index
  BY SMT, <1>0 DEF Rings
<1>2. \A e, f \in ring : e.index = f.index => e = f
  BY DEF Rings
<1>3. /\ ring' \subseteq ring \cup new /\ IsFiniteSet(ring')
      /\ \A e, f \in ring' : e.index = f.index => e = f
      /\ \A e \in ring \cup new : e \in ring' \/ Evicted(e.index)'
      /\ \A i \in Int : Evicted(i) => Evicted(i)'
  BY <1>0, <1>1, <1>2, Pushed
<1>4. \A e \in ring \cup new : e.index <= cursor' /\ e.term = log[e.index].term
  BY SMTT(30), <1>0 DEF Rings
<1>5. \A r \in receipts : r.index <= cursor' /\ r.term = log[r.index].term /\ log[r.index].kind = "conf"
  <2>1. \A r \in receipts : r.index \in Int
    BY SMT, ApplyPathAssumption DEF EngineInv, TypeOK, Indexes
  <2> QED BY SMTT(30), <1>0, <2>1 DEF Rings
<1>6. Rings'
  BY <1>3, <1>4, <1>5 DEF Rings
<1> QED BY ZenonT(60), <1>0, <1>3, <1>6

\* A batch applied: the cursor, the watermark and the receipts move together.
LEMMA CommandsStep ==
    ASSUME EngineInv, Rings, NEW k, Applies(k), WriteApplied(Next1, k), smApplied' = k, cursor' = k,
           ring' = PushRing({Receipt(j, IF Fresh(j) THEN "applied" ELSE "rejected") : j \in Next1..k}),
           UNCHANGED <<raftVars, confApplied, receipts, driverApplied, pc, taken, batchEnd>>
    PROVE  /\ PumpGoal'
           /\ \A j \in Next1..k : \/ \E e \in ring' : e.index = j /\ (e.outcome = "applied" <=> Accepted(j))
                                  \/ Evicted(j)'
           /\ \A e \in ring : e \in ring' \/ Evicted(e.index)'
           /\ \A i \in Int : Evicted(i) => Evicted(i)'
<1> DEFINE R(j) == Receipt(j, IF Fresh(j) THEN "applied" ELSE "rejected")
           new == {R(j) : j \in Next1..k}
<1>1. /\ cursor \in Nat /\ Next1 \in 1..k /\ k \in 1..committed /\ k <= taken
      /\ stored = smApplied /\ stored <= cursor /\ stored \in Nat /\ committed <= MaxIndex
      /\ \A j \in (stored + 1)..cursor : ~IsCommand(j)
      /\ \A j \in Next1..k : IsCommand(j) /\ (Fresh(j) <=> Accepted(j))
  BY GroupFacts
<1>2. /\ committed \in Nat /\ committed <= last /\ last \in Nat /\ MaxIndex \in Nat /\ Next1 = cursor + 1
      /\ driverApplied.index \in Nat /\ driverApplied.index <= cursor /\ taken \in Nat /\ taken <= committed
      /\ k \in Nat /\ k > cursor /\ pc = "apply" /\ confApplied \in Nat
  BY SMT, PumpNumbers DEF Next1, Applies, Indexes
<1>3. AppliedExactlyOnce' /\ stored' = k /\ writes' \in [Indexes -> Nat] /\ epoch' \in Epochs
  BY BatchExact
<1>4. \A j \in Next1..k : /\ R(j) \in RingEntries /\ R(j).index = j /\ R(j).term = log[j].term
                          /\ (R(j).outcome = "applied" <=> Fresh(j))
  <2> TAKE j \in Next1..k
  <2>1. j \in 1..last /\ j \in Indexes
    BY SMT, <1>1, <1>2 DEF Indexes
  <2>2. log[j].term \in Terms
    BY <2>1 DEF EngineInv, Filled, Entries
  <2> QED BY <2>1, <2>2 DEF Receipt, RingEntries, Outcomes
<1>5. ring' = PushRing(new)
  OBVIOUS
<1> HIDE DEF R
<1>6. /\ new \in SUBSET RingEntries
      /\ \A e, f \in new : e.index = f.index => e = f
      /\ \A e \in new : cursor < e.index /\ e.index <= cursor' /\ e.term = log[e.index].term
  BY SMT, <1>1, <1>2, <1>4
<1>7. UNCHANGED <<log, last, committed, term, leads>>
  BY DEF raftVars
<1>8. cursor' \in Nat /\ cursor <= cursor'
  BY SMT, <1>1, <1>2
<1>9. /\ Rings' /\ ring' \subseteq RingEntries
      /\ \A e \in ring \cup new : e \in ring' \/ Evicted(e.index)'
      /\ \A i \in Int : Evicted(i) => Evicted(i)'
  <2> HIDE DEF new
  <2> QED BY <1>5, <1>6, <1>7, <1>8, RingStep
<1>10. \A j \in Next1..k : \/ \E e \in ring' : e.index = j /\ (e.outcome = "applied" <=> Accepted(j))
                           \/ Evicted(j)'
  <2> TAKE j \in Next1..k
  <2>1. PICK e \in new : e = R(j)
    OBVIOUS
  <2>2. e.index = j /\ (e.outcome = "applied" <=> Accepted(j))
    BY <1>1, <1>4, <2>1
  <2>3. e \in ring' \/ Evicted(e.index)'
    BY <1>9
  <2> QED BY <2>2, <2>3
<1>11. Order'
  BY SMT, <1>1, <1>2, <1>3, <1>7 DEF EngineInv, Order
<1>12. Passed'
  <2>1. ASSUME NEW i \in 1..k PROVE i <= k /\ (log[i].kind = "conf" => i <= confApplied)
    <3>0. cursor \in Nat /\ k \in Nat /\ Next1 = cursor + 1
      BY <1>1, <1>2
    <3>1. CASE i \in 1..cursor
      <4>1. log[i].kind = "conf" => i <= confApplied
        BY <3>1 DEF EngineInv, Passed
      <4>2. i <= k
        BY SMT
      <4> QED BY <4>1, <4>2
    <3>2. CASE i \in Next1..k
      BY SMT, <1>1, <3>2 DEF IsCommand
    <3>3. i \in 1..cursor \/ i \in Next1..k
      BY SMT, <3>0
    <3> QED BY <3>1, <3>2, <3>3
  <2> QED BY ZenonT(60), <1>7, <2>1 DEF Passed
<1>13. PumpTypes'
  <2>1. k \in 0..MaxIndex
    BY SMT, <1>1, <1>2
  <2> QED BY <1>3, <1>7, <1>9, <2>1 DEF EngineInv, TypeOK, PumpTypes
<1> QED BY <1>3, <1>9, <1>10, <1>11, <1>12, <1>13 DEF PumpGoal, PumpInv

\* Steps that only move the pump to its next point.
LEMMA TurnStep ==
    ASSUME EngineInv, Rings,
           UNCHANGED <<raftVars, diskVars, smApplied, ring, receipts, driverApplied, taken, cursor, batchEnd>>,
           pc' \in {"idle", "poison", "fatal", "service", "serve", "stopped"},
           pc' \in {"idle", "service", "serve"} => cursor = taken /\ stored = smApplied
    PROVE  PumpGoal'
<1>1. UNCHANGED <<log, last, committed, term, leads, stored, epoch, writes, confApplied>>
  BY ZenonT(60) DEF raftVars, diskVars
<1>2. AppliedExactlyOnce'
  BY SMTT(30), <1>1 DEF EngineInv, AppliedExactlyOnce, EpochAfter, Accepted, IsCommand
<1>3. Passed' /\ Rings'
  BY <1>1 DEF EngineInv, Passed, IsCommand, Rings
<1>4. Order'
  BY <1>1 DEF EngineInv, Order
<1>5. PumpTypes'
  BY <1>1 DEF EngineInv, TypeOK, PumpTypes
<1> QED BY <1>2, <1>3, <1>4, <1>5 DEF PumpGoal, PumpInv

\* The pump's own steps keep its position, the watermarks, the rings and the engine.
LEMMA PumpStep == ASSUME EngineInv, Rings, Pump PROVE PumpGoal'
<1>0. /\ committed \in Nat /\ taken \in Nat /\ cursor \in Nat /\ batchEnd \in Nat /\ stored \in Nat
      /\ smApplied \in Nat /\ confApplied \in Nat /\ driverApplied.index \in Nat /\ last \in Nat
      /\ MaxIndex \in Nat /\ cursor <= taken /\ taken <= committed /\ committed <= last
      /\ last <= MaxIndex /\ driverApplied.index <= cursor /\ batchEnd = taken
  BY PumpNumbers DEF EngineInv, Order
<1>1. UNCHANGED raftVars /\ UNCHANGED <<log, last, committed, term, leads>>
  BY PumpMoves DEF raftVars
<1>2. ASSUME UNCHANGED <<stored, epoch, writes>> PROVE AppliedExactlyOnce'
  BY SMTT(30), <1>1, <1>2 DEF EngineInv, AppliedExactlyOnce, EpochAfter, Accepted, IsCommand
<1>3. CASE TakeReady
  <2>1. PICK k \in (taken + 1)..committed :
          /\ pc = "idle" /\ pc' = "apply" /\ cursor' = taken /\ taken' = k /\ batchEnd' = k
          /\ UNCHANGED <<diskVars, smApplied, ring, receipts, driverApplied>>
    BY <1>3 DEF TakeReady, driverVars
  <2>2. cursor = taken /\ cursor' = cursor /\ UNCHANGED <<stored, epoch, writes, confApplied>>
    BY ZenonT(60), <2>1 DEF EngineInv, Order, diskVars
  <2>3. Order'
    <3>1. cursor <= k /\ k <= committed
      BY SMT, <1>0, <2>2
    <3>2. /\ batchEnd' = taken' /\ cursor' <= taken' /\ taken' <= committed'
          /\ pc' = "apply" /\ stored' = smApplied'
      BY <1>1, <2>1, <2>2, <3>1 DEF EngineInv, Order
    <3> QED BY <1>1, <2>1, <2>2, <3>2 DEF EngineInv, Order
  <2>4. Passed' /\ Rings'
    BY <1>1, <2>1, <2>2 DEF EngineInv, Passed, IsCommand, Rings
  <2>5. PumpTypes'
    <3>1. k \in 0..MaxIndex
      BY SMT, <1>0
    <3> QED BY <1>1, <2>1, <2>2, <3>1 DEF EngineInv, TypeOK, PumpTypes
  <2> QED BY <1>2, <2>2, <2>3, <2>4, <2>5 DEF PumpGoal, PumpInv
<1>4. CASE ApplyNoop
  <2>1. /\ pc = "apply" /\ cursor < batchEnd /\ log[Next1].kind = "noop" /\ cursor' = Next1
        /\ UNCHANGED <<stored, epoch, writes, confApplied, smApplied, ring, receipts, driverApplied, pc,
                       taken, batchEnd>>
    BY <1>4 DEF ApplyNoop, diskVars, driverVars
  <2>2. Next1 \in 1..committed /\ Next1 = cursor + 1 /\ Next1 \in 1..taken /\ Next1 \in Indexes
    BY <2>1, AtNext
  <2>3. Order'
    BY SMT, <1>0, <1>1, <2>1, <2>2 DEF EngineInv, Order
  <2>4. Passed'
    <3>1. \A i \in 1..Next1 : i \in 1..cursor \/ i = Next1
      BY SMT, <1>0, <2>2
    <3> QED BY <1>1, <2>1, <3>1 DEF EngineInv, Passed, IsCommand
  <2>5. Rings'
    <3>1. (\A e \in ring : e.index \in Int) /\ \A r \in receipts : r.index \in Int
      BY SMT, ApplyPathAssumption DEF EngineInv, TypeOK, RingEntries, Indexes
    <3>2. \A n \in Int : n <= cursor => n <= Next1
      BY SMT, <1>0, <2>2
    <3> QED BY ZenonT(60), <1>1, <2>1, <3>1, <3>2 DEF Rings
  <2>6. PumpTypes'
    <3>1. Next1 \in 0..MaxIndex
      BY SMT, <1>0, <2>2
    <3> QED BY <1>1, <2>1, <3>1 DEF EngineInv, TypeOK, PumpTypes
  <2> QED BY <1>2, <2>1, <2>3, <2>4, <2>5, <2>6 DEF PumpGoal, PumpInv
<1>5. CASE ApplyRedelivered
  <2> DEFINE new == {Receipt(Next1, "applied")}
  <2>1. /\ pc = "apply" /\ cursor < batchEnd /\ IsCommand(Next1) /\ Next1 <= smApplied
        /\ ring' = PushRing(new) /\ cursor' = Next1
        /\ UNCHANGED <<stored, epoch, writes, confApplied, smApplied, receipts, driverApplied, pc,
                       taken, batchEnd>>
    BY <1>5 DEF ApplyRedelivered, AlreadyApplied, diskVars
  <2>2. /\ Next1 \in 1..committed /\ Next1 = cursor + 1 /\ Next1 \in 1..taken /\ Next1 \in Indexes
        /\ log[Next1].term \in Terms
    BY <2>1, AtNext
  <2>3. /\ new \in SUBSET RingEntries /\ \A e, f \in new : e.index = f.index => e = f
        /\ \A e \in new : e.index = Next1 /\ e.term = log[e.index].term
    BY SMTT(30), <2>2 DEF Receipt, RingEntries, Outcomes
  <2>4. /\ cursor' \in Nat /\ cursor <= cursor'
        /\ \A e \in new : cursor < e.index /\ e.index <= cursor' /\ e.term = log[e.index].term
    BY SMT, <1>0, <2>1, <2>2, <2>3
  <2>5. Rings' /\ ring' \subseteq RingEntries
    <3> HIDE DEF new
    <3> QED BY ZenonT(60), <1>1, <2>1, <2>3, <2>4, RingStep
  <2> HIDE DEF new
  <2>6. Order'
    BY SMTT(30), <1>0, <1>1, <2>1, <2>2 DEF EngineInv, Order
  <2>7. Passed'
    <3>1. \A i \in 1..Next1 : i \in 1..cursor \/ i = Next1
      BY SMT, <1>0, <2>2
    <3> QED BY <1>1, <2>1, <3>1 DEF EngineInv, Passed, IsCommand
  <2>8. PumpTypes'
    <3>1. Next1 \in 0..MaxIndex
      BY SMT, <1>0, <2>2
    <3> QED BY <1>1, <2>1, <2>5, <3>1 DEF EngineInv, TypeOK, PumpTypes
  <2> QED BY <1>2, <2>1, <2>5, <2>6, <2>7, <2>8 DEF PumpGoal, PumpInv
<1>6. CASE ApplyCommands
  <2>1. PICK k \in Indexes :
          /\ pc = "apply" /\ cursor < batchEnd
          /\ k > cursor /\ IsGroup(Next1, k) /\ ~AlreadyApplied(Next1)
          /\ WriteApplied(Next1, k) /\ smApplied' = k
          /\ ring' = PushRing({Receipt(j, IF Fresh(j) THEN "applied" ELSE "rejected") : j \in Next1..k})
          /\ cursor' = k
          /\ UNCHANGED <<raftVars, confApplied, receipts, driverApplied, pc, taken, batchEnd>>
    BY <1>6 DEF ApplyCommands
  <2>2. Applies(k)
    BY <2>1 DEF Applies
  <2> QED BY <2>1, <2>2, CommandsStep
<1>7. CASE ApplyConf
  <2>1. /\ pc = "apply" /\ cursor < batchEnd /\ log[Next1].kind = "conf" /\ pc' = "receipt"
        /\ confApplied' = IF Next1 > confApplied THEN Next1 ELSE confApplied
        /\ UNCHANGED <<stored, epoch, writes, smApplied, ring, receipts, driverApplied, taken, cursor,
                       batchEnd>>
    BY <1>7 DEF ApplyConf, driverVars
  <2>2. Next1 \in 1..committed /\ Next1 = cursor + 1 /\ Next1 \in 1..taken /\ Next1 \in Indexes
    BY <2>1, AtNext
  <2>3. confApplied' \in 0..MaxIndex /\ confApplied' >= confApplied /\ Next1 <= confApplied'
        /\ confApplied' <= committed
    BY SMT, <1>0, <2>1, <2>2 DEF EngineInv, Order
  <2>4. Order'
    BY ZenonT(60), <1>0, <1>1, <2>1, <2>2, <2>3 DEF EngineInv, Order
  <2>5. Passed'
    BY SMT, <1>0, <1>1, <2>1, <2>3 DEF EngineInv, Passed, IsCommand
  <2>6. Rings'
    BY <1>1, <2>1 DEF Rings
  <2>7. PumpTypes'
    BY <1>1, <2>1, <2>3 DEF EngineInv, TypeOK, PumpTypes
  <2> QED BY <1>2, <2>1, <2>4, <2>5, <2>6, <2>7 DEF PumpGoal, PumpInv
<1>8. CASE PushConfReceipt
  <2> DEFINE r0 == [index |-> Next1, term |-> log[Next1].term]
  <2>1. /\ pc = "receipt" /\ pc' = "apply" /\ cursor' = Next1 /\ receipts' \subseteq receipts \cup {r0}
        /\ UNCHANGED <<stored, epoch, writes, confApplied, smApplied, ring, driverApplied, taken, batchEnd>>
    BY <1>8 DEF PushConfReceipt, diskVars
  <2>2. cursor < batchEnd /\ log[Next1].kind = "conf" /\ Next1 <= confApplied
    BY <2>1 DEF EngineInv, Order, Next1
  <2>3. /\ Next1 \in 1..committed /\ Next1 = cursor + 1 /\ Next1 \in 1..taken /\ Next1 \in Indexes
        /\ log[Next1].term \in Terms
    BY ZenonT(60), <2>2, AtNext
  <2>4. Order'
    BY SMTT(30), <1>0, <1>1, <2>1, <2>2, <2>3 DEF EngineInv, Order
  <2>5. Passed'
    <3>1. \A i \in 1..Next1 : i \in 1..cursor \/ i = Next1
      BY SMT, <1>0, <2>3
    <3> QED BY <1>1, <2>1, <2>2, <3>1 DEF EngineInv, Passed, IsCommand
  <2>6. Rings'
    <3>1. (\A e \in ring : e.index \in Int) /\ \A r \in receipts : r.index \in Int
      BY SMT, ApplyPathAssumption DEF EngineInv, TypeOK, RingEntries, Indexes
    <3>2. Next1 <= Next1 /\ \A n \in Int : n <= cursor => n <= Next1
      BY SMTT(30), <1>0, <2>3
    <3>3. \A r \in receipts \cup {r0} :
            r.index <= Next1 /\ r.term = log[r.index].term /\ log[r.index].kind = "conf"
      BY SMT, <2>2, <3>1, <3>2 DEF Rings
    <3>4. \A e \in ring : e.index <= Next1 /\ e.term = log[e.index].term
      BY <3>1, <3>2 DEF Rings
    <3> QED BY <1>1, <2>1, <3>3, <3>4 DEF Rings
  <2>7. PumpTypes'
    <3>1. Next1 \in 0..MaxIndex
      BY SMT, <1>0, <2>3
    <3>2. r0 \in [index : Indexes, term : Terms]
      BY <2>3
    <3>3. receipts' \subseteq [index : Indexes, term : Terms]
      BY <2>1, <3>2 DEF EngineInv, TypeOK
    <3> QED BY <1>1, <2>1, <3>1, <3>3 DEF EngineInv, TypeOK, PumpTypes
  <2> QED BY <1>2, <2>1, <2>4, <2>5, <2>6, <2>7 DEF PumpGoal, PumpInv
<1>9. CASE Publish
  <2>1. /\ pc = "apply" /\ cursor = batchEnd /\ pc' = "service"
        /\ driverApplied' = IF batchEnd > driverApplied.index
                            THEN [term |-> log[batchEnd].term, index |-> batchEnd] ELSE driverApplied
        /\ UNCHANGED <<stored, epoch, writes, confApplied, smApplied, ring, receipts, taken, cursor,
                       batchEnd>>
    BY <1>9 DEF Publish, diskVars
  <2>2. /\ driverApplied' \in [term : 0..MaxTerm, index : 0..MaxIndex]
        /\ driverApplied'.index <= cursor
        /\ driverApplied'.index > 0 => log[driverApplied'.index].term = driverApplied'.term
    <3>1. CASE batchEnd > driverApplied.index
      <4>1. batchEnd \in 1..last /\ batchEnd \in 0..MaxIndex
        BY SMTT(30), <1>0, <3>1
      <4>2. log[batchEnd].term \in 0..MaxTerm
        BY SMT, <4>1, ApplyPathAssumption DEF EngineInv, Filled, Entries, Terms
      <4> QED BY <1>0, <2>1, <3>1, <4>1, <4>2
    <3>2. CASE ~(batchEnd > driverApplied.index)
      BY <1>0, <2>1, <3>2 DEF EngineInv, TypeOK, Order
    <3> QED BY <3>1, <3>2
  <2>3. Order'
    BY <1>0, <1>1, <2>1, <2>2 DEF EngineInv, Order
  <2>4. Passed' /\ Rings'
    BY <1>1, <2>1 DEF EngineInv, Passed, IsCommand, Rings
  <2>5. PumpTypes'
    BY <1>1, <2>1, <2>2 DEF EngineInv, TypeOK, PumpTypes
  <2> QED BY <1>2, <2>1, <2>3, <2>4, <2>5 DEF PumpGoal, PumpInv
<1>10. CASE TakeNothing \/ PoisonClose \/ PoisonRecord \/ LeaveLoop \/ ServiceTake \/ ServiceOne
             \/ ServiceEnd
  <2>1. /\ UNCHANGED <<raftVars, diskVars, smApplied, ring, receipts, driverApplied, taken, cursor, batchEnd>>
        /\ pc' \in {"idle", "poison", "fatal", "service", "serve", "stopped"}
        /\ pc' \in {"idle", "service", "serve"} => pc \in {"idle", "service", "serve"}
    BY <1>10 DEF TakeNothing, PoisonClose, PoisonRecord, LeaveLoop, ServiceTake, ServiceOne,
                 ServiceEnd, driverVars
  <2>2. pc \in {"idle", "service", "serve"} => cursor = taken /\ stored = smApplied
    BY DEF EngineInv, Order
  <2> QED BY <2>1, <2>2, TurnStep
<1> QED BY <1>3, <1>4, <1>5, <1>6, <1>7, <1>8, <1>9, <1>10 DEF Pump

\* A batch that fails, durable or not, ends the turn.
LEMMA FailStep == ASSUME EngineInv, Rings, ApplyFails PROVE PumpGoal'
<1>1. PICK k \in Indexes :
        /\ Applies(k) /\ (WriteApplied(Next1, k) \/ UNCHANGED <<stored, writes, epoch>>)
        /\ pc' = "poison"
        /\ UNCHANGED <<raftVars, confApplied, smApplied, ring, receipts, driverApplied, taken, cursor,
                       batchEnd>>
  BY DEF ApplyFails, Applies, OnError, driverVars
<1>2. CASE UNCHANGED <<stored, writes, epoch>>
  <2>1. UNCHANGED diskVars
    BY <1>1, <1>2 DEF diskVars
  <2> QED BY <1>1, <2>1, TurnStep
<1>3. CASE WriteApplied(Next1, k)
  <2>1. AppliedExactlyOnce' /\ stored' = k /\ writes' \in [Indexes -> Nat] /\ epoch' \in Epochs
    BY <1>1, <1>3, BatchExact
  <2>2. /\ k \in 1..committed /\ Next1 \in 1..k /\ stored = smApplied /\ stored <= cursor
        /\ committed <= MaxIndex
    BY <1>1, GroupFacts
  <2>3. /\ cursor \in Nat /\ smApplied \in Nat /\ committed \in Nat /\ Next1 = cursor + 1 /\ MaxIndex \in Nat
        /\ stored \in Nat
    BY PumpNumbers DEF Next1
  <2>4. UNCHANGED <<log, last, committed, term, leads>>
    BY <1>1 DEF raftVars
  <2>5. smApplied <= k /\ k <= committed /\ k \in 0..MaxIndex
    BY SMT, <2>2, <2>3
  <2>6. Order'
    BY <1>1, <2>1, <2>4, <2>5 DEF EngineInv, Order
  <2>7. Passed' /\ Rings'
    BY <1>1, <2>4 DEF EngineInv, Passed, IsCommand, Rings
  <2>8. PumpTypes'
    BY <1>1, <2>1, <2>4, <2>5 DEF EngineInv, TypeOK, PumpTypes
  <2> QED BY <2>1, <2>6, <2>7, <2>8 DEF PumpGoal, PumpInv
<1> QED BY <1>1, <1>2, <1>3

\* The process starts again from what is durable.
LEMMA RestartStep == ASSUME EngineInv, Rings, Crash, LogTypes', Stable PROVE PumpGoal'
<1>1. /\ smApplied' = stored /\ ring' = {} /\ receipts' = {} /\ driverApplied' = Nowhere
      /\ pc' = "idle" /\ taken' = 0 /\ cursor' = 0 /\ batchEnd' = 0
      /\ UNCHANGED <<committed, stored, epoch, writes, confApplied>>
  BY DEF Crash, diskVars
<1>2. MaxIndex \in Nat /\ MaxTerm \in Nat /\ stored \in Nat /\ committed \in Nat
  BY PumpNumbers, ApplyPathAssumption
<1>3. AppliedExactlyOnce'
  BY <1>1, StillExact
<1>4. Passed'
  BY SMT, <1>1, <1>2 DEF Passed
<1>5. Rings'
  BY <1>1, FS_EmptySet DEF Rings
<1>6. driverApplied'.index = 0
  BY SMTT(30), <1>1 DEF Nowhere
<1>7. Order'
  <2>1. stored <= committed /\ confApplied <= committed
    BY DEF EngineInv, Order
  <2> QED BY SMTT(30), <1>1, <1>2, <1>6, <2>1 DEF Order
<1>8. PumpTypes'
  <2>1. driverApplied' \in [term : 0..MaxTerm, index : 0..MaxIndex]
    BY SMT, <1>1, <1>2 DEF Nowhere
  <2> QED BY SMTT(30), <1>1, <1>2, <2>1 DEF EngineInv, TypeOK, PumpTypes
<1> QED BY <1>3, <1>4, <1>5, <1>7, <1>8 DEF PumpGoal, PumpInv

\* Raft, the callers and stop do not touch the pump's state.
LEMMA OthersQuiet ==
    ASSUME \/ Raft \/ Stop
           \/ \E w : AsyncCaller(w) \/ SyncCaller(w) \/ ConfCaller(w)
    PROVE  UNCHANGED pumpVars
<1> USE DEF pumpVars, diskVars, driverVars, turnVars
<1>1. CASE Raft
  BY <1>1 DEF Raft, Elect, Depose, Replicate, Commit
<1>2. CASE Stop
  BY <1>2 DEF Stop
<1>3. ASSUME NEW w, AsyncCaller(w) PROVE UNCHANGED pumpVars
  BY <1>3 DEF AsyncCaller, Reserve, ProposeAsync, Register, Receive, CloseTicket
<1>4. ASSUME NEW w, SyncCaller(w) PROVE UNCHANGED pumpVars
  BY <1>4 DEF SyncCaller, ProposeSync, LookWatermark, LookRing
<1>5. ASSUME NEW w, ConfCaller(w) PROVE UNCHANGED pumpVars
  BY <1>5 DEF ConfCaller, ProposeConf, LookReceipt, LookPassed
<1> QED BY <1>1, <1>2, <1>3, <1>4, <1>5

\* Every step keeps the engine exact and the pump in order.
LEMMA EngineStep ==
    ASSUME EngineInv, Rings, [Next]_vars, LogTypes', Stable PROVE PumpGoal'
<1>1. ASSUME UNCHANGED pumpVars PROVE PumpGoal'
  <2>1. PumpInv' /\ AppliedExactlyOnce'
    BY <1>1, PumpQuiet
  <2>2. PumpTypes'
    BY <1>1 DEF EngineInv, TypeOK, PumpTypes, pumpVars, diskVars
  <2> QED BY <2>1, <2>2 DEF PumpGoal
<1>2. CASE Pump
  BY <1>2, PumpStep
<1>3. CASE ApplyFails
  BY <1>3, FailStep
<1>4. CASE ConfFails
  <2>1. /\ UNCHANGED <<raftVars, diskVars, smApplied, ring, receipts, driverApplied, taken, cursor, batchEnd>>
        /\ pc' = "poison"
    BY <1>4 DEF ConfFails, OnError, driverVars
  <2> QED BY <2>1, TurnStep
<1>5. CASE Crash
  BY <1>5, RestartStep
<1>6. CASE Raft \/ Stop \/ \E w : AsyncCaller(w) \/ SyncCaller(w) \/ ConfCaller(w)
  BY <1>1, <1>6, OthersQuiet
<1>7. CASE UNCHANGED vars
  <2>1. UNCHANGED pumpVars
    BY <1>7 DEF vars, pumpVars, diskVars, driverVars, turnVars
  <2> QED BY <1>1, <2>1
<1> QED BY <1>2, <1>3, <1>4, <1>5, <1>6, <1>7 DEF Next, Failure
==============================================================================
