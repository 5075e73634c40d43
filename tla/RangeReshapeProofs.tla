------------------------- MODULE RangeReshapeProofs -------------------------
(***************************************************************************)
(* Proofs about RangeReshape, for any stores, operations, keys, cuts, page *)
(* size, lagging catalog copies, elections, restarts and aborts.           *)
(*                                                                         *)
(* What carries them: every catalog version extends the earlier ones and   *)
(* gives a key one owner, a binding is sealed only after the group's own   *)
(* descriptor, and evidence names an intent whose parents are sealed.      *)
(***************************************************************************)
EXTENDS RangeReshape, FiniteSetTheorems, WellFoundedInduction, TLAPS

(* Leaves are tried with Zenon unless they name another prover.           *)
USE Zenon

(* Shapes.  A range that was bound or installed starts at a key.           *)
Positions == 0..(MaxKey + 1)
Ranges == [lo : Positions, hi : Positions, sealed : BOOLEAN]
Spans == [lo : 1..(MaxKey + 1), hi : Positions, sealed : BOOLEAN]
Binds == UNION {[D -> Spans] : D \in SUBSET Regions}
Intents == [task : Nat, op : Ops, parents : Seq(Regions), children : Seq(Regions),
            key : 0..MaxKey]
Catalogs == [bind : Binds, intents : SUBSET Intents, aborts : SUBSET Ops,
             seals : SUBSET (Ops \X Regions), evidence : SUBSET (Ops \X Regions)]
Works == [step : {"idle", "seal", "evidence", "copy", "receipt"}, task : Nat,
          region : Regions \cup {0}]
Drivers == {"split", "merge"}

LogShape ==
    /\ log \in Seq(Catalogs) /\ Len(log) >= 1
    /\ seen \in [Nodes -> Nat] /\ \A n \in Nodes : seen[n] \in 1..Len(log)

GroupShape ==
    /\ desc \in [Regions -> Ranges]
    /\ data \in [Regions -> [Keys -> 0..MaxWrites]]
    /\ leader \in [Regions -> Nodes \cup {None}]
    /\ sealedAt \subseteq Nodes \X Regions /\ retired \subseteq Nodes \X Regions

DriverShape ==
    /\ worker \in [Nodes -> [Drivers -> Works]]
    /\ done \subseteq Nodes \X Regions

CountShape ==
    /\ writes \in 0..MaxWrites /\ elections \in 0..MaxElections
    /\ crashes \in 0..MaxCrashes

(* A later catalog keeps the bindings, their bounds, their seals and the   *)
(* intents of an earlier one.                                              *)
Grows(c, d) ==
    /\ DOMAIN c.bind \subseteq DOMAIN d.bind
    /\ \A r \in DOMAIN c.bind :
          SameBounds(c.bind[r], d.bind[r]) /\ (c.bind[r].sealed => d.bind[r].sealed)
    /\ c.intents \subseteq d.intents

(* In catalog c no key has two unsealed bindings.                          *)
Once(c) ==
    \A k \in Keys : \A r, s \in DOMAIN c.bind :
        /\ ~c.bind[r].sealed /\ contains(c.bind[r], k)
        /\ ~c.bind[s].sealed /\ contains(c.bind[s], k)
        => r = s

(* An intent of c: its parents are bound, its children are its operation's.*)
Formed(c, i) ==
    /\ i.children = Children(i.op)
    /\ i.op \in SplitOps => i.key \in Keys /\ \E p \in DOMAIN c.bind : i.parents = <<p>>
    /\ i.op \notin SplitOps =>
          \E low, high \in DOMAIN c.bind : i.parents = <<low, high>>

Versions ==
    /\ \A a, b \in 1..Len(log) : a <= b => Grows(log[a], log[b])
    /\ \A a \in 1..Len(log) : Once(log[a]) /\ \A i \in log[a].intents : Formed(log[a], i)

(* Tasks are numbered in order.                                            *)
Numbered(c) ==
    /\ IsFiniteSet(c.intents)
    /\ \A i \in c.intents : i.task <= Cardinality(c.intents)
    /\ \A i, j \in c.intents : i.task = j.task => i = j

(* An operation with a bound child is published: no abort of it is         *)
(* effective, and every intent under its identity has its parents sealed.  *)
Served(c) ==
    \A op \in Ops : (\E x \in Elems(Children(op)) : IsBound(c, x)) =>
        /\ op \notin effective_aborts(c)
        /\ \A i \in c.intents : i.op = op => \A p \in Elems(i.parents) : c.bind[p].sealed

(* Seals in the catalog and at the replicas are seals of the group.        *)
SealsTrue ==
    /\ \A r \in DOMAIN Catalog.bind : Catalog.bind[r].sealed => desc[r].sealed
    /\ \A e \in sealedAt : desc[e[2]].sealed

(* What a copy to child x of intent i found, and what a verified copy keeps*)
(* until x is bound, if the operation's identity is i's alone.             *)
Copied(i, x) == desc[x] # NoRange /\ \A p \in Elems(i.parents) : desc[p].sealed
Sole(i) == \A j \in Catalog.intents : j.op = i.op => j = i
Matched(i, x, range) == Rows(x, range) = UNION {Rows(p, range) : p \in Elems(i.parents)}
Exact(i, x) ==
    /\ Copied(i, x)
    /\ Sole(i) /\ ~IsBound(Catalog, x) =>
          \A range \in {ChildRange(Catalog, i, x)} : Matched(i, x, range)

(* A step in flight belongs to a committed intent.                         *)
StepSound(w) ==
    w.step # "idle" =>
        \E i \in Catalog.intents :
            /\ i.task = w.task
            /\ w.step \in {"seal", "evidence"} => w.region \in Elems(i.parents)
            /\ w.step \in {"copy", "receipt"} =>
                  w.region \in Elems(i.children) /\ Copied(i, w.region)
            /\ w.step = "receipt" => Exact(i, w.region)

StepsSound == \A n \in Nodes : \A d \in Drivers : \A w \in {worker[n][d]} : StepSound(w)

EvidenceSound ==
    \A e \in Catalog.evidence :
        \E i \in Catalog.intents :
            i.op = e[1] /\ e[2] \in Elems(i.children) /\ Exact(i, e[2])

Shape == LogShape /\ GroupShape /\ DriverShape /\ CountShape
Named == Numbered(Catalog) /\ Served(Catalog)
IInv == Shape /\ Versions /\ Named /\ SealsTrue /\ StepsSound /\ EvidenceSound

-----------------------------------------------------------------------------
(* Regions, operations and the initial ranges.                             *)

(* The number of regions and operations, and their sets.                   *)
LEMMA Numbers ==
    /\ MaxKey \in Nat /\ MaxKey > 0 /\ MaxWrites \in Nat /\ MaxWrites > 0
    /\ IsFiniteSet(Cuts) /\ Cardinality(Cuts) \in Nat
    /\ Cardinality(Ops) \in Nat /\ Ops = 1..Cardinality(Ops)
    /\ Cardinality(Initial) = Cardinality(Cuts) + 1
    /\ IsFiniteSet(Regions)
  <1>1. MaxKey \in Nat /\ MaxKey > 0 /\ MaxWrites \in Nat /\ MaxWrites > 0
    BY SMT, ConstantsAssumption
  <1>2. IsFiniteSet(2..MaxKey)
    BY SMT, <1>1, FS_Interval
  <1>3. IsFiniteSet(Cuts) /\ Cardinality(Cuts) \in Nat
    BY <1>2, ConstantsAssumption, FS_Subset, FS_CardinalityType
  <1>4. Cardinality(Ops) \in Nat /\ Ops = 1..Cardinality(Ops)
    BY ConstantsAssumption, FS_CardinalityType
  <1>5. Cardinality(1..(Cardinality(Cuts) + 1)) = Cardinality(Cuts) + 1
    BY SMTT(30), <1>3, FS_Interval
  <1>6. Cardinality(Cuts) + 1 + 2 * Cardinality(Ops) \in Int
    BY SMTT(30), <1>3, <1>4
  <1>7. IsFiniteSet(1..(Cardinality(Cuts) + 1 + 2 * Cardinality(Ops)))
    BY SMTT(30), <1>6, FS_Interval
  <1> QED BY <1>1, <1>3, <1>4, <1>5, <1>7 DEF Initial, Regions

(* The elements of the sequences that name parents and children.           *)
LEMMA ElemsOf ==
    \A a, b : Elems(<<a>>) = {a} /\ Elems(<<a, b>>) = {a, b}
  <1> TAKE a, b
  <1>1. DOMAIN <<a>> = {1} /\ DOMAIN <<a, b>> = {1, 2}
    BY SMT
  <1>2. <<a>>[1] = a /\ <<a, b>>[1] = a /\ <<a, b>>[2] = b
    BY SMT
  <1> QED BY <1>1, <1>2 DEF Elems

(* The children of an operation are regions of its own, beyond the initial *)
(* ones (child_operations).                                                *)
LEMMA ChildrenOf ==
    /\ \A op \in Ops : Children(op) \in Seq(Regions) /\ Elems(Children(op)) \subseteq Regions \ Initial
    /\ \A op \in Ops : Children(op)[1] \in Elems(Children(op))
    /\ \A x : \A op, o2 \in Ops : x \in Elems(Children(op)) /\ x \in Elems(Children(o2)) => op = o2
  <1> DEFINE F(op) == Cardinality(Initial) + 2 * op - 1
  <1>1. \A op \in Ops : /\ F(op) \in Regions \ Initial /\ F(op) + 1 \in Regions \ Initial
                        /\ F(op) \in Int
    BY SMTT(30), Numbers DEF Regions, Initial
  <1>2. \A op \in Ops : Children(op) = <<F(op), F(op) + 1>> \/ Children(op) = <<F(op)>>
    BY DEF Children
  <1>3. \A x : \A op, o2 \in Ops : x \in {F(op), F(op) + 1} /\ x \in {F(o2), F(o2) + 1} => op = o2
    <2> SUFFICES ASSUME NEW x, NEW op \in Ops, NEW o2 \in Ops,
                        x \in {F(op), F(op) + 1}, x \in {F(o2), F(o2) + 1}
                 PROVE  op = o2
      OBVIOUS
    <2>1. op \in Int /\ o2 \in Int /\ Cardinality(Initial) \in Int
      BY SMTT(30), Numbers
    <2> QED BY SMT, <2>1
  <1> HIDE DEF F
  <1>4. ASSUME NEW op \in Ops
        PROVE  /\ Children(op) \in Seq(Regions) /\ Children(op)[1] = F(op)
               /\ Elems(Children(op)) \subseteq {F(op), F(op) + 1}
               /\ F(op) \in Elems(Children(op))
    <2>1. CASE Children(op) = <<F(op), F(op) + 1>>
      <3>1. Children(op) \in Seq(Regions) /\ Children(op)[1] = F(op)
        BY SMTT(30), <1>1, <2>1
      <3>2. Elems(<<F(op), F(op) + 1>>) = {F(op), F(op) + 1}
        BY ElemsOf
      <3>3. Elems(Children(op)) = {F(op), F(op) + 1}
        BY <2>1, <3>2
      <3> QED BY <3>1, <3>3
    <2>2. CASE Children(op) = <<F(op)>>
      <3>1. Children(op) \in Seq(Regions) /\ Children(op)[1] = F(op)
        BY SMTT(30), <1>1, <2>2
      <3>2. Elems(<<F(op)>>) = {F(op)}
        BY ElemsOf
      <3>3. Elems(Children(op)) = {F(op)}
        BY <2>2, <3>2
      <3> QED BY <3>1, <3>3
    <2> QED BY <2>1, <2>2, <1>2
  <1>5. \A x : \A op, o2 \in Ops : x \in Elems(Children(op)) /\ x \in Elems(Children(o2)) => op = o2
    BY ZenonT(60), <1>3, <1>4
  <1>6. \A op \in Ops : Elems(Children(op)) \subseteq Regions \ Initial
    BY <1>1, <1>4
  <1>7. \A op \in Ops : Children(op) \in Seq(Regions) /\ Children(op)[1] \in Elems(Children(op))
    BY <1>4
  <1> QED BY <1>5, <1>6, <1>7

(* The cuts up to m.                                                       *)
Below(m) == {c \in Cuts : c <= m}

(* Counting the cuts up to m and up to m + 1.                              *)
LEMMA BelowStep ==
    ASSUME NEW m \in Nat
    PROVE  /\ Cardinality(Below(m)) \in Nat
           /\ Cardinality(Below(m + 1)) = IF m + 1 \in Cuts THEN Cardinality(Below(m)) + 1
                                          ELSE Cardinality(Below(m))
  <1>1. \A c \in Cuts : c \in Int
    BY SMT, ConstantsAssumption
  <1>2. \A c \in Cuts : c <= m + 1 <=> c <= m \/ c = m + 1
    BY SMT, <1>1
  <1>3. IsFiniteSet(Below(m)) /\ Cardinality(Below(m)) \in Nat
    BY Numbers, FS_Subset, FS_CardinalityType DEF Below
  <1>4. m + 1 \notin Below(m)
    BY SMT DEF Below
  <1>5. CASE m + 1 \in Cuts
    <2>0. m + 1 <= m + 1
      BY SMT
    <2>1. Below(m + 1) = Below(m) \cup {m + 1}
      BY <1>2, <1>5, <2>0 DEF Below
    <2> QED BY <1>3, <1>4, <1>5, <2>1, FS_AddElement
  <1>6. CASE m + 1 \notin Cuts
    <2>1. Below(m + 1) = Below(m)
      BY <1>2, <1>6 DEF Below
    <2> QED BY <1>3, <1>6, <2>1
  <1> QED BY <1>5, <1>6

(* There is a j-th cut.                                                    *)
LEMMA CutAt ==
    ASSUME NEW j \in 1..Cardinality(Cuts)
    PROVE  Bound(j) \in Cuts /\ Cardinality(Below(Bound(j))) = j
  <1> DEFINE R == OpToRel(<, Nat)
             S == {m \in Nat : Cardinality(Below(m)) >= j}
  <1>0. j \in Nat /\ j >= 1 /\ j <= Cardinality(Cuts) /\ j # 0
    BY SMT, Numbers
  <1>1. MaxKey \in S
    <2>1. \A c \in Cuts : c <= MaxKey
      BY SMT, ConstantsAssumption
    <2>2. Below(MaxKey) = Cuts
      BY <2>1 DEF Below
    <2>3. Cardinality(Below(MaxKey)) >= j
      BY SMTT(30), <1>0, <2>2, Numbers
    <2> QED BY <2>3, Numbers
  <1>2. IsWellFoundedOn(R, Nat) /\ S \subseteq Nat /\ S # {}
    BY <1>1, NatLessThanWellFounded
  <1>3. \A x, y \in Nat : x < y => <<x, y>> \in R
    BY SMT DEF OpToRel
  <1> HIDE DEF R
  <1>4. PICK m \in S : \A y \in S : ~(<<y, m>> \in R)
    BY <1>2, WFMin
  <1>5. m # 0
    <2>1. \A c \in Cuts : ~(c <= 0)
      BY SMTT(30), ConstantsAssumption
    <2>2. Below(0) = {}
      BY <2>1 DEF Below
    <2>3. Cardinality(Below(0)) = 0
      BY <2>2, FS_EmptySet
    <2>4. ~(0 >= j)
      BY SMT, <1>0
    <2> QED BY <2>3, <2>4
  <1>6. PICK h \in Nat : m = h + 1
    <2>1. m - 1 \in Nat /\ m = (m - 1) + 1
      BY SMT, <1>5
    <2> QED BY <2>1
  <1>7. h \notin S
    <2>1. h < m
      BY SMT, <1>6
    <2> QED BY <1>2, <1>3, <1>4, <2>1
  <1>8. m \in Cuts /\ Cardinality(Below(m)) = j
    <2>1. ~(Cardinality(Below(h)) >= j) /\ Cardinality(Below(h + 1)) >= j
      BY <1>4, <1>6, <1>7
    <2>2. /\ Cardinality(Below(h)) \in Nat
          /\ Cardinality(Below(h + 1)) = IF h + 1 \in Cuts THEN Cardinality(Below(h)) + 1
                                         ELSE Cardinality(Below(h))
      BY BelowStep
    <2>3. h + 1 \in Cuts
      BY <2>1, <2>2
    <2>4. Cardinality(Below(h + 1)) = Cardinality(Below(h)) + 1
      BY <2>2, <2>3
    <2>5. Cardinality(Below(h + 1)) = j
      BY SMTT(30), <1>0, <2>1, <2>2, <2>4
    <2> QED BY <1>6, <2>3, <2>5
  <1>9. ~(j > Cardinality(Cuts))
    BY SMT, <1>0, Numbers
  <1>10. Bound(j) = CHOOSE k \in Cuts : Cardinality(Below(k)) = j
    BY <1>0, <1>9 DEF Bound, Below
  <1> QED BY <1>8, <1>10

(* The bounds of the initial ranges are in key order.                      *)
LEMMA BoundsOrdered ==
    /\ \A j \in 0..(Cardinality(Cuts) + 1) : Bound(j) \in 1..(MaxKey + 1)
    /\ \A i, j \in 0..(Cardinality(Cuts) + 1) : i <= j => Bound(i) <= Bound(j)
  <1> DEFINE N == Cardinality(Cuts)
  <1>0. N \in Nat /\ MaxKey \in Nat
    BY Numbers
  <1>1. Bound(0) = 1 /\ Bound(N + 1) = MaxKey + 1
    <2>1. N + 1 # 0 /\ N + 1 > N
      BY SMT, <1>0
    <2> QED BY <2>1 DEF Bound
  <1>2. \A j \in 1..N : Bound(j) \in Cuts /\ Bound(j) \in 2..MaxKey
    BY CutAt, ConstantsAssumption
  <1>3. ASSUME NEW i \in 1..N, NEW j \in 1..N, i <= j, Bound(j) < Bound(i)
        PROVE  FALSE
    <2>1. /\ Bound(i) \in Cuts /\ Cardinality(Below(Bound(i))) = i
          /\ Bound(j) \in Cuts /\ Cardinality(Below(Bound(j))) = j
      BY CutAt
    <2>2. \A c \in Cuts : c \in Int
      BY SMTT(30), ConstantsAssumption
    <2>3. Bound(i) \notin Below(Bound(j)) /\ \A c \in Cuts : c <= Bound(j) => c <= Bound(i)
      BY SMTT(30), <2>1, <2>2, <1>3 DEF Below
    <2>3a. Bound(i) <= Bound(i)
      BY SMTT(30), <2>1, <2>2
    <2>4. Below(Bound(j)) \cup {Bound(i)} \subseteq Below(Bound(i))
      BY <2>1, <2>3, <2>3a DEF Below
    <2>5. IsFiniteSet(Below(Bound(j))) /\ IsFiniteSet(Below(Bound(i)))
      BY Numbers, FS_Subset DEF Below
    <2>6. Cardinality(Below(Bound(j)) \cup {Bound(i)}) = j + 1
      BY <2>1, <2>3, <2>5, FS_AddElement
    <2>7. Cardinality(Below(Bound(j)) \cup {Bound(i)}) <= Cardinality(Below(Bound(i)))
      BY <2>4, <2>5, FS_Subset
    <2>8. j + 1 <= i
      BY <2>1, <2>6, <2>7
    <2> QED BY SMTT(30), <2>8, <1>3, <1>0
  <1> HIDE DEF N
  <1>4. \A j \in 0..(N + 1) : j = 0 \/ j = N + 1 \/ j \in 1..N
    BY SMTT(30), <1>0
  <1>5. \A j \in 0..(N + 1) : Bound(j) \in 1..(MaxKey + 1)
    <2> TAKE j \in 0..(N + 1)
    <2>1. CASE j = 0
      BY SMTT(30), <1>0, <1>1, <2>1
    <2>2. CASE j = N + 1
      BY SMTT(30), <1>0, <1>1, <2>2
    <2>3. CASE j \in 1..N
      BY SMTT(30), <1>0, <1>2, <2>3
    <2> QED BY ZenonT(60), <1>4, <2>1, <2>2, <2>3
  <1>6. \A i, j \in 0..(N + 1) : i <= j => Bound(i) <= Bound(j)
    <2> TAKE i, j \in 0..(N + 1)
    <2> HAVE i <= j
    <2>1. CASE i = 0
      BY SMTT(30), <1>1, <1>5, <2>1
    <2>2. CASE j = N + 1
      BY SMTT(30), <1>0, <1>1, <1>5, <2>2
    <2>3. CASE i = N + 1
      <3>1. j = N + 1
        BY SMTT(30), <1>0, <2>3
      <3> QED BY <2>2, <3>1
    <2>4. CASE j = 0
      <3>1. i = 0
        BY SMTT(30), <1>0, <2>4
      <3> QED BY <2>1, <3>1
    <2>5. CASE i \in 1..N /\ j \in 1..N
      <3>1. ~(Bound(j) < Bound(i))
        BY <1>3, <2>5
      <3>2. Bound(i) \in Int /\ Bound(j) \in Int
        BY SMTT(30), <1>5, <1>0
      <3> QED BY SMTT(30), <3>1, <3>2
    <2> QED BY ZenonT(60), <1>4, <2>1, <2>2, <2>3, <2>4, <2>5
  <1> QED BY <1>5, <1>6 DEF N

-----------------------------------------------------------------------------
(* Catalogs, versions and intents.                                         *)

(* The fields of a catalog.                                                *)
LEMMA Fields ==
    ASSUME NEW c \in Catalogs
    PROVE  /\ c.bind \in [DOMAIN c.bind -> Spans] /\ DOMAIN c.bind \subseteq Regions
           /\ c.intents \subseteq Intents /\ c.aborts \subseteq Ops
           /\ c.seals \subseteq Ops \X Regions /\ c.evidence \subseteq Ops \X Regions
           /\ IsFiniteSet(DOMAIN c.bind)
  <1>1. /\ c.bind \in Binds
        /\ c.intents \subseteq Intents /\ c.aborts \subseteq Ops
        /\ c.seals \subseteq Ops \X Regions /\ c.evidence \subseteq Ops \X Regions
    BY SMT DEF Catalogs
  <1>2. PICK D \in SUBSET Regions : c.bind \in [D -> Spans]
    BY <1>1 DEF Binds
  <1>3. DOMAIN c.bind = D
    BY <1>2
  <1>4. c.bind \in [DOMAIN c.bind -> Spans] /\ DOMAIN c.bind \subseteq Regions
    BY <1>2, <1>3
  <1>5. IsFiniteSet(DOMAIN c.bind)
    BY <1>4, Numbers, FS_Subset
  <1> QED BY <1>1, <1>4, <1>5

(* The fields of a span.                                                   *)
LEMMA SpanFacts ==
    /\ \A a, h : Span(a, h).lo = a /\ Span(a, h).hi = h /\ ~Span(a, h).sealed
    /\ \A a \in 1..(MaxKey + 1), h \in Positions : Span(a, h) \in Spans
  BY SMT DEF Span, Spans

(* Sealing keeps the bounds.                                               *)
LEMMA SealFacts ==
    /\ \A s \in Ranges : /\ Seal(s) \in Ranges /\ Seal(s).sealed
                         /\ Seal(s).lo = s.lo /\ Seal(s).hi = s.hi
    /\ \A s \in Spans : /\ Seal(s) \in Spans /\ Seal(s).sealed
                        /\ Seal(s).lo = s.lo /\ Seal(s).hi = s.hi
  <1>1. ASSUME NEW s \in Ranges
        PROVE  Seal(s) \in Ranges /\ Seal(s).sealed /\ Seal(s).lo = s.lo /\ Seal(s).hi = s.hi
    <2> DEFINE t == Seal(s)
    <2>1. t = [s EXCEPT !.sealed = TRUE]
      BY DEF Seal
    <2> HIDE DEF t
    <2>2. t \in Ranges /\ t.sealed /\ t.lo = s.lo /\ t.hi = s.hi
      BY <2>1 DEF Ranges
    <2> QED BY <2>2 DEF t
  <1>2. ASSUME NEW s \in Spans
        PROVE  Seal(s) \in Spans /\ Seal(s).sealed /\ Seal(s).lo = s.lo /\ Seal(s).hi = s.hi
    <2> DEFINE t == Seal(s)
    <2>1. t = [s EXCEPT !.sealed = TRUE]
      BY DEF Seal
    <2> HIDE DEF t
    <2>2. t \in Spans /\ t.sealed /\ t.lo = s.lo /\ t.hi = s.hi
      BY <2>1 DEF Spans
    <2> QED BY <2>2 DEF t
  <1> QED BY <1>1, <1>2

(* The range of a child under a well-formed intent is an unsealed span.    *)
LEMMA IntentFacts ==
    ASSUME NEW c \in Catalogs, NEW i \in c.intents, Formed(c, i)
    PROVE  /\ i.op \in Ops /\ i.children = Children(i.op)
           /\ Elems(i.children) \subseteq Regions /\ i.children[1] \in Elems(i.children)
           /\ Elems(i.parents) \subseteq DOMAIN c.bind /\ i.parents[1] \in Elems(i.parents)
           /\ \A x : ChildRange(c, i, x) \in Spans /\ ~ChildRange(c, i, x).sealed
  <1>1. i \in Intents
    BY Fields
  <1>2. i.op \in Ops
    BY SMT, <1>1 DEF Intents
  <1>3. i.children = Children(i.op)
    BY DEF Formed
  <1>4. Elems(i.children) \subseteq Regions /\ i.children[1] \in Elems(i.children)
    BY <1>2, <1>3, ChildrenOf
  <1>5. \A r \in DOMAIN c.bind : /\ c.bind[r] \in Spans /\ c.bind[r].lo \in 1..(MaxKey + 1)
                                 /\ c.bind[r].hi \in Positions
    BY SMT, Fields DEF Spans
  <1>6. \A a \in 1..(MaxKey + 1), b \in Positions : Span(a, b) \in Spans /\ ~Span(a, b).sealed
    BY SpanFacts
  <1>7. \A k \in Keys : k \in 1..(MaxKey + 1) /\ k \in Positions
    BY SMTT(30), Numbers DEF Keys, Positions
  <1>8. CASE i.op \in SplitOps
    <2>1. PICK p \in DOMAIN c.bind : i.parents = <<p>>
      BY <1>8 DEF Formed
    <2>2. i.parents[1] = p
      BY SMT, <2>1
    <2>3. Elems(i.parents) = {p}
      BY <2>1, ElemsOf
    <2>4. i.key \in Keys
      BY <1>8 DEF Formed
    <2>5. \A x : \/ ChildRange(c, i, x) = Span(c.bind[p].lo, i.key)
                 \/ ChildRange(c, i, x) = Span(i.key, c.bind[p].hi)
      BY <1>8, <2>2 DEF ChildRange, half_descriptor
    <2>6. \A x : ChildRange(c, i, x) \in Spans /\ ~ChildRange(c, i, x).sealed
      BY ZenonT(60), <1>5, <1>6, <1>7, <2>4, <2>5
    <2> QED BY <1>2, <1>3, <1>4, <2>2, <2>3, <2>6
  <1>9. CASE i.op \notin SplitOps
    <2>1. PICK low, high \in DOMAIN c.bind : i.parents = <<low, high>>
      BY <1>9 DEF Formed
    <2>2. i.parents[1] = low /\ i.parents[2] = high
      BY SMTT(30), <2>1
    <2>3. Elems(i.parents) = {low, high}
      BY <2>1, ElemsOf
    <2>5. \A x : ChildRange(c, i, x) = Span(c.bind[low].lo, c.bind[high].hi)
      BY <1>9, <2>2 DEF ChildRange, child_descriptor
    <2>6. \A x : ChildRange(c, i, x) \in Spans /\ ~ChildRange(c, i, x).sealed
      BY <1>5, <1>6, <2>5
    <2> QED BY ZenonT(60), <1>2, <1>3, <1>4, <2>2, <2>3, <2>6
  <1> QED BY <1>8, <1>9

(* A later catalog gives a child the same range.                           *)
LEMMA RangeKept ==
    ASSUME NEW c \in Catalogs, NEW d \in Catalogs, Grows(c, d),
           NEW i \in c.intents, Formed(c, i), NEW x
    PROVE  ChildRange(d, i, x) = ChildRange(c, i, x)
  <1>1. \A r \in DOMAIN c.bind : c.bind[r].lo = d.bind[r].lo /\ c.bind[r].hi = d.bind[r].hi
    BY DEF Grows, SameBounds
  <1>2. CASE i.op \in SplitOps
    <2>1. PICK p \in DOMAIN c.bind : i.parents = <<p>>
      BY <1>2 DEF Formed
    <2>2. i.parents[1] = p
      BY SMTT(30), <2>1
    <2> QED BY <1>1, <1>2, <2>2 DEF ChildRange, half_descriptor
  <1>3. CASE i.op \notin SplitOps
    <2>1. PICK low, high \in DOMAIN c.bind : i.parents = <<low, high>>
      BY <1>3 DEF Formed
    <2>2. i.parents[1] = low /\ i.parents[2] = high
      BY SMTT(30), <2>1
    <2> QED BY <1>1, <1>3, <2>2 DEF ChildRange, child_descriptor
  <1> QED BY <1>2, <1>3

(* Growth is reflexive and transitive.                                     *)
LEMMA GrowsAgain ==
    /\ \A c : Grows(c, c)
    /\ \A c, d, e : Grows(c, d) /\ Grows(d, e) => Grows(c, e)
  <1>1. \A c : Grows(c, c)
    BY DEF Grows, SameBounds
  <1>2. ASSUME NEW c, NEW d, NEW e, Grows(c, d), Grows(d, e) PROVE Grows(c, e)
    <2>1. DOMAIN c.bind \subseteq DOMAIN e.bind /\ c.intents \subseteq e.intents
      BY <1>2 DEF Grows
    <2>2. ASSUME NEW r \in DOMAIN c.bind
          PROVE  SameBounds(c.bind[r], e.bind[r]) /\ (c.bind[r].sealed => e.bind[r].sealed)
      BY <1>2, <2>2 DEF Grows, SameBounds
    <2> QED BY <2>1, <2>2 DEF Grows
  <1> QED BY <1>1, <1>2

(* A node's catalog copy is a version, and the newest one extends it.      *)
LEMMA Views ==
    ASSUME LogShape
    PROVE  /\ Catalog \in Catalogs /\ Len(log) \in 1..Len(log)
           /\ \A n \in Nodes : View(n) \in Catalogs
           /\ Versions => \A n \in Nodes : /\ Grows(View(n), Catalog) /\ Once(View(n))
                                           /\ \A i \in View(n).intents : Formed(View(n), i)
           /\ Versions => Once(Catalog) /\ \A i \in Catalog.intents : Formed(Catalog, i)
  <1>1. Len(log) \in 1..Len(log) /\ \A a \in 1..Len(log) : log[a] \in Catalogs /\ a <= Len(log)
    BY SMT DEF LogShape
  <1>2. \A n \in Nodes : seen[n] \in 1..Len(log)
    BY DEF LogShape
  <1> QED BY <1>1, <1>2 DEF Catalog, View, Versions

(* What committing a catalog does to the versions.                         *)
LEMMA Appended ==
    ASSUME LogShape, NEW c \in Catalogs, Commit(c)
    PROVE  /\ LogShape' /\ Catalog' = c /\ Len(log') = Len(log) + 1
           /\ \A a \in 1..Len(log) : log'[a] = log[a]
           /\ log'[Len(log) + 1] = c
  <1>1. log' = Append(log, c) /\ log \in Seq(Catalogs)
    BY DEF Commit, LogShape
  <1>2. /\ log' \in Seq(Catalogs) /\ Len(log') = Len(log) + 1 /\ Len(log) \in Nat
        /\ \A a \in 1..Len(log) : log'[a] = log[a]
        /\ log'[Len(log) + 1] = c
    BY SMT, <1>1
  <1>3. seen' = [n \in Nodes |-> IF n \in Laggards THEN seen[n] ELSE Len(log) + 1]
    BY DEF Commit
  <1>4. \A n \in Nodes : seen'[n] = seen[n] \/ seen'[n] = Len(log) + 1
    BY <1>3
  <1>5. seen \in [Nodes -> Nat] /\ \A n \in Nodes : seen[n] \in 1..Len(log)
    BY DEF LogShape
  <1>6. \A n \in Nodes : seen'[n] \in 1..(Len(log) + 1) /\ seen'[n] \in Nat
    BY SMTT(30), <1>2, <1>4, <1>5
  <1>7. seen' \in [Nodes -> Nat]
    BY <1>3, <1>6
  <1>8. Len(log') >= 1
    BY SMT, <1>2
  <1> QED BY <1>2, <1>6, <1>7, <1>8 DEF LogShape, Catalog

(* A catalog that extends the newest one continues the versions.           *)
LEMMA VersionsGrow ==
    ASSUME LogShape, Versions, NEW c \in Catalogs, Commit(c),
           Grows(Catalog, c), Once(c), \A i \in c.intents : Formed(c, i)
    PROVE  LogShape' /\ Versions' /\ Catalog' = c
  <1>1. /\ LogShape' /\ Catalog' = c /\ Len(log') = Len(log) + 1
        /\ \A a \in 1..Len(log) : log'[a] = log[a]
        /\ log'[Len(log) + 1] = c
    BY Appended
  <1>2. Len(log) \in Nat /\ Len(log) \in 1..Len(log)
    BY SMT DEF LogShape
  <1>3. \A a \in 1..Len(log') : a \in 1..Len(log) \/ a = Len(log) + 1
    BY SMTT(30), <1>1, <1>2
  <1>4. ASSUME NEW a \in 1..Len(log'), NEW b \in 1..Len(log'), a <= b
        PROVE  Grows(log'[a], log'[b])
    <2>1. CASE b \in 1..Len(log)
      <3>1. a \in 1..Len(log)
        BY SMTT(30), <1>2, <1>3, <1>4, <2>1
      <3> QED BY <1>1, <1>4, <2>1, <3>1 DEF Versions
    <2>2. CASE b = Len(log) + 1 /\ a \in 1..Len(log)
      <3>1. a <= Len(log)
        BY SMTT(30), <1>2, <2>2
      <3>2. Grows(log[a], Catalog)
        BY <1>2, <2>2, <3>1 DEF Versions, Catalog
      <3> QED BY <1>1, <2>2, <3>2, GrowsAgain
    <2>3. CASE b = Len(log) + 1 /\ a = Len(log) + 1
      BY <2>3, GrowsAgain
    <2> QED BY <1>3, <2>1, <2>2, <2>3
  <1>5. \A a \in 1..Len(log') : Once(log'[a]) /\ \A i \in log'[a].intents : Formed(log'[a], i)
    BY <1>1, <1>3 DEF Versions
  <1> QED BY <1>1, <1>4, <1>5 DEF Versions

(* The check of read_in, as publication runs it, leaves one owner per key. *)
LEMMA PartitionOnce ==
    ASSUME NEW c \in Catalogs, Partition(c)
    PROVE  Once(c)
  <1> SUFFICES ASSUME NEW k \in Keys, NEW r \in DOMAIN c.bind, NEW s \in DOMAIN c.bind,
                      ~c.bind[r].sealed, contains(c.bind[r], k),
                      ~c.bind[s].sealed, contains(c.bind[s], k)
               PROVE  r = s
    BY DEF Once
  <1> DEFINE S == {q \in DOMAIN c.bind : ~c.bind[q].sealed /\ contains(c.bind[q], k)}
  <1>1. Cardinality(S) = 1
    BY DEF Partition
  <1>2. IsFiniteSet(S)
    BY SMTT(30), Fields, FS_Subset
  <1>3. r \in S /\ s \in S
    OBVIOUS
  <1> HIDE DEF S
  <1>4. PICK x : S = {x}
    BY <1>1, <1>2, FS_Singleton
  <1> QED BY <1>3, <1>4

-----------------------------------------------------------------------------
(* The initial state.                                                      *)

(* The initial ranges, and that they share no key.                         *)
LEMMA InitialRanges ==
    LET b == [r \in Initial |-> Span(Bound(r - 1), Bound(r))]
    IN  /\ b \in [Initial -> Spans] /\ \A r \in Initial : ~b[r].sealed
        /\ \A k \in Keys : \A r, s \in Initial : contains(b[r], k) /\ contains(b[s], k) => r = s
  <1> DEFINE b == [r \in Initial |-> Span(Bound(r - 1), Bound(r))]
             N == Cardinality(Cuts)
  <1>0. N \in Nat /\ MaxKey \in Nat
    BY Numbers
  <1>1. \A r \in Initial : r \in 0..(N + 1) /\ r - 1 \in 0..(N + 1) /\ r \in Int
    BY SMT, <1>0 DEF Initial
  <1>2. \A r \in Initial : Bound(r - 1) \in 1..(MaxKey + 1) /\ Bound(r) \in 1..(MaxKey + 1)
    BY <1>1, BoundsOrdered DEF N
  <1>3. ASSUME NEW r \in Initial
        PROVE  /\ b[r] = Span(Bound(r - 1), Bound(r)) /\ ~b[r].sealed
               /\ b[r].lo = Bound(r - 1) /\ b[r].hi = Bound(r)
    <2>1. b[r] = Span(Bound(r - 1), Bound(r))
      OBVIOUS
    <2> HIDE DEF b
    <2>2. /\ Span(Bound(r - 1), Bound(r)).lo = Bound(r - 1)
          /\ Span(Bound(r - 1), Bound(r)).hi = Bound(r)
          /\ ~Span(Bound(r - 1), Bound(r)).sealed
      BY SpanFacts
    <2> QED BY <2>1, <2>2
  <1>3a. b = [r \in Initial |-> b[r]]
    OBVIOUS
  <1> HIDE DEF b
  <1>4. \A a \in 1..(MaxKey + 1) : a \in Positions
    BY SMTT(30), <1>0 DEF Positions
  <1>5. \A r \in Initial : b[r] \in Spans /\ ~b[r].sealed
    <2> TAKE r \in Initial
    <2>1. Bound(r) \in Positions
      BY <1>2, <1>4
    <2>2. Span(Bound(r - 1), Bound(r)) \in Spans
      BY <1>2, <2>1, SpanFacts
    <2> QED BY <1>3, <2>2
  <1>6. ASSUME NEW k \in Keys, NEW r \in Initial, NEW s \in Initial,
               contains(b[r], k), contains(b[s], k), r < s
        PROVE  FALSE
    <2>1. /\ b[r].hi = Bound(r) /\ b[s].lo = Bound(s - 1)
      BY <1>3
    <2>2. r <= s - 1
      BY SMTT(30), <1>1, <1>6
    <2>3. Bound(r) <= Bound(s - 1)
      BY ZenonT(60), <1>1, <2>2, BoundsOrdered DEF N
    <2>4. k < Bound(r) /\ Bound(s - 1) <= k
      BY <1>6, <2>1 DEF contains
    <2>5. k \in Int /\ Bound(r) \in Int /\ Bound(s - 1) \in Int
      BY SMTT(30), <1>0, <1>2 DEF Keys
    <2> QED BY SMTT(30), <2>3, <2>4, <2>5
  <1>7. \A k \in Keys : \A r, s \in Initial : contains(b[r], k) /\ contains(b[s], k) => r = s
    <2> TAKE k \in Keys
    <2> TAKE r, s \in Initial
    <2> HAVE contains(b[r], k) /\ contains(b[s], k)
    <2>1. ~(r < s) /\ ~(s < r)
      BY <1>6
    <2>2. r \in Int /\ s \in Int
      BY <1>1
    <2> QED BY SMTT(30), <2>1, <2>2
  <1>8. b \in [Initial -> Spans]
    BY <1>3a, <1>5
  <1> QED BY <1>5, <1>7, <1>8 DEF b

(* Init satisfies the invariant.                                           *)
LEMMA InitInv == Init => IInv
  <1> SUFFICES ASSUME Init PROVE IInv
    OBVIOUS
  <1> DEFINE b == [r \in Initial |-> Span(Bound(r - 1), Bound(r))]
             c == [bind |-> b, intents |-> {}, aborts |-> {}, seals |-> {}, evidence |-> {}]
  <1>1. /\ b \in [Initial -> Spans] /\ \A r \in Initial : ~b[r].sealed
        /\ \A k \in Keys : \A r, s \in Initial : contains(b[r], k) /\ contains(b[s], k) => r = s
    BY InitialRanges
  <1>2. log = <<c>> /\ seen = [n \in Nodes |-> 1]
    BY DEF Init
  <1>3. desc = [r \in Regions |-> IF r \in Initial THEN b[r] ELSE NoRange]
    BY DEF Init
  <1> HIDE DEF b
  <1>4. Initial \subseteq Regions /\ DOMAIN b = Initial
    <2>1. Initial \subseteq Regions
      BY SMTT(30), Numbers DEF Initial, Regions
    <2> QED BY <1>1, <2>1
  <1>5. b \in Binds
    BY <1>1, <1>4 DEF Binds
  <1>6. /\ c \in Catalogs /\ c.bind = b /\ c.intents = {} /\ c.aborts = {} /\ c.evidence = {}
    BY SMTT(30), <1>5 DEF Catalogs
  <1> HIDE DEF c
  <1>7. /\ log \in Seq(Catalogs) /\ Len(log) = 1 /\ log[1] = c
    BY SMTT(30), <1>2, <1>6
  <1>8. LogShape
    <2>1. Len(log) >= 1 /\ 1 \in 1..Len(log) /\ 1 \in Nat
      BY SMT, <1>7
    <2> QED BY <1>2, <1>7, <2>1 DEF LogShape
  <1>9. Catalog = c
    BY <1>7 DEF Catalog
  <1>10. GroupShape
    <2>1. NoRange \in Ranges /\ Spans \subseteq Ranges /\ 0 \in 0..MaxWrites /\ 1 \in 0..MaxWrites
      BY SMTT(30), Numbers DEF NoRange, Ranges, Spans, Positions
    <2>2. desc \in [Regions -> Ranges]
      BY <1>1, <1>3, <2>1
    <2>3. \A k \in Keys : acked[k] \in 0..MaxWrites
      BY <2>1 DEF Init
    <2>4. data = [r \in Regions |-> [k \in Keys |->
                  IF r \in Initial /\ contains(desc[r], k) THEN acked[k] ELSE 0]]
      BY DEF Init
    <2>5. data \in [Regions -> [Keys -> 0..MaxWrites]]
      BY <2>1, <2>3, <2>4
    <2> QED BY <2>2, <2>5 DEF GroupShape, Init
  <1>11. DriverShape
    <2>1. Idle \in Works
      BY SMTT(30) DEF Idle, Works
    <2> QED BY <2>1 DEF DriverShape, Init, Drivers
  <1>12. CountShape
    BY SMTT(30), Numbers, ConstantsAssumption DEF CountShape, Init
  <1>13. Once(c) /\ \A i \in c.intents : Formed(c, i)
    BY <1>1, <1>4, <1>6 DEF Once
  <1>14. Versions
    <2>1. \A a \in 1..Len(log) : a = 1
      BY SMTT(30), <1>7
    <2> QED BY <1>7, <1>13, <2>1, GrowsAgain DEF Versions
  <1>15. Named
    <2>1. Numbered(c)
      BY <1>6, FS_EmptySet DEF Numbered
    <2>2. Served(c)
      BY <1>4, <1>6, ChildrenOf DEF Served, IsBound
    <2> QED BY <1>9, <2>1, <2>2 DEF Named
  <1>16. SealsTrue
    <2>1. \A r \in DOMAIN c.bind : ~c.bind[r].sealed
      BY <1>1, <1>4, <1>6
    <2>2. sealedAt = {}
      BY DEF Init
    <2> QED BY <1>9, <2>1, <2>2 DEF SealsTrue
  <1>17. StepsSound
    <2>1. Idle.step = "idle"
      BY SMT DEF Idle
    <2>2. \A n \in Nodes : \A d \in Drivers : worker[n][d] = Idle
      BY DEF Init, Drivers
    <2> QED BY <2>1, <2>2 DEF StepsSound, StepSound
  <1>18. EvidenceSound
    BY <1>6, <1>9 DEF EvidenceSound
  <1> QED BY ZenonT(60), <1>8, <1>10, <1>11, <1>12, <1>14, <1>15, <1>16, <1>17, <1>18 DEF IInv, Shape

-----------------------------------------------------------------------------
(* What a verified copy keeps.                                             *)

(* A step may install a missing descriptor or seal one, no more.           *)
DescGrows ==
    \A r \in Regions : desc[r] # NoRange =>
        /\ desc'[r] # NoRange /\ SameBounds(desc[r], desc'[r])
        /\ desc[r].sealed => desc'[r].sealed

(* A step leaves the rows of sealed groups alone, and those of a child     *)
(* that holds exactly its parents' rows.                                   *)
DataKept ==
    /\ \A r \in Regions : desc[r].sealed => data'[r] = data[r]
    /\ \A i \in Catalog.intents : \A x \in Elems(i.children) :
          /\ Exact(i, x) /\ Sole(i) /\ ~IsBound(Catalog, x)
          => data'[x] = data[x]

(* Copied and Exact survive the step.                                      *)
Keep ==
    \A i \in Catalog.intents : \A x \in Elems(i.children) :
        (Copied(i, x) => Copied(i, x)') /\ (Exact(i, x) => Exact(i, x)')

(* A region's rows follow from its bounds and its data.                    *)
LEMMA RowsKept ==
    ASSUME NEW r \in Regions, NEW range, SameBounds(desc[r], desc'[r]), data'[r] = data[r]
    PROVE  Rows(r, range)' = Rows(r, range)
  BY DEF Rows, contains, SameBounds

(* A step that only adds to the catalog and the descriptors keeps them.    *)
LEMMA Kept ==
    ASSUME LogShape, LogShape', Versions, Grows(Catalog, Catalog'), DescGrows, DataKept
    PROVE  Keep
  <1> SUFFICES ASSUME NEW i \in Catalog.intents, NEW x \in Elems(i.children)
               PROVE  (Copied(i, x) => Copied(i, x)') /\ (Exact(i, x) => Exact(i, x)')
    BY DEF Keep
  <1>1. Catalog \in Catalogs /\ Catalog' \in Catalogs /\ Formed(Catalog, i)
    <2>1. Catalog \in Catalogs /\ Formed(Catalog, i)
      BY Views
    <2>2. Len(log') \in 1..Len(log') /\ \A a \in 1..Len(log') : log'[a] \in Catalogs
      BY SMT DEF LogShape
    <2> QED BY <2>1, <2>2 DEF Catalog
  <1>2. x \in Regions /\ \A p \in Elems(i.parents) : p \in Regions
    BY <1>1, IntentFacts, Fields
  <1>3. ~NoRange.sealed
    BY SMT DEF NoRange
  <1>4. Copied(i, x) => Copied(i, x)'
    BY <1>2, <1>3 DEF Copied, DescGrows
  <1>5. ASSUME Exact(i, x) PROVE Exact(i, x)'
    <2>1. Copied(i, x) /\ Copied(i, x)'
      BY <1>4, <1>5 DEF Exact
    <2>2. ASSUME Sole(i)', ~IsBound(Catalog', x), NEW range, range = ChildRange(Catalog', i, x)
          PROVE  Matched(i, x, range)'
      <3>1. Sole(i)
        BY <2>2 DEF Sole, Grows
      <3>2. ~IsBound(Catalog, x)
        BY <2>2 DEF IsBound, Grows
      <3>3. range = ChildRange(Catalog, i, x)
        BY <1>1, <2>2, RangeKept
      <3>4. Matched(i, x, range)
        BY <1>5, <3>1, <3>2, <3>3 DEF Exact
      <3>5. data'[x] = data[x] /\ SameBounds(desc[x], desc'[x])
        BY <1>2, <1>5, <2>1, <3>1, <3>2 DEF DataKept, DescGrows, Copied
      <3>6. Rows(x, range)' = Rows(x, range)
        BY <1>2, <3>5, RowsKept
      <3>7. ASSUME NEW p \in Elems(i.parents)
            PROVE  Rows(p, range)' = Rows(p, range)
        <4>1. desc[p].sealed /\ desc[p] # NoRange /\ p \in Regions
          BY <1>2, <1>3, <2>1 DEF Copied
        <4>2. data'[p] = data[p] /\ SameBounds(desc[p], desc'[p])
          BY <4>1 DEF DataKept, DescGrows
        <4> QED BY <4>1, <4>2, RowsKept
      <3> QED BY <3>4, <3>6, <3>7 DEF Matched
    <2> QED BY <2>1, <2>2 DEF Exact
  <1> QED BY <1>4, <1>5

(* Steps in flight stay sound when each worker keeps its step or takes a   *)
(* sound one.                                                              *)
LEMMA StepsKept ==
    ASSUME LogShape, Versions, StepsSound, Keep, Grows(Catalog, Catalog'),
           \A n \in Nodes : \A d \in Drivers :
               \/ worker'[n][d] = worker[n][d]
               \/ \A w \in {worker'[n][d]} : StepSound(w)'
    PROVE  StepsSound'
  <1> SUFFICES ASSUME NEW n \in Nodes, NEW d \in Drivers, NEW w, w = worker'[n][d]
               PROVE  StepSound(w)'
    BY DEF StepsSound
  <1>1. CASE worker'[n][d] = worker[n][d]
    <2>1. StepSound(w)
      BY <1>1 DEF StepsSound
    <2>2. CASE w.step = "idle"
      BY <2>2 DEF StepSound
    <2>3. CASE w.step # "idle"
      <3>1. PICK i \in Catalog.intents :
              /\ i.task = w.task
              /\ w.step \in {"seal", "evidence"} => w.region \in Elems(i.parents)
              /\ w.step \in {"copy", "receipt"} =>
                    w.region \in Elems(i.children) /\ Copied(i, w.region)
              /\ w.step = "receipt" => Exact(i, w.region)
        BY <2>1, <2>3 DEF StepSound
      <3>2. i \in Catalog'.intents
        BY DEF Grows
      <3>3. w.step \in {"copy", "receipt"} => Copied(i, w.region)'
        BY <3>1 DEF Keep
      <3>4. w.step = "receipt" => Exact(i, w.region)'
        BY <3>1 DEF Keep
      <3> QED BY <3>1, <3>2, <3>3, <3>4 DEF StepSound
    <2> QED BY <2>2, <2>3
  <1>2. CASE \A v \in {worker'[n][d]} : StepSound(v)'
    BY <1>2
  <1> QED BY <1>1, <1>2

(* Committed evidence stays sound.                                         *)
LEMMA EvidenceKept ==
    ASSUME EvidenceSound, Keep, Grows(Catalog, Catalog'),
           \A e \in Catalog'.evidence : e \in Catalog.evidence \/
               \E i \in Catalog.intents :
                   i.op = e[1] /\ e[2] \in Elems(i.children) /\ Exact(i, e[2])
    PROVE  EvidenceSound'
  <1> SUFFICES ASSUME NEW e \in Catalog'.evidence
               PROVE  \E i \in Catalog'.intents :
                          i.op = e[1] /\ e[2] \in Elems(i.children) /\ Exact(i, e[2])'
    BY DEF EvidenceSound
  <1>1. PICK i \in Catalog.intents :
          i.op = e[1] /\ e[2] \in Elems(i.children) /\ Exact(i, e[2])
    BY DEF EvidenceSound
  <1>2. Exact(i, e[2])' /\ i \in Catalog'.intents
    BY <1>1 DEF Keep, Grows
  <1> QED BY <1>1, <1>2

-----------------------------------------------------------------------------
(* The five catalog transactions.                                          *)

(* A catalog with other intents.                                           *)
LEMMA WithIntents ==
    ASSUME NEW c \in Catalogs, NEW S \in SUBSET Intents, NEW d, d = [c EXCEPT !.intents = S]
    PROVE  /\ d \in Catalogs /\ d.intents = S
           /\ d.bind = c.bind /\ d.aborts = c.aborts /\ d.seals = c.seals /\ d.evidence = c.evidence
  BY SMT DEF Catalogs

(* A transaction that leaves the bindings alone extends the catalog.       *)
LEMMA BindKept ==
    ASSUME LogShape, Versions, NEW c \in Catalogs, Commit(c), c.bind = Catalog.bind,
           Catalog.intents \subseteq c.intents,
           \A i \in c.intents : i \in Catalog.intents \/ Formed(Catalog, i)
    PROVE  LogShape' /\ Versions' /\ Catalog' = c /\ Grows(Catalog, Catalog')
  <1>1. Grows(Catalog, c)
    BY DEF Grows, SameBounds
  <1>2. Once(Catalog) /\ \A i \in Catalog.intents : Formed(Catalog, i)
    BY Views
  <1>3. Once(c)
    BY <1>2 DEF Once
  <1>4. \A i \in c.intents : Formed(c, i)
    BY <1>2 DEF Formed
  <1> QED BY <1>1, <1>3, <1>4, VersionsGrow

(* The invariant's part about the newest catalog, after a transaction.     *)
Extended == LogShape' /\ Versions' /\ Named' /\ Grows(Catalog, Catalog')

(* plan_split, plan_merge: a new intent.                                   *)
LEMMA Intended ==
    ASSUME LogShape, Versions, Named, NEW i \in Intents, i.task = NextTask,
           Formed(Catalog, i), \A x \in Elems(Children(i.op)) : ~IsBound(Catalog, x),
           Commit([Catalog EXCEPT !.intents = @ \cup {i}])
    PROVE  /\ Extended /\ Catalog'.bind = Catalog.bind
           /\ Catalog'.evidence = Catalog.evidence
  <1> DEFINE c == [Catalog EXCEPT !.intents = @ \cup {i}]
  <1>0. c = [Catalog EXCEPT !.intents = Catalog.intents \cup {i}] /\ Commit(c)
    OBVIOUS
  <1> HIDE DEF c
  <1>1. Catalog \in Catalogs /\ Catalog.intents \subseteq Intents
    BY Views, Fields
  <1>2. /\ c \in Catalogs /\ c.intents = Catalog.intents \cup {i} /\ c.bind = Catalog.bind
        /\ c.aborts = Catalog.aborts /\ c.seals = Catalog.seals
        /\ c.evidence = Catalog.evidence
    <2>1. Catalog.intents \cup {i} \in SUBSET Intents
      BY <1>1
    <2> QED BY SMTT(30), <1>0, <1>1, <2>1, WithIntents
  <1>4. LogShape' /\ Versions' /\ Catalog' = c /\ Grows(Catalog, Catalog')
    BY <1>0, <1>2, BindKept
  <1>5. Numbered(c)
    <2> DEFINE N == Cardinality(Catalog.intents)
    <2>1. /\ IsFiniteSet(Catalog.intents) /\ N \in Nat
          /\ \A j \in Catalog.intents : j.task <= N /\ j.task \in Nat
          /\ \A j, h \in Catalog.intents : j.task = h.task => j = h
      <3>1. \A j \in Intents : j.task \in Nat
        BY SMT DEF Intents
      <3> QED BY <1>1, <3>1, FS_CardinalityType DEF Named, Numbered
    <2>2. i.task = N + 1
      BY DEF NextTask
    <2> HIDE DEF N
    <2>3. \A j \in Catalog.intents : j.task # i.task /\ j.task <= N + 1
      BY SMTT(30), <2>1, <2>2
    <2>4. i \notin Catalog.intents
      BY <2>3
    <2>5. IsFiniteSet(c.intents) /\ Cardinality(c.intents) = N + 1
      <3>1. /\ IsFiniteSet(Catalog.intents \cup {i})
            /\ Cardinality(Catalog.intents \cup {i}) = Cardinality(Catalog.intents) + 1
        BY <2>1, <2>4, FS_AddElement
      <3> QED BY <1>2, <3>1 DEF N
    <2>6. i.task <= N + 1
      BY SMTT(30), <2>1, <2>2
    <2>7. \A j \in c.intents : j.task <= Cardinality(c.intents)
      BY <1>2, <2>3, <2>5, <2>6
    <2>8. \A j, h \in c.intents : j.task = h.task => j = h
      BY <1>2, <2>1, <2>3
    <2> QED BY <2>5, <2>7, <2>8 DEF Numbered
  <1>6. Served(c)
    <2>1. effective_aborts(c) = effective_aborts(Catalog)
      BY <1>2 DEF effective_aborts
    <2> SUFFICES ASSUME NEW op \in Ops, NEW x \in Elems(Children(op)), IsBound(c, x)
                 PROVE  /\ op \notin effective_aborts(c)
                        /\ \A j \in c.intents : j.op = op =>
                              \A p \in Elems(j.parents) : c.bind[p].sealed
      BY DEF Served
    <2>2. IsBound(Catalog, x)
      BY <1>2 DEF IsBound
    <2>3. op # i.op
      BY <2>2
    <2> QED BY <1>2, <2>1, <2>2, <2>3 DEF Named, Served
  <1> QED BY <1>2, <1>4, <1>5, <1>6 DEF Extended, Named

(* plan_range_abort.                                                       *)
LEMMA Aborted ==
    ASSUME LogShape, Versions, Named, NEW i \in Catalog.intents, AbortAdmitted(i),
           Commit([Catalog EXCEPT !.aborts = @ \cup {i.op}])
    PROVE  /\ Extended /\ Catalog'.bind = Catalog.bind
           /\ Catalog'.evidence = Catalog.evidence
  <1> DEFINE c == [Catalog EXCEPT !.aborts = @ \cup {i.op}]
  <1>0. c = [Catalog EXCEPT !.aborts = Catalog.aborts \cup {i.op}] /\ Commit(c)
    OBVIOUS
  <1> HIDE DEF c
  <1>1. /\ Catalog \in Catalogs /\ Catalog.aborts \subseteq Ops /\ Formed(Catalog, i)
        /\ Catalog.intents \subseteq Intents
    BY Views, Fields
  <1>2. i.op \in Ops /\ Elems(i.parents) \subseteq DOMAIN Catalog.bind
        /\ i.parents[1] \in Elems(i.parents)
    BY <1>1, IntentFacts
  <1>3. /\ c \in Catalogs /\ c.aborts = Catalog.aborts \cup {i.op} /\ c.bind = Catalog.bind
        /\ c.intents = Catalog.intents /\ c.seals = Catalog.seals
        /\ c.evidence = Catalog.evidence
    <2>1. Catalog.aborts \cup {i.op} \in SUBSET Ops
      BY <1>1, <1>2
    <2> QED BY SMT, <1>0, <1>1, <2>1 DEF Catalogs
  <1>5. LogShape' /\ Versions' /\ Catalog' = c /\ Grows(Catalog, Catalog')
    BY <1>0, <1>3, BindKept
  <1>6. Numbered(c)
    BY <1>3 DEF Named, Numbered
  <1>7. Served(c)
    <2> SUFFICES ASSUME NEW op \in Ops, NEW x \in Elems(Children(op)), IsBound(c, x)
                 PROVE  /\ op \notin effective_aborts(c)
                        /\ \A j \in c.intents : j.op = op =>
                              \A p \in Elems(j.parents) : c.bind[p].sealed
      BY DEF Served
    <2>1. IsBound(Catalog, x)
      BY <1>3 DEF IsBound
    <2>2. /\ op \notin effective_aborts(Catalog)
          /\ \A j \in Catalog.intents : j.op = op =>
                 \A p \in Elems(j.parents) : Catalog.bind[p].sealed
      BY <2>1 DEF Named, Served
    <2>3. op # i.op
      BY <1>2, <2>2 DEF AbortAdmitted, SealedIn, IsBound
    <2>4. op \notin effective_aborts(c)
      BY <1>3, <2>2, <2>3 DEF effective_aborts
    <2> QED BY <1>3, <2>2, <2>4
  <1> QED BY <1>3, <1>5, <1>6, <1>7 DEF Extended, Named

(* plan_seal_evidence, plan_split_evidence, plan_merge_evidence: rows that *)
(* bind nothing.                                                           *)
LEMMA Evidenced ==
    ASSUME LogShape, Versions, Named, NEW c \in Catalogs, Commit(c),
           c.bind = Catalog.bind, c.intents = Catalog.intents,
           c.aborts = Catalog.aborts, Catalog.seals \subseteq c.seals
    PROVE  Extended /\ Catalog' = c
  <1>1. LogShape' /\ Versions' /\ Catalog' = c /\ Grows(Catalog, Catalog')
    BY BindKept
  <1>2. Numbered(c)
    BY DEF Named, Numbered
  <1>3. effective_aborts(c) \subseteq effective_aborts(Catalog)
    BY DEF effective_aborts
  <1>4. Served(c)
    BY <1>3 DEF Named, Served, IsBound
  <1> QED BY <1>1, <1>2, <1>4 DEF Extended, Named

(* plan_split_publication, plan_merge_publication: the parents are sealed  *)
(* and the children bound, in a catalog where neither was.                 *)
LEMMA Publishes ==
    ASSUME LogShape, Versions, Named, NEW i \in Catalog.intents, PublicationAdmitted(i),
           NEW c, c = [Catalog EXCEPT !.bind = PublishedBindings(i)],
           Partition(c), Commit(c)
    PROVE  /\ Extended /\ Sole(i) /\ Catalog'.evidence = Catalog.evidence
           /\ \A r \in DOMAIN Catalog'.bind : Catalog'.bind[r].sealed =>
                 r \in Elems(i.parents) \/ (r \in DOMAIN Catalog.bind /\ Catalog.bind[r].sealed)
  <1> DEFINE b == PublishedBindings(i)
             D == DOMAIN Catalog.bind
             K == Elems(i.children)
  <1>1. /\ Catalog \in Catalogs /\ Formed(Catalog, i) /\ Catalog.intents \subseteq Intents
        /\ Catalog.bind \in [D -> Spans] /\ D \subseteq Regions
    BY Views, Fields
  <1>2. /\ i.op \in Ops /\ i.children = Children(i.op) /\ K \subseteq Regions
        /\ Elems(i.parents) \subseteq D /\ i.parents[1] \in Elems(i.parents)
        /\ \A x : ChildRange(Catalog, i, x) \in Spans /\ ~ChildRange(Catalog, i, x).sealed
    BY <1>1, IntentFacts
  <1>3. /\ b = [r \in D \cup K |-> IF r \in Elems(i.parents) THEN Seal(Catalog.bind[r])
                                    ELSE IF r \in K THEN ChildRange(Catalog, i, r)
                                    ELSE Catalog.bind[r]]
    BY DEF PublishedBindings
  <1>4. \A s \in Spans : /\ Seal(s) \in Spans /\ Seal(s).sealed
                         /\ Seal(s).lo = s.lo /\ Seal(s).hi = s.hi
    BY SealFacts
  <1> HIDE DEF b, D, K
  <1>5. b \in Binds
    <2>1. \A r \in D \cup K : b[r] \in Spans
      BY <1>1, <1>2, <1>3, <1>4
    <2>2. b \in [D \cup K -> Spans]
      BY <1>3, <2>1
    <2> QED BY <1>1, <1>2, <2>2 DEF Binds
  <1>6. /\ c \in Catalogs /\ c.bind = b /\ c.intents = Catalog.intents
        /\ c.aborts = Catalog.aborts /\ c.seals = Catalog.seals
        /\ c.evidence = Catalog.evidence
    <2>1. c = [Catalog EXCEPT !.bind = b]
      BY DEF b
    <2> QED BY SMTT(30), <1>1, <1>5, <2>1 DEF Catalogs
  <1>7. /\ Sole(i) /\ i.op \notin effective_aborts(Catalog)
        /\ i.op \in SplitOps => SplitValid(Catalog, i)
        /\ i.op \notin SplitOps => MergeValid(Catalog, i)
    <2>1. ReadsBack(Catalog, i.op) /\ i.op \notin effective_aborts(Catalog)
      BY DEF PublicationAdmitted
    <2>2. CASE i.op \in SplitOps
      BY <2>1, <2>2 DEF ReadsBack, SplitsReadBack, Sole
    <2>3. CASE i.op \notin SplitOps
      <3>1. i.op \in MergeOps
        BY <1>2, <2>3 DEF Ops
      <3> QED BY <2>1, <2>3, <3>1 DEF ReadsBack, MergesReadBack, Sole
    <2> QED BY <2>1, <2>2, <2>3
  <1>8. \A x \in K : x \notin D
    <2>1. PICK p \in Elems(i.parents) : ~Catalog.bind[p].sealed
      BY DEF PublicationAdmitted
    <2>2. ~PublishedShape(Catalog, i)
      BY <2>1 DEF PublishedShape
    <2>3. CASE i.op \in SplitOps
      BY <1>7, <2>2, <2>3 DEF SplitValid, IsBound, D, K
    <2>4. CASE i.op \notin SplitOps
      <3>1. ~IsBound(Catalog, i.children[1])
        BY <1>7, <2>2, <2>4 DEF MergeValid
      <3>2. K = {i.children[1]}
        <4>1. i.children = <<Cardinality(Initial) + 2 * i.op - 1>>
          BY <1>2, <2>4 DEF Children
        <4>2. i.children[1] = Cardinality(Initial) + 2 * i.op - 1
          BY SMT, <4>1
        <4> QED BY <4>1, <4>2, ElemsOf DEF K
      <3> QED BY <3>1, <3>2 DEF IsBound, D
    <2> QED BY <2>3, <2>4
  <1>9. \A r \in D : SameBounds(Catalog.bind[r], b[r]) /\ (Catalog.bind[r].sealed => b[r].sealed)
    BY <1>1, <1>3, <1>4, <1>8 DEF SameBounds
  <1>10. DOMAIN b = D \cup K
    BY <1>3
  <1>11. Grows(Catalog, c)
    BY <1>6, <1>9, <1>10 DEF Grows, D
  <1>12. \A j \in c.intents : Formed(c, j)
    <2>1. \A j \in Catalog.intents : Formed(Catalog, j)
      BY Views
    <2>2. DOMAIN Catalog.bind \subseteq DOMAIN c.bind
      BY <1>6, <1>10 DEF D
    <2>3. \A j : Formed(Catalog, j) => Formed(c, j)
      BY <2>2 DEF Formed
    <2> QED BY <1>6, <2>1, <2>3
  <1>13. LogShape' /\ Versions' /\ Catalog' = c
    BY <1>6, <1>11, <1>12, PartitionOnce, VersionsGrow
  <1>14. Numbered(c)
    BY <1>6 DEF Named, Numbered
  <1>15. effective_aborts(c) = effective_aborts(Catalog)
    BY <1>6 DEF effective_aborts
  <1>16. Served(c)
    <2> SUFFICES ASSUME NEW op \in Ops, NEW x \in Elems(Children(op)), IsBound(c, x)
                 PROVE  /\ op \notin effective_aborts(c)
                        /\ \A j \in c.intents : j.op = op =>
                              \A p \in Elems(j.parents) : c.bind[p].sealed
      BY DEF Served
    <2>1. CASE op = i.op
      <3>1. \A j \in c.intents : j.op = op => j = i
        BY <1>6, <1>7, <2>1 DEF Sole
      <3>2. \A p \in Elems(i.parents) : c.bind[p].sealed
        <4> TAKE p \in Elems(i.parents)
        <4>1. p \in D /\ Catalog.bind[p] \in Spans
          BY <1>1, <1>2
        <4>2. b[p] = Seal(Catalog.bind[p])
          BY <1>3, <4>1
        <4> QED BY <1>4, <1>6, <4>1, <4>2
      <3> QED BY <1>7, <1>15, <2>1, <3>1, <3>2
    <2>2. CASE op # i.op
      <3>1. x \notin K
        BY <1>2, <2>2, ChildrenOf DEF K
      <3>2. IsBound(Catalog, x)
        BY <1>6, <1>10, <3>1 DEF IsBound, D
      <3>3. /\ op \notin effective_aborts(Catalog)
            /\ \A j \in Catalog.intents : j.op = op =>
                  \A p \in Elems(j.parents) : Catalog.bind[p].sealed
        BY <3>2 DEF Named, Served
      <3>4. \A j \in Catalog.intents : Elems(j.parents) \subseteq D
        BY <1>1, IntentFacts, Views DEF D
      <3> QED BY <1>6, <1>9, <1>15, <3>3, <3>4
    <2> QED BY <2>1, <2>2
  <1>17. \A r \in DOMAIN c.bind : c.bind[r].sealed =>
            r \in Elems(i.parents) \/ (r \in D /\ Catalog.bind[r].sealed)
    <2> SUFFICES ASSUME NEW r \in D \cup K, b[r].sealed, r \notin Elems(i.parents)
                 PROVE  r \in D /\ Catalog.bind[r].sealed
      BY <1>6, <1>10
    <2>1. CASE r \in K
      <3>1. b[r] = ChildRange(Catalog, i, r)
        BY <1>3, <2>1
      <3> QED BY <1>2, <3>1
    <2>2. CASE r \notin K
      <3>1. b[r] = Catalog.bind[r] /\ r \in D
        BY <1>3, <2>2
      <3> QED BY <3>1
    <2> QED BY <2>1, <2>2
  <1> QED BY <1>6, <1>7, <1>11, <1>13, <1>14, <1>16, <1>17 DEF Extended, Named, D

-----------------------------------------------------------------------------
(* Steps.  First what many of them share.                                  *)

(* A step without a catalog transaction.                                   *)
LEMMA LogSame ==
    ASSUME IInv, UNCHANGED <<log, seen>>
    PROVE  Extended /\ Catalog' = Catalog
  <1>1. LogShape' /\ Versions' /\ Catalog' = Catalog
    BY DEF IInv, Shape, LogShape, Versions, Catalog
  <1> QED BY <1>1, GrowsAgain DEF IInv, Extended, Named

(* A step that leaves the groups alone.                                    *)
LEMMA GroupSame ==
    ASSUME IInv, UNCHANGED <<desc, data>>
    PROVE  DescGrows /\ DataKept
  BY DEF DescGrows, DataKept, SameBounds

(* Keep, from the invariant.                                               *)
LEMMA KeepAll ==
    ASSUME IInv, Extended, DescGrows, DataKept
    PROVE  Keep
  BY Kept DEF IInv, Shape, Extended

(* The seals of an unchanged catalog and descriptors.                      *)
LEMMA SealsSame ==
    ASSUME IInv, Catalog'.bind = Catalog.bind, UNCHANGED <<desc, sealedAt>>
    PROVE  SealsTrue'
  BY DEF IInv, SealsTrue

(* The conjuncts of the next invariant put together.                       *)
LEMMA Together ==
    ASSUME IInv, Keep, Extended, GroupShape', DriverShape', CountShape', SealsTrue',
           \A n \in Nodes : \A d \in Drivers :
               \/ worker'[n][d] = worker[n][d]
               \/ \A w \in {worker'[n][d]} : StepSound(w)',
           \A e \in Catalog'.evidence : e \in Catalog.evidence \/
               \E i \in Catalog.intents :
                   i.op = e[1] /\ e[2] \in Elems(i.children) /\ Exact(i, e[2])
    PROVE  IInv'
  <1>1. LogShape' /\ Versions' /\ Named' /\ Grows(Catalog, Catalog')
    BY DEF Extended
  <1>2. StepsSound'
    BY <1>1, StepsKept DEF IInv, Shape
  <1>3. EvidenceSound'
    BY <1>1, EvidenceKept DEF IInv
  <1> QED BY <1>1, <1>2, <1>3 DEF IInv, Shape

(* A worker that takes or ends a step.                                     *)
LEMMA Takes ==
    ASSUME DriverShape, NEW n \in Nodes, NEW d \in Drivers, NEW w \in Works,
           worker' = [worker EXCEPT ![n][d] = w], StepSound(w)'
    PROVE  /\ worker' \in [Nodes -> [Drivers -> Works]]
           /\ \A m \in Nodes : \A e \in Drivers :
                 \/ worker'[m][e] = worker[m][e]
                 \/ \A v \in {worker'[m][e]} : StepSound(v)'
  <1>1. worker \in [Nodes -> [Drivers -> Works]]
    BY DEF DriverShape
  <1>2. worker' \in [Nodes -> [Drivers -> Works]]
    BY <1>1
  <1>3. \A m \in Nodes : \A e \in Drivers : worker'[m][e] = worker[m][e] \/ worker'[m][e] = w
    BY <1>1
  <1> QED BY <1>2, <1>3

(* Ending a step.                                                          *)
LEMMA Ends ==
    ASSUME DriverShape, NEW n \in Nodes, NEW d \in Drivers, Finish(n, d)
    PROVE  /\ worker' \in [Nodes -> [Drivers -> Works]]
           /\ \A m \in Nodes : \A e \in Drivers :
                 \/ worker'[m][e] = worker[m][e]
                 \/ \A v \in {worker'[m][e]} : StepSound(v)'
  <1>1. Idle \in Works /\ Idle.step = "idle"
    BY SMT DEF Idle, Works
  <1>2. StepSound(Idle)'
    BY <1>1 DEF StepSound
  <1>3. worker' = [worker EXCEPT ![n][d] = Idle]
    BY DEF Finish
  <1> QED BY <1>1, <1>2, <1>3, Takes

(* A transaction that leaves groups, descriptors and drivers alone.        *)
LEMMA OnlyCatalog ==
    ASSUME IInv, Extended, UNCHANGED groupVars, UNCHANGED driverVars, UNCHANGED bounds,
           SealsTrue', Catalog'.evidence = Catalog.evidence
    PROVE  IInv'
  <1>1. UNCHANGED <<desc, data, worker, done>>
    BY DEF groupVars, driverVars
  <1>2. Keep
    BY <1>1, GroupSame, KeepAll
  <1>3. GroupShape'
    BY DEF IInv, Shape, GroupShape, groupVars
  <1>4. DriverShape' /\ CountShape'
    BY DEF IInv, Shape, DriverShape, CountShape, driverVars, bounds
  <1> QED BY <1>1, <1>2, <1>3, <1>4, Together

(* The facts that a step of a driver starts from.                          *)
LEMMA DriverFacts ==
    ASSUME IInv, NEW n \in Nodes, NEW i \in View(n).intents
    PROVE  /\ i \in Catalog.intents /\ Formed(Catalog, i) /\ i.op \in Ops /\ i.task \in Nat
           /\ Driver(i) \in Drivers
           /\ Elems(i.children) \subseteq Regions /\ i.children[1] \in Elems(i.children)
           /\ Elems(i.parents) \subseteq Regions
           /\ \A x : ChildRange(View(n), i, x) \in Spans /\ ~ChildRange(View(n), i, x).sealed
  <1>1. /\ Catalog \in Catalogs /\ View(n) \in Catalogs /\ Grows(View(n), Catalog)
        /\ Formed(View(n), i) /\ \A j \in Catalog.intents : Formed(Catalog, j)
    BY Views DEF IInv, Shape
  <1>2. i \in Catalog.intents
    BY <1>1 DEF Grows
  <1>3. i \in Intents
    BY <1>1, Fields
  <1>4. i.task \in Nat
    BY SMT, <1>3 DEF Intents
  <1>5. Elems(i.parents) \subseteq Regions
    BY <1>1, <1>2, IntentFacts, Fields
  <1>6. Driver(i) \in Drivers
    BY DEF Driver, Drivers
  <1> QED BY <1>1, <1>2, <1>4, <1>5, <1>6, IntentFacts

(* The intent of a task is the one that has its number.                    *)
LEMMA IntentOf ==
    ASSUME IInv, NEW i \in Catalog.intents
    PROVE  Intent(i.task) = i
  <1>1. \A j \in Catalog.intents : j.task = i.task => j = i
    BY DEF IInv, Named, Numbered
  <1> QED BY <1>1 DEF Intent

(* The intent and the region of a step in flight.                          *)
LEMMA InFlight ==
    ASSUME IInv, NEW n \in Nodes, NEW d \in Drivers, worker[n][d].step # "idle"
    PROVE  /\ worker[n][d] \in Works
           /\ \E i \in Catalog.intents, x \in Regions :
                 /\ i = Intent(worker[n][d].task) /\ x = worker[n][d].region
                 /\ i.task = worker[n][d].task
                 /\ worker[n][d].step \in {"seal", "evidence"} => x \in Elems(i.parents)
                 /\ worker[n][d].step \in {"copy", "receipt"} =>
                       x \in Elems(i.children) /\ Copied(i, x)
                 /\ worker[n][d].step = "receipt" => Exact(i, x)
  <1> DEFINE w == worker[n][d]
  <1>1. w \in Works /\ w.step # "idle"
    BY DEF IInv, Shape, DriverShape
  <1>2. w.step \in {"seal", "evidence", "copy", "receipt"}
    BY SMT, <1>1 DEF Works
  <1>3. StepSound(w)
    BY DEF IInv, StepsSound
  <1> HIDE DEF w
  <1>4. PICK i \in Catalog.intents :
          /\ i.task = w.task
          /\ w.step \in {"seal", "evidence"} => w.region \in Elems(i.parents)
          /\ w.step \in {"copy", "receipt"} =>
                w.region \in Elems(i.children) /\ Copied(i, w.region)
          /\ w.step = "receipt" => Exact(i, w.region)
    BY <1>1, <1>3 DEF StepSound
  <1>5. i = Intent(w.task)
    BY <1>4, IntentOf
  <1>6. Elems(i.children) \subseteq Regions /\ Elems(i.parents) \subseteq Regions
    BY IntentFacts, Views, Fields DEF IInv, Shape
  <1>7. w.region \in Regions
    BY <1>2, <1>4, <1>6
  <1> QED BY <1>1, <1>4, <1>5, <1>7 DEF w

-----------------------------------------------------------------------------
(* The operator's verbs.                                                   *)

(* plan_split.                                                             *)
LEMMA StepSplit ==
    ASSUME IInv, NEW op \in SplitOps, NEW p \in Regions, NEW key \in Keys,
           SplitRange(op, p, key)
    PROVE  IInv'
  <1>1. op \in Ops /\ LogShape /\ Versions /\ Named
    BY DEF Ops, IInv, Shape
  <1>2. PICK i : i = [task |-> NextTask, op |-> op, parents |-> <<p>>,
                      children |-> Children(op), key |-> key]
    OBVIOUS
  <1>3. /\ i.task = NextTask /\ i.op = op /\ i.parents = <<p>>
        /\ i.children = Children(op) /\ i.key = key
    BY <1>2
  <1>4. NextTask \in Nat
    <2>1. Cardinality(Catalog.intents) \in Nat
      BY <1>1, FS_CardinalityType DEF Named, Numbered
    <2> QED BY SMT, <2>1 DEF NextTask
  <1>5. i \in Intents
    <2>1. <<p>> \in Seq(Regions) /\ key \in 0..MaxKey
      BY SMT, Numbers DEF Keys
    <2>2. Children(op) \in Seq(Regions)
      BY <1>1, ChildrenOf
    <2> QED BY <1>1, <1>2, <1>4, <2>1, <2>2 DEF Intents
  <1>6. p \in DOMAIN Catalog.bind /\ \A x \in Elems(Children(i.op)) : ~IsBound(Catalog, x)
    BY <1>3 DEF SplitRange, SplitAdmitted, IsBound
  <1>7. Formed(Catalog, i)
    BY <1>3, <1>6 DEF Formed
  <1>8. Commit([Catalog EXCEPT !.intents = @ \cup {i}])
    BY <1>2 DEF SplitRange
  <1>9. Extended /\ Catalog'.bind = Catalog.bind /\ Catalog'.evidence = Catalog.evidence
    BY <1>1, <1>3, <1>5, <1>6, <1>7, <1>8, Intended
  <1>10. UNCHANGED groupVars /\ UNCHANGED driverVars /\ UNCHANGED bounds
         /\ UNCHANGED <<desc, sealedAt>>
    BY DEF SplitRange, groupVars
  <1> QED BY <1>9, <1>10, SealsSame, OnlyCatalog

(* plan_merge.                                                             *)
LEMMA StepMerge ==
    ASSUME IInv, NEW op \in MergeOps, NEW low \in Regions, NEW high \in Regions,
           MergeRanges(op, low, high)
    PROVE  IInv'
  <1>1. op \in Ops /\ op \notin SplitOps /\ LogShape /\ Versions /\ Named
    BY ConstantsAssumption DEF Ops, IInv, Shape
  <1>2. PICK i : i = [task |-> NextTask, op |-> op, parents |-> <<low, high>>,
                      children |-> Children(op), key |-> 0]
    OBVIOUS
  <1>3. /\ i.task = NextTask /\ i.op = op /\ i.parents = <<low, high>>
        /\ i.children = Children(op)
    BY <1>2
  <1>4. NextTask \in Nat
    <2>1. Cardinality(Catalog.intents) \in Nat
      BY <1>1, FS_CardinalityType DEF Named, Numbered
    <2> QED BY SMT, <2>1 DEF NextTask
  <1>5. i \in Intents
    <2>1. <<low, high>> \in Seq(Regions) /\ 0 \in 0..MaxKey
      BY SMT, Numbers
    <2>2. Children(op) \in Seq(Regions)
      BY <1>1, ChildrenOf
    <2> QED BY <1>1, <1>2, <1>4, <2>1, <2>2 DEF Intents
  <1>6. /\ low \in DOMAIN Catalog.bind /\ high \in DOMAIN Catalog.bind
        /\ \A x \in Elems(Children(i.op)) : ~IsBound(Catalog, x)
    BY <1>3 DEF MergeRanges, MergeAdmitted, IsBound
  <1>7. Formed(Catalog, i)
    BY <1>1, <1>3, <1>6 DEF Formed
  <1>8. Commit([Catalog EXCEPT !.intents = @ \cup {i}])
    BY <1>2 DEF MergeRanges
  <1>9. Extended /\ Catalog'.bind = Catalog.bind /\ Catalog'.evidence = Catalog.evidence
    BY <1>1, <1>3, <1>5, <1>6, <1>7, <1>8, Intended
  <1>10. UNCHANGED groupVars /\ UNCHANGED driverVars /\ UNCHANGED bounds
         /\ UNCHANGED <<desc, sealedAt>>
    BY DEF MergeRanges, groupVars
  <1> QED BY <1>9, <1>10, SealsSame, OnlyCatalog

(* plan_range_abort.                                                       *)
LEMMA StepAbort ==
    ASSUME IInv, NEW i \in Catalog.intents, Abort(i)
    PROVE  IInv'
  <1>1. Extended /\ Catalog'.bind = Catalog.bind /\ Catalog'.evidence = Catalog.evidence
    BY Aborted DEF Abort, IInv, Shape
  <1>2. UNCHANGED groupVars /\ UNCHANGED driverVars /\ UNCHANGED bounds
        /\ UNCHANGED <<desc, sealedAt>>
    BY DEF Abort, groupVars
  <1> QED BY <1>1, <1>2, SealsSame, OnlyCatalog

(* Publication: the evidence of the children names this intent alone, so   *)
(* its parents are sealed in their groups.                                 *)
LEMMA StepPublish ==
    ASSUME IInv, NEW n \in Nodes, NEW i \in View(n).intents, Publish(n, i)
    PROVE  IInv'
  <1>1. /\ i \in Catalog.intents /\ i.children[1] \in Elems(i.children)
        /\ Formed(Catalog, i) /\ i.op \in Ops
    BY DriverFacts
  <1>2. PICK c : /\ c = [Catalog EXCEPT !.bind = PublishedBindings(i)]
                 /\ Partition(c) /\ Commit(c)
    BY DEF Publish
  <1>3. /\ Extended /\ Sole(i) /\ Catalog'.evidence = Catalog.evidence
        /\ \A r \in DOMAIN Catalog'.bind : Catalog'.bind[r].sealed =>
              r \in Elems(i.parents) \/ (r \in DOMAIN Catalog.bind /\ Catalog.bind[r].sealed)
    BY <1>1, <1>2, Publishes DEF Publish, IInv, Shape
  <1>4. PICK x : x = i.children[1]
    OBVIOUS
  <1>5. <<i.op, x>> \in Catalog.evidence
    BY <1>1, <1>4 DEF Publish, PublicationAdmitted
  <1>6. PICK j \in Catalog.intents : j.op = i.op /\ Exact(j, x)
    <2>1. PICK j \in Catalog.intents :
            j.op = <<i.op, x>>[1] /\ Exact(j, <<i.op, x>>[2])
      BY <1>5 DEF IInv, EvidenceSound
    <2>2. <<i.op, x>>[1] = i.op /\ <<i.op, x>>[2] = x
      OBVIOUS
    <2> QED BY <2>1, <2>2
  <1>7. \A p \in Elems(i.parents) : desc[p].sealed
    BY <1>3, <1>6 DEF Sole, Exact, Copied
  <1>8. UNCHANGED groupVars /\ UNCHANGED driverVars /\ UNCHANGED bounds
        /\ UNCHANGED <<desc, sealedAt>>
    BY DEF Publish, groupVars
  <1>9. SealsTrue'
    BY <1>3, <1>7, <1>8 DEF IInv, SealsTrue
  <1> QED BY <1>3, <1>8, <1>9, OnlyCatalog

-----------------------------------------------------------------------------
(* Raft groups and nodes.                                                  *)

(* Elections, a catalog copy that catches up, a follower that applies the  *)
(* seal, retirement.                                                       *)
LEMMA StepGroup ==
    ASSUME IInv, NEW n \in Nodes, NEW r \in Regions,
           Elect(n, r) \/ ApplySeal(n, r) \/ Retire(n, r)
    PROVE  IInv'
  <1>1. UNCHANGED <<log, seen, desc, data, worker, done, writes, crashes>>
    BY DEF Elect, ApplySeal, Retire, driverVars, bounds
  <1>2. Extended /\ Catalog' = Catalog /\ Keep
    BY <1>1, LogSame, GroupSame, KeepAll
  <1>3. /\ desc \in [Regions -> Ranges] /\ data \in [Regions -> [Keys -> 0..MaxWrites]]
        /\ leader \in [Regions -> Nodes \cup {None}]
        /\ sealedAt \subseteq Nodes \X Regions /\ retired \subseteq Nodes \X Regions
    BY DEF IInv, Shape, GroupShape
  <1>4. leader' \in [Regions -> Nodes \cup {None}]
    BY <1>3 DEF Elect, ApplySeal, Retire
  <1>5. sealedAt' \subseteq sealedAt \cup {<<n, r>>} /\ retired' \subseteq retired \cup {<<n, r>>}
    BY DEF Elect, ApplySeal, Retire
  <1>6. GroupShape'
    <2>1. <<n, r>> \in Nodes \X Regions
      OBVIOUS
    <2>2. sealedAt' \subseteq Nodes \X Regions /\ retired' \subseteq Nodes \X Regions
      BY <1>3, <1>5, <2>1
    <2> QED BY <1>1, <1>3, <1>4, <2>2 DEF GroupShape
  <1>7. \A e \in sealedAt' : desc[e[2]].sealed
    <2>1. \A e \in sealedAt : desc[e[2]].sealed
      BY DEF IInv, SealsTrue
    <2>2. CASE sealedAt' = sealedAt
      BY <2>1, <2>2
    <2>3. CASE sealedAt' = sealedAt \cup {<<n, r>>} /\ desc[r].sealed
      <3>1. <<n, r>>[2] = r
        OBVIOUS
      <3> QED BY <2>1, <2>3, <3>1
    <2> QED BY <2>2, <2>3 DEF Elect, ApplySeal, Retire
  <1>8. SealsTrue'
    BY <1>1, <1>2, <1>7 DEF IInv, SealsTrue
  <1>9. DriverShape'
    BY <1>1 DEF IInv, Shape, DriverShape
  <1>10. CountShape'
    <2>1. elections' \in 0..MaxElections
      <3>1. elections' = elections \/ (elections' = elections + 1 /\ leader[r] # None)
        BY DEF Elect, ApplySeal, Retire, bounds
      <3>2. elections' = elections + 1 /\ leader[r] # None /\ Elect(n, r) => elections < MaxElections
        BY DEF Elect
      <3>3. ~Elect(n, r) => elections' = elections
        BY DEF ApplySeal, Retire, bounds
      <3>4. elections \in 0..MaxElections /\ MaxElections \in Nat
        BY ConstantsAssumption DEF IInv, Shape, CountShape
      <3> QED BY SMTT(30), <3>1, <3>2, <3>3, <3>4
    <2> QED BY <1>1, <2>1 DEF IInv, Shape, CountShape
  <1> QED BY <1>1, <1>2, <1>6, <1>8, <1>9, <1>10, Together

(* A metadata replica applies its next catalog state.                      *)
LEMMA StepCatchUp ==
    ASSUME IInv, NEW n \in Nodes, CatchUp(n)
    PROVE  IInv'
  <1>1. /\ UNCHANGED groupVars /\ UNCHANGED driverVars /\ UNCHANGED bounds
        /\ UNCHANGED <<desc, sealedAt>> /\ log' = log
    BY DEF CatchUp, groupVars
  <1>2. Catalog' = Catalog /\ Versions'
    BY <1>1 DEF IInv, Catalog, Versions
  <1>3. LogShape'
    <2>1. /\ log \in Seq(Catalogs) /\ Len(log) >= 1 /\ seen \in [Nodes -> Nat]
          /\ \A m \in Nodes : seen[m] \in 1..Len(log)
      BY DEF IInv, Shape, LogShape
    <2>2. seen' = [seen EXCEPT ![n] = seen[n] + 1] /\ seen[n] < Len(log)
      BY DEF CatchUp
    <2>3. \A m \in Nodes : seen'[m] = seen[m] \/ (m = n /\ seen'[m] = seen[n] + 1)
      BY <2>1, <2>2
    <2>4. Len(log) \in Nat
      BY SMTT(30), <2>1
    <2>5. \A m \in Nodes : seen'[m] \in 1..Len(log) /\ seen'[m] \in Nat
      BY SMTT(30), <2>1, <2>2, <2>3, <2>4
    <2>6. seen' \in [Nodes -> Nat]
      BY <2>1, <2>2, <2>5
    <2> QED BY <1>1, <2>1, <2>5, <2>6 DEF LogShape
  <1>4. Extended
    BY <1>2, <1>3, GrowsAgain DEF IInv, Extended, Named
  <1> QED BY ZenonT(60), <1>1, <1>2, <1>4, SealsSame, OnlyCatalog

(* A restart.                                                              *)
LEMMA StepCrash ==
    ASSUME IInv, NEW n \in Nodes, Crash(n)
    PROVE  IInv'
  <1>1. UNCHANGED <<log, seen, desc, data, sealedAt, retired, writes, elections>>
    BY DEF Crash
  <1>2. Extended /\ Catalog' = Catalog /\ Keep
    BY <1>1, LogSame, GroupSame, KeepAll
  <1>3. SealsTrue'
    BY <1>1, <1>2, SealsSame
  <1>4. GroupShape'
    BY <1>1 DEF IInv, Shape, GroupShape, Crash
  <1>5. Idle \in Works /\ Idle.step = "idle"
    BY SMT DEF Idle, Works
  <1>6. /\ worker \in [Nodes -> [Drivers -> Works]]
        /\ worker' = [worker EXCEPT ![n] = [d \in Drivers |-> Idle]]
    BY DEF IInv, Shape, DriverShape, Crash, Drivers
  <1>7. \A m \in Nodes : \A d \in Drivers : worker'[m][d] = worker[m][d] \/ worker'[m][d] = Idle
    BY <1>6
  <1>8. worker' \in [Nodes -> [Drivers -> Works]]
    BY <1>5, <1>6
  <1>9. DriverShape'
    BY <1>8 DEF IInv, Shape, DriverShape, Crash
  <1>10. CountShape'
    <2>1. crashes' \in 0..MaxCrashes
      BY SMT, ConstantsAssumption DEF IInv, Shape, CountShape, Crash
    <2> QED BY <1>1, <2>1 DEF IInv, Shape, CountShape
  <1>11. StepSound(Idle)'
    BY <1>5 DEF StepSound
  <1> QED BY ZenonT(60), <1>2, <1>3, <1>4, <1>7, <1>9, <1>10, <1>11, Together

-----------------------------------------------------------------------------
(* The drivers.                                                            *)

(* A step that only plans.                                                 *)
LEMMA Planned ==
    ASSUME IInv, NEW n \in Nodes, NEW d \in Drivers, NEW w \in Works,
           worker' = [worker EXCEPT ![n][d] = w], StepSound(w),
           UNCHANGED <<log, seen, done>>, UNCHANGED groupVars, UNCHANGED bounds
    PROVE  IInv'
  <1>1. UNCHANGED <<desc, data, sealedAt>>
    BY DEF groupVars
  <1>2. Extended /\ Catalog' = Catalog /\ Keep
    BY <1>1, LogSame, GroupSame, KeepAll
  <1>3. SealsTrue'
    BY <1>1, <1>2, SealsSame
  <1>4. GroupShape' /\ CountShape'
    BY DEF IInv, Shape, GroupShape, CountShape, groupVars, bounds
  <1>5. StepSound(w)'
    <2>1. CASE w.step = "idle"
      BY <2>1 DEF StepSound
    <2>2. CASE w.step # "idle"
      <3>1. PICK i \in Catalog.intents :
              /\ i.task = w.task
              /\ w.step \in {"seal", "evidence"} => w.region \in Elems(i.parents)
              /\ w.step \in {"copy", "receipt"} =>
                    w.region \in Elems(i.children) /\ Copied(i, w.region)
              /\ w.step = "receipt" => Exact(i, w.region)
        BY <2>2 DEF StepSound
      <3>2. i \in Catalog'.intents
        BY <1>2
      <3>3. w.step \in {"copy", "receipt"} => Copied(i, w.region)'
        BY <1>2, <3>1 DEF Keep
      <3>4. w.step = "receipt" => Exact(i, w.region)'
        BY <1>2, <3>1 DEF Keep
      <3> QED BY <3>1, <3>2, <3>3, <3>4 DEF StepSound
    <2> QED BY <2>1, <2>2
  <1>6. DriverShape
    BY DEF IInv, Shape
  <1>7. /\ worker' \in [Nodes -> [Drivers -> Works]]
        /\ \A m \in Nodes : \A e \in Drivers :
              \/ worker'[m][e] = worker[m][e]
              \/ \A v \in {worker'[m][e]} : StepSound(v)'
    BY <1>5, <1>6, Takes
  <1>8. DriverShape'
    BY <1>6, <1>7 DEF DriverShape
  <1> QED BY ZenonT(60), <1>2, <1>3, <1>4, <1>7, <1>8, Together

(* Planning a seal, its evidence or a copy; a copy finds every parent      *)
(* sealed and the child's descriptor installed.                            *)
LEMMA StepPlan ==
    ASSUME IInv, NEW n \in Nodes, NEW i \in View(n).intents, NEW r \in Regions,
           StartSeal(n, i, r) \/ RecoverSeal(n, i, r) \/ StartCopy(n, i, r)
    PROVE  IInv'
  <1>1. /\ i \in Catalog.intents /\ i.task \in Nat /\ Driver(i) \in Drivers
        /\ ChildRange(View(n), i, r) \in Spans
    BY DriverFacts
  <1>2. UNCHANGED <<log, seen, done>> /\ UNCHANGED groupVars /\ UNCHANGED bounds
    BY DEF StartSeal, RecoverSeal, StartCopy
  <1>3. PICK s \in {"seal", "evidence", "copy"} :
          /\ worker' = [worker EXCEPT ![n][Driver(i)] = [step |-> s, task |-> i.task, region |-> r]]
          /\ s \in {"seal", "evidence"} => r \in Elems(i.parents)
          /\ s = "copy" => r \in Elems(i.children) /\ CanCopy(n, i, r)
    BY DEF StartSeal, RecoverSeal, StartCopy, Start
  <1>4. PICK w : w = [step |-> s, task |-> i.task, region |-> r]
    OBVIOUS
  <1>5. w \in Works
    BY <1>1, <1>4 DEF Works
  <1>6. w.step = s /\ w.task = i.task /\ w.region = r
    BY <1>4
  <1>7. s = "copy" => Copied(i, r)
    <2> HAVE s = "copy"
    <2>1. desc[r] = ChildRange(View(n), i, r) /\ \A p \in Elems(i.parents) : <<n, p>> \in sealedAt
      BY <1>3 DEF CanCopy
    <2>2. NoRange \notin Spans
      BY SMT DEF NoRange, Spans
    <2>3. \A e \in sealedAt : desc[e[2]].sealed
      BY DEF IInv, SealsTrue
    <2>4. \A p : <<n, p>>[2] = p
      OBVIOUS
    <2> QED BY ZenonT(60), <1>1, <2>1, <2>2, <2>3, <2>4 DEF Copied
  <1>8. StepSound(w)
    BY <1>1, <1>3, <1>6, <1>7 DEF StepSound
  <1> QED BY ZenonT(60), <1>1, <1>2, <1>3, <1>4, <1>5, <1>8, Planned

(* A step fails.                                                           *)
LEMMA StepFailure ==
    ASSUME IInv, NEW n \in Nodes, NEW d \in Drivers, StepFails(n, d)
    PROVE  IInv'
  <1>1. Idle \in Works /\ Idle.step = "idle"
    BY SMT DEF Idle, Works
  <1>2. StepSound(Idle)
    BY <1>1 DEF StepSound
  <1> QED BY <1>1, <1>2, Planned DEF StepFails, Finish

(* The comparison of child and parents: a match becomes a receipt.         *)
LEMMA StepVerify ==
    ASSUME IInv, NEW n \in Nodes, NEW d \in Drivers, Verify(n, d)
    PROVE  IInv'
  <1>1. worker[n][d].step = "copy"
    BY DEF Verify
  <1>2. PICK i \in Catalog.intents, x \in Regions :
          /\ i = Intent(worker[n][d].task) /\ x = worker[n][d].region
          /\ i.task = worker[n][d].task /\ x \in Elems(i.children) /\ Copied(i, x)
    BY <1>1, InFlight
  <1>3. UNCHANGED <<log, seen, done>> /\ UNCHANGED groupVars /\ UNCHANGED bounds
    BY DEF Verify
  <1>4. CASE RowsMatch(i, x) /\ worker' = [worker EXCEPT ![n][d].step = "receipt"]
    <2>1. PICK w : w = [worker[n][d] EXCEPT !.step = "receipt"]
      OBVIOUS
    <2>2. worker[n][d] \in Works
      BY <1>1, InFlight
    <2>3. w \in Works /\ w.step = "receipt" /\ w.task = i.task /\ w.region = x
      BY <1>2, <2>1, <2>2 DEF Works
    <2>4. worker' = [worker EXCEPT ![n][d] = w]
      BY SMTT(30), <1>4, <2>1 DEF IInv, Shape, DriverShape
    <2>5. Exact(i, x)
      <3>1. \A range : range = ChildRange(Catalog, i, x) => Matched(i, x, range)
        BY <1>4 DEF Matched, RowsMatch
      <3> QED BY <1>2, <3>1 DEF Exact
    <2>6. StepSound(w)
      BY <1>2, <2>3, <2>5 DEF StepSound
    <2> QED BY ZenonT(60), <1>3, <2>3, <2>4, <2>6, Planned
  <1>5. CASE Finish(n, d)
    <2>1. Idle \in Works /\ Idle.step = "idle"
      BY SMT DEF Idle, Works
    <2>2. StepSound(Idle)
      BY <2>1 DEF StepSound
    <2> QED BY ZenonT(60), <1>3, <1>5, <2>1, <2>2, Planned DEF Finish
  <1> QED BY <1>2, <1>4, <1>5 DEF Verify

(* A child's leader installs its descriptor.                               *)
LEMMA StepInstall ==
    ASSUME IInv, NEW n \in Nodes, NEW i \in View(n).intents, NEW x \in Regions,
           InstallDescriptor(n, i, x)
    PROVE  IInv'
  <1>1. ChildRange(View(n), i, x) \in Spans
    BY DriverFacts
  <1>2. /\ desc \in [Regions -> Ranges] /\ desc[x] = NoRange
        /\ desc' = [desc EXCEPT ![x] = apply_data_range(desc[x], ChildRange(View(n), i, x))]
    BY DEF IInv, Shape, GroupShape, InstallDescriptor
  <1>3. apply_data_range(desc[x], ChildRange(View(n), i, x)) = ChildRange(View(n), i, x)
    BY <1>2 DEF apply_data_range
  <1>4. UNCHANGED <<log, seen, data, leader, sealedAt, retired, worker, done>>
        /\ UNCHANGED bounds
    BY DEF InstallDescriptor, driverVars
  <1>5. ~NoRange.sealed /\ Spans \subseteq Ranges
    BY SMTT(30), Numbers DEF NoRange, Spans, Ranges, Positions
  <1>6. desc' \in [Regions -> Ranges] /\ \A r \in Regions : desc[r] # NoRange => desc'[r] = desc[r]
    BY <1>1, <1>2, <1>3, <1>5
  <1>7. DescGrows /\ DataKept
    BY <1>4, <1>6 DEF DescGrows, DataKept, SameBounds
  <1>8. Extended /\ Catalog' = Catalog /\ Keep
    BY <1>4, <1>7, LogSame, KeepAll
  <1>9. SealsTrue'
    <2>1. /\ \A r \in DOMAIN Catalog.bind : r \in Regions
          /\ \A e \in sealedAt : e[2] \in Regions
      <3>1. \A r \in DOMAIN Catalog.bind : r \in Regions
        BY Views, Fields DEF IInv, Shape
      <3>2. \A e \in Nodes \X Regions : e[2] \in Regions
        OBVIOUS
      <3> QED BY <3>1, <3>2 DEF IInv, Shape, GroupShape
    <2>2. \A r \in Regions : desc[r].sealed => desc'[r].sealed
      BY <1>5, <1>6
    <2> QED BY <1>4, <1>8, <2>1, <2>2 DEF IInv, SealsTrue
  <1>10. GroupShape' /\ DriverShape' /\ CountShape'
    BY <1>4, <1>6 DEF IInv, Shape, GroupShape, DriverShape, CountShape, bounds
  <1> QED BY <1>4, <1>8, <1>9, <1>10, Together

(* The seal applies at the parent's leader.                                *)
LEMMA StepSeal ==
    ASSUME IInv, NEW n \in Nodes, NEW d \in Drivers, SealApplies(n, d)
    PROVE  IInv'
  <1>1. worker[n][d].step = "seal"
    BY DEF SealApplies
  <1>2. PICK i \in Catalog.intents, p \in Regions :
          /\ i = Intent(worker[n][d].task) /\ p = worker[n][d].region
          /\ i.task = worker[n][d].task /\ p \in Elems(i.parents)
    BY <1>1, InFlight
  <1>3. /\ desc \in [Regions -> Ranges]
        /\ desc' = [desc EXCEPT ![p] = apply_data_range(desc[p], Seal(desc[p]))]
        /\ sealedAt' = sealedAt \cup {<<n, p>>}
    BY <1>2 DEF IInv, Shape, GroupShape, SealApplies
  <1>4. UNCHANGED <<log, seen, data, leader, retired, done>> /\ UNCHANGED bounds
    BY DEF SealApplies
  <1>5. \A s \in Ranges : /\ Seal(s) \in Ranges /\ Seal(s).sealed
                          /\ Seal(s).lo = s.lo /\ Seal(s).hi = s.hi
    BY SealFacts
  <1>6. NoRange \in Ranges /\ ~NoRange.sealed
    BY SMTT(30), Numbers DEF NoRange, Ranges, Positions
  <1>7. \/ desc'[p] = Seal(desc[p])
        \/ desc'[p] = desc[p] /\ desc[p].sealed
    <2>1. desc'[p] = apply_data_range(desc[p], Seal(desc[p]))
      BY <1>3
    <2> QED BY <2>1 DEF apply_data_range
  <1>8. /\ desc'[p] \in Ranges /\ desc'[p].sealed /\ SameBounds(desc[p], desc'[p])
        /\ desc'[p] # NoRange
    <2>1. desc[p] \in Ranges
      BY <1>3
    <2>2. CASE desc'[p] = Seal(desc[p])
      <3>1. Seal(desc[p]) # NoRange
        BY <1>5, <1>6, <2>1
      <3> QED BY <1>5, <2>1, <2>2, <3>1 DEF SameBounds
    <2>3. CASE desc'[p] = desc[p] /\ desc[p].sealed
      BY <1>6, <2>1, <2>3 DEF SameBounds
    <2> QED BY <1>7, <2>2, <2>3
  <1>9. desc' \in [Regions -> Ranges] /\ \A r \in Regions : r # p => desc'[r] = desc[r]
    BY <1>3, <1>8
  <1>10. DescGrows
    BY <1>8, <1>9 DEF DescGrows, SameBounds
  <1>11. DataKept
    BY <1>4 DEF DataKept
  <1>12. Extended /\ Catalog' = Catalog /\ Keep
    BY ZenonT(60), <1>4, <1>10, <1>11, LogSame, KeepAll
  <1>13. SealsTrue'
    <2>1. /\ \A r \in DOMAIN Catalog.bind : r \in Regions
          /\ \A e \in sealedAt : e[2] \in Regions
      <3>1. \A r \in DOMAIN Catalog.bind : r \in Regions
        BY Views, Fields DEF IInv, Shape
      <3>2. \A e \in Nodes \X Regions : e[2] \in Regions
        OBVIOUS
      <3> QED BY <3>1, <3>2 DEF IInv, Shape, GroupShape
    <2>2. \A r \in Regions : desc[r].sealed => desc'[r].sealed
      BY <1>8, <1>9
    <2>3. <<n, p>>[2] = p
      OBVIOUS
    <2>4. \A e \in sealedAt' : desc'[e[2]].sealed
      BY <1>3, <1>8, <2>1, <2>2, <2>3 DEF IInv, SealsTrue
    <2> QED BY ZenonT(60), <1>12, <2>1, <2>2, <2>4 DEF IInv, SealsTrue
  <1>14. GroupShape' /\ CountShape'
    <2>1. <<n, p>> \in Nodes \X Regions
      OBVIOUS
    <2>2. sealedAt' \subseteq Nodes \X Regions
      BY <1>3, <2>1 DEF IInv, Shape, GroupShape
    <2> QED BY <1>4, <1>9, <2>2 DEF IInv, Shape, GroupShape, CountShape, bounds
  <1>15. DriverShape
    BY DEF IInv, Shape
  <1>16. /\ worker' \in [Nodes -> [Drivers -> Works]]
         /\ \A m \in Nodes : \A e \in Drivers :
               \/ worker'[m][e] = worker[m][e]
               \/ \A v \in {worker'[m][e]} : StepSound(v)'
    <2>1. CASE worker' = [worker EXCEPT ![n][d].step = "evidence"]
      <3>1. PICK w : w = [worker[n][d] EXCEPT !.step = "evidence"]
        OBVIOUS
      <3>2. worker[n][d] \in Works
        BY <1>1, InFlight
      <3>3. w \in Works /\ w.step = "evidence" /\ w.task = i.task /\ w.region = p
        BY <1>2, <3>1, <3>2 DEF Works
      <3>4. worker' = [worker EXCEPT ![n][d] = w]
        BY SMTT(30), <2>1, <3>1, <1>15 DEF DriverShape
      <3>5. StepSound(w)'
        BY <1>2, <1>12, <3>3 DEF StepSound
      <3> QED BY ZenonT(60), <1>15, <3>3, <3>4, <3>5, Takes
    <2>2. CASE Finish(n, d)
      BY <1>15, <2>2, Ends
    <2> QED BY <2>1, <2>2 DEF SealApplies
  <1>17. DriverShape'
    BY <1>4, <1>15, <1>16 DEF DriverShape
  <1> QED BY ZenonT(60), <1>12, <1>13, <1>14, <1>16, <1>17, Together

(* A delivery ends the step, with or without a new catalog row.            *)
LEMMA Delivered ==
    ASSUME IInv, NEW n \in Nodes, NEW d \in Drivers, Finish(n, d), Extended,
           Catalog'.bind = Catalog.bind, UNCHANGED groupVars, UNCHANGED bounds,
           done' \subseteq Nodes \X Regions,
           \A e \in Catalog'.evidence : e \in Catalog.evidence \/
               \E i \in Catalog.intents :
                   i.op = e[1] /\ e[2] \in Elems(i.children) /\ Exact(i, e[2])
    PROVE  IInv'
  <1>1. UNCHANGED <<desc, data, sealedAt>> /\ DriverShape
    BY DEF groupVars, IInv, Shape
  <1>2. Keep
    BY <1>1, GroupSame, KeepAll
  <1>3. SealsTrue'
    BY <1>1, SealsSame
  <1>4. GroupShape' /\ CountShape'
    BY DEF IInv, Shape, GroupShape, CountShape, groupVars, bounds
  <1>5. /\ worker' \in [Nodes -> [Drivers -> Works]]
        /\ \A m \in Nodes : \A e \in Drivers :
              \/ worker'[m][e] = worker[m][e]
              \/ \A v \in {worker'[m][e]} : StepSound(v)'
    BY <1>1, Ends
  <1>6. DriverShape'
    BY <1>5 DEF DriverShape
  <1> QED BY ZenonT(60), <1>2, <1>3, <1>4, <1>5, <1>6, Together

(* plan_seal_evidence.                                                     *)
LEMMA StepDeliverSeal ==
    ASSUME IInv, NEW n \in Nodes, NEW d \in Drivers, DeliverSeal(n, d)
    PROVE  IInv'
  <1>1. worker[n][d].step = "evidence"
    BY DEF DeliverSeal
  <1>2. PICK i \in Catalog.intents, p \in Regions :
          i = Intent(worker[n][d].task) /\ p = worker[n][d].region
    BY <1>1, InFlight
  <1>3. /\ Finish(n, d) /\ UNCHANGED groupVars /\ UNCHANGED bounds /\ UNCHANGED done
    BY DEF DeliverSeal
  <1>4. done' \subseteq Nodes \X Regions
    BY <1>3 DEF IInv, Shape, DriverShape
  <1>5. CASE UNCHANGED <<log, seen>>
    BY <1>3, <1>4, <1>5, LogSame, Delivered
  <1>6. CASE Commit(SealRow(i, p))
    <2>1. PICK c : c = [Catalog EXCEPT !.seals = Catalog.seals \cup {<<i.op, p>>}]
      OBVIOUS
    <2>2. Commit(c)
      BY <1>6, <2>1 DEF SealRow
    <2>3. Catalog \in Catalogs /\ Catalog.seals \subseteq Ops \X Regions /\ i.op \in Ops
      BY Views, Fields, IntentFacts DEF IInv, Shape
    <2>4. Catalog.seals \cup {<<i.op, p>>} \in SUBSET (Ops \X Regions)
      BY SMTT(30), <2>3
    <2>5. /\ c \in Catalogs /\ c.seals = Catalog.seals \cup {<<i.op, p>>}
          /\ c.bind = Catalog.bind /\ c.intents = Catalog.intents
          /\ c.aborts = Catalog.aborts /\ c.evidence = Catalog.evidence
      BY SMTT(30), <2>1, <2>3, <2>4 DEF Catalogs
    <2>6. Extended /\ Catalog' = c
      BY <2>2, <2>5, Evidenced DEF IInv, Shape
    <2> QED BY <1>3, <1>4, <2>5, <2>6, Delivered
  <1> QED BY <1>2, <1>5, <1>6 DEF DeliverSeal

(* plan_split_evidence, plan_merge_evidence.                               *)
LEMMA StepDeliver ==
    ASSUME IInv, NEW n \in Nodes, NEW d \in Drivers, Deliver(n, d)
    PROVE  IInv'
  <1>1. worker[n][d].step = "receipt"
    BY DEF Deliver
  <1>2. PICK i \in Catalog.intents, x \in Regions :
          /\ i = Intent(worker[n][d].task) /\ x = worker[n][d].region
          /\ x \in Elems(i.children) /\ Exact(i, x)
    BY <1>1, InFlight
  <1>3. Finish(n, d) /\ UNCHANGED groupVars /\ UNCHANGED bounds
    BY DEF Deliver
  <1>4. done' \subseteq Nodes \X Regions
    <2>1. done' \subseteq done \cup {<<n, x>>}
      BY <1>2 DEF Deliver
    <2>2. <<n, x>> \in Nodes \X Regions /\ done \subseteq Nodes \X Regions
      BY DEF IInv, Shape, DriverShape
    <2> QED BY <2>1, <2>2
  <1>5. CASE UNCHANGED <<log, seen>>
    BY <1>3, <1>4, <1>5, LogSame, Delivered
  <1>6. CASE Commit([Catalog EXCEPT !.evidence = @ \cup {<<i.op, x>>}])
    <2>1. PICK c : c = [Catalog EXCEPT !.evidence = Catalog.evidence \cup {<<i.op, x>>}]
      OBVIOUS
    <2>2. Commit(c)
      BY <1>6, <2>1
    <2>3. Catalog \in Catalogs /\ Catalog.evidence \subseteq Ops \X Regions /\ i.op \in Ops
      BY Views, Fields, IntentFacts DEF IInv, Shape
    <2>4. Catalog.evidence \cup {<<i.op, x>>} \in SUBSET (Ops \X Regions)
      BY SMT, <2>3
    <2>5. /\ c \in Catalogs /\ c.evidence = Catalog.evidence \cup {<<i.op, x>>}
          /\ c.bind = Catalog.bind /\ c.intents = Catalog.intents
          /\ c.aborts = Catalog.aborts /\ c.seals = Catalog.seals
      BY SMTT(30), <2>1, <2>3, <2>4 DEF Catalogs
    <2>6. Extended /\ Catalog' = c
      BY <2>2, <2>5, Evidenced DEF IInv, Shape
    <2>7. <<i.op, x>>[1] = i.op /\ <<i.op, x>>[2] = x
      OBVIOUS
    <2>8. \A e \in Catalog'.evidence : e \in Catalog.evidence \/
              \E j \in Catalog.intents :
                  j.op = e[1] /\ e[2] \in Elems(j.children) /\ Exact(j, e[2])
      BY <1>2, <2>5, <2>6, <2>7
    <2> QED BY <1>3, <1>4, <2>5, <2>6, <2>8, Delivered
  <1> QED BY <1>2, <1>5, <1>6 DEF Deliver

-----------------------------------------------------------------------------
(* Rows.                                                                   *)

(* A step that changes rows, and drivers at most by ending a step.         *)
LEMMA RowStep ==
    ASSUME IInv, DataKept, data' \in [Regions -> [Keys -> 0..MaxWrites]],
           UNCHANGED <<log, seen, desc, leader, sealedAt, retired, done>>, CountShape',
           worker' = worker \/ \E n \in Nodes : \E d \in Drivers : Finish(n, d)
    PROVE  IInv'
  <1>1. DescGrows
    BY DEF DescGrows, SameBounds
  <1>2. Extended /\ Catalog' = Catalog /\ Keep
    BY <1>1, LogSame, KeepAll
  <1>3. SealsTrue'
    BY <1>2, SealsSame
  <1>4. GroupShape'
    BY DEF IInv, Shape, GroupShape
  <1>5. /\ worker' \in [Nodes -> [Drivers -> Works]]
        /\ \A m \in Nodes : \A e \in Drivers :
              \/ worker'[m][e] = worker[m][e]
              \/ \A v \in {worker'[m][e]} : StepSound(v)'
    <2>1. DriverShape
      BY DEF IInv, Shape
    <2>2. CASE worker' = worker
      BY <2>1, <2>2 DEF DriverShape
    <2>3. CASE \E n \in Nodes : \E d \in Drivers : Finish(n, d)
      BY <2>1, <2>3, Ends
    <2> QED BY <2>2, <2>3
  <1>6. DriverShape'
    BY <1>5 DEF IInv, Shape, DriverShape
  <1> QED BY <1>2, <1>3, <1>4, <1>5, <1>6, Together

(* A page of a copy: it goes to an unsealed child, and writes what a child *)
(* that matches its parents already holds.                                 *)
LEMMA StepCopy ==
    ASSUME IInv, NEW n \in Nodes, NEW d \in Drivers, NEW confirmed \in BOOLEAN,
           CopyPage(n, d, confirmed)
    PROVE  IInv'
  <1>1. worker[n][d].step = "copy"
    BY DEF CopyPage
  <1>2. PICK i \in Catalog.intents, x \in Regions :
          /\ i = Intent(worker[n][d].task) /\ x = worker[n][d].region
          /\ x \in Elems(i.children) /\ Copied(i, x)
    BY <1>1, InFlight
  <1>3. PICK j \in DOMAIN Intent(worker[n][d].task).parents :
          LET h == Intent(worker[n][d].task)
              y == worker[n][d].region
              T == PageOf(Remaining(h, y, cursor[n][y], j))
          IN /\ Accepts(n, y, T)
             /\ data' = [data EXCEPT ![y] = [k \in Keys |->
                            IF k \in T THEN data[h.parents[j]][k] ELSE data[y][k]]]
    BY DEF CopyPage
  <1>4. PICK p : p = i.parents[j]
    OBVIOUS
  <1>5. PICK S : S = PageOf(Remaining(i, x, cursor[n][x], j))
    OBVIOUS
  <1>6. /\ ~desc[x].sealed /\ j \in DOMAIN i.parents
        /\ data' = [data EXCEPT ![x] = [k \in Keys |->
                       IF k \in S THEN data[p][k] ELSE data[x][k]]]
    BY <1>2, <1>3, <1>4, <1>5 DEF Accepts
  <1>7. \A k \in S : /\ k \in Keys /\ contains(ChildRange(Catalog, i, x), k)
                     /\ contains(desc[p], k) /\ data[p][k] # 0
    BY <1>4, <1>5 DEF PageOf, Remaining
  <1>8. p \in Elems(i.parents)
    BY <1>4, <1>6 DEF Elems
  <1>9. /\ p \in Regions /\ i.children = Children(i.op) /\ i.op \in Ops
        /\ \A h \in Catalog.intents : h.children = Children(h.op) /\ h.op \in Ops
                                      /\ Elems(h.children) \subseteq Regions
    BY <1>8, Views, IntentFacts, Fields DEF IInv, Shape
  <1>10. data \in [Regions -> [Keys -> 0..MaxWrites]]
    BY DEF IInv, Shape, GroupShape
  <1>11. \A r \in Regions : r # x => data'[r] = data[r]
    BY <1>6, <1>10
  <1>12. /\ data' \in [Regions -> [Keys -> 0..MaxWrites]]
         /\ \A k \in Keys : data'[x][k] = IF k \in S THEN data[p][k] ELSE data[x][k]
    <2>1. \A k \in Keys : data[p][k] \in 0..MaxWrites /\ data[x][k] \in 0..MaxWrites
      BY <1>9, <1>10
    <2>2. [k \in Keys |-> IF k \in S THEN data[p][k] ELSE data[x][k]] \in [Keys -> 0..MaxWrites]
      BY <2>1
    <2> QED BY <1>6, <1>10, <2>2
  <1>13. ASSUME Sole(i), ~IsBound(Catalog, x), Exact(i, x)
         PROVE  data'[x] = data[x]
    <2>1. PICK range : range = ChildRange(Catalog, i, x)
      OBVIOUS
    <2>2. Matched(i, x, range)
      BY <1>13, <2>1 DEF Exact
    <2>3. ASSUME NEW k \in S PROVE data[p][k] = data[x][k]
      <3>1. <<k, data[p][k]>> \in Rows(p, range)
        BY <1>7, <2>1 DEF Rows
      <3>2. <<k, data[p][k]>> \in Rows(x, range)
        BY <1>8, <2>2, <3>1 DEF Matched
      <3>3. PICK h \in Keys : <<k, data[p][k]>> = <<h, data[x][h]>>
        BY <3>2 DEF Rows
      <3> QED BY <3>3
    <2>4. \A k \in Keys : data'[x][k] = data[x][k]
      BY <1>12, <2>3
    <2>5. data'[x] \in [Keys -> 0..MaxWrites] /\ data[x] \in [Keys -> 0..MaxWrites]
      BY <1>10, <1>12
    <2> QED BY SMTT(30), <2>4, <2>5
  <1>14. DataKept
    <2>1. \A r \in Regions : desc[r].sealed => data'[r] = data[r]
      BY <1>6, <1>11
    <2>2. ASSUME NEW h \in Catalog.intents, NEW y \in Elems(h.children),
                 Exact(h, y), Sole(h), ~IsBound(Catalog, y)
          PROVE  data'[y] = data[y]
      <3>1. CASE y # x
        BY <1>9, <1>11, <3>1
      <3>2. CASE y = x
        <4>1. h.op = i.op
          BY ZenonT(60), <1>2, <1>9, <2>2, <3>2, ChildrenOf
        <4>2. h = i
          BY <2>2, <4>1 DEF Sole
        <4> QED BY <1>13, <2>2, <3>2, <4>2
      <3> QED BY <3>1, <3>2
    <2> QED BY <2>1, <2>2 DEF DataKept
  <1>15. UNCHANGED <<log, seen, desc, leader, sealedAt, retired, done>> /\ CountShape'
    BY DEF CopyPage, IInv, Shape, CountShape, bounds
  <1>16. Finish(n, d)
    BY DEF CopyPage
  <1> QED BY ZenonT(60), <1>12, <1>14, <1>15, <1>16, RowStep

(* A client write goes to an unsealed group that some catalog bound.       *)
LEMMA StepPut ==
    ASSUME IInv, NEW n \in Nodes, NEW k \in Keys, NEW r \in Regions, ClientPut(n, k, r)
    PROVE  IInv'
  <1>1. IsBound(Catalog, r) /\ ~desc[r].sealed
    <2>1. IsBound(View(n), r) /\ Grows(View(n), Catalog)
      BY Views DEF ClientPut, Routes, IInv, Shape
    <2> QED BY <2>1 DEF ClientPut, is_fresh, IsBound, Grows
  <1>2. /\ writes < MaxWrites /\ writes' = writes + 1
        /\ data' = [data EXCEPT ![r][k] = writes + 1]
    BY DEF ClientPut
  <1>3. writes \in 0..MaxWrites /\ data \in [Regions -> [Keys -> 0..MaxWrites]]
    BY DEF IInv, Shape, CountShape, GroupShape
  <1>4. writes + 1 \in 0..MaxWrites
    BY SMTT(30), <1>2, <1>3, Numbers
  <1>5. data' \in [Regions -> [Keys -> 0..MaxWrites]] /\ \A s \in Regions : s # r => data'[s] = data[s]
    BY <1>2, <1>3, <1>4
  <1>6. DataKept
    <2>1. \A i \in Catalog.intents : Elems(i.children) \subseteq Regions
      BY Views, IntentFacts DEF IInv, Shape
    <2> QED BY <1>1, <1>5, <2>1 DEF DataKept
  <1>7. /\ UNCHANGED <<log, seen, desc, leader, sealedAt, retired, done>> /\ worker' = worker
        /\ UNCHANGED <<elections, crashes>>
    BY DEF ClientPut, driverVars
  <1>8. CountShape'
    BY <1>2, <1>4, <1>7 DEF IInv, Shape, CountShape
  <1> QED BY <1>5, <1>6, <1>7, <1>8, RowStep

-----------------------------------------------------------------------------
(* The invariant and what it gives.                                        *)

(* No step of any node breaks the invariant.                               *)
LEMMA StepInv == IInv /\ [Next]_vars => IInv'
  <1> SUFFICES ASSUME IInv, [Next]_vars PROVE IInv'
    OBVIOUS
  <1>1. CASE UNCHANGED vars
    <2>1. /\ UNCHANGED <<log, seen>> /\ UNCHANGED <<desc, sealedAt>>
          /\ UNCHANGED groupVars /\ UNCHANGED driverVars /\ UNCHANGED bounds
      BY <1>1 DEF vars, groupVars, driverVars, bounds
    <2>2. Extended /\ Catalog' = Catalog
      BY <2>1, LogSame
    <2>3. SealsTrue'
      BY <2>1, <2>2, SealsSame
    <2> QED BY <2>1, <2>2, <2>3, OnlyCatalog
  <1>2. CASE Next
    <2>1. ASSUME NEW op \in SplitOps, NEW p \in Regions, NEW key \in Keys, SplitRange(op, p, key)
          PROVE  IInv'
      BY <2>1, StepSplit
    <2>2. ASSUME NEW op \in MergeOps, NEW low \in Regions, NEW high \in Regions,
                 MergeRanges(op, low, high)
          PROVE  IInv'
      BY <2>2, StepMerge
    <2>3. ASSUME NEW i \in Catalog.intents, Abort(i) PROVE IInv'
      BY <2>3, StepAbort
    <2>4. ASSUME NEW n \in Nodes, CatchUp(n) \/ Crash(n) PROVE IInv'
      BY <2>4, StepCatchUp, StepCrash
    <2>5. ASSUME NEW n \in Nodes, NEW r \in Regions,
                 Elect(n, r) \/ ApplySeal(n, r) \/ Retire(n, r)
          PROVE  IInv'
      BY <2>5, StepGroup
    <2>6. ASSUME NEW n \in Nodes, NEW i \in View(n).intents, Publish(n, i) PROVE IInv'
      BY <2>6, StepPublish
    <2>7. ASSUME NEW n \in Nodes, NEW i \in View(n).intents, NEW r \in Regions,
                 \/ InstallDescriptor(n, i, r)
                 \/ StartSeal(n, i, r) \/ RecoverSeal(n, i, r) \/ StartCopy(n, i, r)
          PROVE  IInv'
      BY <2>7, StepInstall, StepPlan
    <2>8. ASSUME NEW n \in Nodes, NEW d \in Drivers,
                 \/ SealApplies(n, d) \/ DeliverSeal(n, d)
                 \/ \E confirmed \in BOOLEAN : CopyPage(n, d, confirmed)
                 \/ Verify(n, d) \/ Deliver(n, d) \/ StepFails(n, d)
          PROVE  IInv'
      BY ZenonT(60), <2>8, StepSeal, StepDeliverSeal, StepCopy, StepVerify, StepDeliver, StepFailure
    <2>9. ASSUME NEW n \in Nodes, NEW k \in Keys, NEW r \in Regions, ClientPut(n, k, r)
          PROVE  IInv'
      BY <2>9, StepPut
    <2> QED BY ZenonT(60), <1>2, <2>1, <2>2, <2>3, <2>4, <2>5, <2>6, <2>7, <2>8, <2>9 DEF Next, Drivers
  <1> QED BY <1>1, <1>2

(* The invariant holds in every reachable state.                           *)
THEOREM RangeInvariant == Spec => []IInv
  BY InitInv, StepInv, PTL DEF Spec

(* RangeTypes: the catalog copies, the groups and the drivers keep their   *)
(* types whatever the nodes do.                                            *)
THEOREM RangeTypes == Spec => []TypeOK
  <1>1. IInv => TypeOK
    <2> SUFFICES ASSUME IInv PROVE TypeOK
      OBVIOUS
    <2>1. LogShape /\ GroupShape /\ DriverShape /\ CountShape
      BY DEF IInv, Shape
    <2>2. DOMAIN Catalog.bind \subseteq Regions
      BY <2>1, Views, Fields
    <2> QED BY <2>1, <2>2 DEF TypeOK, LogShape, GroupShape, DriverShape, CountShape
  <1> QED BY <1>1, RangeInvariant, PTL

(* Of two nodes that route a key, the one with the older catalog routes it *)
(* to a sealed group or to the same group.                                 *)
LEMMA Supersedes ==
    ASSUME IInv, NEW n \in Nodes, NEW m \in Nodes, NEW k \in Keys,
           NEW r \in Regions, NEW s \in Regions,
           Routes(n, k, r), Routes(m, k, s), is_fresh(r, k), seen[n] <= seen[m]
    PROVE  r = s
  <1>1. seen[n] \in 1..Len(log) /\ seen[m] \in 1..Len(log)
    BY DEF IInv, Shape, LogShape
  <1>2. Grows(View(n), View(m)) /\ Grows(View(m), Catalog) /\ Once(View(m))
    BY <1>1, Views DEF IInv, Shape, Versions, View
  <1>3. /\ r \in DOMAIN View(n).bind /\ contains(View(n).bind[r], k)
        /\ s \in DOMAIN View(m).bind /\ ~View(m).bind[s].sealed /\ contains(View(m).bind[s], k)
    BY DEF Routes, IsBound
  <1>4. r \in DOMAIN View(m).bind /\ contains(View(m).bind[r], k)
    BY <1>2, <1>3 DEF Grows, SameBounds, contains
  <1>5. ~View(m).bind[r].sealed
    BY <1>2, <1>4 DEF Grows, is_fresh, IInv, SealsTrue
  <1> QED BY <1>2, <1>3, <1>4, <1>5 DEF Once

(* KeyServedOnce: whatever catalog copies the nodes hold, however far they *)
(* lag and whatever is aborted, retried or lost, no key is served by two   *)
(* groups: routing by a stale directory meets the seal in the parent group.*)
THEOREM KeyServedOnce == Spec => []KeyOwnedOnce
  <1>1. IInv => KeyOwnedOnce
    <2> SUFFICES ASSUME IInv, NEW k \in Keys, NEW r \in Regions, NEW s \in Regions, r # s,
                        is_fresh(r, k), is_fresh(s, k), NEW n \in Nodes, NEW m \in Nodes,
                        Routes(n, k, r), Routes(m, k, s)
                 PROVE  FALSE
      BY DEF KeyOwnedOnce
    <2>1. seen[n] \in Nat /\ seen[m] \in Nat
      BY DEF IInv, Shape, LogShape
    <2>2. seen[n] <= seen[m] \/ seen[m] <= seen[n]
      BY SMTT(30), <2>1
    <2> QED BY <2>2, Supersedes
  <1> QED BY <1>1, RangeInvariant, PTL

(* AbortedStaysUnserved: an operation whose abort is effective never has a *)
(* published child, in whatever order its abort, its seal evidence and its *)
(* publication reach the catalog.                                          *)
THEOREM AbortedStaysUnserved == Spec => []AbortedNeverServes
  <1>1. IInv => AbortedNeverServes
    <2> SUFFICES ASSUME IInv, NEW i \in Catalog.intents, i.op \in effective_aborts(Catalog),
                        NEW x \in Elems(i.children), IsBound(Catalog, x)
                 PROVE  FALSE
      BY DEF AbortedNeverServes
    <2>1. i.op \in Ops /\ i.children = Children(i.op)
      BY Views, IntentFacts DEF IInv, Shape
    <2> QED BY <2>1 DEF IInv, Named, Served
  <1> QED BY <1>1, RangeInvariant, PTL

(* The operation identities of the intents are distinct: the part of       *)
(* IntentsReadBack (committed_splits, committed_merges) that concerns them.*)
IdentitiesDistinct == \A i, j \in Catalog.intents : i.op = j.op => i = j

(* CopiesExact: while no two intents share an operation identity, recorded *)
(* population evidence stays true until publication: the child holds what  *)
(* its sealed parents hold, though a late page of an earlier copy, of any  *)
(* node, may still arrive.                                                 *)
THEOREM CopiesExact == Spec => [](IdentitiesDistinct => EvidenceExact)
  <1>1. IInv /\ IdentitiesDistinct => EvidenceExact
    <2> SUFFICES ASSUME IInv, IdentitiesDistinct, NEW i \in Catalog.intents,
                        NEW x \in Elems(i.children), <<i.op, x>> \in Catalog.evidence,
                        ~IsBound(Catalog, x)
                 PROVE  RowsMatch(i, x) /\ \A p \in Elems(i.parents) : desc[p].sealed
      BY DEF EvidenceExact
    <2>1. <<i.op, x>>[1] = i.op /\ <<i.op, x>>[2] = x
      OBVIOUS
    <2>2. PICK j \in Catalog.intents : j.op = i.op /\ Exact(j, x)
      BY <2>1 DEF IInv, EvidenceSound
    <2>3. j = i /\ Sole(i)
      BY <2>2 DEF IdentitiesDistinct, Sole
    <2>4. /\ \A p \in Elems(i.parents) : desc[p].sealed
          /\ \A range \in {ChildRange(Catalog, i, x)} : Matched(i, x, range)
      BY <2>2, <2>3 DEF Exact, Copied
    <2> QED BY <2>4 DEF RowsMatch, Matched
  <1> QED BY <1>1, RangeInvariant, PTL
=============================================================================
