---------------------------- MODULE RangeReshape ----------------------------
(***************************************************************************)
(* Range split and range merge: one pipeline, intent -> seal -> population *)
(* -> publication, driven by every node from its own applied copy of the   *)
(* metadata catalog (meta/src/data_groups/{split,merge,range_abort,        *)
(* split_evidence,ranges}.rs, server/src/runtime/{range_split,range_merge, *)
(* range_api}.rs, raft/src/state_machine/data_range.rs).                   *)
(*                                                                         *)
(* The catalog is the sequence `log` of its committed states; node n has   *)
(* applied the first seen[n] of them.  A data group is its committed       *)
(* descriptor and rows plus the node that can commit to it.  Keys are      *)
(* integers, a range is [lo, hi), a missing row is 0.  Store membership    *)
(* does not change here (a live intent and a replica plan exclude each     *)
(* other), so it is the constant Nodes.                                    *)
(***************************************************************************)
EXTENDS Integers, Sequences, FiniteSets

CONSTANTS
    Nodes,         \* the stores holding the parents, hence the children
    SplitOps,      \* operation ids an operator or the size trigger may use
    MergeOps,
    Cuts,          \* keys at which the keyspace is already split initially
    MaxKey,        \* the keys are 1..MaxKey
    PageSize,      \* rows copied per step (PAGE)
    Shown,         \* the key a cursor holds after `printable` (UTF-8 lossy)
    Stored,        \* keys that have a row initially
    Laggards,      \* nodes whose metadata replica may fall behind
    Abortable,     \* whether an operator may abort an intent
    MaxIntents,    \* bound on committed intents
    MaxWrites,     \* bound on client writes
    MaxElections,  \* bound on leadership changes of data groups
    MaxCrashes     \* bound on node restarts

None == 0
Keys == 1..MaxKey
Ops == SplitOps \cup MergeOps
Initial == 1..(Cardinality(Cuts) + 1)
Regions == 1..(Cardinality(Cuts) + 1 + 2 * Cardinality(Ops))

ASSUME ConstantsAssumption ==
    /\ MaxKey \in Nat \ {0} /\ PageSize \in Nat \ {0}
    /\ IsFiniteSet(Ops) /\ Ops = 1..Cardinality(Ops) /\ SplitOps \cap MergeOps = {}
    /\ Cuts \subseteq 2..MaxKey
    /\ Shown \in [Keys -> 0..(MaxKey + 1)]
    /\ Stored \subseteq Keys /\ Laggards \subseteq Nodes /\ Abortable \in BOOLEAN
    /\ MaxWrites \in Nat \ {0} /\ MaxIntents \in Nat /\ MaxElections \in Nat /\ MaxCrashes \in Nat

VARIABLES
    log,        \* committed catalog states, oldest first
    seen,       \* per node: how many of them its metadata replica applied
    desc,       \* per region: the DataRange its log installed, or NoRange
    data,       \* per region: key -> value (0: no row)
    leader,     \* per region: the node that can commit to it, or None
    sealedAt,   \* <<n, r>>: replica n has applied region r's seal
    retired,    \* <<n, r>>: n durably retired its replica of r
    worker,     \* per node and driver: the one step in flight
    cursor,     \* per node and child: in-memory copy position
    done,       \* <<n, child>>: n's evidence for child was acknowledged
    acked,      \* per key: the last value acknowledged to a client
    writes, elections, crashes

vars == <<log, seen, desc, data, leader, sealedAt, retired, worker, cursor,
          done, acked, writes, elections, crashes>>
groupVars == <<desc, data, leader, sealedAt, retired>>
driverVars == <<worker, cursor, done>>
bounds == <<writes, elections, crashes>>

Catalog == log[Len(log)]
View(n) == log[seen[n]]

----------------------------------------------------------------------------
(* Ranges and descriptors (common/src/data_range.rs).                      *)

Span(lo, hi) == [lo |-> lo, hi |-> hi, sealed |-> FALSE]
NoRange == [lo |-> 0, hi |-> 0, sealed |-> FALSE]
Seal(r) == [r EXCEPT !.sealed = TRUE]
SameBounds(r, s) == r.lo = s.lo /\ r.hi = s.hi

contains(r, k) == r.lo <= k /\ k < r.hi

(* The descriptor after a DataRange command: an initial one, or the seal of*)
(* the current one (may_follow); anything else leaves the state alone.     *)
apply_data_range(current, next) ==
    IF current = NoRange \/ (~current.sealed /\ next = Seal(current))
    THEN next ELSE current

(* Start of the n-th initial range: the keyspace as an earlier, published  *)
(* sequence of splits left it.                                             *)
Bound(j) == IF j = 0 THEN 1
            ELSE IF j > Cardinality(Cuts) THEN MaxKey + 1
            ELSE CHOOSE k \in Cuts : Cardinality({c \in Cuts : c <= k}) = j

----------------------------------------------------------------------------
(* Catalog rows.  An intent names its parents and children in key order.   *)

(* child_operations: the children are derived from the operation.          *)
Children(op) ==
    LET first == Cardinality(Initial) + 2 * op - 1
    IN IF op \in SplitOps THEN <<first, first + 1>> ELSE <<first>>

Elems(s) == {s[j] : j \in DOMAIN s}

half_descriptor(parent, low, key) ==
    IF low THEN Span(parent.lo, key) ELSE Span(key, parent.hi)

child_descriptor(low, high) == Span(low.lo, high.hi)

(* The range a child of the intent carries.                                *)
ChildRange(c, i, x) ==
    LET parent == c.bind[i.parents[1]]
    IN IF i.op \in SplitOps THEN half_descriptor(parent, x = i.children[1], i.key)
       ELSE child_descriptor(parent, c.bind[i.parents[2]])

effective_aborts(c) == {op \in c.aborts : \A s \in c.seals : s[1] # op}

IsBound(c, r) == r \in DOMAIN c.bind
SealedIn(c, r) == IsBound(c, r) /\ c.bind[r].sealed

(* The published shape: every parent sealed, every child bound to its half.*)
PublishedShape(c, i) ==
    /\ \A p \in Elems(i.parents) : c.bind[p].sealed
    /\ \A x \in Elems(i.children) :
          IsBound(c, x) /\ SameBounds(c.bind[x], ChildRange(c, i, x))

(* validate_against, for a split and for a merge: the parents are bound    *)
(* and either nothing is published or everything is.                       *)
SplitValid(c, i) ==
    LET p == i.parents[1]
    IN /\ IsBound(c, p)
       /\ IF c.bind[p].sealed THEN PublishedShape(c, i)
          ELSE /\ c.bind[p].lo < i.key /\ i.key < c.bind[p].hi
               /\ \A x \in Elems(i.children) : ~IsBound(c, x)

MergeValid(c, i) ==
    LET low == i.parents[1]
        high == i.parents[2]
    IN /\ IsBound(c, low) /\ IsBound(c, high)
       /\ c.bind[low].hi = c.bind[high].lo
       /\ IF c.bind[low].sealed \/ c.bind[high].sealed THEN PublishedShape(c, i)
          ELSE ~IsBound(c, i.children[1])

(* committed_splits / committed_merges succeed: every intent that is not   *)
(* history validates and no identity is duplicated.                        *)
SplitsReadBack(c) ==
    LET live == {i \in c.intents : i.op \in SplitOps /\ i.op \notin effective_aborts(c)}
    IN /\ \A i \in live : SplitValid(c, i)
       /\ \A i, j \in {i \in c.intents : i.op \in SplitOps} :
             i # j => /\ i.op # j.op
                      /\ ~(i \in live /\ j \in live /\ i.parents = j.parents)

MergesReadBack(c) ==
    LET all == {i \in c.intents : i.op \in MergeOps}
    IN /\ \A i \in all : i.op \notin effective_aborts(c) => MergeValid(c, i)
       /\ \A i, j \in all : i # j => i.op # j.op

ReadsBack(c, op) == IF op \in SplitOps THEN SplitsReadBack(c) ELSE MergesReadBack(c)

(* ranges::read_in: the unsealed bindings cover every key exactly once.    *)
Partition(c) ==
    \A k \in Keys : Cardinality({r \in DOMAIN c.bind :
                        ~c.bind[r].sealed /\ contains(c.bind[r], k)}) = 1

(* A catalog transaction: prepare_catalog runs it on the newest committed  *)
(* catalog, commit_catalog appends it under the same term.  A node outside *)
(* Laggards applies it at once.                                            *)
Commit(c) ==
    /\ log' = Append(log, c)
    /\ seen' = [n \in Nodes |-> IF n \in Laggards THEN seen[n] ELSE Len(log) + 1]

Idle == [step |-> "idle", task |-> 0, region |-> 0]

Init ==
    /\ log = <<[bind |-> [r \in Initial |-> Span(Bound(r - 1), Bound(r))],
                intents |-> {}, aborts |-> {}, seals |-> {}, evidence |-> {}]>>
    /\ seen = [n \in Nodes |-> 1]
    /\ desc = [r \in Regions |-> IF r \in Initial
                                  THEN Span(Bound(r - 1), Bound(r)) ELSE NoRange]
    /\ acked = [k \in Keys |-> IF k \in Stored THEN 1 ELSE 0]
    /\ data = [r \in Regions |-> [k \in Keys |->
                  IF r \in Initial /\ contains(desc[r], k) THEN acked[k] ELSE 0]]
    /\ leader \in {l \in [Regions -> Nodes \cup {None}] :
                      \A r \in Regions : l[r] = None <=> r \notin Initial}
    /\ sealedAt = {} /\ retired = {} /\ done = {}
    /\ worker = [n \in Nodes |-> [d \in {"split", "merge"} |-> Idle]]
    /\ cursor = [n \in Nodes |-> [r \in Regions |-> <<1, 0>>]]
    /\ writes = 1 /\ elections = 0 /\ crashes = 0

----------------------------------------------------------------------------
(* The operator's verbs, committed at the metadata leader.                 *)

NextTask == Cardinality(Catalog.intents) + 1

(* plan_split: an aborted intent is history, a live or published one for   *)
(* the parent refuses, and the parent must be unsealed.                    *)
SplitAdmitted(op, p, key) ==
    /\ IsBound(Catalog, p) /\ ~Catalog.bind[p].sealed
    /\ \A i \in Catalog.intents :
          i.op \in SplitOps /\ i.op \notin effective_aborts(Catalog) =>
              i.op # op /\ i.parents # <<p>>
    /\ Catalog.bind[p].lo < key /\ key < Catalog.bind[p].hi
    /\ \A x \in Elems(Children(op)) : ~IsBound(Catalog, x)

SplitRange(op, p, key) ==
    /\ NextTask <= MaxIntents /\ SplitAdmitted(op, p, key)
    /\ Commit([Catalog EXCEPT !.intents = @ \cup
          {[task |-> NextTask, op |-> op, parents |-> <<p>>,
            children |-> Children(op), key |-> key]}])
    /\ UNCHANGED acked /\ UNCHANGED groupVars
    /\ UNCHANGED driverVars /\ UNCHANGED bounds

(* plan_merge: adjacent unsealed parents without a live split or merge.    *)
MergeAdmitted(op, low, high) ==
    /\ IsBound(Catalog, low) /\ IsBound(Catalog, high)
    /\ ~Catalog.bind[low].sealed /\ ~Catalog.bind[high].sealed
    /\ Catalog.bind[low].hi = Catalog.bind[high].lo
    /\ \A i \in Catalog.intents : i.op \notin effective_aborts(Catalog) =>
          /\ i.op # op
          /\ (\E p \in Elems(i.parents) : p \in {low, high}) =>
                SealedIn(Catalog, i.parents[1])
    /\ \A x \in Elems(Children(op)) : ~IsBound(Catalog, x)

MergeRanges(op, low, high) ==
    /\ NextTask <= MaxIntents /\ MergeAdmitted(op, low, high)
    /\ Commit([Catalog EXCEPT !.intents = @ \cup
          {[task |-> NextTask, op |-> op, parents |-> <<low, high>>,
            children |-> Children(op), key |-> 0]}])
    /\ UNCHANGED acked /\ UNCHANGED groupVars
    /\ UNCHANGED driverVars /\ UNCHANGED bounds

\* Mutant: the abort of a published operation is not refused.
AbortAdmitted_published(i) ==
    /\ \A s \in Catalog.seals : s[1] # i.op
    /\ i.op \notin Catalog.aborts

(* plan_range_abort: refused once published or once any seal is evidenced. *)
AbortAdmitted(i) ==
    /\ \A p \in Elems(i.parents) : ~SealedIn(Catalog, p)
    /\ \A s \in Catalog.seals : s[1] # i.op
    /\ i.op \notin Catalog.aborts

Abort(i) ==
    /\ Abortable /\ i \in Catalog.intents /\ AbortAdmitted(i)
    /\ Commit([Catalog EXCEPT !.aborts = @ \cup {i.op}])
    /\ UNCHANGED acked /\ UNCHANGED groupVars
    /\ UNCHANGED driverVars /\ UNCHANGED bounds

----------------------------------------------------------------------------
(* Raft groups and nodes, as far as the drivers can tell.                  *)

Hosts(n, r) == <<n, r>> \notin retired
HasQuorum(r) == 2 * Cardinality({n \in Nodes : Hosts(n, r)}) > Cardinality(Nodes)
Leads(n, r) == leader[r] = n /\ HasQuorum(r)

Created(c, r) == r \in Initial \/ \E i \in c.intents : r \in Elems(i.children)

(* A replica of r on n wins an election; only one that deposes a running   *)
(* leader counts against the bound.                                        *)
Elect(n, r) ==
    /\ leader[r] # n /\ Hosts(n, r) /\ HasQuorum(r) /\ Created(View(n), r)
    /\ leader[r] = None \/ elections < MaxElections
    /\ elections' = IF leader[r] = None THEN elections ELSE elections + 1
    /\ leader' = [leader EXCEPT ![r] = n]
    /\ UNCHANGED <<log, seen, desc, data, sealedAt, retired, acked, writes, crashes>>
    /\ UNCHANGED driverVars

\* Mutant: a replica reads past what was committed.
CatchUp_unbounded(n) ==
    /\ seen' = [seen EXCEPT ![n] = @ + 1]
    /\ UNCHANGED <<log, acked>> /\ UNCHANGED groupVars
    /\ UNCHANGED driverVars /\ UNCHANGED bounds

(* n's metadata replica applies its next catalog state.                    *)
CatchUp(n) ==
    /\ seen[n] < Len(log)
    /\ seen' = [seen EXCEPT ![n] = @ + 1]
    /\ UNCHANGED <<log, acked>> /\ UNCHANGED groupVars
    /\ UNCHANGED driverVars /\ UNCHANGED bounds

(* A follower of a sealed parent applies the seal.                         *)
ApplySeal(n, r) ==
    /\ desc[r].sealed /\ <<n, r>> \notin sealedAt /\ Hosts(n, r)
    /\ sealedAt' = sealedAt \cup {<<n, r>>}
    /\ UNCHANGED <<log, seen, desc, data, leader, retired, acked>>
    /\ UNCHANGED driverVars /\ UNCHANGED bounds

(* A restart loses the step in flight and the copy cursors; the groups n   *)
(* led need an election.                                                   *)
Crash(n) ==
    /\ crashes < MaxCrashes /\ crashes' = crashes + 1
    /\ worker' = [worker EXCEPT ![n] = [d \in {"split", "merge"} |-> Idle]]
    /\ cursor' = [cursor EXCEPT ![n] = [r \in Regions |-> <<1, 0>>]]
    /\ done' = {e \in done : e[1] # n}
    /\ leader' = [r \in Regions |-> IF leader[r] = n THEN None ELSE leader[r]]
    /\ UNCHANGED <<log, seen, desc, data, sealedAt, retired, acked, writes, elections>>

----------------------------------------------------------------------------
(* The drivers: plan_split_steps and plan_merge_steps read the node's own  *)
(* catalog copy and its local groups; one step per driver is in flight.    *)

Driver(i) == IF i.op \in SplitOps THEN "split" ELSE "merge"
Intent(t) == CHOOSE i \in Catalog.intents : i.task = t
IsIdle(n, i) == worker[n][Driver(i)] = Idle
Start(n, i, w) == worker' = [worker EXCEPT ![n][Driver(i)] = w]
Finish(n, d) == worker' = [worker EXCEPT ![n][d] = Idle]

(* The intents a driver works on: readback succeeds, not aborted, not yet  *)
(* published.                                                              *)
Workable(n, i) ==
    /\ i \in View(n).intents /\ ReadsBack(View(n), i.op)
    /\ i.op \notin effective_aborts(View(n))
    /\ \E p \in Elems(i.parents) : ~View(n).bind[p].sealed

(* (1) A child's leader installs the child's half descriptor through the   *)
(* child's log; apply_data_range accepts it only as the initial one.       *)
InstallDescriptor(n, i, x) ==
    /\ x \in Elems(i.children) /\ desc[x] = NoRange /\ Hosts(n, x) /\ Leads(n, x)
    /\ IsIdle(n, i) /\ Workable(n, i)
    /\ desc' = [desc EXCEPT ![x] = apply_data_range(@, ChildRange(View(n), i, x))]
    /\ UNCHANGED <<log, seen, data, leader, sealedAt, retired, acked>>
    /\ UNCHANGED driverVars /\ UNCHANGED bounds

(* Every child has a leader and an applied descriptor on this node.        *)
children_serve(n, i) ==
    \A x \in Elems(i.children) :
        Hosts(n, x) /\ leader[x] # None /\ desc[x] # NoRange

(* (2) The parent's leader plans the seal; seal_parent re-checks the abort *)
(* in its own catalog copy and proposes the descriptor CAS.                *)
StartSeal(n, i, p) ==
    /\ p \in Elems(i.parents) /\ ~desc[p].sealed /\ Hosts(n, p) /\ Leads(n, p)
    /\ children_serve(n, i)
    /\ IsIdle(n, i) /\ Workable(n, i)
    /\ Start(n, i, [step |-> "seal", task |-> i.task, region |-> p])
    /\ UNCHANGED <<log, seen, cursor, done, acked>>
    /\ UNCHANGED groupVars /\ UNCHANGED bounds

(* The sealed descriptor applies (apply_data_range: the CAS, or a repeat   *)
(* of the state already there).  An unconfirmed wait ends the step with    *)
(* the seal applied and no evidence.                                       *)
SealApplies(n, d) ==
    /\ worker[n][d].step = "seal"
    /\ LET p == worker[n][d].region
       IN /\ Leads(n, p)
          /\ desc' = [desc EXCEPT ![p] = apply_data_range(@, Seal(@))]
          /\ sealedAt' = sealedAt \cup {<<n, p>>}
    /\ \/ worker' = [worker EXCEPT ![n][d].step = "evidence"]
       \/ Finish(n, d)
    /\ UNCHANGED <<log, seen, data, leader, retired, cursor, done, acked>>
    /\ UNCHANGED bounds

(* plan_seal_evidence, reached by seal_parent's delivery.                  *)
SealRow(i, p) == [Catalog EXCEPT !.seals = @ \cup {<<i.op, p>>}]

DeliverSeal(n, d) ==
    /\ worker[n][d].step = "evidence"
    /\ LET i == Intent(worker[n][d].task)
           p == worker[n][d].region
       IN IF <<i.op, p>> \in Catalog.seals THEN UNCHANGED <<log, seen>>
          ELSE Commit(SealRow(i, p))
    /\ Finish(n, d)
    /\ UNCHANGED <<cursor, done, acked>>
    /\ UNCHANGED groupVars /\ UNCHANGED bounds

\* Mutant: evidence already committed is owed again.
OwesSealEvidence_again(n, i, p) ==
    Leads(n, p) /\ desc[p].sealed

(* Step::SealEvidence: a sealed parent this node leads whose evidence is   *)
(* missing from its catalog copy gets it before anything else is planned.  *)
OwesSealEvidence(n, i, p) ==
    Leads(n, p) /\ desc[p].sealed /\ <<i.op, p>> \notin View(n).seals

RecoverSeal(n, i, p) ==
    /\ p \in Elems(i.parents) /\ Hosts(n, p) /\ OwesSealEvidence(n, i, p)
    /\ IsIdle(n, i) /\ Workable(n, i)
    /\ Start(n, i, [step |-> "evidence", task |-> i.task, region |-> p])
    /\ UNCHANGED <<log, seen, cursor, done, acked>>
    /\ UNCHANGED groupVars /\ UNCHANGED bounds

----------------------------------------------------------------------------
(* (3) Population: pages of the local sealed parents through the child's   *)
(* own log, then a row-for-row comparison, then evidence.                  *)

(* Rows of parent j this child still has to copy from the cursor on.       *)
Remaining(i, x, at, j) ==
    {k \in Keys : /\ contains(ChildRange(Catalog, i, x), k)
                  /\ contains(desc[i.parents[j]], k)
                  /\ data[i.parents[j]][k] # 0
                  /\ j > at[1] \/ (j = at[1] /\ k > at[2])}

Exhausted(i, x, at) == \A j \in DOMAIN i.parents : Remaining(i, x, at, j) = {}

(* scan_page: the first PageSize remaining rows of the first parent that   *)
(* has any.                                                                *)
PageOf(S) == {k \in S : Cardinality({m \in S : m <= k}) <= PageSize}

\* Mutant: population does not wait for the local seal.
CanCopy_unsealed(n, i, x) ==
    /\ \A p \in Elems(i.parents) : Hosts(n, p)
    /\ <<i.op, x>> \notin View(n).evidence
    /\ \A p \in Elems(i.parents) : ~OwesSealEvidence(n, i, p)
    /\ Hosts(n, x) /\ Leads(n, x) /\ <<n, x>> \notin done
    /\ desc[x] = ChildRange(View(n), i, x)

\* Mutant: one sealed parent is enough.
CanCopy_anySeal(n, i, x) ==
    /\ \E p \in Elems(i.parents) : <<n, p>> \in sealedAt /\ Hosts(n, p)
    /\ <<i.op, x>> \notin View(n).evidence
    /\ \A p \in Elems(i.parents) : ~OwesSealEvidence(n, i, p)
    /\ Hosts(n, x) /\ Leads(n, x) /\ <<n, x>> \notin done
    /\ desc[x] = ChildRange(View(n), i, x)

CanCopy(n, i, x) ==
    /\ \A p \in Elems(i.parents) : <<n, p>> \in sealedAt /\ Hosts(n, p)
    /\ <<i.op, x>> \notin View(n).evidence
    /\ \A p \in Elems(i.parents) : ~OwesSealEvidence(n, i, p)
    /\ Hosts(n, x) /\ Leads(n, x) /\ <<n, x>> \notin done
    /\ desc[x] = ChildRange(View(n), i, x)

StartCopy(n, i, x) ==
    /\ x \in Elems(i.children) /\ IsIdle(n, i) /\ CanCopy(n, i, x)
    /\ Workable(n, i)
    /\ Start(n, i, [step |-> "copy", task |-> i.task, region |-> x])
    /\ UNCHANGED <<log, seen, cursor, done, acked>>
    /\ UNCHANGED groupVars /\ UNCHANGED bounds

(* RawGroup::raw_batch_put: the permit reads the child's own descriptor,   *)
(* the proposal needs leadership.                                          *)
Accepts(n, x, S) ==
    Leads(n, x) /\ ~desc[x].sealed /\ \A k \in S : contains(desc[x], k)

(* The cursor is the last key as `printable` shows it.                     *)
AdvanceCursor(at, j, S) ==
    <<j, Shown[CHOOSE k \in S : \A m \in S : m <= k]>>

(* One page through the child's log.  Unconfirmed, it may have applied     *)
(* without the cursor moving.                                              *)
CopyPage(n, d, confirmed) ==
    /\ worker[n][d].step = "copy"
    /\ LET i == Intent(worker[n][d].task)
           x == worker[n][d].region
           at == cursor[n][x]
       IN \E j \in DOMAIN i.parents :
            LET S == PageOf(Remaining(i, x, at, j))
            IN /\ S # {} /\ \A h \in 1..(j - 1) : Remaining(i, x, at, h) = {}
               /\ Accepts(n, x, S)
               /\ data' = [data EXCEPT ![x] = [k \in Keys |->
                             IF k \in S THEN data[i.parents[j]][k] ELSE @[k]]]
               /\ cursor' = IF confirmed
                             THEN [cursor EXCEPT ![n][x] = AdvanceCursor(at, j, S)]
                             ELSE cursor
    /\ Finish(n, d)
    /\ UNCHANGED <<log, seen, desc, leader, sealedAt, retired, done, acked>>
    /\ UNCHANGED bounds

(* What a digest covers: the rows group r holds in a range.                *)
Rows(r, range) == {<<k, data[r][k]>> : k \in {k \in Keys :
                      contains(range, k) /\ contains(desc[r], k) /\ data[r][k] # 0}}

(* The child's digest equals that of its parents, chained.                 *)
RowsMatch(i, x) ==
    LET range == ChildRange(Catalog, i, x)
    IN Rows(x, range) = UNION {Rows(p, range) : p \in Elems(i.parents)}

Verify(n, d) ==
    /\ worker[n][d].step = "copy"
    /\ LET i == Intent(worker[n][d].task)
           x == worker[n][d].region
       IN /\ Exhausted(i, x, cursor[n][x]) /\ Accepts(n, x, {})
          /\ IF RowsMatch(i, x)
             THEN worker' = [worker EXCEPT ![n][d].step = "receipt"]
             ELSE Finish(n, d)
    /\ UNCHANGED <<log, seen, cursor, done, acked>>
    /\ UNCHANGED groupVars /\ UNCHANGED bounds

(* plan_split_evidence, plan_merge_evidence at the metadata leader; the    *)
(* answer may be lost after the row committed.                             *)
EvidenceAdmitted(i) ==
    ReadsBack(Catalog, i.op) /\ i.op \notin effective_aborts(Catalog)

Deliver(n, d) ==
    /\ worker[n][d].step = "receipt" /\ Finish(n, d)
    /\ LET i == Intent(worker[n][d].task)
           x == worker[n][d].region
       IN /\ EvidenceAdmitted(i)
          /\ IF <<i.op, x>> \in Catalog.evidence THEN UNCHANGED <<log, seen>>
             ELSE Commit([Catalog EXCEPT !.evidence = @ \cup {<<i.op, x>>}])
          /\ done' \in {done, done \cup {<<n, x>>}}
    /\ UNCHANGED <<cursor, acked>>
    /\ UNCHANGED groupVars /\ UNCHANGED bounds

(* Any step may fail: leadership moved, a deadline passed, no metadata     *)
(* candidate answered, a planner refused.  The next pass plans afresh.     *)
StepFails(n, d) ==
    /\ worker[n][d] # Idle /\ Finish(n, d)
    /\ UNCHANGED <<log, seen, cursor, done, acked>>
    /\ UNCHANGED groupVars /\ UNCHANGED bounds

----------------------------------------------------------------------------
(* (0) Publication and what follows it.                                    *)

(* plan_split_publication, plan_merge_publication.                         *)
PublicationAdmitted(i) ==
    /\ ReadsBack(Catalog, i.op) /\ i.op \notin effective_aborts(Catalog)
    /\ \E p \in Elems(i.parents) : ~Catalog.bind[p].sealed
    /\ \A x \in Elems(i.children) : <<i.op, x>> \in Catalog.evidence

PublishedBindings(i) ==
    [r \in DOMAIN Catalog.bind \cup Elems(i.children) |->
        IF r \in Elems(i.parents) THEN Seal(Catalog.bind[r])
        ELSE IF r \in Elems(i.children) THEN ChildRange(Catalog, i, r)
        ELSE Catalog.bind[r]]

Publish(n, i) ==
    /\ \A x \in Elems(i.children) : <<i.op, x>> \in View(n).evidence
    /\ IsIdle(n, i) /\ Workable(n, i)
    /\ PublicationAdmitted(i)
    /\ LET c == [Catalog EXCEPT !.bind = PublishedBindings(i)]
       IN /\ Partition(c) /\ Commit(c)
          /\ IF i.op \in SplitOps THEN SplitValid(c, i) ELSE MergeValid(c, i)
    /\ UNCHANGED acked /\ UNCHANGED groupVars
    /\ UNCHANGED driverVars /\ UNCHANGED bounds

(* reconcile_retirement: a replica of a sealed binding, or of a child of   *)
(* an effectively aborted intent, retires itself for good.                 *)
Abandoned(c, r) ==
    /\ SplitsReadBack(c) /\ MergesReadBack(c)
    /\ \E i \in c.intents : i.op \in effective_aborts(c) /\ r \in Elems(i.children)

Retire(n, r) ==
    /\ Hosts(n, r) /\ Created(View(n), r)
    /\ SealedIn(View(n), r) \/ Abandoned(View(n), r)
    /\ retired' = retired \cup {<<n, r>>}
    /\ leader' = IF leader[r] = n THEN [leader EXCEPT ![r] = None] ELSE leader
    /\ UNCHANGED <<log, seen, desc, data, sealedAt, acked>>
    /\ UNCHANGED driverVars /\ UNCHANGED bounds

(* RawDirectory::get_for on node n: the one unsealed binding n's catalog   *)
(* copy has for the key, once its descriptor is applied here.              *)
Routes(n, k, r) ==
    /\ Hosts(n, r) /\ IsBound(View(n), r)
    /\ ~View(n).bind[r].sealed /\ contains(View(n).bind[r], k)
    /\ desc[r] # NoRange

(* RawGroup::authorize and the apply-time RangeFence, which decide on the  *)
(* group's own descriptor.                                                 *)
is_fresh(r, k) == ~desc[r].sealed /\ contains(desc[r], k)

ClientPut(n, k, r) ==
    /\ writes < MaxWrites /\ Routes(n, k, r) /\ Leads(n, r) /\ is_fresh(r, k)
    /\ writes' = writes + 1
    /\ data' = [data EXCEPT ![r][k] = writes + 1]
    /\ acked' = [acked EXCEPT ![k] = writes + 1]
    /\ UNCHANGED <<log, seen, desc, leader, sealedAt, retired, elections, crashes>>
    /\ UNCHANGED driverVars

----------------------------------------------------------------------------
Next ==
    \/ \E op \in SplitOps, p \in Regions, key \in Keys : SplitRange(op, p, key)
    \/ \E op \in MergeOps, low, high \in Regions : MergeRanges(op, low, high)
    \/ \E i \in Catalog.intents : Abort(i)
    \/ \E n \in Nodes :
          \/ CatchUp(n) \/ Crash(n)
          \/ \E r \in Regions : Elect(n, r) \/ ApplySeal(n, r) \/ Retire(n, r)
          \/ \E i \in View(n).intents :
                \/ Publish(n, i)
                \/ \E r \in Regions : \/ InstallDescriptor(n, i, r)
                                      \/ StartSeal(n, i, r) \/ RecoverSeal(n, i, r)
                                      \/ StartCopy(n, i, r)
          \/ \E d \in {"split", "merge"} :
                \/ SealApplies(n, d) \/ DeliverSeal(n, d)
                \/ \E confirmed \in BOOLEAN : CopyPage(n, d, confirmed)
                \/ Verify(n, d) \/ Deliver(n, d) \/ StepFails(n, d)
          \/ \E k \in Keys, r \in Regions : ClientPut(n, k, r)

Spec == Init /\ [][Next]_vars

(* A step in flight that gets what it waited for.                          *)
Succeeds(n) == \E d \in {"split", "merge"} :
    SealApplies(n, d) \/ DeliverSeal(n, d) \/ CopyPage(n, d, TRUE)
    \/ Verify(n, d) \/ Deliver(n, d)

(* Every node's control loop runs forever and its metadata replica catches *)
(* up; a leaderless group elects; steps retried forever succeed now and    *)
(* then, though failures may delay each any number of times.               *)
Fairness ==
    \A n \in Nodes :
        /\ WF_vars(CatchUp(n)) /\ WF_vars(\E r \in Regions : ApplySeal(n, r))
        /\ WF_vars(\E r \in Regions : leader[r] = None /\ Elect(n, r))
        /\ WF_vars(\E i \in View(n).intents : Publish(n, i) \/ \E r \in Regions :
                       InstallDescriptor(n, i, r) \/ RecoverSeal(n, i, r))
        /\ SF_vars(\E i \in View(n).intents, r \in Regions :
                       StartSeal(n, i, r) \/ StartCopy(n, i, r))
        /\ SF_vars(Succeeds(n)) /\ SF_vars(\E d \in {"split", "merge"} : Deliver(n, d))

LiveSpec == Spec /\ Fairness

----------------------------------------------------------------------------
(* TypeOK: every variable keeps its shape; in particular a node never      *)
(* applied more of the catalog than was committed.                         *)
TypeOK ==
    /\ \A n \in Nodes : seen[n] \in 1..Len(log)
    /\ DOMAIN Catalog.bind \subseteq Regions
    /\ leader \in [Regions -> Nodes \cup {None}]
    /\ sealedAt \subseteq Nodes \X Regions /\ retired \subseteq Nodes \X Regions
    /\ done \subseteq Nodes \X Regions
    /\ \A r \in Regions : data[r] \in [Keys -> 0..MaxWrites]
    /\ writes \in 0..MaxWrites /\ elections \in 0..MaxElections
    /\ crashes \in 0..MaxCrashes

(* KeyOwnedOnce: whatever catalog copies the nodes hold, no key is served  *)
(* by two groups.  A parent some node still routes to and a child another  *)
(* node already routes to never both accept it: the seal in the parent's   *)
(* log precedes the publication that makes the child reachable.            *)
KeyOwnedOnce ==
    \A k \in Keys : \A r, s \in Regions :
        r # s /\ is_fresh(r, k) /\ is_fresh(s, k) =>
            ~ \E n, m \in Nodes : Routes(n, k, r) /\ Routes(m, k, s)

(* ReadsCurrent: a key served through any node's directory holds the last  *)
(* value acknowledged for it: sealing, copying and publishing lose no      *)
(* acknowledged write and bring none back.                                 *)
ReadsCurrent ==
    \A n \in Nodes, k \in Keys, r \in Regions :
        Routes(n, k, r) /\ Leads(n, r) /\ is_fresh(r, k) => data[r][k] = acked[k]

(* EvidenceExact (docs/RANGE-SPLIT.md S5): from the moment a child's       *)
(* evidence is committed until it is published, every parent is sealed and *)
(* the child's rows equal the parents' rows on its range.                  *)
EvidenceExact ==
    \A i \in Catalog.intents : \A x \in Elems(i.children) :
        <<i.op, x>> \in Catalog.evidence /\ ~IsBound(Catalog, x) =>
            RowsMatch(i, x) /\ \A p \in Elems(i.parents) : desc[p].sealed

(* IntentsReadBack: every committed catalog reads back, so no intent ever  *)
(* freezes the drivers of the others.                                      *)
IntentsReadBack == SplitsReadBack(Catalog) /\ MergesReadBack(Catalog)

(* AbortedNeverServes: an operation whose abort is effective never has a   *)
(* published child, whichever of abort, seal evidence and publication      *)
(* reaches the catalog first.                                              *)
AbortedNeverServes ==
    \A i \in Catalog.intents : i.op \in effective_aborts(Catalog) =>
        \A x \in Elems(i.children) : ~IsBound(Catalog, x)

(* AbortLeavesParentServing: once every node has applied an abort that is  *)
(* effective and no step is in flight, the operation's parents still serve *)
(* (docs/RANGE-SPLIT.md section 12: the parent is free for a new split).   *)
AbortLeavesParentServing ==
    \A i \in Catalog.intents :
        /\ \A n \in Nodes : i.op \in effective_aborts(View(n)) /\ seen[n] = Len(log)
        /\ \A n \in Nodes : worker[n][Driver(i)] = Idle
        => \A p \in Elems(i.parents) : ~desc[p].sealed \/ SealedIn(Catalog, p)

(* LateAbortIgnored: an abort that seal evidence overrules leaves the      *)
(* operation able to complete: its children still have a quorum of         *)
(* replicas (docs/RANGE-SPLIT.md section 12: a late abort is ignored).     *)
LateAbortIgnored ==
    \A i \in Catalog.intents :
        i.op \in Catalog.aborts \ effective_aborts(Catalog) =>
            \A x \in Elems(i.children) : HasQuorum(x)

(* ReshapeCompletes: a parent sealed for a split or merge is published, so *)
(* its keys are unavailable only for a while.                              *)
Published(op) == \E i \in Catalog.intents : i.op = op /\ SealedIn(Catalog, i.parents[1])
SealedFor(op) == \E i \in Catalog.intents :
                    i.op = op /\ \E p \in Elems(i.parents) : desc[p].sealed
ReshapeCompletes == \A op \in Ops : SealedFor(op) ~> Published(op)

============================================================================
