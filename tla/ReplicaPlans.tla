---------------------------- MODULE ReplicaPlans ----------------------------
(* Moving and adding the replicas of one data group: the immutable rows the *)
(* metadata catalog collects (migration, plan, capture, pins, evidence,     *)
(* removal, abort, drain), the verbs every node derives from its own applied *)
(* prefix of that catalog, and the group's Raft configuration they change.  *)
(* A store is one node: the incarnation check of every row is the identity  *)
(* of a node here, and a replaced disk is a node that is lost.              *)
EXTENDS Integers, Sequences, FiniteSets

CONSTANTS
    Nodes,          \* registered stores, numbered: placement prefers low ids
    Initial,        \* the replicas of the group's creation row
    Laggards,       \* stores whose applied catalog may trail the committed one
    MetaNode,       \* the store whose applied catalog the metadata leader reads
    Ops,            \* numbers of the operations operators may submit
    Scenarios,      \* what may happen to one history: see ScenarioShape
    MaxDisruptions, \* bound: leader changes forced on the group and restarts
    MaxTroubles       \* bound: drains, aborts and lost stores together

None == 0

(* A drain's move and a repair have derived identities: one per drained and *)
(* one per lost store, so a repeated decision names the same row.           *)
OpIds == ({"op"} \X Ops) \cup ({"drain", "repair"} \X Nodes)
NoOp == <<"none", 0>>
MoveOperation(x) == <<"drain", x>>
RepairOperation(x) == <<"repair", x>>

(* modes: what operators submit ("bare", "add", "move"); byHand: operators   *)
(* call verbs the driver did not choose; drained, losable: stores that may   *)
(* be drained or lost; aborts: operators may abort.                          *)
ScenarioShape ==
    [modes : SUBSET {"bare", "add", "move"}, byHand : BOOLEAN, drained : SUBSET Nodes,
     losable : SUBSET Nodes, aborts : BOOLEAN]

ASSUME ReplicaAssumption ==
    /\ Scenarios \subseteq ScenarioShape
    /\ Nodes \subseteq Nat \ {None}
    /\ Initial \subseteq Nodes
    /\ IsFiniteSet(Nodes)
    /\ Cardinality(Initial) >= 3
    /\ MetaNode \in Nodes /\ Laggards \subseteq Nodes

VARIABLES
    input,      \* the history's scenario, fixed at the start
    catalog,    \* the committed rows, each stamped with its batch
    revision,   \* how many batches are committed
    applied,    \* applied[n]: how many batches laggard n has applied
    voters,     \* applied configuration of the group
    learners,
    pending,    \* the proposed configuration change not yet applied
    leader,     \* the group's leader, or None
    staged,     \* capture calls past their durable slot, before the catalog row
    slot,       \* slot[n]: operation of node n's durable capture slot, or NoOp
    uploaded,   \* operations whose image objects are all stored
    installed,  \* <<n, o>>: node n selected the generation of operation o
    adopted,    \* adopted[n]: operation whose image node n serves, or NoOp
    retired,    \* stores that fenced their replica for good
    lost,       \* stores lost for good
    left,       \* stores that were voters and are not (history)
    disruptions

meta == <<catalog, revision, applied>>
group == <<voters, learners, pending, left>>
local == <<staged, slot, uploaded, installed, adopted, retired>>
faults == <<input, lost, disruptions>>
vars == <<meta, group, leader, local, faults>>

Row(k, o, n) == [kind |-> k, op |-> o, node |-> n, at |-> revision + 1]
NoChange == [action |-> "none", node |-> None]

----------------------------------------------------------------------------
(* The catalog and what a reader derives from it.                           *)

View(n) == IF n \in Laggards THEN {r \in catalog : r.at <= applied[n]} ELSE catalog

Has(V, k, o) == \E r \in V : r.kind = k /\ r.op = o
NodeOf(V, k, o) == (CHOOSE r \in V : r.kind = k /\ r.op = o).node
Destination(V, o) == NodeOf(V, "migrate", o)
Removed(V) == {r.node : r \in {x \in V : x.kind = "removal"}}
Draining(V) == {r.node : r \in {x \in V : x.kind = "drain"}}
Operations(V) == {r.op : r \in {x \in V : x.kind = "migrate"}}
Planned(V, o) == Has(V, "add", o) \/ Has(V, "move", o)

operation_settled(V, o) ==
    \/ Has(V, "abort", o)
    \/ Has(V, "evidence", o) /\ (Has(V, "move", o) => Has(V, "removal", o))

committed_members(V) ==
    (Initial \cup {Destination(V, o) : o \in {p \in Operations(V) : Has(V, "evidence", p)}})
        \ Removed(V)

Live(V) == {o \in Operations(V) : ~operation_settled(V, o)}
LivePlans(V) == {o \in Live(V) : Planned(V, o)}

(* Every reader of the migration rows fails on a second live operation.     *)
Readable(V) == Cardinality(Live(V)) <= 1

catalog_terminal(V, o) ==
    \/ Has(V, "abort", o)
    \/ Has(V, "add", o) /\ Has(V, "evidence", o)
    \/ Has(V, "move", o) /\ Has(V, "removal", o)

----------------------------------------------------------------------------
Running(n) == n \notin retired \cup lost
Alive(n) == n \notin lost
Quorum == 2 * Cardinality({n \in voters : Running(n)}) > Cardinality(voters)
Leads(n) == leader = n /\ Running(n)

Init ==
    /\ input \in Scenarios
    /\ catalog = {} /\ revision = 0
    /\ applied = [n \in Laggards |-> 0]
    /\ voters = Initial /\ learners = {}
    /\ pending = NoChange
    /\ leader \in Initial
    /\ staged = {} /\ slot = [n \in Nodes |-> NoOp]
    /\ uploaded = {} /\ installed = {}
    /\ adopted = [n \in Nodes |-> NoOp]
    /\ retired = {} /\ lost = {} /\ left = {}
    /\ disruptions = 0

(* A metadata transaction: serialised by the catalog lock at the metadata   *)
(* leader, over the fully applied catalog.                                  *)
Commit(rows) ==
    /\ Alive(MetaNode)
    /\ rows # {}
    /\ catalog' = catalog \cup rows
    /\ revision' = revision + 1

(* Metadata replication reaches node n.                                     *)
Apply(n) ==
    /\ Alive(n)
    /\ n \in Laggards /\ applied[n] < revision
    /\ applied' = [applied EXCEPT ![n] = @ + 1]
    /\ UNCHANGED <<catalog, revision, group, leader, local, faults>>

----------------------------------------------------------------------------
(* Planners: one catalog transaction each.                                  *)

(* Operation p was planned before o: planners read the rows in task order.  *)
Earlier(p, o) ==
    \E r, q \in catalog :
        /\ r.kind = "migrate" /\ r.op = p
        /\ q.kind = "migrate" /\ q.op = o
        /\ r.at < q.at

plan_migration(o, d) ==
    /\ d \in Nodes \ Initial
    /\ Readable(catalog)
    /\ Has(catalog, "migrate", o) => Destination(catalog, o) = d
    /\ IF Has(catalog, "migrate", o)
       THEN \A p \in Live(catalog) \ {o} : ~Earlier(p, o)
       ELSE Live(catalog) = {}

plan_replica(o, d, mode, s) ==
    /\ ~Planned(catalog, o)
    /\ mode = "move" => s \in committed_members(catalog) /\ s # d
    /\ {p \in Operations(catalog) : Planned(catalog, p) /\ ~catalog_terminal(catalog, p)} = {}

(* The migration row and its plan are one batch; a resubmission confirms.   *)
add_replica(o, d, mode, s) ==
    LET migration == IF Has(catalog, "migrate", o) THEN {} ELSE {Row("migrate", o, d)}
        plan == IF mode = "bare" THEN {} ELSE {Row(mode, o, s)}
    IN  /\ mode # "bare" => plan_replica(o, d, mode, s)
        /\ plan_migration(o, d)
        /\ Commit(migration \cup plan)
        /\ UNCHANGED <<applied, group, leader, local, faults>>

(* AddReplica and MigrateDataGroup, submitted by an operator.               *)
Submit(o, d, mode, s) ==
    /\ (mode = "move") = (s # None)
    /\ add_replica(o, d, mode, s)

(* Bound: the decisions and losses no pass of the system asks for.          *)
TroublesLeft ==
    Cardinality(lost) + Cardinality({r \in catalog : r.kind \in {"drain", "abort"}})
        < MaxTroubles

DrainNode(x) ==
    /\ TroublesLeft
    /\ x \notin Draining(catalog)
    /\ Commit({Row("drain", MoveOperation(x), x)})
    /\ UNCHANGED <<applied, group, leader, local, faults>>

(* A plan that named an image aborts through its published pin; an earlier  *)
(* one with a subject no pin can match.  Which it is, is read before the    *)
(* catalog lock is taken.                                                   *)
AbortTask(o) ==
    LET V == View(MetaNode)
    IN  /\ input.aborts /\ TroublesLeft
        /\ Readable(catalog) /\ o \in Operations(V)
        /\ ~Has(catalog, "evidence", o) /\ ~Has(catalog, "abort", o)
        /\ \/ /\ Has(V, "capture", o) /\ Has(catalog, "pins", o)
              /\ Commit({Row("abort", o, NodeOf(V, "capture", o))})
           \/ /\ ~Has(V, "capture", o) /\ Planned(V, o)
              /\ Commit({Row("abort", o, None)})
        /\ UNCHANGED <<applied, group, leader, local, faults>>

----------------------------------------------------------------------------
(* Placement, drain and repair.                                             *)

Lowest(S) == CHOOSE x \in S : \A y \in S : x <= y
never_again(V) == committed_members(V) \cup Initial \cup Removed(V)
Placeable(V, x) == Nodes \ (never_again(V) \cup Draining(V) \cup {x})

(* plan_drain_steps: the metadata leader moves the group off a drained store. *)
DrainMove(x) ==
    LET V == View(MetaNode)
    IN  /\ x \in Draining(V) \cap committed_members(V)
        /\ Readable(V)
        /\ LivePlans(V) = {}
        /\ Placeable(V, x) # {}
        /\ add_replica(MoveOperation(x), Lowest(Placeable(V, x)), "move", x)

(* handoff_step: a draining store gives away the leadership it holds.       *)
Handoff(n) ==
    /\ Leads(n) /\ n \in Draining(View(n))
    /\ \E m \in voters \ {n} : Running(m) /\ leader' = m
    /\ UNCHANGED <<meta, group, local, faults>>

(* reconcile_replica_repair, plan_repair: the group leader replaces a voter *)
(* it has not heard from, while a majority stays live after the promotion.  *)
Repair(n, x) ==
    LET V == View(n)
        live == Cardinality({v \in voters : Running(v)})
    IN  /\ Leads(n)
        /\ x \in voters /\ ~Running(x)
        /\ live >= (Cardinality(voters) + 1) \div 2
        /\ Readable(V) /\ x \in committed_members(V)
        /\ ~Planned(V, RepairOperation(x))
        /\ Placeable(V, x) # {}
        /\ add_replica(RepairOperation(x), Lowest(Placeable(V, x)), "move", x)

----------------------------------------------------------------------------
(* The driver's step table: the first row that holds, from the facts of     *)
(* node n's own applied catalog and its view of the group.                  *)
StepTable(n, o) ==
    LET V == View(n)
        d == Destination(V, o)
        evidence == Has(V, "evidence", o)
        capture == Has(V, "capture", o)
        pinned == evidence \/ Has(V, "pins", o)
        move == Has(V, "move", o)
    IN  << <<Leads(n) /\ d \notin learners \cup voters, "attach">>,
           <<Leads(n) /\ d \in learners /\ ~capture, "plan_image">>,
           <<Leads(n) /\ pinned /\ ~evidence, "capture">>,
           <<Leads(n) /\ evidence /\ d \in learners, "promote">>,
           <<Leads(n) /\ move /\ Has(V, "removal", o) /\ d \in voters
                /\ NodeOf(V, "move", o) \in voters, "remove">>,
           <<n = MetaNode /\ capture /\ ~pinned, "bind">>,
           <<n = MetaNode /\ move /\ evidence /\ ~Has(V, "removal", o), "decide">>,
           <<n = d /\ pinned /\ ~evidence /\ adopted[n] = NoOp, "install">>,
           <<n = d /\ adopted[n] # NoOp /\ ~evidence, "record">> >>

FirstStep(table) ==
    LET on == {i \in DOMAIN table : table[i][1]}
    IN  IF on = {} THEN "none" ELSE table[Lowest(on)][2]

(* Mutant: an aborted plan has no steps left.                               *)
AbortedPlanForgotten(n, o) ==
    IF ~Planned(View(n), o) \/ ~Readable(View(n)) \/ Has(View(n), "abort", o) THEN "none"
    ELSE FirstStep(StepTable(n, o))

next_step(n, o) ==
    LET V == View(n)
    IN  IF ~Planned(V, o) \/ ~Readable(V) THEN "none"
        ELSE IF Has(V, "abort", o)
        THEN IF Leads(n) /\ Destination(V, o) \in learners THEN "detach" ELSE "none"
        ELSE FirstStep(StepTable(n, o))

(* A verb runs when the driver chose it, or when an operator calls it.      *)
Known(n, o) == Alive(n) /\ o \in Operations(View(n))
Called(n, o, step) ==
    /\ Readable(View(n))
    /\ ~input.byHand => next_step(n, o) = step

----------------------------------------------------------------------------
(* Verbs that change the configuration: checked against the leader's applied *)
(* state and proposed; Raft refuses a proposal while one is pending.        *)

Propose(act, n) ==
    /\ pending = NoChange
    /\ pending' = [action |-> act, node |-> n]
    /\ UNCHANGED <<meta, voters, learners, left, leader, local, faults>>

attach_migration_learner(n, o) ==
    LET d == Destination(View(n), o)
    IN  /\ Leads(n) /\ Known(n, o)
        /\ ~Has(View(n), "abort", o)
        /\ d \notin voters \cup learners
        /\ Called(n, o, "attach")
        /\ Propose("attach", d)

(* Mutant: the learner is promoted as soon as it is attached.               *)
PromoteWithoutEvidence(n, o) ==
    LET d == Destination(View(n), o)
    IN  /\ Leads(n) /\ Known(n, o)
        /\ d \in learners \ voters
        /\ Propose("promote", d)

promote_migration_voter(n, o) ==
    LET d == Destination(View(n), o)
    IN  /\ Leads(n) /\ Known(n, o)
        /\ Has(View(n), "evidence", o)
        /\ d \in learners \ voters
        /\ Called(n, o, "promote")
        /\ Propose("promote", d)

(* Mutant: the decision alone removes the source.                           *)
RemoveOnDecision(n, o) ==
    LET V == View(n)
    IN  /\ Leads(n) /\ Known(n, o)
        /\ Has(V, "removal", o)
        /\ NodeOf(V, "removal", o) \in voters \ {n}
        /\ Called(n, o, "remove")
        /\ Propose("remove", NodeOf(V, "removal", o))

remove_source_replica(n, o) ==
    LET V == View(n)
        s == NodeOf(V, "removal", o)
    IN  /\ Leads(n) /\ Known(n, o)
        /\ Has(V, "removal", o) /\ Has(V, "evidence", o)
        /\ s \in voters \ {n}
        /\ Destination(V, o) \in voters
        /\ Cardinality(voters) > 3
        /\ Called(n, o, "remove")
        /\ Propose("remove", s)

detach_aborted_learner(n, o) ==
    LET d == Destination(View(n), o)
    IN  /\ Leads(n) /\ Known(n, o)
        /\ Has(View(n), "abort", o)
        /\ d \in learners \ voters
        /\ Called(n, o, "detach")
        /\ Propose("detach", d)

(* The Remove step of a leader that is itself the source hands leadership   *)
(* to the destination instead.                                              *)
HandToDestination(n, o) ==
    LET V == View(n)
    IN  /\ Leads(n) /\ Known(n, o)
        /\ Has(V, "move", o) /\ NodeOf(V, "move", o) = n
        /\ Destination(V, o) \in voters /\ Running(Destination(V, o))
        /\ Called(n, o, "remove")
        /\ leader' = Destination(V, o)
        /\ UNCHANGED <<meta, group, local, faults>>

(* Mutant: a removed leader goes on leading.                                *)
RemovedLeaderStays ==
    LET t == pending.node
        joins == IF pending.action = "promote" THEN {t} ELSE {}
    IN  /\ pending # NoChange /\ leader # None /\ Quorum
        /\ voters' = (voters \ {t}) \cup joins
        /\ learners' = (learners \ {t}) \cup (IF pending.action = "attach" THEN {t} ELSE {})
        /\ left' = left \cup ((voters \cap {t}) \ joins)
        /\ pending' = NoChange
        /\ UNCHANGED <<meta, leader, local, faults>>

(* The change commits by a majority of the old voters and is applied: adding *)
(* a learner that votes demotes it, a removed leader steps down.            *)
ApplyChange ==
    LET t == pending.node
        gone == IF pending.action = "promote" THEN {} ELSE {t}
    IN  /\ pending # NoChange
        /\ leader # None /\ Quorum
        /\ voters' = (voters \ gone) \cup (IF pending.action = "promote" THEN {t} ELSE {})
        /\ learners' = (learners \ {t}) \cup (IF pending.action = "attach" THEN {t} ELSE {})
        /\ left' = left \cup (voters \cap gone)
        /\ pending' = NoChange
        /\ leader' = IF leader \in voters' THEN leader ELSE None
        /\ UNCHANGED <<meta, local, faults>>

----------------------------------------------------------------------------
(* The image: a durable slot at the capturing leader fixes it, the catalog  *)
(* row names it, pins protect it, the destination installs and adopts it.   *)
(* An image is identified by the node whose slot holds it.                  *)

(* A slot is reused for another operation only when the old one is settled  *)
(* with exactly this slot's image.                                          *)
Superseded(V, n) ==
    \E r \in V : r.kind \in {"abort", "evidence"} /\ r.op = slot[n] /\ r.node = n

plan_migration_image(n, o) ==
    LET V == View(n)
    IN  /\ Leads(n) /\ Known(n, o)
        /\ ~Has(V, "abort", o) /\ ~Has(V, "capture", o)
        /\ <<n, o>> \notin staged
        /\ \/ slot[n] = o
           \/ /\ ~Has(V, "evidence", o)
              /\ Destination(V, o) \in learners
              /\ slot[n] = NoOp \/ Superseded(V, n)
        /\ Called(n, o, "plan_image")
        /\ slot' = [slot EXCEPT ![n] = o]
        /\ staged' = staged \cup {<<n, o>>}
        /\ UNCHANGED <<meta, group, leader, uploaded, installed, adopted,
                       retired, faults>>

(* record_capture: refused for an aborted operation and for a second image. *)
record_capture(n, o) ==
    /\ <<n, o>> \in staged
    /\ staged' = staged \ {<<n, o>>}
    /\ \/ /\ Readable(catalog)
          /\ ~Has(catalog, "abort", o) /\ ~Has(catalog, "capture", o)
          /\ Commit({Row("capture", o, n)})
       \/ /\ Has(catalog, "abort", o) \/ Has(catalog, "capture", o)
             \/ ~Readable(catalog)
          /\ UNCHANGED <<catalog, revision>>
    /\ UNCHANGED <<applied, group, leader, slot, uploaded, installed, adopted, retired, faults>>

bind_migration_image(o) ==
    /\ Known(MetaNode, o)
    /\ Readable(catalog)
    /\ Has(catalog, "capture", o) /\ ~Has(catalog, "pins", o)
    /\ Called(MetaNode, o, "bind")
    /\ Commit({Row("pins", o, None)})
    /\ UNCHANGED <<applied, group, leader, local, faults>>

capture_migration_image(n, o) ==
    LET V == View(n)
    IN  /\ Leads(n) /\ Known(n, o)
        /\ ~Has(V, "abort", o) /\ Has(V, "capture", o) /\ Has(V, "pins", o)
        /\ o \notin uploaded
        /\ Called(n, o, "capture")
        /\ uploaded' = uploaded \cup {o}
        /\ UNCHANGED <<meta, group, leader, staged, slot, installed, adopted,
                       retired, faults>>

install(n, o) ==
    LET V == View(n)
    IN  /\ Known(n, o) /\ n = Destination(V, o)
        /\ Has(V, "capture", o) /\ Has(V, "pins", o) /\ o \in uploaded
        /\ n \notin retired /\ adopted[n] = NoOp
        /\ <<n, o>> \notin installed
        /\ Called(n, o, "install")
        /\ installed' = installed \cup {<<n, o>>}
        /\ UNCHANGED <<meta, group, leader, staged, slot, uploaded, adopted,
                       retired, faults>>

(* reconcile_adoption: never for an aborted operation or a removed store.   *)
adopt_installed(n, o) ==
    LET V == View(n)
    IN  /\ Alive(n) /\ o \in Operations(V) /\ Readable(V)
        /\ n = Destination(V, o) /\ <<n, o>> \in installed
        /\ ~Has(V, "abort", o) /\ n \notin Removed(V)
        /\ n \notin retired /\ adopted[n] = NoOp
        /\ adopted' = [adopted EXCEPT ![n] = o]
        /\ UNCHANGED <<meta, group, leader, staged, slot, uploaded, installed,
                       retired, faults>>

(* The receipt delivered is the one of the adopted generation, whatever     *)
(* operation asked for it.                                                  *)
record_install_evidence(n, o) ==
    LET p == adopted[n]
        C == catalog
    IN  /\ Known(n, o) /\ n = Destination(View(n), o)
        /\ p # NoOp /\ Readable(C)
        /\ ~Has(C, "abort", p) /\ ~Has(C, "evidence", p)
        /\ {q \in Live(C) : Has(C, "evidence", q)} = {}
        /\ Has(C, "pins", p)
        /\ Called(n, o, "record")
        /\ Commit({Row("evidence", p, NodeOf(C, "capture", p))})
        /\ UNCHANGED <<applied, group, leader, local, faults>>

(* record_source_removal: an initial replica or an evidenced destination of *)
(* another operation, retired once.                                         *)
record_source_removal(o, s) ==
    LET C == catalog
    IN  /\ Known(MetaNode, o)
        /\ Readable(C)
        /\ Has(C, "evidence", o) /\ ~Has(C, "removal", o)
        /\ s \in committed_members(C) /\ s # Destination(C, o)
        /\ Called(MetaNode, o, "decide")
        /\ ~input.byHand => s = NodeOf(View(MetaNode), "move", o)
        /\ Commit({Row("removal", o, s)})
        /\ UNCHANGED <<applied, group, leader, local, faults>>

(* reconcile_retirement: a store a removal decision names fences its replica. *)
retire_removed(n) ==
    /\ Running(n)
    /\ n \in Initial \/ adopted[n] # NoOp
    /\ Readable(View(n)) /\ n \in Removed(View(n))
    /\ retired' = retired \cup {n}
    /\ leader' = IF leader = n THEN None ELSE leader
    /\ UNCHANGED <<meta, group, staged, slot, uploaded, installed, adopted, faults>>

----------------------------------------------------------------------------
(* Elections, restarts and losses.  A change the old leader proposed may    *)
(* survive in the new leader's log or be lost.                              *)

Elect(n) ==
    /\ n \in voters /\ n # leader /\ Running(n) /\ Quorum
    /\ leader # None => disruptions < MaxDisruptions
    /\ leader' = n
    /\ disruptions' = IF leader = None THEN disruptions ELSE disruptions + 1
    /\ pending' \in {pending, NoChange}
    /\ UNCHANGED <<meta, voters, learners, left, local, input, lost>>

Crash(n) ==
    /\ Alive(n) /\ disruptions < MaxDisruptions
    /\ disruptions' = disruptions + 1
    /\ staged' = {c \in staged : c[1] # n}
    /\ leader' = IF leader = n THEN None ELSE leader
    /\ UNCHANGED <<meta, group, slot, uploaded, installed, adopted, retired,
                   input, lost>>

Lose(n) ==
    /\ Alive(n) /\ TroublesLeft
    /\ lost' = lost \cup {n}
    /\ staged' = {c \in staged : c[1] # n}
    /\ leader' = IF leader = n THEN None ELSE leader
    /\ UNCHANGED <<meta, group, slot, uploaded, installed, adopted, retired,
                   input, disruptions>>

(* What a node's own passes do for operation o.                             *)
Verb(n, o) ==
    \/ attach_migration_learner(n, o)
    \/ promote_migration_voter(n, o)
    \/ remove_source_replica(n, o)
    \/ detach_aborted_learner(n, o)
    \/ HandToDestination(n, o)
    \/ plan_migration_image(n, o)
    \/ record_capture(n, o)
    \/ capture_migration_image(n, o)
    \/ install(n, o)
    \/ adopt_installed(n, o)
    \/ record_install_evidence(n, o)

Progress ==
    \/ \E o \in Operations(catalog) :
          \/ \E n \in Nodes : Verb(n, o)
          \/ bind_migration_image(o)
          \/ \E s \in Nodes : record_source_removal(o, s)
    \/ \E n \in Nodes : Apply(n) \/ Handoff(n) \/ retire_removed(n)
    \/ \E n, x \in Nodes : Repair(n, x)
    \/ \E x \in Nodes : DrainMove(x)
    \/ ApplyChange

Operator ==
    \/ \E i \in Ops, d \in Nodes, m \in input.modes, s \in Nodes \cup {None} :
          Submit(<<"op", i>>, d, m, s)
    \/ \E x \in input.drained : DrainNode(x)
    \/ \E o \in Operations(catalog) : AbortTask(o)

Next ==
    \/ Progress
    \/ Operator
    \/ \E n \in Nodes : Elect(n) \/ Crash(n)
    \/ \E n \in input.losable : Lose(n)

Spec == Init /\ [][Next]_vars

(* Every node runs its maintenance passes and retries a failed step after a *)
(* back-off, and a majority elects a leader: while some such step is        *)
(* possible, one is eventually taken; metadata replication reaches every    *)
(* store.  No operator, loss or disruption is promised.                     *)
FairSpec ==
    /\ Spec
    /\ WF_vars(\E n \in Nodes : Apply(n))
    /\ WF_vars(Progress \/ (leader = None /\ \E n \in Nodes : Elect(n)))

----------------------------------------------------------------------------
(* Properties.                                                              *)

RowKinds ==
    {"migrate", "add", "move", "capture", "pins", "evidence", "removal", "abort", "drain"}

(* Every variable stays in its type.                                        *)
TypeOK ==
    /\ catalog \subseteq
          [kind : RowKinds, op : OpIds, node : Nodes \cup {None}, at : 1..revision]
    /\ revision \in Nat
    /\ \A n \in Laggards : applied[n] \in 0..revision
    /\ voters \subseteq Nodes /\ learners \subseteq Nodes
    /\ pending \in [action : {"none", "attach", "promote", "remove", "detach"},
                    node : Nodes \cup {None}]
    /\ leader \in voters \cup {None}
    /\ staged \subseteq Nodes \X OpIds
    /\ slot \in [Nodes -> OpIds \cup {NoOp}]
    /\ uploaded \subseteq OpIds
    /\ installed \subseteq Nodes \X OpIds
    /\ adopted \in [Nodes -> OpIds \cup {NoOp}]
    /\ retired \subseteq Nodes /\ lost \subseteq Nodes /\ left \subseteq Nodes
    /\ disruptions \in Nat

(* The group never has fewer than three voters: remove_source_replica's     *)
(* floor holds when the proposed change is applied, whatever was proposed,  *)
(* lost in an election or decided by hand in between.                       *)
VoterFloor == Cardinality(voters) >= 3

(* Stores serving an image that has committed evidence.                     *)
Ready == {n \in Nodes : adopted[n] # NoOp /\ Has(catalog, "evidence", adopted[n])}

GM == INSTANCE GroupMembership
          WITH ready <- Ready, decided <- Removed(catalog), MinVoters <- 3

(* The plans implement GroupMembership: promotion, removal and detachment   *)
(* proposed from a stale catalog or by hand still change the voters only as *)
(* the abstract group allows.                                               *)
Membership == GM!Spec

(* A store that a removal took out of the voters never votes again: the     *)
(* source of a move is removed at most once.                                *)
NeverReturns == left \cap voters = {}

Ended(o) ==
    LET C == catalog
    IN  \/ Has(C, "abort", o) /\ Destination(C, o) \notin learners
        \/ /\ Has(C, "evidence", o) /\ Destination(C, o) \in voters
           /\ Has(C, "move", o) => NodeOf(C, "move", o) \notin voters

(* While nobody calls verbs by hand, every plan the cluster makes ends - its *)
(* destination votes and its source does not, or it is aborted and its      *)
(* learner gone - and unless an operator aborted one, no lost and no drained *)
(* store keeps a vote.                                                      *)
Converges ==
    []<>( \/ input.byHand
          \/ /\ \A o \in Operations(catalog) : Ended(o)
             /\ \/ \E o \in Operations(catalog) : Has(catalog, "abort", o)
                \/ voters \cap (lost \cup Draining(catalog)) = {} )
============================================================================
