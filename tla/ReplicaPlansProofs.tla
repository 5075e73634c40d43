------------------------- MODULE ReplicaPlansProofs -------------------------
(* For any number of stores, operations, laggards, leader changes, restarts *)
(* and losses: the voter floor holds, and the replica plans implement       *)
(* GroupMembership.                                                         *)
EXTENDS ReplicaPlans, TLAPS, FiniteSetTheorems

(* Leaves are tried with Zenon unless they name another prover.           *)
USE Zenon

(* What a pending change was checked against still holds when it applies.   *)
PendingSound ==
    /\ \/ pending = NoChange
       \/ pending \in [action : {"attach", "promote", "remove", "detach"}, node : Nodes]
    /\ pending.action \in {"attach", "detach"} => pending.node \notin voters
    /\ pending.action = "promote" => pending.node \in Ready \ Initial
    /\ pending.action = "remove" =>
          pending.node \in voters \cap Removed(catalog) /\ Cardinality(voters) > 3

(* One destination per operation, and never a store of the creation row.    *)
MigrationsSound ==
    /\ \A r \in catalog : r.kind = "migrate" => r.op \in OpIds /\ r.node \in Nodes \ Initial
    /\ \A r, q \in catalog :
          r.kind = "migrate" /\ q.kind = "migrate" /\ r.op = q.op => r.node = q.node

(* A store serves only an image of an operation that names it, and evidence *)
(* exists only of an image some store serves.                               *)
ImagesSound ==
    /\ adopted \in [Nodes -> OpIds \cup {NoOp}]
    /\ \A n \in Nodes : adopted[n] # NoOp =>
          \E r \in catalog : r.kind = "migrate" /\ r.op = adopted[n] /\ r.node = n
    /\ \A r \in catalog : r.kind = "evidence" =>
          r.op # NoOp /\ \E n \in Nodes : adopted[n] = r.op

VotersSound == voters \subseteq Nodes /\ Cardinality(voters) >= 3

IInv ==
    /\ input \in ScenarioShape
    /\ VotersSound
    /\ PendingSound
    /\ MigrationsSound
    /\ ImagesSound

(* What a node has applied is part of the committed catalog.                *)
LEMMA ViewInCatalog == \A n : View(n) \subseteq catalog
  BY DEF View

(* The destination a node reads is the node of a committed migration row.   *)
LEMMA DestinationCommitted ==
    ASSUME NEW n, NEW o \in Operations(View(n))
    PROVE  \E r \in catalog : /\ r.kind = "migrate" /\ r.op = o
                              /\ r.node = Destination(View(n), o)
  <1>1. PICK r \in View(n) : r.kind = "migrate" /\ r.op = o
    BY DEF Operations
  <1> DEFINE c == CHOOSE x \in View(n) : x.kind = "migrate" /\ x.op = o
  <1>2. c \in View(n) /\ c.kind = "migrate" /\ c.op = o
    BY <1>1
  <1>3. Destination(View(n), o) = c.node
    BY DEF Destination, NodeOf
  <1> QED BY <1>2, <1>3, ViewInCatalog

(* Evidence makes the destination of its operation ready.                   *)
LEMMA EvidenceReady ==
    ASSUME IInv, NEW n, NEW o \in Operations(View(n)), Has(View(n), "evidence", o)
    PROVE  Destination(View(n), o) \in Ready \ Initial
  <1> DEFINE d == Destination(View(n), o)
  <1>1. PICK r \in catalog : r.kind = "migrate" /\ r.op = o /\ r.node = d
    BY DestinationCommitted
  <1>2. PICK e \in catalog : e.kind = "evidence" /\ e.op = o
    BY ViewInCatalog DEF Has
  <1>3. PICK m \in Nodes : adopted[m] = o /\ o # NoOp
    BY <1>2 DEF IInv, ImagesSound
  <1>4. PICK q \in catalog : q.kind = "migrate" /\ q.op = o /\ q.node = m
    BY <1>3 DEF IInv, ImagesSound
  <1>5. m = d
    BY <1>1, <1>4 DEF IInv, MigrationsSound
  <1>6. d \in Nodes \ Initial
    BY <1>1 DEF IInv, MigrationsSound
  <1> QED BY <1>2, <1>3, <1>5, <1>6 DEF Ready, Has

(* The catalog gains rows that are neither migrations, evidence nor removals. *)
LEMMA OtherRows ==
    ASSUME IInv, NEW R, catalog' = catalog \cup R,
           \A r \in R : r.kind \notin {"migrate", "evidence", "removal"},
           UNCHANGED <<input, voters, pending, adopted>>
    PROVE  IInv' /\ UNCHANGED <<Ready, Removed(catalog)>>
  <1>1. Ready' = Ready
    BY DEF Ready, Has
  <1>2. Removed(catalog)' = Removed(catalog)
    BY DEF Removed
  <1>3. MigrationsSound'
    BY DEF IInv, MigrationsSound
  <1>4. ImagesSound'
    BY ZenonT(60) DEF IInv, ImagesSound
  <1> QED BY <1>1, <1>2, <1>3, <1>4 DEF IInv, VotersSound, PendingSound

(* A migration row for an operation that has none.                          *)
LEMMA MigrationRow ==
    ASSUME IInv, NEW o \in OpIds, NEW d \in Nodes \ Initial, NEW R,
           ~Has(catalog, "migrate", o),
           catalog' = catalog \cup {Row("migrate", o, d)} \cup R,
           \A r \in R : r.kind \notin {"migrate", "evidence", "removal"},
           UNCHANGED <<input, voters, pending, adopted>>
    PROVE  IInv' /\ UNCHANGED <<Ready, Removed(catalog)>>
  <1> DEFINE new == Row("migrate", o, d)
  <1>0. new.kind = "migrate" /\ new.op = o /\ new.node = d
    BY DEF Row
  <1> HIDE DEF new
  <1>1. Ready' = Ready
    BY <1>0 DEF Ready, Has, new
  <1>2. Removed(catalog)' = Removed(catalog)
    BY <1>0 DEF Removed, new
  <1>3. MigrationsSound'
    BY SMTT(30), <1>0 DEF IInv, MigrationsSound, Has, new
  <1>4. ImagesSound'
    BY SMTT(30), <1>0 DEF IInv, ImagesSound, new
  <1> QED BY <1>1, <1>2, <1>3, <1>4 DEF IInv, VotersSound, PendingSound

(* A planned operation changes neither readiness nor decisions.             *)
LEMMA AddReplica ==
    ASSUME IInv, NEW o \in OpIds, NEW d, NEW mode \in {"bare", "add", "move"}, NEW s,
           add_replica(o, d, mode, s)
    PROVE  IInv' /\ UNCHANGED <<Ready, Removed(catalog), voters>>
  <1>0. PICK P : P = IF mode = "bare" THEN {} ELSE {Row(mode, o, s)}
    OBVIOUS
  <1>1. \A r \in P : r.kind \notin {"migrate", "evidence", "removal"}
    BY SMT, <1>0 DEF Row
  <1>2. UNCHANGED <<input, voters, pending, adopted>> /\ d \in Nodes \ Initial
    BY DEF add_replica, plan_migration, group, local, faults
  <1>3. CASE Has(catalog, "migrate", o)
    <2>1. catalog' = catalog \cup P
      BY <1>0, <1>3 DEF add_replica, Commit
    <2> QED BY <1>1, <1>2, <2>1, OtherRows
  <1>4. CASE ~Has(catalog, "migrate", o)
    <2>1. catalog' = catalog \cup {Row("migrate", o, d)} \cup P
      BY <1>0, <1>4 DEF add_replica, Commit
    <2> QED BY ZenonT(60), <1>1, <1>2, <1>4, <2>1, MigrationRow
  <1> QED BY <1>3, <1>4

Abstract == <<voters, Ready, Removed(catalog)>>

(* A step that leaves the catalog, the configuration and the images alone.  *)
LEMMA Calm ==
    ASSUME IInv, UNCHANGED <<input, catalog, voters, pending, adopted>>
    PROVE  IInv' /\ UNCHANGED Abstract
  <1>1. Ready' = Ready /\ Removed(catalog)' = Removed(catalog)
    BY DEF Ready, Removed, Has
  <1> QED BY SMTT(30), <1>1 DEF IInv, VotersSound, PendingSound, MigrationsSound, ImagesSound, Abstract

(* A verb's checks make the change it proposes sound.                       *)
LEMMA Proposed ==
    ASSUME IInv, NEW n \in Nodes, NEW o,
           \/ attach_migration_learner(n, o) \/ promote_migration_voter(n, o)
           \/ remove_source_replica(n, o) \/ detach_aborted_learner(n, o)
    PROVE  IInv' /\ UNCHANGED Abstract
  <1> DEFINE d == Destination(View(n), o)
  <1>1. UNCHANGED <<input, catalog, voters, adopted>> /\ o \in Operations(View(n))
    BY DEF attach_migration_learner, promote_migration_voter, remove_source_replica,
           detach_aborted_learner, Propose, Known, meta, local, faults
  <1>2. Ready' = Ready /\ Removed(catalog)' = Removed(catalog)
    BY <1>1 DEF Ready, Removed, Has
  <1>3. d \in Nodes
    BY ZenonT(60), <1>1, DestinationCommitted DEF IInv, MigrationsSound
  <1>4. PendingSound'
    <2>1. CASE attach_migration_learner(n, o) \/ detach_aborted_learner(n, o)
      BY SMTT(30), <1>1, <1>3, <2>1
      DEF attach_migration_learner, detach_aborted_learner, Propose, PendingSound
    <2>2. CASE promote_migration_voter(n, o)
      <3>1. d \in Ready \ Initial
        BY <1>1, <2>2, EvidenceReady DEF promote_migration_voter
      <3> QED BY <1>1, <1>2, <1>3, <2>2, <3>1 DEF promote_migration_voter, Propose, PendingSound
    <2>3. CASE remove_source_replica(n, o)
      <3> DEFINE c == CHOOSE r \in View(n) : r.kind = "removal" /\ r.op = o
      <3>1. NodeOf(View(n), "removal", o) = c.node
        BY DEF NodeOf
      <3>2. c \in View(n) /\ c.kind = "removal"
        BY <2>3 DEF remove_source_replica, Has
      <3>3. NodeOf(View(n), "removal", o) \in Removed(catalog)
        BY <3>1, <3>2, ViewInCatalog DEF Removed
      <3> HIDE DEF c
      <3> QED BY <1>1, <1>2, <2>3, <3>3
              DEF remove_source_replica, Propose, PendingSound, IInv, VotersSound
    <2> QED BY <2>1, <2>2, <2>3
  <1> QED BY ZenonT(60), <1>1, <1>2, <1>4 DEF IInv, VotersSound, MigrationsSound, ImagesSound, Abstract

(* Applying the pending change is a step of the abstract group.             *)
LEMMA Changed ==
    ASSUME IInv, ApplyChange
    PROVE  IInv' /\ [GM!Next]_Abstract
  <1> DEFINE t == pending.node
  <1>1. UNCHANGED <<input, catalog, adopted>> /\ pending' = NoChange
    BY DEF ApplyChange, meta, local, faults
  <1>2. Ready' = Ready /\ Removed(catalog)' = Removed(catalog)
    BY <1>1 DEF Ready, Removed, Has
  <1>3. PendingSound' /\ MigrationsSound' /\ ImagesSound' /\ (input \in ScenarioShape)'
    BY SMTT(30), <1>1 DEF IInv, PendingSound, NoChange, MigrationsSound, ImagesSound
  <1>4. IsFiniteSet(voters) /\ Cardinality(voters) \in Nat
    BY FS_Subset, FS_CardinalityType, ReplicaAssumption DEF IInv, VotersSound
  <1>5. CASE pending.action = "promote"
    <2>1. t \in Ready \ Initial /\ voters' = voters \cup {t}
      BY <1>5 DEF IInv, PendingSound, ApplyChange
    <2>2. t \in Nodes
      BY <2>1 DEF Ready
    <2>3. Cardinality(voters') >= 3
      <3>1. Cardinality(voters \cup {t}) \in {Cardinality(voters), Cardinality(voters) + 1}
        BY <1>4, FS_AddElement
      <3> QED BY SMTT(30), <1>4, <2>1, <3>1 DEF IInv, VotersSound
    <2>4. GM!Join(t)
      BY <1>2, <2>1 DEF GM!Join
    <2> QED BY ZenonT(60), <1>3, <2>1, <2>2, <2>3, <2>4 DEF IInv, VotersSound, GM!Next
  <1>6. CASE pending.action = "remove"
    <2>1. t \in voters \cap Removed(catalog) /\ Cardinality(voters) > 3
          /\ voters' = voters \ {t}
      BY <1>6 DEF IInv, PendingSound, ApplyChange
    <2>2. Cardinality(voters') >= 3
      BY SMTT(30), <1>4, <2>1, FS_RemoveElement
    <2>3. GM!Leave(t)
      <3>1. GM!Cardinality(voters) = Cardinality(voters)
        BY DEF Cardinality, GM!Cardinality
      <3> QED BY <1>2, <2>1, <3>1 DEF GM!Leave
    <2>4. t \in Nodes
      BY <2>1 DEF IInv, VotersSound
    <2> QED BY <1>3, <2>1, <2>2, <2>3, <2>4 DEF IInv, VotersSound, GM!Next
  <1>7. CASE pending.action \in {"attach", "detach"}
    <2>1. voters' = voters
      BY <1>7 DEF IInv, PendingSound, ApplyChange
    <2> QED BY <1>2, <1>3, <2>1 DEF IInv, VotersSound, Abstract
  <1> QED BY <1>5, <1>6, <1>7 DEF IInv, PendingSound, ApplyChange

(* Evidence makes one store ready: the one that serves the image.           *)
LEMMA Evidenced ==
    ASSUME IInv, NEW n \in Nodes, NEW o, record_install_evidence(n, o)
    PROVE  IInv' /\ [GM!Next]_Abstract
  <1>1. PICK p : p = adopted[n]
    OBVIOUS
  <1>2. PICK e : e.kind = "evidence" /\ e.op = p /\ catalog' = catalog \cup {e}
    BY <1>1 DEF record_install_evidence, Commit, Row
  <1>3. p # NoOp /\ UNCHANGED <<input, voters, pending, adopted>>
    BY <1>1 DEF record_install_evidence, group, local, faults
  <1>4. \A m \in Nodes : adopted[m] = p => m = n
    BY SMTT(30), <1>1, <1>3 DEF IInv, MigrationsSound, ImagesSound
  <1>5. Ready' = Ready \cup {n}
    <2>1. \A q : Has(catalog, "evidence", q)' <=> Has(catalog, "evidence", q) \/ q = p
      BY <1>2 DEF Has
    <2> QED BY <1>1, <1>3, <1>4, <2>1 DEF Ready
  <1>6. Removed(catalog)' = Removed(catalog)
    BY <1>2 DEF Removed
  <1>7. MigrationsSound'
    BY <1>2 DEF IInv, MigrationsSound
  <1>8. ImagesSound'
    BY SMTT(30), <1>1, <1>2, <1>3 DEF IInv, ImagesSound
  <1>9. IInv'
    BY ZenonT(60), <1>3, <1>5, <1>6, <1>7, <1>8 DEF IInv, VotersSound, PendingSound
  <1>10. GM!Prepare(n)
    BY <1>3, <1>5, <1>6 DEF GM!Prepare
  <1> QED BY <1>9, <1>10 DEF GM!Next

(* Adopting an image makes at most the adopting store ready.                *)
LEMMA Adopting ==
    ASSUME IInv, NEW n \in Nodes, NEW o, adopt_installed(n, o)
    PROVE  IInv' /\ [GM!Next]_Abstract
  <1>1. UNCHANGED <<input, catalog, voters, pending>> /\ adopted[n] = NoOp
        /\ adopted' = [adopted EXCEPT ![n] = o] /\ o \in Operations(View(n))
        /\ n = Destination(View(n), o)
    BY DEF adopt_installed, meta, group, faults
  <1>2. PICK r \in catalog : r.kind = "migrate" /\ r.op = o /\ r.node = n
    BY ZenonT(60), <1>1, DestinationCommitted
  <1>3. ImagesSound'
    BY SMTT(30), <1>1, <1>2 DEF IInv, ImagesSound, MigrationsSound
  <1>4. Ready' = Ready \/ Ready' = Ready \cup {n}
    BY SMTT(30), <1>1 DEF Ready, Has, IInv, ImagesSound
  <1>5. Ready \subseteq Ready' /\ Removed(catalog)' = Removed(catalog)
    BY <1>1, <1>4 DEF Removed
  <1>6. IInv'
    BY <1>1, <1>3, <1>5 DEF IInv, VotersSound, PendingSound, MigrationsSound
  <1>7. GM!Prepare(n) \/ UNCHANGED Abstract
    BY <1>1, <1>4, <1>5 DEF GM!Prepare, Abstract
  <1> QED BY <1>6, <1>7 DEF GM!Next

(* A removal row decides one more store.                                    *)
LEMMA Decided ==
    ASSUME IInv, NEW o, NEW s \in Nodes, record_source_removal(o, s)
    PROVE  IInv' /\ [GM!Next]_Abstract
  <1>1. PICK e : e.kind = "removal" /\ e.node = s /\ catalog' = catalog \cup {e}
    BY DEF record_source_removal, Commit, Row
  <1>2. s \notin Removed(catalog) /\ UNCHANGED <<input, voters, pending, adopted>>
    BY DEF record_source_removal, committed_members, group, local, faults
  <1>3. Removed(catalog)' = Removed(catalog) \cup {s}
    BY <1>1 DEF Removed
  <1>4. Ready' = Ready
    BY <1>1, <1>2 DEF Ready, Has
  <1>5. MigrationsSound'
    BY <1>1 DEF IInv, MigrationsSound
  <1>6. ImagesSound'
    BY SMTT(30), <1>1, <1>2 DEF IInv, ImagesSound
  <1>7. IInv'
    BY ZenonT(60), <1>2, <1>3, <1>4, <1>5, <1>6 DEF IInv, VotersSound, PendingSound
  <1>8. GM!Decide(s)
    BY <1>2, <1>3, <1>4 DEF GM!Decide
  <1> QED BY <1>7, <1>8 DEF GM!Next

(* Planners, aborts, pins and capture rows.                                 *)
LEMMA Recorded ==
    ASSUME IInv, NEW n \in Nodes, NEW x \in Nodes, NEW o,
           \/ DrainNode(x) \/ AbortTask(o) \/ bind_migration_image(o) \/ record_capture(n, o)
    PROVE  IInv' /\ UNCHANGED Abstract
  <1>1. UNCHANGED <<input, voters, pending, adopted>>
    BY DEF DrainNode, AbortTask, bind_migration_image, record_capture, group, local, faults
  <1>2. \/ UNCHANGED catalog
        \/ \E e : /\ e.kind \notin {"migrate", "evidence", "removal"}
                  /\ catalog' = catalog \cup {e}
    <2>1. CASE DrainNode(x)
      BY <2>1 DEF DrainNode, Commit, Row
    <2>2. CASE AbortTask(o)
      BY <2>2 DEF AbortTask, Commit, Row
    <2>3. CASE bind_migration_image(o)
      BY <2>3 DEF bind_migration_image, Commit, Row
    <2>4. CASE record_capture(n, o)
      BY <2>4 DEF record_capture, Commit, Row
    <2> QED BY ZenonT(60), <2>1, <2>2, <2>3, <2>4
  <1>3. CASE UNCHANGED catalog
    BY <1>1, <1>3, Calm
  <1>4. CASE \E e : /\ e.kind \notin {"migrate", "evidence", "removal"}
                    /\ catalog' = catalog \cup {e}
    <2>1. PICK e : /\ e.kind \notin {"migrate", "evidence", "removal"}
                   /\ catalog' = catalog \cup {e}
      BY <1>4
    <2>2. PICK R : R = {e}
      OBVIOUS
    <2>3. /\ \A r \in R : r.kind \notin {"migrate", "evidence", "removal"}
          /\ catalog' = catalog \cup R
      BY <2>1, <2>2
    <2> QED BY <1>1, <2>3, OtherRows DEF Abstract
  <1> QED BY ZenonT(60), <1>2, <1>3, <1>4

(* Every step keeps the invariant and is a step, or a stutter, of the       *)
(* abstract group.                                                          *)
LEMMA PlanStep ==
    ASSUME IInv, [Next]_vars
    PROVE  IInv' /\ [GM!Next]_Abstract
  <1>1. ASSUME NEW o, NEW n \in Nodes, Verb(n, o)
        PROVE  IInv' /\ [GM!Next]_Abstract
    <2>1. CASE HandToDestination(n, o) \/ plan_migration_image(n, o)
               \/ capture_migration_image(n, o) \/ install(n, o)
      BY <2>1, Calm DEF HandToDestination, plan_migration_image, capture_migration_image,
                        install, meta, group, local, faults
    <2> QED BY ZenonT(60), <1>1, <2>1, Proposed, Evidenced, Adopting, Recorded DEF Verb
  <1>2. ASSUME NEW n \in Nodes,
               Apply(n) \/ Handoff(n) \/ retire_removed(n) \/ Crash(n) \/ Lose(n)
        PROVE  IInv' /\ [GM!Next]_Abstract
    BY <1>2, Calm DEF Apply, Handoff, retire_removed, Crash, Lose, meta, group, local, faults
  <1>3. ASSUME NEW n \in Nodes, Elect(n)
        PROVE  IInv' /\ [GM!Next]_Abstract
    <2>1. UNCHANGED <<input, catalog, voters, adopted>> /\ pending' \in {pending, NoChange}
      BY <1>3 DEF Elect, meta, local
    <2>2. CASE pending' = pending
      BY ZenonT(60), <2>1, <2>2, Calm
    <2>3. CASE pending' = NoChange
      <3>1. Ready' = Ready /\ Removed(catalog)' = Removed(catalog)
        BY <2>1 DEF Ready, Removed, Has
      <3>2. PendingSound'
        BY <2>3 DEF PendingSound, NoChange
      <3> QED BY ZenonT(60), <2>1, <3>1, <3>2 DEF IInv, VotersSound, MigrationsSound, ImagesSound, Abstract
    <2> QED BY <2>1, <2>2, <2>3
  <1>4. ASSUME NEW n \in Nodes, NEW x \in Nodes, Repair(n, x) \/ DrainMove(x)
        PROVE  IInv' /\ [GM!Next]_Abstract
    <2>1. RepairOperation(x) \in OpIds /\ MoveOperation(x) \in OpIds
      BY DEF RepairOperation, MoveOperation, OpIds
    <2>2. PICK o \in OpIds : \E d : add_replica(o, d, "move", x)
      BY <1>4, <2>1 DEF Repair, DrainMove
    <2>3. PICK d : add_replica(o, d, "move", x)
      BY <2>2
    <2> QED BY <2>3, AddReplica DEF Abstract
  <1>5. ASSUME NEW i \in Ops, NEW d, NEW m \in input.modes, NEW s,
               Submit(<<"op", i>>, d, m, s)
        PROVE  IInv' /\ [GM!Next]_Abstract
    <2>1. <<"op", i>> \in OpIds
      BY DEF OpIds
    <2>2. m \in {"bare", "add", "move"}
      BY DEF IInv, ScenarioShape
    <2>3. add_replica(<<"op", i>>, d, m, s)
      BY <1>5 DEF Submit
    <2> QED BY <2>1, <2>2, <2>3, AddReplica DEF Abstract
  <1>6. CASE Progress
    BY ZenonT(60), <1>1, <1>2, <1>4, <1>6, Changed, Decided, Recorded, ReplicaAssumption DEF Progress
  <1>7. CASE Operator
    <2>1. input.drained \subseteq Nodes
      BY DEF IInv, ScenarioShape
    <2> QED BY ZenonT(60), <1>5, <1>7, <2>1, Recorded, ReplicaAssumption DEF Operator
  <1>8. CASE \E n \in input.losable : Lose(n)
    <2>1. input.losable \subseteq Nodes
      BY DEF IInv, ScenarioShape
    <2> QED BY <1>2, <1>8, <2>1
  <1>9. CASE UNCHANGED vars
    BY <1>9, Calm DEF vars, meta, group, local, faults
  <1> QED BY ZenonT(60), <1>2, <1>3, <1>6, <1>7, <1>8, <1>9 DEF Next

(* The initial state satisfies the invariant and is one of the abstract one. *)
LEMMA PlanInit == Init => IInv /\ GM!Init
  <1> SUFFICES ASSUME Init PROVE IInv /\ GM!Init
    OBVIOUS
  <1>1. Ready = {} /\ Removed(catalog) = {}
    BY DEF Init, Ready, Removed, Has
  <1>2. input \in ScenarioShape /\ VotersSound
    BY ReplicaAssumption DEF Init, VotersSound
  <1>3. PendingSound
    BY DEF Init, PendingSound, NoChange
  <1>4. MigrationsSound /\ ImagesSound
    BY DEF Init, MigrationsSound, ImagesSound
  <1> QED BY <1>1, <1>2, <1>3, <1>4 DEF IInv, GM!Init, Init

(* The configuration never has fewer than three voters, whatever the number *)
(* of stores and operations, however stale the catalogs the verbs of        *)
(* runtime.rs read, and whichever proposals elections drop.                 *)
THEOREM VotersNeverBelowFloor == Spec => []VoterFloor
  <1>1. IInv /\ [Next]_vars => IInv'
    BY PlanStep
  <1>2. IInv => VoterFloor
    BY DEF IInv, VotersSound, VoterFloor
  <1> QED BY PlanInit, <1>1, <1>2, PTL DEF Spec

(* The replica plans implement the abstract group membership: a store votes *)
(* only with evidence of the image it serves, leaves only by a committed    *)
(* removal decision above the floor, and a creation store never comes back. *)
THEOREM PlansImplementMembership == Spec => Membership
  <1>1. IInv /\ [Next]_vars => IInv'
    BY PlanStep
  <1>2. IInv /\ [Next]_vars => [GM!Next]_(GM!membership)
    BY PlanStep DEF GM!membership, Abstract
  <1> QED BY PlanInit, <1>1, <1>2, PTL DEF Spec, Membership, GM!Spec
============================================================================
