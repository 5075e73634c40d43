------------------------------ MODULE ApplyPath ------------------------------
(***************************************************************************)
(* Ordered apply and exact apply receipts on one replica: the apply loop   *)
(* of the pump (crates/raft/src/driver.rs), the state machine it feeds     *)
(* (state_machine.rs, state_machine/raw_group.rs), the bounded receipt     *)
(* rings, the unified watermark, and the three kinds of waiter that read   *)
(* them: wait_applied, the asynchronous registry (async_apply.rs) and      *)
(* wait_conf_applied.                                                      *)
(*                                                                         *)
(* A proposal is named by the (term, index) it was appended at.  Whether   *)
(* that position commits, is taken over by another leader, is applied and  *)
(* evicted from the ring, or is lost to a failure races with the waiter.   *)
(*                                                                         *)
(* raft-rs is external: one log whose uncommitted suffix a new leader may  *)
(* replace and whose committed prefix is final.                            *)
(***************************************************************************)
EXTENDS Integers, FiniteSets

CONSTANTS
    AsyncWaiters, SyncWaiters, ConfWaiters, \* proposers, by how they wait
    MaxProposals, \* bound on the proposers that propose
    MaxIndex,     \* bound on the log
    MaxTerm,      \* bound on elections
    MaxEpoch,     \* bound on the region epoch a catalog entry installs
    MaxGroup,     \* MAX_RAW_GROUP_ENTRIES
    RingSize,     \* APPLIED_RING
    ReceiptSize,  \* CONF_RECEIPTS
    MaxRequests,  \* MAX_REQUESTS of the asynchronous registry
    MaxCrashes    \* bound on restarts

Waiters == AsyncWaiters \cup SyncWaiters \cup ConfWaiters
Indexes == 1..MaxIndex
Terms == 1..MaxTerm
Epochs == 0..MaxEpoch

ASSUME ApplyPathAssumption ==
    /\ MaxIndex \in Nat /\ MaxTerm \in Nat \ {0} /\ MaxEpoch \in Nat
    /\ MaxGroup \in Nat \ {0} /\ RingSize \in Nat \ {0}
    /\ ReceiptSize \in Nat \ {0} /\ MaxRequests \in Nat \ {0} /\ MaxCrashes \in Nat
    /\ MaxProposals \in Nat /\ IsFiniteSet(Waiters)
    /\ AsyncWaiters \cap SyncWaiters = {}
    /\ AsyncWaiters \cap ConfWaiters = {} /\ SyncWaiters \cap ConfWaiters = {}

\* "raw": a fenced Raw write carrying the epoch its proposer expects;
\* "catalog": an entry that installs an epoch; "conf": a membership change.
Kinds == {"noop", "raw", "catalog", "conf"}
Entries == [term : Terms, kind : Kinds, epoch : Epochs]
Outcomes == {"applied", "rejected"}
Answers == {"none", "applied", "rejected", "replaced", "unconfirmed", "failed",
            "overwritten", "refused"}

VARIABLES
    \* external: Raft, seen from this node
    log, last, committed, term, leads,
    \* the engine, durable: one atomic batch carries data and watermark
    stored,        \* durable applied position
    epoch,         \* region epoch in the catalog rows
    writes,        \* how often the batch of an index was made durable
    confApplied,   \* index of the durable ConfState
    \* MemStateMachine and NodeDriver, volatile
    smApplied, ring, receipts, driverApplied, fatal, stopped,
    \* the pump's turn
    pc, taken, cursor, batchEnd, held, kept,
    \* AsyncApplies
    queued, inFlight,
    \* proposers
    at,            \* position of the proposal, [term, index]
    wpc,           \* where its proposer stands
    wmPassed,      \* the watermark snapshot of a synchronous waiter
    reply,         \* what the owner sent to an open ticket
    answer,        \* what the proposer was told
    crashes

raftVars == <<log, last, committed, term, leads>>
diskVars == <<stored, epoch, writes, confApplied>>
driverVars == <<smApplied, ring, receipts, driverApplied, fatal, stopped>>
turnVars == <<pc, taken, cursor, batchEnd, held, kept>>
registryVars == <<queued, inFlight>>
callerVars == <<at, wpc, wmPassed, reply, answer>>
vars == <<raftVars, diskVars, driverVars, turnVars, registryVars, callerVars, crashes>>

NoEntry == [term |-> 0, kind |-> "none", epoch |-> 0]
Nowhere == [term |-> 0, index |-> 0]
RingEntries == [index : Indexes, term : Terms, outcome : Outcomes]
WaiterStates == {"new", "reserved", "proposed", "open", "closed", "look", "ring",
                 "missed", "done"}

TypeOK ==
    /\ log \in [Indexes -> Entries \cup {NoEntry}]
    /\ last \in 0..MaxIndex /\ committed \in 0..last /\ term \in 0..MaxTerm
    /\ leads \in BOOLEAN
    /\ stored \in 0..MaxIndex /\ epoch \in Epochs /\ confApplied \in 0..MaxIndex
    /\ writes \in [Indexes -> Nat]
    /\ smApplied \in 0..MaxIndex
    /\ ring \subseteq RingEntries
    /\ receipts \subseteq [index : Indexes, term : Terms]
    /\ driverApplied \in [term : 0..MaxTerm, index : 0..MaxIndex]
    /\ fatal \in BOOLEAN /\ stopped \in BOOLEAN
    /\ pc \in {"idle", "apply", "receipt", "poison", "fatal", "service", "serve", "stopped"}
    /\ taken \in 0..MaxIndex /\ cursor \in 0..MaxIndex /\ batchEnd \in 0..MaxIndex
    /\ held \subseteq AsyncWaiters /\ kept \subseteq AsyncWaiters
    /\ queued \subseteq AsyncWaiters
    /\ inFlight \in Int
    /\ at \in [Waiters -> [term : 0..MaxTerm, index : 0..MaxIndex]]
    /\ wpc \in [Waiters -> WaiterStates]
    /\ wmPassed \in [Waiters -> BOOLEAN]
    /\ reply \in [AsyncWaiters -> Answers]
    /\ answer \in [Waiters -> Answers]
    /\ crashes \in 0..MaxCrashes

Init ==
    /\ log = [i \in Indexes |-> NoEntry] /\ last = 0 /\ committed = 0
    /\ term = 0 /\ leads = FALSE
    /\ stored = 0 /\ epoch = 0 /\ confApplied = 0
    /\ writes = [i \in Indexes |-> 0]
    /\ smApplied = 0 /\ ring = {} /\ receipts = {} /\ driverApplied = Nowhere
    /\ fatal = FALSE /\ stopped = FALSE
    /\ pc = "idle" /\ taken = 0 /\ cursor = 0 /\ batchEnd = 0 /\ held = {} /\ kept = {}
    /\ queued = {} /\ inFlight = 0
    /\ at = [w \in Waiters |-> Nowhere]
    /\ wpc = [w \in Waiters |-> "new"]
    /\ wmPassed = [w \in Waiters |-> FALSE]
    /\ reply = [w \in AsyncWaiters |-> "none"]
    /\ answer = [w \in Waiters |-> "none"]
    /\ crashes = 0

(***************************************************************************)
(* Raft, external.                                                         *)
(***************************************************************************)
Keep(n) == [i \in Indexes |-> IF i <= n THEN log[i] ELSE NoEntry]

\* This node wins an election and appends the term's barrier.
Elect ==
    /\ ~leads /\ ~fatal /\ term < MaxTerm /\ last < MaxIndex
    /\ term' = term + 1 /\ leads' = TRUE
    /\ last' = last + 1
    /\ log' = [log EXCEPT ![last + 1] = [term |-> term + 1, kind |-> "noop", epoch |-> 0]]
    /\ UNCHANGED <<committed, diskVars, driverVars, turnVars, registryVars, callerVars, crashes>>

\* Another node wins: it keeps some prefix that holds every committed entry.
Depose ==
    \E n \in committed..last :
        /\ term < MaxTerm /\ n < MaxIndex
        /\ term' = term + 1 /\ leads' = FALSE
        /\ last' = n + 1
        /\ log' = [Keep(n) EXCEPT ![n + 1] = [term |-> term + 1, kind |-> "noop", epoch |-> 0]]
        /\ UNCHANGED <<committed, diskVars, driverVars, turnVars, registryVars, callerVars,
                       crashes>>

\* The leader, wherever it is, appends an entry nobody here waits for.
Replicate ==
    \E k \in Kinds \ {"noop"}, e \in Epochs :
        /\ term > 0 /\ last < MaxIndex
        /\ k = "conf" => e = 0
        /\ last' = last + 1
        /\ log' = [log EXCEPT ![last + 1] = [term |-> term, kind |-> k, epoch |-> e]]
        /\ UNCHANGED <<committed, term, leads, diskVars, driverVars, turnVars, registryVars,
                       callerVars, crashes>>

\* A quorum holds an entry of the current term: it and all before it are final.
Commit ==
    \E k \in (committed + 1)..last :
        /\ log[k].term = term
        /\ committed' = k
        /\ UNCHANGED <<log, last, term, leads, diskVars, driverVars, turnVars, registryVars,
                       callerVars, crashes>>

(***************************************************************************)
(* The apply loop of step_inner.  One turn drains a bounded committed run  *)
(* and processes it strictly in log order.                                 *)
(***************************************************************************)
TakeReady ==
    \E k \in (taken + 1)..committed :
        /\ pc = "idle" /\ ~stopped
        /\ pc' = "apply" /\ cursor' = taken /\ taken' = k /\ batchEnd' = k
        /\ UNCHANGED <<raftVars, diskVars, driverVars, held, kept, registryVars, callerVars,
                       crashes>>

\* Mutant: a turn without committed entries returns before the service pass.
TakeNothingReturns ==
    pc = "idle" /\ ~stopped /\ taken = committed /\ UNCHANGED vars

\* A turn with nothing to apply still services the waiters.
TakeNothing ==
    /\ pc = "idle" /\ ~stopped /\ taken = committed
    /\ pc' = "service"
    /\ UNCHANGED <<raftVars, diskVars, driverVars, taken, cursor, batchEnd, held, kept,
                   registryVars, callerVars, crashes>>

Next1 == cursor + 1
IsCommand(i) == log[i].kind \in {"raw", "catalog"}

\* A barrier never reaches the state machine.
ApplyNoop ==
    /\ pc = "apply" /\ cursor < batchEnd /\ log[Next1].kind = "noop"
    /\ cursor' = Next1
    /\ UNCHANGED <<raftVars, diskVars, driverVars, pc, taken, batchEnd, held, kept,
                   registryVars, callerVars, crashes>>

\* Mutant: log replay does not stop at the recovered watermark.
AlreadyAppliedNever(i) == FALSE

\* An entry at or below the applied watermark was applied before a restart.
AlreadyApplied(i) == i <= smApplied

\* FenceAdjudicator::is_fresh_write against the epoch the log established.
Fresh(i) == log[i].kind = "raw" => log[i].epoch >= epoch

\* push_ring: the newest RingSize entries survive.
PushRing(new) ==
    LET all == ring \cup new
    IN  {e \in all : Cardinality({f \in all : f.index > e.index}) < RingSize}

Receipt(i, o) == [index |-> i, term |-> log[i].term, outcome |-> o]

\* The commands one apply call takes: a single one, or a run of Raw writes
\* that are all above the applied watermark.  Byte limits end a run anywhere.
IsGroup(i, k) ==
    /\ k <= batchEnd /\ k < i + MaxGroup
    /\ k = i \/ (~AlreadyApplied(i) /\ \A j \in i..k : log[j].kind = "raw")
    /\ IsCommand(i)

\* Mutant: the durable watermark is one past the batch.
WriteAppliedPast(i, k) ==
    /\ stored' = k + 1
    /\ UNCHANGED <<writes, epoch>>

\* write_applied: the data of i..k and the watermark k in one durable batch.
WriteApplied(i, k) ==
    /\ stored' = k
    /\ writes' = [j \in Indexes |-> IF j \in i..k /\ Fresh(j) THEN writes[j] + 1 ELSE writes[j]]
    /\ epoch' = IF log[i].kind = "catalog" THEN log[i].epoch ELSE epoch

\* An entry at or below the watermark is skipped but still gets a receipt.
ApplyRedelivered ==
    /\ pc = "apply" /\ cursor < batchEnd /\ IsCommand(Next1) /\ AlreadyApplied(Next1)
    /\ ring' = PushRing({Receipt(Next1, "applied")})
    /\ cursor' = Next1
    /\ UNCHANGED <<raftVars, diskVars, smApplied, receipts, driverApplied, fatal, stopped, pc,
                   taken, batchEnd, held, kept, registryVars, callerVars, crashes>>

\* apply_at and apply_raw_group.
ApplyCommands ==
    \E k \in Indexes :
        /\ pc = "apply" /\ cursor < batchEnd
        /\ k > cursor /\ IsGroup(Next1, k) /\ ~AlreadyApplied(Next1)
        /\ WriteApplied(Next1, k)
        /\ smApplied' = k
        /\ ring' = PushRing({Receipt(j, IF Fresh(j) THEN "applied" ELSE "rejected") :
                                 j \in Next1..k})
        /\ cursor' = k
        /\ UNCHANGED <<raftVars, confApplied, receipts, driverApplied, fatal, stopped, pc, taken,
                       batchEnd, held, kept, registryVars, callerVars, crashes>>

\* Mutant: an entry that fails is skipped and the loop goes on.
OnErrorSkip(k) == cursor' = k /\ UNCHANGED pc

\* An entry that fails ends the turn; nothing behind it is processed.
OnError(k) == pc' = "poison" /\ UNCHANGED cursor

\* The engine refuses the batch, or reports an error after making it durable.
ApplyFails ==
    \E k \in Indexes :
        /\ pc = "apply" /\ cursor < batchEnd
        /\ k > cursor /\ IsGroup(Next1, k) /\ ~AlreadyApplied(Next1)
        /\ WriteApplied(Next1, k) \/ UNCHANGED <<stored, writes, epoch>>
        /\ OnError(k)
        /\ UNCHANGED <<raftVars, confApplied, driverVars, taken, batchEnd, held, kept,
                       registryVars, callerVars, crashes>>

\* The peer applies a membership change and persists its ConfState.
ApplyConf ==
    /\ pc = "apply" /\ cursor < batchEnd /\ log[Next1].kind = "conf"
    /\ confApplied' = IF Next1 > confApplied THEN Next1 ELSE confApplied
    /\ pc' = "receipt"
    /\ UNCHANGED <<raftVars, stored, epoch, writes, driverVars, taken, cursor, batchEnd, held,
                   kept, registryVars, callerVars, crashes>>

ConfFails ==
    /\ pc = "apply" /\ cursor < batchEnd /\ log[Next1].kind = "conf"
    /\ Next1 > confApplied
    /\ OnError(Next1)
    /\ UNCHANGED <<raftVars, diskVars, driverVars, taken, batchEnd, held, kept,
                   registryVars, callerVars, crashes>>

\* Only then does the driver file the receipt.
PushConfReceipt ==
    /\ pc = "receipt"
    /\ LET all == receipts \cup {[index |-> Next1, term |-> log[Next1].term]}
       IN  receipts' = {r \in all : Cardinality({s \in all : s.index > r.index}) < ReceiptSize}
    /\ cursor' = Next1 /\ pc' = "apply"
    /\ UNCHANGED <<raftVars, diskVars, smApplied, ring, driverApplied, fatal, stopped, taken,
                   batchEnd, held, kept, registryVars, callerVars, crashes>>

\* publish_driver_applied at the tail of a run in which every entry succeeded.
Publish ==
    /\ pc = "apply" /\ cursor = batchEnd
    /\ driverApplied' = IF batchEnd > driverApplied.index
                        THEN [term |-> log[batchEnd].term, index |-> batchEnd]
                        ELSE driverApplied
    /\ pc' = "service"
    /\ UNCHANGED <<raftVars, diskVars, smApplied, ring, receipts, fatal, stopped, taken, cursor,
                   batchEnd, held, kept, registryVars, callerVars, crashes>>

(***************************************************************************)
(* AsyncApplies: slots, the owner's service pass, close.                   *)
(***************************************************************************)
\* Mutant: a completed request keeps its admission slot.
FinishLeaks(F, a) ==
    /\ inFlight' = inFlight
    /\ reply' = [w \in AsyncWaiters |-> IF w \in F /\ wpc[w] = "open" THEN a ELSE reply[w]]

\* Request::finish: every request of F is answered and its slot is free again.
Finish(F, a) ==
    /\ inFlight' = inFlight - Cardinality(F)
    /\ reply' = [w \in AsyncWaiters |-> IF w \in F /\ wpc[w] = "open" THEN a ELSE reply[w]]

\* AsyncApplies::close.
CloseApplies ==
    /\ stopped' = TRUE
    /\ queued' = {}
    /\ Finish(queued, "failed")

\* poison closes the registry first and only then records the failure.
PoisonClose ==
    /\ pc = "poison"
    /\ CloseApplies
    /\ pc' = "fatal"
    /\ UNCHANGED <<raftVars, diskVars, smApplied, ring, receipts, driverApplied, fatal, taken,
                   cursor, batchEnd, held, kept, at, wpc, wmPassed, answer, crashes>>

PoisonRecord ==
    /\ pc = "fatal"
    /\ fatal' = TRUE /\ pc' = "stopped"
    /\ UNCHANGED <<raftVars, diskVars, smApplied, ring, receipts, driverApplied, stopped, taken,
                   cursor, batchEnd, held, kept, registryVars, callerVars, crashes>>

\* NodeDriver::stop, from any thread; the pump leaves at its next turn.
Stop ==
    /\ ~stopped
    /\ CloseApplies
    /\ UNCHANGED <<raftVars, diskVars, smApplied, ring, receipts, driverApplied, fatal, turnVars,
                   at, wpc, wmPassed, answer, crashes>>

LeaveLoop ==
    /\ pc = "idle" /\ stopped
    /\ pc' = "stopped"
    /\ UNCHANGED <<raftVars, diskVars, driverVars, taken, cursor, batchEnd, held, kept,
                   registryVars, callerVars, crashes>>

\* A receipt at the proposal's index is the proposal's own when the terms agree.
Matches(e, w) == e.term = at[w].term

\* Mutant: a receipt that left the ring counts as one that never was.
EvictedNever(i) == FALSE

\* inspect_applied under the receipt ring's lock.  A full ring above the
\* position cannot tell an evicted receipt from one that never was.
Evicted(i) == Cardinality(ring) = RingSize /\ \A e \in ring : i < e.index

Discriminate(w, passed) ==
    LET hits == {e \in ring : e.index = at[w].index}
    IN  IF hits # {}
        THEN IF \E e \in hits : Matches(e, w)
             THEN (CHOOSE e \in hits : TRUE).outcome ELSE "replaced"
        ELSE IF Evicted(at[w].index) THEN "unconfirmed"
        ELSE IF smApplied >= at[w].index \/ passed THEN "replaced"
        ELSE "none"

\* Both waits of a pump turn inspect on the pump itself: nothing moves meanwhile.
Inspect(w) ==
    IF fatal THEN "failed" ELSE Discriminate(w, driverApplied.index >= at[w].index)

ServiceTake ==
    /\ pc = "service"
    /\ held' = queued /\ kept' = {} /\ queued' = {} /\ pc' = "serve"
    /\ UNCHANGED <<raftVars, diskVars, driverVars, taken, cursor, batchEnd, inFlight, callerVars,
                   crashes>>

\* A dropped ticket frees its slot, a verdict or a passed deadline answers.
ServiceOne ==
    \E w \in held :
        /\ pc = "serve"
        /\ held' = held \ {w}
        /\ \/ /\ wpc[w] = "closed"
              /\ Finish({w}, "none") /\ UNCHANGED kept
           \/ /\ wpc[w] # "closed" /\ Inspect(w) # "none"
              /\ Finish({w}, Inspect(w)) /\ UNCHANGED kept
           \/ /\ wpc[w] # "closed" /\ Inspect(w) = "none"
              /\ Finish({w}, "unconfirmed") /\ UNCHANGED kept
           \/ /\ wpc[w] # "closed" /\ Inspect(w) = "none"
              /\ kept' = kept \cup {w} /\ UNCHANGED <<inFlight, reply>>
        /\ UNCHANGED <<raftVars, diskVars, driverVars, pc, taken, cursor, batchEnd, queued, at,
                       wpc, wmPassed, answer, crashes>>

\* Mutant: a stop during the service pass goes unnoticed.
MayRequeueAlways == TRUE

MayRequeue == ~stopped

\* Requests that wait on are requeued unless the registry closed meanwhile.
ServiceEnd ==
    /\ pc = "serve" /\ held = {}
    /\ IF MayRequeue THEN queued' = queued \cup kept /\ UNCHANGED <<inFlight, reply>>
       ELSE Finish(kept, "failed") /\ UNCHANGED queued
    /\ kept' = {} /\ pc' = "idle"
    /\ UNCHANGED <<raftVars, diskVars, driverVars, taken, cursor, batchEnd, held, at, wpc,
                   wmPassed, answer, crashes>>

(***************************************************************************)
(* Proposers.                                                              *)
(***************************************************************************)
\* propose_in_term: leadership is compared under the lock that appends.
Append(w, k, e) ==
    /\ leads /\ ~fatal /\ last < MaxIndex
    /\ last' = last + 1
    /\ log' = [log EXCEPT ![last + 1] = [term |-> term, kind |-> k, epoch |-> e]]
    /\ at' = [at EXCEPT ![w] = [term |-> term, index |-> last + 1]]
    /\ UNCHANGED <<committed, term, leads>>

Move(w, s) == wpc' = [wpc EXCEPT ![w] = s]
Tell(w, a) == answer' = [answer EXCEPT ![w] = a] /\ Move(w, "done")

\* A proposer that has not begun, while the bound allows another.
Begins(w) == wpc[w] = "new" /\ Cardinality({v \in Waiters : wpc[v] # "new"}) < MaxProposals

\* AsyncApplies::reserve, before the proposal.
Reserve(w) ==
    /\ Begins(w)
    /\ \/ /\ ~stopped /\ inFlight < MaxRequests
          /\ inFlight' = inFlight + 1 /\ Move(w, "reserved") /\ UNCHANGED answer
       \/ Tell(w, "refused") /\ UNCHANGED inFlight
    /\ UNCHANGED <<raftVars, diskVars, driverVars, turnVars, queued, at, wmPassed, reply, crashes>>

ProposeAsync(w) ==
    /\ wpc[w] = "reserved"
    /\ \/ /\ \E k \in {"raw", "catalog"}, e \in Epochs : Append(w, k, e)
          /\ Move(w, "proposed") /\ UNCHANGED <<inFlight, answer>>
       \/ /\ ~leads \/ fatal
          /\ inFlight' = inFlight - 1 /\ Tell(w, "refused") /\ UNCHANGED <<raftVars, at>>
    /\ UNCHANGED <<diskVars, driverVars, turnVars, queued, wmPassed, reply, crashes>>

\* Reservation::register; a stop that raced the proposal keeps its position.
Register(w) ==
    /\ wpc[w] = "proposed"
    /\ IF stopped
       THEN inFlight' = inFlight - 1 /\ Tell(w, "failed") /\ UNCHANGED queued
       ELSE queued' = queued \cup {w} /\ Move(w, "open") /\ UNCHANGED <<inFlight, answer>>
    /\ UNCHANGED <<raftVars, diskVars, driverVars, turnVars, at, wmPassed, reply, crashes>>

\* ApplyTicket::wait: a reply that is there wins over the deadline.
Receive(w) ==
    /\ wpc[w] = "open" /\ reply[w] # "none"
    /\ Tell(w, reply[w])
    /\ UNCHANGED <<raftVars, diskVars, driverVars, turnVars, registryVars, at, wmPassed, reply,
                   crashes>>

\* Deadline or cancellation closes the receiver.
CloseTicket(w) ==
    /\ wpc[w] = "open" /\ reply[w] = "none"
    /\ answer' = [answer EXCEPT ![w] = "unconfirmed"] /\ Move(w, "closed")
    /\ UNCHANGED <<raftVars, diskVars, driverVars, turnVars, registryVars, at, wmPassed, reply,
                   crashes>>

ProposeSync(w) ==
    /\ Begins(w)
    /\ \/ /\ \E k \in {"raw", "catalog"}, e \in Epochs : Append(w, k, e)
          /\ Move(w, "look") /\ UNCHANGED answer
       \/ /\ ~leads \/ fatal
          /\ Tell(w, "refused") /\ UNCHANGED <<raftVars, at>>
    /\ UNCHANGED <<diskVars, driverVars, turnVars, registryVars, wmPassed, reply, crashes>>

\* inspect_applied, first half: failure flag, then the watermark snapshot.
LookWatermark(w) ==
    /\ wpc[w] = "look"
    /\ IF fatal THEN Tell(w, "failed") /\ UNCHANGED wmPassed
       ELSE /\ wmPassed' = [wmPassed EXCEPT ![w] = driverApplied.index >= at[w].index]
            /\ Move(w, "ring") /\ UNCHANGED answer
    /\ UNCHANGED <<raftVars, diskVars, driverVars, turnVars, registryVars, at, reply, crashes>>

\* Second half, under the ring's lock; no verdict means wait again or expire.
LookRing(w) ==
    /\ wpc[w] = "ring"
    /\ LET v == Discriminate(w, wmPassed[w])
       IN  \/ v # "none" /\ Tell(w, v)
           \/ v = "none" /\ (Tell(w, "unconfirmed") \/ (Move(w, "look") /\ UNCHANGED answer))
    /\ wmPassed' = [wmPassed EXCEPT ![w] = FALSE]
    /\ UNCHANGED <<raftVars, diskVars, driverVars, turnVars, registryVars, at, reply, crashes>>

\* propose_conf_change_traced; raft-rs appends an empty entry in place of a
\* change it refuses while an earlier one is unapplied.
ProposeConf(w) ==
    /\ Begins(w)
    /\ \E k \in {"conf", "noop"} : Append(w, k, 0)
    /\ Move(w, "look")
    /\ UNCHANGED <<diskVars, driverVars, turnVars, registryVars, wmPassed, reply, answer, crashes>>

\* wait_conf_applied, first read: the receipt ring.
LookReceipt(w) ==
    /\ wpc[w] = "look"
    /\ LET hits == {r \in receipts : r.index = at[w].index}
       IN  IF fatal THEN Tell(w, "failed")
           ELSE IF \E r \in hits : Matches(r, w) THEN Tell(w, "applied")
           ELSE IF hits # {} THEN Tell(w, "overwritten")
           ELSE Move(w, "missed") /\ UNCHANGED answer
    /\ UNCHANGED <<raftVars, diskVars, driverVars, turnVars, registryVars, at, wmPassed, reply,
                   crashes>>

\* Second read, after the receipt lock is gone: has the position been passed?
LookPassed(w) ==
    /\ wpc[w] = "missed"
    /\ IF confApplied > at[w].index \/ smApplied >= at[w].index
       THEN Tell(w, "overwritten")
       ELSE Tell(w, "unconfirmed") \/ (Move(w, "look") /\ UNCHANGED answer)
    /\ UNCHANGED <<raftVars, diskVars, driverVars, turnVars, registryVars, at, wmPassed, reply,
                   crashes>>

(***************************************************************************)
(* The process dies at any point and starts again: with_engine recovers    *)
(* the watermark from the engine, the peer its ConfState index, and the    *)
(* committed log is delivered from its start.  Waiters die with it; what   *)
(* was never persisted of the log's uncommitted suffix is gone.            *)
(***************************************************************************)
\* Answers that say something about the log outlive the process.
Claims(w) == answer[w] \in Outcomes \cup {"replaced", "overwritten"}

Crash ==
    \E n \in committed..last :
        /\ crashes < MaxCrashes
        /\ crashes' = crashes + 1
        /\ log' = Keep(n) /\ last' = n /\ leads' = FALSE
        /\ smApplied' = stored /\ ring' = {} /\ receipts' = {} /\ driverApplied' = Nowhere
        /\ fatal' = FALSE /\ stopped' = FALSE
        /\ pc' = "idle" /\ taken' = 0 /\ cursor' = 0 /\ batchEnd' = 0 /\ held' = {} /\ kept' = {}
        /\ queued' = {} /\ inFlight' = 0
        /\ wpc' = [w \in Waiters |-> IF wpc[w] = "new" THEN "new" ELSE "done"]
        /\ wmPassed' = [w \in Waiters |-> FALSE]
        /\ reply' = [w \in AsyncWaiters |-> "none"]
        /\ at' = [w \in Waiters |-> IF Claims(w) THEN at[w] ELSE Nowhere]
        /\ answer' = [w \in Waiters |-> IF Claims(w) THEN answer[w] ELSE "none"]
        /\ UNCHANGED <<committed, term, diskVars>>

Raft == Elect \/ Depose \/ Replicate \/ Commit
Pump ==
    \/ TakeReady \/ TakeNothing \/ ApplyNoop \/ ApplyRedelivered \/ ApplyCommands
    \/ ApplyConf \/ PushConfReceipt \/ Publish \/ PoisonClose \/ PoisonRecord \/ LeaveLoop
    \/ ServiceTake \/ ServiceOne \/ ServiceEnd
Failure == ApplyFails \/ ConfFails \/ Stop \/ Crash
AsyncCaller(w) == Reserve(w) \/ ProposeAsync(w) \/ Register(w) \/ Receive(w) \/ CloseTicket(w)
SyncCaller(w) == ProposeSync(w) \/ LookWatermark(w) \/ LookRing(w)
ConfCaller(w) == ProposeConf(w) \/ LookReceipt(w) \/ LookPassed(w)

Next ==
    \/ Raft \/ Pump \/ Failure
    \/ \E w \in AsyncWaiters : AsyncCaller(w)
    \/ \E w \in SyncWaiters : SyncCaller(w)
    \/ \E w \in ConfWaiters : ConfCaller(w)

Spec == Init /\ [][Next]_vars

\* The pump is woken by every registration and every Raft event and leaves its
\* loop only when stopped (spawn): its steps are weakly fair.  Nothing is
\* assumed of Raft, of the callers or of the clock.
FairSpec == Spec /\ WF_vars(Pump)

(***************************************************************************)
(* Properties.                                                             *)
(***************************************************************************)
\* The epoch the log has established after its first i entries is e.
EpochAfter(i, e) ==
    \/ e = 0 /\ \A j \in 1..i : log[j].kind # "catalog"
    \/ \E j \in 1..i : /\ log[j].kind = "catalog" /\ log[j].epoch = e
                       /\ \A m \in (j + 1)..i : log[m].kind # "catalog"

\* The verdict every replica must reach on entry i, from the log alone.
Accepted(i) ==
    log[i].kind = "raw" => \E e \in Epochs : EpochAfter(i - 1, e) /\ log[i].epoch >= e

\* Exactly-once ordered apply: through grouping, failed writes, crashes and
\* replays, the engine holds the effect of each accepted command up to its
\* durable watermark exactly once, nothing of a rejected one and nothing above
\* the watermark, and the epoch the log prescribes (apply_at, apply_raw_group).
AppliedExactlyOnce ==
    /\ stored <= committed
    /\ EpochAfter(stored, epoch)
    /\ \A i \in Indexes :
           writes[i] = IF i <= stored /\ IsCommand(i) /\ Accepted(i) THEN 1 ELSE 0

Mine(w) == at[w].index <= committed /\ log[at[w].index].term = at[w].term

\* What a proposer is told is true: "applied" and "rejected" are the verdict on
\* its own committed entry, and "replaced", which invites a retry of a write
\* that is not idempotent, means another leader's entry is committed there
\* (inspect_applied: watermark snapshot, ring, eviction and both watermarks).
\* A membership proposer is told "applied" of its own change only, once it is
\* in the durable ConfState (wait_conf_applied).
ReceiptsTrue ==
    /\ \A w \in AsyncWaiters \cup SyncWaiters :
        /\ answer[w] \in Outcomes =>
               /\ Mine(w)
               /\ (answer[w] = "applied") = Accepted(at[w].index)
        /\ answer[w] = "replaced" => at[w].index <= committed /\ ~Mine(w)
    /\ \A w \in ConfWaiters :
        answer[w] = "applied" => Mine(w) /\ log[at[w].index].kind = "conf"
                                 /\ at[w].index <= confApplied

\* The unified watermark names a real committed entry, and everything at or
\* below it has been processed: commands are durable, membership is durable.
\* It never passes an entry that failed (publish_driver_applied, poison).
WatermarkContiguous ==
    LET w == driverApplied.index
    IN  w > 0 =>
            /\ w <= committed /\ log[w].term = driverApplied.term
            /\ \A i \in 1..w : /\ IsCommand(i) => i <= stored
                               /\ log[i].kind = "conf" => i <= confApplied

Holds(w) == wpc[w] \in {"reserved", "proposed"} \/ w \in queued \cup held \cup kept

\* An admission slot is held exactly from reservation to completion, whatever
\* races it: refused proposal, stop, timeout, poison (Reservation::drop).
SlotsExact == inFlight = Cardinality({w \in AsyncWaiters : Holds(w)}) /\ inFlight <= MaxRequests

\* A ticket whose owner will not look at it again has its reply: no stop or
\* failure in the middle of a service pass strands a waiter (close, service).
NoStrandedWaiter ==
    \A w \in AsyncWaiters :
        wpc[w] = "open" /\ reply[w] = "none" => w \in held \cup kept \/ (w \in queued /\ ~stopped)

\* A waiter registered on a position that is final is answered, also when the
\* position was applied before the registration (Reservation::register).
CommittedWaitSettles ==
    \A w \in AsyncWaiters :
        (wpc[w] = "open" /\ at[w].index <= committed) ~> (wpc[w] # "open" \/ reply[w] # "none")

\* "Position passed without a conf receipt: the slot went to a different
\* (non-conf or other-leader) entry", says wait_conf_applied of this verdict.
ConfOverwrittenTrue ==
    \A w \in ConfWaiters :
        answer[w] = "overwritten" =>
            ~(Mine(w) /\ log[at[w].index].kind = "conf")

\* NodeStatus: applied_term is the "term paired with applied_index; together
\* they identify the last real state-machine command".
StatusPairNamesCommand ==
    \A e \in ring : (\A f \in ring : f.index <= e.index) => e.term = log[smApplied].term
====
