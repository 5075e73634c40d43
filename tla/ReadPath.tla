------------------------------ MODULE ReadPath ------------------------------
(***************************************************************************)
(* Linearizable reads on one replica: the asynchronous ReadIndex registry  *)
(* (crates/raft/src/async_read.rs) and the pump turn that serves it        *)
(* (crates/raft/src/driver.rs).                                            *)
(*                                                                         *)
(* Callers register requests from any thread; one owner (the pump) seals a *)
(* bounded prefix into a group, asks Raft for one read index for the whole *)
(* group, and completes it once a quorum confirmed the index and the       *)
(* unified applied watermark covers it.  Deadlines, cancellation, stop and *)
(* storage failure race with every step of a turn.                         *)
(*                                                                         *)
(* raft-rs is external: what is kept of it is the index a leader records   *)
(* for a read, that only a live quorum of the same term acknowledges it,   *)
(* and that a leader which lost its term forgets the reads it was asked.   *)
(***************************************************************************)
EXTENDS Integers, FiniteSets

CONSTANTS
    Reads,        \* requests, named by their context (never reused in a process)
    MaxRequests,  \* MAX_REQUESTS, the admission bound of the registry
    TurnRequests, \* TURN_REQUESTS, the longest prefix one turn seals
    MaxIndex      \* bound on the cluster's committed index

ASSUME ReadPathAssumption ==
    /\ IsFiniteSet(Reads)
    /\ MaxRequests \in Nat \ {0}
    /\ TurnRequests \in Nat \ {0}
    /\ MaxIndex \in Nat

VARIABLES
    \* external: the group's Raft, seen from this node
    commit,         \* highest index committed anywhere in the group
    role,           \* "leader", "deposed" (leads in its own eyes only), "follower"
    termCommitted,  \* commit_to_current_term() of the term this node leads
    known,          \* committed index known to this node
    pending,        \* raft-rs read-only queue: context -> index recorded for it
    readStates,     \* quorum-confirmed contexts waiting in the peer's Ready
    peerFatal,      \* the peer failed a persistence step
    \* AsyncReads
    queued, active, members, confirmed, reserved, inFlight, localReserved, stopped,
    \* callers
    late,           \* unanswered requests whose absolute deadline passed
    ticket,         \* "new", "local" (LocalReadReservation), "open", "ok", "err"
    reply,          \* what the sender sent to an open ticket, "none" until then
    \* the pump
    pc, held,
    head,           \* the member whose context names the admitted group
    admission, chosen, closing,
    applied,        \* driver_applied.index, 0 while no position is proven
    \* history
    base            \* commit when an unfailed request was made

raftVars == <<commit, role, termCommitted, known, pending, readStates, peerFatal>>
registryVars == <<queued, active, members, confirmed, reserved, inFlight,
                  localReserved, stopped>>
callerVars == <<late, ticket, reply, base>>
pumpVars == <<pc, held, head, admission, chosen, closing, applied>>
vars == <<raftVars, registryVars, callerVars, pumpVars>>

None == -1
Replies == {"none", "ok", "err"}

TypeOK ==
    /\ commit \in Nat /\ known \in Nat /\ applied \in Nat
    /\ role \in {"leader", "deposed", "follower"}
    /\ termCommitted \in BOOLEAN /\ peerFatal \in BOOLEAN /\ stopped \in BOOLEAN
    /\ pending \in [Reads -> Nat \cup {None}]
    /\ readStates \in [Reads -> Nat \cup {None}]
    /\ queued \subseteq Reads /\ held \subseteq Reads /\ head \in Reads \cup {"none"}
    /\ active \subseteq Reads /\ reserved \subseteq Reads
    /\ members \in [Reads -> SUBSET Reads]
    /\ confirmed \in [Reads -> Nat \cup {None}]
    /\ inFlight \in Int /\ localReserved \in Int
    /\ late \subseteq Reads /\ closing \subseteq Reads
    /\ ticket \in [Reads -> {"new", "local", "open", "ok", "err"}]
    /\ reply \in [Reads -> Replies]
    /\ base \in [Reads -> Nat]
    /\ pc \in {"idle", "seal", "index", "publish", "drain", "apply", "complete",
               "finish", "stopped"}
    /\ admission \in {"none", "admitted", "deferred"}
    /\ chosen \in [Reads -> Replies]

Init ==
    /\ commit = 0 /\ known = 0 /\ applied = 0
    /\ role = "follower" /\ termCommitted = FALSE /\ peerFatal = FALSE
    /\ pending = [c \in Reads |-> None]
    /\ readStates = [c \in Reads |-> None]
    /\ queued = {} /\ active = {} /\ reserved = {}
    /\ members = [c \in Reads |-> {}]
    /\ confirmed = [c \in Reads |-> None]
    /\ inFlight = 0 /\ localReserved = 0 /\ stopped = FALSE
    /\ late = {}
    /\ ticket = [c \in Reads |-> "new"]
    /\ reply = [c \in Reads |-> "none"]
    /\ base = [c \in Reads |-> 0]
    /\ pc = "idle" /\ held = {} /\ head = "none" /\ admission = "none"
    /\ chosen = [c \in Reads |-> "none"]
    /\ closing = {}

(***************************************************************************)
(* Raft, external.  A committed write anywhere in the group raises commit; *)
(* while this node leads with a committed entry of its term it commits     *)
(* first, so its own committed index is the group's.                       *)
(***************************************************************************)
Commit ==
    /\ commit < MaxIndex
    /\ role = "leader" => termCommitted
    /\ commit' = commit + 1
    /\ known' = IF role = "leader" THEN commit + 1 ELSE known
    /\ UNCHANGED <<role, termCommitted, pending, readStates, peerFatal, registryVars,
                   callerVars, pumpVars>>

\* A follower learns the commit index from its leader.
Learn ==
    /\ role = "follower" /\ known < commit
    /\ known' = commit
    /\ UNCHANGED <<commit, role, termCommitted, pending, readStates, peerFatal,
                   registryVars, callerVars, pumpVars>>

Elect ==
    /\ role = "follower" /\ commit < MaxIndex
    /\ role' = "leader" /\ termCommitted' = FALSE
    /\ UNCHANGED <<commit, known, pending, readStates, peerFatal, registryVars,
                   callerVars, pumpVars>>

\* The election no-op commits; only now does commit_to_current_term() hold.
CommitNoop ==
    /\ role = "leader" /\ ~termCommitted /\ commit < MaxIndex
    /\ commit' = commit + 1 /\ known' = commit + 1
    /\ termCommitted' = TRUE
    /\ UNCHANGED <<role, pending, readStates, peerFatal, registryVars, callerVars, pumpVars>>

\* A newer term elects another node; this one does not know yet.
Depose ==
    /\ role = "leader"
    /\ role' = "deposed"
    /\ UNCHANGED <<commit, known, termCommitted, pending, readStates, peerFatal,
                   registryVars, callerVars, pumpVars>>

\* It steps down and forgets every unanswered read; their contexts never confirm.
StepDown ==
    /\ role \in {"leader", "deposed"}
    /\ role' = "follower" /\ termCommitted' = FALSE
    /\ pending' = [c \in Reads |-> None]
    /\ UNCHANGED <<commit, known, readStates, peerFatal, registryVars, callerVars, pumpVars>>

\* A quorum still in this leader's term acknowledges the read's heartbeat. The
\* read state waits in the peer, possibly past the loss of leadership.
QuorumAck(c) ==
    /\ role = "leader" /\ pending[c] # None
    /\ pending' = [pending EXCEPT ![c] = None]
    /\ readStates' = [readStates EXCEPT ![c] = pending[c]]
    /\ UNCHANGED <<commit, role, known, termCommitted, peerFatal, registryVars,
                   callerVars, pumpVars>>

\* A persistence step of another thread (log truncation) fails the peer.
PeerFails ==
    /\ ~peerFatal /\ peerFatal' = TRUE
    /\ readStates' = [c \in Reads |-> None]
    /\ UNCHANGED <<commit, role, known, termCommitted, pending, registryVars, callerVars,
                   pumpVars>>

(***************************************************************************)
(* Callers.                                                                *)
(***************************************************************************)
\* AsyncReads::register and reserve_local refuse after a stop, at the admission
\* bound, or past the deadline the caller brought; nothing is recorded.
RegisterRefused(c) ==
    /\ ticket[c] = "new"
    /\ ticket' = [ticket EXCEPT ![c] = "err"]
    /\ UNCHANGED <<late, reply, base, raftVars, registryVars, pumpVars>>

Admit(c, as) ==
    /\ ticket[c] = "new"
    /\ ~stopped /\ inFlight < MaxRequests
    /\ c \notin active /\ c \notin reserved
    /\ reserved' = reserved \cup {c}
    /\ inFlight' = inFlight + 1
    /\ ticket' = [ticket EXCEPT ![c] = as]
    /\ base' = [base EXCEPT ![c] = commit]

Register(c) ==
    /\ Admit(c, "open")
    /\ queued' = queued \cup {c}
    /\ UNCHANGED <<active, members, confirmed, localReserved, stopped, late, reply,
                   raftVars, pumpVars>>

\* reserve_local: the slot of a lease attempt that may fall back to a quorum read.
ReserveLocal(c) ==
    /\ Admit(c, "local")
    /\ localReserved' = localReserved + 1
    /\ UNCHANGED <<queued, active, members, confirmed, stopped, late, reply, raftVars,
                   pumpVars>>

\* LocalReadReservation::submit keeps the slot, the context and the deadline.
SubmitLocal(c) ==
    /\ ticket[c] = "local" /\ ~stopped /\ c \notin late
    /\ queued' = queued \cup {c}
    /\ localReserved' = localReserved - 1
    /\ ticket' = [ticket EXCEPT ![c] = "open"]
    /\ UNCHANGED <<active, members, confirmed, reserved, inFlight, stopped, late, reply,
                   base, raftVars, pumpVars>>

\* The caller is answered or gone: its deadline and, after a failure, its history
\* matter to nobody.
Answered(c, r) ==
    /\ ticket' = [ticket EXCEPT ![c] = r]
    /\ reply' = [reply EXCEPT ![c] = "none"]
    /\ late' = late \ {c}
    /\ base' = IF r = "ok" THEN base ELSE [base EXCEPT ![c] = 0]

\* The lease served the read, submit refused it, or the caller went away.
DropLocal(c) ==
    /\ ticket[c] = "local"
    /\ reserved' = reserved \ {c}
    /\ localReserved' = localReserved - 1 /\ inFlight' = inFlight - 1
    /\ Answered(c, "err")
    /\ UNCHANGED <<queued, active, members, confirmed, stopped, raftVars, pumpVars>>

DeadlinePasses(c) ==
    /\ ticket[c] \in {"local", "open"} /\ c \notin late
    /\ late' = late \cup {c}
    /\ UNCHANGED <<ticket, reply, base, raftVars, registryVars, pumpVars>>

\* ReadTicket::wait: the sent reply ...
Receive(c) ==
    /\ ticket[c] = "open" /\ reply[c] # "none"
    /\ Answered(c, reply[c])
    /\ UNCHANGED <<raftVars, registryVars, pumpVars>>

\* ... or the deadline, or the caller drops the ticket: the receiver is closed.
Abandon(c) ==
    /\ ticket[c] = "open"
    /\ Answered(c, "err")
    /\ UNCHANGED <<raftVars, registryVars, pumpVars>>

(***************************************************************************)
(* The pump turn.  Request::finish sends the reply (lost when the receiver *)
(* is closed) and Drop returns the slot.                                   *)
(***************************************************************************)
Sent(S, r) == [c \in Reads |-> IF c \in S /\ ticket[c] = "open" THEN r ELSE reply[c]]
Release(S) ==
    /\ reserved' = reserved \ S
    /\ inFlight' = inFlight - Cardinality(S)

\* AsyncReads::submit, first lock: extract the bounded prefix. The order of the
\* queue is left out: a turn may take any members the bound allows.
SubmitTake ==
    /\ pc = "idle" /\ ~stopped
    /\ \E prefix \in SUBSET queued :
         /\ Cardinality(prefix) <= TurnRequests
         /\ Cardinality(prefix) = TurnRequests \/ prefix = queued
         /\ held' = prefix
         /\ queued' = queued \ prefix
    /\ pc' = "seal"
    /\ UNCHANGED <<active, members, confirmed, reserved, inFlight, localReserved, stopped,
                   head, admission, chosen, closing, applied, raftVars, callerVars>>

\* Mutant: a member dropped at sealing is never answered.
SubmitSealSilent ==
    /\ pc = "seal"
    /\ LET rest == {c \in held : ticket[c] = "open" /\ c \notin late /\ ~stopped}
           dropped == held \ rest
       IN /\ reply' = reply
          /\ Release(dropped)
          /\ held' = rest
          /\ pc' = IF rest = {} THEN "drain" ELSE "index"
    /\ UNCHANGED <<queued, active, members, confirmed, localReserved, stopped, late,
                   ticket, base, head, admission, chosen, closing, applied, raftVars>>

\* Drop abandoned members, expire late ones, refuse the rest after a stop.
SubmitSeal ==
    /\ pc = "seal"
    /\ LET rest == {c \in held : ticket[c] = "open" /\ c \notin late /\ ~stopped}
           dropped == held \ rest
       IN /\ reply' = Sent(dropped, "err")
          /\ Release(dropped)
          /\ held' = rest
          /\ pc' = IF rest = {} THEN "drain" ELSE "index"
    /\ UNCHANGED <<queued, active, members, confirmed, localReserved, stopped, late,
                   ticket, base, head, admission, chosen, closing, applied, raftVars>>

\* Mutant: the read is admitted before an entry of the term is committed.
SubmitIndexBeforeNoop ==
    /\ pc = "index"
    /\ pc' = "publish"
    /\ \/ /\ ~peerFatal /\ role # "follower"
          /\ head' \in held
          /\ pending' = [pending EXCEPT ![head'] = known]
          /\ admission' = "admitted"
          /\ UNCHANGED <<held, reply, reserved, inFlight>>
       \/ /\ ~peerFatal /\ role # "follower" /\ ~termCommitted
          /\ admission' = "deferred"
          /\ UNCHANGED <<head, held, reply, reserved, inFlight, pending>>
       \/ /\ peerFatal \/ role = "follower"
          /\ reply' = Sent(held, "err")
          /\ Release(held)
          /\ held' = {}
          /\ UNCHANGED <<head, admission, pending>>
    /\ UNCHANGED <<commit, role, known, termCommitted, readStates, peerFatal, queued,
                   active, members, confirmed, localReserved, stopped, late, ticket, base,
                   chosen, closing, applied>>

\* One ReadIndex for the sealed group, under the context of its first member
\* (RaftPeer::read_index, one peer lock).
SubmitIndex ==
    /\ pc = "index"
    /\ pc' = "publish"
    /\ \/ /\ ~peerFatal /\ role # "follower" /\ termCommitted
          /\ head' \in held
          /\ pending' = [pending EXCEPT ![head'] = known]
          /\ admission' = "admitted"
          /\ UNCHANGED <<held, reply, reserved, inFlight>>
       \/ /\ ~peerFatal /\ role # "follower" /\ ~termCommitted
          /\ admission' = "deferred"
          /\ UNCHANGED <<head, held, reply, reserved, inFlight, pending>>
       \/ /\ peerFatal \/ role = "follower"
          /\ reply' = Sent(held, "err")
          /\ Release(held)
          /\ held' = {}
          /\ UNCHANGED <<head, admission, pending>>
    /\ UNCHANGED <<commit, role, known, termCommitted, readStates, peerFatal, queued,
                   active, members, confirmed, localReserved, stopped, late, ticket, base,
                   chosen, closing, applied>>

\* Second lock: publish the sealed group, requeue a deferred one, or fail it.
SubmitPublish ==
    /\ pc = "publish"
    /\ pc' = "drain" /\ held' = {} /\ head' = "none" /\ admission' = "none"
    /\ \/ /\ stopped
          /\ reply' = Sent(held, "err")
          /\ Release(held)
          /\ UNCHANGED <<active, members, confirmed, queued>>
       \/ /\ ~stopped /\ admission = "admitted"
          /\ active' = active \cup {head}
          /\ members' = [members EXCEPT ![head] = held]
          /\ confirmed' = [confirmed EXCEPT ![head] = None]
          /\ UNCHANGED <<reply, reserved, inFlight, queued>>
       \/ /\ ~stopped /\ admission = "deferred"
          /\ queued' = queued \cup held
          /\ UNCHANGED <<reply, reserved, inFlight, active, members, confirmed>>
       \/ /\ ~stopped /\ admission = "none"
          /\ UNCHANGED <<reply, reserved, inFlight, queued, active, members, confirmed>>
    /\ UNCHANGED <<localReserved, stopped, late, ticket, base, chosen, closing, applied,
                   raftVars>>

\* pump_owned, then AsyncReads::confirm for every read state drained from the peer.
ConfirmReads ==
    /\ pc = "drain" /\ ~peerFatal
    /\ confirmed' = [g \in Reads |->
          IF g \in active /\ readStates[g] # None /\ confirmed[g] = None
          THEN readStates[g] ELSE confirmed[g]]
    /\ readStates' = [c \in Reads |-> None]
    /\ pc' = "apply"
    /\ UNCHANGED <<commit, role, known, termCommitted, pending, peerFatal, queued, active,
                   members, reserved, inFlight, localReserved, stopped, callerVars, held, head,
                   admission, chosen, closing, applied>>

\* Mutant: the watermark may move back.
ApplyReadyRegressing ==
    /\ pc = "apply"
    /\ applied' \in (applied - 1)..known
    /\ pc' = "complete"
    /\ UNCHANGED <<held, head, admission, chosen, closing, raftVars, registryVars, callerVars>>

\* Every committed entry of the Ready is applied, then the watermark moves once.
ApplyReady ==
    /\ pc = "apply"
    /\ applied' \in applied..known
    /\ pc' = "complete"
    /\ UNCHANGED <<held, head, admission, chosen, closing, raftVars, registryVars, callerVars>>

\* AsyncReads::complete: selection under the lock is completion eligibility.
Covered(g) == confirmed[g] # None /\ applied >= confirmed[g]

\* Mutant: an expired member stays in its group.
SelectCompletionsNoExpiry ==
    /\ pc = "complete"
    /\ LET Leaves(c, g) == c \in members[g] /\ (Covered(g) \/ ticket[c] # "open")
           Keeps(g) == {c \in members[g] : ~Leaves(c, g)}
       IN /\ chosen' = [c \in Reads |->
                IF \E g \in active : c \in members[g] /\ Covered(g) THEN "ok"
                ELSE IF \E g \in active : Leaves(c, g) THEN "err"
                ELSE "none"]
          /\ members' = [g \in Reads |-> IF g \in active THEN Keeps(g) ELSE {}]
          /\ active' = {g \in active : Keeps(g) # {}}
          /\ confirmed' = [g \in Reads |-> IF Keeps(g) # {} THEN confirmed[g] ELSE None]
    /\ pc' = "finish"
    /\ UNCHANGED <<queued, reserved, inFlight, localReserved, stopped, callerVars, held, head,
                   admission, closing, applied, raftVars>>

SelectCompletions ==
    /\ pc = "complete"
    /\ LET Leaves(c, g) == c \in members[g] /\ (Covered(g) \/ ticket[c] # "open" \/ c \in late)
           Keeps(g) == {c \in members[g] : ~Leaves(c, g)}
       IN /\ chosen' = [c \in Reads |->
                IF \E g \in active : c \in members[g] /\ Covered(g) THEN "ok"
                ELSE IF \E g \in active : Leaves(c, g) THEN "err"
                ELSE "none"]
          /\ members' = [g \in Reads |-> IF g \in active THEN Keeps(g) ELSE {}]
          /\ active' = {g \in active : Keeps(g) # {}}
          /\ confirmed' = [g \in Reads |-> IF Keeps(g) # {} THEN confirmed[g] ELSE None]
    /\ pc' = "finish"
    /\ UNCHANGED <<queued, reserved, inFlight, localReserved, stopped, callerVars, held, head,
                   admission, closing, applied, raftVars>>

FinishSelected(c) ==
    /\ pc = "finish" /\ chosen[c] # "none"
    /\ reply' = Sent({c}, chosen[c])
    /\ Release({c})
    /\ chosen' = [chosen EXCEPT ![c] = "none"]
    /\ UNCHANGED <<queued, active, members, confirmed, localReserved, stopped, late,
                   ticket, base, pc, held, head, admission, closing, applied, raftVars>>

\* The owner loop: the next turn, or the exit of a stopped driver.
EndTurn ==
    /\ \/ pc = "finish" /\ \A c \in Reads : chosen[c] = "none"
       \/ pc = "idle" /\ stopped
    /\ pc' = IF stopped THEN "stopped" ELSE "idle"
    /\ UNCHANGED <<held, head, admission, chosen, closing, applied, raftVars, registryVars,
                   callerVars>>

\* AsyncReads::close, by the stopping thread or by a poisoned pump.
CloseRegistry ==
    /\ stopped' = TRUE
    /\ closing' = closing \cup queued \cup UNION {members[g] : g \in active}
    /\ queued' = {} /\ active' = {}
    /\ members' = [g \in Reads |-> {}]
    /\ confirmed' = [g \in Reads |-> None]
    /\ UNCHANGED <<reserved, inFlight, localReserved>>

Close ==
    /\ ~stopped
    /\ CloseRegistry
    /\ UNCHANGED <<pc, held, head, admission, chosen, applied, raftVars, callerVars>>

\* A failed Ready or apply poisons the driver: the turn completes no read.
Poison ==
    /\ (pc = "drain" /\ peerFatal) \/ pc = "apply"
    /\ pc' = "stopped"
    /\ CloseRegistry
    /\ UNCHANGED <<held, head, admission, chosen, applied, raftVars, callerVars>>

\* Mutant: close answers a request without returning its slot.
FinishClosingLeaks(c) ==
    /\ c \in closing
    /\ closing' = closing \ {c}
    /\ reply' = Sent({c}, "err")
    /\ UNCHANGED <<reserved, inFlight, queued, active, members, confirmed, localReserved, stopped, late,
                   ticket, base, pc, held, head, admission, chosen, applied, raftVars>>

FinishClosing(c) ==
    /\ c \in closing
    /\ closing' = closing \ {c}
    /\ reply' = Sent({c}, "err")
    /\ Release({c})
    /\ UNCHANGED <<queued, active, members, confirmed, localReserved, stopped, late,
                   ticket, base, pc, held, head, admission, chosen, applied, raftVars>>

Caller(c) ==
    \/ RegisterRefused(c) \/ Register(c) \/ ReserveLocal(c) \/ SubmitLocal(c)
    \/ DropLocal(c) \/ DeadlinePasses(c) \/ Receive(c) \/ Abandon(c)

Pump ==
    \/ SubmitTake \/ SubmitSeal \/ SubmitIndex \/ SubmitPublish \/ ConfirmReads
    \/ ApplyReady \/ SelectCompletions \/ EndTurn \/ Poison
    \/ \E c \in Reads : FinishSelected(c)

Raft ==
    \/ Commit \/ Learn \/ Elect \/ CommitNoop \/ Depose \/ StepDown \/ PeerFails
    \/ \E c \in Reads : QuorumAck(c)

Next ==
    \/ Raft \/ Pump \/ Close
    \/ \E c \in Reads : Caller(c) \/ FinishClosing(c)

Spec == Init /\ [][Next]_vars

\* The owner turns on every tick, clocks advance and callers are polled.
Fairness ==
    /\ WF_vars(Pump)
    /\ \A c \in Reads :
         /\ WF_vars(DeadlinePasses(c))
         /\ WF_vars(SubmitLocal(c) \/ DropLocal(c))
         /\ WF_vars(FinishClosing(c))
FairSpec == Spec /\ Fairness

(***************************************************************************)
(* Properties.                                                             *)
(***************************************************************************)
\* A read that a barrier answered observes every write committed before the
\* read was made: the applied watermark behind its snapshot is at or past it.
ReadSeesPriorWrites ==
    \A c \in Reads : ticket[c] = "ok" => applied >= base[c]

\* Every slot of the registry has exactly one holder, and the admission bound
\* counts all of them: none leaks through cancellation, expiry, stop or defer.
Holders(c) ==
    Cardinality({c} \cap queued)
    + Cardinality({c} \cap held)
    + Cardinality({g \in active : c \in members[g]})
    + Cardinality({x \in {c} : chosen[x] # "none"})
    + Cardinality({c} \cap closing)
    + Cardinality({x \in {c} : ticket[x] = "local"})
SlotAccounting ==
    /\ inFlight = Cardinality(reserved) /\ inFlight <= MaxRequests
    /\ localReserved = Cardinality({c \in Reads : ticket[c] = "local"})
    /\ \A c \in Reads : Holders(c) = IF c \in reserved THEN 1 ELSE 0

\* A caller that still waits is never forgotten: somebody holds its sender.
NoStrandedCaller ==
    \A c \in Reads : ticket[c] = "open" /\ reply[c] = "none" => c \in reserved

\* Whatever happens to leadership, quorum, caller or driver, an admitted read
\* gives its slot back.
SlotsReturn == \A c \in Reads : c \in reserved ~> c \notin reserved
=============================================================================
