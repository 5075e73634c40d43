---------------------------- MODULE LeaderLease ----------------------------
(* The leader lease of one Raft group with fixed voters: renewals, grants   *)
(* and the voting promise behind them, the pump that publishes them, and    *)
(* the reads a leader answers from a certificate without a quorum.          *)
(* Every deadline of the code is a reading of its own node's clock, used    *)
(* only in comparisons with that clock: a deadline is the time left here,   *)
(* and 0 means it has passed.                                               *)
EXTENDS Integers, FiniteSets

CONSTANTS
    Nodes,          \* the voters of the policy
    First,          \* the one that leads the first term
    None,           \* no node
    RateLow,        \* least and most a clock advances per unit of real time
    RateHigh,
    promise_ns,     \* length of a voting promise
    margin_ns,      \* reserve for the error of a sample
    MaxTerm,        \* bounds: terms, renewals,
    MaxRounds,
    MaxWrites,      \* committed entries,
    MaxFaults       \* restarts, fences, step-downs, transfers, repeated messages

ASSUME LeaseAssumption ==
    /\ IsFiniteSet(Nodes) /\ First \in Nodes /\ None \notin Nodes
    /\ RateLow \in Nat \ {0} /\ RateHigh \in Nat /\ RateLow <= RateHigh
    /\ promise_ns \in Nat /\ margin_ns \in Nat

(* Mutant: the leader relies on the promise as if no clock drifted.         *)
LeaderIgnoresDrift == promise_ns - margin_ns

(* Timing::new.                                                             *)
leader_ns == (promise_ns * RateLow) \div RateHigh - margin_ns
recovery_ns == (promise_ns * RateHigh + RateLow - 1) \div RateLow + margin_ns

ASSUME TimingAssumption == leader_ns > 0

VARIABLES
    term,       \* Raft: durable term,
    role,       \* role,
    lead,       \* known leader or None,
    votes,      \* <<t, v, c>>: v voted for c in term t; durable,
    committed,  \* committed[n]: commit index n knows as a leader,
    fresh,      \* fresh[n]: term of the last entry n committed as a leader
    top,        \* entries committed in the group; all may be acknowledged
    topTerm,    \* term of the leader that committed the last one
    lease,      \* lease[n]: InstalledLease
    batch,      \* batch[n]: LeaseBatch of the pump in progress, or NoBatch
    applied,    \* applied[n]: index of the driver's applied view
    msgs,       \* requests and grants on their way: any may never arrive
    reads,      \* reads[n]: the ticket of the read in progress, or NoTicket
    promised,   \* <<v, renewal>>: every promise ever made (history)
    faults

raft == <<term, role, lead, votes>>
log == <<committed, fresh, top, topTerm>>
vars == <<raft, log, lease, batch, applied, msgs, reads, promised, faults>>

Quorums == {Q \in SUBSET Nodes : 2 * Cardinality(Q) > Cardinality(Nodes)}

(* A leader's incarnation adds nothing to its term: a restarted leader      *)
(* leads again only in a later one.                                         *)
NoRenewal == [leader |-> None, term |-> 0, seq |-> 0]
NoBatch == [request |-> NoRenewal, grant |-> NoRenewal, confirmed |-> NoRenewal, through |-> -1]
NoTicket == [end |-> 0, committed |-> 0, floor |-> 0, term |-> 0]

(* VoterLease (recovery to last), LeaderLease (leader_term to activeEnd)    *)
(* and the decisions the next pump publishes.                               *)
recover(rest) ==
    [fenced |-> FALSE, recovery |-> rest, hold |-> 0, last |-> NoRenewal,
     leader_term |-> 0, mode |-> "none", seq |-> 0, pending |-> NoRenewal, pendEnd |-> 0,
     acks |-> {}, active |-> NoRenewal, activeEnd |-> 0, next |-> 0,
     request |-> NoRenewal, grant |-> NoRenewal, confirmed |-> NoRenewal]

(* The group has elected a leader, its no-op is applied and no process has  *)
(* started within the recovery time.                                        *)
Init ==
    /\ term = [n \in Nodes |-> 1]
    /\ role = [n \in Nodes |-> IF n = First THEN "leader" ELSE "follower"]
    /\ lead = [n \in Nodes |-> First]
    /\ votes = {<<1, n, First>> : n \in Nodes}
    /\ committed = [n \in Nodes |-> IF n = First THEN 1 ELSE 0]
    /\ fresh = committed /\ applied = committed
    /\ top = 1 /\ topTerm = 1
    /\ lease = [n \in Nodes |-> recover(0)]
    /\ batch = [n \in Nodes |-> NoBatch]
    /\ msgs = {}
    /\ reads = [n \in Nodes |-> NoTicket]
    /\ promised = {}
    /\ faults = 0

----------------------------------------------------------------------------
(* InstalledLease: the decisions, as functions of one node's lease.         *)

fence(l) ==
    [l EXCEPT !.fenced = TRUE, !.mode = "fenced", !.pending = NoRenewal, !.pendEnd = 0,
              !.acks = {}, !.active = NoRenewal, !.activeEnd = 0,
              !.request = NoRenewal, !.grant = NoRenewal, !.confirmed = NoRenewal]

revoke_leader(l) ==
    LET dead == [l EXCEPT !.request = NoRenewal, !.confirmed = NoRenewal]
    IN  IF l.mode # "leader" THEN dead
        ELSE [dead EXCEPT !.mode = "revoked", !.pending = NoRenewal, !.pendEnd = 0,
                          !.acks = {}, !.active = NoRenewal, !.activeEnd = 0]

(* A new term replaces the leader's part of the lease.                      *)
LeaderLease_new(l, t) ==
    [l EXCEPT !.leader_term = t, !.mode = "leader", !.seq = 0, !.pending = NoRenewal,
              !.pendEnd = 0, !.acks = {}, !.active = NoRenewal, !.activeEnd = 0, !.next = 0,
              !.request = NoRenewal, !.confirmed = NoRenewal]

synchronize(n) ==
    IF role[n] # "leader" THEN revoke_leader(lease[n])
    ELSE IF term[n] > lease[n].leader_term THEN LeaderLease_new(lease[n], term[n])
    ELSE lease[n]

(* Mutant: any leader, before it has committed in its term.                 *)
AnyLeader(n) == role[n] = "leader"

commit_to_current_term(n) == role[n] = "leader" /\ fresh[n] = term[n]

may_vote(n) == ~lease[n].fenced /\ lease[n].recovery = 0 /\ lease[n].hold = 0

(* VoterLease::promise refuses, repeats the last grant, or holds its vote   *)
(* for a new one, which ends no earlier than any before: last_grant's end   *)
(* is hold_until.                                                           *)
Promises(l, r, raft_term, raft_leader) ==
    /\ ~l.fenced /\ l.recovery = 0
    /\ r.leader = raft_leader /\ r.term = raft_term
    /\ IF l.last.leader = r.leader /\ l.last.term = r.term
       THEN r.seq > l.last.seq \/ (r = l.last /\ l.hold > 0)
       ELSE l.last = NoRenewal \/ l.hold = 0

(* Mutant: a repeated request adds to the promise.                          *)
RepeatExtends(l, r) ==
    IF r = l.last THEN [l EXCEPT !.hold = @ + promise_ns]
    ELSE [l EXCEPT !.hold = promise_ns, !.last = r]

promise(l, r) ==
    IF r = l.last THEN l
    ELSE [l EXCEPT !.hold = promise_ns, !.last = r]

Round(n, l) == [leader |-> n, term |-> l.leader_term, seq |-> l.seq + 1]

----------------------------------------------------------------------------
(* Raft: elections behind the voting gate, and commits (raft-rs).           *)

campaign(n) ==
    /\ role[n] # "leader" /\ may_vote(n)
    /\ term[n] < MaxTerm
    /\ term' = [term EXCEPT ![n] = @ + 1]
    /\ role' = [role EXCEPT ![n] = "candidate"]
    /\ lead' = [lead EXCEPT ![n] = None]
    /\ votes' = votes \cup {<<term[n] + 1, n, n>>}
    /\ UNCHANGED <<log, lease, batch, applied, msgs, reads, promised, faults>>

(* Follow a higher term, as a follower of l or of nobody.                   *)
Follow(n, t, l) ==
    /\ term' = [term EXCEPT ![n] = t]
    /\ role' = [role EXCEPT ![n] = "follower"]
    /\ lead' = [lead EXCEPT ![n] = l]

(* A vote request that passes the gate; one that does not is dropped whole. *)
Vote(v, c, t) ==
    /\ <<t, c, c>> \in votes /\ v # c
    /\ may_vote(v)
    /\ t >= term[v] /\ {x \in votes : x[1] = t /\ x[2] = v} = {}
    /\ votes' = votes \cup {<<t, v, c>>}
    /\ IF t > term[v] THEN Follow(v, t, None) ELSE UNCHANGED <<term, role, lead>>
    /\ UNCHANGED <<log, lease, batch, applied, msgs, reads, promised, faults>>

Win(n) ==
    /\ role[n] = "candidate" /\ may_vote(n)
    /\ {v \in Nodes : <<term[n], v, n>> \in votes} \in Quorums
    /\ role' = [role EXCEPT ![n] = "leader"]
    /\ lead' = [lead EXCEPT ![n] = n]
    /\ UNCHANGED <<term, votes, log, lease, batch, applied, msgs, reads, promised, faults>>

(* A heartbeat or append of l, the leader of term t, reaches n, however     *)
(* late.                                                                    *)
Heartbeat(n, l, t) ==
    /\ {v \in Nodes : <<t, v, l>> \in votes} \in Quorums /\ l # n
    /\ role[l] # "candidate" \/ term[l] > t
    /\ term[n] <= t /\ (term[n] < t \/ lead[n] # l)
    /\ Follow(n, t, l)
    /\ UNCHANGED <<votes, log, lease, batch, applied, msgs, reads, promised, faults>>

(* The leader's entry is on a majority that is still in its term: the first *)
(* one of a term is its no-op and brings every earlier entry with it.       *)
Commit(n) ==
    /\ role[n] = "leader" /\ top < MaxWrites
    /\ {v \in Nodes : term[v] = term[n] /\ lead[v] = n} \in Quorums
    /\ top' = top + 1 /\ topTerm' = term[n]
    /\ committed' = [committed EXCEPT ![n] = top + 1]
    /\ fresh' = [fresh EXCEPT ![n] = term[n]]
    /\ UNCHANGED <<raft, lease, batch, applied, msgs, reads, promised, faults>>

----------------------------------------------------------------------------
(* A turn with nothing to publish or apply, a message of another round or   *)
(* term and a read without a certificate only synchronize, which the next   *)
(* call of this node does anyway: they are left out.                        *)

(* The pump: decisions are captured with the Ready that is persisted, and   *)
(* published when the turn has been applied.                                *)

(* prepare: start a round when the last one is half spent; the leader's own *)
(* acknowledgement needs its own promise.                                   *)
prepare(n) ==
    LET l == synchronize(n)
        r == Round(n, l)
        started == [l EXCEPT !.seq = @ + 1, !.pending = r, !.pendEnd = leader_ns, !.acks = {},
                             !.next = IF leader_ns \div 2 > 1 THEN leader_ns \div 2 ELSE 1,
                             !.request = r, !.confirmed = NoRenewal]
        acked == [promise(started, r) EXCEPT
                     !.acks = {n},
                     !.confirmed = IF {n} \in Quorums THEN r ELSE NoRenewal]
    IN  IF /\ commit_to_current_term(n) /\ l.mode = "leader"
           /\ l.next = 0 /\ Cardinality({x[2] : x \in promised}) < MaxRounds
        THEN IF Promises(l, r, term[n], lead[n]) THEN acked ELSE started
        ELSE l

pump_owned(n) ==
    LET l == IF lease[n].fenced THEN lease[n] ELSE prepare(n)
    IN  /\ batch[n] = NoBatch /\ reads[n] = NoTicket
        /\ {l.request, l.grant, l.confirmed} # {NoRenewal} \/ applied[n] < committed[n]
        /\ batch' = [batch EXCEPT ![n] =
              [request |-> l.request, grant |-> l.grant, confirmed |-> l.confirmed,
               through |-> committed[n]]]
        /\ lease' = [lease EXCEPT ![n] =
              [l EXCEPT !.request = NoRenewal, !.grant = NoRenewal, !.confirmed = NoRenewal]]
        /\ promised' = promised \cup (IF n \in l.acks THEN {<<n, l.pending>>} ELSE {})
        /\ UNCHANGED <<raft, log, applied, msgs, reads, faults>>

Request(r, v) == [kind |-> "request", renewal |-> r, voter |-> v]
Grant(r, v) == [kind |-> "grant", renewal |-> r, voter |-> v]

(* complete: a grant is sent only while its promise still stands, a request *)
(* and a certificate only while the round is the leader's and unexpired.    *)
complete(n) ==
    LET l == synchronize(n)
        b == batch[n]
        current(r) == /\ r # NoRenewal /\ commit_to_current_term(n)
                      /\ l.mode = "leader" /\ l.pending = r /\ l.pendEnd > 0
        grants == b.grant # NoRenewal /\ Promises(l, b.grant, term[n], lead[n])
        held == IF grants THEN promise(l, b.grant) ELSE l
        publishes == current(b.confirmed) /\ l.acks \in Quorums
    IN  IF lease[n].fenced THEN UNCHANGED <<lease, msgs, promised>>
        ELSE /\ msgs' = msgs
                   \cup (IF grants THEN {Grant(b.grant, n)} ELSE {})
                   \cup (IF current(b.request) THEN {Request(b.request, v) : v \in Nodes \ {n}} ELSE {})
             /\ promised' = promised \cup (IF grants THEN {<<n, b.grant>>} ELSE {})
             /\ lease' = [lease EXCEPT ![n] =
                   IF publishes
                   THEN [held EXCEPT !.active = l.pending, !.activeEnd = l.pendEnd,
                                     !.pending = NoRenewal, !.pendEnd = 0, !.acks = {}]
                   ELSE held]

complete_pump(n) ==
    /\ batch[n] # NoBatch
    /\ complete(n)
    /\ applied' = [applied EXCEPT ![n] = batch[n].through]
    /\ batch' = [batch EXCEPT ![n] = NoBatch]
    /\ UNCHANGED <<raft, log, reads, faults>>

----------------------------------------------------------------------------
Fault == faults < MaxFaults /\ faults' = faults + 1

(* The network delivers a message once, or, a fault, once more.             *)
Deliver(m) ==
    \/ msgs' = msgs \ {m} /\ UNCHANGED faults
    \/ Fault /\ UNCHANGED msgs

(* receive: a request is a heartbeat first, then a promise for the next     *)
(* pump to send.                                                            *)
receive_request(n, m) ==
    LET r == m.renewal
        l == revoke_leader(lease[n])
    IN  /\ m.kind = "request" /\ m.voter = n /\ ~lease[n].fenced
        /\ r.term >= term[n]
        /\ Deliver(m)
        /\ Follow(n, r.term, r.leader)
        /\ IF Promises(l, r, r.term, r.leader)
           THEN /\ lease' = [lease EXCEPT ![n] = [promise(l, r) EXCEPT !.grant = r]]
                /\ promised' = promised \cup {<<n, r>>}
           ELSE /\ lease' = [lease EXCEPT ![n] = l]
                /\ UNCHANGED promised
        /\ UNCHANGED <<votes, log, batch, applied, reads>>

receive_grant(n, m) ==
    LET l == synchronize(n)
        acks == l.acks \cup {m.voter}
    IN  /\ m.kind = "grant" /\ m.renewal.leader = n /\ ~lease[n].fenced
        /\ Deliver(m)
        /\ role[n] = "leader" /\ term[n] = m.renewal.term
        /\ l.mode = "leader" /\ l.pending = m.renewal /\ l.pendEnd > 0
        /\ lease' = [lease EXCEPT ![n] =
              [l EXCEPT !.acks = acks,
                        !.confirmed = IF acks \in Quorums THEN m.renewal ELSE @]]
        /\ UNCHANGED <<raft, log, batch, applied, reads, promised>>

----------------------------------------------------------------------------
(* Lease reads: the reader owns the pump gate from begin to finish.         *)

begin_read(n) ==
    LET l == synchronize(n)
    IN  /\ batch[n] = NoBatch /\ reads[n] = NoTicket /\ ~lease[n].fenced
        /\ commit_to_current_term(n) /\ l.mode = "leader"
        /\ l.active # NoRenewal /\ l.activeEnd > 0
        /\ reads' = [reads EXCEPT ![n] = [end |-> l.activeEnd, committed |-> committed[n],
                                          floor |-> top, term |-> term[n]]]
        /\ lease' = [lease EXCEPT ![n] = l]
        /\ UNCHANGED <<raft, log, batch, applied, msgs, promised, faults>>

(* The read in progress at n is answered with the view of the last pump.    *)
Serves(n) ==
    LET l == synchronize(n)
        t == reads[n]
    IN  /\ t # NoTicket /\ ~lease[n].fenced
        /\ commit_to_current_term(n) /\ l.mode = "leader"
        /\ t.term = term[n] /\ t.end > 0
        /\ t.committed <= applied[n] /\ applied[n] <= committed[n]

finish_read(n) ==
    /\ reads[n] # NoTicket
    /\ reads' = [reads EXCEPT ![n] = NoTicket]
    /\ IF lease[n].fenced THEN UNCHANGED lease
       ELSE lease' = [lease EXCEPT ![n] = synchronize(n)]
    /\ UNCHANGED <<raft, log, batch, applied, msgs, promised, faults>>

----------------------------------------------------------------------------
(* Time and faults.                                                         *)

Left(x, d) == IF x > d THEN x - d ELSE 0

(* Some deadline of n is still to come: else its rate makes no difference.  *)
Waits(n) ==
    LET l == lease[n]
    IN  l.recovery + l.hold + l.pendEnd + l.activeEnd + l.next + reads[n].end > 0

(* One unit of real time: each clock runs at its own rate within the bounds. *)
Elapse(d) ==
    /\ \A n \in Nodes : Waits(n) \/ d[n] = RateLow
    /\ lease' = [n \in Nodes |->
          [lease[n] EXCEPT !.recovery = Left(@, d[n]), !.hold = Left(@, d[n]),
                           !.pendEnd = Left(@, d[n]),
                           !.activeEnd = Left(@, d[n]), !.next = Left(@, d[n])]]
    /\ reads' = [n \in Nodes |-> [reads[n] EXCEPT !.end = Left(@, d[n])]]
    /\ UNCHANGED <<raft, log, batch, applied, msgs, promised, faults>>

(* A process restart keeps term and votes and nothing of the lease.         *)
Restart(n) ==
    /\ Fault
    /\ role' = [role EXCEPT ![n] = "follower"]
    /\ lead' = [lead EXCEPT ![n] = None]
    /\ lease' = [lease EXCEPT ![n] = recover(recovery_ns)]
    /\ batch' = [batch EXCEPT ![n] = NoBatch]
    /\ reads' = [reads EXCEPT ![n] = NoTicket]
    /\ UNCHANGED <<term, votes, log, applied, msgs, promised>>

(* A bad clock sample, a changed configuration, a pump that failed.         *)
Fence(n) ==
    /\ Fault /\ ~lease[n].fenced
    /\ lease' = [lease EXCEPT ![n] = fence(@)]
    /\ batch' = [batch EXCEPT ![n] = NoBatch]
    /\ UNCHANGED <<raft, log, applied, msgs, reads, promised>>

(* n sees the higher term t of a peer, or loses its quorum or its election. *)
StepDown(n, t) ==
    /\ Fault
    /\ t > term[n] \/ (t = term[n] /\ role[n] # "follower")
    /\ Follow(n, t, None)
    /\ UNCHANGED <<votes, log, lease, batch, applied, msgs, reads, promised>>

transfer_leader(n) ==
    /\ Fault /\ role[n] = "leader"
    /\ lease' = [lease EXCEPT ![n] = revoke_leader(@)]
    /\ UNCHANGED <<raft, log, batch, applied, msgs, reads, promised>>

Next ==
    \/ \E n \in Nodes :
          \/ campaign(n) \/ Win(n) \/ Commit(n)
          \/ pump_owned(n) \/ complete_pump(n)
          \/ begin_read(n) \/ finish_read(n)
          \/ Restart(n) \/ Fence(n) \/ transfer_leader(n)
    \/ \E n, m \in Nodes : StepDown(n, term[m])
    \/ \E n, c \in Nodes, t \in 1..MaxTerm : Heartbeat(n, c, t) \/ Vote(n, c, t)
    \/ \E n \in Nodes, m \in msgs : receive_request(n, m) \/ receive_grant(n, m)
    \/ \E d \in [Nodes -> RateLow..RateHigh] : Elapse(d)

Spec == Init /\ [][Next]_vars

----------------------------------------------------------------------------
(* Properties.                                                              *)

Rounds == 0..MaxRounds
RenewalType == [leader : Nodes \cup {None}, term : 0..MaxTerm, seq : Rounds]

(* Every variable stays in its type, and no deadline is longer than the     *)
(* interval that set it.                                                    *)
TypeOK ==
    /\ term \in [Nodes -> 0..MaxTerm]
    /\ role \in [Nodes -> {"follower", "candidate", "leader"}]
    /\ lead \in [Nodes -> Nodes \cup {None}]
    /\ votes \subseteq (1..MaxTerm) \X Nodes \X Nodes
    /\ \A n \in Nodes :
          LET l == lease[n]
          IN  /\ l.recovery \in 0..recovery_ns /\ l.hold \in 0..promise_ns
              /\ l.pendEnd \in 0..leader_ns /\ l.activeEnd \in 0..leader_ns
              /\ l.acks \subseteq Nodes
              /\ {l.last, l.pending, l.active, l.request, l.grant, l.confirmed}
                    \subseteq RenewalType
    /\ top \in 0..MaxWrites /\ topTerm \in 0..MaxTerm
    /\ faults \in 0..MaxFaults

Certified(n) ==
    LET l == lease[n]
    IN  /\ role[n] = "leader" /\ l.mode = "leader" /\ l.leader_term = term[n]
        /\ l.active # NoRenewal /\ l.activeEnd > 0

(* While a leader may answer from its certificate by its own clock, no node *)
(* leads in a higher term, however the clocks run within their bounds,      *)
(* whatever was lost, delayed or repeated, and whoever restarted.           *)
LeaseExclusive ==
    \A n, m \in Nodes : Certified(n) /\ role[m] = "leader" => term[m] <= term[n]

(* A lease read returns every write acknowledged anywhere before it began,  *)
(* and nothing that is not committed.                                       *)
LeaseReadCurrent ==
    \A n \in Nodes : Serves(n) => reads[n].floor <= applied[n] /\ applied[n] <= top
============================================================================
