-------------------------- MODULE LeaderLeaseProofs --------------------------
(* For any number of voters, any promise, margin and bounds on the clocks'  *)
(* rates a certificate is exclusive and a lease read current.  In order:    *)
(* intervals at clocks of different rates, the invariant, the calls on one  *)
(* lease record, the facts that carry a promise across a step, types, one   *)
(* leader per term, the lease across every step, the theorems.              *)
EXTENDS LeaderLease, TLAPS

(* Leaves are tried with Zenon unless they name another prover.           *)
USE Zenon

(* A wait of h at one clock ends no earlier than a wait of e at any other.  *)
Outlasts(h, e) == RateHigh * e <= RateLow * h

(* What Timing::new requires of the bounds on the clocks.                   *)
LEMMA Rates ==
    /\ RateLow \in Nat /\ RateHigh \in Nat /\ RateLow > 0 /\ RateLow <= RateHigh
    /\ promise_ns \in Nat /\ margin_ns \in Nat
  BY SMT, LeaseAssumption

(* The leader's interval is in force no longer than the voters' promise.    *)
LEMMA LeaderInterval ==
    leader_ns \in Int /\ RateHigh * leader_ns <= RateLow * promise_ns
  <1> DEFINE p == promise_ns * RateLow
             q == p \div RateHigh
  <1>1. p \in Nat /\ p = RateLow * promise_ns
    BY SMT, Rates
  <1>2. RateHigh > 0
    BY SMT, Rates
  <1> HIDE DEF p
  <1>3. q \in Nat /\ RateHigh * q <= p
    BY SMT, <1>1, <1>2, Rates
  <1>4. leader_ns = q - margin_ns
    BY DEF leader_ns, p
  <1> HIDE DEF q
  <1>5. RateHigh * (q - margin_ns) = RateHigh * q - RateHigh * margin_ns
        /\ RateHigh * margin_ns >= 0
    BY SMT, <1>3, Rates
  <1>6. RateHigh * q \in Int /\ RateHigh * margin_ns \in Int
    BY SMT, <1>3, Rates
  <1> QED BY SMT, <1>1, <1>3, <1>4, <1>5, <1>6, Rates

(* The quarantine of a restarted voter is no shorter than its promise.      *)
LEMMA RecoveryInterval == recovery_ns \in Nat /\ promise_ns <= recovery_ns
  <1> DEFINE q == (promise_ns * RateHigh + RateLow - 1) \div RateLow
  <1>1. promise_ns * RateHigh >= promise_ns * RateLow
        /\ promise_ns * RateHigh \in Nat /\ promise_ns * RateLow \in Nat
    BY SMT, Rates
  <1>2. q \in Nat /\ promise_ns <= q
    BY SMT, <1>1, Rates
  <1>3. recovery_ns = q + margin_ns
    BY DEF recovery_ns
  <1> HIDE DEF q
  <1> QED BY SMT, <1>2, <1>3, Rates

(* A full promise, and a quarantine, outlast a whole leader interval.       *)
LEMMA PromiseOutlasts ==
    ASSUME NEW e \in Nat, e <= leader_ns
    PROVE  Outlasts(promise_ns, e) /\ Outlasts(recovery_ns, e)
  <1>1. RateHigh * e <= RateHigh * leader_ns
    BY SMT, LeaderInterval, Rates
  <1>2. RateLow * promise_ns <= RateLow * recovery_ns
    BY SMT, RecoveryInterval, Rates
  <1>3. /\ RateHigh * e \in Int /\ RateHigh * leader_ns \in Int
        /\ RateLow * promise_ns \in Int /\ RateLow * recovery_ns \in Int
    BY SMT, LeaderInterval, RecoveryInterval, Rates
  <1> QED BY SMT, <1>1, <1>2, <1>3, LeaderInterval DEF Outlasts

(* A wait that is over outlasts nothing that is still in force.             *)
LEMMA NothingOutlasts ==
    ASSUME NEW e \in Nat, Outlasts(0, e)
    PROVE  e = 0
  BY SMT, Rates DEF Outlasts

(* As time passes, at whatever rates.                                       *)
LEMMA StillOutlasts ==
    ASSUME NEW h \in Nat, NEW e \in Nat, Outlasts(h, e),
           NEW a \in RateLow..RateHigh, NEW b \in RateLow..RateHigh
    PROVE  Left(h, b) \in Nat /\ Left(e, a) \in Nat
           /\ (Left(e, a) = 0 \/ Outlasts(Left(h, b), Left(e, a)))
  <1>1. Left(h, b) \in Nat /\ Left(e, a) \in Nat
    BY SMT, Rates DEF Left
  <1>2. CASE e <= a
    BY SMT, <1>1, <1>2, Rates DEF Left
  <1>3. CASE e > a
    <2>1. RateHigh * a >= RateHigh * RateLow /\ RateLow * b <= RateLow * RateHigh
      BY SMT, Rates
    <2>2. RateHigh * (e - a) = RateHigh * e - RateHigh * a
          /\ RateLow * (h - b) = RateLow * h - RateLow * b
          /\ RateHigh * RateLow = RateLow * RateHigh
      BY SMT, Rates
    <2>3. /\ RateHigh * a \in Int /\ RateLow * b \in Int /\ RateHigh * RateLow \in Int
          /\ RateHigh * e \in Int /\ RateLow * h \in Int
      BY SMT, Rates
    <2>4. RateHigh * (e - a) <= RateLow * (h - b)
      BY SMT, <2>1, <2>2, <2>3 DEF Outlasts
    <2>5. RateHigh * (e - a) > 0
      BY SMT, <1>3, Rates
    <2>6. h > b
      BY SMT, <2>4, <2>5, Rates
    <2> QED BY <1>1, <1>3, <2>4, <2>6 DEF Left, Outlasts
  <1> QED BY SMT, <1>2, <1>3, Rates

(* What the argument needs of majorities; LeaderLeaseProofs proves it.      *)
QuorumsMeet ==
    /\ Nodes \in Quorums
    /\ \A P, Q \in Quorums : \E v \in Nodes : v \in P /\ v \in Q

------------------------------------------------------------------------------
(* What a call does to one node's lease, field by field.                    *)

Renewals == [leader : Nodes \cup {None}, term : Nat, seq : Nat]
Leases ==
    [fenced : BOOLEAN, recovery : Nat, hold : Nat, last : Renewals,
     leader_term : Nat, mode : {"none", "leader", "revoked", "fenced"}, seq : Nat,
     pending : Renewals, pendEnd : Nat, acks : SUBSET Nodes,
     active : Renewals, activeEnd : Nat, next : Nat,
     request : Renewals, grant : Renewals, confirmed : Renewals]

VoterSame(l, k) == k.recovery = l.recovery /\ k.hold = l.hold /\ k.last = l.last
LeaderSame(l, k) ==
    /\ k.pending = l.pending /\ k.pendEnd = l.pendEnd /\ k.acks = l.acks
    /\ k.active = l.active /\ k.activeEnd = l.activeEnd
Dropped(k) ==
    /\ k.pending = NoRenewal /\ k.pendEnd = 0 /\ k.acks = {}
    /\ k.active = NoRenewal /\ k.activeEnd = 0

(* Nothing changes but what is given up.                                    *)
Lapsed(l, k) ==
    /\ k \in Leases /\ VoterSame(l, k)
    /\ k.leader_term = l.leader_term /\ k.seq = l.seq
    /\ LeaderSame(l, k) \/ Dropped(k)
    /\ k.request \in {l.request, NoRenewal} /\ k.grant \in {l.grant, NoRenewal}

(* The lease of the leader of a new term.                                   *)
Renewed(l, k, t) ==
    /\ k \in Leases /\ VoterSame(l, k)
    /\ k.leader_term = t /\ k.seq = 0 /\ Dropped(k)
    /\ k.request = NoRenewal /\ k.grant = l.grant

Kept(n, k) ==
    \/ Lapsed(lease[n], k)
    \/ /\ role[n] = "leader" /\ lease[n].leader_term < term[n]
       /\ Renewed(lease[n], k, term[n])

Synced(n, k) == Kept(n, k) /\ (role[n] = "leader" => term[n] <= k.leader_term)

(* The absent renewal is typed like one.                                    *)
LEMMA NoRenewalType == NoRenewal \in Renewals
  BY DEF NoRenewal, Renewals

(* fence only gives up the round, the certificate and the decisions.        *)
LEMMA FenceLapses == \A l \in Leases : Lapsed(l, fence(l))
  <1> SUFFICES ASSUME NEW l \in Leases PROVE Lapsed(l, fence(l))
    OBVIOUS
  <1>1. fence(l) \in Leases
    BY NoRenewalType DEF Leases, fence
  <1>2. VoterSame(l, fence(l)) /\ Dropped(fence(l))
    BY DEF Leases, VoterSame, Dropped, fence
  <1>3. /\ fence(l).leader_term = l.leader_term /\ fence(l).seq = l.seq
        /\ fence(l).request = NoRenewal /\ fence(l).grant = NoRenewal
    BY DEF Leases, fence
  <1> QED BY <1>1, <1>2, <1>3 DEF Lapsed

(* revoke_leader only gives up what the leader relies on.                   *)
LEMMA RevokeLapses == \A l \in Leases : Lapsed(l, revoke_leader(l))
  <1> SUFFICES ASSUME NEW l \in Leases PROVE Lapsed(l, revoke_leader(l))
    OBVIOUS
  <1>1. CASE l.mode # "leader"
    BY ZenonT(60), <1>1, NoRenewalType DEF Leases, Lapsed, VoterSame, LeaderSame, Dropped, revoke_leader
  <1>2. CASE l.mode = "leader"
    BY ZenonT(60), <1>2, NoRenewalType DEF Leases, Lapsed, VoterSame, LeaderSame, Dropped, revoke_leader
  <1> QED BY <1>1, <1>2

(* LeaderLease::new leaves the voter's promise and quarantine alone.        *)
LEMMA NewRenews == \A l \in Leases, t \in Nat : Renewed(l, LeaderLease_new(l, t), t)
  <1> SUFFICES ASSUME NEW l \in Leases, NEW t \in Nat
               PROVE  Renewed(l, LeaderLease_new(l, t), t)
    OBVIOUS
  <1>1. LeaderLease_new(l, t) \in Leases
    BY ZenonT(60), NoRenewalType DEF Leases, LeaderLease_new
  <1>2. VoterSame(l, LeaderLease_new(l, t)) /\ Dropped(LeaderLease_new(l, t))
    BY DEF Leases, VoterSame, Dropped, LeaderLease_new
  <1>3. LET k == LeaderLease_new(l, t)
        IN  k.leader_term = t /\ k.seq = 0 /\ k.request = NoRenewal /\ k.grant = l.grant
    BY DEF Leases, LeaderLease_new
  <1> QED BY <1>1, <1>2, <1>3 DEF Renewed

(* synchronize gives up what an older term relied on, whatever the role.    *)
LEMMA Synchronizes ==
    ASSUME lease \in [Nodes -> Leases], term \in [Nodes -> Nat], NEW n \in Nodes
    PROVE  Synced(n, synchronize(n)) /\ synchronize(n) \in Leases
  <1>1. lease[n] \in Leases /\ term[n] \in Nat /\ lease[n].leader_term \in Nat
    BY DEF Leases
  <1>2. CASE role[n] # "leader"
    BY <1>1, <1>2, RevokeLapses DEF Synced, Kept, synchronize, Lapsed
  <1>3. CASE role[n] = "leader" /\ term[n] > lease[n].leader_term
    <2>1. synchronize(n) = LeaderLease_new(lease[n], term[n])
      BY <1>3 DEF synchronize
    <2>2. Renewed(lease[n], synchronize(n), term[n])
      BY <1>1, <2>1, NewRenews
    <2>3. synchronize(n) \in Leases /\ synchronize(n).leader_term = term[n]
      BY <2>2 DEF Renewed
    <2>4. Kept(n, synchronize(n))
      BY <1>3, <2>2 DEF Kept
    <2> QED BY SMT, <1>1, <2>3, <2>4 DEF Synced
  <1>4. CASE role[n] = "leader" /\ ~(term[n] > lease[n].leader_term)
    <2>1. Lapsed(lease[n], lease[n])
      BY <1>1 DEF Lapsed, VoterSame, LeaderSame
    <2> QED BY SMT, <1>1, <1>4, <2>1 DEF Synced, Kept, synchronize
  <1> QED BY <1>2, <1>3, <1>4

(* A promise lasts its full length or repeats the last one.                 *)
Held(l, k, r) ==
    /\ k \in Leases /\ k.recovery = l.recovery
    /\ k.leader_term = l.leader_term /\ k.seq = l.seq /\ LeaderSame(l, k)
    /\ k.request = l.request /\ k.grant = l.grant /\ k.last = r
    /\ IF r = l.last THEN k.hold = l.hold ELSE k.hold = promise_ns

(* promise lasts the full interval or repeats the promise in force.         *)
LEMMA PromiseHolds == \A l \in Leases, r \in Renewals : Held(l, promise(l, r), r)
  <1> SUFFICES ASSUME NEW l \in Leases, NEW r \in Renewals
               PROVE  Held(l, promise(l, r), r)
    OBVIOUS
  <1>1. CASE r = l.last
    BY <1>1 DEF Held, LeaderSame, promise
  <1>2. CASE r # l.last
    BY <1>2, Rates DEF Held, LeaderSame, promise, Leases
  <1> QED BY <1>1, <1>2

(* A round begins, with or without the leader's own promise.                *)
Started(n, l, k) ==
    /\ k \in Leases /\ k.recovery = l.recovery
    /\ k.leader_term = l.leader_term /\ k.seq = l.seq + 1
    /\ k.pending = Round(n, l) /\ k.pendEnd = leader_ns
    /\ k.active = l.active /\ k.activeEnd = l.activeEnd
    /\ k.request = Round(n, l) /\ k.grant = l.grant
    /\ \/ k.acks = {} /\ k.hold = l.hold /\ k.last = l.last
       \/ /\ k.acks = {n} /\ k.last = Round(n, l)
          /\ IF Round(n, l) = l.last THEN k.hold = l.hold ELSE k.hold = promise_ns

(* prepare only synchronizes, or a leader begins one round.                 *)
LEMMA Prepares ==
    ASSUME lease \in [Nodes -> Leases], term \in [Nodes -> Nat], NEW n \in Nodes
    PROVE  \/ prepare(n) = synchronize(n)
           \/ role[n] = "leader" /\ Started(n, synchronize(n), prepare(n))
  <1> DEFINE l == synchronize(n)
             r == Round(n, l)
             half == IF leader_ns \div 2 > 1 THEN leader_ns \div 2 ELSE 1
             started == [l EXCEPT !.seq = @ + 1, !.pending = r, !.pendEnd = leader_ns, !.acks = {},
                             !.next = half,
                             !.request = r, !.confirmed = NoRenewal]
             acked == [promise(started, r) EXCEPT
                     !.acks = {n},
                     !.confirmed = IF {n} \in Quorums THEN r ELSE NoRenewal]
  <1>1. l \in Leases
    BY Synchronizes
  <1>2. prepare(n) \in {l, started, acked} /\ (prepare(n) # l => role[n] = "leader")
    BY DEF prepare, commit_to_current_term
  <1> HIDE DEF l
  <1>3. r \in Renewals
    BY SMT, <1>1 DEF Round, Renewals, Leases
  <1>4. leader_ns \in Nat /\ half \in Nat
    BY SMT, LeaderInterval, TimingAssumption
  <1>5. r = Round(n, l)
    OBVIOUS
  <1> HIDE DEF r, half
  <1>6. Started(n, l, started) /\ started.last = l.last /\ started.hold = l.hold
    <2>1. started \in Leases
      <3>1. l.seq + 1 \in Nat
        BY SMT, <1>1 DEF Leases
      <3> QED BY <1>1, <1>3, <1>4, <3>1, NoRenewalType DEF Leases
    <2>2. /\ started.recovery = l.recovery /\ started.hold = l.hold /\ started.last = l.last
          /\ started.leader_term = l.leader_term /\ started.grant = l.grant
          /\ started.active = l.active /\ started.activeEnd = l.activeEnd
      BY <1>1 DEF Leases
    <2>3. /\ started.seq = l.seq + 1 /\ started.pending = r /\ started.pendEnd = leader_ns
          /\ started.request = r /\ started.acks = {}
      BY <1>1 DEF Leases
    <2> HIDE DEF started
    <2> QED BY <1>5, <2>1, <2>2, <2>3 DEF Started
  <1>7. started \in Leases
    BY <1>6 DEF Started
  <1> HIDE DEF started
  <1>8. Held(started, promise(started, r), r)
    BY <1>3, <1>7, PromiseHolds
  <1>9. (IF {n} \in Quorums THEN r ELSE NoRenewal) \in Renewals
    BY <1>3, NoRenewalType
  <1>10. Started(n, l, acked)
    <2> DEFINE h == promise(started, r)
    <2>1. Held(started, h, r)
      BY <1>8
    <2>2. acked = [h EXCEPT !.acks = {n}, !.confirmed = IF {n} \in Quorums THEN r ELSE NoRenewal]
      OBVIOUS
    <2> HIDE DEF h, acked
    <2>3. acked \in Leases /\ acked.acks = {n}
      BY ZenonT(60), <1>9, <2>1, <2>2 DEF Held, Leases
    <2>4. /\ acked.recovery = h.recovery /\ acked.hold = h.hold /\ acked.last = h.last
          /\ acked.leader_term = h.leader_term /\ acked.grant = h.grant
          /\ acked.active = h.active /\ acked.activeEnd = h.activeEnd
      BY <2>1, <2>2 DEF Held, Leases
    <2>5. /\ acked.seq = h.seq /\ acked.pending = h.pending /\ acked.pendEnd = h.pendEnd
          /\ acked.request = h.request
      BY <2>1, <2>2 DEF Held, Leases
    <2> QED BY <1>5, <1>6, <2>1, <2>3, <2>4, <2>5 DEF Started, Held, LeaderSame
  <1> QED BY <1>2, <1>6, <1>10 DEF l

------------------------------------------------------------------------------
(* The inductive invariant.                                                 *)

Batches == [request : Renewals, grant : Renewals, confirmed : Renewals, through : Int]
Tickets == [end : Nat, committed : Int, floor : Int, term : Nat]
Messages == [kind : {"request", "grant"}, renewal : Renewals, voter : Nodes]

Shape ==
    /\ term \in [Nodes -> Nat]
    /\ role \in [Nodes -> {"follower", "candidate", "leader"}]
    /\ lead \in [Nodes -> Nodes \cup {None}]
    /\ votes \subseteq Nat \X Nodes \X Nodes
    /\ committed \in [Nodes -> Int] /\ fresh \in [Nodes -> Nat]
    /\ top \in Int /\ topTerm \in Nat
    /\ lease \in [Nodes -> Leases] /\ batch \in [Nodes -> Batches]
    /\ applied \in [Nodes -> Int] /\ msgs \subseteq Messages
    /\ reads \in [Nodes -> Tickets] /\ promised \subseteq Nodes \X Renewals

Elected(t, n) == \E Q \in Quorums : \A v \in Q : <<t, v, n>> \in votes

(* Raft: one vote per term, none beyond the term, a quorum for each leader. *)
Voting ==
    /\ \A x \in votes : x[1] <= term[x[2]]
    /\ \A x, y \in votes : x[1] = y[1] /\ x[2] = y[2] => x[3] = y[3]
    /\ \A n \in Nodes : role[n] = "leader" => Elected(term[n], n)

(* No round that a node may still begin has the name of renewal q.          *)
Known(q) ==
    /\ q.leader \in Nodes /\ q.term <= term[q.leader]
    /\ q.term = term[q.leader] /\ role[q.leader] # "follower"
         => q.term = lease[q.leader].leader_term /\ q.seq <= lease[q.leader].seq

(* What lease k of node n in term t owes to the promises P.                 *)
Fit(n, k, P, t) ==
    /\ k.leader_term <= t
    /\ k.hold <= promise_ns /\ k.pendEnd <= leader_ns /\ k.activeEnd <= leader_ns
    /\ k.pending # NoRenewal => k.pending.leader = n /\ k.pending.term = k.leader_term
    /\ k.active # NoRenewal =>
          /\ k.active.leader = n /\ k.active.term = k.leader_term
          /\ \E Q \in Quorums : \A v \in Q : <<v, k.active>> \in P
    /\ \A v \in k.acks : <<v, k.pending>> \in P
    /\ k.last # NoRenewal => <<n, k.last>> \in P
    /\ k.grant # NoRenewal => <<n, k.grant>> \in P

Sound(n) ==
    /\ Fit(n, lease[n], promised, term[n])
    /\ lease[n].request # NoRenewal => Known(lease[n].request)

Sent(m) ==
    Known(m.renewal) /\ (m.kind = "grant" => <<m.voter, m.renewal>> \in promised)

Batched(n) ==
    /\ batch[n].request # NoRenewal => Known(batch[n].request)
    /\ batch[n].grant # NoRenewal => <<n, batch[n].grant>> \in promised

(* The leader of renewal q may rely on it for another e by its clock.       *)
Relies(q, e) ==
    LET l == lease[q.leader]
    IN  (l.pending = q /\ l.pendEnd = e) \/ (l.active = q /\ l.activeEnd = e)

Guards(l, e) == Outlasts(l.hold, e) \/ Outlasts(l.recovery, e)
Silent(v, t) == \A x \in votes : x[2] = v => x[1] <= t

(* For as long, the voter that promised it has cast no later vote, and will *)
(* cast none.                                                               *)
Covered(v, q) ==
    \A e \in Nat : e > 0 /\ Relies(q, e) => Guards(lease[v], e) /\ Silent(v, q.term)

Promised == \A x \in promised : Known(x[2]) /\ Covered(x[1], x[2])

LeaseInv ==
    /\ \A n \in Nodes : Sound(n) /\ Batched(n)
    /\ \A m \in msgs : Sent(m)
    /\ Promised

------------------------------------------------------------------------------
(* What holds across steps.                                                 *)

(* The nodes other than n keep their Raft state and their lease.            *)
Local(n) ==
    \A m \in Nodes \ {n} :
        term'[m] = term[m] /\ role'[m] = role[m] /\ lease'[m] = lease[m]

Advance(n) ==
    /\ term'[n] >= term[n]
    /\ term'[n] = term[n] /\ role'[n] # "follower" =>
          /\ role[n] # "follower"
          /\ \/ lease[n].leader_term < term[n]
             \/ lease'[n].leader_term = lease[n].leader_term /\ lease'[n].seq >= lease[n].seq

(* A round or certificate in force was so before, or its round is new.      *)
Keeps(n) ==
    /\ \/ lease'[n].pending = lease[n].pending /\ lease'[n].pendEnd = lease[n].pendEnd
       \/ lease'[n].pendEnd = 0
       \/ ~Known(lease'[n].pending)
    /\ \/ lease'[n].active = lease[n].active /\ lease'[n].activeEnd = lease[n].activeEnd
       \/ lease'[n].activeEnd = 0
       \/ lease'[n].active = lease[n].pending /\ lease'[n].activeEnd = lease[n].pendEnd

Holds(n) ==
    \/ /\ lease'[n].recovery = lease[n].recovery
       /\ lease'[n].hold = lease[n].hold \/ lease'[n].hold = promise_ns
    \/ lease'[n].recovery = recovery_ns

(* A node that keeps its term and role does not go back while its sequence  *)
(* goes on, or its lease was of an earlier term.                            *)
LEMMA StaysInTerm ==
    ASSUME NEW n \in Nodes, term'[n] = term[n], role'[n] = role[n], term[n] \in Nat,
           lease[n].seq \in Nat,
           \/ lease[n].leader_term < term[n]
           \/ /\ lease'[n].leader_term = lease[n].leader_term
              /\ lease'[n].seq = lease[n].seq \/ lease'[n].seq = lease[n].seq + 1
    PROVE  Advance(n)
  <1>1. term'[n] >= term[n]
    BY SMT
  <1>2. lease'[n].seq = lease[n].seq \/ lease'[n].seq = lease[n].seq + 1
        => lease'[n].seq >= lease[n].seq
    BY SMT
  <1> QED BY <1>1, <1>2 DEF Advance

(* A name of a round that is used up stays used up.                         *)
LEMMA KnownCarries ==
    ASSUME Shape, Shape', \A n \in Nodes : Advance(n), NEW q \in Renewals, Known(q)
    PROVE  Known(q)'
  <1>1. /\ q.leader \in Nodes /\ q.term \in Nat /\ q.seq \in Nat
        /\ Advance(q.leader)
    BY DEF Renewals, Known
  <1>2. /\ term[q.leader] \in Nat /\ term'[q.leader] \in Nat
        /\ lease[q.leader].leader_term \in Nat /\ lease[q.leader].seq \in Nat
        /\ lease'[q.leader].leader_term \in Nat /\ lease'[q.leader].seq \in Nat
    BY <1>1 DEF Shape, Leases
  <1> QED BY SMT, <1>1, <1>2 DEF Known, Advance

(* A lease stays sound as promises are added and the term rises.            *)
LEMMA FitCarries ==
    \A n, k, P, R, t, u :
        /\ Fit(n, k, P, t) /\ P \subseteq R
        /\ k.leader_term \in Int /\ t \in Int /\ u \in Int /\ t <= u
        => Fit(n, k, R, u)
  BY SMT DEF Fit

(* A lease that only gave something up stays sound.                         *)
LEMMA KeptFits ==
    ASSUME Shape, NEW n \in Nodes, Sound(n), NEW STATE k, Kept(n, k)
    PROVE  /\ k \in Leases /\ Fit(n, k, promised, term[n])
           /\ k.request # NoRenewal => k.request = lease[n].request
  <1>1. /\ lease[n] \in Leases /\ term[n] \in Nat
        /\ leader_ns \in Int /\ leader_ns > 0
    BY LeaderInterval, TimingAssumption DEF Shape
  <1>2. CASE Lapsed(lease[n], k)
    <2>1. CASE LeaderSame(lease[n], k)
      BY <1>1, <1>2, <2>1 DEF Lapsed, VoterSame, LeaderSame, Sound, Fit
    <2>2. CASE Dropped(k)
      BY SMTT(30), <1>1, <1>2, <2>2 DEF Lapsed, VoterSame, Dropped, Sound, Fit
    <2> QED BY <1>2, <2>1, <2>2 DEF Lapsed
  <1>3. CASE Renewed(lease[n], k, term[n])
    BY SMT, <1>1, <1>3 DEF Renewed, VoterSame, Dropped, Sound, Fit
  <1> QED BY <1>2, <1>3 DEF Kept
(* A promise or quarantine that covers an interval is not cut short.        *)
LEMMA GuardCarries ==
    ASSUME Shape, Shape', NEW v \in Nodes, Holds(v),
           NEW e \in Nat, e <= leader_ns, Guards(lease[v], e)
    PROVE  Guards(lease'[v], e)
  BY PromiseOutlasts DEF Holds, Guards

(* What a leader relies on after a step it relied on before.                *)
LEMMA RelianceCarries ==
    ASSUME Shape, Shape', NEW q \in Renewals, Known(q), Keeps(q.leader),
           NEW e \in Nat, e > 0, Relies(q, e)'
    PROVE  Relies(q, e)
  BY SMT DEF Keeps, Relies

(* A leader relies on no more than the interval of Timing::new.             *)
LEMMA Relied ==
    ASSUME Shape, NEW q \in Renewals, q.leader \in Nodes, Sound(q.leader),
           NEW e, Relies(q, e)
    PROVE  e <= leader_ns
  BY DEF Relies, Sound, Fit

(* A promise that covers its renewal still does after a step without votes. *)
LEMMA CoverCarries ==
    ASSUME Shape, Shape', \A n \in Nodes : Keeps(n) /\ Holds(n), votes' = votes,
           \A n \in Nodes : Sound(n),
           NEW v \in Nodes, NEW q \in Renewals, Known(q), Covered(v, q)
    PROVE  Covered(v, q)'
  <1> SUFFICES ASSUME NEW e \in Nat, e > 0, Relies(q, e)'
               PROVE  Guards(lease'[v], e) /\ Silent(v, q.term)'
    BY DEF Covered
  <1>1. q.leader \in Nodes
    BY DEF Known
  <1>2. Relies(q, e)
    BY <1>1, RelianceCarries
  <1>3. e <= leader_ns
    BY <1>1, <1>2, Relied
  <1>4. Guards(lease[v], e) /\ Silent(v, q.term)
    BY <1>2 DEF Covered
  <1> QED BY <1>3, <1>4, GuardCarries DEF Silent

(* A promise just made covers its renewal.                                  *)
LEMMA NewCover ==
    ASSUME Shape', Voting', \A n \in Nodes : Sound(n)',
           NEW v \in Nodes, NEW q \in Renewals, Known(q)',
           lease'[v].hold = promise_ns, term'[v] = q.term
    PROVE  Covered(v, q)'
  <1> SUFFICES ASSUME NEW e \in Nat, e > 0, Relies(q, e)'
               PROVE  Guards(lease'[v], e) /\ Silent(v, q.term)'
    BY DEF Covered
  <1>1. q.leader \in Nodes
    BY DEF Known
  <1>2. e <= leader_ns
    BY <1>1 DEF Relies, Sound, Fit
  <1>3. Guards(lease'[v], e)
    BY <1>2, PromiseOutlasts DEF Guards
  <1>4. Silent(v, q.term)'
    BY DEF Silent, Voting
  <1> QED BY <1>3, <1>4

(* A step of one node that does not vote.                                   *)
LEMMA LocalStep ==
    ASSUME Shape, Shape', Voting', LeaseInv, NEW n \in Nodes, Local(n),
           Advance(n), Keeps(n), Holds(n), votes' = votes, promised \subseteq promised',
           \A x \in promised' : x \notin promised =>
               x[1] = n /\ Known(x[2])' /\ lease'[n].hold = promise_ns /\ term'[n] = x[2].term,
           \A m \in msgs' : m \notin msgs =>
               IF m.kind = "grant" THEN <<m.voter, m.renewal>> \in promised' ELSE Known(m.renewal),
           \A m \in Nodes \ {n} : batch'[m] = batch[m],
           Sound(n)', Batched(n)'
    PROVE  LeaseInv'
  <1>1. \A m \in Nodes : Advance(m) /\ Keeps(m) /\ Holds(m)
    <2> SUFFICES ASSUME NEW m \in Nodes \ {n} PROVE Advance(m) /\ Keeps(m) /\ Holds(m)
      OBVIOUS
    <2>1. term'[m] = term[m] /\ role'[m] = role[m] /\ lease'[m] = lease[m]
      BY DEF Local
    <2>2. term[m] \in Nat /\ lease[m].seq \in Nat
      BY DEF Shape, Leases
    <2> QED BY SMT, <2>1, <2>2 DEF Advance, Keeps, Holds
  <1>2. \A q \in Renewals : Known(q) => Known(q)'
    BY <1>1, KnownCarries
  <1>3. \A m \in Nodes \ {n} : Sound(m)'
    <2> SUFFICES ASSUME NEW m \in Nodes \ {n} PROVE Sound(m)'
      OBVIOUS
    <2>1. Sound(m) /\ lease'[m] = lease[m] /\ term'[m] = term[m]
      BY DEF LeaseInv, Local
    <2>2. lease[m] \in Leases /\ lease[m].leader_term \in Nat /\ lease[m].request \in Renewals
          /\ term[m] \in Nat
      BY DEF Shape, Leases
    <2>3. Fit(m, lease[m], promised', term[m])
      BY SMT, <2>1, <2>2, FitCarries DEF Sound
    <2> QED BY <1>2, <2>1, <2>2, <2>3 DEF Sound
  <1>4. \A m \in Nodes : Sound(m)'
    BY <1>3
  <1>5. \A m \in Nodes \ {n} : Batched(m)'
    <2> SUFFICES ASSUME NEW m \in Nodes \ {n} PROVE Batched(m)'
      OBVIOUS
    <2>1. Batched(m) /\ batch'[m] = batch[m] /\ batch[m].request \in Renewals
      BY DEF LeaseInv, Shape, Batches
    <2> QED BY <1>2, <2>1 DEF Batched
  <1>6. \A x \in promised' : Known(x[2])' /\ Covered(x[1], x[2])'
    <2> SUFFICES ASSUME NEW x \in promised' PROVE Known(x[2])' /\ Covered(x[1], x[2])'
      OBVIOUS
    <2>1. x[1] \in Nodes /\ x[2] \in Renewals
      BY DEF Shape
    <2>2. CASE x \in promised
      <3>1. Known(x[2]) /\ Covered(x[1], x[2]) /\ \A m \in Nodes : Sound(m)
        BY <2>2 DEF LeaseInv, Promised
      <3>2. Known(x[2])'
        BY <1>2, <2>1, <3>1
      <3>3. Covered(x[1], x[2])'
        BY <1>1, <2>1, <3>1, CoverCarries
      <3> QED BY <3>2, <3>3
    <2>3. CASE x \notin promised
      <3>1. x[1] = n /\ Known(x[2])' /\ lease'[n].hold = promise_ns /\ term'[n] = x[2].term
        BY <2>3
      <3>2. Covered(x[1], x[2])'
        BY <1>4, <2>1, <3>1, NewCover
      <3> QED BY <3>1, <3>2
    <2> QED BY <2>2, <2>3
  <1>7. \A m \in msgs' : Sent(m)'
    <2> SUFFICES ASSUME NEW m \in msgs' PROVE Sent(m)'
      OBVIOUS
    <2>1. m.renewal \in Renewals
      BY DEF Shape, Messages
    <2>2. CASE m \in msgs
      BY <1>2, <2>1, <2>2 DEF LeaseInv, Sent
    <2>3. CASE m \notin msgs /\ m.kind = "grant"
      <3>1. <<m.voter, m.renewal>> \in promised'
        BY <2>3
      <3>2. Known(<<m.voter, m.renewal>>[2])'
        BY <1>6, <3>1
      <3> QED BY <2>3, <3>1, <3>2 DEF Sent
    <2>4. CASE m \notin msgs /\ m.kind # "grant"
      BY <1>2, <2>1, <2>4 DEF Sent
    <2> QED BY <2>2, <2>3, <2>4
  <1> QED BY <1>4, <1>5, <1>6, <1>7 DEF LeaseInv, Promised
------------------------------------------------------------------------------
(* The pump hands its decisions over, and what a completion or an answer    *)
(* adds.                                                                    *)
TermSame(l, k) == k.leader_term = l.leader_term /\ k.seq = l.seq

Handed(l, k) ==
    /\ k \in Leases /\ VoterSame(l, k) /\ LeaderSame(l, k) /\ TermSame(l, k)
    /\ k.request = NoRenewal /\ k.grant = NoRenewal

Granted(l, k, r) ==
    /\ k \in Leases /\ VoterSame(l, k) /\ LeaderSame(l, k) /\ TermSame(l, k)
    /\ k.request = l.request /\ k.grant = r

Acked(l, k, a) ==
    /\ k \in Leases /\ VoterSame(l, k) /\ TermSame(l, k) /\ k.acks = a
    /\ k.pending = l.pending /\ k.pendEnd = l.pendEnd
    /\ k.active = l.active /\ k.activeEnd = l.activeEnd
    /\ k.request = l.request /\ k.grant = l.grant

Published(l, k, q, e) ==
    /\ k \in Leases /\ VoterSame(l, k) /\ TermSame(l, k)
    /\ k.pending = NoRenewal /\ k.pendEnd = 0 /\ k.acks = {}
    /\ k.active = q /\ k.activeEnd = e
    /\ k.request = l.request /\ k.grant = l.grant

(* The pump takes the decisions and leaves the rest.                        *)
LEMMA HandsOver ==
    \A l \in Leases :
        Handed(l, [l EXCEPT !.request = NoRenewal, !.grant = NoRenewal, !.confirmed = NoRenewal])
  <1> TAKE l \in Leases
  <1> DEFINE k == [l EXCEPT !.request = NoRenewal, !.grant = NoRenewal, !.confirmed = NoRenewal]
  <1>1. k \in Leases
    BY NoRenewalType DEF Leases
  <1>2. VoterSame(l, k) /\ LeaderSame(l, k)
    BY DEF Leases, VoterSame, LeaderSame
  <1>3. TermSame(l, k) /\ k.request = NoRenewal /\ k.grant = NoRenewal
    BY DEF Leases, TermSame
  <1> QED BY SMTT(30), <1>1, <1>2, <1>3 DEF Handed

(* The grant of an answered request is the only field that changes.         *)
LEMMA GrantsIt ==
    \A l \in Leases, r \in Renewals : Granted(l, [l EXCEPT !.grant = r], r)
  <1> TAKE l \in Leases, r \in Renewals
  <1> DEFINE k == [l EXCEPT !.grant = r]
  <1>1. k \in Leases
    BY DEF Leases
  <1>2. VoterSame(l, k) /\ LeaderSame(l, k)
    BY DEF Leases, VoterSame, LeaderSame
  <1>3. TermSame(l, k) /\ k.request = l.request /\ k.grant = r
    BY DEF Leases, TermSame
  <1> QED BY <1>1, <1>2, <1>3 DEF Granted

(* An acknowledgement changes the acknowledgements and the decision.        *)
LEMMA AcksIt ==
    \A l \in Leases, a \in SUBSET Nodes, c \in Renewals :
        Acked(l, [l EXCEPT !.acks = a, !.confirmed = c], a)
  <1> TAKE l \in Leases, a \in SUBSET Nodes, c \in Renewals
  <1> DEFINE k == [l EXCEPT !.acks = a, !.confirmed = c]
  <1>1. k \in Leases
    BY DEF Leases
  <1>2. VoterSame(l, k) /\ k.pending = l.pending /\ k.pendEnd = l.pendEnd
        /\ k.active = l.active /\ k.activeEnd = l.activeEnd
    BY DEF Leases, VoterSame
  <1>3. TermSame(l, k) /\ k.request = l.request /\ k.grant = l.grant /\ k.acks = a
    BY DEF Leases, TermSame
  <1> QED BY <1>1, <1>2, <1>3 DEF Acked

(* publish makes the confirmed round the certificate.                       *)
LEMMA PublishesIt ==
    \A l \in Leases, q \in Renewals, e \in Nat :
        Published(l, [l EXCEPT !.active = q, !.activeEnd = e, !.pending = NoRenewal,
                               !.pendEnd = 0, !.acks = {}], q, e)
  <1> TAKE l \in Leases, q \in Renewals, e \in Nat
  <1> DEFINE k == [l EXCEPT !.active = q, !.activeEnd = e, !.pending = NoRenewal,
                            !.pendEnd = 0, !.acks = {}]
  <1>1. k \in Leases
    BY NoRenewalType DEF Leases
  <1>2. VoterSame(l, k) /\ k.pending = NoRenewal /\ k.pendEnd = 0 /\ k.acks = {}
    BY DEF Leases, VoterSame
  <1>3. k.active = q /\ k.activeEnd = e /\ k.request = l.request /\ k.grant = l.grant
    BY DEF Leases
  <1>4. TermSame(l, k)
    BY DEF Leases, TermSame
  <1> QED BY SMTT(30), <1>1, <1>2, <1>3, <1>4 DEF Published

(* VoterLease::recover starts with a quarantine and no certificate.         *)
LEMMA RecoverType ==
    \A x \in Nat :
        /\ recover(x) \in Leases /\ Dropped(recover(x))
        /\ recover(x).recovery = x /\ recover(x).hold = 0 /\ recover(x).last = NoRenewal
        /\ recover(x).leader_term = 0 /\ recover(x).seq = 0
        /\ recover(x).request = NoRenewal /\ recover(x).grant = NoRenewal
  <1> TAKE x \in Nat
  <1>1. recover(x) \in Leases
    BY NoRenewalType DEF recover, Leases
  <1> QED BY <1>1 DEF recover, Dropped
------------------------------------------------------------------------------
(* Types.                                                                   *)

(* prepare returns a lease.                                                 *)
LEMMA PreparesType ==
    ASSUME Shape, NEW n \in Nodes
    PROVE  prepare(n) \in Leases
  BY Synchronizes, Prepares DEF Shape, Started

(* Sent messages are typed.                                                 *)
LEMMA MessageType ==
    \A r \in Renewals, v \in Nodes : Request(r, v) \in Messages /\ Grant(r, v) \in Messages
  BY DEF Request, Grant, Messages

(* The initial state is typed.                                              *)
LEMMA TypeInit == Init => Shape
  <1> SUFFICES ASSUME Init PROVE Shape
    OBVIOUS
  <1>1. First \in Nodes
    BY LeaseAssumption
  <1>2. lease \in [Nodes -> Leases]
    BY RecoverType DEF Init
  <1>3. batch \in [Nodes -> Batches]
    BY SMT, NoRenewalType DEF Init, NoBatch, Batches
  <1>4. reads \in [Nodes -> Tickets]
    BY SMT DEF Init, NoTicket, Tickets
  <1>5. votes \subseteq Nat \X Nodes \X Nodes
    BY SMT, <1>1 DEF Init
  <1> QED BY SMT, <1>1, <1>2, <1>3, <1>4, <1>5 DEF Init, Shape

(* pump_owned keeps the types.                                              *)
LEMMA TypePump ==
    ASSUME Shape, NEW n \in Nodes, pump_owned(n) PROVE Shape'
  <1> DEFINE l == IF lease[n].fenced THEN lease[n] ELSE prepare(n)
  <1>1. l \in Leases
    BY PreparesType DEF Shape
  <1> HIDE DEF l
  <1>2. /\ batch' = [batch EXCEPT ![n] =
              [request |-> l.request, grant |-> l.grant, confirmed |-> l.confirmed,
               through |-> committed[n]]]
        /\ lease' = [lease EXCEPT ![n] =
              [l EXCEPT !.request = NoRenewal, !.grant = NoRenewal, !.confirmed = NoRenewal]]
        /\ promised' = promised \cup (IF n \in l.acks THEN {<<n, l.pending>>} ELSE {})
        /\ UNCHANGED <<raft, log, applied, msgs, reads>>
    BY DEF pump_owned, l
  <1>3. lease' \in [Nodes -> Leases]
    BY <1>1, <1>2, HandsOver DEF Handed, Shape
  <1>4. batch' \in [Nodes -> Batches]
    BY <1>1, <1>2 DEF Leases, Batches, Shape
  <1>5. promised' \subseteq Nodes \X Renewals
    BY SMT, <1>1, <1>2 DEF Leases, Shape
  <1> QED BY <1>2, <1>3, <1>4, <1>5 DEF Shape, raft, log

(* complete_pump keeps the types.                                           *)
LEMMA TypeComplete ==
    ASSUME Shape, NEW n \in Nodes, complete_pump(n) PROVE Shape'
  <1>1. batch[n] \in Batches /\ batch[n].grant \in Renewals /\ batch[n].request \in Renewals
        /\ batch[n].through \in Int
    BY DEF Shape, Batches
  <1>2. batch' \in [Nodes -> Batches] /\ applied' \in [Nodes -> Int]
    BY SMT, <1>1, NoRenewalType DEF complete_pump, Shape, NoBatch, Batches
  <1>3. UNCHANGED <<raft, log, reads>>
    BY DEF complete_pump
  <1>4. CASE lease[n].fenced
    BY <1>2, <1>3, <1>4 DEF complete_pump, complete, Shape, raft, log
  <1>5. CASE ~lease[n].fenced
    <2> DEFINE l == synchronize(n)
               b == batch[n]
               current(r) == /\ r # NoRenewal /\ commit_to_current_term(n)
                             /\ l.mode = "leader" /\ l.pending = r /\ l.pendEnd > 0
               grants == b.grant # NoRenewal /\ Promises(l, b.grant, term[n], lead[n])
               held == IF grants THEN promise(l, b.grant) ELSE l
               publishes == current(b.confirmed) /\ l.acks \in Quorums
    <2>1. /\ msgs' = msgs
                   \cup (IF grants THEN {Grant(b.grant, n)} ELSE {})
                   \cup (IF current(b.request) THEN {Request(b.request, v) : v \in Nodes \ {n}} ELSE {})
          /\ promised' = promised \cup (IF grants THEN {<<n, b.grant>>} ELSE {})
          /\ lease' = [lease EXCEPT ![n] =
                   IF publishes
                   THEN [held EXCEPT !.active = l.pending, !.activeEnd = l.pendEnd,
                                     !.pending = NoRenewal, !.pendEnd = 0, !.acks = {}]
                   ELSE held]
      BY <1>5 DEF complete_pump, complete
    <2>2. l \in Leases
      BY Synchronizes DEF Shape
    <2>3. held \in Leases
      BY <1>1, <2>2, PromiseHolds DEF Held
    <2>4. l.pending \in Renewals /\ l.pendEnd \in Nat
      BY <2>2 DEF Leases
    <2> HIDE DEF l, held, grants, current, publishes
    <2>5. lease' \in [Nodes -> Leases]
      BY <2>1, <2>3, <2>4, PublishesIt DEF Published, Shape
    <2>6. msgs' \subseteq Messages
      BY ZenonT(60), <1>1, <2>1, MessageType DEF Shape
    <2>7. promised' \subseteq Nodes \X Renewals
      BY SMT, <1>1, <2>1 DEF Shape
    <2> QED BY <1>2, <1>3, <2>5, <2>6, <2>7 DEF Shape, raft, log
  <1> QED BY <1>4, <1>5

(* Both arms of receive keep the types.                                     *)
LEMMA TypeReceive ==
    ASSUME Shape, NEW n \in Nodes, NEW m \in msgs,
           receive_request(n, m) \/ receive_grant(n, m)
    PROVE  Shape'
  <1>1. m.renewal \in Renewals /\ m.renewal.term \in Nat
        /\ m.renewal.leader \in Nodes \cup {None} /\ m.voter \in Nodes
    BY DEF Shape, Messages, Renewals
  <1>2. lease[n] \in Leases
    BY DEF Shape
  <1>3. msgs' \subseteq Messages
    BY DEF Shape, receive_request, receive_grant, Deliver
  <1>4. CASE receive_request(n, m)
    <2> DEFINE l == revoke_leader(lease[n])
               r == m.renewal
    <2>1. l \in Leases
      BY <1>2, RevokeLapses DEF Lapsed
    <2>2. promise(l, r) \in Leases
      BY <1>1, <2>1, PromiseHolds DEF Held
    <2>3. [promise(l, r) EXCEPT !.grant = r] \in Leases
      BY <1>1, <2>2, GrantsIt DEF Granted
    <2>4. lease' \in [Nodes -> Leases] /\ promised' \subseteq Nodes \X Renewals
      BY SMTT(30), <1>1, <1>4, <2>1, <2>3 DEF receive_request, Shape
    <2>5. /\ term' \in [Nodes -> Nat] /\ lead' \in [Nodes -> Nodes \cup {None}]
          /\ role' \in [Nodes -> {"follower", "candidate", "leader"}]
      BY <1>1, <1>4 DEF receive_request, Follow, Shape
    <2> QED BY <1>3, <1>4, <2>4, <2>5 DEF receive_request, Shape, log
  <1>5. CASE receive_grant(n, m)
    <2> DEFINE l == synchronize(n)
               a == l.acks \cup {m.voter}
               c == IF a \in Quorums THEN m.renewal ELSE l.confirmed
    <2>1. l \in Leases
      BY Synchronizes DEF Shape
    <2>2. a \in SUBSET Nodes /\ c \in Renewals
      BY <1>1, <2>1 DEF Leases
    <2>3. lease' = [lease EXCEPT ![n] = [l EXCEPT !.acks = a, !.confirmed = c]]
      BY <1>5, <2>1 DEF receive_grant, Leases
    <2> HIDE DEF l, a, c
    <2>4. lease' \in [Nodes -> Leases]
      BY <2>1, <2>2, <2>3, AcksIt DEF Acked, Shape
    <2> QED BY <1>3, <1>5, <2>4 DEF receive_grant, Shape, log, raft
  <1> QED BY <1>4, <1>5
(* The passage of time keeps the types.                                     *)
LEMMA TypeElapse ==
    ASSUME Shape, NEW d \in [Nodes -> RateLow..RateHigh], Elapse(d) PROVE Shape'
  <1>1. \A x \in Nat, n \in Nodes : Left(x, d[n]) \in Nat
    BY SMT, Rates DEF Left
  <1>2. lease' \in [Nodes -> Leases]
    <2> SUFFICES ASSUME NEW n \in Nodes
                 PROVE  [lease[n] EXCEPT !.recovery = Left(@, d[n]), !.hold = Left(@, d[n]),
                           !.pendEnd = Left(@, d[n]),
                           !.activeEnd = Left(@, d[n]), !.next = Left(@, d[n])] \in Leases
      BY DEF Elapse
    <2> DEFINE l == lease[n]
    <2>1. l \in Leases
      BY DEF Shape
    <2> HIDE DEF l
    <2>2. /\ Left(l.recovery, d[n]) \in Nat /\ Left(l.hold, d[n]) \in Nat
          /\ Left(l.pendEnd, d[n]) \in Nat /\ Left(l.activeEnd, d[n]) \in Nat
          /\ Left(l.next, d[n]) \in Nat
      BY <1>1, <2>1 DEF Leases
    <2>3. [l EXCEPT !.recovery = Left(@, d[n]), !.hold = Left(@, d[n]),
                           !.pendEnd = Left(@, d[n]),
                           !.activeEnd = Left(@, d[n]), !.next = Left(@, d[n])] \in Leases
      BY <2>1, <2>2 DEF Leases
    <2> QED BY <2>3 DEF l
  <1>3. reads' \in [Nodes -> Tickets]
    BY ZenonT(60), <1>1 DEF Elapse, Shape, Tickets
  <1> QED BY <1>2, <1>3 DEF Elapse, Shape, raft, log

(* An empty batch and an empty ticket are typed.                            *)
LEMMA EmptyTypes == NoBatch \in Batches /\ NoTicket \in Tickets
  BY SMT, NoRenewalType DEF NoBatch, Batches, NoTicket, Tickets

(* Every step keeps the types.                                              *)
LEMMA TypeStep == Shape /\ [Next]_vars => Shape'
  <1> SUFFICES ASSUME Shape, [Next]_vars PROVE Shape'
    OBVIOUS
  <1>1. ASSUME NEW n \in Nodes, campaign(n) \/ Win(n) \/ Commit(n) PROVE Shape'
    <2>1. CASE campaign(n)
      BY SMT, <2>1 DEF campaign, Shape, log
    <2>2. CASE Win(n)
      BY <2>2 DEF Win, Shape, log
    <2>3. CASE Commit(n)
      BY SMT, <2>3 DEF Commit, Shape, raft
    <2> QED BY <1>1, <2>1, <2>2, <2>3
  <1>2. ASSUME NEW n \in Nodes, begin_read(n) \/ finish_read(n) PROVE Shape'
    <2>1. synchronize(n) \in Leases
      BY Synchronizes DEF Shape
    <2>2. lease' \in [Nodes -> Leases]
      BY <1>2, <2>1 DEF begin_read, finish_read, Shape
    <2>3. synchronize(n).activeEnd \in Nat
      BY <2>1 DEF Leases
    <2>4. reads' \in [Nodes -> Tickets]
      <3> DEFINE t == [end |-> synchronize(n).activeEnd, committed |-> committed[n],
                       floor |-> top, term |-> term[n]]
      <3>1. t \in Tickets
        BY <2>3 DEF Shape, Tickets
      <3>2. reads' = [reads EXCEPT ![n] = t] \/ reads' = [reads EXCEPT ![n] = NoTicket]
        BY <1>2 DEF begin_read, finish_read
      <3> HIDE DEF t
      <3> QED BY <3>1, <3>2, EmptyTypes DEF Shape
    <2> QED BY <1>2, <2>2, <2>4 DEF begin_read, finish_read, Shape, raft, log
  <1>3. ASSUME NEW n \in Nodes, Restart(n) \/ Fence(n) \/ transfer_leader(n) PROVE Shape'
    <2>1. lease' \in [Nodes -> Leases]
      <3>1. \E k \in Leases : lease' = [lease EXCEPT ![n] = k]
        <4>1. lease[n] \in Leases /\ recover(recovery_ns) \in Leases
          BY RecoverType, RecoveryInterval DEF Shape
        <4>2. fence(lease[n]) \in Leases /\ revoke_leader(lease[n]) \in Leases
          BY <4>1, FenceLapses, RevokeLapses DEF Lapsed
        <4> QED BY <1>3, <4>1, <4>2 DEF Restart, Fence, transfer_leader
      <3> QED BY <3>1 DEF Shape
    <2>2. batch' \in [Nodes -> Batches] /\ reads' \in [Nodes -> Tickets]
      BY SMT, <1>3, EmptyTypes DEF Restart, Fence, transfer_leader, Shape
    <2> QED BY <1>3, <2>1, <2>2 DEF Restart, Fence, transfer_leader, Shape, raft, log
  <1>4. ASSUME NEW n \in Nodes, NEW c \in Nodes, NEW t \in 1..MaxTerm, Heartbeat(n, c, t) PROVE Shape'
    <2>1. t \in Nat
      BY SMT, <1>4 DEF Heartbeat, Shape
    <2> QED BY <1>4, <2>1 DEF Heartbeat, Follow, Shape, log
  <1>7. ASSUME NEW n \in Nodes, NEW m \in Nodes, StepDown(n, term[m]) PROVE Shape'
    BY <1>7 DEF StepDown, Follow, Shape, log
  <1>5. ASSUME NEW n \in Nodes, NEW c \in Nodes, NEW t \in 1..MaxTerm, Vote(n, c, t) PROVE Shape'
    <2>1. t \in Nat /\ <<t, n, c>> \in Nat \X Nodes \X Nodes
      BY <1>5 DEF Vote, Shape
    <2>2. votes' \subseteq Nat \X Nodes \X Nodes
      BY <1>5, <2>1 DEF Vote, Shape
    <2>3. /\ term' \in [Nodes -> Nat] /\ lead' \in [Nodes -> Nodes \cup {None}]
          /\ role' \in [Nodes -> {"follower", "candidate", "leader"}]
      BY ZenonT(60), <1>5, <2>1 DEF Vote, Follow, Shape
    <2> QED BY <1>5, <2>2, <2>3 DEF Vote, Shape, log
  <1>6. CASE UNCHANGED vars
    BY <1>6 DEF vars, raft, log, Shape
  <1> QED
    BY <1>1, <1>2, <1>3, <1>4, <1>5, <1>6, <1>7, TypePump, TypeComplete, TypeReceive, TypeElapse
    DEF Next

------------------------------------------------------------------------------
(* Raft: one leader per term.                                               *)

(* The first leader is elected by all.                                      *)
LEMMA VoteInit == QuorumsMeet /\ Init => Voting
  <1> SUFFICES ASSUME QuorumsMeet, Init PROVE Voting
    OBVIOUS
  <1>1. votes = {<<1, n, First>> : n \in Nodes} /\ term = [n \in Nodes |-> 1]
        /\ role = [n \in Nodes |-> IF n = First THEN "leader" ELSE "follower"]
    BY DEF Init
  <1>2. Elected(1, First)
    BY <1>1 DEF Elected, QuorumsMeet
  <1> QED BY SMT, <1>1, <1>2 DEF Voting

(* A step that adds at most votes above those the voter has cast.           *)
LEMMA VotesGrow ==
    ASSUME Shape, Shape', Voting, votes \subseteq votes',
           \A n \in Nodes : term'[n] >= term[n],
           \A x \in votes' : x \notin votes =>
               x[1] = term'[x[2]] /\ (\A y \in votes : y[2] = x[2] => y[1] # x[1]),
           \A x, y \in votes' : x \notin votes /\ y \notin votes => x = y,
           \A n \in Nodes : role'[n] = "leader" =>
               \/ role[n] = "leader" /\ term'[n] = term[n]
               \/ Elected(term'[n], n)
    PROVE  Voting'
  <1>1. \A x \in votes' : x[1] \in Nat /\ x[2] \in Nodes
    BY ZenonT(60) DEF Shape
  <1>2. \A x \in votes' : x[1] <= term'[x[2]]
    <2> SUFFICES ASSUME NEW x \in votes' PROVE x[1] <= term'[x[2]]
      OBVIOUS
    <2>1. x[1] \in Nat /\ term[x[2]] \in Nat /\ term'[x[2]] \in Nat /\ term'[x[2]] >= term[x[2]]
      BY <1>1 DEF Shape
    <2>2. CASE x \in votes
      BY SMTT(30), <2>1, <2>2 DEF Voting
    <2>3. CASE x \notin votes
      BY SMT, <2>1, <2>3
    <2> QED BY <2>2, <2>3
  <1>3. \A x, y \in votes' : x[1] = y[1] /\ x[2] = y[2] => x[3] = y[3]
    BY ZenonT(60) DEF Voting
  <1>4. \A t, n : Elected(t, n) => Elected(t, n)'
    BY DEF Elected
  <1> QED BY <1>2, <1>3, <1>4 DEF Voting
(* The steps that leave the votes alone raise no term of a leader.          *)
Quiet == /\ votes' = votes
         /\ \A n \in Nodes : term'[n] >= term[n]
         /\ \A n \in Nodes : role'[n] = "leader" => role[n] = "leader" /\ term'[n] = term[n]

(* A step without a vote keeps the elections as they are.                   *)
LEMMA QuietVotes == ASSUME Shape, Shape', Voting, Quiet PROVE Voting'
  BY VotesGrow DEF Quiet

(* A step that leaves Raft alone is such a step.                            *)
LEMMA RaftQuiet == ASSUME Shape, UNCHANGED raft PROVE Quiet
  <1>1. \A n \in Nodes : term[n] >= term[n]
    BY SMT DEF Shape
  <1> QED BY <1>1 DEF Quiet, raft

(* So is a step in which a node follows a term.                             *)
LEMMA FollowQuiet ==
    ASSUME Shape, NEW n \in Nodes, NEW t \in Nat, NEW l, t >= term[n], Follow(n, t, l),
           votes' = votes
    PROVE  Quiet
  <1>1. \A m \in Nodes : term[m] \in Nat
    BY DEF Shape
  <1> QED BY SMT, <1>1 DEF Follow, Quiet, Shape

(* Every step keeps one vote per voter and term.                            *)
LEMMA VoteStep == Shape /\ Shape' /\ Voting /\ [Next]_vars => Voting'
  <1> SUFFICES ASSUME Shape, Shape', Voting, [Next]_vars PROVE Voting'
    OBVIOUS
  <1>0. \A m \in Nodes : term[m] \in Nat
    BY DEF Shape
  <1>1. ASSUME NEW n \in Nodes, campaign(n) PROVE Voting'
    <2>1. \A x \in votes : x[1] \in Nat /\ x[2] \in Nodes /\ x[1] <= term[x[2]]
      BY DEF Shape, Voting
    <2>2. \A m \in Nodes : term'[m] >= term[m]
      BY SMT, <1>0, <1>1 DEF campaign, Shape
    <2>3. \A m \in Nodes : role'[m] = "leader" => role[m] = "leader" /\ term'[m] = term[m]
      BY <1>1 DEF campaign, Shape
    <2>4. votes' = votes \cup {<<term[n] + 1, n, n>>} /\ term'[n] = term[n] + 1
      BY <1>1 DEF campaign, Shape
    <2>5. \A y \in votes : y[2] = n => y[1] # term[n] + 1
      BY SMT, <1>0, <2>1
    <2>6. \A x \in votes' : x \notin votes => x = <<term[n] + 1, n, n>>
      BY <2>4
    <2>7. \A x \in votes' : x \notin votes =>
               x[1] = term'[x[2]] /\ (\A y \in votes : y[2] = x[2] => y[1] # x[1])
      BY SMT, <2>4, <2>5, <2>6
    <2>8. votes \subseteq votes' /\ \A x, y \in votes' : x \notin votes /\ y \notin votes => x = y
      BY <2>4, <2>6
    <2> QED BY <2>2, <2>3, <2>7, <2>8, VotesGrow
  <1>2. ASSUME NEW n \in Nodes, NEW c \in Nodes, NEW t \in 1..MaxTerm, Vote(n, c, t) PROVE Voting'
    <2>1. t \in Nat /\ t >= term[n]
      BY <1>2 DEF Vote, Shape
    <2>2. \A m \in Nodes : term'[m] >= term[m]
      BY SMT, <1>0, <1>2, <2>1 DEF Vote, Follow, Shape
    <2>3. \A m \in Nodes : role'[m] = "leader" => role[m] = "leader" /\ term'[m] = term[m]
      BY ZenonT(60), <1>2 DEF Vote, Follow, Shape
    <2>4. votes' = votes \cup {<<t, n, c>>} /\ term'[n] = t
      BY SMT, <1>0, <1>2, <2>1 DEF Vote, Follow, Shape
    <2>5. \A y \in votes : y[2] = n => y[1] # t
      BY <1>2 DEF Vote
    <2>6. \A x \in votes' : x \notin votes => x = <<t, n, c>>
      BY <2>4
    <2>7. \A x \in votes' : x \notin votes =>
               x[1] = term'[x[2]] /\ (\A y \in votes : y[2] = x[2] => y[1] # x[1])
      BY SMT, <2>4, <2>5, <2>6
    <2>8. votes \subseteq votes' /\ \A x, y \in votes' : x \notin votes /\ y \notin votes => x = y
      BY <2>4, <2>6
    <2> QED BY <2>2, <2>3, <2>7, <2>8, VotesGrow
  <1>3. ASSUME NEW n \in Nodes, Win(n) PROVE Voting'
    <2>1. votes' = votes /\ term' = term
      BY <1>3 DEF Win
    <2>2. Elected(term[n], n)
      BY <1>3 DEF Win, Elected
    <2>3. \A m \in Nodes : role'[m] = "leader" => role[m] = "leader" \/ m = n
      BY <1>3 DEF Win, Shape
    <2>4. \A m \in Nodes : term'[m] >= term[m]
      BY SMT, <1>0, <2>1
    <2> QED BY <2>1, <2>2, <2>3, <2>4, VotesGrow
  <1>4. ASSUME NEW n \in Nodes, NEW c \in Nodes, NEW t \in 1..MaxTerm, Heartbeat(n, c, t) PROVE Voting'
    <2>1. t \in Nat /\ t >= term[n]
      <3>1. term[n] <= t
        BY <1>4 DEF Heartbeat
      <3>2. t \in Nat /\ term[n] \in Nat
        BY SMT, <1>0 DEF Shape
      <3> QED BY <3>1, <3>2
    <2>2. Quiet
      BY <1>4, <2>1, FollowQuiet DEF Heartbeat
    <2> QED BY <2>2, QuietVotes
  <1>12. ASSUME NEW n \in Nodes, NEW m \in Nodes, StepDown(n, term[m]) PROVE Voting'
    <2>1. PICK t \in Nat : t = term[m]
      BY ZenonT(60), <1>0
    <2>2. Quiet
      BY SMTT(30), <1>0, <1>12, <2>1, FollowQuiet DEF StepDown
    <2> QED BY <2>2, QuietVotes
  <1>5. ASSUME NEW n \in Nodes, NEW m \in msgs, receive_request(n, m) PROVE Voting'
    <2>1. m.renewal.term \in Nat
      BY DEF Shape, Messages, Renewals
    <2>2. Quiet
      BY <1>5, <2>1, FollowQuiet DEF receive_request
    <2> QED BY <2>2, QuietVotes
  <1>6. ASSUME NEW n \in Nodes, Restart(n) PROVE Voting'
    <2>1. votes' = votes /\ term' = term /\ role' = [role EXCEPT ![n] = "follower"]
      BY <1>6 DEF Restart
    <2>2. \A m \in Nodes : role'[m] = "leader" => role[m] = "leader"
      BY <2>1 DEF Shape
    <2>3. Quiet
      BY SMT, <1>0, <2>1, <2>2 DEF Quiet
    <2> QED BY <2>3, QuietVotes
  <1>7. CASE UNCHANGED raft
    BY <1>7, RaftQuiet, QuietVotes
  <1>8. ASSUME NEW n \in Nodes,
               \/ Commit(n) \/ pump_owned(n) \/ complete_pump(n) \/ begin_read(n)
               \/ finish_read(n) \/ Fence(n) \/ transfer_leader(n)
        PROVE  UNCHANGED raft
    BY <1>8 DEF Commit, pump_owned, complete_pump, begin_read, finish_read, Fence, transfer_leader
  <1>9. ASSUME NEW n \in Nodes, NEW m \in msgs, receive_grant(n, m) PROVE UNCHANGED raft
    BY <1>9 DEF receive_grant
  <1>10. ASSUME NEW d, Elapse(d) PROVE UNCHANGED raft
    BY <1>10 DEF Elapse
  <1>11. UNCHANGED vars => UNCHANGED raft
    BY DEF vars
  <1> QED
    BY ZenonT(60), <1>1, <1>2, <1>3, <1>4, <1>5, <1>6, <1>7, <1>8, <1>9, <1>10, <1>11, <1>12 DEF Next

(* No two nodes are elected in one term.                                    *)
LEMMA OneLeader ==
    ASSUME QuorumsMeet, Voting, NEW t, NEW m \in Nodes, NEW n \in Nodes, Elected(t, m), Elected(t, n)
    PROVE  m = n
  <1>1. PICK P \in Quorums : \A v \in P : <<t, v, m>> \in votes
    BY DEF Elected
  <1>2. PICK Q \in Quorums : \A v \in Q : <<t, v, n>> \in votes
    BY DEF Elected
  <1>3. PICK v \in Nodes : v \in P /\ v \in Q
    BY DEF QuorumsMeet
  <1>4. <<t, v, m>> \in votes /\ <<t, v, n>> \in votes
    BY <1>1, <1>2, <1>3
  <1>5. <<t, v, m>>[3] = <<t, v, n>>[3]
    BY <1>4 DEF Voting
  <1> QED BY <1>5
(* The lease, one lemma per kind of step.                                   *)

(* Elections: whoever votes has no promise in force.                        *)
LEMMA RaftStep ==
    ASSUME Shape, Shape', LeaseInv, UNCHANGED <<lease, batch, msgs, promised>>,
           \A n \in Nodes : Advance(n),
           \A x \in votes' : x \notin votes => may_vote(x[2])
    PROVE  LeaseInv'
  <1>1. \A q \in Renewals : Known(q) => Known(q)'
    BY KnownCarries
  <1>2. ASSUME NEW n \in Nodes PROVE Sound(n)' /\ Batched(n)'
    <2>1. Sound(n) /\ Batched(n) /\ lease[n].request \in Renewals /\ batch[n].request \in Renewals
      BY DEF LeaseInv, Shape, Leases, Batches
    <2>2. /\ lease[n].leader_term \in Nat /\ term[n] \in Nat /\ term'[n] \in Nat
          /\ term'[n] >= term[n]
      BY DEF Shape, Leases, Advance
    <2>3. Fit(n, lease[n], promised, term'[n])
      BY SMT, <2>1, <2>2, FitCarries DEF Sound
    <2> QED BY <1>1, <2>1, <2>3 DEF Sound, Batched
  <1>3. ASSUME NEW m \in msgs' PROVE Sent(m)'
    <2>1. Sent(m) /\ m.renewal \in Renewals
      BY <1>3 DEF LeaseInv, Shape, Messages
    <2> QED BY <1>1, <2>1 DEF Sent
  <1>4. ASSUME NEW x \in promised' PROVE Known(x[2])' /\ Covered(x[1], x[2])'
    <2>1. x[1] \in Nodes /\ x[2] \in Renewals /\ Known(x[2]) /\ Covered(x[1], x[2])
      BY <1>4 DEF LeaseInv, Promised, Shape
    <2>2. ASSUME NEW e \in Nat, e > 0, Relies(x[2], e)' PROVE Guards(lease[x[1]], e) /\ Silent(x[1], x[2].term)'
      <3>1. Relies(x[2], e)
        BY <2>2 DEF Relies
      <3>2. Guards(lease[x[1]], e) /\ Silent(x[1], x[2].term)
        BY ZenonT(60), <2>2, <3>1, <2>1 DEF Covered
      <3>3. ~may_vote(x[1])
        BY SMTT(30), <2>2, <3>2, NothingOutlasts DEF may_vote, Guards
      <3> QED BY <3>2, <3>3 DEF Silent
    <2> QED BY <1>1, <2>1, <2>2 DEF Covered
  <1> QED BY <1>2, <1>3, <1>4 DEF LeaseInv, Promised

(* Elections and terms of peers keep the invariant.                         *)
LEMMA Elections ==
    ASSUME Shape, Shape', LeaseInv,
           \/ \E n \in Nodes : campaign(n) \/ Win(n)
           \/ \E n, m \in Nodes : StepDown(n, term[m])
           \/ \E n, c \in Nodes, t \in 1..MaxTerm : Heartbeat(n, c, t) \/ Vote(n, c, t)
    PROVE  LeaseInv'
  <1>0. /\ \A n \in Nodes : term[n] \in Nat /\ lease[n].seq \in Nat
        /\ term \in [Nodes -> Nat] /\ role \in [Nodes -> {"follower", "candidate", "leader"}]
    BY DEF Shape, Leases
  <1>1. UNCHANGED <<lease, batch, msgs, promised>>
    <2>1. \A n \in Nodes : campaign(n) \/ Win(n) => UNCHANGED <<lease, batch, msgs, promised>>
      BY DEF campaign, Win
    <2>2. \A n, m \in Nodes : StepDown(n, term[m]) => UNCHANGED <<lease, batch, msgs, promised>>
      BY DEF StepDown
    <2>3. \A n, c \in Nodes, t \in 1..MaxTerm :
            Heartbeat(n, c, t) => UNCHANGED <<lease, batch, msgs, promised>>
      BY DEF Heartbeat
    <2>4. \A n, c \in Nodes, t \in 1..MaxTerm :
            Vote(n, c, t) => UNCHANGED <<lease, batch, msgs, promised>>
      BY DEF Vote
    <2> QED BY <2>1, <2>2, <2>3, <2>4
  <1>2. ASSUME NEW x \in votes', x \notin votes PROVE may_vote(x[2])
    <2>1. ASSUME NEW n \in Nodes, campaign(n) PROVE may_vote(x[2])
      BY SMTT(30), <1>2, <2>1 DEF campaign
    <2>2. ASSUME NEW n \in Nodes, NEW c \in Nodes, NEW t \in 1..MaxTerm, Vote(n, c, t)
          PROVE  may_vote(x[2])
      BY SMT, <1>2, <2>2 DEF Vote
    <2> QED BY ZenonT(60), <1>2, <2>1, <2>2 DEF Win, Heartbeat, StepDown
  <1>3. ASSUME NEW k \in Nodes PROVE Advance(k)
    <2>1. ASSUME NEW n \in Nodes, campaign(n) PROVE Advance(k)
      <3>1. /\ term' = [term EXCEPT ![n] = @ + 1] /\ role' = [role EXCEPT ![n] = "candidate"]
            /\ lease' = lease
        BY <1>1, <2>1 DEF campaign
      <3> QED BY SMT, <1>0, <3>1 DEF Advance
    <2>2. ASSUME NEW n \in Nodes, Win(n) PROVE Advance(k)
      <3>1. /\ term' = term /\ role[n] # "follower" /\ role' = [role EXCEPT ![n] = "leader"]
            /\ lease' = lease
        BY <1>1, <2>2 DEF Win
      <3> QED BY SMT, <1>0, <3>1 DEF Advance
    <2>3. ASSUME NEW n \in Nodes, NEW c \in Nodes, NEW t \in 1..MaxTerm, Heartbeat(n, c, t)
          PROVE  Advance(k)
      <3>1. t >= term[n] /\ lease' = lease
            /\ term' = [term EXCEPT ![n] = t] /\ role' = [role EXCEPT ![n] = "follower"]
        BY <1>1, <2>3 DEF Heartbeat, Follow
      <3> QED BY SMT, <1>0, <3>1 DEF Advance
    <2>5. ASSUME NEW n \in Nodes, NEW m \in Nodes, StepDown(n, term[m]) PROVE Advance(k)
      <3>1. term[m] > term[n] \/ term[m] = term[n]
        BY <2>5 DEF StepDown
      <3>2. lease' = lease /\ term' = [term EXCEPT ![n] = term[m]]
            /\ role' = [role EXCEPT ![n] = "follower"]
        BY <1>1, <2>5 DEF StepDown, Follow
      <3> QED BY SMT, <1>0, <3>1, <3>2 DEF Advance
    <2>4. ASSUME NEW n \in Nodes, NEW c \in Nodes, NEW t \in 1..MaxTerm, Vote(n, c, t)
          PROVE  Advance(k)
      BY SMT, <1>0, <2>4 DEF Vote, Follow, Advance, Shape
    <2> QED BY SMTT(30), <2>1, <2>2, <2>3, <2>4, <2>5
  <1> QED BY <1>1, <1>2, <1>3, RaftStep

(* Time passes.                                                             *)
LEMMA Elapsing ==
    ASSUME Shape, Shape', LeaseInv, NEW d \in [Nodes -> RateLow..RateHigh], Elapse(d)
    PROVE  LeaseInv'
  <1>1. ASSUME NEW n \in Nodes
        PROVE  /\ lease'[n].recovery = Left(lease[n].recovery, d[n])
               /\ lease'[n].hold = Left(lease[n].hold, d[n])
               /\ lease'[n].pendEnd = Left(lease[n].pendEnd, d[n])
               /\ lease'[n].activeEnd = Left(lease[n].activeEnd, d[n])
               /\ lease'[n].last = lease[n].last /\ lease'[n].acks = lease[n].acks
               /\ lease'[n].leader_term = lease[n].leader_term /\ lease'[n].seq = lease[n].seq
               /\ lease'[n].pending = lease[n].pending /\ lease'[n].active = lease[n].active
               /\ lease'[n].request = lease[n].request /\ lease'[n].grant = lease[n].grant
    <2> DEFINE l == lease[n]
    <2>1. l \in Leases
      BY DEF Shape
    <2>2. lease'[n] = [l EXCEPT !.recovery = Left(@, d[n]), !.hold = Left(@, d[n]),
                                !.pendEnd = Left(@, d[n]), !.activeEnd = Left(@, d[n]),
                                !.next = Left(@, d[n])]
      BY DEF Elapse
    <2> HIDE DEF l
    <2>3. /\ lease'[n].recovery = Left(l.recovery, d[n]) /\ lease'[n].hold = Left(l.hold, d[n])
          /\ lease'[n].pendEnd = Left(l.pendEnd, d[n])
          /\ lease'[n].activeEnd = Left(l.activeEnd, d[n])
      BY <2>1, <2>2 DEF Leases
    <2>4. /\ lease'[n].last = l.last /\ lease'[n].acks = l.acks
          /\ lease'[n].leader_term = l.leader_term /\ lease'[n].seq = l.seq
      BY ZenonT(60), <2>1, <2>2 DEF Leases
    <2>5. /\ lease'[n].pending = l.pending /\ lease'[n].active = l.active
          /\ lease'[n].request = l.request /\ lease'[n].grant = l.grant
      BY ZenonT(60), <2>1, <2>2 DEF Leases
    <2> QED BY <2>3, <2>4, <2>5 DEF l
  <1>2. UNCHANGED <<term, role, votes, batch, msgs, promised>>
    BY DEF Elapse, raft
  <1>3. \A q : Known(q) => Known(q)'
    <2> SUFFICES ASSUME NEW q, Known(q) PROVE Known(q)'
      OBVIOUS
    <2>1. q.leader \in Nodes
      BY DEF Known
    <2>2. lease'[q.leader].leader_term = lease[q.leader].leader_term
          /\ lease'[q.leader].seq = lease[q.leader].seq
      BY <1>1, <2>1
    <2> QED BY <1>2, <2>2 DEF Known
  <1>4. \A x \in Nat, n \in Nodes : Left(x, d[n]) \in Nat /\ Left(x, d[n]) <= x
    BY SMT, Rates DEF Left
  <1>5. ASSUME NEW n \in Nodes PROVE Sound(n)' /\ Batched(n)'
    <2>1. Sound(n) /\ Batched(n)
      BY DEF LeaseInv
    <2>2. /\ lease[n].hold \in Nat /\ lease[n].pendEnd \in Nat /\ lease[n].activeEnd \in Nat
          /\ lease'[n].hold \in Nat /\ lease'[n].pendEnd \in Nat /\ lease'[n].activeEnd \in Nat
      BY DEF Shape, Leases
    <2>3. /\ lease'[n].hold <= lease[n].hold /\ lease'[n].pendEnd <= lease[n].pendEnd
          /\ lease'[n].activeEnd <= lease[n].activeEnd
      BY ZenonT(60), <1>1, <1>4, <2>2
    <2>4. lease'[n].hold <= promise_ns /\ lease'[n].pendEnd <= leader_ns
          /\ lease'[n].activeEnd <= leader_ns
      BY SMTT(30), <2>1, <2>2, <2>3, LeaderInterval, Rates DEF Sound, Fit
    <2>5. Fit(n, lease'[n], promised, term[n])
      BY <1>1, <2>1, <2>4 DEF Sound, Fit
    <2> QED BY <1>1, <1>2, <1>3, <2>1, <2>5 DEF Sound, Batched
  <1>6. ASSUME NEW x \in promised PROVE Covered(x[1], x[2])'
    <2> DEFINE v == x[1]
               q == x[2]
               n == q.leader
    <2>1. v \in Nodes /\ q \in Renewals /\ n \in Nodes /\ Covered(v, q)
      BY <1>6 DEF LeaseInv, Promised, Shape, Known
    <2>2. ASSUME NEW e \in Nat, e > 0, Relies(q, e)'
          PROVE  Guards(lease'[v], e) /\ Silent(v, q.term)'
      <3>1. PICK f \in Nat : Relies(q, f) /\ e = Left(f, d[n])
        <4>1. lease[n].pendEnd \in Nat /\ lease[n].activeEnd \in Nat
          BY SMTT(30), <2>1 DEF Shape, Leases
        <4>2. /\ lease'[n].pending = lease[n].pending /\ lease'[n].active = lease[n].active
              /\ lease'[n].pendEnd = Left(lease[n].pendEnd, d[n])
              /\ lease'[n].activeEnd = Left(lease[n].activeEnd, d[n])
          BY <1>1, <2>1
        <4>3. \/ lease'[n].pending = q /\ lease'[n].pendEnd = e
              \/ lease'[n].active = q /\ lease'[n].activeEnd = e
          BY <2>2 DEF Relies
        <4>4. CASE lease'[n].pending = q /\ lease'[n].pendEnd = e
          <5>1. Relies(q, lease[n].pendEnd)
            BY <4>2, <4>4 DEF Relies
          <5> QED BY <4>1, <4>2, <4>4, <5>1
        <4>5. CASE lease'[n].active = q /\ lease'[n].activeEnd = e
          <5>1. Relies(q, lease[n].activeEnd)
            BY <4>2, <4>5 DEF Relies
          <5> QED BY <4>1, <4>2, <4>5, <5>1
        <4> QED BY <4>3, <4>4, <4>5
      <3>2. f > 0
        BY SMTT(30), <2>1, <2>2, <3>1, Rates DEF Left
      <3>3. Guards(lease[v], f) /\ Silent(v, q.term)
        BY <2>1, <3>1, <3>2 DEF Covered
      <3>4. lease[v].hold \in Nat /\ lease[v].recovery \in Nat
        BY ZenonT(60), <2>1 DEF Shape, Leases
      <3>5. Guards(lease'[v], e)
        <4>1. /\ lease'[v].hold = Left(lease[v].hold, d[v])
              /\ lease'[v].recovery = Left(lease[v].recovery, d[v])
              /\ d[n] \in RateLow..RateHigh /\ d[v] \in RateLow..RateHigh
          BY <1>1, <2>1
        <4>2. Left(f, d[n]) # 0
          BY SMT, <2>2, <3>1
        <4>3. CASE Outlasts(lease[v].hold, f)
          <5>1. Outlasts(Left(lease[v].hold, d[v]), Left(f, d[n]))
            BY <3>4, <4>1, <4>2, <4>3, StillOutlasts
          <5> QED BY <3>1, <4>1, <5>1 DEF Guards
        <4>4. CASE Outlasts(lease[v].recovery, f)
          <5>1. Outlasts(Left(lease[v].recovery, d[v]), Left(f, d[n]))
            BY <3>4, <4>1, <4>2, <4>4, StillOutlasts
          <5> QED BY <3>1, <4>1, <5>1 DEF Guards
        <4> QED BY <3>3, <4>3, <4>4 DEF Guards
      <3> QED BY ZenonT(60), <1>2, <3>3, <3>5 DEF Silent
    <2> QED BY <2>2 DEF Covered
  <1>7. \A m \in msgs' : Sent(m)'
    BY <1>2, <1>3 DEF LeaseInv, Sent
  <1> QED BY <1>2, <1>3, <1>5, <1>6, <1>7 DEF LeaseInv, Promised
(* Calls that only synchronize, revoke or fence.                            *)
LEMMA KeptStep ==
    ASSUME Shape, Shape', Voting', LeaseInv, NEW n \in Nodes, NEW STATE k, Kept(n, k),
           lease' = [lease EXCEPT ![n] = k], UNCHANGED <<raft, msgs, promised>>,
           batch' = batch \/ batch' = [batch EXCEPT ![n] = NoBatch]
    PROVE  LeaseInv'
  <1>1. Sound(n) /\ Batched(n) /\ lease[n] \in Leases /\ lease'[n] = k
    BY DEF LeaseInv, Shape
  <1>2. /\ k \in Leases /\ Fit(n, k, promised, term[n])
        /\ k.request # NoRenewal => k.request = lease[n].request
    BY <1>1, KeptFits
  <1>3. Local(n) /\ votes' = votes
    BY ZenonT(60) DEF Local, Shape, raft
  <1>4. Advance(n) /\ Keeps(n) /\ Holds(n)
    <2>1. term[n] \in Nat /\ lease[n].seq \in Nat /\ term' = term /\ role' = role
      BY SMTT(30) DEF Shape, Leases, raft
    <2>2. CASE Lapsed(lease[n], k)
      <3>1. Advance(n)
        BY <1>1, <2>1, <2>2, StaysInTerm DEF Lapsed
      <3>2. Keeps(n) /\ Holds(n)
        BY <1>1, <2>2 DEF Lapsed, VoterSame, LeaderSame, Dropped, Keeps, Holds
      <3> QED BY <3>1, <3>2
    <2>3. CASE lease[n].leader_term < term[n] /\ Renewed(lease[n], k, term[n])
      <3>1. Advance(n)
        BY <2>1, <2>3, StaysInTerm
      <3>2. Keeps(n) /\ Holds(n)
        BY <1>1, <2>3 DEF Renewed, VoterSame, Dropped, Keeps, Holds
      <3> QED BY <3>1, <3>2
    <2> QED BY <2>2, <2>3 DEF Kept
  <1>5. Advance(n) => \A q \in Renewals : Known(q) => Known(q)'
    <2>1. \A m \in Nodes \ {n} : Advance(m)
      BY SMT, <1>3 DEF Local, Advance, Shape, Leases
    <2> QED BY <2>1, KnownCarries
  <1>6. Sound(n)'
    <2>1. lease[n].request \in Renewals
      BY <1>1 DEF Leases
    <2> QED BY <1>1, <1>2, <1>4, <1>5, <2>1 DEF Sound, raft
  <1>7. Batched(n)'
    <2>1. batch[n].request \in Renewals /\ batch'[n] \in {batch[n], NoBatch}
          /\ NoBatch.request = NoRenewal /\ NoBatch.grant = NoRenewal
      BY DEF Shape, Batches, NoBatch
    <2> QED BY <1>1, <1>4, <1>5, <2>1 DEF Batched
  <1>8. \A m \in Nodes \ {n} : batch'[m] = batch[m]
    BY DEF Shape
  <1> QED BY <1>3, <1>4, <1>6, <1>7, <1>8, LocalStep

(* Reads, the fence and a leadership transfer keep it.                      *)
LEMMA KeptCalls ==
    ASSUME Shape, Shape', Voting', LeaseInv, NEW n \in Nodes,
           begin_read(n) \/ finish_read(n) \/ Fence(n) \/ transfer_leader(n)
    PROVE  LeaseInv'
  <1>1. lease[n] \in Leases /\ Kept(n, synchronize(n))
    BY Synchronizes DEF Shape, Synced
  <1>2. Kept(n, lease[n]) /\ Kept(n, fence(lease[n])) /\ Kept(n, revoke_leader(lease[n]))
    BY <1>1, FenceLapses, RevokeLapses DEF Kept, Lapsed, VoterSame, LeaderSame
  <1>3. UNCHANGED <<raft, msgs, promised>>
    BY DEF begin_read, finish_read, Fence, transfer_leader
  <1>4. batch' = batch \/ batch' = [batch EXCEPT ![n] = NoBatch]
    BY DEF begin_read, finish_read, Fence, transfer_leader
  <1>5. PICK k : Kept(n, k) /\ lease' = [lease EXCEPT ![n] = k]
    <2>1. lease = [lease EXCEPT ![n] = lease[n]]
      BY DEF Shape
    <2> QED BY <1>1, <1>2, <2>1 DEF begin_read, finish_read, Fence, transfer_leader
  <1> QED BY <1>3, <1>4, <1>5, KeptStep

(* A restart loses the promise and begins with the quarantine.              *)
LEMMA Restarts ==
    ASSUME Shape, Shape', Voting', LeaseInv, NEW n \in Nodes, Restart(n)
    PROVE  LeaseInv'
  <1> DEFINE k == recover(recovery_ns)
  <1>1. /\ k \in Leases /\ Dropped(k) /\ k.recovery = recovery_ns /\ k.hold = 0
        /\ k.last = NoRenewal /\ k.leader_term = 0 /\ k.seq = 0
        /\ k.request = NoRenewal /\ k.grant = NoRenewal
    BY RecoverType, RecoveryInterval
  <1> HIDE DEF k
  <1>2. lease'[n] = k /\ Local(n) /\ UNCHANGED <<term, votes, msgs, promised>>
        /\ role'[n] = "follower" /\ batch'[n] = NoBatch
        /\ \A m \in Nodes \ {n} : batch'[m] = batch[m]
    BY SMTT(30) DEF Restart, Local, Shape, k
  <1>3. term[n] \in Nat
    BY DEF Shape
  <1>4. Advance(n) /\ Keeps(n) /\ Holds(n)
    <2>1. Advance(n)
      BY SMT, <1>2, <1>3 DEF Advance
    <2>2. Keeps(n)
      BY <1>1, <1>2 DEF Keeps, Dropped
    <2>3. Holds(n)
      BY <1>1, <1>2 DEF Holds
    <2> QED BY ZenonT(60), <2>1, <2>2, <2>3
  <1>5. Sound(n)'
    <2>1. Fit(n, k, promised, term[n])
      BY SMTT(30), <1>1, <1>3, LeaderInterval, TimingAssumption, Rates DEF Fit, Dropped
    <2> QED BY <1>1, <1>2, <2>1 DEF Sound
  <1>6. Batched(n)'
    BY SMTT(30), <1>2 DEF Batched, NoBatch
  <1> QED BY <1>2, <1>4, <1>5, <1>6, LocalStep
(* A used name is not the absent renewal.                                   *)
LEMMA RealRenewal == \A q : Known(q) => q # NoRenewal
  BY SMTT(30), LeaseAssumption DEF Known, NoRenewal

(* A step of one node lets no node go back.                                 *)
LEMMA AllAdvance ==
    ASSUME Shape, NEW n \in Nodes, Local(n), Advance(n)
    PROVE  \A m \in Nodes : Advance(m)
  <1> SUFFICES ASSUME NEW m \in Nodes \ {n} PROVE Advance(m)
    OBVIOUS
  <1>1. term'[m] = term[m] /\ role'[m] = role[m] /\ lease'[m] = lease[m]
    BY DEF Local
  <1>2. term[m] \in Nat /\ lease[m].seq \in Nat
    BY DEF Shape, Leases
  <1> QED BY SMT, <1>1, <1>2 DEF Advance

(* A renewal request: the voter follows its leader, and promises or not.    *)
LEMMA Requested ==
    ASSUME Shape, Shape', Voting', LeaseInv, NEW n \in Nodes, NEW m \in msgs,
           receive_request(n, m)
    PROVE  LeaseInv'
  <1> DEFINE r == m.renewal
             l == revoke_leader(lease[n])
             h == promise(l, r)
             k == lease'[n]
  <1>1. r \in Renewals /\ r.term \in Nat /\ Known(r) /\ r # NoRenewal
    BY RealRenewal DEF Shape, Messages, Renewals, LeaseInv, Sent
  <1>2. Sound(n) /\ Batched(n) /\ lease[n] \in Leases /\ term[n] \in Nat
    BY DEF LeaseInv, Shape
  <1>3. Lapsed(lease[n], l) /\ Kept(n, l)
    BY <1>2, RevokeLapses DEF Kept
  <1>4. /\ l \in Leases /\ Fit(n, l, promised, term[n])
        /\ l.request # NoRenewal => l.request = lease[n].request
    BY <1>2, <1>3, KeptFits
  <1>5. /\ Local(n) /\ votes' = votes /\ batch' = batch
        /\ term'[n] = r.term /\ r.term >= term[n] /\ role'[n] = "follower"
    BY SMT DEF receive_request, Follow, Local, Shape
  <1>6. Advance(n)
    BY <1>1, <1>2, <1>5 DEF Advance
  <1>7. \A q \in Renewals : Known(q) => Known(q)'
    BY <1>5, <1>6, AllAdvance, KnownCarries
  <1>8. \/ k = l /\ promised' = promised
        \/ k = [h EXCEPT !.grant = r] /\ promised' = promised \cup {<<n, r>>}
    BY DEF receive_request, Shape
  <1> HIDE DEF k
  <1>9. Held(l, h, r) /\ Granted(h, [h EXCEPT !.grant = r], r)
    BY SMTT(30), <1>1, <1>4, PromiseHolds, GrantsIt DEF Held
  <1> HIDE DEF l, h
  <1>10. /\ k \in Leases /\ k.recovery = l.recovery /\ LeaderSame(l, k) /\ TermSame(l, k)
         /\ k.request = l.request
         /\ k.hold = l.hold \/ k.hold = promise_ns
    BY <1>4, <1>8, <1>9 DEF Held, Granted, VoterSame, LeaderSame, TermSame
  <1>11. Keeps(n) /\ Holds(n)
    <2>1. LeaderSame(lease[n], l) \/ Dropped(l)
      BY <1>3 DEF Lapsed
    <2>2. VoterSame(lease[n], l)
      BY <1>3 DEF Lapsed
    <2> QED BY <1>10, <2>1, <2>2 DEF LeaderSame, Dropped, VoterSame, Keeps, Holds, k
  <1>12. promised \subseteq promised'
    BY <1>8
  <1>13. Fit(n, k, promised', r.term)
    <2>1. Fit(n, l, promised', r.term)
      <3>1. l.leader_term \in Nat
        BY <1>4 DEF Leases
      <3>2. l.leader_term \in Int /\ term[n] \in Int /\ r.term \in Int /\ term[n] <= r.term
        BY SMT, <1>1, <1>2, <1>5, <3>1
      <3> QED BY <1>4, <1>12, <3>2, FitCarries
    <2>2. CASE k = l
      BY <2>1, <2>2
    <2>3. CASE k = [h EXCEPT !.grant = r] /\ promised' = promised \cup {<<n, r>>}
      <3>1. k.last = r /\ k.grant = r /\ <<n, r>> \in promised'
        BY ZenonT(60), <1>9, <2>3 DEF Held, Granted, VoterSame
      <3>2. k.hold <= promise_ns
        BY SMT, <1>10, <2>1, Rates DEF Fit
      <3> QED BY <1>10, <2>1, <3>1, <3>2 DEF LeaderSame, TermSame, Fit
    <2> QED BY ZenonT(60), <1>8, <2>2, <2>3
  <1>14. Sound(n)'
    <2>1. lease[n].request \in Renewals
      BY <1>2 DEF Leases
    <2>2. (lease[n].request # NoRenewal => Known(lease[n].request))'
      BY <1>2, <1>4, <1>7, <1>10, <2>1 DEF Sound, k
    <2> QED BY <1>5, <1>13, <2>2 DEF Sound, k
  <1>15. Batched(n)'
    <2>1. batch[n].request \in Renewals
      BY DEF Shape, Batches
    <2> QED BY <1>2, <1>5, <1>7, <1>12, <2>1 DEF Batched
  <1>16. \A x \in promised' : x \notin promised =>
               x[1] = n /\ Known(x[2])' /\ lease'[n].hold = promise_ns /\ term'[n] = x[2].term
    <2> SUFFICES ASSUME <<n, r>> \notin promised, k = [h EXCEPT !.grant = r]
                 PROVE  k.hold = promise_ns
      BY SMTT(30), <1>1, <1>5, <1>7, <1>8 DEF k
    <2>1. l.last # r
      BY <1>1, <1>4 DEF Fit
    <2> QED BY <1>9, <2>1 DEF Held, Granted, VoterSame
  <1>17. msgs' \subseteq msgs
    BY DEF receive_request, Deliver
  <1> QED
    BY ZenonT(60), <1>5, <1>6, <1>11, <1>12, <1>14, <1>15, <1>16, <1>17, LocalStep

(* A grant: one more acknowledgement of the round it names.                 *)
LEMMA GrantReceived ==
    ASSUME Shape, Shape', Voting', LeaseInv, NEW n \in Nodes, NEW m \in msgs,
           receive_grant(n, m)
    PROVE  LeaseInv'
  <1> DEFINE l == synchronize(n)
             a == l.acks \cup {m.voter}
             c == IF a \in Quorums THEN m.renewal ELSE l.confirmed
             k == [l EXCEPT !.acks = a, !.confirmed = c]
  <1>1. m.renewal \in Renewals /\ m.voter \in Nodes /\ <<m.voter, m.renewal>> \in promised
    BY DEF Shape, Messages, LeaseInv, Sent, receive_grant
  <1>2. Sound(n) /\ Batched(n) /\ lease[n] \in Leases /\ term[n] \in Nat
    BY DEF LeaseInv, Shape
  <1>3. Kept(n, l) /\ l \in Leases
    BY Synchronizes DEF Shape, Synced
  <1>4. /\ Fit(n, l, promised, term[n])
        /\ l.request # NoRenewal => l.request = lease[n].request
    BY <1>2, <1>3, KeptFits
  <1>5. lease' = [lease EXCEPT ![n] = k] /\ l.pending = m.renewal
    BY <1>3 DEF receive_grant, Leases
  <1>6. UNCHANGED <<raft, batch, promised>> /\ msgs' \subseteq msgs
    BY DEF receive_grant, Deliver
  <1>7. a \in SUBSET Nodes /\ c \in Renewals
    BY <1>1, <1>3 DEF Leases
  <1> HIDE DEF l, c
  <1>8. Acked(l, k, a)
    BY <1>3, <1>7, AcksIt
  <1> HIDE DEF k
  <1>9. lease'[n] = k /\ Local(n) /\ votes' = votes /\ term' = term /\ role' = role
    BY <1>5, <1>6 DEF Local, Shape, raft
  <1>10. Advance(n) /\ Keeps(n) /\ Holds(n)
    <2>1. lease[n].seq \in Nat
      BY <1>2 DEF Leases
    <2>2. CASE Lapsed(lease[n], l)
      <3>1. Advance(n)
        BY <1>2, <1>8, <1>9, <2>1, <2>2, StaysInTerm DEF Lapsed, TermSame, Acked
      <3>2. Keeps(n)
        BY <1>8, <1>9, <2>2 DEF Lapsed, LeaderSame, Dropped, Acked, Keeps
      <3>3. Holds(n)
        BY ZenonT(60), <1>8, <1>9, <2>2 DEF Lapsed, VoterSame, Acked, Holds
      <3> QED BY ZenonT(60), <3>1, <3>2, <3>3
    <2>3. CASE lease[n].leader_term < term[n] /\ Renewed(lease[n], l, term[n])
      <3>1. Advance(n)
        BY <1>2, <1>9, <2>1, <2>3, StaysInTerm
      <3>2. Keeps(n)
        BY <1>8, <1>9, <2>3 DEF Renewed, Dropped, Acked, Keeps
      <3>3. Holds(n)
        BY <1>8, <1>9, <2>3 DEF Renewed, VoterSame, Acked, Holds
      <3> QED BY <3>1, <3>2, <3>3
    <2> QED BY <1>3, <2>2, <2>3 DEF Kept
  <1>11. \A q \in Renewals : Known(q) => Known(q)'
    BY <1>9, <1>10, AllAdvance, KnownCarries
  <1>12. Fit(n, k, promised, term[n])
    BY <1>1, <1>4, <1>5, <1>8 DEF Fit, Acked, VoterSame, TermSame, a
  <1>13. Sound(n)'
    <2>1. lease[n].request \in Renewals /\ k.request = l.request
      BY <1>2, <1>8 DEF Leases, Acked
    <2> QED BY <1>2, <1>4, <1>6, <1>9, <1>11, <1>12, <2>1 DEF Sound
  <1>14. Batched(n)'
    <2>1. batch[n].request \in Renewals
      BY DEF Shape, Batches
    <2> QED BY <1>2, <1>6, <1>11, <2>1 DEF Batched
  <1> QED BY <1>6, <1>9, <1>10, <1>13, <1>14, LocalStep

------------------------------------------------------------------------------
(* The lease invariant across the turns of the pump, and every step.        *)

(* The pump takes the decisions of lease l over.                            *)
Pumps(n, l) ==
    /\ Handed(l, lease'[n]) /\ Local(n) /\ UNCHANGED <<raft, msgs>>
    /\ batch'[n].request = l.request /\ batch'[n].grant = l.grant
    /\ \A m \in Nodes \ {n} : batch'[m] = batch[m]
    /\ promised' = promised \cup (IF n \in l.acks THEN {<<n, l.pending>>} ELSE {})

(* A pump that begins no round.                                             *)
LEMMA PumpKept ==
    ASSUME Shape, Shape', Voting', LeaseInv, NEW n \in Nodes, NEW STATE l, Kept(n, l), Pumps(n, l)
    PROVE  LeaseInv'
  <1>1. Sound(n) /\ lease[n] \in Leases /\ term[n] \in Nat
    BY DEF LeaseInv, Shape
  <1>2. /\ l \in Leases /\ Fit(n, l, promised, term[n])
        /\ l.request # NoRenewal => l.request = lease[n].request
    BY <1>1, KeptFits
  <1>3. promised' = promised /\ term' = term /\ role' = role /\ votes' = votes
    BY <1>2 DEF Fit, Pumps, raft
  <1>4. Handed(l, lease'[n])
    BY DEF Pumps
  <1>5. Advance(n) /\ Keeps(n) /\ Holds(n)
    <2>1. lease[n].seq \in Nat
      BY ZenonT(60), <1>1 DEF Leases
    <2>2. CASE Lapsed(lease[n], l)
      BY SMTT(30), <1>1, <1>3, <1>4, <2>1, <2>2
      DEF Lapsed, VoterSame, LeaderSame, TermSame, Dropped, Handed, Advance, Keeps, Holds
    <2>3. CASE lease[n].leader_term < term[n] /\ Renewed(lease[n], l, term[n])
      BY SMTT(30), <1>1, <1>3, <1>4, <2>3
      DEF Renewed, VoterSame, LeaderSame, TermSame, Dropped, Handed, Advance, Keeps, Holds
    <2> QED BY <2>2, <2>3 DEF Kept
  <1>6. \A q \in Renewals : Known(q) => Known(q)'
    BY <1>5, AllAdvance, KnownCarries DEF Pumps
  <1>7. Fit(n, lease'[n], promised, term[n])
    BY <1>2, <1>4 DEF Fit, Handed, VoterSame, LeaderSame, TermSame
  <1>8. Sound(n)'
    BY <1>3, <1>4, <1>7 DEF Sound, Handed
  <1>9. Batched(n)'
    <2>1. PICK q : q = l.request
      OBVIOUS
    <2>2. q # NoRenewal => Known(q)'
      BY <1>1, <1>2, <1>6, <2>1 DEF Sound, Leases
    <2>3. batch'[n].request = q /\ batch'[n].grant = l.grant
      BY <2>1 DEF Pumps
    <2> QED BY <1>2, <1>3, <2>2, <2>3 DEF Batched, Fit
  <1> QED BY <1>3, <1>5, <1>8, <1>9, LocalStep DEF Pumps

(* A round that the pump begins is new.                                     *)
LEMMA NewRound ==
    ASSUME Shape, LeaseInv, NEW n \in Nodes, role[n] = "leader", NEW STATE s, Synced(n, s)
    PROVE  /\ s.leader_term = term[n] /\ Round(n, s) \in Renewals
           /\ Round(n, s) = [leader |-> n, term |-> term[n], seq |-> s.seq + 1]
           /\ Round(n, s) # NoRenewal /\ ~Known(Round(n, s))
           /\ s.last # Round(n, s)
  <1>1. Sound(n) /\ lease[n] \in Leases /\ term[n] \in Nat /\ Kept(n, s)
    BY DEF LeaseInv, Shape, Synced
  <1>2. s \in Leases /\ Fit(n, s, promised, term[n])
    BY <1>1, KeptFits
  <1>3. s.leader_term \in Nat /\ s.seq \in Nat /\ lease[n].seq \in Nat /\ lease[n].leader_term \in Nat
    BY <1>1, <1>2 DEF Leases
  <1>4. s.leader_term = term[n]
    BY SMT, <1>1, <1>2, <1>3 DEF Fit, Synced
  <1> DEFINE r == Round(n, s)
  <1>5. r = [leader |-> n, term |-> term[n], seq |-> s.seq + 1]
    BY <1>4 DEF Round
  <1>6. r \in Renewals /\ r # NoRenewal
    BY SMT, <1>1, <1>3, <1>5, LeaseAssumption DEF Renewals, NoRenewal
  <1>7. ~Known(r)
    <2>1. SUFFICES ASSUME lease[n].leader_term = term[n], s.seq + 1 <= lease[n].seq PROVE FALSE
      BY SMTT(30), <1>5 DEF Known
    <2>2. s.seq = lease[n].seq
      BY SMT, <1>1, <1>3, <2>1 DEF Kept, Lapsed
    <2> QED BY SMTT(30), <1>3, <2>1, <2>2
  <1>8. s.last # r
    <2> SUFFICES ASSUME s.last = r PROVE FALSE
      OBVIOUS
    <2>1. <<n, r>> \in promised
      BY <1>2, <1>6 DEF Fit
    <2>2. Known(<<n, r>>[2])
      BY <2>1 DEF LeaseInv, Promised
    <2> QED BY <1>7, <2>2
  <1> QED BY <1>4, <1>5, <1>6, <1>7, <1>8

(* A pump that begins a round.                                              *)
LEMMA PumpStarted ==
    ASSUME Shape, Shape', Voting', LeaseInv, NEW n \in Nodes, role[n] = "leader",
           NEW STATE s, Synced(n, s), NEW STATE l, Started(n, s, l), Pumps(n, l)
    PROVE  LeaseInv'
  <1>0. PICK r : r = Round(n, s)
    OBVIOUS
  <1>1. Sound(n) /\ lease[n] \in Leases /\ term[n] \in Nat /\ Kept(n, s)
    BY DEF LeaseInv, Shape, Synced
  <1>2. s \in Leases /\ Fit(n, s, promised, term[n])
    BY <1>1, KeptFits
  <1>3. /\ s.leader_term = term[n] /\ r \in Renewals
        /\ r = [leader |-> n, term |-> term[n], seq |-> s.seq + 1]
        /\ r # NoRenewal /\ ~Known(r) /\ s.last # r
    BY <1>0, NewRound
  <1>4. term' = term /\ role' = role /\ votes' = votes
    BY DEF Pumps, raft
  <1>5. s.seq \in Nat /\ lease[n].seq \in Nat /\ lease[n].leader_term \in Nat
    BY <1>1, <1>2 DEF Leases
  <1>6. /\ l \in Leases /\ l.recovery = s.recovery
        /\ l.leader_term = term[n] /\ l.seq = s.seq + 1
        /\ l.pending = r /\ l.pendEnd = leader_ns
        /\ l.active = s.active /\ l.activeEnd = s.activeEnd
        /\ l.request = r /\ l.grant = s.grant
        /\ \/ l.acks = {} /\ l.hold = s.hold /\ l.last = s.last
           \/ l.acks = {n} /\ l.hold = promise_ns /\ l.last = r
    BY <1>0, <1>3 DEF Started
  <1> DEFINE k == lease'[n]
  <1>7. /\ k.recovery = s.recovery /\ k.hold = l.hold /\ k.last = l.last
        /\ k.leader_term = term[n] /\ k.seq = s.seq + 1
        /\ k.pending = r /\ k.pendEnd = leader_ns /\ k.acks = l.acks
        /\ k.active = s.active /\ k.activeEnd = s.activeEnd
        /\ k.request = NoRenewal /\ k.grant = NoRenewal
    BY <1>6 DEF Pumps, Handed, VoterSame, LeaderSame, TermSame
  <1> HIDE DEF k
  <1>8. Advance(n) /\ Keeps(n) /\ Holds(n)
    <2>1. CASE Lapsed(lease[n], s)
      <3>1. Advance(n)
        BY <1>1, <1>3, <1>4, <1>5, <1>7, <2>1, StaysInTerm DEF Lapsed, k
      <3>2. Keeps(n)
        BY <1>3, <1>7, <2>1 DEF Lapsed, LeaderSame, Dropped, Keeps, k
      <3>3. Holds(n)
        BY ZenonT(60), <1>6, <1>7, <2>1 DEF Lapsed, VoterSame, Holds, k
      <3> QED BY ZenonT(60), <3>1, <3>2, <3>3
    <2>2. CASE lease[n].leader_term < term[n] /\ Renewed(lease[n], s, term[n])
      <3>1. Advance(n)
        BY <1>1, <1>4, <1>5, <2>2, StaysInTerm
      <3>2. Keeps(n)
        BY <1>3, <1>7, <2>2 DEF Renewed, Dropped, Keeps, k
      <3>3. Holds(n)
        BY <1>6, <1>7, <2>2 DEF Renewed, VoterSame, Holds, k
      <3> QED BY <3>1, <3>2, <3>3
    <2> QED BY <1>1, <2>1, <2>2 DEF Kept
  <1>9. Known(r)'
    <2>1. r.leader = n /\ r.term = term[n] /\ r.seq = s.seq + 1
      BY <1>3
    <2>2. lease'[n].leader_term = term[n] /\ lease'[n].seq = s.seq + 1
      BY <1>7 DEF k
    <2> QED BY SMT, <1>1, <1>4, <1>5, <2>1, <2>2 DEF Known
  <1>10. /\ promised \subseteq promised' /\ \A x \in promised' : x \notin promised => x = <<n, r>>
         /\ \A v \in l.acks : <<v, r>> \in promised'
    BY <1>6 DEF Pumps
  <1>11. \A x \in promised' : x \notin promised => l.hold = promise_ns
    BY <1>6 DEF Pumps
  <1>12. Fit(n, k, promised', term[n])
    <2>1. Fit(n, s, promised', term[n])
      <3>1. s.leader_term \in Int /\ term[n] \in Int /\ term[n] <= term[n]
        BY SMT, <1>1, <1>3
      <3> QED BY <1>2, <1>10, <3>1, FitCarries
    <2>2. k.hold <= promise_ns /\ k.pendEnd <= leader_ns /\ k.activeEnd <= leader_ns
      BY SMTT(30), <1>6, <1>7, <2>1, Rates, LeaderInterval DEF Fit
    <2>3. k.pending.leader = n /\ k.pending.term = k.leader_term
      BY SMTT(30), <1>3, <1>7
    <2>4. k.last # NoRenewal => <<n, k.last>> \in promised'
      BY <1>6, <1>7, <1>10, <2>1 DEF Fit
    <2> QED BY ZenonT(60), <1>1, <1>3, <1>7, <1>10, <2>1, <2>2, <2>3, <2>4 DEF Fit
  <1>13. Sound(n)'
    BY <1>4, <1>7, <1>12 DEF Sound, k
  <1>14. Batched(n)'
    <2>1. batch'[n].request = r /\ batch'[n].grant = s.grant
      BY <1>6 DEF Pumps
    <2> QED BY <1>2, <1>9, <1>10, <2>1 DEF Batched, Fit
  <1>15. \A x \in promised' : x \notin promised =>
               x[1] = n /\ Known(x[2])' /\ lease'[n].hold = promise_ns /\ term'[n] = x[2].term
    <2> SUFFICES ASSUME NEW x \in promised', x \notin promised
                 PROVE  x[1] = n /\ Known(x[2])' /\ lease'[n].hold = promise_ns
                          /\ term'[n] = x[2].term
      OBVIOUS
    <2>1. x = <<n, r>>
      BY <1>10
    <2>2. x[1] = n /\ x[2] = r
      BY SMT, <2>1
    <2>3. lease'[n].hold = promise_ns
      BY <1>7, <1>11 DEF k
    <2>4. term'[n] = r.term
      BY <1>3, <1>4
    <2> QED BY <1>9, <2>2, <2>3, <2>4
  <1> QED BY <1>4, <1>8, <1>10, <1>13, <1>14, <1>15, LocalStep DEF Pumps

(* Every pump_owned keeps the invariant.                                    *)
LEMMA PumpOwned ==
    ASSUME Shape, Shape', Voting', LeaseInv, NEW n \in Nodes, pump_owned(n)
    PROVE  LeaseInv'
  <1> DEFINE l == IF lease[n].fenced THEN lease[n] ELSE prepare(n)
             k == [l EXCEPT !.request = NoRenewal, !.grant = NoRenewal, !.confirmed = NoRenewal]
  <1>1. l \in Leases /\ lease[n] \in Leases
    BY PreparesType DEF Shape
  <1>2. Handed(l, k)
    BY <1>1, HandsOver
  <1>3. lease' = [lease EXCEPT ![n] = k]
    BY DEF pump_owned
  <1>4. Pumps(n, l)
    <2>1. lease'[n] = k /\ \A m \in Nodes \ {n} : lease'[m] = lease[m]
      BY <1>3 DEF Shape
    <2>2. UNCHANGED <<raft, msgs>>
      BY DEF pump_owned
    <2>3. Local(n)
      BY <2>1, <2>2 DEF Local, raft
    <2> HIDE DEF k
    <2>4. /\ batch'[n].request = l.request /\ batch'[n].grant = l.grant
          /\ \A m \in Nodes \ {n} : batch'[m] = batch[m]
      BY ZenonT(60) DEF pump_owned, Shape
    <2>5. promised' = promised \cup (IF n \in l.acks THEN {<<n, l.pending>>} ELSE {})
      BY DEF pump_owned
    <2> QED BY <1>2, <2>1, <2>2, <2>3, <2>4, <2>5 DEF Pumps
  <1>5. Synced(n, synchronize(n))
    BY Synchronizes DEF Shape
  <1>6. Kept(n, lease[n])
    BY <1>1 DEF Kept, Lapsed, VoterSame, LeaderSame
  <1>7. \/ Kept(n, l)
        \/ role[n] = "leader" /\ Started(n, synchronize(n), l)
    BY <1>5, <1>6, Prepares DEF Shape, Synced
  <1> HIDE DEF l
  <1> QED BY <1>4, <1>5, <1>7, PumpKept, PumpStarted
(* The pump's turn ends: the grant and the request leave, the certificate   *)
(* is published.                                                            *)
LEMMA Completed ==
    ASSUME Shape, Shape', Voting', LeaseInv, NEW n \in Nodes, complete_pump(n)
    PROVE  LeaseInv'
  <1>1. /\ Sound(n) /\ Batched(n) /\ lease[n] \in Leases /\ term[n] \in Nat
        /\ batch[n].grant \in Renewals /\ batch[n].request \in Renewals
    BY DEF LeaseInv, Shape, Batches
  <1>2. UNCHANGED raft /\ batch' = [batch EXCEPT ![n] = NoBatch]
    BY DEF complete_pump
  <1>3. CASE lease[n].fenced
    <2>1. Kept(n, lease[n])
      BY <1>1 DEF Kept, Lapsed, VoterSame, LeaderSame
    <2>2. lease' = [lease EXCEPT ![n] = lease[n]] /\ UNCHANGED <<raft, msgs, promised>>
      BY <1>2, <1>3 DEF complete_pump, complete, Shape
    <2> QED BY <1>2, <2>1, <2>2, KeptStep
  <1>4. CASE ~lease[n].fenced
    <2> DEFINE l == synchronize(n)
               b == batch[n]
               current(r) == /\ r # NoRenewal /\ commit_to_current_term(n)
                             /\ l.mode = "leader" /\ l.pending = r /\ l.pendEnd > 0
               grants == b.grant # NoRenewal /\ Promises(l, b.grant, term[n], lead[n])
               held == IF grants THEN promise(l, b.grant) ELSE l
               publishes == current(b.confirmed) /\ l.acks \in Quorums
               k == lease'[n]
    <2>1. /\ msgs' = msgs
                   \cup (IF grants THEN {Grant(b.grant, n)} ELSE {})
                   \cup (IF current(b.request) THEN {Request(b.request, v) : v \in Nodes \ {n}} ELSE {})
          /\ promised' = promised \cup (IF grants THEN {<<n, b.grant>>} ELSE {})
          /\ lease' = [lease EXCEPT ![n] =
                   IF publishes
                   THEN [held EXCEPT !.active = l.pending, !.activeEnd = l.pendEnd,
                                     !.pending = NoRenewal, !.pendEnd = 0, !.acks = {}]
                   ELSE held]
      BY <1>4 DEF complete_pump, complete
    <2>2. Kept(n, l) /\ l \in Leases
      BY Synchronizes DEF Shape, Synced
    <2>3. /\ Fit(n, l, promised, term[n])
          /\ l.request # NoRenewal => l.request = lease[n].request
      BY <1>1, <2>2, KeptFits
    <2>4. grants => b.grant # NoRenewal /\ Held(l, held, b.grant)
      BY <1>1, <2>2, PromiseHolds
    <2>5. ~grants => held = l
      OBVIOUS
    <2>6. publishes => l.pending # NoRenewal /\ l.pendEnd > 0 /\ l.acks \in Quorums
      OBVIOUS
    <2>7. current(b.request) => b.request # NoRenewal
      OBVIOUS
    <2>8. /\ k = IF publishes
                  THEN [held EXCEPT !.active = l.pending, !.activeEnd = l.pendEnd,
                                    !.pending = NoRenewal, !.pendEnd = 0, !.acks = {}]
                  ELSE held
          /\ Local(n) /\ term' = term /\ role' = role /\ votes' = votes
          /\ batch'[n] = NoBatch /\ \A m \in Nodes \ {n} : batch'[m] = batch[m]
      BY <1>2, <2>1 DEF Local, Shape, raft
    <2> HIDE DEF l, held, grants, current, publishes, k
    <2>9. promised' = promised
      BY <1>1, <2>1, <2>4 DEF Batched
    <2>10. /\ held \in Leases /\ LeaderSame(l, held) /\ TermSame(l, held)
           /\ held.recovery = l.recovery /\ held.request = l.request /\ held.grant = l.grant
           /\ held.hold = l.hold \/ held.hold = promise_ns
           /\ held.last # NoRenewal => <<n, held.last>> \in promised
      <3>1. CASE grants
        BY <1>1, <2>4, <3>1 DEF Held, TermSame, Batched
      <3>2. CASE ~grants
        BY <2>2, <2>3, <2>5, <3>2 DEF LeaderSame, TermSame, Fit
      <3> QED BY <3>1, <3>2
    <2>11. l.pending \in Renewals /\ l.pendEnd \in Nat
      BY <2>2 DEF Leases
    <2>12. publishes => Published(held, k, l.pending, l.pendEnd)
      <3>1. Published(held, [held EXCEPT !.active = l.pending, !.activeEnd = l.pendEnd,
                                         !.pending = NoRenewal, !.pendEnd = 0, !.acks = {}],
                      l.pending, l.pendEnd)
        BY <2>10, <2>11, PublishesIt
      <3> QED BY <2>8, <3>1
    <2>13. ~publishes => k = held
      BY <2>8
    <2>14. /\ TermSame(l, k) /\ k.recovery = l.recovery /\ k.request = l.request /\ k.grant = l.grant
           /\ k.hold = l.hold \/ k.hold = promise_ns
           /\ k.last # NoRenewal => <<n, k.last>> \in promised
      BY <2>10, <2>12, <2>13 DEF Published, VoterSame, TermSame
    <2>15. Advance(n) /\ Keeps(n) /\ Holds(n)
      <3>1. lease[n].seq \in Nat
        BY <1>1 DEF Leases
      <3>2. Advance(n)
        BY SMTT(30), <1>1, <2>2, <2>8, <2>14, <3>1 DEF Kept, Lapsed, Renewed, TermSame, Advance, k
      <3>3. Holds(n)
        BY <2>2, <2>14 DEF Kept, Lapsed, Renewed, VoterSame, Holds, k
      <3>4. LeaderSame(lease[n], l) \/ Dropped(l)
        BY <2>2 DEF Kept, Lapsed, Renewed
      <3>5. Keeps(n)
        BY <2>6, <2>10, <2>12, <2>13, <3>4 DEF LeaderSame, Dropped, Published, Keeps, k
      <3> QED BY <3>2, <3>3, <3>5
    <2>16. \A q \in Renewals : Known(q) => Known(q)'
      BY <2>8, <2>15, AllAdvance, KnownCarries
    <2>17. Fit(n, k, promised, term[n])
      <3>1. k.hold <= promise_ns
        BY SMTT(30), <2>3, <2>14, Rates DEF Fit
      <3>2. CASE publishes
        <4>1. /\ k.pending = NoRenewal /\ k.pendEnd = 0 /\ k.acks = {}
              /\ k.active = l.pending /\ k.activeEnd = l.pendEnd
          BY <2>12, <3>2 DEF Published
        <4>2. l.acks \in Quorums /\ \A v \in l.acks : <<v, l.pending>> \in promised
          BY <2>3, <2>6, <3>2 DEF Fit
        <4> QED BY SMTT(30), <2>3, <2>14, <3>1, <4>1, <4>2, LeaderInterval, TimingAssumption DEF Fit, TermSame
      <3>3. CASE ~publishes
        BY <2>3, <2>10, <2>13, <2>14, <3>1, <3>3 DEF Fit, TermSame, LeaderSame
      <3> QED BY <3>2, <3>3
    <2>18. Sound(n)'
      <3>1. lease[n].request \in Renewals
        BY <1>1 DEF Leases
      <3>2. PICK q : q = k.request
        OBVIOUS
      <3>3. q # NoRenewal => Known(q)'
        BY <1>1, <2>3, <2>14, <2>16, <3>1, <3>2 DEF Sound
      <3> QED BY <2>8, <2>9, <2>17, <3>2, <3>3 DEF Sound, k
    <2>19. Batched(n)'
      BY SMTT(30), <2>8 DEF Batched, NoBatch
    <2>20. \A m \in msgs' : m \notin msgs =>
               IF m.kind = "grant" THEN <<m.voter, m.renewal>> \in promised' ELSE Known(m.renewal)
      <3> SUFFICES ASSUME NEW m \in msgs', m \notin msgs
                   PROVE  IF m.kind = "grant" THEN <<m.voter, m.renewal>> \in promised'
                          ELSE Known(m.renewal)
        OBVIOUS
      <3>1. \/ grants /\ m = Grant(b.grant, n)
            \/ current(b.request) /\ \E v \in Nodes : m = Request(b.request, v)
        BY <2>1
      <3> QED BY SMTT(30), <1>1, <2>4, <2>7, <2>9, <3>1 DEF Batched, Grant, Request
    <2> QED BY <2>8, <2>9, <2>15, <2>18, <2>19, <2>20, LocalStep
  <1> QED BY <1>3, <1>4

(* Nobody relies on anything at first.                                      *)
LEMMA LeaseInit == Init => LeaseInv
  <1> SUFFICES ASSUME Init PROVE LeaseInv
    OBVIOUS
  <1>1. promised = {} /\ msgs = {} /\ term = [n \in Nodes |-> 1]
        /\ lease = [n \in Nodes |-> recover(0)] /\ batch = [n \in Nodes |-> NoBatch]
    BY ZenonT(60) DEF Init
  <1>2. ASSUME NEW n \in Nodes PROVE Sound(n) /\ Batched(n)
    <2>1. lease[n] = recover(0) /\ term[n] = 1 /\ batch[n] = NoBatch
      BY <1>1
    <2>2. Fit(n, recover(0), promised, 1)
      BY SMT, RecoverType, LeaderInterval, TimingAssumption, Rates DEF Fit, Dropped
    <2>3. recover(0).request = NoRenewal
      BY RecoverType
    <2> QED BY SMT, <2>1, <2>2, <2>3 DEF Sound, Batched, NoBatch
  <1> QED BY <1>1, <1>2 DEF LeaseInv, Promised

(* Every step keeps the invariant of the lease.                             *)
LEMMA LeaseStep == Shape /\ Shape' /\ Voting' /\ LeaseInv /\ [Next]_vars => LeaseInv'
  <1> SUFFICES ASSUME Shape, Shape', Voting', LeaseInv, [Next]_vars PROVE LeaseInv'
    OBVIOUS
  <1>1. ASSUME UNCHANGED <<raft, lease, batch, msgs, promised>> PROVE LeaseInv'
    <2>1. \A n \in Nodes : Advance(n)
      BY SMT, <1>1 DEF Advance, raft, Shape, Leases
    <2> QED BY <1>1, <2>1, RaftStep DEF raft
  <1>2. ASSUME NEW n \in Nodes, Commit(n) PROVE LeaseInv'
    BY <1>1, <1>2 DEF Commit
  <1>3. CASE UNCHANGED vars
    BY <1>1, <1>3 DEF vars
  <1> QED
    BY <1>2, <1>3, Elections, Elapsing, KeptCalls, Restarts, Requested, GrantReceived,
       PumpOwned, Completed
    DEF Next
------------------------------------------------------------------------------
(* A certificate in force is later than every election.                     *)
LEMMA Exclusive ==
    ASSUME QuorumsMeet, Shape, Voting, LeaseInv, NEW n \in Nodes, lease[n].active # NoRenewal,
           lease[n].activeEnd > 0, NEW t \in Nat, NEW c \in Nodes, Elected(t, c)
    PROVE  t <= lease[n].leader_term
  <1> DEFINE q == lease[n].active
  <1>1. /\ lease[n] \in Leases /\ q \in Renewals /\ lease[n].activeEnd \in Nat
        /\ Fit(n, lease[n], promised, term[n])
    BY DEF Shape, Leases, LeaseInv, Sound
  <1>2. q.leader = n /\ q.term = lease[n].leader_term
    BY <1>1 DEF Fit
  <1>3. PICK P \in Quorums : \A v \in P : <<v, q>> \in promised
    BY <1>1 DEF Fit
  <1>4. PICK Q \in Quorums : \A v \in Q : <<t, v, c>> \in votes
    BY DEF Elected
  <1>5. PICK v \in Nodes : v \in P /\ v \in Q
    BY DEF QuorumsMeet
  <1>6. Covered(<<v, q>>[1], <<v, q>>[2])
    BY <1>3, <1>5 DEF LeaseInv, Promised
  <1>7. Relies(q, lease[n].activeEnd)
    BY <1>2 DEF Relies
  <1>8. Silent(v, q.term)
    BY <1>1, <1>6, <1>7 DEF Covered
  <1>9. <<t, v, c>>[1] <= q.term
    BY <1>4, <1>5, <1>8 DEF Silent
  <1> QED BY <1>2, <1>9

(* So no node leads in a later term meanwhile.                              *)
LEMMA CertificatesExclusive == QuorumsMeet /\ Shape /\ Voting /\ LeaseInv => LeaseExclusive
  <1> SUFFICES ASSUME QuorumsMeet, Shape, Voting, LeaseInv, NEW n \in Nodes, NEW m \in Nodes,
                      Certified(n), role[m] = "leader"
               PROVE  term[m] <= term[n]
    BY DEF LeaseExclusive
  <1>1. Elected(term[m], m) /\ term[m] \in Nat
    BY DEF Voting, Shape
  <1>2. /\ lease[n].active # NoRenewal /\ lease[n].activeEnd > 0
        /\ lease[n].leader_term = term[n]
    BY DEF Certified
  <1> QED BY <1>1, <1>2, Exclusive

------------------------------------------------------------------------------
(* The committed prefix: its last writer is the latest leader that wrote.   *)
LogInv ==
    /\ topTerm > 0 /\ \E c \in Nodes : Elected(topTerm, c)
    /\ \A n \in Nodes :
          /\ committed[n] <= top /\ fresh[n] <= topTerm
          /\ fresh[n] > 0 => Elected(fresh[n], n)
          /\ fresh[n] = topTerm => committed[n] = top
          /\ reads[n].floor <= reads[n].committed

(* Nothing is written at first.                                             *)
LEMMA LogInit == QuorumsMeet /\ Init => LogInv
  <1> SUFFICES ASSUME QuorumsMeet, Init PROVE LogInv
    OBVIOUS
  <1>1. First \in Nodes /\ Elected(1, First)
    BY LeaseAssumption DEF Init, Elected, QuorumsMeet
  <1>2. /\ committed = [n \in Nodes |-> IF n = First THEN 1 ELSE 0] /\ fresh = committed
        /\ top = 1 /\ topTerm = 1 /\ reads = [n \in Nodes |-> NoTicket]
    BY DEF Init
  <1> QED BY SMT, <1>1, <1>2 DEF LogInv, NoTicket

(* No vote is ever withdrawn.                                               *)
LEMMA VotesStay ==
    ASSUME [Next]_vars PROVE votes \subseteq votes'
  <1>1. ASSUME NEW n \in Nodes,
               \/ campaign(n) \/ Win(n) \/ Commit(n) \/ pump_owned(n) \/ complete_pump(n)
               \/ begin_read(n) \/ finish_read(n) \/ Restart(n) \/ Fence(n) \/ transfer_leader(n)
        PROVE  votes \subseteq votes'
    BY <1>1 DEF campaign, Win, Commit, pump_owned, complete_pump, begin_read, finish_read,
                Restart, Fence, transfer_leader, raft
  <1>2. ASSUME NEW n \in Nodes, NEW m, receive_request(n, m) \/ receive_grant(n, m)
        PROVE  votes \subseteq votes'
    BY <1>2 DEF receive_request, receive_grant, raft
  <1>3. ASSUME NEW n, NEW c, NEW STATE t, Heartbeat(n, c, t) \/ StepDown(n, t) \/ Vote(n, c, t)
        PROVE  votes \subseteq votes'
    BY <1>3 DEF Heartbeat, StepDown, Vote
  <1>4. ASSUME NEW d, Elapse(d) PROVE votes \subseteq votes'
    BY <1>4 DEF Elapse, raft
  <1>5. UNCHANGED vars => votes \subseteq votes'
    BY DEF vars, raft
  <1> QED BY <1>1, <1>2, <1>3, <1>4, <1>5 DEF Next

(* A step that writes nothing keeps the log's facts.                        *)
LEMMA LogKept ==
    ASSUME LogInv, votes \subseteq votes', UNCHANGED log,
           \A n \in Nodes : reads'[n].floor <= reads'[n].committed
    PROVE  LogInv'
  <1>1. \A t, n : Elected(t, n) => Elected(t, n)'
    BY DEF Elected
  <1>2. \E c \in Nodes : Elected(topTerm, c)'
    BY <1>1 DEF LogInv, log
  <1>3. \A n \in Nodes : fresh'[n] > 0 => Elected(fresh[n], n)'
    BY <1>1 DEF LogInv, log
  <1> QED BY <1>2, <1>3 DEF LogInv, log

(* A commit needs a majority still in the leader's term, so no later leader *)
(* was elected.                                                             *)
LEMMA CommitLog ==
    ASSUME QuorumsMeet, Shape, Voting, LogInv, NEW n \in Nodes, Commit(n) PROVE LogInv'
  <1>1. PICK c \in Nodes : Elected(topTerm, c)
    BY DEF LogInv
  <1>2. PICK P \in Quorums : \A v \in P : <<topTerm, v, c>> \in votes
    BY <1>1 DEF Elected
  <1>3. PICK Q \in Quorums : \A v \in Q : term[v] = term[n]
    BY DEF Commit
  <1>4. PICK v \in Nodes : v \in P /\ v \in Q
    BY DEF QuorumsMeet
  <1>5. <<topTerm, v, c>> \in votes /\ term[v] = term[n]
    BY <1>2, <1>3, <1>4
  <1>6. <<topTerm, v, c>>[1] <= term[<<topTerm, v, c>>[2]]
    BY <1>5 DEF Voting
  <1>7. topTerm <= term[n] /\ topTerm \in Nat /\ term[n] \in Nat /\ topTerm > 0
    BY <1>5, <1>6 DEF Shape, LogInv
  <1>8. Elected(term[n], n)
    BY DEF Commit, Voting
  <1>9. /\ top' = top + 1 /\ topTerm' = term[n] /\ votes' = votes /\ reads' = reads
        /\ committed' = [committed EXCEPT ![n] = top + 1]
        /\ fresh' = [fresh EXCEPT ![n] = term[n]] /\ top \in Int
    BY DEF Commit, raft, Shape
  <1>10. \A t, m : Elected(t, m)' = Elected(t, m)
    BY <1>9 DEF Elected
  <1>11. \E m \in Nodes : Elected(topTerm, m)'
    BY <1>8, <1>9, <1>10
  <1>12. ASSUME NEW m \in Nodes
         PROVE  /\ committed'[m] <= top' /\ fresh'[m] <= topTerm'
                /\ fresh'[m] > 0 => Elected(fresh[m], m)'
                /\ fresh'[m] = topTerm' => committed'[m] = top'
                /\ reads'[m].floor <= reads'[m].committed
    <2>1. committed[m] \in Int /\ fresh[m] \in Nat /\ committed[m] <= top /\ fresh[m] <= topTerm
          /\ (fresh[m] > 0 => Elected(fresh[m], m)) /\ reads[m].floor <= reads[m].committed
      BY DEF Shape, LogInv
    <2>2. CASE m = n
      <3>1. committed'[m] = top + 1 /\ fresh'[m] = term[n]
        BY <1>9, <2>2 DEF Shape
      <3>2. PICK f : f = fresh'[m]
        OBVIOUS
      <3>3. Elected(f, m)'
        BY <1>8, <1>10, <2>2, <3>1, <3>2
      <3> QED BY SMTT(30), <1>7, <1>9, <2>1, <3>1, <3>2, <3>3
    <2>3. CASE m # n
      <3>1. committed'[m] = committed[m] /\ fresh'[m] = fresh[m]
        BY <1>9, <2>3 DEF Shape
      <3>2. fresh[m] # term[n]
        BY SMTT(30), <1>7, <1>8, <2>1, <2>3, OneLeader
      <3>3. PICK f : f = fresh[m]
        OBVIOUS
      <3>4. f > 0 => Elected(f, m)'
        BY <1>10, <2>1, <3>3
      <3> QED BY SMTT(30), <1>7, <1>9, <2>1, <3>1, <3>2, <3>3, <3>4
    <2> QED BY <2>2, <2>3
  <1> QED BY SMT, <1>7, <1>9, <1>11, <1>12 DEF LogInv

(* A read begins only where the commit index is the group's.                *)
LEMMA ReadLog ==
    ASSUME QuorumsMeet, Shape, Voting, LeaseInv, LogInv, NEW n \in Nodes, begin_read(n)
    PROVE  top <= committed[n]
  <1> DEFINE l == synchronize(n)
  <1>1. Synced(n, l) /\ l \in Leases
    BY Synchronizes DEF Shape
  <1>2. role[n] = "leader" /\ fresh[n] = term[n] /\ l.active # NoRenewal /\ l.activeEnd > 0
    BY DEF begin_read, commit_to_current_term
  <1> HIDE DEF l
  <1>3. Lapsed(lease[n], l) /\ LeaderSame(lease[n], l)
    BY <1>1, <1>2 DEF Synced, Kept, Lapsed, Renewed, Dropped
  <1>4. lease[n].active # NoRenewal /\ lease[n].activeEnd > 0 /\ lease[n].leader_term = l.leader_term
    BY <1>2, <1>3 DEF LeaderSame, Lapsed
  <1>5. lease[n].leader_term <= term[n] /\ lease[n].leader_term \in Nat /\ term[n] \in Nat
        /\ topTerm \in Nat /\ fresh[n] <= topTerm
    BY DEF LeaseInv, Sound, Fit, Shape, Leases, LogInv
  <1>6. PICK c \in Nodes : Elected(topTerm, c)
    BY DEF LogInv
  <1>7. topTerm <= lease[n].leader_term
    BY <1>4, <1>5, <1>6, Exclusive
  <1>8. fresh[n] = topTerm
    BY SMT, <1>2, <1>5, <1>7
  <1> QED BY <1>8 DEF LogInv, Shape

(* Every step keeps the facts about the committed prefix.                   *)
LEMMA LogStep == QuorumsMeet /\ Shape /\ Voting /\ LeaseInv /\ LogInv /\ [Next]_vars => LogInv'
  <1> SUFFICES ASSUME QuorumsMeet, Shape, Voting, LeaseInv, LogInv, [Next]_vars PROVE LogInv'
    OBVIOUS
  <1>0. votes \subseteq votes' /\ \A n \in Nodes : reads[n].floor <= reads[n].committed
    BY VotesStay DEF LogInv
  <1>1. ASSUME UNCHANGED <<log, reads>> PROVE LogInv'
    BY <1>0, <1>1, LogKept
  <1>2. ASSUME NEW n \in Nodes, begin_read(n) PROVE LogInv'
    <2>1. top <= committed[n]
      BY <1>2, ReadLog
    <2>2. \A m \in Nodes : reads'[m].floor <= reads'[m].committed
      BY <1>0, <1>2, <2>1 DEF begin_read, Shape
    <2> QED BY <1>0, <1>2, <2>2, LogKept DEF begin_read
  <1>3. ASSUME NEW n \in Nodes, finish_read(n) \/ Restart(n) PROVE LogInv'
    <2>1. \A m \in Nodes : reads'[m].floor <= reads'[m].committed
      BY SMT, <1>0, <1>3 DEF finish_read, Restart, Shape, NoTicket
    <2> QED BY ZenonT(60), <1>0, <1>3, <2>1, LogKept DEF finish_read, Restart
  <1>4. ASSUME NEW d, Elapse(d) PROVE LogInv'
    <2>1. \A m \in Nodes : reads'[m].floor <= reads'[m].committed
      BY <1>0, <1>4 DEF Elapse, Shape, Tickets
    <2> QED BY <1>0, <1>4, <2>1, LogKept DEF Elapse
  <1>5. ASSUME NEW n \in Nodes,
               \/ campaign(n) \/ Win(n) \/ pump_owned(n) \/ complete_pump(n)
               \/ Fence(n) \/ transfer_leader(n)
        PROVE  UNCHANGED <<log, reads>>
    BY <1>5 DEF campaign, Win, pump_owned, complete_pump, Fence, transfer_leader
  <1>6. ASSUME NEW n, NEW m, receive_request(n, m) \/ receive_grant(n, m)
        PROVE  UNCHANGED <<log, reads>>
    BY <1>6 DEF receive_request, receive_grant
  <1>7. ASSUME NEW n, NEW c, NEW STATE t, Heartbeat(n, c, t) \/ StepDown(n, t) \/ Vote(n, c, t)
        PROVE  UNCHANGED <<log, reads>>
    BY <1>7 DEF Heartbeat, StepDown, Vote
  <1>8. UNCHANGED vars => UNCHANGED <<log, reads>>
    BY DEF vars
  <1> QED BY <1>1, <1>2, <1>3, <1>4, <1>5, <1>6, <1>7, <1>8, CommitLog DEF Next

(* They make every lease read current.                                      *)
LEMMA ReadsCurrent == Shape /\ LogInv => LeaseReadCurrent
  <1> SUFFICES ASSUME Shape, LogInv, NEW n \in Nodes, Serves(n)
               PROVE  reads[n].floor <= applied[n] /\ applied[n] <= top
    BY DEF LeaseReadCurrent
  <1>1. /\ reads[n].committed <= applied[n] /\ applied[n] <= committed[n]
        /\ reads[n].floor <= reads[n].committed /\ committed[n] <= top
    BY DEF Serves, LogInv
  <1>2. /\ reads[n].committed \in Int /\ reads[n].floor \in Int
        /\ applied[n] \in Int /\ committed[n] \in Int /\ top \in Int
    BY DEF Shape, Tickets
  <1> QED BY SMT, <1>1, <1>2

INSTANCE FiniteSetTheorems

(* All voters are a majority, and two majorities have a voter in common.    *)
LEMMA Majorities == QuorumsMeet
  <1>1. IsFiniteSet(Nodes) /\ First \in Nodes
    BY LeaseAssumption
  <1>2. Cardinality(Nodes) \in Nat /\ Cardinality(Nodes) # 0
    BY <1>1, FS_CardinalityType, FS_EmptySet
  <1>3. Nodes \in Quorums
    BY SMTT(30), <1>2 DEF Quorums
  <1>4. ASSUME NEW P \in Quorums, NEW Q \in Quorums PROVE P \cap Q # {}
    <2>1. P \subseteq Nodes /\ Q \subseteq Nodes
      BY DEF Quorums
    <2>2. IsFiniteSet(P) /\ IsFiniteSet(Q)
      BY ZenonT(60), <1>1, <2>1, FS_Subset
    <2>3. Cardinality(P) \in Nat /\ Cardinality(Q) \in Nat
      BY ZenonT(60), <2>2, FS_CardinalityType
    <2>4. Cardinality(P) + Cardinality(Q) > Cardinality(Nodes)
      BY SMTT(30), <1>2, <2>3 DEF Quorums
    <2> QED BY ZenonT(60), <1>1, <2>1, <2>4, FS_MajoritiesIntersect
  <1>5. ASSUME NEW P \in Quorums, NEW Q \in Quorums
        PROVE  \E v \in Nodes : v \in P /\ v \in Q
    BY <1>4 DEF Quorums
  <1> QED BY <1>3, <1>5 DEF QuorumsMeet

IInv == Shape /\ Voting /\ LeaseInv /\ LogInv

(* The inductive invariant.                                                 *)
LEMMA LeaseInvariant == Spec => []IInv
  <1>1. Init => IInv
    BY ZenonT(60), Majorities, TypeInit, VoteInit, LeaseInit, LogInit DEF IInv
  <1>2. IInv /\ [Next]_vars => IInv'
    BY ZenonT(60), Majorities, TypeStep, VoteStep, LeaseStep, LogStep DEF IInv
  <1> QED BY <1>1, <1>2, PTL DEF Spec

(* While a leader may answer from its certificate no node leads in a later  *)
(* term: for every number of voters, every promise and margin with a        *)
(* positive leader interval, and clocks that run at any rates within the    *)
(* bounds Timing::new is given.                                             *)
THEOREM LeaseIsExclusive == Spec => []LeaseExclusive
  <1>1. IInv => LeaseExclusive
    BY ZenonT(60), Majorities, CertificatesExclusive DEF IInv
  <1> QED BY <1>1, LeaseInvariant, PTL

(* A read that try_lease_read_view serves returns every write acknowledged  *)
(* before it began.                                                         *)
THEOREM LeaseReadsAreCurrent == Spec => []LeaseReadCurrent
  <1>1. IInv => LeaseReadCurrent
    BY ReadsCurrent DEF IInv
  <1> QED BY <1>1, LeaseInvariant, PTL
==============================================================================
