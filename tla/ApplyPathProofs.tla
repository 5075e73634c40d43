--------------------------- MODULE ApplyPathProofs ---------------------------
(***************************************************************************)
(* Exactly-once apply, true receipts, the contiguous watermark and exact   *)
(* slots, for every log length, ring size, group size, number of waiters   *)
(* and number of crashes.                                                  *)
(***************************************************************************)
EXTENDS ApplyFacts

(* Leaves are tried with Zenon unless they name another prover.           *)
USE Zenon

(***************************************************************************)
(* The inductive invariant.                                                *)
(***************************************************************************)
Clients == AsyncWaiters \cup SyncWaiters
Live(w) == wpc[w] \in {"proposed", "open", "closed", "look", "ring", "missed"}
Own(w) == at[w].index \in 1..last /\ log[at[w].index].term = at[w].term

\* A position's term tells the proposal from what another leader puts there.
Named(w) ==
    /\ at[w].term <= term
    /\ at[w].index > last => at[w].term < term
    /\ w \in Clients /\ Own(w) => IsCommand(at[w].index)
Begun(w) ==
    /\ Live(w) => at[w].index > 0
    /\ wpc[w] \in {"new", "reserved"} => answer[w] = "none"

\* Entry i is ahead of the pump, or its receipt is in the ring, or the ring is full
\* of later ones.
Answerable(i) ==
    (\E e \in ring : e.index = i /\ (e.outcome = "applied" <=> Accepted(i))) \/ Evicted(i)
Handled(i) ==
    \/ i > cursor /\ i > smApplied
    \/ i <= cursor /\ Answerable(i)
Served(w) == Live(w) /\ Own(w) => Handled(at[w].index)

\* What an answer says of the log.
True(w, a) ==
    /\ a \in Outcomes \cup {"replaced", "overwritten"} => at[w].index \in 1..committed
    /\ w \in Clients /\ a \in Outcomes => Mine(w) /\ (a = "applied" <=> Accepted(at[w].index))
    /\ w \in Clients /\ a = "replaced" => ~Mine(w)
    /\ w \in ConfWaiters /\ a = "applied" =>
         Mine(w) /\ log[at[w].index].kind = "conf" /\ at[w].index <= confApplied

\* A proposer, its position, its answers and its snapshot of the watermark.
Waits(w) ==
    /\ Named(w) /\ Begun(w) /\ True(w, answer[w])
    /\ w \in Clients => Served(w)
    /\ w \in AsyncWaiters => True(w, reply[w])
    /\ wmPassed[w] => wpc[w] = "ring" /\ driverApplied.index >= at[w].index
Waiting == \A w \in Waiters : Waits(w)

\* Where a request is between its registration and its reply.
Queues ==
    /\ \A w \in AsyncWaiters :
         /\ w \in queued \cup held \cup kept => wpc[w] \in {"open", "closed"} /\ reply[w] = "none"
         /\ wpc[w] \in {"new", "reserved", "proposed"} => reply[w] = "none"
    /\ queued \cap held = {} /\ queued \cap kept = {} /\ held \cap kept = {}
    /\ pc # "serve" => held = {} /\ kept = {}
    /\ stopped => queued = {}

IInv ==
    /\ TypeOK /\ Filled /\ Order /\ Passed /\ AppliedExactlyOnce /\ Rings /\ Waiting
    /\ Queues /\ NoStrandedWaiter /\ SlotsExact

------------------------------------------------------------------------------
(***************************************************************************)
(* Proposers: positions, receipts and answers.                             *)
(***************************************************************************)
\* A waiter's position, as numbers.
LEMMA Position ==
    ASSUME TypeOK, NEW w \in Waiters
    PROVE  at[w].term \in Nat /\ at[w].index \in Nat /\ at[w].index <= MaxIndex
BY SMT, ApplyPathAssumption DEF TypeOK

\* The ConfState and, short of a crash, the watermark only rise.
LEMMA Rises ==
    ASSUME EngineInv, [Next]_vars
    PROVE  confApplied <= confApplied' /\ (~Crash => driverApplied.index <= driverApplied'.index)
<1>0. /\ confApplied \in Nat /\ driverApplied.index \in Nat /\ cursor \in Nat /\ Next1 = cursor + 1
      /\ batchEnd \in Nat
  BY PumpNumbers DEF Next1
<1>1. ASSUME UNCHANGED <<confApplied, driverApplied>>
      PROVE  confApplied <= confApplied' /\ driverApplied.index <= driverApplied'.index
  BY SMTT(30), <1>0, <1>1
<1>2. CASE Raft \/ Stop \/ \E w : AsyncCaller(w) \/ SyncCaller(w) \/ ConfCaller(w)
  BY ZenonT(60), <1>1, <1>2, OthersQuiet DEF pumpVars, diskVars
<1>3. CASE Pump /\ ~ApplyConf /\ ~Publish
  BY ZenonT(60), <1>1, <1>3 DEF Pump, TakeReady, TakeNothing, ApplyNoop, ApplyRedelivered, ApplyCommands,
        PushConfReceipt, PoisonClose, PoisonRecord, LeaveLoop, ServiceTake, ServiceOne, ServiceEnd,
        diskVars, driverVars
<1>4. CASE ApplyConf
  BY SMTT(30), <1>0, <1>4 DEF ApplyConf, driverVars
<1>5. CASE Publish
  <2>1. /\ confApplied' = confApplied
        /\ driverApplied' = IF batchEnd > driverApplied.index
                            THEN [term |-> log[batchEnd].term, index |-> batchEnd] ELSE driverApplied
    BY <1>5 DEF Publish, diskVars
  <2> QED BY SMTT(30), <1>0, <2>1
<1>6. CASE ApplyFails \/ ConfFails
  BY <1>1, <1>6 DEF ApplyFails, ConfFails, diskVars, driverVars
<1>7. CASE Crash
  BY SMTT(30), <1>0, <1>7 DEF Crash, diskVars
<1>8. CASE UNCHANGED vars
  BY <1>1, <1>8 DEF vars, diskVars, driverVars
<1> QED BY <1>2, <1>3, <1>4, <1>5, <1>6, <1>7, <1>8 DEF Next, Failure

\* What is true of a committed position stays true.
LEMMA TrueStays ==
    ASSUME TypeOK, LogTypes', Stable, confApplied <= confApplied', confApplied' \in Int,
           NEW w \in Waiters, at'[w] = at[w], NEW a, True(w, a)
    PROVE  True(w, a)'
<1> DEFINE i == at[w].index
<1>1. CASE a \notin Outcomes \cup {"replaced", "overwritten"}
  <2>1. a # "applied" /\ a # "replaced" /\ a \notin Outcomes
    BY <1>1 DEF Outcomes
  <2> QED BY <1>1, <2>1 DEF True
<1>2. CASE a \in Outcomes \cup {"replaced", "overwritten"}
  <2>1. i \in 1..committed /\ committed \in Nat /\ confApplied \in Int
    BY SMTT(30), <1>2, ApplyPathAssumption DEF True, TypeOK
  <2>2. log'[i] = log[i] /\ i \in 1..committed' /\ i <= committed /\ i <= committed'
    BY SMTT(30), <2>1 DEF Stable, LogTypes
  <2>3. PICK n \in Nat : n = i
    BY SMTT(30), <2>1
  <2>4. LogTypes
    BY DEF TypeOK, LogTypes
  <2>5. Accepted(n)' <=> Accepted(n)
    BY <2>1, <2>3, <2>4, VerdictStays
  <2>6. at'[w].index = n
    BY SMTT(30), <2>3
  <2>7. Accepted(at[w].index)' <=> Accepted(at[w].index)
    BY SMTT(30), <2>3, <2>5, <2>6 DEF Accepted, EpochAfter
  <2>8. Mine(w)' <=> Mine(w)
    BY <2>2 DEF Mine
  <2>9. w \in Clients' <=> w \in Clients
    BY DEF Clients
  <2>10. i <= confApplied => at'[w].index <= confApplied'
    BY SMTT(30), <2>1
  <2> QED BY ZenonT(60), <2>2, <2>7, <2>8, <2>9, <2>10 DEF True
<1> QED BY <1>1, <1>2

\* Only the leader of the entry's own term can have put it there.
LEMMA NamedStays ==
    ASSUME TypeOK, LogInv, LogInv', Moves, NEW w \in Waiters, at'[w] = at[w], Named(w)
    PROVE  /\ Named(w)'
           /\ Own(w)' => Own(w) /\ log'[at[w].index] = log[at[w].index]
<1> DEFINE i == at[w].index
           t == at[w].term
<1>1. /\ t \in Nat /\ i \in Nat /\ term \in Nat /\ term' \in Nat /\ last \in Nat /\ last' \in Nat
      /\ at'[w].index = i /\ at'[w].term = t
  BY SMTT(30), Position, ApplyPathAssumption DEF LogInv, LogTypes
<1>2. t <= term /\ (i > last => t < term)
  BY DEF Named
<1>3. /\ term <= term' /\ (term' = term => last <= last')
      /\ i \in 1..last' => \/ i <= last /\ log'[i] = log[i]
                           \/ log'[i].term = term' /\ (term' = term => i > last)
  BY DEF Moves
<1>4. t <= term' /\ (i > last' => t < term')
  BY SMTT(30), <1>1, <1>2, <1>3
<1>5. ASSUME Own(w)' PROVE Own(w) /\ log'[i] = log[i]
  <2>1. i \in 1..last' /\ log'[i].term = t
    BY ZenonT(60), <1>1, <1>5 DEF Own
  <2>2. ~(log'[i].term = term' /\ (term' = term => i > last))
    BY SMTT(30), <1>1, <1>2, <1>3, <2>1
  <2>3. i <= last /\ log'[i] = log[i] /\ i \in 1..last
    BY SMTT(30), <1>1, <1>3, <2>1, <2>2
  <2> QED BY <2>1, <2>3 DEF Own
<1>6. ASSUME w \in Clients, Own(w)' PROVE IsCommand(at[w].index)'
  <2>1. Own(w) /\ log'[i] = log[i]
    BY <1>5, <1>6
  <2> QED BY <1>1, <1>6, <2>1 DEF Named, IsCommand
<1>7. Named(w)'
  BY <1>1, <1>4, <1>6 DEF Named, Clients
<1> QED BY <1>5, <1>7

\* A proposal stays served while the pump does not move.
LEMMA ServedQuiet ==
    ASSUME TypeOK, LogInv, LogInv', Stable, Order,
           UNCHANGED <<ring, cursor, smApplied>>, NEW w \in Waiters, at'[w] = at[w],
           Live(w)' => Live(w), Own(w)' => Own(w), Served(w)
    PROVE  Served(w)'
<1> SUFFICES ASSUME Live(w)', Own(w)' PROVE Handled(at[w].index)'
  BY DEF Served
<1>1. PICK i \in Nat : i = at[w].index
  BY Position
<1>2. Handled(i)
  BY <1>1 DEF Served
<1>3. ASSUME i <= cursor, Answerable(i) PROVE Answerable(i)'
  <2>1. i \in 1..committed
    <3>1. Own(w) /\ cursor \in Nat /\ cursor <= taken /\ taken \in Nat /\ taken <= committed /\ committed \in Nat
      BY SMTT(30), ApplyPathAssumption DEF TypeOK, Order
    <3>2. i \in 1..last /\ last \in Nat
      BY SMTT(30), <1>1, <3>1, ApplyPathAssumption DEF Own, TypeOK
    <3> QED BY SMTT(30), <1>3, <3>1, <3>2
  <2>2. LogTypes
    BY DEF LogInv
  <2>3. Accepted(i)' <=> Accepted(i)
    BY <2>1, <2>2, VerdictStays
  <2> QED BY <1>3, <2>3 DEF Answerable, Evicted
<1>4. Handled(i)'
  BY <1>2, <1>3 DEF Handled
<1>5. i = at'[w].index
  BY <1>1
<1> QED BY <1>4, <1>5 DEF Handled, Answerable, Evicted, Accepted, EpochAfter

\* A proposal stays served through the steps of the pump.
LEMMA ServedPump ==
    ASSUME EngineInv, Rings, Pump \/ ApplyFails \/ ConfFails, NEW w \in Waiters, w \in Clients,
           UNCHANGED <<at, wpc>>, Named(w), Served(w)
    PROVE  Served(w)'
<1> SUFFICES ASSUME Live(w)', Own(w)' PROVE Handled(at[w].index)'
  BY DEF Served
<1>0. UNCHANGED <<log, last, committed, term, leads>>
  BY PumpMoves DEF raftVars
<1>1. PICK i \in Nat : i = at[w].index
  BY Position DEF EngineInv
<1>2. Live(w) /\ Own(w) /\ IsCommand(i)
  BY <1>0, <1>1 DEF Live, Own, Named
<1>3. (i > cursor /\ i > smApplied) \/ (i <= cursor /\ Answerable(i))
  <2>1. Handled(i)
    BY <1>1, <1>2 DEF Served
  <2> QED BY <2>1 DEF Handled
<1>4. /\ cursor \in Nat /\ smApplied \in Nat /\ stored \in Nat /\ i \in Int
  BY SMTT(30), PumpNumbers
<1>5. Accepted(i)' <=> Accepted(i)
  BY <1>0 DEF Accepted, EpochAfter
<1>6. SUFFICES (i > cursor' /\ i > smApplied') \/ (i <= cursor' /\ Answerable(i)')
  <2>1. i = at'[w].index
    BY <1>1
  <2> QED BY <2>1 DEF Handled, Answerable, Evicted, Accepted, EpochAfter
<1>7. ASSUME UNCHANGED <<cursor, smApplied, ring>>
      PROVE  (i > cursor' /\ i > smApplied') \/ (i <= cursor' /\ Answerable(i)')
  BY ZenonT(60), <1>3, <1>5, <1>7 DEF Answerable, Evicted
<1>8. ASSUME cursor < batchEnd, cursor' = Next1, UNCHANGED <<smApplied, ring>>, ~IsCommand(Next1)
      PROVE  (i > cursor' /\ i > smApplied') \/ (i <= cursor' /\ Answerable(i)')
  <2>1. Next1 = cursor + 1 /\ i # Next1
    BY <1>2, <1>8 DEF Next1
  <2>2. Answerable(i) => Answerable(i)'
    BY <1>5, <1>8 DEF Answerable, Evicted
  <2> QED BY SMTT(30), <1>3, <1>4, <1>8, <2>1, <2>2
<1>9. ASSUME NEW e \in ring, e.index = i, e.outcome = "applied" <=> Accepted(i),
             e \in ring' \/ Evicted(i)'
      PROVE  Answerable(i)'
  BY <1>5, <1>9 DEF Answerable
<1>10. CASE ApplyNoop
  <2>1. /\ cursor < batchEnd /\ cursor' = Next1 /\ UNCHANGED <<smApplied, ring>>
        /\ log[Next1].kind = "noop"
    BY <1>10 DEF ApplyNoop, driverVars
  <2> QED BY <1>8, <2>1 DEF IsCommand
<1>11. CASE PushConfReceipt
  <2>1. cursor' = Next1 /\ UNCHANGED <<smApplied, ring>> /\ pc = "receipt"
    BY <1>11 DEF PushConfReceipt
  <2>2. cursor < batchEnd /\ log[Next1].kind = "conf"
    BY <2>1 DEF EngineInv, Order, Next1
  <2> QED BY ZenonT(60), <1>8, <2>1, <2>2 DEF IsCommand
<1>12. CASE ApplyRedelivered
  <2> DEFINE new == {Receipt(Next1, "applied")}
  <2>1. /\ cursor < batchEnd /\ Next1 <= smApplied /\ ring' = PushRing(new) /\ cursor' = Next1
        /\ UNCHANGED <<smApplied, receipts>>
    BY <1>12 DEF ApplyRedelivered, AlreadyApplied
  <2>2. Next1 = cursor + 1 /\ Next1 \in Indexes /\ log[Next1].term \in Terms
    BY <2>1, AtNext
  <2>3. /\ new \in SUBSET RingEntries /\ \A e, f \in new : e.index = f.index => e = f
        /\ \A e \in new : e.index = Next1 /\ e.term = log[e.index].term
    BY SMTT(30), <2>2 DEF Receipt, RingEntries, Outcomes
  <2>4. /\ cursor' \in Nat /\ cursor <= cursor'
        /\ \A e \in new : cursor < e.index /\ e.index <= cursor' /\ e.term = log[e.index].term
    BY SMTT(30), <1>4, <2>1, <2>2, <2>3
  <2> HIDE DEF new
  <2>5. /\ \A e \in ring \cup new : e \in ring' \/ Evicted(e.index)'
        /\ \A j \in Int : Evicted(j) => Evicted(j)'
    BY <1>0, <2>1, <2>3, <2>4, RingStep
  <2>6. Answerable(i) => Answerable(i)'
    <3>1. CASE Evicted(i)
      BY <1>4, <2>5, <3>1 DEF Answerable
    <3>2. ASSUME NEW e \in ring, e.index = i, e.outcome = "applied" <=> Accepted(i)
          PROVE  Answerable(i)'
      <4>1. e \in ring' \/ Evicted(i)'
        BY ZenonT(60), <2>5, <3>2
      <4> QED BY ZenonT(60), <1>9, <3>2, <4>1
    <3> QED BY <3>1, <3>2 DEF Answerable
  <2>7. CASE i > cursor /\ i > smApplied
    BY SMTT(30), <1>4, <2>1, <2>2, <2>7
  <2>8. CASE i <= cursor /\ Answerable(i)
    BY SMTT(30), <1>4, <2>1, <2>2, <2>6, <2>8
  <2> QED BY ZenonT(60), <1>3, <2>7, <2>8
<1>13. CASE ApplyCommands
  <2>1. PICK k \in Indexes :
          /\ pc = "apply" /\ cursor < batchEnd
          /\ k > cursor /\ IsGroup(Next1, k) /\ ~AlreadyApplied(Next1)
          /\ WriteApplied(Next1, k) /\ smApplied' = k
          /\ ring' = PushRing({Receipt(j, IF Fresh(j) THEN "applied" ELSE "rejected") : j \in Next1..k})
          /\ cursor' = k
          /\ UNCHANGED <<raftVars, confApplied, receipts, driverApplied, pc, taken, batchEnd>>
    BY <1>13 DEF ApplyCommands
  <2>2. Applies(k)
    BY <2>1 DEF Applies
  <2>3. /\ \A j \in Next1..k : \/ \E e \in ring' : e.index = j /\ (e.outcome = "applied" <=> Accepted(j))
                               \/ Evicted(j)'
        /\ \A e \in ring : e \in ring' \/ Evicted(e.index)'
        /\ \A j \in Int : Evicted(j) => Evicted(j)'
    BY ZenonT(60), <2>1, <2>2, CommandsStep
  <2>4. Next1 = cursor + 1 /\ k \in Nat /\ cursor < k
    BY SMTT(30), <2>1, <1>4, ApplyPathAssumption DEF Next1, Indexes
  <2>5. Answerable(i) => Answerable(i)'
    <3>1. CASE Evicted(i)
      BY <1>4, <2>3, <3>1 DEF Answerable
    <3>2. ASSUME NEW e \in ring, e.index = i, e.outcome = "applied" <=> Accepted(i)
          PROVE  Answerable(i)'
      <4>1. e \in ring' \/ Evicted(i)'
        BY <2>3, <3>2
      <4> QED BY <1>9, <3>2, <4>1
    <3> QED BY <3>1, <3>2 DEF Answerable
  <2>6. CASE i <= cursor /\ Answerable(i)
    BY SMTT(30), <1>4, <2>1, <2>4, <2>5, <2>6
  <2>7. CASE i > cursor /\ i <= k
    <3>1. i \in Next1..k
      BY SMTT(30), <1>4, <2>4, <2>7
    <3>2. Answerable(i)'
      BY <1>5, <2>3, <3>1 DEF Answerable
    <3> QED BY <2>1, <2>7, <3>2
  <2>8. CASE i > k
    BY <2>1, <2>8
  <2> QED BY SMTT(30), <1>3, <1>4, <2>4, <2>6, <2>7, <2>8
<1>14. CASE TakeReady
  <2>1. cursor' = taken /\ UNCHANGED <<smApplied, ring>> /\ pc = "idle"
    BY <1>14 DEF TakeReady, driverVars
  <2>2. cursor = taken
    BY <2>1 DEF EngineInv, Order
  <2> QED BY <1>7, <2>1, <2>2
<1>15. CASE TakeNothing \/ ApplyConf \/ Publish \/ PoisonClose \/ PoisonRecord \/ LeaveLoop
              \/ ServiceTake \/ ServiceOne \/ ServiceEnd \/ ApplyFails \/ ConfFails
  <2>1. UNCHANGED <<cursor, smApplied, ring>>
    BY <1>15 DEF TakeNothing, ApplyConf, Publish, PoisonClose, PoisonRecord, LeaveLoop, ServiceTake,
                 ServiceOne, ServiceEnd, ApplyFails, ConfFails, OnError, driverVars
  <2> QED BY <1>7, <2>1
<1> QED BY ZenonT(60), <1>10, <1>11, <1>12, <1>13, <1>14, <1>15 DEF Pump

\* Answers that say nothing of the log.
LEMMA SilentTrue ==
    ASSUME NEW w, NEW a \in {"none", "unconfirmed", "failed", "refused"}
    PROVE  True(w, a) /\ a \in Answers
BY DEF True, Outcomes, Answers

\* inspect_applied tells the truth: a receipt of the proposal's term is its own
\* verdict, one of another term a replacement, and a position that both watermarks
\* and the ring have left behind without a receipt went to another leader.
LEMMA DiscriminateTrue ==
    ASSUME EngineInv, Rings, NEW w \in Waiters, w \in Clients, Begun(w), Served(w), Live(w),
           NEW passed \in BOOLEAN, passed => driverApplied.index >= at[w].index
    PROVE  True(w, Discriminate(w, passed)) /\ Discriminate(w, passed) \in Answers
<1> DEFINE i == at[w].index
           hits == {e \in ring : e.index = i}
<1>0. /\ committed \in Nat /\ cursor \in Nat /\ smApplied \in Nat /\ driverApplied.index \in Nat
      /\ stored \in Nat /\ smApplied <= committed /\ last \in Nat /\ cursor <= committed /\ committed <= last
      /\ driverApplied.index <= cursor
  <2>1. smApplied <= stored /\ stored <= committed
    BY DEF EngineInv, Order
  <2>2. /\ committed \in Nat /\ cursor \in Nat /\ smApplied \in Nat /\ driverApplied.index \in Nat
        /\ stored \in Nat /\ last \in Nat /\ cursor <= taken /\ taken <= committed /\ committed <= last
        /\ driverApplied.index <= cursor /\ taken \in Nat
    BY PumpNumbers
  <2> QED BY SMTT(30), <2>1, <2>2
<1>1. i \in Nat /\ i > 0
  BY Position DEF EngineInv, Begun
<1>2. w \notin ConfWaiters
  BY ApplyPathAssumption DEF Clients
<1>3. ASSUME i <= committed, Mine(w) PROVE Handled(i)
  <2>1. Own(w)
    BY SMTT(30), <1>0, <1>1, <1>3 DEF Own, Mine
  <2> QED BY <2>1 DEF Served
<1>4. CASE hits # {}
  <2>1. PICK e \in ring : e.index = i
    BY ZenonT(60), <1>4
  <2>2. /\ \A f \in hits : f = e
        /\ e.term = log[i].term /\ i <= cursor /\ e.outcome \in Outcomes
    BY SMTT(30), <2>1 DEF Rings, EngineInv, TypeOK, RingEntries
  <2>3. i \in 1..committed /\ i <= committed
    BY SMTT(30), <1>0, <1>1, <2>2
  <2>4. (CHOOSE f \in hits : TRUE) = e
    BY <2>1, <2>2
  <2>5. CASE e.term = at[w].term
    <3>1. Discriminate(w, passed) = e.outcome
      <4>1. \E f \in hits : Matches(f, w)
        BY <2>1, <2>5 DEF Matches
      <4> QED BY <1>4, <2>4, <4>1 DEF Discriminate
    <3>2. Mine(w)
      BY ZenonT(60), <2>2, <2>3, <2>5 DEF Mine
    <3>3. Handled(i)
      BY ZenonT(60), <1>3, <2>3, <3>2
    <3>4. Answerable(i)
      BY SMTT(30), <1>0, <1>1, <2>2, <3>3 DEF Handled
    <3>5. ~Evicted(i)
      BY SMTT(30), <1>1, <2>1 DEF Evicted
    <3>6. e.outcome = "applied" <=> Accepted(i)
      BY <2>2, <3>4, <3>5 DEF Answerable
    <3>7. e.outcome # "replaced"
      BY <2>2 DEF Outcomes
    <3>8. True(w, e.outcome)
      BY ZenonT(60), <1>2, <2>3, <3>2, <3>6, <3>7 DEF True
    <3> QED BY ZenonT(60), <2>2, <3>1, <3>8 DEF Answers, Outcomes
  <2>6. CASE e.term # at[w].term
    <3>1. Discriminate(w, passed) = "replaced"
      <4>1. ~\E f \in hits : Matches(f, w)
        BY <2>2, <2>6 DEF Matches
      <4> QED BY <1>4, <4>1 DEF Discriminate
    <3>2. ~Mine(w)
      BY <2>2, <2>6 DEF Mine
    <3>3. True(w, "replaced")
      BY <1>2, <2>3, <3>2 DEF True, Outcomes
    <3> QED BY <3>1, <3>3 DEF Answers
  <2> QED BY <2>5, <2>6
<1>5. CASE hits = {} /\ Evicted(i)
  <2>1. Discriminate(w, passed) = "unconfirmed"
    BY <1>5 DEF Discriminate
  <2> QED BY <2>1, SilentTrue
<1>6. CASE hits = {} /\ ~Evicted(i) /\ (smApplied >= i \/ passed)
  <2>1. Discriminate(w, passed) = "replaced"
    BY <1>6 DEF Discriminate
  <2>2. i <= cursor \/ i <= smApplied
    BY SMTT(30), <1>0, <1>1, <1>6
  <2>3. i \in 1..committed /\ i <= committed
    BY SMTT(30), <1>0, <1>1, <2>2
  <2>4. ~Mine(w)
    <3> SUFFICES ASSUME Mine(w) PROVE FALSE
      OBVIOUS
    <3>1. Handled(i)
      BY ZenonT(60), <1>3, <2>3
    <3>2. Answerable(i)
      BY SMTT(30), <1>0, <1>1, <2>2, <3>1 DEF Handled
    <3> QED BY <1>6, <3>2 DEF Answerable
  <2>5. True(w, "replaced")
    BY <1>2, <2>3, <2>4 DEF True, Outcomes
  <2> QED BY <2>1, <2>5 DEF Answers
<1>7. CASE hits = {} /\ ~Evicted(i) /\ ~(smApplied >= i \/ passed)
  <2>1. Discriminate(w, passed) = "none"
    BY <1>7 DEF Discriminate
  <2> QED BY <2>1, SilentTrue
<1> QED BY <1>4, <1>5, <1>6, <1>7

\* So does the service pass, which inspects on the pump itself.
LEMMA InspectTrue ==
    ASSUME EngineInv, Rings, NEW w \in AsyncWaiters, Begun(w), Served(w), Live(w)
    PROVE  True(w, Inspect(w)) /\ Inspect(w) \in Answers
<1> DEFINE p == driverApplied.index >= at[w].index
<1>1. w \in Waiters /\ w \in Clients /\ p \in BOOLEAN
  BY SMT DEF Waiters, Clients
<1>2. CASE fatal
  BY <1>2, SilentTrue DEF Inspect
<1>3. CASE ~fatal
  <2>1. Inspect(w) = Discriminate(w, p)
    BY <1>3 DEF Inspect
  <2>2. True(w, Discriminate(w, p)) /\ Discriminate(w, p) \in Answers
    BY <1>1, DiscriminateTrue
  <2> QED BY <2>1, <2>2
<1> QED BY <1>2, <1>3

\* The pump's steps and the failures short of stop and crash move no proposer.
LEMMA PumpLeavesCallers ==
    ASSUME Pump \/ ApplyFails \/ ConfFails PROVE UNCHANGED <<at, wpc, wmPassed, answer>>
BY DEF Pump, TakeReady, TakeNothing, ApplyNoop, ApplyRedelivered, ApplyCommands, ApplyConf,
       PushConfReceipt, Publish, PoisonClose, PoisonRecord, LeaveLoop, ServiceTake, ServiceOne,
       ServiceEnd, ApplyFails, ConfFails, callerVars

\* A proposer that keeps its position, and takes no answer that is not true, is fine.
LEMMA KeepWaiter ==
    ASSUME EngineInv, Rings, [Next]_vars, ~Crash, NEW w \in Waiters, Waits(w),
           at'[w] = at[w], Live(w)' => Live(w),
           NEW a, answer'[w] = a, True(w, a), wpc'[w] \in {"new", "reserved"} => a = "none",
           NEW b, w \in AsyncWaiters => reply'[w] = b /\ True(w, b),
           wmPassed'[w] => wpc'[w] = "ring" /\ driverApplied.index >= at[w].index
    PROVE  Waits(w)'
<1>1. TypeOK /\ LogInv /\ Order
  BY DEF EngineInv, LogInv, LogTypes, TypeOK
<1>2. LogInv' /\ Stable /\ Moves /\ LogTypes'
  BY <1>1, LogStep DEF LogInv
<1>3. PumpGoal'
  BY ZenonT(60), <1>2, EngineStep
<1>4. /\ confApplied <= confApplied' /\ confApplied' \in Int
      /\ driverApplied.index <= driverApplied'.index /\ driverApplied'.index \in Int
      /\ driverApplied.index \in Int
  BY SMTT(30), <1>1, <1>3, Rises, ApplyPathAssumption DEF PumpGoal, PumpTypes, TypeOK
<1>5. Named(w)' /\ (Own(w)' => Own(w))
  BY <1>1, <1>2, NamedStays DEF Waits
<1>6. ASSUME w \in Clients PROVE Served(w)'
  <2>1. CASE Pump \/ ApplyFails \/ ConfFails
    <3>1. UNCHANGED <<at, wpc>>
      BY <2>1, PumpLeavesCallers
    <3> QED BY <1>6, <2>1, <3>1, ServedPump DEF Waits
  <2>2. CASE UNCHANGED pumpVars
    <3>1. UNCHANGED <<ring, cursor, smApplied>>
      BY <2>2 DEF pumpVars
    <3> QED BY ZenonT(60), <1>1, <1>2, <1>5, <1>6, <3>1, ServedQuiet DEF Waits
  <2>3. Pump \/ ApplyFails \/ ConfFails \/ UNCHANGED pumpVars
    <3>1. CASE UNCHANGED vars
      BY <3>1 DEF vars, pumpVars, diskVars, driverVars, turnVars
    <3> QED BY <3>1, OthersQuiet DEF Next, Failure
  <2> QED BY <2>1, <2>2, <2>3
<1>7. Begun(w)'
  BY DEF Begun, Waits
<1>8. True(w, a)' /\ (w \in AsyncWaiters => True(w, b)')
  BY <1>1, <1>2, <1>4, TrueStays
<1>9. True(w, answer[w])' /\ (w \in AsyncWaiters => True(w, reply[w])')
  BY ZenonT(60), <1>8 DEF True
<1>10. wmPassed'[w] => wpc'[w] = "ring" /\ driverApplied'.index >= at'[w].index
  BY SMTT(30), <1>1, <1>4, Position
<1>11. w \in Clients' <=> w \in Clients
  BY DEF Clients
<1> QED BY ZenonT(60), <1>5, <1>6, <1>7, <1>9, <1>10, <1>11 DEF Waits

\* A proposer that appends is named by an entry of its own, ahead of the pump.
LEMMA ProposeWaiter ==
    ASSUME EngineInv, Rings, UNCHANGED pumpVars, NEW w \in Waiters,
           NEW k \in Kinds, NEW e \in Epochs, Append(w, k, e), w \in Clients => k \in {"raw", "catalog"},
           answer'[w] = "none", w \in AsyncWaiters => reply'[w] = "none",
           ~wmPassed'[w], wpc'[w] \notin {"new", "reserved"}
    PROVE  Waits(w)'
<1>1. TypeOK /\ LogInv /\ Order
  BY DEF EngineInv, LogInv, LogTypes, TypeOK
<1>2. LogInv' /\ Stable /\ Moves /\ LogTypes'
  BY ZenonT(60), <1>1, AppendMoves DEF LogInv
<1>3. /\ committed \in Nat /\ cursor \in Nat /\ smApplied \in Nat /\ stored \in Nat /\ taken \in Nat
      /\ last \in Nat /\ cursor <= taken /\ taken <= committed /\ committed <= last /\ last + 1 \in Indexes
      /\ smApplied <= stored /\ stored <= committed /\ term \in Nat
  <2>1. last < MaxIndex /\ smApplied <= stored /\ stored <= committed /\ term \in 0..MaxTerm
    BY DEF Append, EngineInv, Order, TypeOK
  <2> QED BY SMTT(30), <2>1, PumpNumbers, ApplyPathAssumption DEF Indexes
<1>4. /\ last' = last + 1 /\ term' = term /\ UNCHANGED <<cursor, smApplied, ring>>
      /\ at'[w] = [term |-> term, index |-> last + 1]
      /\ log'[last + 1] = [term |-> term, kind |-> k, epoch |-> e]
  BY <1>1, <1>3 DEF Append, TypeOK, pumpVars
<1>5. at'[w].index = last + 1 /\ at'[w].term = term
  BY SMT, <1>4
<1>6. Named(w)'
  <2>1. w \in Clients => IsCommand(at[w].index)'
    BY SMTT(30), <1>4, <1>5 DEF IsCommand
  <2>2. at'[w].term <= term' /\ ~(at'[w].index > last')
    BY SMTT(30), <1>3, <1>4, <1>5
  <2> QED BY ZenonT(60), <2>1, <2>2 DEF Named, Clients
<1>7. Begun(w)'
  BY SMTT(30), <1>3, <1>5 DEF Begun
<1>8. Served(w)'
  <2>1. at'[w].index > cursor' /\ at'[w].index > smApplied'
    BY SMTT(30), <1>3, <1>4, <1>5
  <2> QED BY ZenonT(60), <2>1 DEF Served, Handled
<1>9. True(w, answer[w])' /\ (w \in AsyncWaiters => True(w, reply[w])')
  BY DEF True, Outcomes
<1> QED BY <1>6, <1>7, <1>8, <1>9 DEF Waits

\* A crash ends every wait; what was answered about the log stays true.
LEMMA CrashWaiter == ASSUME EngineInv, Rings, Crash, NEW w \in Waiters, Waits(w) PROVE Waits(w)'
<1>1. TypeOK /\ LogInv /\ [Next]_vars
  BY DEF EngineInv, LogInv, LogTypes, TypeOK, Next, Failure
<1>2. LogInv' /\ Stable /\ LogTypes'
  BY <1>1, CrashKeeps DEF LogInv
<1>3. confApplied <= confApplied' /\ confApplied' \in Int
  BY SMT, PumpNumbers DEF Crash, diskVars
<1>4. /\ wpc'[w] \in {"new", "done"} /\ (wpc'[w] = "new" => wpc[w] = "new") /\ ~wmPassed'[w]
      /\ at'[w] = (IF Claims(w) THEN at[w] ELSE Nowhere)
      /\ answer'[w] = (IF Claims(w) THEN answer[w] ELSE "none")
      /\ w \in AsyncWaiters => reply'[w] = "none"
      /\ term' = term /\ committed' = committed
  BY DEF Crash
<1>5. ~Live(w)'
  BY <1>4 DEF Live
<1>6. Served(w)' /\ (w \in AsyncWaiters => True(w, reply[w])')
  <2>1. w \in AsyncWaiters => True(w, "none")'
    BY DEF True, Outcomes
  <2> QED BY <1>4, <1>5, <2>1 DEF Served, True
<1>7. Begun(w)'
  <2>1. wpc'[w] = "new" => answer[w] = "none"
    BY <1>4 DEF Waits, Begun
  <2>2. wpc'[w] # "reserved"
    BY <1>4
  <2> QED BY <1>4, <1>5, <2>1, <2>2 DEF Begun
<1>8. CASE Claims(w)
  <2>1. at'[w] = at[w] /\ answer'[w] = answer[w]
    BY <1>4, <1>8
  <2>2. PICK a \in Answers : a = answer[w]
    BY <1>1 DEF TypeOK
  <2>3. True(w, a)'
    BY <1>1, <1>2, <1>3, <2>1, <2>2, TrueStays DEF Waits
  <2>4. True(w, answer[w])'
    BY <2>1, <2>2, <2>3 DEF True
  <2>5. at[w].index \in 1..committed /\ committed \in Nat /\ committed <= last' /\ committed <= last
        /\ last \in Nat /\ last' \in Nat
    <3>1. at[w].index \in 1..committed
      BY <1>8 DEF Claims, True, Waits
    <3>2. committed \in 0..last /\ last \in 0..MaxIndex /\ committed \in 0..last' /\ last' \in 0..MaxIndex
      BY <1>1, <1>2, <1>4 DEF LogInv, LogTypes
    <3> QED BY SMT, <3>1, <3>2
  <2>6. log'[at[w].index] = log[at[w].index] /\ at[w].index \in 1..last
    <3>1. at[w].index \in 1..last
      BY SMT, <2>5
    <3>2. at[w].index \in 1..committed /\ \A j \in 1..committed : log'[j] = log[j]
      BY <1>2, <2>5 DEF Stable
    <3> QED BY <3>1, <3>2
  <2>7. Own(w)' => Own(w)
    BY <2>1, <2>6 DEF Own
  <2>8. ~(at'[w].index > last')
    BY SMT, <2>1, <2>5
  <2>9. Named(w)'
    BY <1>4, <2>1, <2>6, <2>7, <2>8 DEF Waits, Named, IsCommand, Clients
  <2> QED BY <1>4, <1>6, <1>7, <2>4, <2>9 DEF Waits
<1>9. CASE ~Claims(w)
  <2>1. at'[w].index = 0 /\ at'[w].term = 0 /\ answer'[w] = "none"
    BY SMTT(30), <1>4, <1>9 DEF Nowhere
  <2>2. term' \in Nat /\ last' \in Nat
    BY SMT, <1>2, ApplyPathAssumption DEF LogTypes
  <2>3. ~Own(w)'
    BY SMT, <2>1 DEF Own
  <2>4. 0 <= term' /\ ~(0 > last')
    BY SMT, <2>2
  <2>5. Named(w)'
    BY <2>1, <2>3, <2>4 DEF Named
  <2>6. True(w, answer[w])'
    BY <2>1 DEF True, Outcomes
  <2> QED BY <1>4, <1>6, <1>7, <2>5, <2>6 DEF Waits
<1> QED BY <1>8, <1>9

\* A step that touches no proposer.
LEMMA SameWaiter ==
    ASSUME EngineInv, Rings, [Next]_vars, ~Crash, NEW w \in Waiters, Waits(w),
           at'[w] = at[w], wpc'[w] = wpc[w], wmPassed'[w] = wmPassed[w], answer'[w] = answer[w],
           w \in AsyncWaiters => reply'[w] = reply[w] \/ (\E b : reply'[w] = b /\ True(w, b))
    PROVE  Waits(w)'
<1>1. PICK a : a = answer[w]
  OBVIOUS
<1>2. True(w, a) /\ (wpc'[w] \in {"new", "reserved"} => a = "none")
  BY <1>1 DEF Waits, Begun
<1>3. PICK b : w \in AsyncWaiters => reply'[w] = b /\ True(w, b)
  BY DEF Waits
<1>4. Live(w)' => Live(w)
  BY DEF Live
<1>5. wmPassed'[w] => wpc'[w] = "ring" /\ driverApplied.index >= at[w].index
  BY DEF Waits
<1> QED BY <1>1, <1>2, <1>3, <1>4, <1>5, KeepWaiter

\* The pump's replies, the registry's close and the end of a service pass.
LEMMA WaitPump ==
    ASSUME EngineInv, Rings, Queues, Waiting, Raft \/ Pump \/ ApplyFails \/ ConfFails \/ Stop, ~Crash,
           NEW w \in Waiters
    PROVE  Waits(w)'
<1>0. [Next]_vars /\ Waits(w)
  BY DEF Next, Failure, Waiting
<1>1. UNCHANGED <<at, wpc, wmPassed, answer>>
  <2>1. CASE Raft
    BY <2>1 DEF Raft, Elect, Depose, Replicate, Commit, callerVars
  <2>2. CASE Stop
    BY <2>2 DEF Stop
  <2> QED BY <2>1, <2>2, PumpLeavesCallers
<1>2. SUFFICES ASSUME w \in AsyncWaiters
               PROVE  reply'[w] = reply[w] \/ (\E b : reply'[w] = b /\ True(w, b))
  BY <1>0, <1>1, SameWaiter
<1>3. ASSUME NEW F, NEW b, Finish(F, b), w \in F => True(w, b)
      PROVE  reply'[w] = reply[w] \/ (\E x : reply'[w] = x /\ True(w, x))
  BY <1>2, <1>3 DEF Finish
<1>4. True(w, "failed") /\ True(w, "none") /\ True(w, "unconfirmed")
  BY SilentTrue
<1>5. CASE ServiceOne
  <2>1. PICK v \in held :
          \/ Finish({v}, "none")
          \/ Finish({v}, Inspect(v))
          \/ Finish({v}, "unconfirmed")
          \/ UNCHANGED reply
    BY <1>5 DEF ServiceOne
  <2>2. CASE Finish({v}, Inspect(v))
    <3>1. v \in AsyncWaiters /\ v \in Waiters /\ v \in Clients
      BY DEF EngineInv, TypeOK, Waiters, Clients
    <3>2. Live(v) /\ Begun(v) /\ Served(v)
      BY <3>1 DEF Queues, Live, Waiting, Waits
    <3>3. True(v, Inspect(v))
      BY <3>1, <3>2, InspectTrue
    <3>4. reply' = [u \in AsyncWaiters |-> IF u \in {v} /\ wpc[u] = "open" THEN Inspect(v) ELSE reply[u]]
      BY <2>2 DEF Finish
    <3>5. CASE w = v
      <4>1. reply'[w] = Inspect(v) \/ reply'[w] = reply[w]
        BY <1>2, <3>4
      <4> QED BY <3>3, <3>5, <4>1
    <3>6. CASE w # v
      BY <1>2, <3>4, <3>6
    <3> QED BY <3>5, <3>6
  <2>3. CASE Finish({v}, "none")
    BY <1>3, <1>4, <2>3
  <2>4. CASE Finish({v}, "unconfirmed")
    BY <1>3, <1>4, <2>4
  <2> QED BY <2>1, <2>2, <2>3, <2>4
<1>6. CASE ServiceEnd
  <2>1. Finish(kept, "failed") \/ UNCHANGED reply
    BY <1>6 DEF ServiceEnd
  <2> QED BY <1>3, <1>4, <2>1
<1>7. CASE PoisonClose \/ Stop
  <2>1. Finish(queued, "failed")
    BY <1>7 DEF PoisonClose, Stop, CloseApplies
  <2> QED BY <1>3, <1>4, <2>1
<1>8. CASE Raft \/ ApplyFails \/ ConfFails
  BY <1>8 DEF Raft, Elect, Depose, Replicate, Commit, ApplyFails, ConfFails, callerVars
<1>9. CASE Pump /\ ~ServiceOne /\ ~ServiceEnd /\ ~PoisonClose
  BY <1>9 DEF Pump, TakeReady, TakeNothing, ApplyNoop, ApplyRedelivered, ApplyCommands, ApplyConf,
       PushConfReceipt, Publish, PoisonRecord, LeaveLoop, ServiceTake, callerVars
<1> QED BY <1>5, <1>6, <1>7, <1>8, <1>9

\* A proposer's own step.
LEMMA WaitCaller ==
    ASSUME EngineInv, Rings, Queues, Waiting, NEW v \in Waiters,
           \/ v \in AsyncWaiters /\ AsyncCaller(v)
           \/ v \in SyncWaiters /\ SyncCaller(v)
           \/ v \in ConfWaiters /\ ConfCaller(v),
           ~Crash, NEW w \in Waiters
    PROVE  Waits(w)'
<1>0. /\ [Next]_vars /\ Waits(w) /\ Waits(v) /\ UNCHANGED pumpVars /\ TypeOK
      /\ at \in [Waiters -> [term : 0..MaxTerm, index : 0..MaxIndex]] /\ wpc \in [Waiters -> WaiterStates]
      /\ wmPassed \in [Waiters -> BOOLEAN] /\ answer \in [Waiters -> Answers]
  BY OthersQuiet DEF Next, Waiting, EngineInv, TypeOK
<1>1. /\ v \in SyncWaiters => v \in Clients /\ v \notin ConfWaiters /\ v \notin AsyncWaiters
      /\ v \in AsyncWaiters => v \in Clients /\ v \notin ConfWaiters /\ v \notin SyncWaiters
      /\ v \in ConfWaiters => v \notin Clients
  BY ApplyPathAssumption DEF Clients
<1>2. reply' = reply
  BY DEF AsyncCaller, Reserve, ProposeAsync, Register, Receive, CloseTicket, SyncCaller, ProposeSync,
         LookWatermark, LookRing, ConfCaller, ProposeConf, LookReceipt, LookPassed, callerVars
<1>3. CASE w # v
  <2>1. at'[w] = at[w] /\ wpc'[w] = wpc[w] /\ wmPassed'[w] = wmPassed[w] /\ answer'[w] = answer[w]
    <3>1. CASE AsyncCaller(v)
      BY <1>0, <1>3, <3>1 DEF AsyncCaller, Reserve, ProposeAsync, Register, Receive, CloseTicket, Append,
         Move, Tell
    <3>2. CASE SyncCaller(v)
      BY <1>0, <1>3, <3>2 DEF SyncCaller, ProposeSync, LookWatermark, LookRing, Append, Move, Tell
    <3>3. CASE ConfCaller(v)
      BY <1>0, <1>3, <3>3 DEF ConfCaller, ProposeConf, LookReceipt, LookPassed, Append, Move, Tell
    <3> QED BY <3>1, <3>2, <3>3
  <2> QED BY <1>0, <1>2, <2>1, SameWaiter
<1>4. CASE w = v
  <2>1. ASSUME NEW k \in Kinds, NEW e \in Epochs, Append(v, k, e), v \in Clients => k \in {"raw", "catalog"},
               answer' = answer, wmPassed' = wmPassed, wpc[v] \in {"new", "reserved"},
               wpc'[v] \notin {"new", "reserved"}
        PROVE  Waits(v)'
    <3>1. answer'[v] = "none" /\ ~wmPassed'[v]
      BY <1>0, <2>1 DEF Waits, Begun
    <3>2. v \in AsyncWaiters => reply'[v] = "none"
      BY <1>2, <2>1 DEF Queues
    <3> QED BY <1>0, <2>1, <3>1, <3>2, ProposeWaiter
  <2>2. ASSUME NEW a, at' = at, Live(v)' => Live(v), answer'[v] = a, True(v, a),
               wpc'[v] \in {"new", "reserved"} => a = "none",
               wmPassed'[v] => wpc'[v] = "ring" /\ driverApplied.index >= at[v].index
        PROVE  Waits(v)'
    <3>1. PICK b : v \in AsyncWaiters => reply'[v] = b /\ True(v, b)
      BY <1>0, <1>2 DEF Waits
    <3> QED BY <1>0, <2>2, <3>1, KeepWaiter
  <2>3. ASSUME NEW a \in {"none", "unconfirmed", "failed", "refused"}, at' = at, wmPassed' = wmPassed,
               Tell(v, a), wpc[v] # "ring"
        PROVE  Waits(v)'
    <3>1. answer'[v] = a /\ wpc'[v] = "done" /\ ~wmPassed'[v]
      BY <1>0, <2>3 DEF Tell, Move, Waits
    <3> QED BY <2>2, <2>3, <3>1, SilentTrue DEF Live
  <2>4. PICK a : a = answer[v] /\ True(v, a)
    BY <1>0 DEF Waits
  <2>5. v \in AsyncWaiters /\ Reserve(v) => Waits(v)'
    <3> SUFFICES ASSUME Reserve(v) PROVE Waits(v)'
      OBVIOUS
    <3>1. wpc[v] = "new" /\ at' = at /\ wmPassed' = wmPassed
      BY DEF Reserve, Begins
    <3>2. CASE Move(v, "reserved") /\ UNCHANGED answer
      <4>1. wpc'[v] = "reserved" /\ answer'[v] = a /\ a = "none" /\ ~wmPassed'[v]
        BY <1>0, <2>4, <3>1, <3>2 DEF Move, Waits, Begun
      <4> QED BY <2>2, <2>4, <3>1, <4>1 DEF Live
    <3> QED BY <2>3, <3>1, <3>2 DEF Reserve
  <2>6. v \in AsyncWaiters /\ ProposeAsync(v) => Waits(v)'
    <3> SUFFICES ASSUME v \in AsyncWaiters, ProposeAsync(v) PROVE Waits(v)'
      OBVIOUS
    <3>1. wpc[v] = "reserved" /\ wmPassed' = wmPassed
      BY DEF ProposeAsync
    <3>2. CASE Tell(v, "refused") /\ UNCHANGED at
      BY <2>3, <3>1, <3>2
    <3>3. ASSUME NEW k \in {"raw", "catalog"}, NEW e \in Epochs, Append(v, k, e), Move(v, "proposed"),
                 UNCHANGED answer
          PROVE  Waits(v)'
      <4>1. wpc'[v] = "proposed" /\ k \in Kinds
        BY <1>0, <3>3 DEF Move, Kinds
      <4> QED BY <2>1, <3>1, <3>3, <4>1
    <3> QED BY <3>2, <3>3 DEF ProposeAsync
  <2>7. v \in AsyncWaiters /\ Register(v) => Waits(v)'
    <3> SUFFICES ASSUME Register(v) PROVE Waits(v)'
      OBVIOUS
    <3>1. wpc[v] = "proposed" /\ at' = at /\ wmPassed' = wmPassed
      BY DEF Register
    <3>2. CASE Move(v, "open") /\ UNCHANGED answer
      <4>1. wpc'[v] = "open" /\ answer'[v] = a /\ ~wmPassed'[v] /\ Live(v)
        BY <1>0, <2>4, <3>1, <3>2 DEF Move, Waits, Live
      <4> QED BY <2>2, <2>4, <3>1, <4>1
    <3> QED BY <2>3, <3>1, <3>2 DEF Register
  <2>8. v \in AsyncWaiters /\ Receive(v) => Waits(v)'
    <3> SUFFICES ASSUME v \in AsyncWaiters, Receive(v) PROVE Waits(v)'
      OBVIOUS
    <3>1. PICK b : b = reply[v] /\ True(v, b)
      BY <1>0 DEF Waits
    <3>2. wpc[v] = "open" /\ at' = at /\ wmPassed' = wmPassed /\ Tell(v, reply[v])
      BY DEF Receive
    <3>3. answer'[v] = b /\ wpc'[v] = "done" /\ ~wmPassed'[v]
      BY <1>0, <3>1, <3>2 DEF Tell, Move, Waits
    <3> QED BY <2>2, <3>1, <3>2, <3>3 DEF Live
  <2>9. v \in AsyncWaiters /\ CloseTicket(v) => Waits(v)'
    <3> SUFFICES ASSUME CloseTicket(v) PROVE Waits(v)'
      OBVIOUS
    <3>1. /\ wpc[v] = "open" /\ at' = at /\ wmPassed' = wmPassed /\ answer'[v] = "unconfirmed"
          /\ wpc'[v] = "closed"
      BY <1>0 DEF CloseTicket, Move
    <3>2. ~wmPassed'[v] /\ Live(v)
      BY <1>0, <3>1 DEF Waits, Live
    <3> QED BY <2>2, <3>1, <3>2, SilentTrue
  <2>10. v \in SyncWaiters /\ ProposeSync(v) => Waits(v)'
    <3> SUFFICES ASSUME v \in SyncWaiters, ProposeSync(v) PROVE Waits(v)'
      OBVIOUS
    <3>1. wpc[v] = "new" /\ wmPassed' = wmPassed
      BY DEF ProposeSync, Begins
    <3>2. CASE Tell(v, "refused") /\ UNCHANGED at
      BY <2>3, <3>1, <3>2
    <3>3. ASSUME NEW k \in {"raw", "catalog"}, NEW e \in Epochs, Append(v, k, e), Move(v, "look"),
                 UNCHANGED answer
          PROVE  Waits(v)'
      <4>1. wpc'[v] = "look" /\ k \in Kinds
        BY <1>0, <3>3 DEF Move, Kinds
      <4> QED BY <2>1, <3>1, <3>3, <4>1
    <3> QED BY <3>2, <3>3 DEF ProposeSync
  <2>11. v \in SyncWaiters /\ LookWatermark(v) => Waits(v)'
    <3> SUFFICES ASSUME LookWatermark(v) PROVE Waits(v)'
      OBVIOUS
    <3>1. wpc[v] = "look" /\ at' = at
      BY DEF LookWatermark
    <3>2. CASE Tell(v, "failed") /\ UNCHANGED wmPassed
      BY <2>3, <3>1, <3>2
    <3>3. CASE /\ wmPassed' = [wmPassed EXCEPT ![v] = driverApplied.index >= at[v].index]
               /\ Move(v, "ring") /\ UNCHANGED answer
      <4>1. /\ wpc'[v] = "ring" /\ answer'[v] = a
            /\ wmPassed'[v] => driverApplied.index >= at[v].index
        BY <1>0, <2>4, <3>3 DEF Move
      <4>2. Live(v)
        BY <3>1 DEF Live
      <4> QED BY <2>2, <2>4, <3>1, <4>1, <4>2
    <3> QED BY <3>2, <3>3 DEF LookWatermark
  <2>12. v \in SyncWaiters /\ LookRing(v) => Waits(v)'
    <3> SUFFICES ASSUME v \in SyncWaiters, LookRing(v) PROVE Waits(v)'
      OBVIOUS
    <3>1. /\ wpc[v] = "ring" /\ at' = at /\ ~wmPassed'[v]
      BY <1>0 DEF LookRing
    <3>2. /\ wmPassed[v] \in BOOLEAN /\ (wmPassed[v] => driverApplied.index >= at[v].index)
          /\ Live(v) /\ Begun(v) /\ Served(v)
      BY <1>0, <1>1, <3>1 DEF Waits, Live
    <3>3. PICK d : d = Discriminate(v, wmPassed[v]) /\ True(v, d)
      BY <1>1, <3>2, DiscriminateTrue
    <3>4. ASSUME NEW x, Tell(v, x), True(v, x) PROVE Waits(v)'
      <4>1. answer'[v] = x /\ wpc'[v] = "done"
        BY <1>0, <3>4 DEF Tell, Move
      <4> QED BY <2>2, <3>1, <3>4, <4>1 DEF Live
    <3>5. CASE Move(v, "look") /\ UNCHANGED answer
      <4>1. wpc'[v] = "look" /\ answer'[v] = a
        BY <1>0, <2>4, <3>5 DEF Move
      <4> QED BY <2>2, <2>4, <3>1, <3>2, <4>1
    <3>6. Tell(v, d) \/ Tell(v, "unconfirmed") \/ (Move(v, "look") /\ UNCHANGED answer)
      BY <3>3 DEF LookRing
    <3> QED BY <3>3, <3>4, <3>5, <3>6, SilentTrue
  <2>13. v \in ConfWaiters /\ ProposeConf(v) => Waits(v)'
    <3> SUFFICES ASSUME v \in ConfWaiters, ProposeConf(v) PROVE Waits(v)'
      OBVIOUS
    <3>1. wpc[v] = "new" /\ wmPassed' = wmPassed /\ answer' = answer /\ Move(v, "look")
      BY DEF ProposeConf, Begins
    <3>2. PICK k \in {"conf", "noop"} : Append(v, k, 0)
      BY DEF ProposeConf
    <3>3. wpc'[v] = "look" /\ k \in Kinds /\ 0 \in Epochs
      BY SMTT(30), <1>0, <3>1, ApplyPathAssumption DEF Move, Kinds, Epochs
    <3> QED BY <1>1, <2>1, <3>1, <3>2, <3>3
  <2>14. ASSUME v \in ConfWaiters, wpc[v] \in {"look", "missed"}
         PROVE  at[v].index \in Nat /\ at[v].index > 0 /\ Live(v)
    BY <1>0, <2>14, Position DEF Waits, Begun, Live
  <2>15. ASSUME v \in ConfWaiters, at[v].index \in 1..committed PROVE True(v, "overwritten")
    BY <1>1, <2>15 DEF True, Outcomes
  <2>16. /\ committed \in Nat /\ cursor \in Nat /\ cursor <= committed /\ confApplied \in Nat
         /\ confApplied <= committed /\ smApplied \in Nat /\ smApplied <= committed
    <3>1. smApplied <= stored /\ stored <= committed /\ confApplied <= committed
      BY DEF EngineInv, Order
    <3>2. /\ committed \in Nat /\ cursor \in Nat /\ smApplied \in Nat /\ confApplied \in Nat /\ taken \in Nat
          /\ stored \in Nat /\ cursor <= taken /\ taken <= committed
      BY PumpNumbers
    <3> QED BY SMTT(30), <3>1, <3>2
  <2>17. v \in ConfWaiters /\ LookReceipt(v) => Waits(v)'
    <3> SUFFICES ASSUME v \in ConfWaiters, LookReceipt(v) PROVE Waits(v)'
      OBVIOUS
    <3>1. wpc[v] = "look" /\ at' = at /\ wmPassed' = wmPassed
      BY DEF LookReceipt
    <3>2. at[v].index \in Nat /\ at[v].index > 0 /\ Live(v)
      BY <2>14, <3>1
    <3>3. ASSUME NEW x, Tell(v, x), True(v, x) PROVE Waits(v)'
      <4>1. answer'[v] = x /\ wpc'[v] = "done" /\ ~wmPassed'[v]
        BY <1>0, <3>1, <3>3 DEF Tell, Move, Waits
      <4> QED BY <2>2, <3>1, <3>3, <4>1 DEF Live
    <3>4. ASSUME NEW r \in receipts, r.index = at[v].index
          PROVE  /\ at[v].index \in 1..committed /\ log[at[v].index].kind = "conf"
                 /\ at[v].index <= confApplied /\ r.term = log[at[v].index].term
      <4>1. r.index <= cursor /\ r.term = log[r.index].term /\ log[r.index].kind = "conf"
        BY DEF Rings
      <4>2. at[v].index \in 1..cursor /\ at[v].index \in 1..committed
        BY SMTT(30), <2>16, <3>2, <3>4, <4>1
      <4> QED BY <3>4, <4>1, <4>2 DEF EngineInv, Passed
    <3>5. CASE Tell(v, "failed")
      BY <3>3, <3>5, SilentTrue
    <3>6. CASE Tell(v, "applied") /\ \E r \in receipts : r.index = at[v].index /\ Matches(r, v)
      <4>1. /\ at[v].index \in 1..committed /\ log[at[v].index].kind = "conf"
            /\ at[v].index <= confApplied /\ log[at[v].index].term = at[v].term
        BY ZenonT(60), <3>4, <3>6 DEF Matches
      <4>2. at[v].index <= committed
        BY SMTT(30), <2>16, <4>1
      <4>3. True(v, "applied")
        BY <1>1, <4>1, <4>2 DEF True, Mine, Outcomes
      <4> QED BY <3>3, <3>6, <4>3
    <3>7. CASE Tell(v, "overwritten") /\ \E r \in receipts : r.index = at[v].index
      BY <2>15, <3>3, <3>4, <3>7
    <3>8. CASE Move(v, "missed") /\ UNCHANGED answer
      <4>1. wpc'[v] = "missed" /\ answer'[v] = a /\ ~wmPassed'[v]
        BY <1>0, <2>4, <3>1, <3>8 DEF Move, Waits
      <4> QED BY <2>2, <2>4, <3>1, <3>2, <4>1
    <3> QED BY <3>5, <3>6, <3>7, <3>8 DEF LookReceipt
  <2>18. v \in ConfWaiters /\ LookPassed(v) => Waits(v)'
    <3> SUFFICES ASSUME v \in ConfWaiters, LookPassed(v) PROVE Waits(v)'
      OBVIOUS
    <3>1. wpc[v] = "missed" /\ at' = at /\ wmPassed' = wmPassed
      BY DEF LookPassed
    <3>2. at[v].index \in Nat /\ at[v].index > 0 /\ Live(v)
      BY <2>14, <3>1
    <3>3. CASE Tell(v, "overwritten") /\ (confApplied > at[v].index \/ smApplied >= at[v].index)
      <4>1. at[v].index \in 1..committed
        BY SMTT(30), <2>16, <3>2, <3>3
      <4>2. answer'[v] = "overwritten" /\ wpc'[v] = "done" /\ ~wmPassed'[v]
        BY <1>0, <3>1, <3>3 DEF Tell, Move, Waits
      <4> QED BY ZenonT(60), <2>2, <2>15, <3>1, <4>1, <4>2 DEF Live
    <3>4. CASE Tell(v, "unconfirmed")
      BY <2>3, <3>1, <3>4
    <3>5. CASE Move(v, "look") /\ UNCHANGED answer
      <4>1. wpc'[v] = "look" /\ answer'[v] = a /\ ~wmPassed'[v]
        BY <1>0, <2>4, <3>1, <3>5 DEF Move, Waits
      <4> QED BY <2>2, <2>4, <3>1, <3>2, <4>1
    <3> QED BY <3>3, <3>4, <3>5 DEF LookPassed
  <2> QED BY ZenonT(60), <1>4, <2>5, <2>6, <2>7, <2>8, <2>9, <2>10, <2>11, <2>12, <2>13, <2>17, <2>18
          DEF AsyncCaller, SyncCaller, ConfCaller
<1> QED BY <1>3, <1>4

\* Every step keeps what is true of each proposer.
LEMMA WaitStep == ASSUME EngineInv, Rings, Queues, Waiting, [Next]_vars PROVE Waiting'
<1> SUFFICES ASSUME NEW w \in Waiters PROVE Waits(w)'
  BY DEF Waiting, Waiters
<1>1. CASE Crash
  BY <1>1, CrashWaiter DEF Waiting
<1>2. CASE ~Crash /\ (Raft \/ Pump \/ ApplyFails \/ ConfFails \/ Stop)
  BY <1>2, WaitPump
<1>3. ASSUME ~Crash, NEW v \in Waiters,
             \/ v \in AsyncWaiters /\ AsyncCaller(v)
             \/ v \in SyncWaiters /\ SyncCaller(v)
             \/ v \in ConfWaiters /\ ConfCaller(v)
      PROVE  Waits(w)'
  BY <1>3, WaitCaller
<1>4. CASE ~Crash /\ UNCHANGED vars
  BY <1>4, SameWaiter DEF vars, callerVars, Waiting
<1> QED BY <1>1, <1>2, <1>3, <1>4 DEF Next, Failure, Waiters

------------------------------------------------------------------------------
(***************************************************************************)
(* The registry: tickets and slots.                                        *)
(***************************************************************************)
CallerTypes ==
    /\ fatal \in BOOLEAN /\ stopped \in BOOLEAN
    /\ held \subseteq AsyncWaiters /\ kept \subseteq AsyncWaiters
    /\ queued \subseteq AsyncWaiters
    /\ inFlight \in Int
    /\ at \in [Waiters -> [term : 0..MaxTerm, index : 0..MaxIndex]]
    /\ wpc \in [Waiters -> WaiterStates]
    /\ wmPassed \in [Waiters -> BOOLEAN]
    /\ reply \in [AsyncWaiters -> Answers]
    /\ answer \in [Waiters -> Answers]
    /\ crashes \in 0..MaxCrashes
RegistryInv == CallerTypes /\ Queues /\ NoStrandedWaiter

\* The number of requests a step finishes is a number.
LEMMA CountAsync ==
    ASSUME NEW S \in SUBSET AsyncWaiters
    PROVE  IsFiniteSet(S) /\ Cardinality(S) \in Nat
<1>1. S \in SUBSET Waiters
  BY DEF Waiters
<1> QED BY <1>1, FS_Subset, FS_CardinalityType, ApplyPathAssumption

\* The steps of Raft and of the apply loop leave the registry alone.
LEMMA RegistryApart ==
    ASSUME \/ Raft \/ ApplyFails \/ ConfFails
           \/ Pump /\ ~(PoisonClose \/ PoisonRecord \/ ServiceTake \/ ServiceOne \/ ServiceEnd)
    PROVE  /\ UNCHANGED <<fatal, stopped, held, kept, queued, inFlight, at, wpc, wmPassed, reply,
                          answer, crashes>>
           /\ pc' = pc \/ (pc # "serve" /\ pc' # "serve")
<1> USE DEF driverVars, turnVars, registryVars, callerVars
<1>1. CASE Raft
  BY <1>1 DEF Raft, Elect, Depose, Replicate, Commit
<1>2. CASE ApplyFails \/ ConfFails
  BY <1>2 DEF ApplyFails, ConfFails, OnError
<1>3. CASE Pump /\ ~(PoisonClose \/ PoisonRecord \/ ServiceTake \/ ServiceOne \/ ServiceEnd)
  BY <1>3 DEF Pump, TakeReady, TakeNothing, ApplyNoop, ApplyRedelivered, ApplyCommands, ApplyConf,
              PushConfReceipt, Publish, LeaveLoop
<1> QED BY <1>1, <1>2, <1>3

\* Every step of the pump keeps each request in one place until it has its reply.
LEMMA RegistryPump ==
    ASSUME EngineInv, Rings, Waiting, RegistryInv, Raft \/ Pump \/ ApplyFails \/ ConfFails \/ Stop
    PROVE  RegistryInv'
<1> USE DEF RegistryInv, CallerTypes, Queues, NoStrandedWaiter
<1>0. "failed" \in Answers /\ "none" \in Answers /\ "unconfirmed" \in Answers
  BY DEF Answers
<1>1. CASE \/ Raft \/ ApplyFails \/ ConfFails
           \/ Pump /\ ~(PoisonClose \/ PoisonRecord \/ ServiceTake \/ ServiceOne \/ ServiceEnd)
  <2>1. /\ UNCHANGED <<fatal, stopped, held, kept, queued, inFlight, at, wpc, wmPassed, reply,
                       answer, crashes>>
        /\ pc' = pc \/ (pc # "serve" /\ pc' # "serve")
    BY <1>1, RegistryApart
  <2> QED BY <2>1
<1>2. CASE PoisonRecord
  BY <1>2 DEF PoisonRecord, registryVars, callerVars
<1>3. CASE PoisonClose \/ Stop
  <2>1. /\ stopped' = TRUE /\ queued' = {} /\ inFlight' = inFlight - Cardinality(queued)
        /\ reply' = [w \in AsyncWaiters |-> IF w \in queued /\ wpc[w] = "open" THEN "failed" ELSE reply[w]]
        /\ UNCHANGED <<fatal, held, kept, at, wpc, wmPassed, answer, crashes>>
        /\ pc' = pc \/ (pc # "serve" /\ pc' # "serve")
    BY <1>3 DEF PoisonClose, Stop, CloseApplies, Finish, turnVars
  <2>2. inFlight' \in Int
    BY SMT, <2>1, CountAsync
  <2>3. reply' \in [AsyncWaiters -> Answers]
    BY <1>0, <2>1
  <2>4. CallerTypes'
    BY <2>1, <2>2, <2>3
  <2>5. Queues'
    BY <2>1
  <2>6. NoStrandedWaiter'
    BY <2>1
  <2> QED BY <2>4, <2>5, <2>6
<1>4. CASE ServiceTake
  BY <1>4 DEF ServiceTake, driverVars, callerVars
<1>5. CASE ServiceOne
  <2>1. PICK w \in held :
          /\ pc = "serve" /\ held' = held \ {w}
          /\ \/ \E a \in Answers : /\ Finish({w}, a) /\ UNCHANGED kept
                                   /\ (wpc[w] = "closed" \/ a # "none")
             \/ kept' = kept \cup {w} /\ UNCHANGED <<inFlight, reply>>
          /\ UNCHANGED <<fatal, stopped, pc, queued, at, wpc, wmPassed, answer, crashes>>
    <3>1. PICK w \in held :
            /\ pc = "serve" /\ held' = held \ {w}
            /\ \/ wpc[w] = "closed" /\ Finish({w}, "none") /\ UNCHANGED kept
               \/ wpc[w] # "closed" /\ Inspect(w) # "none" /\ Finish({w}, Inspect(w)) /\ UNCHANGED kept
               \/ Finish({w}, "unconfirmed") /\ UNCHANGED kept
               \/ kept' = kept \cup {w} /\ UNCHANGED <<inFlight, reply>>
            /\ UNCHANGED <<fatal, stopped, pc, queued, at, wpc, wmPassed, answer, crashes>>
      BY <1>5 DEF ServiceOne, driverVars
    <3>2. w \in AsyncWaiters /\ w \in Waiters /\ w \in Clients
      BY DEF Waiters, Clients
    <3>3. Live(w) /\ Begun(w) /\ Served(w)
      BY <3>2 DEF Live, Waiting, Waits
    <3>4. Inspect(w) \in Answers
      BY <3>2, <3>3, InspectTrue
    <3> QED BY <1>0, <3>1, <3>4
  <2>2. CASE kept' = kept \cup {w} /\ UNCHANGED <<inFlight, reply>>
    BY <2>1, <2>2
  <2>3. ASSUME NEW a \in Answers, Finish({w}, a), UNCHANGED kept, wpc[w] = "closed" \/ a # "none"
        PROVE  RegistryInv'
    <3>1. /\ inFlight' = inFlight - Cardinality({w})
          /\ reply' = [v \in AsyncWaiters |-> IF v \in {w} /\ wpc[v] = "open" THEN a ELSE reply[v]]
      BY <2>3 DEF Finish
    <3>2. Cardinality({w}) \in Nat
      BY CountAsync
    <3>3. CallerTypes'
      BY SMTT(30), <2>1, <2>3, <3>1, <3>2
    <3>4. Queues'
      BY <2>1, <2>3, <3>1
    <3>5. NoStrandedWaiter'
      BY <2>1, <2>3, <3>1
    <3> QED BY <3>3, <3>4, <3>5
  <2> QED BY <2>1, <2>2, <2>3
<1>6. CASE ServiceEnd
  <2>1. /\ pc = "serve" /\ held = {} /\ kept' = {} /\ pc' = "idle"
        /\ UNCHANGED <<fatal, stopped, held, at, wpc, wmPassed, answer, crashes>>
    BY <1>6 DEF ServiceEnd, driverVars
  <2>2. CASE ~stopped /\ queued' = queued \cup kept /\ UNCHANGED <<inFlight, reply>>
    BY ZenonT(60), <2>1, <2>2
  <2>3. CASE stopped /\ Finish(kept, "failed") /\ UNCHANGED queued
    <3>1. /\ inFlight' = inFlight - Cardinality(kept)
          /\ reply' = [v \in AsyncWaiters |-> IF v \in kept /\ wpc[v] = "open" THEN "failed" ELSE reply[v]]
      BY <2>3 DEF Finish
    <3>2. Cardinality(kept) \in Nat
      BY CountAsync
    <3>3. CallerTypes'
      BY SMTT(30), <1>0, <2>1, <2>3, <3>1, <3>2
    <3>4. Queues'
      BY <2>1, <2>3, <3>1
    <3>5. NoStrandedWaiter'
      BY <2>1, <2>3, <3>1
    <3> QED BY <3>3, <3>4, <3>5
  <2> QED BY <1>6, <2>2, <2>3 DEF ServiceEnd, MayRequeue
<1> QED BY <1>1, <1>2, <1>3, <1>4, <1>5, <1>6 DEF Pump

\* So does every step of a proposer.
LEMMA RegistryCaller ==
    ASSUME EngineInv, Rings, Waiting, RegistryInv, NEW v \in Waiters,
           \/ v \in AsyncWaiters /\ AsyncCaller(v)
           \/ v \in SyncWaiters /\ SyncCaller(v)
           \/ v \in ConfWaiters /\ ConfCaller(v)
    PROVE  RegistryInv'
<1> USE DEF RegistryInv, CallerTypes, Queues, NoStrandedWaiter
<1>0. /\ \A a \in {"failed", "none", "unconfirmed", "refused", "applied", "overwritten"} : a \in Answers
      /\ \A x \in {"reserved", "proposed", "open", "closed", "look", "ring", "missed", "done"} : x \in WaiterStates
  BY DEF Answers, WaiterStates
<1>1. UNCHANGED <<fatal, stopped, held, kept, pc, reply, crashes>>
  <2> USE DEF driverVars, turnVars, registryVars, callerVars
  <2>1. CASE AsyncCaller(v)
    BY <2>1 DEF AsyncCaller, Reserve, ProposeAsync, Register, Receive, CloseTicket
  <2>2. CASE SyncCaller(v)
    BY <2>2 DEF SyncCaller, ProposeSync, LookWatermark, LookRing
  <2>3. CASE ConfCaller(v)
    BY <2>3 DEF ConfCaller, ProposeConf, LookReceipt, LookPassed
  <2> QED BY <2>1, <2>2, <2>3
<1>2. ASSUME NEW k, NEW e, Append(v, k, e)
      PROVE  at' \in [Waiters -> [term : 0..MaxTerm, index : 0..MaxIndex]]
  <2>1. term \in 0..MaxTerm /\ last + 1 \in 0..MaxIndex
    BY SMTT(30), <1>2, ApplyPathAssumption DEF EngineInv, TypeOK, Append
  <2> QED BY ZenonT(60), <1>2, <2>1 DEF Append
<1>3. ASSUME NEW x \in WaiterStates, Move(v, x), v \notin AsyncWaiters, UNCHANGED <<queued, inFlight>>,
             at' \in [Waiters -> [term : 0..MaxTerm, index : 0..MaxIndex]],
             wmPassed' \in [Waiters -> BOOLEAN], answer' \in [Waiters -> Answers]
      PROVE  RegistryInv'
  BY <1>1, <1>3 DEF Move, Waiters
<1>4. CASE v \in AsyncWaiters /\ AsyncCaller(v)
  <2>1. CASE Reserve(v)
    <3>1. /\ wpc[v] = "new" /\ UNCHANGED <<queued, at, wmPassed>>
          /\ inFlight' = inFlight + 1 \/ inFlight' = inFlight
          /\ (Move(v, "reserved") /\ UNCHANGED answer) \/ Tell(v, "refused")
      BY <2>1 DEF Reserve, Begins
    <3>2. inFlight' \in Int
      BY SMTT(30), <3>1
    <3>3. CASE Move(v, "reserved") /\ UNCHANGED answer
      BY SMTT(30), <1>0, <1>1, <3>1, <3>2, <3>3 DEF Move
    <3>4. CASE Tell(v, "refused")
      BY SMTT(30), <1>0, <1>1, <3>1, <3>2, <3>4 DEF Move, Tell
    <3> QED BY <3>1, <3>3, <3>4
  <2>2. CASE ProposeAsync(v)
    <3>1. at' \in [Waiters -> [term : 0..MaxTerm, index : 0..MaxIndex]]
      BY <1>2, <2>2 DEF ProposeAsync
    <3>2. /\ wpc[v] = "reserved" /\ UNCHANGED <<queued, wmPassed>> /\ inFlight' \in Int
          /\ (Move(v, "proposed") /\ UNCHANGED answer) \/ Tell(v, "refused")
      BY SMTT(30), <2>2 DEF ProposeAsync
    <3>3. CASE Move(v, "proposed") /\ UNCHANGED answer
      BY SMTT(30), <1>0, <1>1, <3>1, <3>2, <3>3 DEF Move
    <3>4. CASE Tell(v, "refused")
      BY SMTT(30), <1>0, <1>1, <3>1, <3>2, <3>4 DEF Move, Tell
    <3> QED BY <3>2, <3>3, <3>4
  <2>3. CASE Register(v)
    <3>1. wpc[v] = "proposed" /\ UNCHANGED <<at, wmPassed>>
      BY <2>3 DEF Register
    <3>2. CASE stopped /\ inFlight' = inFlight - 1 /\ Tell(v, "failed") /\ UNCHANGED queued
      <4>1. inFlight' \in Int
        BY SMT, <3>2
      <4> QED BY SMTT(30), <1>0, <1>1, <3>1, <3>2, <4>1 DEF Move, Tell
    <3>3. CASE /\ ~stopped /\ queued' = queued \cup {v} /\ Move(v, "open")
               /\ UNCHANGED <<inFlight, answer>>
      <4>1. v \notin queued /\ v \notin held /\ v \notin kept /\ reply[v] = "none"
        BY <1>4, <3>1
      <4>2. CallerTypes'
        BY ZenonT(60), <1>0, <1>1, <1>4, <3>1, <3>3 DEF Move
      <4>3. Queues'
        BY SMTT(30), <1>1, <1>4, <3>1, <3>3, <4>1 DEF Move
      <4>4. NoStrandedWaiter'
        BY SMTT(30), <1>1, <1>4, <3>1, <3>3 DEF Move
      <4> QED BY <4>2, <4>3, <4>4
    <3> QED BY <2>3, <3>2, <3>3 DEF Register
  <2>4. CASE Receive(v)
    <3>1. reply[v] \in Answers
      BY ZenonT(60), <1>4
    <3> QED BY SMTT(30), <1>0, <1>1, <1>4, <2>4, <3>1 DEF Receive, Move, Tell, registryVars
  <2>5. CASE CloseTicket(v)
    BY SMTT(30), <1>0, <1>1, <1>4, <2>5 DEF CloseTicket, Move, registryVars
  <2> QED BY ZenonT(60), <1>4, <2>1, <2>2, <2>3, <2>4, <2>5 DEF AsyncCaller
<1>5. CASE v \in SyncWaiters /\ SyncCaller(v)
  <2>0. v \notin AsyncWaiters /\ v \in Clients
    BY <1>5, ApplyPathAssumption DEF Clients
  <2>1. UNCHANGED <<queued, inFlight>>
    BY <1>5 DEF SyncCaller, ProposeSync, LookWatermark, LookRing, registryVars
  <2>2. at' \in [Waiters -> [term : 0..MaxTerm, index : 0..MaxIndex]]
    <3>1. (\E k, e : Append(v, k, e)) \/ at' = at
      BY <1>5 DEF SyncCaller, ProposeSync, LookWatermark, LookRing
    <3> QED BY <1>2, <3>1
  <2>3. wmPassed' \in [Waiters -> BOOLEAN]
    <3>1. CASE ProposeSync(v) \/ LookRing(v)
      BY <3>1 DEF ProposeSync, LookRing
    <3>2. CASE LookWatermark(v)
      <4> DEFINE p == driverApplied.index >= at[v].index
      <4>1. p \in BOOLEAN
        BY SMT
      <4>2. wmPassed' = wmPassed \/ wmPassed' = [wmPassed EXCEPT ![v] = p]
        BY <3>2 DEF LookWatermark
      <4> HIDE DEF p
      <4> QED BY <4>1, <4>2
    <3> QED BY <1>5, <3>1, <3>2 DEF SyncCaller
  <2>4. ASSUME NEW a \in Answers, Tell(v, a) PROVE RegistryInv'
    BY <1>0, <1>3, <2>0, <2>1, <2>2, <2>3, <2>4 DEF Tell
  <2>5. ASSUME NEW x \in WaiterStates, Move(v, x), UNCHANGED answer PROVE RegistryInv'
    BY <1>3, <2>0, <2>1, <2>2, <2>3, <2>5
  <2>6. CASE ProposeSync(v)
    BY <1>0, <2>4, <2>5, <2>6 DEF ProposeSync
  <2>7. CASE LookWatermark(v)
    BY <1>0, <2>4, <2>5, <2>7 DEF LookWatermark
  <2>8. CASE LookRing(v)
    <3>1. /\ wmPassed[v] \in BOOLEAN /\ (wmPassed[v] => driverApplied.index >= at[v].index)
          /\ Live(v) /\ Begun(v) /\ Served(v)
      BY <2>0, <2>8 DEF Waiting, Waits, Live, LookRing
    <3>2. Discriminate(v, wmPassed[v]) \in Answers
      BY <2>0, <3>1, DiscriminateTrue
    <3> QED BY ZenonT(60), <1>0, <2>4, <2>5, <2>8, <3>2 DEF LookRing
  <2> QED BY <1>5, <2>6, <2>7, <2>8 DEF SyncCaller
<1>6. CASE v \in ConfWaiters /\ ConfCaller(v)
  <2>0. v \notin AsyncWaiters
    BY <1>6, ApplyPathAssumption
  <2>1. UNCHANGED <<queued, inFlight, wmPassed>>
    BY <1>6 DEF ConfCaller, ProposeConf, LookReceipt, LookPassed, registryVars
  <2>2. at' \in [Waiters -> [term : 0..MaxTerm, index : 0..MaxIndex]]
    BY <1>2, <1>6 DEF ConfCaller, ProposeConf, LookReceipt, LookPassed
  <2>4. ASSUME NEW a \in Answers, Tell(v, a) PROVE RegistryInv'
    BY <1>0, <1>3, <2>0, <2>1, <2>2, <2>4 DEF Tell
  <2>5. ASSUME NEW x \in WaiterStates, Move(v, x), UNCHANGED answer PROVE RegistryInv'
    BY <1>3, <2>0, <2>1, <2>2, <2>5
  <2> QED BY <1>0, <1>6, <2>4, <2>5 DEF ConfCaller, ProposeConf, LookReceipt, LookPassed
<1> QED BY <1>4, <1>5, <1>6

\* And every step at all.
LEMMA RegistryStep ==
    ASSUME EngineInv, Rings, Waiting, RegistryInv, [Next]_vars PROVE RegistryInv'
<1>1. CASE Raft \/ Pump \/ ApplyFails \/ ConfFails \/ Stop
  BY <1>1, RegistryPump
<1>2. ASSUME NEW v \in Waiters,
             \/ v \in AsyncWaiters /\ AsyncCaller(v)
             \/ v \in SyncWaiters /\ SyncCaller(v)
             \/ v \in ConfWaiters /\ ConfCaller(v)
      PROVE  RegistryInv'
  BY <1>2, RegistryCaller
<1>3. CASE Crash
  <2>1. /\ fatal' = FALSE /\ stopped' = FALSE /\ pc' = "idle" /\ held' = {} /\ kept' = {}
        /\ queued' = {} /\ inFlight' = 0
        /\ wpc' = [w \in Waiters |-> IF wpc[w] = "new" THEN "new" ELSE "done"]
        /\ wmPassed' = [w \in Waiters |-> FALSE]
        /\ reply' = [w \in AsyncWaiters |-> "none"]
        /\ at' = [w \in Waiters |-> IF Claims(w) THEN at[w] ELSE Nowhere]
        /\ answer' = [w \in Waiters |-> IF Claims(w) THEN answer[w] ELSE "none"]
        /\ crashes < MaxCrashes /\ crashes' = crashes + 1
    BY <1>3 DEF Crash
  <2>2. Nowhere \in [term : 0..MaxTerm, index : 0..MaxIndex]
    BY SMT, ApplyPathAssumption DEF Nowhere
  <2>3. "none" \in Answers /\ "new" \in WaiterStates /\ "done" \in WaiterStates
    BY DEF Answers, WaiterStates
  <2>4. crashes' \in 0..MaxCrashes
    BY SMT, <2>1, ApplyPathAssumption DEF RegistryInv, CallerTypes
  <2>5. CallerTypes'
    <3>1. at' \in [Waiters -> [term : 0..MaxTerm, index : 0..MaxIndex]]
      BY <2>1, <2>2 DEF RegistryInv, CallerTypes
    <3>2. answer' \in [Waiters -> Answers]
      BY <2>1, <2>3 DEF RegistryInv, CallerTypes
    <3>3. wpc' \in [Waiters -> WaiterStates] /\ reply' \in [AsyncWaiters -> Answers]
      BY <2>1, <2>3
    <3>4. wmPassed' \in [Waiters -> BOOLEAN]
      BY <2>1
    <3>5. fatal' \in BOOLEAN /\ stopped' \in BOOLEAN /\ inFlight' \in Int
      <4>1. fatal' = FALSE /\ stopped' = FALSE /\ inFlight' = 0
        BY <2>1
      <4>2. inFlight' \in Int
        BY SMT, <4>1
      <4> QED BY <4>1, <4>2
    <3>6. held' \subseteq AsyncWaiters /\ kept' \subseteq AsyncWaiters /\ queued' \subseteq AsyncWaiters
      BY <2>1
    <3> QED BY ZenonT(60), <2>4, <3>1, <3>2, <3>3, <3>4, <3>5, <3>6 DEF CallerTypes
  <2>6. Queues' /\ NoStrandedWaiter'
    BY <2>1 DEF Queues, NoStrandedWaiter, Waiters
  <2> QED BY <2>5, <2>6 DEF RegistryInv
<1>4. CASE UNCHANGED vars
  BY <1>4 DEF vars, driverVars, turnVars, registryVars, callerVars, RegistryInv, CallerTypes, Queues,
              NoStrandedWaiter
<1> QED BY <1>1, <1>2, <1>3, <1>4 DEF Next, Failure, Waiters

\* Every step keeps the counter equal to the number of slot holders.
LEMMA SlotStep == ASSUME EngineInv, RegistryInv, SlotsExact, [Next]_vars PROVE SlotsExact'
<1> DEFINE H == {w \in AsyncWaiters : Holds(w)}
<1>0. /\ H \in SUBSET AsyncWaiters /\ IsFiniteSet(H) /\ Cardinality(H) \in Nat
      /\ inFlight = Cardinality(H) /\ inFlight <= MaxRequests /\ MaxRequests \in Nat
  <2>1. H \in SUBSET AsyncWaiters
    OBVIOUS
  <2> QED BY <2>1, CountAsync, ApplyPathAssumption DEF SlotsExact
<1>1. ASSUME inFlight' = inFlight, \A w \in AsyncWaiters : Holds(w)' <=> Holds(w) PROVE SlotsExact'
  <2>1. H' = H
    BY <1>1
  <2> QED BY <1>0, <1>1, <2>1 DEF SlotsExact
<1>2. ASSUME NEW F \in SUBSET AsyncWaiters, \A w \in F : Holds(w), inFlight' = inFlight - Cardinality(F),
             \A w \in AsyncWaiters : Holds(w)' <=> Holds(w) /\ w \notin F
      PROVE  SlotsExact'
  <2>1. H' = H \ F /\ F \in SUBSET H
    BY <1>2
  <2> HIDE DEF H
  <2>2. IsFiniteSet(F) /\ Cardinality(F) \in Nat
    BY CountAsync
  <2>3. Cardinality(H \ F) = Cardinality(H) - Cardinality(F)
    <3>1. H \cap F = F
      BY <2>1
    <3> QED BY ZenonT(60), <1>0, <3>1, FS_Difference
  <2>4. inFlight' = Cardinality(H') /\ inFlight' <= MaxRequests
    BY SMT, <1>0, <1>2, <2>1, <2>2, <2>3
  <2> QED BY <2>4 DEF SlotsExact, H
<1>3. ASSUME NEW v \in AsyncWaiters, ~Holds(v), inFlight' = inFlight + 1, inFlight < MaxRequests,
             \A w \in AsyncWaiters : Holds(w)' <=> Holds(w) \/ w = v
      PROVE  SlotsExact'
  <2>1. H' = H \cup {v} /\ v \notin H
    BY <1>3
  <2> HIDE DEF H
  <2>2. Cardinality(H \cup {v}) = Cardinality(H) + 1
    BY <1>0, <2>1, FS_AddElement
  <2>3. inFlight' = Cardinality(H') /\ inFlight' <= MaxRequests
    BY SMTT(30), <1>0, <1>3, <2>1, <2>2
  <2> QED BY <2>3 DEF SlotsExact, H
<1>4. ASSUME NEW v \in AsyncWaiters, Holds(v), inFlight' = inFlight - 1,
             \A w \in AsyncWaiters : Holds(w)' <=> Holds(w) /\ w # v
      PROVE  SlotsExact'
  <2>1. {v} \in SUBSET AsyncWaiters /\ Cardinality({v}) = 1
    BY FS_Singleton
  <2> QED BY <1>2, <1>4, <2>1
<1> HIDE DEF H
<1> USE DEF Holds
<1>5. /\ queued \subseteq AsyncWaiters /\ held \subseteq AsyncWaiters /\ kept \subseteq AsyncWaiters
      /\ wpc \in [Waiters -> WaiterStates] /\ AsyncWaiters \subseteq Waiters
      /\ \A w \in AsyncWaiters :
           w \in queued \cup held \cup kept => wpc[w] \in {"open", "closed"} /\ reply[w] = "none"
      /\ queued \cap held = {} /\ queued \cap kept = {} /\ held \cap kept = {}
      /\ pc # "serve" => held = {} /\ kept = {}
  BY DEF RegistryInv, CallerTypes, Queues, Waiters
<1>6. CASE \/ Raft \/ ApplyFails \/ ConfFails
           \/ Pump /\ ~(PoisonClose \/ PoisonRecord \/ ServiceTake \/ ServiceOne \/ ServiceEnd)
  BY <1>1, <1>6, RegistryApart
<1>7. CASE PoisonRecord
  BY <1>1, <1>7 DEF PoisonRecord, registryVars, callerVars
<1>8. CASE PoisonClose \/ Stop
  <2>1. /\ queued' = {} /\ inFlight' = inFlight - Cardinality(queued) /\ UNCHANGED <<held, kept, wpc>>
    BY <1>8 DEF PoisonClose, Stop, CloseApplies, Finish, turnVars
  <2>2. \A w \in AsyncWaiters : Holds(w)' <=> Holds(w) /\ w \notin queued
    BY <1>5, <2>1
  <2> QED BY <1>2, <1>5, <2>1, <2>2
<1>9. CASE ServiceTake
  <2>1. /\ pc = "service" /\ held' = queued /\ kept' = {} /\ queued' = {}
        /\ UNCHANGED <<inFlight, wpc>>
    BY <1>9 DEF ServiceTake, callerVars
  <2>2. \A w \in AsyncWaiters : Holds(w)' <=> Holds(w)
    BY <1>5, <2>1
  <2> QED BY <1>1, <2>1, <2>2
<1>10. CASE ServiceOne
  <2>1. PICK v \in held :
          /\ held' = held \ {v} /\ UNCHANGED <<queued, wpc>>
          /\ \/ inFlight' = inFlight - Cardinality({v}) /\ UNCHANGED kept
             \/ kept' = kept \cup {v} /\ UNCHANGED inFlight
    BY <1>10 DEF ServiceOne, Finish
  <2>2. CASE kept' = kept \cup {v} /\ UNCHANGED inFlight
    <3>1. \A w \in AsyncWaiters : Holds(w)' <=> Holds(w)
      BY <2>1, <2>2
    <3> QED BY <1>1, <2>2, <3>1
  <2>3. CASE inFlight' = inFlight - Cardinality({v}) /\ UNCHANGED kept
    <3>1. \A w \in AsyncWaiters : Holds(w)' <=> Holds(w) /\ w \notin {v}
      BY <1>5, <2>1, <2>3
    <3>2. {v} \in SUBSET AsyncWaiters /\ \A w \in {v} : Holds(w)
      BY <1>5
    <3> QED BY <1>2, <2>3, <3>1, <3>2
  <2> QED BY <2>1, <2>2, <2>3
<1>11. CASE ServiceEnd
  <2>1. /\ held = {} /\ held' = {} /\ kept' = {} /\ UNCHANGED wpc
        /\ \/ queued' = queued \cup kept /\ UNCHANGED inFlight
           \/ inFlight' = inFlight - Cardinality(kept) /\ UNCHANGED queued
    BY <1>11 DEF ServiceEnd, Finish
  <2>2. CASE queued' = queued \cup kept /\ UNCHANGED inFlight
    <3>1. \A w \in AsyncWaiters : Holds(w)' <=> Holds(w)
      BY <2>1, <2>2
    <3> QED BY <1>1, <2>2, <3>1
  <2>3. CASE inFlight' = inFlight - Cardinality(kept) /\ UNCHANGED queued
    <3>1. \A w \in AsyncWaiters : Holds(w)' <=> Holds(w) /\ w \notin kept
      BY <1>5, <2>1, <2>3
    <3>2. \A w \in kept : Holds(w)
      OBVIOUS
    <3> QED BY <1>2, <1>5, <2>3, <3>1, <3>2
  <2> QED BY <2>1, <2>2, <2>3
<1>12. CASE Crash
  <2>1. /\ held' = {} /\ kept' = {} /\ queued' = {} /\ inFlight' = 0
        /\ wpc' = [w \in Waiters |-> IF wpc[w] = "new" THEN "new" ELSE "done"]
    BY <1>12 DEF Crash
  <2>2. H' = {}
    BY ZenonT(60), <1>5, <2>1 DEF H
  <2>3. inFlight' = Cardinality(H') /\ inFlight' <= MaxRequests
    BY SMTT(30), <1>0, <2>1, <2>2, FS_EmptySet
  <2> QED BY <2>3 DEF SlotsExact, H
<1>13. ASSUME NEW v \in AsyncWaiters, AsyncCaller(v) PROVE SlotsExact'
  <2>0. UNCHANGED <<held, kept>>
    BY <1>13 DEF AsyncCaller, Reserve, ProposeAsync, Register, Receive, CloseTicket, turnVars
  <2>1. CASE Reserve(v)
    <3>1. wpc[v] = "new" /\ UNCHANGED queued /\ ~Holds(v)
      BY <1>5, <2>1 DEF Reserve, Begins
    <3>2. CASE inFlight < MaxRequests /\ inFlight' = inFlight + 1 /\ Move(v, "reserved")
      <4>1. \A w \in AsyncWaiters : Holds(w)' <=> Holds(w) \/ w = v
        BY <1>5, <2>0, <3>1, <3>2 DEF Move
      <4> QED BY <1>3, <3>1, <3>2, <4>1
    <3>3. CASE Tell(v, "refused") /\ UNCHANGED inFlight
      <4>1. \A w \in AsyncWaiters : Holds(w)' <=> Holds(w)
        BY <1>5, <2>0, <3>1, <3>3 DEF Move, Tell
      <4> QED BY <1>1, <3>3, <4>1
    <3> QED BY <2>1, <3>2, <3>3 DEF Reserve
  <2>2. CASE ProposeAsync(v)
    <3>1. wpc[v] = "reserved" /\ UNCHANGED queued /\ Holds(v)
      BY <2>2 DEF ProposeAsync
    <3>2. CASE Move(v, "proposed") /\ UNCHANGED inFlight
      <4>1. \A w \in AsyncWaiters : Holds(w)' <=> Holds(w)
        BY <1>5, <2>0, <3>1, <3>2 DEF Move
      <4> QED BY <1>1, <3>2, <4>1
    <3>3. CASE inFlight' = inFlight - 1 /\ Tell(v, "refused")
      <4>1. \A w \in AsyncWaiters : Holds(w)' <=> Holds(w) /\ w # v
        BY <1>5, <2>0, <3>1, <3>3 DEF Move, Tell
      <4> QED BY <1>4, <3>1, <3>3, <4>1
    <3> QED BY <2>2, <3>2, <3>3 DEF ProposeAsync
  <2>3. CASE Register(v)
    <3>1. wpc[v] = "proposed" /\ Holds(v)
      BY <2>3 DEF Register
    <3>2. CASE inFlight' = inFlight - 1 /\ Tell(v, "failed") /\ UNCHANGED queued
      <4>1. \A w \in AsyncWaiters : Holds(w)' <=> Holds(w) /\ w # v
        BY <1>5, <2>0, <3>1, <3>2 DEF Move, Tell
      <4> QED BY <1>4, <3>1, <3>2, <4>1
    <3>3. CASE queued' = queued \cup {v} /\ Move(v, "open") /\ UNCHANGED inFlight
      <4>1. \A w \in AsyncWaiters : Holds(w)' <=> Holds(w)
        BY <1>5, <2>0, <3>1, <3>3 DEF Move
      <4> QED BY <1>1, <3>3, <4>1
    <3> QED BY <2>3, <3>2, <3>3 DEF Register
  <2>4. CASE Receive(v) \/ CloseTicket(v)
    <3>1. /\ wpc[v] = "open" /\ UNCHANGED <<queued, inFlight>>
          /\ Move(v, "done") \/ Move(v, "closed")
      BY <2>4 DEF Receive, CloseTicket, Tell, registryVars
    <3>2. \A w \in AsyncWaiters : Holds(w)' <=> Holds(w)
      BY <1>5, <2>0, <3>1 DEF Move
    <3> QED BY <1>1, <3>1, <3>2
  <2> QED BY <1>13, <2>1, <2>2, <2>3, <2>4 DEF AsyncCaller
<1>14. ASSUME NEW v \in Waiters, v \notin AsyncWaiters, SyncCaller(v) \/ ConfCaller(v) PROVE SlotsExact'
  <2>1. /\ UNCHANGED <<held, kept, queued, inFlight>>
        /\ \E x : Move(v, x)
    <3>1. CASE SyncCaller(v)
      BY <3>1 DEF SyncCaller, ProposeSync, LookWatermark, LookRing, Tell, registryVars, turnVars
    <3>2. CASE ConfCaller(v)
      BY <3>2 DEF ConfCaller, ProposeConf, LookReceipt, LookPassed, Tell, registryVars, turnVars
    <3> QED BY <1>14, <3>1, <3>2
  <2>2. \A w \in AsyncWaiters : wpc'[w] = wpc[w]
    BY <1>5, <1>14, <2>1 DEF Move
  <2> QED BY <1>1, <2>1, <2>2
<1>15. CASE UNCHANGED vars
  BY <1>1, <1>15 DEF vars, registryVars, turnVars, callerVars
<1>16. \A v \in SyncWaiters \cup ConfWaiters : v \in Waiters /\ v \notin AsyncWaiters
  BY ApplyPathAssumption DEF Waiters
<1> QED BY ZenonT(60), <1>6, <1>7, <1>8, <1>9, <1>10, <1>11, <1>12, <1>13, <1>14, <1>15, <1>16 DEF Next, Failure, Pump

------------------------------------------------------------------------------
(***************************************************************************)
(* The invariant and what it says.                                         *)
(***************************************************************************)
\* An empty log, an idle pump and proposers that have not begun.
LEMMA InitInv == Init => IInv
<1> SUFFICES ASSUME Init PROVE IInv
  OBVIOUS
<1>0. /\ MaxIndex \in Nat /\ MaxTerm \in Nat /\ MaxCrashes \in Nat /\ 0 \in Epochs /\ MaxRequests \in Nat
      /\ Nowhere \in [term : 0..MaxTerm, index : 0..MaxIndex]
      /\ "new" \in WaiterStates /\ "none" \in Answers
  BY SMTT(30), ApplyPathAssumption DEF Epochs, Nowhere, WaiterStates, Answers
<1>1. LogTypes
  <2>1. log \in [Indexes -> Entries \cup {NoEntry}] /\ leads \in BOOLEAN
    BY DEF Init
  <2>2. last \in 0..MaxIndex /\ committed \in 0..last /\ term \in 0..MaxTerm
    BY SMTT(30), <1>0 DEF Init
  <2> QED BY <2>1, <2>2 DEF LogTypes
<1>2. PumpTypes
  BY SMT, <1>0 DEF Init, PumpTypes
<1>3. CallerTypes
  <2>1. /\ fatal \in BOOLEAN /\ stopped \in BOOLEAN /\ wmPassed \in [Waiters -> BOOLEAN]
        /\ held \subseteq AsyncWaiters /\ kept \subseteq AsyncWaiters /\ queued \subseteq AsyncWaiters
    BY DEF Init
  <2>2. inFlight \in Int /\ crashes \in 0..MaxCrashes
    BY SMT, <1>0 DEF Init
  <2>3. /\ at \in [Waiters -> [term : 0..MaxTerm, index : 0..MaxIndex]]
        /\ wpc \in [Waiters -> WaiterStates]
        /\ reply \in [AsyncWaiters -> Answers] /\ answer \in [Waiters -> Answers]
    BY <1>0 DEF Init
  <2> QED BY <2>1, <2>2, <2>3 DEF CallerTypes
<1>4. TypeOK
  BY ZenonT(60), <1>1, <1>2, <1>3 DEF TypeOK, LogTypes, PumpTypes, CallerTypes
<1>5. Filled /\ Passed
  BY SMTT(30) DEF Init, Filled, Passed
<1>6. Order
  BY SMT DEF Init, Order, Nowhere
<1>7. AppliedExactlyOnce
  <2>1. stored <= committed /\ EpochAfter(stored, epoch)
    BY SMTT(30) DEF Init, EpochAfter
  <2>2. \A j \in Indexes : writes[j] = 0 /\ ~(j <= stored)
    BY SMTT(30), <1>0 DEF Init, Indexes
  <2> QED BY <2>1, <2>2 DEF AppliedExactlyOnce
<1>8. Rings
  BY FS_EmptySet DEF Init, Rings
<1>9. ASSUME NEW w \in Waiters PROVE Waits(w)
  <2>1. /\ at[w].index = 0 /\ at[w].term = 0 /\ wpc[w] = "new" /\ answer[w] = "none" /\ ~wmPassed[w]
        /\ term = 0 /\ last = 0
    BY DEF Init, Nowhere
  <2>2. w \in AsyncWaiters => reply[w] = "none"
    BY SMTT(30) DEF Init
  <2>3. Named(w) /\ Begun(w) /\ Served(w)
    BY SMTT(30), <2>1 DEF Named, Own, Begun, Served, Live
  <2>4. True(w, "none")
    BY SilentTrue
  <2> QED BY <2>1, <2>2, <2>3, <2>4 DEF Waits
<1>10. Queues /\ NoStrandedWaiter
  BY DEF Init, Queues, NoStrandedWaiter, Waiters
<1>11. SlotsExact
  <2>1. {w \in AsyncWaiters : Holds(w)} = {}
    BY DEF Init, Holds, Waiters
  <2> QED BY SMTT(30), <1>0, <2>1, FS_EmptySet DEF Init, SlotsExact
<1> QED BY ZenonT(60), <1>4, <1>5, <1>6, <1>7, <1>8, <1>9, <1>10, <1>11 DEF IInv, Waiting

\* Every step, crashes included, keeps the invariant.
LEMMA StepInv == IInv /\ [Next]_vars => IInv'
<1> SUFFICES ASSUME IInv, [Next]_vars PROVE IInv'
  OBVIOUS
<1>1. EngineInv /\ Rings /\ Waiting /\ Queues /\ SlotsExact /\ LogInv
  BY DEF IInv, EngineInv, LogInv, LogTypes, TypeOK
<1>2. RegistryInv
  BY DEF IInv, RegistryInv, CallerTypes, TypeOK
<1>3. LogInv' /\ Stable /\ LogTypes'
  BY <1>1, LogStep DEF LogInv
<1>4. PumpGoal'
  BY <1>1, <1>3, EngineStep
<1>5. Waiting'
  BY <1>1, WaitStep
<1>6. RegistryInv'
  BY <1>1, <1>2, RegistryStep
<1>7. SlotsExact'
  BY <1>1, <1>2, SlotStep
<1>8. TypeOK'
  BY <1>3, <1>4, <1>6 DEF PumpGoal, RegistryInv, TypeOK, LogTypes, PumpTypes, CallerTypes
<1> QED BY <1>3, <1>4, <1>5, <1>6, <1>7, <1>8 DEF IInv, LogInv, PumpGoal, PumpInv, RegistryInv

\* The inductive invariant holds throughout, whatever races, fails or restarts
\* (step_inner, apply_at, apply_raw_group, inspect_applied, service).
THEOREM ApplyInvariant == Spec => []IInv
<1>1. Init => IInv
  BY InitInv
<1>2. IInv /\ [Next]_vars => IInv'
  BY StepInv
<1> QED BY <1>1, <1>2, PTL DEF Spec

\* Every variable keeps its type.
THEOREM ApplyTypes == Spec => []TypeOK
<1>1. IInv => TypeOK
  BY DEF IInv
<1> QED BY <1>1, ApplyInvariant, PTL

\* The engine holds each accepted command up to its watermark exactly once and
\* nothing else, through grouping, failed batches, crashes and replays
\* (apply_at, apply_raw_group, write_applied).
THEOREM ExactlyOnce == Spec => []AppliedExactlyOnce
<1>1. IInv => AppliedExactlyOnce
  BY DEF IInv
<1> QED BY <1>1, ApplyInvariant, PTL

\* Every verdict a proposer is given is the verdict on its own committed entry, and
\* "replaced" is said only when another leader's entry is committed there
\* (inspect_applied, wait_conf_applied).
THEOREM TrueReceipts == Spec => []ReceiptsTrue
<1>1. IInv => ReceiptsTrue
  <2> SUFFICES ASSUME IInv PROVE ReceiptsTrue
    OBVIOUS
  <2>1. ASSUME NEW w \in AsyncWaiters \cup SyncWaiters
        PROVE  /\ answer[w] \in Outcomes =>
                    /\ Mine(w)
                    /\ (answer[w] = "applied") = Accepted(at[w].index)
               /\ answer[w] = "replaced" => at[w].index <= committed /\ ~Mine(w)
    <3>1. w \in Waiters /\ w \in Clients
      BY DEF Waiters, Clients
    <3>2. True(w, answer[w])
      BY <3>1 DEF IInv, Waiting, Waits
    <3>3. answer[w] \in Outcomes => Mine(w) /\ (answer[w] = "applied" <=> Accepted(at[w].index))
      BY <3>1, <3>2 DEF True
    <3>4. Accepted(at[w].index) \in BOOLEAN
      BY DEF Accepted
    <3>5. answer[w] \in Outcomes => (answer[w] = "applied") = Accepted(at[w].index)
      BY <3>3, <3>4
    <3>6. ASSUME answer[w] = "replaced" PROVE at[w].index <= committed /\ ~Mine(w)
      <4>1. at[w].index \in 1..committed /\ ~Mine(w)
        BY ZenonT(60), <3>1, <3>2, <3>6 DEF True
      <4>2. committed \in Nat
        BY SMTT(30), ApplyPathAssumption DEF IInv, TypeOK
      <4> QED BY SMTT(30), <4>1, <4>2
    <3> QED BY <3>3, <3>5, <3>6
  <2>2. ASSUME NEW w \in ConfWaiters
        PROVE  answer[w] = "applied" => Mine(w) /\ log[at[w].index].kind = "conf"
                                        /\ at[w].index <= confApplied
    <3>1. True(w, answer[w])
      BY DEF IInv, Waiting, Waits, Waiters
    <3> QED BY <3>1 DEF True
  <2> QED BY <2>1, <2>2 DEF ReceiptsTrue
<1> QED BY <1>1, ApplyInvariant, PTL

\* The unified watermark names a committed entry and nothing at or below it is still
\* to be applied (publish_driver_applied, poison).
THEOREM ContiguousWatermark == Spec => []WatermarkContiguous
<1>1. IInv => WatermarkContiguous
  <2> SUFFICES ASSUME IInv, NEW n, n = driverApplied.index, n > 0
               PROVE  /\ n <= committed /\ log[n].term = driverApplied.term
                      /\ \A i \in 1..n : /\ IsCommand(i) => i <= stored
                                         /\ log[i].kind = "conf" => i <= confApplied
    BY DEF WatermarkContiguous
  <2>1. EngineInv
    BY DEF IInv, EngineInv
  <2>2. /\ committed \in Nat /\ taken \in Nat /\ cursor \in Nat /\ stored \in Nat /\ smApplied \in Nat
        /\ n \in Nat /\ cursor <= taken /\ taken <= committed /\ n <= cursor
    BY <2>1, PumpNumbers
  <2>3. smApplied <= stored /\ log[n].term = driverApplied.term
    BY DEF IInv, Order
  <2>4. ASSUME NEW i \in 1..n
        PROVE  (IsCommand(i) => i <= stored) /\ (log[i].kind = "conf" => i <= confApplied)
    <3>1. i \in 1..cursor
      BY SMT, <2>2
    <3>2. (IsCommand(i) => i <= smApplied) /\ (log[i].kind = "conf" => i <= confApplied)
      BY <3>1 DEF IInv, Passed
    <3> QED BY SMTT(30), <2>2, <2>3, <3>1, <3>2
  <2>5. n <= committed
    BY SMTT(30), <2>2
  <2> QED BY <2>3, <2>4, <2>5
<1> QED BY <1>1, ApplyInvariant, PTL

\* The registry's counter is the number of requests between reservation and
\* completion and never exceeds its limit (reserve, Reservation::drop, finish, close).
THEOREM ExactSlots == Spec => []SlotsExact
<1>1. IInv => SlotsExact
  BY DEF IInv
<1> QED BY <1>1, ApplyInvariant, PTL

\* An open ticket without a reply is one its owner will look at again
\* (service, close, poison).
THEOREM TicketsKept == Spec => []NoStrandedWaiter
<1>1. IInv => NoStrandedWaiter
  BY DEF IInv
<1> QED BY <1>1, ApplyInvariant, PTL
=============================================================================
