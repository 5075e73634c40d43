--------------------------- MODULE ReadPathProofs ---------------------------
(***************************************************************************)
(* Linearizability of answered reads, for every set of requests, every     *)
(* admission and turn bound and every length of the log.                   *)
(*                                                                         *)
(* ReadSeesPriorWrites is not inductive.  The invariant below follows an   *)
(* index from the leader that records it (PendingFresh) through the read   *)
(* state (ConfirmedByQuorum) and the sealed group (GroupFresh) to the      *)
(* reply (AnswerFresh), and keeps a request in one place at a time         *)
(* (NotYetSubmitted, NotYetRegistered).                                    *)
(***************************************************************************)
EXTENDS ReadPath, FiniteSetTheorems, TLAPS

(* Leaves are tried with Zenon unless they name another prover.           *)
USE Zenon

\* The watermark trails the local commit index, which trails the group's.
Watermarks ==
    /\ applied <= known /\ known <= commit
    /\ \A c \in Reads : base[c] <= commit
    /\ role = "leader" /\ termCommitted => known = commit

\* A request not yet handed to the peer has no index there.
NotYetSubmitted ==
    /\ queued \cap held = {}
    /\ \A c \in queued : pending[c] = None /\ readStates[c] = None
    /\ admission # "admitted" =>
         \A c \in held : pending[c] = None /\ readStates[c] = None

NotYetRegistered ==
    \A c \in Reads : ticket[c] \in {"new", "local"} =>
        /\ c \notin queued /\ c \notin held
        /\ \A g \in Reads : c \notin members[g]
        /\ pending[c] = None /\ readStates[c] = None
        /\ chosen[c] = "none" /\ reply[c] = "none"

\* While the pump publishes, the sealed members wait under head.
Sealed(g) == IF admission = "admitted" /\ g = head THEN members[g] \cup held ELSE members[g]

PendingFresh ==
    /\ role = "follower" => \A g \in Reads : pending[g] = None
    /\ role = "leader" =>
         \A g \in Reads : pending[g] # None => \A m \in Sealed(g) : pending[g] >= base[m]
ConfirmedByQuorum ==
    \A g \in Reads : readStates[g] # None => \A m \in Sealed(g) : readStates[g] >= base[m]
GroupFresh ==
    \A g \in Reads : confirmed[g] # None => \A m \in members[g] : confirmed[g] >= base[m]
AnswerFresh ==
    \A c \in Reads : chosen[c] = "ok" \/ reply[c] = "ok" \/ ticket[c] = "ok" =>
        applied >= base[c]
PumpState ==
    /\ admission = "admitted" => pc = "publish" /\ head \in held
    /\ admission = "deferred" => pc = "publish"
    /\ held # {} => pc \in {"seal", "index", "publish"}
    /\ \A g \in Reads : g \notin active => members[g] = {}

IInv ==
    /\ TypeOK /\ PumpState /\ Watermarks /\ NotYetSubmitted /\ NotYetRegistered
    /\ PendingFresh /\ ConfirmedByQuorum /\ GroupFresh /\ AnswerFresh

\* Counting the slots of a set of requests gives a number.
LEMMA FiniteSubset == \A S \in SUBSET Reads : Cardinality(S) \in Nat
BY ReadPathAssumption, FS_Subset, FS_CardinalityType

\* Commitment, elections and the quorum's answers keep the indexes true.
LEMMA RaftKeepsIInv == IInv /\ Raft => IInv'
<1> SUFFICES ASSUME IInv, Raft
             PROVE  IInv'
  OBVIOUS
<1> USE DEF IInv, TypeOK, PumpState, Watermarks, NotYetSubmitted, NotYetRegistered,
            PendingFresh, ConfirmedByQuorum, GroupFresh, AnswerFresh, Sealed, None,
            Replies, raftVars, registryVars, callerVars, pumpVars
<1>1. CASE Commit
  BY SMTT(30), <1>1 DEF Commit
<1>2. CASE Learn
  BY SMT, <1>2 DEF Learn
<1>3. CASE Elect
  BY ZenonT(60), <1>3 DEF Elect
<1>4. CASE CommitNoop
  BY SMT, <1>4 DEF CommitNoop
<1>5. CASE Depose
  BY SMTT(30), <1>5 DEF Depose
<1>6. CASE StepDown
  BY ZenonT(60), <1>6 DEF StepDown
<1>7. CASE PeerFails
  BY SMT, <1>7 DEF PeerFails
<1>8. ASSUME NEW c \in Reads, QuorumAck(c) PROVE IInv'
  BY SMTT(30), <1>8 DEF QuorumAck
<1> QED
  BY ZenonT(60), <1>1, <1>2, <1>3, <1>4, <1>5, <1>6, <1>7, <1>8 DEF Raft

\* The pump turn hands an index on without losing what it covers.
LEMMA PumpKeepsIInv == IInv /\ Pump => IInv'
<1> SUFFICES ASSUME IInv, Pump
             PROVE  IInv'
  OBVIOUS
<1> USE DEF IInv, TypeOK, PumpState, Watermarks, NotYetSubmitted, NotYetRegistered,
            PendingFresh, ConfirmedByQuorum, GroupFresh, AnswerFresh, Sealed, None,
            Replies, raftVars, registryVars, callerVars, pumpVars
<1>1. CASE SubmitTake
  BY SMTT(30), <1>1 DEF SubmitTake
<1>2. CASE SubmitSeal
  BY SMTT(30), <1>2, FiniteSubset DEF SubmitSeal, Sent, Release
<1>3. CASE SubmitIndex
  BY SMTT(30), <1>3, FiniteSubset DEF SubmitIndex, Sent, Release
<1>4. CASE SubmitPublish
  BY SMTT(30), <1>4, FiniteSubset DEF SubmitPublish, Sent, Release
<1>5. CASE ConfirmReads
  BY ZenonT(60), <1>5 DEF ConfirmReads
<1>6. CASE ApplyReady
  BY SMTT(30), <1>6 DEF ApplyReady
<1>7. CASE SelectCompletions
  BY SMTT(30), <1>7 DEF SelectCompletions, Covered
<1>8. CASE EndTurn
  BY SMTT(30), <1>8 DEF EndTurn
<1>9. CASE Poison
  BY SMTT(30), <1>9 DEF Poison, CloseRegistry
<1>10. ASSUME NEW c \in Reads, FinishSelected(c) PROVE IInv'
  BY SMTT(30), <1>10, FiniteSubset DEF FinishSelected, Sent, Release
<1> QED
  BY ZenonT(60), <1>1, <1>2, <1>3, <1>4, <1>5, <1>6, <1>7, <1>8, <1>9, <1>10 DEF Pump

\* A caller that asks, waits, gives up or is answered leaves the others' indexes.
LEMMA CallerKeepsIInv == IInv /\ (\E c \in Reads : Caller(c)) => IInv'
<1> SUFFICES ASSUME IInv, (\E c \in Reads : Caller(c))
             PROVE  IInv'
  OBVIOUS
<1> USE DEF IInv, TypeOK, PumpState, Watermarks, NotYetSubmitted, NotYetRegistered,
            PendingFresh, ConfirmedByQuorum, GroupFresh, AnswerFresh, Sealed, None,
            Replies, raftVars, registryVars, callerVars, pumpVars
<1>1. ASSUME NEW c \in Reads, RegisterRefused(c) PROVE IInv'
  BY SMTT(30), <1>1 DEF RegisterRefused
<1>2. ASSUME NEW c \in Reads, Register(c) PROVE IInv'
  <2>1. TypeOK' /\ PumpState' /\ Watermarks'
    BY SMTT(30), <1>2 DEF Register, Admit
  <2>2. NotYetSubmitted' /\ NotYetRegistered'
    BY SMTT(30), <1>2 DEF Register, Admit
  <2>3. PendingFresh' /\ ConfirmedByQuorum' /\ GroupFresh' /\ AnswerFresh'
    BY SMTT(30), <1>2 DEF Register, Admit
  <2> QED BY <2>1, <2>2, <2>3
<1>3. ASSUME NEW c \in Reads, ReserveLocal(c) PROVE IInv'
  <2>1. TypeOK' /\ PumpState' /\ Watermarks'
    BY SMTT(30), <1>3 DEF ReserveLocal, Admit
  <2>2. NotYetSubmitted' /\ NotYetRegistered'
    BY SMTT(30), <1>3 DEF ReserveLocal, Admit
  <2>3. PendingFresh' /\ ConfirmedByQuorum' /\ GroupFresh' /\ AnswerFresh'
    BY SMTT(30), <1>3 DEF ReserveLocal, Admit
  <2> QED BY <2>1, <2>2, <2>3
<1>4. ASSUME NEW c \in Reads, SubmitLocal(c) PROVE IInv'
  BY SMTT(30), <1>4 DEF SubmitLocal
<1>5. ASSUME NEW c \in Reads, DropLocal(c) PROVE IInv'
  BY SMTT(30), <1>5 DEF DropLocal, Answered
<1>6. ASSUME NEW c \in Reads, DeadlinePasses(c) PROVE IInv'
  BY SMTT(30), <1>6 DEF DeadlinePasses
<1>7. ASSUME NEW c \in Reads, Receive(c) PROVE IInv'
  BY SMTT(30), <1>7 DEF Receive, Answered
<1>8. ASSUME NEW c \in Reads, Abandon(c) PROVE IInv'
  BY SMTT(30), <1>8 DEF Abandon, Answered
<1> QED
  BY ZenonT(60), <1>1, <1>2, <1>3, <1>4, <1>5, <1>6, <1>7, <1>8 DEF Caller

\* Every step of the pump, the callers and Raft keeps the path from a recorded
\* read index to an answered read intact.
LEMMA StepKeepsIInv == IInv /\ [Next]_vars => IInv'
<1> SUFFICES ASSUME IInv, [Next]_vars
             PROVE  IInv'
  OBVIOUS
<1> USE DEF IInv, TypeOK, PumpState, Watermarks, NotYetSubmitted, NotYetRegistered,
            PendingFresh, ConfirmedByQuorum, GroupFresh, AnswerFresh, Sealed, None,
            Replies, raftVars, registryVars, callerVars, pumpVars
<1>1. CASE Close
  BY SMTT(30), <1>1 DEF Close, CloseRegistry
<1>2. ASSUME NEW c \in Reads, FinishClosing(c) PROVE IInv'
  BY SMTT(30), <1>2, FiniteSubset DEF FinishClosing, Sent, Release
<1>3. CASE UNCHANGED vars
  BY SMTT(30), <1>3 DEF vars
<1> QED
  BY <1>1, <1>2, <1>3, RaftKeepsIInv, PumpKeepsIInv, CallerKeepsIInv DEF Next

\* The index behind every pending, confirmed or sent answer covers what was committed
\* when its request was made.
THEOREM ReadPathInvariant == Spec => []IInv
<1>1. Init => IInv
  <2> SUFFICES ASSUME Init PROVE IInv
    OBVIOUS
  <2>1. TypeOK
    <3>1. /\ members \in [Reads -> SUBSET Reads]
          /\ base \in [Reads -> Nat]
      BY DEF Init
    <3>2. /\ pending \in [Reads -> Nat \cup {None}]
          /\ readStates \in [Reads -> Nat \cup {None}]
          /\ confirmed \in [Reads -> Nat \cup {None}]
      BY DEF Init
    <3>3. /\ ticket \in [Reads -> {"new", "local", "open", "ok", "err"}]
          /\ reply \in [Reads -> Replies]
          /\ chosen \in [Reads -> Replies]
      BY DEF Init, Replies
    <3>4. termCommitted \in BOOLEAN /\ peerFatal \in BOOLEAN /\ stopped \in BOOLEAN
      BY DEF Init
    <3>5. /\ commit \in Nat /\ known \in Nat /\ applied \in Nat
          /\ inFlight \in Int /\ localReserved \in Int
      BY SMTT(30) DEF Init
    <3> QED
      BY <3>1, <3>2, <3>3, <3>4, <3>5 DEF Init, TypeOK
  <2>2. PumpState /\ Watermarks /\ NotYetSubmitted /\ NotYetRegistered
    BY SMT DEF Init, PumpState, Watermarks, NotYetSubmitted, NotYetRegistered
  <2>3. PendingFresh /\ ConfirmedByQuorum /\ GroupFresh /\ AnswerFresh
    BY DEF Init, PendingFresh, ConfirmedByQuorum, GroupFresh, AnswerFresh
  <2> QED
    BY <2>1, <2>2, <2>3 DEF IInv
<1> QED
  BY <1>1, StepKeepsIInv, PTL DEF Spec

\* Type correctness of the registry, the callers and the pump.
THEOREM ReadPathTypes == Spec => []TypeOK
<1>1. IInv => TypeOK
  BY DEF IInv
<1> QED
  BY <1>1, ReadPathInvariant, PTL

\* A read answered by a barrier observes every write committed before it was made,
\* across elections, deposed leaders, regrouping, expiry, cancellation and stop.
THEOREM Linearizable == Spec => []ReadSeesPriorWrites
<1>1. IInv => ReadSeesPriorWrites
  BY DEF IInv, AnswerFresh, ReadSeesPriorWrites
<1> QED
  BY <1>1, ReadPathInvariant, PTL


(***************************************************************************)
(* Slots.  SlotAccounting counts the holders of a request; the invariant   *)
(* says where each request is, that it is nowhere else, and what the pump  *)
(* still holds at each point of its turn.                                  *)
(***************************************************************************)
Grouped(c) == \E g \in Reads : c \in members[g]
Picked(c) == chosen[c] # "none"
Local(c) == ticket[c] = "local"

\* A reserved slot has a holder, and only one.
Placed(c) ==
    /\ c \in reserved <=>
         c \in queued \/ c \in held \/ Grouped(c) \/ Picked(c) \/ c \in closing \/ Local(c)
    /\ c \in queued => ~(c \in held \/ Grouped(c) \/ Picked(c) \/ c \in closing \/ Local(c))
    /\ c \in held => ~(Grouped(c) \/ Picked(c) \/ c \in closing \/ Local(c))
    /\ Grouped(c) => ~(Picked(c) \/ c \in closing \/ Local(c))
    /\ Picked(c) => ~(c \in closing \/ Local(c))
    /\ c \in closing => ~Local(c)
OneGroup == \A c, g, h \in Reads : c \in members[g] /\ c \in members[h] => g = h

\* Selected requests are finished before the next turn, a failed index leaves
\* nothing to publish, and a group's context is not queued again.
Turn ==
    /\ \A c \in Reads : Picked(c) => pc = "finish"
    /\ pc = "publish" /\ admission = "none" => held = {}
    /\ \A g \in active : g \notin queued /\ g \notin held /\ ticket[g] \notin {"new", "local"}
Counted ==
    /\ inFlight = Cardinality(reserved) /\ inFlight <= MaxRequests
    /\ localReserved = Cardinality({c \in Reads : Local(c)})

SlotInv ==
    /\ \A c \in Reads : Placed(c)
    /\ OneGroup /\ Turn /\ Counted /\ NoStrandedCaller

\* Returning the slots of S takes Cardinality(S) from the count.
LEMMA CountWithout ==
    \A T \in SUBSET Reads : \A S \in SUBSET T :
        /\ Cardinality(T \ S) = Cardinality(T) - Cardinality(S)
        /\ Cardinality(S) <= Cardinality(T)
<1> SUFFICES ASSUME NEW T \in SUBSET Reads, NEW S \in SUBSET T
             PROVE  /\ Cardinality(T \ S) = Cardinality(T) - Cardinality(S)
                    /\ Cardinality(S) <= Cardinality(T)
  OBVIOUS
<1>1. IsFiniteSet(T)
  BY ReadPathAssumption, FS_Subset
<1>2. T \cap S = S
  OBVIOUS
<1>3. Cardinality(T \ S) = Cardinality(T) - Cardinality(S)
  BY SMTT(30), <1>1, <1>2, FS_Difference
<1>4. Cardinality(S) <= Cardinality(T)
  BY <1>1, FS_Subset
<1> QED BY <1>3, <1>4

\* Taking or returning one slot moves the count by one.
LEMMA CountOne ==
    \A T \in SUBSET Reads : \A c \in Reads :
        /\ c \notin T => Cardinality(T \cup {c}) = Cardinality(T) + 1
        /\ c \in T => Cardinality(T \ {c}) = Cardinality(T) - 1
<1> SUFFICES ASSUME NEW T \in SUBSET Reads, NEW c \in Reads
             PROVE  /\ c \notin T => Cardinality(T \cup {c}) = Cardinality(T) + 1
                    /\ c \in T => Cardinality(T \ {c}) = Cardinality(T) - 1
  OBVIOUS
<1>1. IsFiniteSet(T)
  BY ReadPathAssumption, FS_Subset
<1> QED BY <1>1, FS_AddElement, FS_RemoveElement

\* Where the requests and their slots are.
Places == (\A c \in Reads : Placed(c)) /\ OneGroup /\ Turn /\ NoStrandedCaller

\* What IInv says of the places alone.
Unregistered ==
    \A c \in Reads : ticket[c] \in {"new", "local"} =>
        /\ c \notin queued /\ c \notin held
        /\ \A g \in Reads : c \notin members[g]
        /\ chosen[c] = "none" /\ reply[c] = "none"
PlaceTypes ==
    /\ queued \subseteq Reads /\ held \subseteq Reads /\ head \in Reads \cup {"none"}
    /\ active \subseteq Reads /\ reserved \subseteq Reads
    /\ late \subseteq Reads /\ closing \subseteq Reads /\ stopped \in BOOLEAN
    /\ members \in [Reads -> SUBSET Reads]
    /\ ticket \in [Reads -> {"new", "local", "open", "ok", "err"}]
    /\ reply \in [Reads -> Replies] /\ chosen \in [Reads -> Replies]
    /\ pc \in {"idle", "seal", "index", "publish", "drain", "apply", "complete",
               "finish", "stopped"}
    /\ admission \in {"none", "admitted", "deferred"}
    /\ PumpState /\ Unregistered

\* A step that moves no request and answers none keeps the places.
LEMMA SamePlaces ==
    ASSUME SlotInv, UNCHANGED <<queued, held, active, members, reserved, closing, chosen, ticket, reply>>,
           \A c \in Reads : Picked(c) => pc' = "finish",
           pc' = "publish" /\ admission' = "none" => held = {}
    PROVE  Places'
<1>1. \A c \in Reads : Placed(c)'
  BY DEF SlotInv, Placed, Grouped, Picked, Local
<1>2. OneGroup' /\ NoStrandedCaller'
  BY DEF SlotInv, OneGroup, NoStrandedCaller
<1>3. Turn'
  BY DEF SlotInv, Turn, Picked
<1> QED BY <1>1, <1>2, <1>3 DEF Places

\* A caller that is refused or takes its answer moves no slot.
LEMMA TicketClosed ==
    ASSUME PlaceTypes, SlotInv, NEW c \in Reads, NEW r \in {"ok", "err"},
           UNCHANGED <<queued, held, active, members, reserved, closing, chosen, pc, admission>>,
           ticket[c] \in {"new", "open"}, ticket' = [ticket EXCEPT ![c] = r],
           \A d \in Reads \ {c} : reply'[d] = reply[d]
    PROVE  Places'
<1>0. ticket \in [Reads -> {"new", "local", "open", "ok", "err"}]
  BY DEF PlaceTypes
<1>1. /\ ticket'[c] \notin {"new", "local", "open"}
      /\ \A d \in Reads \ {c} : ticket'[d] = ticket[d]
  BY SMT, <1>0
<1>2. \A d \in Reads : Local(d)' <=> Local(d)
  BY SMT, <1>1 DEF Local
<1>3. \A d \in Reads : Placed(d)'
  <2>1. \A d \in Reads : (Grouped(d)' <=> Grouped(d)) /\ (Picked(d)' <=> Picked(d))
    BY DEF Grouped, Picked
  <2> QED BY <1>2, <2>1 DEF SlotInv, Placed
<1>4. OneGroup'
  BY DEF SlotInv, OneGroup
<1>5. NoStrandedCaller'
  BY <1>1 DEF SlotInv, NoStrandedCaller
<1>6. Turn'
  <2>1. active \subseteq Reads
    BY DEF PlaceTypes
  <2> QED BY <1>1, <2>1 DEF SlotInv, Turn, Picked
<1> QED BY <1>3, <1>4, <1>5, <1>6 DEF Places

\* An answer returns the slot of the request whose last holder it was.
LEMMA AnswerSent ==
    ASSUME PlaceTypes, SlotInv, NEW c \in Reads,
           UNCHANGED <<queued, held, active, members, ticket, pc, admission>>,
           reserved' = reserved \ {c},
           \A d \in Reads \ {c} : reply'[d] = reply[d],
           ticket[c] = "open" => reply'[c] # "none",
           \/ Picked(c) /\ closing' = closing /\ chosen' = [chosen EXCEPT ![c] = "none"]
           \/ c \in closing /\ closing' = closing \ {c} /\ chosen' = chosen
    PROVE  Places'
<1>0. chosen \in [Reads -> Replies] /\ active \subseteq Reads
  BY DEF PlaceTypes
<1>1. /\ \A d \in Reads \ {c} : (Picked(d)' <=> Picked(d)) /\ (d \in closing' <=> d \in closing)
      /\ ~Picked(c)' /\ c \notin closing'
  <2>1. Placed(c)
    BY DEF SlotInv
  <2> QED BY SMT, <1>0, <2>1 DEF Placed, Picked
<1>2. \A d \in Reads : (Grouped(d)' <=> Grouped(d)) /\ (Local(d)' <=> Local(d))
  BY DEF Grouped, Local
<1>3. Placed(c)'
  <2>1. Placed(c) /\ (Picked(c) \/ c \in closing)
    BY DEF SlotInv
  <2> QED BY SMT, <1>1, <1>2, <2>1 DEF Placed
<1>4. ASSUME NEW d \in Reads \ {c} PROVE Placed(d)'
  <2>1. Placed(d)
    BY DEF SlotInv
  <2> QED BY SMT, <1>1, <1>2, <2>1 DEF Placed
<1>5. OneGroup'
  BY DEF SlotInv, OneGroup
<1>6. NoStrandedCaller'
  BY DEF SlotInv, NoStrandedCaller
<1>7. Turn'
  BY <1>0, <1>1 DEF SlotInv, Turn
<1> QED BY <1>3, <1>4, <1>5, <1>6, <1>7 DEF Places

\* A turn moves a request from the queue to a group, and from there to its answer.
LEMMA TurnKeepsPlaces ==
    ASSUME PlaceTypes, SlotInv, Raft \/ SubmitTake \/ SubmitSeal \/ SubmitIndex \/ SubmitPublish
           \/ ConfirmReads \/ ApplyReady \/ SelectCompletions \/ EndTurn
    PROVE  Places'
<1>0. Raft => UNCHANGED <<registryVars, callerVars, pumpVars>>
  <2>1. Commit \/ Learn => UNCHANGED <<registryVars, callerVars, pumpVars>>
    BY DEF Commit, Learn
  <2>2. Elect \/ CommitNoop => UNCHANGED <<registryVars, callerVars, pumpVars>>
    BY DEF Elect, CommitNoop
  <2>3. Depose \/ StepDown => UNCHANGED <<registryVars, callerVars, pumpVars>>
    BY DEF Depose, StepDown
  <2>4. PeerFails => UNCHANGED <<registryVars, callerVars, pumpVars>>
    BY DEF PeerFails
  <2>5. \A c \in Reads : QuorumAck(c) => UNCHANGED <<registryVars, callerVars, pumpVars>>
    BY ZenonT(60) DEF QuorumAck
  <2> QED BY <2>1, <2>2, <2>3, <2>4, <2>5 DEF Raft
<1>1. CASE Raft
  BY <1>0, <1>1, SamePlaces DEF registryVars, callerVars, pumpVars, SlotInv, Turn
<1>6. CASE ConfirmReads \/ ApplyReady
  <2>1. \A c \in Reads : ~Picked(c)
    BY <1>6 DEF ConfirmReads, ApplyReady, SlotInv, Turn
  <2>2. /\ UNCHANGED <<queued, held, active, members, reserved, closing, chosen, ticket, reply>>
        /\ pc' \in {"apply", "complete"}
    BY <1>6 DEF ConfirmReads, ApplyReady, registryVars, callerVars
  <2> QED BY <2>1, <2>2, SamePlaces
<1>8. CASE EndTurn
  <2>1. \A c \in Reads : ~Picked(c)
    BY <1>8 DEF EndTurn, SlotInv, Turn, Picked
  <2>2. /\ UNCHANGED <<queued, held, active, members, reserved, closing, chosen, ticket, reply>>
        /\ pc' \in {"stopped", "idle"}
    BY <1>8 DEF EndTurn, registryVars, callerVars
  <2> QED BY <2>1, <2>2, SamePlaces
<1> USE DEF Places, SlotInv, Placed, Grouped, Picked, Local, OneGroup, Turn, NoStrandedCaller,
            PlaceTypes, PumpState, Replies, raftVars, registryVars, callerVars, pumpVars
<1>2. CASE SubmitTake
  BY SMTT(30), <1>2 DEF SubmitTake
<1>3. CASE SubmitSeal
  BY SMTT(30), <1>3 DEF SubmitSeal, Sent, Release
<1>4. CASE SubmitIndex
  BY SMT, <1>4 DEF SubmitIndex, Sent, Release
<1>5. CASE SubmitPublish
  <2>1. CASE stopped
    BY SMTT(30), <1>5, <2>1 DEF SubmitPublish, Sent, Release
  <2>2. CASE ~stopped /\ admission = "admitted"
    <3>1. head \in held /\ head \in Reads /\ head \notin active /\ members[head] = {}
      BY <2>2
    <3>2. /\ UNCHANGED <<queued, closing, chosen, ticket, reserved, reply>> /\ pc' = "drain"
          /\ held' = {} /\ active' = active \cup {head} /\ pc = "publish"
          /\ members' = [members EXCEPT ![head] = held]
      BY ZenonT(60), <1>5, <2>2 DEF SubmitPublish
    <3>3. \A c, g \in Reads : c \in members'[g] <=> c \in members[g] \/ (g = head /\ c \in held)
      BY SMTT(30), <3>1, <3>2
    <3>4. \A c \in Reads : Grouped(c)' <=> Grouped(c) \/ c \in held
      BY SMTT(30), <3>1, <3>3
    <3>5. ASSUME NEW c \in Reads PROVE Placed(c)'
      BY SMTT(30), <3>2, <3>4
    <3>6. OneGroup'
      BY SMTT(30), <3>3
    <3>7. Turn' /\ NoStrandedCaller'
      BY SMTT(30), <3>1, <3>2 DEF Unregistered
    <3> QED BY <3>5, <3>6, <3>7
  <2>3. CASE ~stopped /\ admission = "deferred"
    BY SMTT(30), <1>5, <2>3 DEF SubmitPublish
  <2>4. CASE ~stopped /\ admission = "none"
    BY SMTT(30), <1>5, <2>4 DEF SubmitPublish
  <2> QED BY ZenonT(60), <2>1, <2>2, <2>3, <2>4 DEF SubmitPublish
<1>7. CASE SelectCompletions
  <2> DEFINE Goes(c) == \E g \in active : c \in members[g]
                          /\ (Covered(g) \/ ticket[c] # "open" \/ c \in late)
  <2>1. \A c, g \in Reads : c \in members'[g] <=> c \in members[g] /\ ~Goes(c)
    BY SMTT(30), <1>7 DEF SelectCompletions
  <2>2. \A c \in Reads : Picked(c)' <=> Goes(c)
    BY SMTT(30), <1>7 DEF SelectCompletions
  <2>3. \A c \in Reads : Grouped(c) <=> Grouped(c)' \/ Goes(c)
    BY SMTT(30), <2>1
  <2>4. UNCHANGED <<queued, held, closing, ticket, reserved, reply, late>> /\ pc' = "finish"
        /\ active' \subseteq active /\ pc = "complete" /\ admission' = admission
    BY ZenonT(60), <1>7 DEF SelectCompletions
  <2> HIDE DEF Goes
  <2>5. ASSUME NEW c \in Reads PROVE Placed(c)'
    BY SMTT(30), <2>1, <2>2, <2>3, <2>4
  <2>6. OneGroup'
    BY SMTT(30), <2>1
  <2>7. Turn' /\ NoStrandedCaller'
    BY SMTT(30), <2>4
  <2> QED BY <2>5, <2>6, <2>7
<1> QED BY ZenonT(60), <1>1, <1>2, <1>3, <1>4, <1>5, <1>6, <1>7, <1>8

\* Closing moves every request to the closing set; an answer ends its stay.
LEMMA AnswersKeepPlaces ==
    ASSUME PlaceTypes, SlotInv, \/ Poison \/ Close
           \/ \E c \in Reads : FinishSelected(c) \/ FinishClosing(c)
    PROVE  Places'
<1>3. ASSUME NEW c \in Reads, FinishSelected(c) PROVE Places'
  <2>1. /\ UNCHANGED <<queued, held, active, members, ticket, pc, admission, closing>>
        /\ reserved' = reserved \ {c} /\ chosen[c] # "none"
        /\ chosen' = [chosen EXCEPT ![c] = "none"] /\ reply' = Sent({c}, chosen[c])
    BY <1>3 DEF FinishSelected, Release
  <2>2. /\ \A d \in Reads \ {c} : reply'[d] = reply[d]
        /\ ticket[c] = "open" => reply'[c] # "none"
    BY SMT, <2>1 DEF Sent
  <2> QED BY <2>1, <2>2, AnswerSent DEF Picked
<1>4. ASSUME NEW c \in Reads, FinishClosing(c) PROVE Places'
  <2>1. /\ UNCHANGED <<queued, held, active, members, ticket, pc, admission, chosen>>
        /\ reserved' = reserved \ {c} /\ c \in closing /\ closing' = closing \ {c}
        /\ reply' = Sent({c}, "err")
    BY <1>4 DEF FinishClosing, Release
  <2>2. /\ \A d \in Reads \ {c} : reply'[d] = reply[d]
        /\ ticket[c] = "open" => reply'[c] # "none"
    BY SMT, <2>1 DEF Sent
  <2> QED BY <2>1, <2>2, AnswerSent
<1> USE DEF Places, SlotInv, Placed, Grouped, Picked, Local, OneGroup, Turn, NoStrandedCaller,
            PlaceTypes, PumpState, Replies, raftVars, registryVars, callerVars, pumpVars
<1>1. CASE Poison
  BY SMTT(30), <1>1 DEF Poison, CloseRegistry
<1>2. CASE Close
  BY SMTT(30), <1>2 DEF Close, CloseRegistry
<1> QED BY ZenonT(60), <1>1, <1>2, <1>3, <1>4

\* A caller takes and gives back its own slot only.
LEMMA CallerKeepsPlaces ==
    ASSUME PlaceTypes, SlotInv, NEW d \in Reads, Caller(d)
    PROVE  Places'
<1>1. ASSUME NEW c \in Reads, RegisterRefused(c) PROVE Places'
  BY <1>1, TicketClosed DEF RegisterRefused, registryVars, pumpVars
<1>6. ASSUME NEW c \in Reads, DeadlinePasses(c) PROVE Places'
  BY <1>6, SamePlaces DEF DeadlinePasses, registryVars, pumpVars, SlotInv, Turn
<1>7. ASSUME NEW c \in Reads, Receive(c) PROVE Places'
  <2>1. reply \in [Reads -> Replies]
    BY DEF PlaceTypes
  <2>2. reply[c] \in {"ok", "err"} /\ \A x \in Reads \ {c} : reply'[x] = reply[x]
    BY SMT, <1>7, <2>1 DEF Receive, Answered, Replies
  <2> QED BY <1>7, <2>2, TicketClosed DEF Receive, Answered, registryVars, pumpVars
<1>8. ASSUME NEW c \in Reads, Abandon(c) PROVE Places'
  <2>1. reply \in [Reads -> Replies]
    BY DEF PlaceTypes
  <2>2. \A x \in Reads \ {c} : reply'[x] = reply[x]
    BY SMT, <1>8, <2>1 DEF Abandon, Answered
  <2> QED BY <1>8, <2>2, TicketClosed DEF Abandon, Answered, registryVars, pumpVars
<1> USE DEF Places, SlotInv, Placed, Grouped, Picked, Local, OneGroup, Turn, NoStrandedCaller,
            PlaceTypes, PumpState, Replies, raftVars, registryVars, callerVars, pumpVars
<1>2. ASSUME NEW c \in Reads, Register(c) PROVE Places'
  BY SMTT(30), <1>2 DEF Register, Admit
<1>3. ASSUME NEW c \in Reads, ReserveLocal(c) PROVE Places'
  BY SMTT(30), <1>3 DEF ReserveLocal, Admit
<1>4. ASSUME NEW c \in Reads, SubmitLocal(c) PROVE Places'
  BY SMTT(30), <1>4 DEF SubmitLocal
<1>5. ASSUME NEW c \in Reads, DropLocal(c) PROVE Places'
  BY SMTT(30), <1>5 DEF DropLocal, Answered
<1> QED BY ZenonT(60), <1>1, <1>2, <1>3, <1>4, <1>5, <1>6, <1>7, <1>8 DEF Caller

\* Every step leaves each request with at most one holder, a reserved one with
\* exactly one, and no waiting caller without one.
LEMMA StepKeepsPlaces == IInv /\ SlotInv /\ [Next]_vars => Places'
<1> SUFFICES ASSUME IInv, SlotInv, [Next]_vars PROVE Places'
  OBVIOUS
<1>1. CASE UNCHANGED vars
  BY <1>1, SamePlaces DEF vars, registryVars, callerVars, pumpVars, SlotInv, Turn
<1>2. PlaceTypes
  BY DEF PlaceTypes, Unregistered, IInv, TypeOK, NotYetRegistered
<1>3. CASE Next
  BY <1>2, <1>3, TurnKeepsPlaces, AnswersKeepPlaces, CallerKeepsPlaces DEF Next, Pump
<1> QED BY <1>1, <1>3

\* Every step keeps the two counters equal to the sets they count.
LEMMA StepKeepsCounts == IInv /\ SlotInv /\ [Next]_vars => Counted'
<1> SUFFICES ASSUME IInv, SlotInv, [Next]_vars PROVE Counted'
  OBVIOUS
<1> DEFINE Locals == {c \in Reads : Local(c)}
<1>0. /\ reserved \in SUBSET Reads /\ Locals \in SUBSET Reads
      /\ inFlight = Cardinality(reserved) /\ inFlight <= MaxRequests
      /\ localReserved = Cardinality(Locals)
      /\ MaxRequests \in Nat /\ inFlight \in Nat
  BY ReadPathAssumption, FiniteSubset DEF IInv, TypeOK, SlotInv, Counted
<1>1. ASSUME UNCHANGED <<reserved, inFlight, localReserved>>, Locals' = Locals PROVE Counted'
  BY <1>0, <1>1 DEF Counted
<1>2. ASSUME NEW S \in SUBSET reserved, Release(S), localReserved' = localReserved,
             Locals' = Locals
      PROVE  Counted'
  <2>1. /\ Cardinality(reserved \ S) = Cardinality(reserved) - Cardinality(S)
        /\ Cardinality(S) \in Nat
    BY <1>0, CountWithout, FiniteSubset
  <2>2. reserved' = reserved \ S /\ inFlight' = inFlight - Cardinality(S)
    BY <1>2 DEF Release
  <2> QED BY SMTT(30), <1>0, <1>2, <2>1, <2>2 DEF Counted
<1>3. CASE Raft
  BY <1>1, <1>3 DEF Raft, Commit, Learn, Elect, CommitNoop, Depose, StepDown, PeerFails,
     QuorumAck, registryVars, callerVars, Local
<1>4. CASE SubmitTake \/ ConfirmReads \/ ApplyReady \/ SelectCompletions \/ EndTurn
  BY <1>1, <1>4 DEF SubmitTake, ConfirmReads, ApplyReady, SelectCompletions, EndTurn,
     registryVars, callerVars, Local
<1>5. CASE Poison \/ Close
  BY <1>1, <1>5 DEF Poison, Close, CloseRegistry, callerVars, Local
<1>6. ASSUME NEW c \in Reads, RegisterRefused(c) \/ DeadlinePasses(c) \/ Receive(c) \/ Abandon(c)
      PROVE  Counted'
  <2>1. UNCHANGED <<reserved, inFlight, localReserved>>
    BY <1>6 DEF RegisterRefused, DeadlinePasses, Receive, Abandon, registryVars
  <2>2. Locals' = Locals
    BY SMT, <1>6 DEF RegisterRefused, DeadlinePasses, Receive, Abandon, Answered, Local,
       IInv, TypeOK, Replies
  <2> QED BY <1>1, <2>1, <2>2
<1>7. CASE SubmitSeal
  <2>1. PICK S \in SUBSET held : Release(S)
    BY <1>7 DEF SubmitSeal
  <2>2. S \in SUBSET reserved
    BY SMT DEF SlotInv, Placed, IInv, TypeOK
  <2> QED BY <1>2, <1>7, <2>1, <2>2 DEF SubmitSeal, Local
<1>8. CASE SubmitIndex \/ SubmitPublish
  <2>1. held \in SUBSET reserved
    BY SMT DEF SlotInv, Placed, IInv, TypeOK
  <2>2. Locals' = Locals /\ localReserved' = localReserved
    BY <1>8 DEF SubmitIndex, SubmitPublish, Local
  <2>3. Release(held) \/ UNCHANGED <<reserved, inFlight>>
    BY <1>8 DEF SubmitIndex, SubmitPublish
  <2> QED BY <1>1, <1>2, <2>1, <2>2, <2>3
<1>9. ASSUME NEW c \in Reads, FinishSelected(c) \/ FinishClosing(c) PROVE Counted'
  <2>1. {c} \in SUBSET reserved
    BY SMT, <1>9 DEF FinishSelected, FinishClosing, SlotInv, Placed, Picked
  <2>2. Locals' = Locals /\ localReserved' = localReserved /\ Release({c})
    BY <1>9 DEF FinishSelected, FinishClosing, Local
  <2> QED BY <1>2, <2>1, <2>2
<1>10. ASSUME NEW c \in Reads, Register(c) PROVE Counted'
  <2>1. Locals' = Locals /\ localReserved' = localReserved
    BY SMT, <1>10 DEF Register, Admit, Local, IInv, TypeOK
  <2>2. c \notin reserved /\ reserved' = reserved \cup {c} /\ inFlight' = inFlight + 1
        /\ inFlight < MaxRequests
    BY <1>10 DEF Register, Admit
  <2>3. Cardinality(reserved') = Cardinality(reserved) + 1
    BY <1>0, <2>2, CountOne
  <2> QED BY SMTT(30), <1>0, <2>1, <2>2, <2>3 DEF Counted
<1>11. ASSUME NEW c \in Reads, ReserveLocal(c) PROVE Counted'
  <2>1. Locals' = Locals \cup {c} /\ c \notin Locals /\ localReserved' = localReserved + 1
    BY SMT, <1>11 DEF ReserveLocal, Admit, Local, IInv, TypeOK
  <2>2. c \notin reserved /\ reserved' = reserved \cup {c} /\ inFlight' = inFlight + 1
        /\ inFlight < MaxRequests
    BY <1>11 DEF ReserveLocal, Admit
  <2>3. Cardinality(reserved') = Cardinality(reserved) + 1
        /\ Cardinality(Locals') = Cardinality(Locals) + 1
    BY <1>0, <2>1, <2>2, CountOne
  <2> QED BY SMTT(30), <1>0, <2>1, <2>2, <2>3 DEF Counted
<1>12. ASSUME NEW c \in Reads, SubmitLocal(c) PROVE Counted'
  <2>1. Locals' = Locals \ {c} /\ c \in Locals /\ localReserved' = localReserved - 1
    BY SMT, <1>12 DEF SubmitLocal, Local, IInv, TypeOK
  <2>2. reserved' = reserved /\ inFlight' = inFlight
    BY <1>12 DEF SubmitLocal
  <2>3. Cardinality(Locals') = Cardinality(Locals) - 1
    BY <1>0, <2>1, CountOne
  <2> QED BY SMTT(30), <1>0, <2>1, <2>2, <2>3 DEF Counted
<1>13. ASSUME NEW c \in Reads, DropLocal(c) PROVE Counted'
  <2>1. Locals' = Locals \ {c} /\ c \in Locals /\ localReserved' = localReserved - 1
    BY SMT, <1>13 DEF DropLocal, Answered, Local, IInv, TypeOK
  <2>2. c \in reserved /\ reserved' = reserved \ {c} /\ inFlight' = inFlight - 1
    BY <1>13 DEF DropLocal, SlotInv, Placed, Local
  <2>3. Cardinality(reserved') = Cardinality(reserved) - 1
        /\ Cardinality(Locals') = Cardinality(Locals) - 1
    BY <1>0, <2>1, <2>2, CountOne
  <2> QED BY SMTT(30), <1>0, <2>1, <2>2, <2>3 DEF Counted
<1>14. CASE UNCHANGED vars
  BY <1>1, <1>14 DEF vars, registryVars, callerVars, Local
<1> QED
  BY <1>3, <1>4, <1>5, <1>6, <1>7, <1>8, <1>9, <1>10, <1>11, <1>12, <1>13, <1>14
     DEF Next, Pump, Caller

\* Where every request is and what the counters count, in every reachable state.
THEOREM SlotInvariant == Spec => []SlotInv
<1>1. Init => SlotInv
  <2> SUFFICES ASSUME Init PROVE SlotInv
    OBVIOUS
  <2>1. {c \in Reads : Local(c)} = {} /\ reserved = {}
    BY DEF Init, Local
  <2>2. Counted
    BY SMT, <2>1, FS_EmptySet, ReadPathAssumption DEF Init, Counted
  <2> QED BY SMT, <2>2 DEF Init, SlotInv, Placed, Grouped, Picked, Local, OneGroup, Turn,
             NoStrandedCaller
<1>2. IInv /\ SlotInv /\ [Next]_vars => SlotInv'
  BY StepKeepsPlaces, StepKeepsCounts DEF SlotInv, Places
<1> QED BY <1>1, <1>2, ReadPathInvariant, PTL DEF Spec

\* Being in a set counts one, not being in it counts nothing.
LEMMA CountsMembership ==
    \A c, S : Cardinality({c} \cap S) = IF c \in S THEN 1 ELSE 0
<1> SUFFICES ASSUME NEW c, NEW S PROVE Cardinality({c} \cap S) = IF c \in S THEN 1 ELSE 0
  OBVIOUS
<1>1. CASE c \in S
  <2>1. {c} \cap S = {c}
    BY <1>1
  <2> QED BY <1>1, <2>1, FS_Singleton
<1>2. CASE c \notin S
  <2>1. {c} \cap S = {}
    BY ZenonT(60), <1>2
  <2> QED BY <1>2, <2>1, FS_EmptySet
<1> QED BY <1>1, <1>2

\* A request with exactly one place has exactly one holder.
LEMMA OneHolder ==
    ASSUME IInv, SlotInv, NEW c \in Reads
    PROVE  Holders(c) = IF c \in reserved THEN 1 ELSE 0
<1>1. /\ Cardinality({c} \cap queued) = IF c \in queued THEN 1 ELSE 0
      /\ Cardinality({c} \cap held) = IF c \in held THEN 1 ELSE 0
      /\ Cardinality({c} \cap closing) = IF c \in closing THEN 1 ELSE 0
  BY CountsMembership
<1>2. Cardinality({x \in {c} : chosen[x] # "none"}) = IF Picked(c) THEN 1 ELSE 0
  <2>1. {x \in {c} : chosen[x] # "none"} = {c} \cap {x \in Reads : Picked(x)}
    BY DEF Picked
  <2> QED BY <2>1, CountsMembership
<1>3. Cardinality({x \in {c} : ticket[x] = "local"}) = IF Local(c) THEN 1 ELSE 0
  <2>1. {x \in {c} : ticket[x] = "local"} = {c} \cap {x \in Reads : Local(x)}
    BY DEF Local
  <2> QED BY <2>1, CountsMembership
<1>4. Cardinality({g \in active : c \in members[g]}) = IF Grouped(c) THEN 1 ELSE 0
  <2>1. CASE Grouped(c)
    <3>1. PICK g \in Reads : c \in members[g]
      BY <2>1 DEF Grouped
    <3>2. {h \in active : c \in members[h]} = {g}
      BY <3>1 DEF IInv, TypeOK, PumpState, SlotInv, OneGroup
    <3> QED BY <2>1, <3>2, FS_Singleton
  <2>2. CASE ~Grouped(c)
    <3>1. {h \in active : c \in members[h]} = {}
      BY <2>2 DEF Grouped, IInv, TypeOK
    <3> QED BY <2>2, <3>1, FS_EmptySet
  <2> QED BY <2>1, <2>2
<1>5. Placed(c)
  BY DEF SlotInv
<1> QED BY SMT, <1>1, <1>2, <1>3, <1>4, <1>5 DEF Holders, Placed

\* Every slot the registry counts has exactly one holder, in every interleaving of
\* callers, pump turns, expiry, cancellation, stop and poisoning, and the admission
\* bound is never passed.
THEOREM SlotsAccounted == Spec => []SlotAccounting
<1>1. IInv /\ SlotInv => SlotAccounting
  BY OneHolder DEF SlotInv, Counted, Local, SlotAccounting
<1> QED BY <1>1, ReadPathInvariant, SlotInvariant, PTL

\* Nobody forgets a caller that still waits for its answer.
THEOREM CallersKept == Spec => []NoStrandedCaller
<1>1. SlotInv => NoStrandedCaller
  BY DEF SlotInv
<1> QED BY <1>1, SlotInvariant, PTL
=============================================================================
