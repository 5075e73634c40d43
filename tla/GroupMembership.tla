--------------------------- MODULE GroupMembership ---------------------------
(* What the replica plans promise the clients of one data group about its   *)
(* voters, whatever plans, operators, elections and losses do: a store votes *)
(* only after it serves a verified image, it leaves only by a committed     *)
(* decision, never below the voter floor, and a store the group was created *)
(* on never comes back.                                                     *)
EXTENDS Integers, FiniteSets

CONSTANTS
    Nodes,      \* the stores
    Initial,    \* the stores of the group's creation row
    MinVoters   \* the voter floor

VARIABLES
    voters,     \* the applied voters
    ready,      \* stores that serve an image the catalog has evidence of
    decided     \* stores a removal decision names

membership == <<voters, ready, decided>>

Init == voters = Initial /\ ready = {} /\ decided = {}

Prepare(n) ==
    /\ ready' = ready \cup {n}
    /\ UNCHANGED <<voters, decided>>

Decide(n) ==
    /\ n \notin decided
    /\ decided' = decided \cup {n}
    /\ UNCHANGED <<voters, ready>>

Join(n) ==
    /\ n \in ready \ Initial
    /\ voters' = voters \cup {n}
    /\ UNCHANGED <<ready, decided>>

Leave(n) ==
    /\ n \in voters \cap decided
    /\ Cardinality(voters) > MinVoters
    /\ voters' = voters \ {n}
    /\ UNCHANGED <<ready, decided>>

Next == \E n \in Nodes : Prepare(n) \/ Decide(n) \/ Join(n) \/ Leave(n)

Spec == Init /\ [][Next]_membership
==============================================================================
