--------------------------- MODULE MCLeaderLease ---------------------------
(* Bounded instances of LeaderLease.                                        *)
EXTENDS LeaderLease, TLC

(* Nothing tells one of the other voters from another.                      *)
Voters == Permutations(Nodes \ {First})
============================================================================
