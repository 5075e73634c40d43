--------------------------- MODULE MCRangeReshape ---------------------------
(* Bounded instances of RangeReshape.                                      *)
EXTENDS RangeReshape, TLC

CONSTANTS n1, n2, n3

(* Nodes that never lag are interchangeable.                               *)
Interchangeable == Permutations(Nodes \ Laggards)

(* Text keys: `printable` leaves them alone.                               *)
TextKeys == [k \in 1..MaxKey |-> k]

(* A binary key's UTF-8 lossy form sorts elsewhere: here past the next key. *)
BinaryAbove == [k \in 1..MaxKey |-> IF k < MaxKey THEN k + 1 ELSE k]
============================================================================
