---------------------------- MODULE MCReadPath ----------------------------
EXTENDS ReadPath, TLC
CONSTANTS r1, r2
MCReads == {r1, r2}
ReadSymmetry == Permutations(MCReads)
=============================================================================
