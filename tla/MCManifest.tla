---------------------------- MODULE MCManifest ----------------------------
EXTENDS Manifest

CONSTANTS n1, n2

MCNodes == {n1, n2}
\* At most one crash: by symmetry it does not matter whose.
MCCrashing == {n1}
=============================================================================
