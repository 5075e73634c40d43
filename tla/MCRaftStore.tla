---------------------------- MODULE MCRaftStore ----------------------------
EXTENDS RaftStore

\* The first entry of term 1 and the second of any term change the membership.
MCConfChanges == {<<1, 1>>, <<2, 1>>, <<2, 2>>}

=============================================================================
