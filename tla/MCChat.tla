-------------------------------- MODULE MCChat --------------------------------
\* TLC instances of Chat: three users, so that a conversation of two and one of
\* three differ.  The second blocks the first, is suspended, and
\* comes and goes in a group.
EXTENDS Chat, TLC

MCUsers == {1, 2, 3}
MCBlockEdges == {<<2, 1>>}
MCSuspects == {2}
MCGroupRosters == {{1, 3}, {1, 2, 3}}
MCTwoUsers == {1, 2}
MCTwoRosters == {{1, 2}}
Symmetry == Permutations(Tasks) \union Permutations(Conversations)
=============================================================================
