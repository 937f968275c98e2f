----------------------- MODULE MCModerationAuthority -----------------------
\* TLC instances of ModerationAuthority: two users who may moderate each other
\* and themselves, and at most one content and one restriction.
EXTENDS ModerationAuthority, TLC

MCUsers == {1, 2}
TaskSymmetry == Permutations(Tasks)
=============================================================================
