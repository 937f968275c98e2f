------------------------------- MODULE MCGroups -------------------------------
\* TLC instances of Groups: three users, so that an owner, the next owner and
\* a bystander differ, and a member cap that two of them can reach.
EXTENDS Groups, TLC

TaskSymmetry == Permutations(Tasks)
UserSymmetry == Permutations(Users)
Symmetry == TaskSymmetry \union UserSymmetry
=============================================================================
