---------------------------- MODULE MCCaseEvidence ----------------------------
\* TLC instance of CaseEvidence: two requests on one target.
EXTENDS CaseEvidence, TLC

Symmetry == Permutations(Tasks)
=============================================================================
