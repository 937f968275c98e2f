------------------------------ MODULE MCFeatures ------------------------------
\* TLC instances of Features: requests of at most two features, where every chain
\* of requirements and every pair of chains occurs, and of all but at most one.
EXTENDS Features, FiniteSets

MCRequests == {S \in SUBSET Names : Cardinality(S) <= 2 \/ Cardinality(S) >= 13}
=============================================================================
