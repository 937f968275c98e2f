--------------------------- MODULE MCRelationships ---------------------------
\* TLC instances of Relationships: two users, who are both the actor and the
\* counterpart of every call, and two tasks in flight.
EXTENDS Relationships

MCUsers == {1, 2}
=============================================================================
