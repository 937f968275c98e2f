------------------------------ MODULE MCComments ------------------------------
\* TLC instances of Comments: enough ids for a chain of three.
EXTENDS Comments
=============================================================================
