------------------------------ MODULE MCReports ------------------------------
\* TLC instances of Reports: one key, two contents that may be sent under it, and a
\* pool that two reports exhaust.
EXTENDS Reports
=============================================================================
