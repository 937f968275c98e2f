------------------------------- MODULE PostGate -------------------------------
(***************************************************************************)
(* What the visibility checks of a post promise a reader, whatever changes *)
(* while the request is under way: an answer is given only if each ground  *)
(* for it held at some moment of the request.  The grounds need not have   *)
(* held together, and nothing is promised about the moment of the answer.  *)
(***************************************************************************)
CONSTANTS Tasks, Grounds

VARIABLES status,  \* task -> "idle", "asking" or "answered"
          open,    \* task -> the grounds that hold now for what it asks
          seen     \* task -> the grounds that held at a moment of its request

vars == <<status, open, seen>>

Init == /\ status = [t \in Tasks |-> "idle"]
        /\ open \in [Tasks -> SUBSET Grounds]
        /\ seen = [t \in Tasks |-> {}]

\* Users, authors and moderators change what holds at any time.
World == open' \in [Tasks -> SUBSET Grounds]

Ask(t) == /\ status[t] = "idle"
          /\ status' = [status EXCEPT ![t] = "asking"]
          /\ UNCHANGED seen
          /\ World

See(t, g) == /\ status[t] = "asking"
             /\ seen' = [seen EXCEPT ![t] = @ \union {g}]
             /\ g \in open[t]
             /\ UNCHANGED <<status, open>>

Answer(t) == /\ status[t] = "asking"
             /\ seen[t] = Grounds
             /\ status' = [status EXCEPT ![t] = "answered"]
             /\ seen' = [seen EXCEPT ![t] = {}]
             /\ World

\* A task ends, refused or answered; a restart ends them all.
End(S) == /\ status' = [t \in Tasks |-> IF t \in S THEN "idle" ELSE status[t]]
          /\ seen' = [t \in Tasks |-> IF t \in S THEN {} ELSE seen[t]]
          /\ World

Next == \/ \E S \in SUBSET Tasks : End(S)
        \/ \E t \in Tasks : Ask(t) \/ Answer(t) \/ \E g \in Grounds : See(t, g)

Spec == Init /\ [][Next]_vars
=============================================================================
