---------------------------- MODULE CommentsProofs ----------------------------
(***************************************************************************)
(* Proofs about Comments, for every set of comment ids and tasks.          *)
(*                                                                         *)
(* Rooted is the inductive invariant: a row has at most one holder, so     *)
(* what a reply or a deletion has found of the row it holds stays true,    *)
(* and a cascade that has taken every row has no rival left.               *)
(***************************************************************************)
EXTENDS Comments, TLAPS

Holding == {"children", "remove"}

\* What the position of a task says of its call.
CallsFit ==
    \A t \in Tasks :
        /\ pc[t] # "idle" => call[t] \in Calls
        /\ pc[t] = "insert" => call[t].op \in {"comment", "reply"}
        /\ pc[t] \in Holding => call[t].op = "delete"
        /\ pc[t] # "cascade" => taken[t] = {}

\* Task t holds the row of comment c.
Holds(t, c) == \/ pc[t] \in Holding \union {"insert"} /\ Target(t) = c
               \/ c \in taken[t]

OneHolder == \A s, t \in Tasks : \A c \in Comments : Holds(s, c) /\ Holds(t, c) => s = t

DeletedStays == \A t \in Tasks : pc[t] \in Holding => Target(t) \in live

CascadeAlone == \A t \in Tasks : pc[t] = "cascade" =>
                    /\ posted
                    /\ \A s \in Tasks \ {t} : pc[s] # "cascade"

RowsUsed == CT!Rows \subseteq used

CountedAnswered == \A t \in Tasks : pc[t] = "remove" /\ counted[t] => CT!Answered(Target(t))

Rooted == /\ TypeOK
          /\ CallsFit
          /\ OneHolder
          /\ DeletedStays
          /\ AnsweredCommentStays
          /\ CascadeAlone
          /\ RowsUsed
          /\ CountedAnswered
          /\ CountStillTrue
          /\ ParentStands

-----------------------------------------------------------------------------
(* Facts about calls and rows.                                             *)

\* A reply or a deletion names a comment, the other calls none.
LEMMA CallFields ==
    ASSUME NEW c \in Calls
    PROVE  /\ c.op \in {"comment", "reply", "delete", "deletePost"}
           /\ c.op \in {"reply", "delete"} => c.target \in Comments
           /\ c.op \in {"comment", "deletePost"} => c.target = NoComment
BY DEF Calls

\* Nobody else holds a row that is free for t.
LEMMA FreeRow ==
    ASSUME NEW t \in Tasks, NEW c, ~RowBusy(c, t)
    PROVE  \A s \in Tasks : Holds(s, c) => s = t
BY DEF RowBusy, Holds, Holding

-----------------------------------------------------------------------------
(* Rooted is inductive.                                                    *)

\* It holds of a new post.
LEMMA RootedInit == Init => Rooted
BY NoCommentAssumption DEF Init, CT!Init, Rooted, TypeOK, CallsFit, OneHolder, Holds, Holding,
   DeletedStays, AnsweredCommentStays, CascadeAlone, RowsUsed, CountedAnswered, CountStillTrue,
   ParentStands, CT!Rows, Steps

\* What is left of Rooted, without the committed rows, when a task returns.
LEMMA ReturnKeepsControl ==
    ASSUME TypeOK, CallsFit, OneHolder, NEW t \in Tasks, Return(t)
    PROVE  /\ pc' \in [Tasks -> Steps]
           /\ call' \in [Tasks -> Calls \union {NoCall}]
           /\ counted' \in [Tasks -> BOOLEAN]
           /\ taken' \in [Tasks -> SUBSET Comments]
           /\ CallsFit' /\ OneHolder'
           /\ pc'[t] = "idle"
           /\ \A s \in Tasks \ {t} : /\ pc'[s] = pc[s] /\ call'[s] = call[s]
                                     /\ counted'[s] = counted[s] /\ taken'[s] = taken[s]
<1> USE DEF TypeOK, Return, Goto
<1>1. /\ pc' \in [Tasks -> Steps]
      /\ call' \in [Tasks -> Calls \union {NoCall}]
      /\ counted' \in [Tasks -> BOOLEAN]
      /\ taken' \in [Tasks -> SUBSET Comments]
  BY DEF Steps
<1>2. /\ pc'[t] = "idle" /\ taken'[t] = {}
      /\ \A s \in Tasks \ {t} : /\ pc'[s] = pc[s] /\ call'[s] = call[s]
                                /\ counted'[s] = counted[s] /\ taken'[s] = taken[s]
  OBVIOUS
<1> HIDE DEF TypeOK, Return, Goto
<1>3. CallsFit'
  BY <1>2 DEF CallsFit, Holding
<1>4. ASSUME NEW s \in Tasks, NEW c, Holds(s, c)' PROVE Holds(s, c)
  BY <1>2, <1>4 DEF Holds, Holding, Target
<1>5. OneHolder'
  BY <1>4 DEF OneHolder
<1> QED BY <1>1, <1>2, <1>3, <1>5

\* A task that returns without a change keeps Rooted.
LEMMA ReturnKeepsRooted ==
    ASSUME Rooted, NEW t \in Tasks, Return(t), UNCHANGED tree
    PROVE  Rooted'
<1>1. /\ pc' \in [Tasks -> Steps]
      /\ call' \in [Tasks -> Calls \union {NoCall}]
      /\ counted' \in [Tasks -> BOOLEAN]
      /\ taken' \in [Tasks -> SUBSET Comments]
      /\ CallsFit' /\ OneHolder'
      /\ pc'[t] = "idle"
      /\ \A s \in Tasks \ {t} : /\ pc'[s] = pc[s] /\ call'[s] = call[s]
                                /\ counted'[s] = counted[s] /\ taken'[s] = taken[s]
  BY ReturnKeepsControl DEF Rooted
<1>2. TypeOK' /\ RowsUsed' /\ ParentStands'
  BY <1>1 DEF Rooted, TypeOK, RowsUsed, ParentStands, tree, CT!Rows
<1>3. DeletedStays' /\ AnsweredCommentStays'
  BY <1>1 DEF Rooted, DeletedStays, AnsweredCommentStays, tree, Target, Holding
<1>4. CascadeAlone'
  BY <1>1 DEF Rooted, CascadeAlone, tree
<1>5. CountedAnswered' /\ CountStillTrue'
  BY <1>1 DEF Rooted, CountedAnswered, CountStillTrue, tree, Target, CT!Answered,
     CT!Children, CT!Rows
<1> QED BY <1>1, <1>2, <1>3, <1>4, <1>5 DEF Rooted

\* A step that changes no row of the tree and no position of another task.
LEMMA BeginKeepsRooted ==
    ASSUME Rooted, NEW t \in Tasks, NEW c \in Calls, Begin(t, c)
    PROVE  Rooted'
<1> USE DEF Rooted, Begin, Goto, TypeOK
<1>1. /\ pc' \in [Tasks -> Steps] /\ call' \in [Tasks -> Calls \union {NoCall}]
      /\ call'[t] = c /\ pc[t] = "idle"
      /\ pc'[t] = IF c.op = "comment" THEN "insert" ELSE "ready"
      /\ \A s \in Tasks \ {t} : pc'[s] = pc[s] /\ call'[s] = call[s]
      /\ UNCHANGED <<tree, counted, taken>>
  BY DEF Steps
<1> HIDE DEF Begin, Goto
<1>2. TypeOK' /\ RowsUsed' /\ ParentStands'
  BY <1>1 DEF RowsUsed, ParentStands, tree, CT!Rows
<1>3. CallsFit'
  BY <1>1 DEF CallsFit, Holding
<1>4. OneHolder'
  <2>1. ASSUME NEW s \in Tasks, NEW x \in Comments, Holds(s, x)' PROVE Holds(s, x)
    BY <1>1, <2>1, CallFields, NoCommentAssumption DEF Holds, Holding, Target
  <2> QED BY <2>1 DEF OneHolder
<1>5. DeletedStays' /\ AnsweredCommentStays'
  BY <1>1 DEF DeletedStays, AnsweredCommentStays, tree, Target, Holding
<1>6. CascadeAlone'
  BY <1>1 DEF CascadeAlone, tree
<1>7. CountedAnswered' /\ CountStillTrue'
  BY <1>1 DEF CountedAnswered, CountStillTrue, tree, Target, CT!Answered, CT!Children, CT!Rows
<1> QED BY <1>2, <1>3, <1>4, <1>5, <1>6, <1>7

\* Taking the row of a live comment keeps Rooted.
LEMMA LockKeepsRooted ==
    ASSUME Rooted, NEW t \in Tasks, LockParent(t) \/ LockComment(t)
    PROVE  Rooted'
<1> DEFINE next == IF call[t].op = "reply" THEN "insert" ELSE "children"
<1> USE DEF Rooted, TypeOK
<1>1. /\ pc[t] = "ready" /\ call[t].op \in {"reply", "delete"}
      /\ Target(t) \in live /\ ~RowBusy(Target(t), t)
      /\ pc' = [pc EXCEPT ![t] = next]
      /\ UNCHANGED <<tree, call, counted, taken>>
  BY DEF LockParent, LockComment, Ready, Goto
<1>2. /\ pc' \in [Tasks -> Steps] /\ pc'[t] = next
      /\ \A s \in Tasks \ {t} : pc'[s] = pc[s]
  BY <1>1 DEF Steps
<1>3. TypeOK' /\ RowsUsed' /\ ParentStands'
  BY <1>1, <1>2 DEF RowsUsed, ParentStands, tree, CT!Rows
<1>4. CallsFit'
  BY <1>1, <1>2 DEF CallsFit, Holding
<1>5. OneHolder'
  <2>1. ASSUME NEW s \in Tasks, NEW x \in Comments, Holds(s, x)'
        PROVE  Holds(s, x) \/ (s = t /\ x = Target(t))
    BY <1>1, <1>2, <2>1 DEF Holds, Holding, Target
  <2>2. \A s \in Tasks : Holds(s, Target(t)) => s = t
    BY <1>1, FreeRow
  <2> QED BY <2>1, <2>2 DEF OneHolder
<1>6. DeletedStays' /\ AnsweredCommentStays'
  BY <1>1, <1>2 DEF DeletedStays, AnsweredCommentStays, tree, Target, Holding
<1>7. CascadeAlone'
  BY <1>1, <1>2 DEF CascadeAlone, tree
<1>8. CountedAnswered' /\ CountStillTrue'
  BY <1>1, <1>2 DEF CountedAnswered, CountStillTrue, tree, Target, CT!Answered, CT!Children,
     CT!Rows
<1> QED BY <1>3, <1>4, <1>5, <1>6, <1>7, <1>8

\* Counting the children keeps Rooted: what is counted is what is there.
LEMMA CountKeepsRooted ==
    ASSUME Rooted, NEW t \in Tasks, CountChildren(t)
    PROVE  Rooted'
<1> USE DEF Rooted, TypeOK
<1>1. /\ pc[t] = "children"
      /\ counted' = [counted EXCEPT ![t] = CT!Children(Target(t)) # {}]
      /\ pc' = [pc EXCEPT ![t] = "remove"]
      /\ UNCHANGED <<tree, call, taken>>
  BY DEF CountChildren, Goto
<1>2. /\ pc' \in [Tasks -> Steps] /\ counted' \in [Tasks -> BOOLEAN]
      /\ pc'[t] = "remove" /\ counted'[t] = (CT!Children(Target(t)) # {})
      /\ \A s \in Tasks \ {t} : pc'[s] = pc[s] /\ counted'[s] = counted[s]
  BY <1>1 DEF Steps
<1>3. TypeOK' /\ RowsUsed' /\ ParentStands'
  BY <1>1, <1>2 DEF RowsUsed, ParentStands, tree, CT!Rows
<1>4. CallsFit'
  BY <1>1, <1>2 DEF CallsFit, Holding
<1>5. OneHolder'
  <2>1. ASSUME NEW s \in Tasks, NEW x, Holds(s, x)' PROVE Holds(s, x)
    BY <1>1, <1>2, <2>1 DEF Holds, Holding, Target
  <2> QED BY <2>1 DEF OneHolder
<1>6. DeletedStays' /\ AnsweredCommentStays'
  BY <1>1, <1>2 DEF DeletedStays, AnsweredCommentStays, tree, Target, Holding
<1>7. CascadeAlone'
  BY <1>1, <1>2 DEF CascadeAlone, tree
<1>8. CT!Children(Target(t)) # {} => CT!Answered(Target(t))
  BY DEF CT!Children, CT!Answered, RowsUsed
<1>9. /\ UNCHANGED <<live, tombs, parent, used>>
      /\ \A s \in Tasks : Target(s)' = Target(s)
  BY <1>1 DEF tree, Target
<1>10. CountedAnswered'
  <2> SUFFICES ASSUME NEW s \in Tasks, pc'[s] = "remove", counted'[s]
               PROVE  CT!Answered(Target(s))
    BY <1>9 DEF CountedAnswered, CT!Answered
  <2>1. CASE s = t
    BY <2>1, <1>2, <1>8
  <2>2. CASE s # t
    BY <2>2, <1>2 DEF CountedAnswered
  <2> QED BY <2>1, <2>2
<1>11. CountStillTrue'
  <2> SUFFICES ASSUME NEW s \in Tasks, pc'[s] = "remove", ~counted'[s]
               PROVE  CT!Children(Target(s)) = {}
    BY <1>9 DEF CountStillTrue, CT!Children, CT!Rows
  <2>1. CASE s = t
    BY <2>1, <1>2
  <2>2. CASE s # t
    BY <2>2, <1>2 DEF CountStillTrue
  <2> QED BY <2>1, <2>2
<1> QED BY <1>3, <1>4, <1>5, <1>6, <1>7, <1>10, <1>11

\* Adding a comment keeps Rooted: its parent, if any, is held and alive.
LEMMA InsertKeepsRooted ==
    ASSUME Rooted, NEW t \in Tasks, Insert(t)
    PROVE  Rooted' /\ CT!Next
<1> USE DEF Rooted
<1>1. PICK c \in CT!Fresh : /\ live' = live \union {c}
                            /\ parent' = [parent EXCEPT ![c] = Target(t)]
                            /\ used' = used \union {c}
  BY DEF Insert
<1>2. /\ pc[t] = "insert" /\ posted /\ ~PostBusy(t) /\ UNCHANGED <<posted, tombs>>
      /\ Return(t)
  BY DEF Insert
<1>3. /\ pc' \in [Tasks -> Steps]
      /\ call' \in [Tasks -> Calls \union {NoCall}]
      /\ counted' \in [Tasks -> BOOLEAN]
      /\ taken' \in [Tasks -> SUBSET Comments]
      /\ CallsFit' /\ OneHolder'
      /\ pc'[t] = "idle"
      /\ \A s \in Tasks \ {t} : /\ pc'[s] = pc[s] /\ call'[s] = call[s]
                                /\ counted'[s] = counted[s] /\ taken'[s] = taken[s]
  BY <1>2, ReturnKeepsControl
<1>4. c \in Comments /\ c \notin used /\ c \notin CT!Rows
  BY <1>1 DEF CT!Fresh, RowsUsed
<1>5. Target(t) \in live \union {NoComment}
  BY <1>2, CallFields DEF CallsFit, AnsweredCommentStays, Target
<1>6. /\ parent'[c] = Target(t)
      /\ \A d \in Comments \ {c} : parent'[d] = parent[d]
      /\ CT!Rows' = CT!Rows \union {c}
      /\ CT!Rows \subseteq Comments
  BY <1>1, <1>2, <1>4 DEF TypeOK, CT!Rows
<1>7. TypeOK'
  BY <1>1, <1>2, <1>3, <1>4, <1>5 DEF TypeOK
<1>8. RowsUsed'
  BY <1>1, <1>6 DEF RowsUsed
<1>9. ParentStands'
  <2> SUFFICES ASSUME NEW d \in CT!Rows'
               PROVE  parent'[d] \in CT!Rows' \union {NoComment}
    BY DEF ParentStands
  <2>1. CASE d = c
    BY <2>1, <1>5, <1>6 DEF CT!Rows
  <2>2. CASE d # c
    BY <2>2, <1>6 DEF ParentStands
  <2> QED BY <2>1, <2>2
<1>10. DeletedStays' /\ AnsweredCommentStays'
  BY <1>1, <1>3 DEF DeletedStays, AnsweredCommentStays, Target, Holding
<1>11. CascadeAlone'
  BY <1>2, <1>3 DEF CascadeAlone
<1>12. CountedAnswered'
  <2> SUFFICES ASSUME NEW s \in Tasks, pc'[s] = "remove", counted'[s]
               PROVE  \E d \in used' : parent'[d] = Target(s)'
    BY DEF CountedAnswered, CT!Answered
  <2>1. s # t /\ Target(s)' = Target(s) /\ CT!Answered(Target(s))
    BY <1>3 DEF CountedAnswered, Target
  <2>2. PICK d \in used : parent[d] = Target(s)
    BY <2>1 DEF CT!Answered
  <2> QED BY <1>1, <1>4, <1>6, <2>1, <2>2 DEF TypeOK
<1>13. CountStillTrue'
  <2> SUFFICES ASSUME NEW s \in Tasks, pc'[s] = "remove", ~counted'[s],
                      NEW d \in CT!Rows', parent'[d] = Target(s)'
               PROVE  FALSE
    BY DEF CountStillTrue, CT!Children
  <2>1. /\ s # t /\ pc[s] = "remove" /\ ~counted[s] /\ Target(s)' = Target(s)
        /\ CT!Children(Target(s)) = {} /\ Target(s) \in live
    BY <1>3 DEF CountStillTrue, DeletedStays, Target, Holding
  <2>2. Target(s) \in Comments /\ Target(s) # NoComment
    BY <2>1, NoCommentAssumption DEF TypeOK
  <2>3. Target(t) # Target(s)
    BY <1>2, <2>1, <2>2 DEF OneHolder, Holds, Holding
  <2>4. d # c /\ d \in CT!Rows /\ parent[d] = Target(s)
    BY <1>6, <2>1, <2>3
  <2> QED BY <2>1, <2>4 DEF CT!Children
<1>14. CT!Add(c, Target(t))
  BY <1>1, <1>2, <1>5 DEF CT!Add
<1>15. CT!Next
  BY <1>4, <1>5, <1>14 DEF CT!Next, TypeOK
<1> QED BY <1>3, <1>7, <1>8, <1>9, <1>10, <1>11, <1>12, <1>13, <1>15

\* Removing a comment keeps Rooted: it has no children, or it stays as a tombstone.
LEMMA RemoveKeepsRooted ==
    ASSUME Rooted, NEW t \in Tasks, Remove(t)
    PROVE  Rooted' /\ CT!Next
<1> USE DEF Rooted
<1> DEFINE c == Target(t)
<1>1. /\ pc[t] = "remove" /\ live' = live \ {c}
      /\ tombs' = IF counted[t] THEN tombs \union {c} ELSE tombs
      /\ UNCHANGED <<posted, parent, used>>
      /\ Return(t)
  BY DEF Remove
<1>2. /\ pc' \in [Tasks -> Steps]
      /\ call' \in [Tasks -> Calls \union {NoCall}]
      /\ counted' \in [Tasks -> BOOLEAN]
      /\ taken' \in [Tasks -> SUBSET Comments]
      /\ CallsFit' /\ OneHolder'
      /\ pc'[t] = "idle"
      /\ \A s \in Tasks \ {t} : /\ pc'[s] = pc[s] /\ call'[s] = call[s]
                                /\ counted'[s] = counted[s] /\ taken'[s] = taken[s]
  BY <1>1, ReturnKeepsControl
<1>3. c \in live /\ c \in Comments /\ Holds(t, c)
  BY <1>1 DEF DeletedStays, TypeOK, Holds, Holding
<1>4. \A s \in Tasks \ {t} : ~Holds(s, c)
  BY <1>3 DEF OneHolder
<1>5. CT!Rows' \subseteq CT!Rows /\ \A d \in CT!Rows \ {c} : d \in CT!Rows'
  BY <1>1, <1>3 DEF CT!Rows
<1>6. /\ counted[t] => CT!Answered(c) /\ tombs' = tombs \union {c}
      /\ ~counted[t] => CT!Children(c) = {} /\ tombs' = tombs
  BY <1>1 DEF CountedAnswered, CountStillTrue
<1>7. \A d \in CT!Rows : parent[d] = c => c \in CT!Rows'
  BY <1>3, <1>6 DEF CT!Children, CT!Rows
<1>8. TypeOK'
  BY <1>1, <1>2, <1>3, <1>6 DEF TypeOK
<1>9. RowsUsed'
  BY <1>1, <1>5 DEF RowsUsed
<1>10. ParentStands'
  BY <1>1, <1>5, <1>7 DEF ParentStands
<1>11. \A s \in Tasks : pc'[s] # "idle" =>
           s # t /\ pc'[s] = pc[s] /\ call'[s] = call[s] /\ Target(s)' = Target(s)
                 /\ counted'[s] = counted[s]
  BY <1>2 DEF Target
<1>12. DeletedStays' /\ AnsweredCommentStays'
  <2>1. \A s \in Tasks \ {t} : pc[s] \in Holding \union {"insert"} => Target(s) # c
    BY <1>4 DEF Holds
  <2> QED BY <1>1, <1>11, <2>1 DEF DeletedStays, AnsweredCommentStays, Holding
<1>13. CascadeAlone'
  BY <1>1, <1>2 DEF CascadeAlone
<1>14. CountedAnswered'
  <2> SUFFICES ASSUME NEW s \in Tasks, pc'[s] = "remove", counted'[s]
               PROVE  CT!Answered(Target(s))
    BY <1>1, <1>11 DEF CountedAnswered, CT!Answered
  <2> QED BY <1>11 DEF CountedAnswered
<1>15. CountStillTrue'
  <2> SUFFICES ASSUME NEW s \in Tasks, pc'[s] = "remove", ~counted'[s]
               PROVE  CT!Children(Target(s)) = {}
    BY <1>1, <1>5, <1>11 DEF CountStillTrue, CT!Children
  <2> QED BY <1>11 DEF CountStillTrue
<1>16. CT!Delete(c)
  BY <1>1, <1>3, <1>6 DEF CT!Delete
<1>17. CT!Next
  BY <1>3, <1>16 DEF CT!Next
<1> QED BY <1>2, <1>8, <1>9, <1>10, <1>12, <1>13, <1>14, <1>15, <1>17

\* Deleting the post's row, and the rows of its comments one by one, keeps Rooted:
\* the post exists, and each row was free.
LEMMA CascadeKeepsRooted ==
    ASSUME Rooted, NEW t \in Tasks, DeletePostRow(t) \/ TakeRow(t)
    PROVE  Rooted'
<1> USE DEF Rooted, TypeOK
<1>1. UNCHANGED <<tree, call, counted>> /\ pc'[t] = "cascade" /\ pc[t] \in {"ready", "cascade"}
  BY DEF DeletePostRow, TakeRow, Ready, Goto
<1>2. /\ pc' \in [Tasks -> Steps] /\ taken' \in [Tasks -> SUBSET Comments]
      /\ \A s \in Tasks \ {t} : pc'[s] = pc[s] /\ taken'[s] = taken[s]
  <2>1. CASE DeletePostRow(t)
    BY <2>1 DEF DeletePostRow, Goto, Steps
  <2>2. CASE TakeRow(t)
    BY <2>2 DEF TakeRow, CT!Rows
  <2> QED BY <2>1, <2>2
<1>3. TypeOK' /\ RowsUsed' /\ ParentStands'
  BY <1>1, <1>2 DEF RowsUsed, ParentStands, tree, CT!Rows
<1>4. CallsFit'
  BY <1>1, <1>2 DEF CallsFit, Holding
<1>5. OneHolder'
  <2>1. CASE DeletePostRow(t)
    BY <2>1, <1>1, <1>2 DEF DeletePostRow, OneHolder, Holds, Holding, Target
  <2>2. CASE TakeRow(t)
    <3>1. PICK c \in CT!Rows : ~RowBusy(c, t) /\ taken'[t] = taken[t] \union {c}
      BY <2>2 DEF TakeRow
    <3>2. ASSUME NEW s \in Tasks, NEW x \in Comments, Holds(s, x)'
          PROVE  Holds(s, x) \/ (s = t /\ x = c)
      BY <1>1, <1>2, <3>1, <3>2 DEF Holds, Holding, Target
    <3>3. \A s \in Tasks : Holds(s, c) => s = t
      BY <3>1, FreeRow
    <3> QED BY <3>2, <3>3 DEF OneHolder
  <2> QED BY <2>1, <2>2
<1>6. DeletedStays' /\ AnsweredCommentStays'
  BY <1>1, <1>2 DEF DeletedStays, AnsweredCommentStays, tree, Target, Holding
<1>7. CascadeAlone'
  <2>1. CASE DeletePostRow(t)
    BY <2>1, <1>1, <1>2 DEF DeletePostRow, PostBusy, CascadeAlone, tree
  <2>2. CASE TakeRow(t)
    BY <2>2, <1>1, <1>2 DEF TakeRow, CascadeAlone, tree
  <2> QED BY <2>1, <2>2
<1>8. CountedAnswered' /\ CountStillTrue'
  BY <1>1, <1>2 DEF CountedAnswered, CountStillTrue, tree, Target, CT!Answered, CT!Children,
     CT!Rows
<1> QED BY <1>3, <1>4, <1>5, <1>6, <1>7, <1>8

\* The end of a cascade keeps Rooted: it holds every row, so no reply and no deletion
\* is under way on any of them.
LEMMA CommitPostKeepsRooted ==
    ASSUME Rooted, NEW t \in Tasks, CommitPost(t)
    PROVE  Rooted' /\ CT!Next
<1> USE DEF Rooted
<1>1. /\ pc[t] = "cascade" /\ CT!Rows \subseteq taken[t]
      /\ posted' = FALSE /\ live' = {} /\ tombs' = {}
      /\ UNCHANGED <<parent, used>>
      /\ Return(t)
  BY DEF CommitPost
<1>2. /\ pc' \in [Tasks -> Steps]
      /\ call' \in [Tasks -> Calls \union {NoCall}]
      /\ counted' \in [Tasks -> BOOLEAN]
      /\ taken' \in [Tasks -> SUBSET Comments]
      /\ CallsFit' /\ OneHolder'
      /\ pc'[t] = "idle"
      /\ \A s \in Tasks \ {t} : /\ pc'[s] = pc[s] /\ call'[s] = call[s]
                                /\ counted'[s] = counted[s] /\ taken'[s] = taken[s]
  BY <1>1, ReturnKeepsControl
<1>3. CT!Rows' = {}
  BY <1>1 DEF CT!Rows
<1>4. \A c \in live : c \in Comments /\ Holds(t, c)
  BY <1>1 DEF CT!Rows, Holds, TypeOK
<1>5. \A s \in Tasks \ {t} : pc[s] \in Holding \union {"insert"} => Target(s) \notin live
  BY <1>4 DEF OneHolder, Holds
<1>6. \A s \in Tasks : /\ pc'[s] \notin Holding
                       /\ ~(pc'[s] = "insert" /\ call'[s].op = "reply")
                       /\ pc'[s] # "cascade"
  BY <1>1, <1>2, <1>5 DEF DeletedStays, AnsweredCommentStays, CascadeAlone, Holding
<1>7. TypeOK'
  BY <1>1, <1>2 DEF TypeOK
<1>8. RowsUsed' /\ ParentStands'
  BY <1>3 DEF RowsUsed, ParentStands
<1>9. DeletedStays' /\ AnsweredCommentStays' /\ CascadeAlone'
  BY <1>6 DEF DeletedStays, AnsweredCommentStays, CascadeAlone, Holding
<1>10. CountedAnswered' /\ CountStillTrue'
  BY <1>6 DEF CountedAnswered, CountStillTrue, Holding
<1>11. CT!Next
  BY <1>1 DEF CT!Next, CT!DeletePost, CascadeAlone
<1> QED BY <1>2, <1>7, <1>8, <1>9, <1>10, <1>11

\* Every step keeps Rooted, and is an operation of CommentTree or none.
LEMMA RootedStep == Rooted /\ [Next]_vars => Rooted' /\ [CT!Next]_(CT!tree)
<1> SUFFICES ASSUME Rooted, [Next]_vars PROVE Rooted' /\ [CT!Next]_(CT!tree)
  OBVIOUS
<1>1. CASE UNCHANGED vars
  BY <1>1 DEF Rooted, vars, tree, CT!tree, TypeOK, CallsFit, OneHolder, Holds, DeletedStays,
     AnsweredCommentStays, CascadeAlone, RowsUsed, CountedAnswered, CountStillTrue,
     ParentStands, Target, CT!Rows, CT!Children, CT!Answered
<1>2. CASE Next
  <2> PICK t \in Tasks : (\E c \in Calls : Begin(t, c)) \/ Step(t) \/ Abort(t)
    BY <1>2 DEF Next
  <2>1. ASSUME NEW c \in Calls, Begin(t, c) PROVE Rooted' /\ UNCHANGED tree
    BY <2>1, BeginKeepsRooted DEF Begin
  <2>2. CASE Abort(t) \/ NoParent(t) \/ InsertFails(t) \/ AlreadyDeleted(t) \/ NoPost(t)
    <3>1. Return(t) /\ UNCHANGED tree
      BY <2>2 DEF Abort, NoParent, InsertFails, AlreadyDeleted, NoPost
    <3> QED BY <3>1, ReturnKeepsRooted DEF tree, CT!tree
  <2>3. CASE LockParent(t) \/ LockComment(t)
    BY <2>3, LockKeepsRooted DEF LockParent, LockComment, tree, CT!tree
  <2>4. CASE CountChildren(t)
    BY <2>4, CountKeepsRooted DEF CountChildren, tree, CT!tree
  <2>5. CASE DeletePostRow(t) \/ TakeRow(t)
    BY <2>5, CascadeKeepsRooted DEF DeletePostRow, TakeRow, tree, CT!tree
  <2>6. CASE Insert(t)
    BY <2>6, InsertKeepsRooted
  <2>7. CASE Remove(t)
    BY <2>7, RemoveKeepsRooted
  <2>8. CASE CommitPost(t)
    BY <2>8, CommitPostKeepsRooted
  <2> QED BY <2>1, <2>2, <2>3, <2>4, <2>5, <2>6, <2>7, <2>8 DEF Step, tree, CT!tree
<1> QED BY <1>1, <1>2

\* Rooted holds of every reachable state.
LEMMA AlwaysRooted == Spec => []Rooted
BY RootedInit, RootedStep, PTL DEF Spec

-----------------------------------------------------------------------------
(* The results.                                                            *)

\* The rows and the positions of the handlers keep their types.
THEOREM TypeCorrect == Spec => []TypeOK
<1>1. Rooted => TypeOK
  BY DEF Rooted
<1> QED BY <1>1, AlwaysRooted, PTL

\* No deletion, of a comment or of the post, leaves a comment without its parent.
THEOREM BranchesStand == Spec => []ParentStands
<1>1. Rooted => ParentStands
  BY DEF Rooted
<1> QED BY <1>1, AlwaysRooted, PTL

\* The comment a reply answers stays alive until the reply is committed.
THEOREM AnsweredStays == Spec => []AnsweredCommentStays
<1>1. Rooted => AnsweredCommentStays
  BY DEF Rooted
<1> QED BY <1>1, AlwaysRooted, PTL

\* A comment counted as childless has no children when it is removed.
THEOREM CountStands == Spec => []CountStillTrue
<1>1. Rooted => CountStillTrue
  BY DEF Rooted
<1> QED BY <1>1, AlwaysRooted, PTL

\* The interleaved handlers implement the forest of indivisible operations.
THEOREM Implements == Spec => ImplementsCommentTree
<1>1. Init => CT!Init
  BY DEF Init
<1> QED BY <1>1, AlwaysRooted, RootedStep, PTL DEF Spec, ImplementsCommentTree, CT!Spec
=============================================================================
