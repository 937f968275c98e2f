-------------------------- MODULE CaseEvidenceProofs --------------------------
(***************************************************************************)
(* Proofs about CaseEvidence, for every set of targets, tasks and states   *)
(* of a case and every bound.                                              *)
(*                                                                         *)
(* Sound is the inductive invariant.  A transaction that has taken its     *)
(* snapshot has looked at its target at a moment: it knows the number of   *)
(* the target's state and how many reports had begun.  Both only grow, so  *)
(* of two looks at a target the one that saw the later state also counted  *)
(* no fewer reports.  The committed cases keep such looks, whichever order *)
(* they commit in, and so does what a review's snapshot shows of them.     *)
(***************************************************************************)
EXTENDS CaseEvidence, FiniteSetTheorems, TLAPS

Reporting(t) == pc[t] # "idle" /\ call[t].op = "report"

\* Positions that follow the statement which takes the snapshot.
Looked(t) == pc[t] \in {"visible", "row", "rest", "insert", "stored", "answered"}

-----------------------------------------------------------------------------
(* Cases.                                                                  *)

Look(c) == [target |-> c.target, version |-> c.evidence.row, asked |-> c.asked]

\* What was seen of a target, by the cases that are stored and the reports under way.
Looks == {Look(c) : c \in cases}
   \union {[target |-> call[t].target, version |-> snap[t].version, asked |-> snap[t].asked]
               : t \in {s \in Tasks : Looked(s) /\ Reporting(s)}}

LooksAscend ==
    /\ \A k \in Looks : k.version <= version[k.target] /\ k.asked <= begun
    /\ \A k, l \in Looks : k.target = l.target /\ k.version < l.version => k.asked <= l.asked

\* Cases that have distinct ids and whole evidence, read after they began, one moment
\* after the other.
Coherent(S) ==
    /\ \A c \in S : c.evidence.row = c.evidence.rest /\ c.id <= c.asked
    /\ \A c, d \in S : c.id = d.id => c = d
    /\ \A c, d \in S : c.target = d.target /\ c.evidence.row < d.evidence.row
                           => c.asked <= d.asked

\* Each report that has begun has its own id, and no case has it yet.
IdsOwned ==
    /\ \A t \in Tasks : found[t].id # 0 => Reporting(t) /\ found[t].id <= begun
    /\ \A s, t \in Tasks : found[s].id # 0 /\ found[s].id = found[t].id => s = t
    /\ \A c \in cases : c.id <= begun
    /\ \A t \in Tasks, c \in cases : found[t].id # c.id

\* Events are about cases that exist.
EventsOfCases == \A i \in DOMAIN audit : \E c \in cases : audit[i].id = c.id

-----------------------------------------------------------------------------
(* Positions.                                                              *)

CallFits(t) ==
    /\ pc[t] # "idle" => call[t] \in Calls
    /\ pc[t] \in {"lock", "update"} => call[t].op = "state"
    /\ pc[t] \in {"begun", "visible", "insert"} => call[t].op = "report"
    /\ pc[t] \in {"stored", "answered"} => call[t].op = "review"
    /\ pc[t] \in {"begin", "row", "rest"} => call[t].op \in {"report", "review"}

\* The target has not had fewer states since the request began or took its snapshot.
Since(t) ==
    /\ pc[t] \notin {"idle", "lock", "update"} => since[t] <= version[call[t].target]
    /\ Looked(t) => since[t] <= snap[t].version /\ snap[t].version <= version[call[t].target]

\* A report past its BEGIN has an id, and took its snapshot afterwards.
Began(t) ==
    /\ Reporting(t) /\ pc[t] # "begin" => found[t].id # 0
    /\ Reporting(t) /\ Looked(t) => found[t].id <= snap[t].asked

\* What has been read is the snapshot.
ReadsSnapshot(t) ==
    /\ pc[t] = "rest" => ~snap[t].gone /\ found[t].reading.row = snap[t].version
    /\ pc[t] = "stored" => snap[t].gone
    /\ pc[t] = "insert" \/ (pc[t] = "answered" /\ ~snap[t].gone) =>
          found[t].reading = [row |-> snap[t].version, rest |-> snap[t].version]

\* The cases a snapshot shows are those of its target.
ShowsCases(t) ==
    /\ Coherent(snap[t].cases)
    /\ \A c, d \in snap[t].cases : c.target = d.target

\* A gone target is shown by its last case.
ShowsLast(t) ==
    pc[t] = "answered" /\ snap[t].gone =>
        \E c \in snap[t].cases : /\ found[t].reading = c.evidence
                                 /\ \A d \in snap[t].cases : d.id <= c.id

\* A command that holds a case read the state it has, and holds it alone.
HoldsCase(t) ==
    pc[t] = "update" =>
        /\ \E c \in cases : c.id = call[t].id
        /\ \A c \in cases : c.id = call[t].id => c.state = found[t].state
        /\ \A s \in Tasks : pc[s] = "update" /\ call[s].id = call[t].id => s = t

Means(t) == /\ CallFits(t)
            /\ Since(t)
            /\ Began(t)
            /\ ReadsSnapshot(t)
            /\ ShowsCases(t)
            /\ ShowsLast(t)
            /\ HoldsCase(t)

Sound == /\ TypeOK
         /\ LooksAscend
         /\ Coherent(cases)
         /\ IdsOwned
         /\ EventsOfCases
         /\ CaseAuditChain
         /\ \A t \in Tasks : Means(t)

-----------------------------------------------------------------------------
(* Types.                                                                  *)

\* The fields of what a task has read, of a snapshot and of a case.
LEMMA Fields ==
    ASSUME TypeOK
    PROVE  /\ \A t \in Tasks :
                 /\ found[t].reading \in Readings /\ found[t].id \in 0..MaxReports
                 /\ found[t].state \in States
                 /\ snap[t].version \in Versions /\ snap[t].gone \in BOOLEAN
                 /\ snap[t].cases \in SUBSET Cases /\ snap[t].asked \in 0..MaxReports
           /\ \A c \in Cases : /\ c.id \in CaseIds /\ c.target \in Targets
                               /\ c.evidence \in Readings /\ c.asked \in 0..MaxReports
                               /\ c.state \in States
           /\ \A r \in Readings : r.row \in 0..MaxVersion /\ r.rest \in 0..MaxVersion
           /\ \A x \in Targets : version[x] \in Versions
           /\ MaxVersion \in Nat /\ MaxReports \in Nat /\ begun \in 0..MaxReports
BY BoundsAssumption DEF TypeOK, Views, Cases, Readings

\* What a call names.
LEMMA CallFields ==
    ASSUME NEW c \in Calls
    PROVE  /\ c.op \in {"report", "review", "state"}
           /\ c.op \in {"report", "review"} => c.target \in Targets
           /\ c.op = "state" => c.id \in CaseIds /\ c.to \in States
BY DEF Calls

\* A task that returns forgets what it has read.
LEMMA ResetTypes ==
    ASSUME TypeOK, NEW t \in Tasks, Reset(t)
    PROVE  /\ pc' \in [Tasks -> Steps]
           /\ call' \in [Tasks -> Calls \union {NoCall}]
           /\ snap' \in [Tasks -> Views]
           /\ found' \in [Tasks -> [reading : Readings, id : 0..MaxReports, state : States]]
           /\ since' \in [Tasks -> Versions]
<1>1. NoView \in Views
  BY BoundsAssumption DEF NoView, Views, Versions
<1>2. NothingFound \in [reading : Readings, id : 0..MaxReports, state : States]
  BY BoundsAssumption, StatesAssumption DEF NothingFound, Nothing, Readings
<1>3. 1 \in Versions
  BY BoundsAssumption DEF Versions
<1> QED BY <1>1, <1>2, <1>3 DEF TypeOK, Reset, Goto, Steps

\* Of the members of a finite set that are numbered one has the highest number.
LEMMA Highest ==
    ASSUME NEW S, IsFiniteSet(S), S # {}, NEW f \in [S -> Nat]
    PROVE  \E m \in S : \A s \in S : f[s] <= f[m]
<1> DEFINE Above(m) == {s \in S : f[m] < f[s]}
           Tails == {Above(m) : m \in S}
<1>1. Tails \subseteq FiniteSubsetsOf(S) /\ Tails # {}
  <2>1. FiniteSubsetsOf(S) = SUBSET S
    BY FS_FiniteSubsetsOfFinite
  <2>2. \A m \in S : Above(m) \in Tails
    OBVIOUS
  <2>3. ASSUME NEW T \in Tails PROVE T \subseteq S
    BY <2>3
  <2> HIDE DEF Tails
  <2> QED BY <2>1, <2>2, <2>3
<1>2. PICK A \in Tails : \A B \in Tails : <<B, A>> \notin StrictSubsetOrdering(S)
  <2> HIDE DEF Tails
  <2> QED BY <1>1, FS_StrictSubsetOrderingWellFounded, WFMin
<1>3. PICK m \in S : A = Above(m)
  OBVIOUS
<1>4. ASSUME NEW s \in S, f[m] < f[s] PROVE FALSE
  <2>1. Above(s) \subseteq Above(m)
    <3>1. \A r \in S : f[s] < f[r] => f[m] < f[r]
      BY <1>4
    <3> QED BY <3>1
  <2>2. Above(s) # Above(m)
    BY <1>4
  <2>3. <<Above(s), Above(m)>> \in StrictSubsetOrdering(S)
    <3>1. Above(s) \in SUBSET S /\ Above(m) \in SUBSET S
      OBVIOUS
    <3> HIDE DEF Above
    <3> QED BY <2>1, <2>2, <3>1 DEF StrictSubsetOrdering
  <2> QED BY <1>2, <1>3, <2>3
<1> QED BY <1>4

\* The case opened last among some cases exists.
LEMMA LastOf ==
    ASSUME NEW S \in SUBSET Cases, S # {}
    PROVE  LastOpened(S) \in S /\ \A d \in S : d.id <= LastOpened(S).id
<1> DEFINE Ids == {c.id : c \in S}
<1>1. \A c \in S : c.id \in CaseIds
  BY DEF Cases
<1>2. Ids \subseteq CaseIds /\ Ids # {} /\ CaseIds \subseteq Nat
  BY <1>1 DEF CaseIds
<1>3. IsFiniteSet(Ids)
  <2>1. IsFiniteSet(CaseIds)
    BY BoundsAssumption, FS_Interval DEF CaseIds
  <2> QED BY <1>2, <2>1, FS_Subset
<1>4. \E m \in Ids : \A i \in Ids : i <= m
  <2> DEFINE f == [i \in Ids |-> i]
  <2> HIDE DEF Ids
  <2>1. f \in [Ids -> Nat]
    BY <1>2
  <2>2. PICK m \in Ids : \A i \in Ids : f[i] <= f[m]
    <3> HIDE DEF f
    <3> QED BY <1>2, <1>3, <2>1, Highest
  <2> QED BY <2>2
<1>5. \E c \in S : \A d \in S : d.id <= c.id
  BY <1>4
<1> QED BY <1>5 DEF LastOpened

\* A sequence keeps its elements when one is appended.
LEMMA Appended ==
    ASSUME NEW E, NEW s \in Seq(E), NEW e \in E
    PROVE  /\ Append(s, e) \in Seq(E) /\ Len(Append(s, e)) = Len(s) + 1 /\ Len(s) \in Nat
           /\ \A i \in 1..Len(s) : Append(s, e)[i] = s[i]
           /\ Append(s, e)[Len(s) + 1] = e
OBVIOUS

\* What set_case_state makes of a case, and its event.
Moved(t, c) == IF c.id = call[t].id THEN [c EXCEPT !.state = call[t].to] ELSE c
Event(t) == [id |-> call[t].id, from |-> found[t].state, to |-> call[t].to]

\* It moves one case and records it, or changes nothing.
LEMMA CaseMoves ==
    ASSUME TypeOK, NEW t \in Tasks, CallFits(t), SetCase(t)
    PROVE  /\ Event(t) \in [id : CaseIds, from : States, to : States]
           /\ \A c \in cases : /\ Moved(t, c) \in Cases
                               /\ Moved(t, c).id = c.id /\ Moved(t, c).target = c.target
                               /\ Moved(t, c).evidence = c.evidence
                               /\ Moved(t, c).asked = c.asked
                               /\ Moved(t, c).state = IF c.id = call[t].id THEN call[t].to
                                                                          ELSE c.state
           /\ \/ cases' = cases /\ audit' = audit
              \/ cases' = {Moved(t, c) : c \in cases} /\ audit' = Append(audit, Event(t))
<1>1. call[t].id \in CaseIds /\ call[t].to \in States /\ found[t].state \in States
  BY CallFields, Fields DEF SetCase, CallFits
<1>2. Event(t) \in [id : CaseIds, from : States, to : States]
  BY <1>1 DEF Event
<1>3. ASSUME NEW c \in cases
      PROVE  /\ Moved(t, c) \in Cases
             /\ Moved(t, c).id = c.id /\ Moved(t, c).target = c.target
             /\ Moved(t, c).evidence = c.evidence /\ Moved(t, c).asked = c.asked
             /\ Moved(t, c).state = IF c.id = call[t].id THEN call[t].to ELSE c.state
  <2>1. c \in Cases
    BY DEF TypeOK
  <2> QED BY <1>1, <2>1 DEF Moved, Cases
<1>4. \/ cases' = cases /\ audit' = audit
      \/ cases' = {Moved(t, c) : c \in cases} /\ audit' = Append(audit, Event(t))
  BY DEF SetCase, Moved, Event
<1> QED BY <1>2, <1>3, <1>4

-----------------------------------------------------------------------------
(* The invariant holds.                                                    *)

\* Nothing has been read in the first state.
LEMMA SoundInit == Init => Sound
<1> SUFFICES ASSUME Init PROVE Sound
  OBVIOUS
<1>1. TypeOK
  <2>1. NoView \in Views
    BY BoundsAssumption DEF NoView, Views, Versions
  <2>2. NothingFound \in [reading : Readings, id : 0..MaxReports, state : States]
    BY BoundsAssumption, StatesAssumption DEF NothingFound, Nothing, Readings
  <2> QED BY <2>1, <2>2, BoundsAssumption DEF Init, TypeOK, Versions, Steps
<1>2. \A t \in Tasks : ~Looked(t) /\ ~Reporting(t) /\ found[t].id = 0 /\ snap[t].cases = {}
  BY DEF Init, Looked, Reporting, NothingFound, NoView
<1>3. Looks = {}
  BY <1>2 DEF Init, Looks
<1>4. LooksAscend /\ Coherent(cases) /\ EventsOfCases /\ CaseAuditChain
  BY <1>3 DEF Init, LooksAscend, Coherent, EventsOfCases, CaseAuditChain
<1>5. IdsOwned
  BY <1>2 DEF Init, IdsOwned
<1>6. ASSUME NEW t \in Tasks PROVE Means(t)
  BY <1>2 DEF Init, Means, CallFits, Since, Looked, Began, Reporting, ReadsSnapshot, ShowsCases,
              Coherent, ShowsLast, HoldsCase
<1> QED BY <1>1, <1>4, <1>5, <1>6 DEF Sound

\* Every step keeps the types.
LEMMA TypesKeep ==
    ASSUME Sound, [Next]_vars
    PROVE  TypeOK'
<1> USE DEF data, log, Goto
<1>1. TypeOK /\ IdsOwned /\ \A t \in Tasks : CallFits(t) /\ ShowsCases(t)
  BY DEF Sound, Means
<1>2. CASE UNCHANGED vars
  BY <1>1, <1>2 DEF vars, TypeOK
<1>3. ASSUME NEW x \in Targets, Edit(x) \/ Delete(x) \/ Close(x) PROVE TypeOK'
  <2>1. version' \in [Targets -> Versions]
    BY <1>1, <1>3, BoundsAssumption DEF Edit, Delete, Close, TypeOK, Versions
  <2> QED BY <1>1, <1>3, <2>1 DEF Edit, Delete, Close, TypeOK
<1>4. ASSUME NEW t \in Tasks, NEW r \in Calls, Begin(t, r) PROVE TypeOK'
  <2>1. r.op # "state" => r.target \in Targets
    BY CallFields
  <2>2. since' \in [Tasks -> Versions]
    BY <1>1, <1>4, <2>1 DEF Begin, TypeOK
  <2> QED BY <1>1, <1>4, <2>2 DEF Begin, TypeOK, Steps
<1>5. ASSUME NEW t \in Tasks, End(t) PROVE TypeOK'
  BY <1>1, <1>5, ResetTypes DEF End, TypeOK
<1>6. ASSUME NEW t \in Tasks, BeginReport(t) PROVE TypeOK'
  <2>1. begun' \in 0..MaxReports /\ FreshId \in 0..MaxReports
    BY <1>1, <1>6, BoundsAssumption DEF BeginReport, TypeOK, FreshId
  <2> QED BY <1>1, <1>6, <2>1 DEF BeginReport, TypeOK, Steps
<1>7. ASSUME NEW t \in Tasks, TakeSnapshot(t) PROVE TypeOK'
  <2>1. call[t].target \in Targets
    BY <1>1, <1>7, CallFields DEF TakeSnapshot, CallFits
  <2>2. Now(call[t].target) \in Views
    BY <1>1, <2>1 DEF Now, Views, TypeOK
  <2>3. snap' \in [Tasks -> Views]
    BY <1>1, <1>7, <2>2 DEF TakeSnapshot, TypeOK
  <2>4. pc' \in [Tasks -> Steps]
    BY <1>1, <1>7 DEF TakeSnapshot, TypeOK, Steps
  <2> QED BY <1>1, <1>7, <2>3, <2>4 DEF TakeSnapshot, TypeOK
<1>8. ASSUME NEW t \in Tasks, CheckVisible(t) \/ RowGone(t) PROVE TypeOK'
  BY <1>1, <1>8 DEF CheckVisible, RowGone, TypeOK, Steps
<1>9. ASSUME NEW t \in Tasks, ReadRow(t) \/ ReadRest(t) PROVE TypeOK'
  <2> DEFINE Found == [reading : Readings, id : 0..MaxReports, state : States]
  <2>1. snap[t].version \in 0..MaxVersion /\ 0 \in 0..MaxVersion
    BY <1>1, Fields, BoundsAssumption DEF Versions
  <2>2. found[t] \in Found /\ found[t].reading \in Readings
    BY <1>1 DEF TypeOK
  <2>3. \A v \in 0..MaxVersion : /\ [found[t] EXCEPT !.reading.row = v] \in Found
                                 /\ [found[t] EXCEPT !.reading.rest = v] \in Found
    BY <2>2 DEF Readings
  <2>4. \E f \in Found : found' = [found EXCEPT ![t] = f]
    <3>1. CASE ReadRow(t)
      <4>1. found' = [found EXCEPT ![t] = [found[t] EXCEPT !.reading.row = snap[t].version]]
        BY <3>1 DEF ReadRow, View
      <4> QED BY <2>1, <2>3, <4>1
    <3>2. CASE ReadRest(t)
      <4> DEFINE v == IF snap[t].gone THEN 0 ELSE snap[t].version
      <4>1. found' = [found EXCEPT ![t] = [found[t] EXCEPT !.reading.rest = v]]
        BY <3>2 DEF ReadRest, View
      <4>2. v \in 0..MaxVersion
        BY <2>1
      <4> QED BY <2>3, <4>1, <4>2
    <3> QED BY <1>9, <3>1, <3>2
  <2>5. pc' \in [Tasks -> Steps]
    BY <1>1, <1>9 DEF ReadRow, ReadRest, TypeOK, Steps
  <2>6. found' \in [Tasks -> Found]
    BY <1>1, <2>4 DEF TypeOK
  <2> QED BY <1>1, <1>9, <2>5, <2>6 DEF ReadRow, ReadRest, TypeOK
<1>10. ASSUME NEW t \in Tasks, StoreCase(t) PROVE TypeOK'
  <2> DEFINE new == [id |-> found[t].id, target |-> call[t].target,
                     evidence |-> found[t].reading, asked |-> snap[t].asked, state |-> "open"]
  <2>1. call[t].target \in Targets /\ Reporting(t)
    BY <1>1, <1>10, CallFields DEF StoreCase, CallFits, Reporting
  <2>2. found[t].id \in CaseIds
    <3>1. found[t].id # 0
      BY <1>10, <2>1 DEF Sound, Means, Began, StoreCase
    <3> QED BY <1>1, <3>1, Fields DEF CaseIds
  <2>3. new \in Cases
    BY <1>1, <2>1, <2>2, Fields, StatesAssumption DEF Cases
  <2>4. cases' \subseteq Cases
    BY <1>1, <1>10, <2>3 DEF StoreCase, TypeOK
  <2>5. \A c, d \in cases' : c.id = d.id => c = d
    BY <1>1, <1>10 DEF StoreCase, TypeOK, IdsOwned
  <2> QED BY <1>1, <1>10, <2>4, <2>5, ResetTypes DEF StoreCase, TypeOK
<1>11. ASSUME NEW t \in Tasks, ReadStored(t) PROVE TypeOK'
  <2>1. snap[t].cases \in SUBSET Cases
    BY <1>1, Fields
  <2>2. LastOpened(View(t).cases).evidence \in Readings
    BY <1>1, <1>11, <2>1, LastOf, Fields DEF ReadStored, View
  <2>3. found' \in [Tasks -> [reading : Readings, id : 0..MaxReports, state : States]]
    BY <1>1, <1>11, <2>2 DEF ReadStored, TypeOK
  <2> QED BY <1>1, <1>11, <2>3 DEF ReadStored, TypeOK, Steps
<1>12. ASSUME NEW t \in Tasks, LockCase(t) PROVE TypeOK'
  <2>1. \A c \in cases : c.state \in States
    BY <1>1, Fields DEF TypeOK
  <2> QED BY <1>1, <1>12, <2>1 DEF LockCase, TypeOK, Steps
<1>13. ASSUME NEW t \in Tasks, SetCase(t) PROVE TypeOK'
  <2> DEFINE Events == [id : CaseIds, from : States, to : States]
  <2>1. CallFits(t)
    BY <1>1
  <2>2. cases' \subseteq Cases /\ \A c, d \in cases' : c.id = d.id => c = d
    <3>1. cases \subseteq Cases /\ \A c, d \in cases : c.id = d.id => c = d
      BY <1>1 DEF TypeOK
    <3> QED BY <1>1, <1>13, <2>1, <3>1, CaseMoves
  <2>3. audit' \in Seq(Events)
    <3>1. audit \in Seq(Events)
      BY <1>1 DEF TypeOK
    <3>2. Append(audit, Event(t)) \in Seq(Events)
      BY <1>1, <1>13, <2>1, <3>1, CaseMoves, Appended
    <3> QED BY <1>1, <1>13, <2>1, <3>1, <3>2, CaseMoves
  <2> QED BY <1>1, <1>13, <2>2, <2>3, ResetTypes DEF SetCase, TypeOK
<1> QED
  BY <1>2, <1>3, <1>4, <1>5, <1>6, <1>7, <1>8, <1>9, <1>10, <1>11, <1>12, <1>13 DEF Next

-----------------------------------------------------------------------------
(* Who moves.                                                              *)

Stays(s) == /\ pc'[s] = pc[s] /\ call'[s] = call[s] /\ snap'[s] = snap[s]
            /\ found'[s] = found[s] /\ since'[s] = since[s]

\* Steps of a task that write nothing others see.
ReadingStep(t) == \/ \E r \in Calls : Begin(t, r)
                  \/ End(t) \/ TakeSnapshot(t) \/ CheckVisible(t) \/ ReadRow(t) \/ RowGone(t)
                  \/ ReadRest(t) \/ ReadStored(t) \/ LockCase(t)

WritingStep(t) == BeginReport(t) \/ StoreCase(t) \/ SetCase(t)

\* A step changes a target, or is one task's; the numbers of states and of reports
\* never decrease.
LEMMA Stepping ==
    ASSUME TypeOK, [Next]_vars
    PROVE  /\ \/ \E t \in Tasks : /\ ReadingStep(t) \/ WritingStep(t)
                                  /\ version' = version
                                  /\ \A s \in Tasks \ {t} : Stays(s)
              \/ begun' = begun /\ UNCHANGED <<cases, audit, pc, call, snap, found, since>>
           /\ \A x \in Targets : version[x] <= version'[x]
           /\ begun <= begun'
<1> USE DEF data, log, Goto
<1>1. CASE UNCHANGED vars
  BY <1>1 DEF vars, TypeOK, Versions
<1>2. ASSUME NEW x \in Targets, Edit(x) \/ Delete(x) \/ Close(x)
      PROVE  /\ begun' = begun /\ UNCHANGED <<cases, audit, pc, call, snap, found, since>>
             /\ \A y \in Targets : version[y] <= version'[y]
  BY <1>2 DEF Edit, Delete, Close, TypeOK, Versions
<1>3. ASSUME NEW t \in Tasks, ReadingStep(t) \/ WritingStep(t)
      PROVE  version' = version /\ begun <= begun' /\ \A s \in Tasks \ {t} : Stays(s)
  <2>1. CASE \E r \in Calls : Begin(t, r)
    BY <2>1 DEF Begin, Stays, TypeOK
  <2>2. CASE End(t)
    BY <2>2 DEF End, Reset, Stays, TypeOK
  <2>3. CASE TakeSnapshot(t)
    BY <2>3 DEF TakeSnapshot, Stays, TypeOK
  <2>4. CASE CheckVisible(t) \/ RowGone(t)
    BY <2>4 DEF CheckVisible, RowGone, Stays, TypeOK
  <2>5. CASE ReadRow(t) \/ ReadRest(t) \/ ReadStored(t)
    BY <2>5 DEF ReadRow, ReadRest, ReadStored, Stays, TypeOK
  <2>6. CASE LockCase(t)
    BY <2>6 DEF LockCase, Stays, TypeOK
  <2>7. CASE BeginReport(t)
    BY <2>7 DEF BeginReport, Stays, TypeOK
  <2>8. CASE StoreCase(t) \/ SetCase(t)
    BY <2>8 DEF StoreCase, SetCase, Reset, Stays, TypeOK
  <2> QED BY <1>3, <2>1, <2>2, <2>3, <2>4, <2>5, <2>6, <2>7, <2>8 DEF ReadingStep, WritingStep
<1>4. begun \in Nat /\ \A x \in Targets : version[x] <= version[x]
  BY DEF TypeOK, Versions
<1>5. CASE \E x \in Targets : Edit(x) \/ Delete(x) \/ Close(x)
  BY <1>2, <1>4, <1>5
<1>6. CASE \E t \in Tasks : ReadingStep(t) \/ WritingStep(t)
  BY <1>3, <1>4, <1>6
<1>7. Next => \/ \E x \in Targets : Edit(x) \/ Delete(x) \/ Close(x)
              \/ \E t \in Tasks : ReadingStep(t) \/ WritingStep(t)
  BY DEF Next, ReadingStep, WritingStep
<1> QED BY <1>1, <1>5, <1>6, <1>7

\* A reading step leaves what is stored, and keeps the id of its report or forgets it.
LEMMA Reading ==
    ASSUME TypeOK, NEW t \in Tasks, ReadingStep(t)
    PROVE  /\ UNCHANGED <<version, begun, cases, audit>>
           /\ \/ found'[t] = NothingFound /\ pc'[t] = "idle"
              \/ pc[t] = "idle" /\ pc'[t] \in {"lock", "begin"} /\ found'[t] = found[t]
              \/ /\ pc[t] # "idle" /\ pc'[t] # "idle" /\ call'[t] = call[t]
                 /\ found'[t].id = found[t].id
<1> USE DEF data, log, Goto, TypeOK
<1>1. CASE \E r \in Calls : Begin(t, r)
  BY <1>1 DEF Begin
<1>2. CASE End(t)
  BY <1>2 DEF End, Reset
<1>3. CASE TakeSnapshot(t)
  BY <1>3 DEF TakeSnapshot
<1>4. CASE CheckVisible(t) \/ RowGone(t)
  BY <1>4 DEF CheckVisible, RowGone
<1>5. CASE ReadRow(t) \/ ReadRest(t) \/ ReadStored(t)
  BY <1>5 DEF ReadRow, ReadRest, ReadStored
<1>6. CASE LockCase(t)
  BY <1>6 DEF LockCase
<1> QED BY <1>1, <1>2, <1>3, <1>4, <1>5, <1>6 DEF ReadingStep

-----------------------------------------------------------------------------
(* What is stored.                                                         *)

\* The case that create_report commits.
NewCase(t) == [id |-> found[t].id, target |-> call[t].target, evidence |-> found[t].reading,
               asked |-> snap[t].asked, state |-> "open"]

\* It holds what the report saw, and nobody's id.
LEMMA NewCaseFits ==
    ASSUME Sound, NEW t \in Tasks, StoreCase(t)
    PROVE  /\ cases' = cases \union {NewCase(t)} /\ audit' = audit /\ begun' = begun
           /\ NewCase(t).evidence = [row |-> snap[t].version, rest |-> snap[t].version]
           /\ NewCase(t).id <= NewCase(t).asked /\ NewCase(t).asked = snap[t].asked
           /\ NewCase(t).id = found[t].id /\ found[t].id # 0
           /\ \A c \in cases : c.id # NewCase(t).id
           /\ NewCase(t).target = call[t].target /\ NewCase(t).state = "open"
           /\ Looked(t) /\ Reporting(t)
<1>1. pc[t] = "insert" /\ cases' = cases \union {NewCase(t)} /\ audit' = audit /\ begun' = begun
  BY DEF StoreCase, NewCase
<1>2. Looked(t) /\ Reporting(t)
  BY <1>1 DEF Sound, Means, CallFits, Looked, Reporting
<1>3. found[t].id # 0 /\ found[t].id <= snap[t].asked
  BY <1>1, <1>2 DEF Sound, Means, Began
<1>4. found[t].reading = [row |-> snap[t].version, rest |-> snap[t].version]
  BY <1>1 DEF Sound, Means, ReadsSnapshot
<1>5. \A c \in cases : c.id # found[t].id
  BY DEF Sound, IdsOwned
<1> QED BY <1>1, <1>2, <1>3, <1>4, <1>5 DEF NewCase

\* Ids stay with their report until its case has them.
LEMMA IdsKeep ==
    ASSUME Sound, TypeOK', [Next]_vars
    PROVE  IdsOwned'
<1>1. TypeOK /\ IdsOwned
  BY DEF Sound
<1>2. begun \in Nat /\ begun' \in Nat /\ begun <= begun'
      /\ \A s \in Tasks : found[s].id \in Nat /\ found'[s].id \in Nat
  BY <1>1, Stepping, BoundsAssumption DEF TypeOK
<1>3. \A c \in cases : c.id \in Nat
  BY <1>1, Fields DEF TypeOK, CaseIds
<1>4. CASE begun' = begun /\ UNCHANGED <<cases, audit, pc, call, snap, found, since>>
  BY <1>1, <1>4 DEF IdsOwned, Reporting
<1>5. ASSUME NEW t \in Tasks, \A s \in Tasks \ {t} : Stays(s),
             ReadingStep(t)
      PROVE  IdsOwned'
  <2>1. /\ UNCHANGED <<cases, begun>>
        /\ found'[t].id \in {0, found[t].id}
        /\ found'[t].id # 0 => (Reporting(t) => Reporting(t)')
    BY <1>1, <1>5, Reading DEF NothingFound, IdsOwned, Reporting
  <2>2. \A s \in Tasks : /\ found'[s].id # 0 => found'[s].id = found[s].id
                         /\ found'[s].id # 0 => (Reporting(s) => Reporting(s)')
    BY <1>5, <2>1 DEF Stays, Reporting
  <2>3. \A c \in cases : c.id # 0
    BY <1>1, Fields DEF TypeOK, CaseIds
  <2> QED BY <1>1, <2>1, <2>2, <2>3 DEF IdsOwned
<1>6. ASSUME NEW t \in Tasks, \A s \in Tasks \ {t} : Stays(s),
             BeginReport(t)
      PROVE  IdsOwned'
  <2>1. /\ cases' = cases /\ begun' = begun + 1 /\ found'[t].id = begun + 1
        /\ Reporting(t)'
    BY <1>1, <1>6 DEF BeginReport, FreshId, Goto, Reporting, TypeOK
  <2>2. \A s \in Tasks \ {t} : found'[s] = found[s] /\ (Reporting(s) => Reporting(s)')
    BY <1>6 DEF Stays, Reporting
  <2> QED BY <1>1, <1>2, <1>3, <2>1, <2>2 DEF IdsOwned
<1>7. ASSUME NEW t \in Tasks, \A s \in Tasks \ {t} : Stays(s),
             StoreCase(t)
      PROVE  IdsOwned'
  <2>1. found'[t].id = 0
    BY <1>1, <1>7 DEF StoreCase, Reset, NothingFound, TypeOK
  <2>2. \A s \in Tasks \ {t} : found'[s] = found[s] /\ (Reporting(s) => Reporting(s)')
    BY <1>7 DEF Stays, Reporting
  <2>3. NewCase(t).id <= begun
    BY <1>1, <1>7, NewCaseFits DEF IdsOwned
  <2>4. \A c \in cases' : c \in cases \/ c = NewCase(t)
    BY <1>7, NewCaseFits
  <2>5. \A c \in cases : c.id # 0
    BY <1>1, Fields DEF TypeOK, CaseIds
  <2>6. begun' = begun /\ NewCase(t).id = found[t].id /\ found[t].id # 0
    BY <1>7, NewCaseFits
  <2> QED BY <1>1, <2>1, <2>2, <2>3, <2>4, <2>5, <2>6 DEF IdsOwned
<1>8. ASSUME NEW t \in Tasks, \A s \in Tasks \ {t} : Stays(s),
             SetCase(t)
      PROVE  IdsOwned'
  <2>1. found'[t].id = 0 /\ begun' = begun
    BY <1>1, <1>8 DEF SetCase, Reset, NothingFound, TypeOK
  <2>2. \A s \in Tasks \ {t} : found'[s] = found[s] /\ (Reporting(s) => Reporting(s)')
    BY <1>8 DEF Stays, Reporting
  <2>3. \A c \in cases' : \E d \in cases : c.id = d.id
    BY <1>1, <1>8, CaseMoves DEF Sound, Means
  <2>4. \A c \in cases : c.id # 0
    BY <1>1, Fields DEF TypeOK, CaseIds
  <2> QED BY <1>1, <2>1, <2>2, <2>3, <2>4 DEF IdsOwned
<1> QED BY <1>1, <1>4, <1>5, <1>6, <1>7, <1>8, Stepping DEF WritingStep

\* Only new cases are added, and they are newer looks.
LEMMA CasesKeep ==
    ASSUME Sound, TypeOK', [Next]_vars
    PROVE  Coherent(cases)'
<1>1. TypeOK /\ Coherent(cases) /\ LooksAscend
  BY DEF Sound
<1>2. CASE cases' = cases
  BY <1>1, <1>2 DEF Coherent
<1>3. ASSUME NEW t \in Tasks, StoreCase(t) PROVE Coherent(cases)'
  <2> DEFINE n == NewCase(t)
  <2> HIDE DEF n
  <2>0. /\ cases' = cases \union {n} /\ n.id <= n.asked
        /\ \A c \in cases : c.id # n.id
        /\ n.evidence = [row |-> snap[t].version, rest |-> snap[t].version]
        /\ n.target = call[t].target /\ n.asked = snap[t].asked
        /\ Looked(t) /\ Reporting(t)
    BY <1>3, NewCaseFits DEF n
  <2>1. /\ cases' = cases \union {n}
        /\ n.evidence.row = n.evidence.rest /\ n.id <= n.asked
        /\ \A c \in cases : c.id # n.id
    BY <2>0
  <2>2. Look(n) \in Looks /\ \A c \in cases : Look(c) \in Looks
    BY <2>0 DEF Looks, Look
  <2>3. \A c, d \in cases' : c.target = d.target /\ c.evidence.row < d.evidence.row
                                => c.asked <= d.asked
    <3>1. \A c \in cases' : Look(c) \in Looks
      BY <2>1, <2>2
    <3>2. \A c \in cases' : /\ Look(c).target = c.target /\ Look(c).asked = c.asked
                            /\ Look(c).version = c.evidence.row
      BY DEF Look
    <3> HIDE DEF n
    <3> QED BY <1>1, <3>1, <3>2 DEF LooksAscend
  <2> HIDE DEF n
  <2> QED BY <1>1, <2>1, <2>3 DEF Coherent
<1>4. ASSUME NEW t \in Tasks, SetCase(t) PROVE Coherent(cases)'
  <2>1. \A c \in cases' : \E d \in cases : /\ c.id = d.id /\ c.target = d.target
                                           /\ c.evidence = d.evidence /\ c.asked = d.asked
    BY <1>1, <1>4, CaseMoves DEF Sound, Means
  <2>2. \A c, d \in cases' : c.id = d.id => c = d
    BY DEF TypeOK
  <2> QED BY <1>1, <2>1, <2>2 DEF Coherent
<1>5. \A t \in Tasks : ReadingStep(t) => cases' = cases
  BY <1>1, Reading
<1>6. \A t \in Tasks : BeginReport(t) => cases' = cases
  BY DEF BeginReport
<1> QED BY <1>1, <1>2, <1>3, <1>4, <1>5, <1>6, Stepping DEF WritingStep

\* Cases are never removed, nor events.
LEMMA EventsKeep ==
    ASSUME Sound, [Next]_vars
    PROVE  EventsOfCases'
<1>1. TypeOK /\ EventsOfCases
  BY DEF Sound
<1>2. CASE cases' = cases /\ audit' = audit
  BY <1>1, <1>2 DEF EventsOfCases
<1>3. ASSUME NEW t \in Tasks, StoreCase(t) PROVE EventsOfCases'
  <2>1. audit' = audit /\ cases \subseteq cases'
    BY <1>3, NewCaseFits
  <2> QED BY <1>1, <2>1 DEF EventsOfCases
<1>4. ASSUME NEW t \in Tasks, SetCase(t) PROVE EventsOfCases'
  <2> DEFINE Events == [id : CaseIds, from : States, to : States]
  <2>1. CallFits(t) /\ \E c \in cases : c.id = call[t].id
    BY <1>4 DEF Sound, Means, HoldsCase, SetCase
  <2>2. CASE cases' = {Moved(t, c) : c \in cases} /\ audit' = Append(audit, Event(t))
    <3>1. audit \in Seq(Events) /\ Event(t) \in Events
      BY <1>1, <1>4, <2>1, CaseMoves DEF TypeOK
    <3>2. \A c \in cases : \E d \in cases' : d.id = c.id
      BY <1>1, <1>4, <2>1, <2>2, CaseMoves
    <3>3. Event(t).id = call[t].id
      BY DEF Event
    <3>4. /\ DOMAIN audit = 1..Len(audit) /\ DOMAIN audit' = 1..(Len(audit) + 1)
          /\ Len(audit) \in Nat
          /\ \A i \in 1..Len(audit) : audit'[i] = audit[i]
          /\ audit'[Len(audit) + 1] = Event(t)
      <4>1. audit' \in Seq(Events) /\ Len(audit') = Len(audit) + 1
        BY <2>2, <3>1, Appended
      <4> QED BY <2>2, <3>1, <4>1, Appended
    <3>5. \A i \in DOMAIN audit' : i \in DOMAIN audit \/ i = Len(audit) + 1
      BY <3>4
    <3> QED BY <1>1, <2>1, <3>2, <3>3, <3>4, <3>5 DEF EventsOfCases
  <2> QED BY <1>1, <1>2, <1>4, <2>1, <2>2, CaseMoves
<1>5. \A t \in Tasks : ReadingStep(t) => cases' = cases /\ audit' = audit
  BY <1>1, Reading
<1>6. \A t \in Tasks : BeginReport(t) => cases' = cases /\ audit' = audit
  BY DEF BeginReport
<1> QED BY <1>1, <1>2, <1>3, <1>4, <1>5, <1>6, Stepping DEF WritingStep

-----------------------------------------------------------------------------
(* Looks.                                                                  *)

SeenBy(t) == [target |-> call[t].target, version |-> snap[t].version, asked |-> snap[t].asked]

\* A look is a case's or that of a report under way.
LEMMA LookOf ==
    ASSUME NEW k \in Looks
    PROVE  \/ \E c \in cases : k = Look(c)
           \/ \E t \in Tasks : Looked(t) /\ Reporting(t) /\ k = SeenBy(t)
BY DEF Looks, SeenBy

\* Looks are numbers.
LEMMA LookTypes ==
    ASSUME TypeOK, \A t \in Tasks : CallFits(t)
    PROVE  \A k \in Looks : k.target \in Targets /\ k.version \in Nat /\ k.asked \in Nat
<1> SUFFICES ASSUME NEW k \in Looks
             PROVE  k.target \in Targets /\ k.version \in Nat /\ k.asked \in Nat
  OBVIOUS
<1>1. CASE \E c \in cases : k = Look(c)
  BY <1>1, Fields, BoundsAssumption DEF Look, TypeOK
<1>2. ASSUME NEW t \in Tasks, Looked(t), Reporting(t), k = SeenBy(t)
      PROVE  k.target \in Targets /\ k.version \in Nat /\ k.asked \in Nat
  <2>1. call[t].target \in Targets
    BY <1>2, CallFields DEF CallFits, Reporting
  <2>2. snap[t].version \in Nat /\ snap[t].asked \in Nat
    BY Fields, BoundsAssumption DEF Versions
  <2> QED BY <1>2, <2>1, <2>2 DEF SeenBy
<1> QED BY <1>1, <1>2, LookOf

\* The looks ascend as long as new ones are of the present moment.
LEMMA LooksGrow ==
    ASSUME Sound, [Next]_vars,
           \A k \in Looks' : k \in Looks \/ (/\ k.target \in Targets
                                             /\ k.version = version'[k.target] /\ k.asked = begun'
                                             /\ version' = version)
    PROVE  LooksAscend'
<1>1. TypeOK /\ LooksAscend /\ \A t \in Tasks : CallFits(t)
  BY DEF Sound, Means
<1>2. /\ \A x \in Targets : version[x] \in Nat /\ version'[x] \in Nat /\ version[x] <= version'[x]
      /\ begun \in Nat /\ begun' \in Nat /\ begun <= begun'
  BY <1>1, Stepping, TypesKeep, BoundsAssumption DEF TypeOK, Versions
<1>3. \A k \in Looks : k.target \in Targets /\ k.version \in Nat /\ k.asked \in Nat
  BY <1>1, LookTypes
<1>4. \A k \in Looks' : k.target \in Targets /\ k.version \in Nat /\ k.asked \in Nat
  BY <1>2, <1>3
<1>5. \A k \in Looks' : k.version <= version'[k.target] /\ k.asked <= begun'
  <2> SUFFICES ASSUME NEW k \in Looks'
               PROVE  k.version <= version'[k.target] /\ k.asked <= begun'
    OBVIOUS
  <2>1. CASE k \in Looks
    BY <1>1, <1>2, <1>3, <2>1 DEF LooksAscend
  <2> QED BY <1>2, <1>4, <2>1
<1>6. ASSUME NEW k \in Looks', NEW l \in Looks', k.target = l.target, k.version < l.version
      PROVE  k.asked <= l.asked
  <2>1. CASE l \in Looks /\ k \in Looks
    BY <1>1, <1>6, <2>1 DEF LooksAscend
  <2>2. CASE l \notin Looks
    BY <1>2, <1>4, <1>5, <2>2
  <2>3. CASE l \in Looks /\ k \notin Looks
    <3>1. l.version <= version'[k.target] /\ k.version = version'[k.target]
      BY <1>5, <1>6, <2>3
    <3> QED BY <1>2, <1>4, <1>6, <3>1
  <2> QED BY <2>1, <2>2, <2>3
<1> QED BY <1>5, <1>6 DEF LooksAscend

\* A report looks at what is there; its case has the same look.
LEMMA LooksKeep ==
    ASSUME Sound, [Next]_vars
    PROVE  LooksAscend'
<1>1. TypeOK /\ \A t \in Tasks : Means(t)
  BY DEF Sound
<1>2. \A c \in cases : Look(c) \in Looks
  BY DEF Looks
<1>3. \A t \in Tasks : Looked(t) /\ Reporting(t) => SeenBy(t) \in Looks
  BY DEF Looks, SeenBy
<1> SUFFICES ASSUME NEW k \in Looks'
             PROVE  k \in Looks \/ (/\ k.target \in Targets
                                    /\ k.version = version'[k.target] /\ k.asked = begun'
                                    /\ version' = version)
  BY LooksGrow
<1>4. CASE \E c \in cases' : k = Look(c)
  <2>1. PICK c \in cases' : k = Look(c)
    BY <1>4
  <2>2. CASE c \in cases
    BY <1>2, <2>1, <2>2
  <2>3. ASSUME NEW t \in Tasks, ReadingStep(t) \/ BeginReport(t) PROVE cases' = cases
    BY <1>1, <2>3, Reading DEF BeginReport
  <2>4. ASSUME NEW t \in Tasks, StoreCase(t), c \notin cases PROVE k \in Looks
    <3>1. c = NewCase(t) /\ Looked(t) /\ Reporting(t)
      BY <2>4, NewCaseFits
    <3>2. /\ c.evidence = [row |-> snap[t].version, rest |-> snap[t].version]
          /\ c.target = call[t].target /\ c.asked = snap[t].asked
      BY <2>4, <3>1, NewCaseFits
    <3>3. Look(c) = SeenBy(t)
      BY <3>2 DEF Look, SeenBy
    <3> QED BY <1>3, <2>1, <3>1, <3>3
  <2>5. ASSUME NEW t \in Tasks, SetCase(t) PROVE k \in Looks
    <3>1. \E d \in cases : c.target = d.target /\ c.evidence = d.evidence /\ c.asked = d.asked
      BY <1>1, <2>2, <2>5, CaseMoves DEF Means
    <3> QED BY <1>2, <2>1, <3>1 DEF Look
  <2> QED BY <1>1, <2>2, <2>3, <2>4, <2>5, Stepping DEF WritingStep
<1>5. ASSUME NEW s \in Tasks, Looked(s)', Reporting(s)', k = SeenBy(s)'
      PROVE  k \in Looks \/ (/\ k.target \in Targets
                             /\ k.version = version'[k.target] /\ k.asked = begun'
                             /\ version' = version)
  <2>1. CASE Stays(s)
    BY <1>3, <1>5, <2>1 DEF Stays, Looked, Reporting, SeenBy
  <2>2. CASE UNCHANGED <<cases, audit, pc, call, snap, found, since>>
    BY <1>3, <1>5, <2>2 DEF Looked, Reporting, SeenBy
  <2>3. CASE TakeSnapshot(s)
    <3>1. call'[s] = call[s] /\ snap'[s] = Now(call[s].target) /\ call[s].target \in Targets
          /\ version' = version /\ begun' = begun
      <4>1. call[s].target \in Targets
        BY <1>1, <2>3, CallFields DEF Means, CallFits, TakeSnapshot
      <4> QED BY <1>1, <2>3, <4>1 DEF TakeSnapshot, data, log, TypeOK
    <3> QED BY <1>5, <3>1 DEF SeenBy, Now
  <2>4. CASE CheckVisible(s) \/ ReadRow(s) \/ RowGone(s) \/ ReadRest(s) \/ ReadStored(s)
    <3>1. snap' = snap /\ call' = call /\ Looked(s)
      BY <2>4 DEF CheckVisible, ReadRow, RowGone, ReadRest, ReadStored, Looked
    <3>2. Reporting(s)
      BY <1>5, <3>1 DEF Reporting, Looked
    <3> QED BY <1>3, <1>5, <3>1, <3>2 DEF SeenBy
  <2>5. ~Looked(s)' \/ Stays(s) \/ TakeSnapshot(s) \/ CheckVisible(s) \/ ReadRow(s) \/ RowGone(s)
        \/ ReadRest(s) \/ ReadStored(s) \/ UNCHANGED <<cases, audit, pc, call, snap, found, since>>
    <3>1. ASSUME (\E r \in Calls : Begin(s, r)) \/ End(s) \/ LockCase(s) \/ WritingStep(s)
          PROVE  ~Looked(s)'
      BY <1>1, <3>1 DEF Begin, End, LockCase, WritingStep, BeginReport, StoreCase, SetCase, Reset,
                        Goto, Looked, TypeOK
    <3> QED BY <1>1, <3>1, Stepping DEF ReadingStep
  <2> QED BY <1>5, <2>1, <2>2, <2>3, <2>4, <2>5
<1>6. (\E c \in cases' : k = Look(c)) \/ \E s \in Tasks : Looked(s)' /\ Reporting(s)' /\ k = SeenBy(s)'
  BY DEF Looks, SeenBy, Look
<1> QED BY <1>4, <1>5, <1>6

-----------------------------------------------------------------------------
(* The audit.                                                              *)

\* The last of some events exists.
LEMMA LastEvent ==
    ASSUME NEW n \in Nat, NEW E \in SUBSET (1..n), E # {}
    PROVE  LET last == CHOOSE i \in E : \A j \in E : j <= i
           IN  last \in E /\ \A j \in E : j <= last
<1>1. E \subseteq Nat /\ IsFiniteSet(E)
  <2>1. IsFiniteSet(1..n)
    BY FS_Interval
  <2>2. E \subseteq 1..n /\ 1..n \subseteq Nat
    OBVIOUS
  <2> QED BY <2>1, <2>2, FS_Subset
<1> DEFINE f == [i \in E |-> i]
<1>2. f \in [E -> Nat]
  BY <1>1
<1>3. PICK m \in E : \A i \in E : f[i] <= f[m]
  <2> HIDE DEF f
  <2> QED BY <1>1, <1>2, Highest
<1>4. \E k \in E : \A i \in E : i <= k
  BY <1>3
<1> QED BY <1>4

\* Where the events are the same, so is the state they leave.
LEMMA SameEvents ==
    ASSUME NEW n \in Nat, NEW a, NEW b, \A i \in 1..n : b[i] = a[i], NEW id
    PROVE  StateAfter(b, id, n) = StateAfter(a, id, n)
<1> DEFINE E == {i \in 1..n : a[i].id = id}
           F == {i \in 1..n : b[i].id = id}
           last == CHOOSE i \in E : \A j \in E : j <= i
<1>1. E = F
  OBVIOUS
<1>2. E # {} => b[last] = a[last]
  <2>1. E \in SUBSET (1..n)
    OBVIOUS
  <2>2. E # {} => last \in E
    <3> HIDE DEF E
    <3> QED BY <2>1, LastEvent
  <2> QED BY <2>1, <2>2
<1>3. StateAfter(a, id, n) = IF E = {} THEN "open" ELSE a[last].to
  BY DEF StateAfter
<1>4. StateAfter(b, id, n) = IF F = {} THEN "open"
                           ELSE b[CHOOSE i \in F : \A j \in F : j <= i].to
  BY DEF StateAfter
<1> HIDE DEF E, F
<1> QED BY <1>1, <1>2, <1>3, <1>4

\* One more event moves the case it is about.
LEMMA OneMoreEvent ==
    ASSUME NEW trail, NEW n \in Nat, NEW id
    PROVE  StateAfter(trail, id, n + 1) = IF trail[n + 1].id = id THEN trail[n + 1].to
                                                           ELSE StateAfter(trail, id, n)
<1> DEFINE E == {i \in 1..n : trail[i].id = id}
           F == {i \in 1..(n + 1) : trail[i].id = id}
           last == CHOOSE i \in F : \A j \in F : j <= i
<1>1. CASE trail[n + 1].id # id
  <2>1. F = E
    <3>1. \A i \in 1..(n + 1) : i \in 1..n \/ i = n + 1
      OBVIOUS
    <3>2. \A i \in 1..n : i \in 1..(n + 1)
      OBVIOUS
    <3> QED BY <1>1, <3>1, <3>2
  <2>2. /\ StateAfter(trail, id, n) = IF E = {} THEN "open"
                                      ELSE trail[CHOOSE i \in E : \A j \in E : j <= i].to
        /\ StateAfter(trail, id, n + 1) = IF F = {} THEN "open"
                                          ELSE trail[CHOOSE i \in F : \A j \in F : j <= i].to
    BY DEF StateAfter
  <2> HIDE DEF E, F
  <2> QED BY <1>1, <2>1, <2>2
<1>2. CASE trail[n + 1].id = id
  <2>1. n + 1 \in F /\ F \in SUBSET (1..(n + 1)) /\ n + 1 \in Nat
    <3>1. n + 1 \in 1..(n + 1) /\ n + 1 \in Nat
      OBVIOUS
    <3>2. \A i \in 1..(n + 1) : trail[i].id = id => i \in F
      OBVIOUS
    <3> QED BY <1>2, <3>1, <3>2
  <2>2. last \in F /\ \A j \in F : j <= last
    <3> HIDE DEF F
    <3> QED BY <2>1, LastEvent
  <2>3. last = n + 1
    <3>1. last \in 1..(n + 1) /\ n + 1 <= last
      <4>1. \A i \in F : i \in 1..(n + 1)
        OBVIOUS
      <4>2. last \in F /\ n + 1 <= last
        BY <2>1, <2>2
      <4> HIDE DEF F, last
      <4> QED BY <4>1, <4>2
    <3> HIDE DEF last
    <3> QED BY <3>1
  <2>4. StateAfter(trail, id, n + 1) = IF F = {} THEN "open" ELSE trail[last].to
    BY DEF StateAfter
  <2> QED BY <1>2, <2>1, <2>3, <2>4
<1> QED BY <1>1, <1>2

\* A command that moves a case continues its chain.
LEMMA ChainKeep ==
    ASSUME Sound, [Next]_vars
    PROVE  CaseAuditChain'
<1>1. TypeOK /\ CaseAuditChain /\ EventsOfCases /\ \A t \in Tasks : Means(t)
  BY DEF Sound
<1> DEFINE Events == [id : CaseIds, from : States, to : States]
           n == Len(audit)
<1>2. audit \in Seq(Events) /\ n \in Nat /\ DOMAIN audit = 1..n
  BY <1>1 DEF TypeOK
<1>3. CASE cases' = cases /\ audit' = audit
  BY <1>1, <1>3 DEF CaseAuditChain
<1>4. ASSUME NEW t \in Tasks, StoreCase(t) PROVE CaseAuditChain'
  <2>1. /\ audit' = audit /\ cases' = cases \union {NewCase(t)}
        /\ NewCase(t).state = "open" /\ \A c \in cases : c.id # NewCase(t).id
    BY <1>4, NewCaseFits
  <2>2. \A i \in DOMAIN audit : audit[i].id # NewCase(t).id
    BY <1>1, <2>1 DEF EventsOfCases
  <2>3. StateAfter(audit, NewCase(t).id, n) = "open"
    BY <1>2, <2>2 DEF StateAfter
  <2>4. \A c \in cases' : c \in cases \/ c = NewCase(t)
    BY <2>1
  <2> QED BY <1>1, <2>1, <2>2, <2>3, <2>4 DEF CaseAuditChain
<1>5. ASSUME NEW t \in Tasks, SetCase(t), cases' = {Moved(t, c) : c \in cases},
             audit' = Append(audit, Event(t))
      PROVE  CaseAuditChain'
  <2>1. Event(t) \in Events /\ CallFits(t)
    BY <1>1, <1>5, CaseMoves DEF Means
  <2>2. /\ audit' \in Seq(Events) /\ DOMAIN audit' = 1..(n + 1) /\ Len(audit') = n + 1
        /\ \A i \in 1..n : audit'[i] = audit[i]
        /\ audit'[n + 1] = Event(t)
    <3>1. audit' \in Seq(Events) /\ Len(audit') = n + 1
      BY <1>2, <1>5, <2>1, Appended
    <3> QED BY <1>2, <1>5, <2>1, <3>1, Appended
  <2>3. Event(t).id = call[t].id /\ Event(t).from = found[t].state /\ Event(t).to = call[t].to
    BY DEF Event
  <2>4. ASSUME NEW id, NEW m \in 0..n
        PROVE  StateAfter(audit', id, m) = StateAfter(audit, id, m)
    <3>1. m \in Nat /\ \A i \in 1..m : audit'[i] = audit[i]
      BY <1>2, <2>2
    <3> HIDE DEF n
    <3> QED BY <3>1, SameEvents
  <2>5. ASSUME NEW id
        PROVE  StateAfter(audit', id, n + 1) = IF call[t].id = id THEN call[t].to
                                                                  ELSE StateAfter(audit, id, n)
    <3>1. StateAfter(audit', id, n + 1) = IF audit'[n + 1].id = id
                                            THEN audit'[n + 1].to
                                            ELSE StateAfter(audit', id, n)
      BY <1>2, OneMoreEvent
    <3>2. StateAfter(audit', id, n) = StateAfter(audit, id, n)
      BY <1>2, <2>4
    <3> QED BY <2>2, <2>3, <3>1, <3>2
  <2>6. ASSUME NEW c \in cases', NEW i \in 1..(n + 1), audit'[i].id = c.id
        PROVE  audit'[i].from = StateAfter(audit', c.id, i - 1)
    <3>1. PICK d \in cases : c = Moved(t, d)
      BY <1>5
    <3>2. c.id = d.id
      BY <1>1, <1>5, <2>1, <3>1, CaseMoves
    <3>3. i - 1 \in 0..n /\ StateAfter(audit', c.id, i - 1) = StateAfter(audit, c.id, i - 1)
      BY <1>2, <2>4
    <3>4. CASE i \in 1..n
      BY <1>1, <1>2, <2>2, <2>6, <3>2, <3>3, <3>4 DEF CaseAuditChain
    <3>5. CASE i = n + 1
      <4>1. d.id = call[t].id /\ i - 1 = n
        BY <1>2, <2>2, <2>3, <2>6, <3>2, <3>5
      <4>2. d.state = found[t].state
        BY <1>1, <1>5, <4>1 DEF Means, HoldsCase, SetCase
      <4> QED BY <1>1, <2>2, <2>3, <3>2, <3>3, <3>5, <4>1, <4>2 DEF CaseAuditChain
    <3> QED BY <1>2, <3>4, <3>5
  <2>7. ASSUME NEW c \in cases' PROVE c.state = StateAfter(audit', c.id, n + 1)
    <3>1. PICK d \in cases : c = Moved(t, d)
      BY <1>5
    <3>2. c.id = d.id /\ c.state = IF d.id = call[t].id THEN call[t].to ELSE d.state
      BY <1>1, <1>5, <2>1, <3>1, CaseMoves
    <3> QED BY <1>1, <2>5, <3>2 DEF CaseAuditChain
  <2> HIDE DEF n
  <2> QED BY <2>2, <2>6, <2>7 DEF CaseAuditChain
<1>6. \A t \in Tasks : ReadingStep(t) => cases' = cases /\ audit' = audit
  BY <1>1, Reading
<1>7. \A t \in Tasks : BeginReport(t) => cases' = cases /\ audit' = audit
  BY DEF BeginReport
<1>8. \A t \in Tasks : SetCase(t) => \/ cases' = cases /\ audit' = audit
                                     \/ /\ cases' = {Moved(t, c) : c \in cases}
                                        /\ audit' = Append(audit, Event(t))
  BY <1>1, CaseMoves DEF Means
<1> QED BY <1>1, <1>3, <1>4, <1>5, <1>6, <1>7, <1>8, Stepping DEF WritingStep

-----------------------------------------------------------------------------
(* Positions.                                                              *)

\* The lock on a case is one command's, and what it read stays true under the lock.
LEMMA HoldsKeep ==
    ASSUME Sound, [Next]_vars, NEW s \in Tasks
    PROVE  HoldsCase(s)'
<1>1. TypeOK /\ \A t \in Tasks : Means(t) /\ HoldsCase(t)
  BY DEF Sound, Means
<1>2. CASE UNCHANGED <<cases, pc, call, found>>
  BY <1>1, <1>2 DEF HoldsCase
<1>3. ASSUME NEW t \in Tasks, \A r \in Tasks \ {t} : Stays(r),
             cases' = cases, pc'[t] # "update"
      PROVE  HoldsCase(s)'
  BY <1>1, <1>3 DEF HoldsCase, Stays
<1>4. ASSUME NEW t \in Tasks, \A r \in Tasks \ {t} : Stays(r), LockCase(t)
      PROVE  HoldsCase(s)'
  <2>1. /\ cases' = cases /\ call' = call
        /\ \A r \in Tasks \ {t} : pc'[r] = pc[r] /\ found'[r] = found[r]
        /\ \A r \in Tasks : pc[r] = "update" => call[r].id # call[t].id
    BY <1>4 DEF LockCase, CaseLocked, Stays, log
  <2>2. PICK c \in cases : c.id = call[t].id /\ found' = [found EXCEPT ![t].state = c.state]
    BY <1>4 DEF LockCase
  <2>3. found'[t].state = c.state
    BY <1>1, <2>2 DEF TypeOK
  <2>4. \A d \in cases : d.id = call[t].id => d = c
    BY <1>1, <2>2 DEF TypeOK
  <2>5. CASE s = t
    BY <2>1, <2>2, <2>3, <2>4, <2>5 DEF HoldsCase
  <2>6. CASE s # t
    BY <1>1, <2>1, <2>6 DEF HoldsCase
  <2> QED BY <2>5, <2>6
<1>5. ASSUME NEW t \in Tasks, \A r \in Tasks \ {t} : Stays(r), StoreCase(t)
      PROVE  HoldsCase(s)'
  <2>1. /\ cases' = cases \union {NewCase(t)}
        /\ \A c \in cases : c.id # NewCase(t).id
    BY <1>5, NewCaseFits
  <2>2. pc'[t] # "update"
    BY <1>1, <1>5 DEF StoreCase, Reset, Goto, TypeOK
  <2> QED BY <1>1, <1>5, <2>1, <2>2 DEF HoldsCase, Stays
<1>6. ASSUME NEW t \in Tasks, \A r \in Tasks \ {t} : Stays(r), SetCase(t)
      PROVE  HoldsCase(s)'
  <2>1. pc[t] = "update" /\ pc'[t] # "update" /\ CallFits(t)
    BY <1>1, <1>6 DEF SetCase, Reset, Goto, TypeOK, Means
  <2>2. CASE cases' = cases
    BY <1>3, <1>6, <2>1, <2>2
  <2>3. CASE cases' = {Moved(t, c) : c \in cases} /\ s # t /\ pc[s] = "update"
    <3>1. call[s].id # call[t].id
      BY <1>1, <2>1, <2>3 DEF HoldsCase
    <3>2. \A c \in cases : /\ Moved(t, c).id = c.id
                           /\ c.id = call[s].id => Moved(t, c).state = c.state
      BY <1>1, <1>6, <2>1, <3>1, CaseMoves
    <3> QED BY <1>1, <1>6, <2>1, <2>3, <3>2 DEF HoldsCase, Stays
  <2>4. CASE s = t \/ pc[s] # "update"
    BY <1>6, <2>1, <2>4 DEF HoldsCase, Stays
  <2> QED BY <1>1, <1>6, <2>1, <2>2, <2>3, <2>4, CaseMoves
<1>7. ASSUME NEW t \in Tasks, ReadingStep(t) \/ BeginReport(t)
      PROVE  cases' = cases /\ (pc'[t] # "update" \/ LockCase(t))
  <2>1. CASE (\E r \in Calls : Begin(t, r)) \/ End(t) \/ BeginReport(t)
    BY <1>1, <2>1 DEF Begin, End, BeginReport, Reset, Goto, TypeOK, log
  <2>2. CASE TakeSnapshot(t) \/ CheckVisible(t) \/ ReadRow(t) \/ RowGone(t) \/ ReadRest(t)
             \/ ReadStored(t) \/ LockCase(t)
    BY <1>1, <2>2 DEF TakeSnapshot, CheckVisible, ReadRow, RowGone, ReadRest, ReadStored,
                      LockCase, Goto, TypeOK, log
  <2> QED BY <1>7, <2>1, <2>2 DEF ReadingStep
<1> QED BY <1>1, <1>2, <1>3, <1>4, <1>5, <1>6, <1>7, Stepping DEF WritingStep

\* What a task has read means the same while others move.
LEMMA OthersMean ==
    ASSUME Sound, [Next]_vars, NEW s \in Tasks, Stays(s)
    PROVE  Means(s)'
<1>1. TypeOK /\ Means(s)
  BY DEF Sound
<1>2. CallFits(s)' /\ Began(s)' /\ ReadsSnapshot(s)' /\ ShowsCases(s)' /\ ShowsLast(s)'
  BY <1>1 DEF Stays, Means, CallFits, Began, ReadsSnapshot, ShowsCases, ShowsLast, Coherent,
              Reporting, Looked
<1>3. Since(s)'
  <2>1. CASE pc[s] \in {"idle", "lock", "update"}
    BY <1>1, <2>1 DEF Stays, Since, Looked
  <2>2. CASE pc[s] \notin {"idle", "lock", "update"}
    <3>1. call[s].target \in Targets
      BY <1>1, <2>2, CallFields DEF Means, CallFits, TypeOK, Steps
    <3>2. /\ version[call[s].target] \in Nat /\ version'[call[s].target] \in Nat
          /\ version[call[s].target] <= version'[call[s].target]
      <4>1. version \in [Targets -> Versions] /\ version' \in [Targets -> Versions]
        BY <1>1, TypesKeep DEF TypeOK
      <4>2. version[call[s].target] \in Versions /\ version'[call[s].target] \in Versions
        BY <3>1, <4>1
      <4> QED BY <1>1, <3>1, <4>2, Stepping DEF Versions
    <3>3. since[s] \in Nat /\ snap[s].version \in Nat
      BY <1>1, Fields DEF TypeOK, Versions
    <3> QED BY <1>1, <3>2, <3>3 DEF Stays, Means, Since, Looked
  <2> QED BY <2>1, <2>2
<1> QED BY <1>2, <1>3, HoldsKeep DEF Means

\* Numbers of states are comparable.
LEMMA Numbers ==
    ASSUME TypeOK, NEW t \in Tasks
    PROVE  /\ since[t] \in Nat /\ snap[t].version \in Nat /\ found[t].id \in Nat
           /\ begun \in Nat /\ \A x \in Targets : version[x] \in Nat
<1>1. since[t] \in Versions /\ \A x \in Targets : version[x] \in Versions
  BY DEF TypeOK
<1>2. snap[t].version \in Versions /\ found[t].id \in 0..MaxReports /\ begun \in 0..MaxReports
  BY Fields DEF TypeOK
<1> QED BY <1>1, <1>2 DEF Versions

\* What a task that moves has read.
LEMMA MoverMeans ==
    ASSUME Sound, [Next]_vars, NEW t \in Tasks, ReadingStep(t) \/ WritingStep(t)
    PROVE  Means(t)'
<1>1. TypeOK /\ Means(t)
  BY DEF Sound
<1> DEFINE Position == /\ CallFits(t)' /\ Since(t)' /\ Began(t)' /\ ReadsSnapshot(t)'
                       /\ ShowsCases(t)' /\ ShowsLast(t)'
<1> SUFFICES Position
  BY HoldsKeep DEF Means
<1> USE DEF Goto, data, log
<1>2. ASSUME pc'[t] = "idle", snap'[t] = NoView PROVE Position
  BY <1>2 DEF CallFits, Since, Began, ReadsSnapshot, ShowsCases, ShowsLast, Reporting,
              Looked, Coherent, NoView
<1>3. ASSUME NEW r \in Calls, Begin(t, r) PROVE Position
  <2>1. /\ pc'[t] = IF r.op = "state" THEN "lock" ELSE "begin"
        /\ call'[t] = r /\ snap' = snap /\ version' = version
        /\ r.op # "state" => since'[t] = version[r.target]
    BY <1>1, <1>3 DEF Begin, TypeOK
  <2>2. /\ r.op \in {"report", "review", "state"}
        /\ r.op # "state" => version[r.target] \in Nat
    BY <1>1, CallFields, Numbers
  <2>3. CallFits(t)' /\ Since(t)'
    BY <2>1, <2>2 DEF CallFits, Since, Looked
  <2>4. Began(t)' /\ ReadsSnapshot(t)' /\ ShowsLast(t)'
    BY <2>1, <2>2 DEF Began, Reporting, Looked, ReadsSnapshot, ShowsLast
  <2>5. ShowsCases(t)'
    BY <1>1, <2>1 DEF Means, ShowsCases, Coherent
  <2> QED BY <2>3, <2>4, <2>5
<1>4. CASE BeginReport(t)
  <2>1. /\ pc[t] = "begin" /\ call[t].op = "report" /\ pc'[t] = "begun" /\ call' = call
        /\ snap' = snap /\ version' = version /\ since' = since
        /\ found'[t].id = begun + 1 /\ begun + 1 # 0
    BY <1>1, <1>4, Numbers DEF BeginReport, FreshId, TypeOK
  <2>2. CallFits(t)' /\ Since(t)'
    BY <1>1, <2>1 DEF Means, CallFits, Since, Looked
  <2>3. Began(t)' /\ ReadsSnapshot(t)' /\ ShowsLast(t)'
    BY <2>1 DEF Began, Reporting, Looked, ReadsSnapshot, ShowsLast
  <2>4. ShowsCases(t)'
    BY <1>1, <2>1 DEF Means, ShowsCases, Coherent
  <2> QED BY <2>2, <2>3, <2>4
<1>5. CASE TakeSnapshot(t)
  <2> DEFINE x == call[t].target
  <2>1. /\ \/ pc[t] = "begun" /\ call[t].op = "report" /\ pc'[t] = "visible"
           \/ pc[t] = "begin" /\ call[t].op = "review" /\ pc'[t] = "row"
        /\ snap'[t] = Now(x) /\ call' = call /\ found' = found /\ since' = since
        /\ version' = version
    BY <1>1, <1>5 DEF TakeSnapshot, TypeOK, Means, CallFits
  <2>2. /\ snap'[t].version = version[x] /\ snap'[t].asked = begun
        /\ snap'[t].cases = {c \in cases : c.target = x}
    BY <2>1 DEF Now
  <2>3. x \in Targets /\ version[x] \in Nat /\ since[t] \in Nat
    <3>1. x \in Targets
      BY <1>1, <2>1, CallFields DEF Means, CallFits
    <3> QED BY <1>1, <3>1, Numbers
  <2>4. CallFits(t)' /\ Since(t)'
    BY <1>1, <2>1, <2>2, <2>3 DEF Means, CallFits, Since, Looked
  <2>5. Began(t)'
    <3>1. Reporting(t)' => found[t].id # 0 /\ found[t].id <= begun
      BY <1>1, <2>1 DEF Sound, Means, IdsOwned, Began, Reporting
    <3> QED BY <2>1, <2>2, <3>1 DEF Began, Reporting, Looked
  <2>6. ReadsSnapshot(t)' /\ ShowsLast(t)'
    BY <2>1 DEF ReadsSnapshot, ShowsLast
  <2>7. ShowsCases(t)'
    BY <2>2 DEF ShowsCases, Coherent, Sound
  <2> QED BY <2>4, <2>5, <2>6, <2>7
<1>6. ASSUME pc[t] \in {"visible", "row", "rest", "stored"}, CallFits(t)', ReadsSnapshot(t)',
             ShowsLast(t)', Looked(t)',
             call' = call, snap' = snap, since' = since, version' = version,
             found'[t].id = found[t].id
      PROVE  Position
  <2>1. Since(t)' /\ Began(t)'
    BY <1>1, <1>6 DEF Means, Since, Began, Reporting, Looked
  <2>2. ShowsCases(t)'
    BY <1>1, <1>6 DEF Means, ShowsCases, Coherent
  <2> QED BY <1>6, <2>1, <2>2
<1>7. CASE CheckVisible(t) \/ RowGone(t)
  <2>1. /\ pc[t] \in {"visible", "row"} /\ call' = call /\ snap' = snap /\ since' = since
        /\ version' = version /\ found' = found
        /\ \/ pc'[t] = "row" /\ pc[t] = "visible"
           \/ pc'[t] = "stored" /\ call[t].op = "review" /\ snap[t].gone
    BY <1>1, <1>7 DEF CheckVisible, RowGone, View, TypeOK
  <2>2. CallFits(t)' /\ ReadsSnapshot(t)' /\ ShowsLast(t)' /\ Looked(t)'
    BY <1>1, <2>1 DEF Means, CallFits, ReadsSnapshot, ShowsLast, Looked
  <2> QED BY <1>6, <2>1, <2>2
<1>8. CASE ReadRow(t)
  <2>1. /\ pc[t] = "row" /\ call' = call /\ snap' = snap /\ since' = since
        /\ version' = version /\ found'[t].id = found[t].id
        /\ pc'[t] = "rest" /\ ~snap[t].gone /\ found'[t].reading.row = snap[t].version
    BY <1>1, <1>8 DEF ReadRow, View, TypeOK, Readings
  <2>2. CallFits(t)' /\ ReadsSnapshot(t)' /\ ShowsLast(t)' /\ Looked(t)'
    BY <1>1, <2>1 DEF Means, CallFits, ReadsSnapshot, ShowsLast, Looked
  <2> QED BY <1>6, <2>1, <2>2
<1>9. CASE ReadRest(t)
  <2>1. /\ pc[t] = "rest" /\ call' = call /\ snap' = snap /\ since' = since
        /\ version' = version /\ found'[t].id = found[t].id /\ ~snap[t].gone
        /\ pc'[t] = IF call[t].op = "report" THEN "insert" ELSE "answered"
    BY <1>1, <1>9 DEF ReadRest, Means, ReadsSnapshot, TypeOK
  <2>2. found'[t].reading = [row |-> snap[t].version, rest |-> snap[t].version]
    <3>1. found[t].reading.row = snap[t].version /\ found[t].reading \in Readings
      BY <1>1, <2>1, Fields DEF Means, ReadsSnapshot
    <3>2. found'[t].reading = [found[t].reading EXCEPT !.rest = snap[t].version]
      BY <1>1, <1>9, <2>1 DEF ReadRest, View, TypeOK
    <3> QED BY <3>1, <3>2 DEF Readings
  <2>3. CallFits(t)' /\ ReadsSnapshot(t)' /\ ShowsLast(t)' /\ Looked(t)'
    BY <1>1, <2>1, <2>2 DEF Means, CallFits, ReadsSnapshot, ShowsLast, Looked
  <2> QED BY <1>6, <2>1, <2>3
<1>10. CASE ReadStored(t)
  <2> DEFINE S == snap[t].cases
  <2>1. /\ pc[t] = "stored" /\ call' = call /\ snap' = snap /\ since' = since
        /\ version' = version /\ found'[t].id = found[t].id
        /\ pc'[t] = "answered" /\ snap[t].gone /\ S # {}
        /\ found'[t].reading = LastOpened(S).evidence
    BY <1>1, <1>10 DEF ReadStored, View, Means, ReadsSnapshot, TypeOK
  <2>2. S \in SUBSET Cases
    BY <1>1, Fields
  <2>3. LastOpened(S) \in S /\ \A d \in S : d.id <= LastOpened(S).id
    BY <2>1, <2>2, LastOf
  <2>4. CallFits(t)' /\ ReadsSnapshot(t)' /\ Looked(t)'
    BY <1>1, <2>1 DEF Means, CallFits, ReadsSnapshot, Looked
  <2>5. ShowsLast(t)'
    BY <2>1, <2>3 DEF ShowsLast
  <2> QED BY <1>6, <2>1, <2>4, <2>5
<1>11. CASE LockCase(t)
  <2>1. /\ pc[t] = "lock" /\ call' = call /\ snap' = snap /\ pc'[t] = "update"
        /\ call[t].op = "state"
    BY <1>1, <1>11 DEF LockCase, TypeOK, Means, CallFits
  <2>2. CallFits(t)' /\ Since(t)' /\ Began(t)' /\ ReadsSnapshot(t)' /\ ShowsLast(t)'
    BY <1>1, <2>1 DEF Means, CallFits, Since, Began, Reporting, Looked, ReadsSnapshot, ShowsLast
  <2>3. ShowsCases(t)'
    BY <1>1, <2>1 DEF Means, ShowsCases, Coherent
  <2> QED BY <2>2, <2>3
<1>12. End(t) \/ StoreCase(t) \/ SetCase(t) => pc'[t] = "idle" /\ snap'[t] = NoView
  BY <1>1 DEF End, StoreCase, SetCase, Reset, TypeOK
<1> QED
  BY <1>2, <1>3, <1>4, <1>5, <1>7, <1>8, <1>9, <1>10, <1>11, <1>12 DEF ReadingStep, WritingStep

\* The invariant is inductive.
LEMMA SoundStep == Sound /\ [Next]_vars => Sound'
<1> SUFFICES ASSUME Sound, [Next]_vars PROVE Sound'
  OBVIOUS
<1>1. TypeOK' /\ LooksAscend'
  BY TypesKeep, LooksKeep
<1>2. Coherent(cases)' /\ IdsOwned' /\ EventsOfCases' /\ CaseAuditChain'
  BY <1>1, CasesKeep, IdsKeep, EventsKeep, ChainKeep
<1>3. ASSUME NEW s \in Tasks PROVE Means(s)'
  <2>1. TypeOK
    BY DEF Sound
  <2>2. CASE UNCHANGED <<cases, audit, pc, call, snap, found, since>>
    BY <2>2, OthersMean DEF Stays
  <2> QED BY <2>1, <2>2, Stepping, OthersMean, MoverMeans
<1> QED BY <1>1, <1>2, <1>3 DEF Sound

LEMMA SoundHolds == Spec => []Sound
BY SoundInit, SoundStep, PTL DEF Spec

-----------------------------------------------------------------------------
(* What the evidence is worth.                                             *)

\* Rows, audit events, snapshots and positions keep their ranges.
THEOREM TypeCorrect == Spec => []TypeOK
<1>1. Sound => TypeOK
  BY DEF Sound
<1> QED BY <1>1, SoundHolds, PTL

\* The audit of every case is one chain from its opening to its state, whatever
\* moderators move it at the same time.
THEOREM AuditIsAChain == Spec => []CaseAuditChain
<1>1. Sound => CaseAuditChain
  BY DEF Sound
<1> QED BY <1>1, SoundHolds, PTL

\* What a review answers is whole, and the latest that is stored of a deleted target;
\* evidence that is newer belongs to a report that overlapped the one shown.
THEOREM ReviewIsLatest == Spec => []ReviewTellsTheLatest
<1>1. Sound => ReviewTellsTheLatest
  <2> SUFFICES ASSUME Sound PROVE ReviewTellsTheLatest
    OBVIOUS
  <2> DEFINE shown(t) == found[t].reading
             S(t) == snap[t].cases
  <2>1. TypeOK
    BY DEF Sound
  <2>2. ASSUME NEW t \in Tasks, pc[t] = "answered", ~snap[t].gone
        PROVE  /\ shown(t).row = shown(t).rest
               /\ shown(t).row \in since[t]..version[call[t].target]
    <3>1. shown(t) = [row |-> snap[t].version, rest |-> snap[t].version]
      BY <2>2 DEF Sound, Means, ReadsSnapshot
    <3>2. since[t] <= snap[t].version /\ snap[t].version <= version[call[t].target]
      BY <2>2 DEF Sound, Means, Since, Looked
    <3>3. call[t].target \in Targets
      BY <2>2, CallFields DEF Sound, Means, CallFits
    <3> QED BY <2>1, <3>1, <3>2, <3>3, Numbers
  <2>3. ASSUME NEW t \in Tasks, pc[t] = "answered", snap[t].gone
        PROVE  /\ shown(t).row = shown(t).rest
               /\ \E c \in S(t) :
                     /\ c.evidence = shown(t)
                     /\ \A d \in S(t) :
                          d.evidence.row > shown(t).row => d.id < c.id /\ d.asked >= c.id
    <3>1. PICK c \in S(t) : shown(t) = c.evidence /\ \A d \in S(t) : d.id <= c.id
      BY <2>3 DEF Sound, Means, ShowsLast
    <3>2. Coherent(S(t)) /\ \A d \in S(t) : d.target = c.target
      BY DEF Sound, Means, ShowsCases
    <3>3. \A d \in S(t) : /\ d.id \in Nat /\ d.asked \in Nat
                          /\ d.evidence.row \in Nat
      <4>1. S(t) \subseteq Cases
        BY <2>1, Fields
      <4> QED BY <2>1, <4>1, Fields DEF CaseIds
    <3>4. ASSUME NEW d \in S(t), d.evidence.row > shown(t).row
          PROVE  d.id < c.id /\ d.asked >= c.id
      <4>1. c.evidence.row < d.evidence.row /\ c # d
        BY <3>1, <3>3, <3>4
      <4>2. c.asked <= d.asked /\ c.id <= c.asked /\ c.id # d.id
        BY <3>2, <4>1 DEF Coherent
      <4> QED BY <3>1, <3>3, <4>2
    <3> QED BY <3>1, <3>2, <3>4 DEF Coherent
  <2> QED BY <2>2, <2>3 DEF ReviewTellsTheLatest
<1> QED BY <1>1, SoundHolds, PTL

\* The evidence that a case is committed with is one state of its target, whole, which
\* the target had while the report was under way.
THEOREM EvidenceMoment == Spec => EvidenceIsAMoment
<1> DEFINE Moment == \A c \in cases' : c.id \notin {d.id : d \in cases} =>
                       \E t \in Tasks : /\ call[t] = [op |-> "report", target |-> c.target]
                                        /\ found[t].id = c.id
                                        /\ c.evidence.row = c.evidence.rest
                                        /\ c.evidence.row \in since[t]..version[c.target]
<1>1. Sound /\ [Next]_vars => Moment
  <2> SUFFICES ASSUME Sound, [Next]_vars, NEW c \in cases', \A d \in cases : c.id # d.id
               PROVE  \E t \in Tasks : /\ call[t] = [op |-> "report", target |-> c.target]
                                       /\ found[t].id = c.id
                                       /\ c.evidence.row = c.evidence.rest
                                       /\ c.evidence.row \in since[t]..version[c.target]
    OBVIOUS
  <2>1. TypeOK /\ \A t \in Tasks : Means(t)
    BY DEF Sound
  <2>2. c \notin cases
    OBVIOUS
  <2>3. \A t \in Tasks : ~SetCase(t)
    BY <2>1, CaseMoves DEF Means
  <2>4. \A t \in Tasks : ~ReadingStep(t) /\ ~BeginReport(t)
    BY <2>1, <2>2, Reading DEF BeginReport
  <2>5. PICK t \in Tasks : StoreCase(t)
    BY <2>1, <2>2, <2>3, <2>4, Stepping DEF WritingStep
  <2>6. c = NewCase(t)
    BY <2>2, <2>5, NewCaseFits
  <2>7. /\ found[t].id = c.id /\ c.target = call[t].target /\ Looked(t) /\ Reporting(t)
        /\ c.evidence = [row |-> snap[t].version, rest |-> snap[t].version]
    BY <2>5, <2>6, NewCaseFits
  <2>8. call[t] = [op |-> "report", target |-> c.target] /\ c.target \in Targets
    <3>1. call[t] \in Calls /\ call[t].op = "report"
      BY <2>1, <2>7 DEF Means, CallFits, Reporting
    <3>2. call[t] \in [op : {"report", "review"}, target : Targets]
      BY <3>1 DEF Calls
    <3> QED BY <2>7, <3>1, <3>2
  <2>9. since[t] <= snap[t].version /\ snap[t].version <= version[c.target]
    BY <2>1, <2>7 DEF Means, Since, Looked
  <2>10. since[t] \in Nat /\ snap[t].version \in Nat /\ version[c.target] \in Nat
    BY <2>1, <2>8, Numbers
  <2>11. c.evidence.row = c.evidence.rest /\ c.evidence.row \in since[t]..version[c.target]
    BY <2>7, <2>9, <2>10
  <2> QED BY <2>7, <2>8, <2>11
<1>2. Sound /\ [Next]_vars => [Moment]_vars
  BY <1>1
<1> HIDE DEF Moment
<1>3. Spec => [][Moment]_vars
  BY <1>2, SoundHolds, PTL DEF Spec
<1> QED BY <1>3 DEF EvidenceIsAMoment, Moment
=============================================================================
