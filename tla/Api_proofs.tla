----------------------------- MODULE Api_proofs -----------------------------
(***************************************************************************)
(* Proofs about Api for any workers, projects, keys and spans: types, the  *)
(* creation of projects, stable identities, and what a caller is shown.    *)
(*                                                                         *)
(* Everything rests on the rows being appended only (RowsGrow): then the   *)
(* first row with a key stays the first (OpensStays).  What a worker knows *)
(* of its caller, decided in an earlier transaction, is therefore still    *)
(* true when it answers (CallerInv), and so is what was answered           *)
(* (AnswerInv), while other workers create projects.                       *)
(***************************************************************************)
EXTENDS Api, TLAPS

\* A worker's caller still is who he was found to be.
CallerInv == \A w \in Workers : request[w] # Idle => Admits(token[w], who[w])

AnswerInv == Isolation /\ FailClosed

Inv == TypeOK /\ CreatedOnce /\ CallerInv /\ AnswerInv

\* No row is changed or removed.
RowsGrow ==
    /\ Len(rows) <= Len(rows')
    /\ \A i \in DOMAIN rows : rows'[i] = rows[i]

-----------------------------------------------------------------------------
\* No request is the mark of a worker without one.
LEMMA IdleIsNone == Idle \notin Requests
  BY DEF Idle, Requests, Asked

LEMMA InitInv == Init => Inv
<1> SUFFICES ASSUME Init PROVE Inv
  OBVIOUS
<1> USE ApiAssumption
<1>1. TypeOK
  BY IdleIsNone DEF Init, TypeOK, Rows, NoAnswer, Keys
<1>2. CreatedOnce /\ CallerInv
  BY DEF Init, CreatedOnce, CallerInv
<1>3. AnswerInv
  BY DEF Init, AnswerInv, Isolation, FailClosed, NoAnswer
<1> QED
  BY <1>1, <1>2, <1>3 DEF Inv

\* As long as rows are only appended, a key opens what it opened.
LEMMA OpensStays ==
    ASSUME TypeOK, TypeOK', RowsGrow, UNCHANGED settings, NEW key, NEW i
    PROVE  /\ Opens(key, i) => Opens(key, i)'
           /\ Admits(key, i) => Admits(key, i)'
<1>1. DOMAIN rows = 1..Len(rows) /\ DOMAIN rows' = 1..Len(rows') /\ Len(rows) \in Nat /\ Len(rows') \in Nat
  BY DEF TypeOK
<1>2. ASSUME Opens(key, i) PROVE Opens(key, i)'
  <2>1. PICK n \in DOMAIN rows : /\ rows[n] = [id |-> i, key |-> key]
                                 /\ \A j \in 1..(n - 1) : rows[j].key # key
    BY <1>2 DEF Opens
  <2>2. n \in DOMAIN rows' /\ rows'[n] = [id |-> i, key |-> key]
    BY <1>1, <2>1 DEF RowsGrow
  <2>3. \A j \in 1..(n - 1) : rows'[j].key # key
    BY <1>1, <2>1 DEF RowsGrow
  <2> QED
    BY <1>2, <2>2, <2>3 DEF Opens
<1> QED
  BY <1>2 DEF Admits, settings

-----------------------------------------------------------------------------
\* What a worker may show its caller.
MayShow(w) ==
    {s \in Spans \union Projects :
       \/ token[w] = apiKey
       \/ Opens(token[w], IF s \in Spans THEN ProjectOf[s] ELSE s)}

\* What the answers of all endpoints have in common.
Answers(w) ==
    /\ request[w] # Idle
    /\ \E status \in {0, 200, 201, 403, 404, 409, 500} :
       \E found \in SUBSET MayShow(w) : Respond(w, status, found)

\* A new project: one row more, with an id that was free.
LEMMA Inserted ==
    ASSUME TypeOK, CreatedOnce, NEW row \in Rows, ~Taken(row.id),
           rows' = Append(rows, row), issued' \in {issued, issued \union {row}}
    PROVE  /\ rows' \in Seq(Rows)
           /\ RowsGrow
           /\ CreatedOnce'
           /\ issued' \subseteq Rows
<1>1. /\ rows \in Seq(Rows) /\ Len(rows) \in Nat /\ DOMAIN rows = 1..Len(rows)
      /\ issued \subseteq Rows
  BY DEF TypeOK
<1>2. /\ rows' \in Seq(Rows) /\ Len(rows') = Len(rows) + 1
      /\ DOMAIN rows' = 1..(Len(rows) + 1)
      /\ rows'[Len(rows) + 1] = row
      /\ \A i \in DOMAIN rows : rows'[i] = rows[i]
  BY <1>1
<1>3. RowsGrow
  BY <1>1, <1>2 DEF RowsGrow
<1>4. ASSUME NEW i \in DOMAIN rows', NEW j \in DOMAIN rows', rows'[i].id = rows'[j].id
      PROVE  i = j
  <2>1. CASE i \in DOMAIN rows /\ j \in DOMAIN rows
    BY <1>2, <1>4, <2>1 DEF CreatedOnce
  <2>2. CASE i \notin DOMAIN rows \/ j \notin DOMAIN rows
    BY <1>1, <1>2, <1>4, <2>2 DEF Taken
  <2> QED
    BY <2>1, <2>2
<1>5. ASSUME NEW r \in issued' PROVE \E i \in DOMAIN rows' : rows'[i] = r
  <2>1. CASE r \in issued
    <3>1. PICK i \in DOMAIN rows : rows[i] = r
      BY <2>1 DEF CreatedOnce
    <3> QED
      BY <1>1, <1>2, <3>1
  <2>2. CASE r = row
    BY <1>1, <1>2, <2>2
  <2> QED
    BY <1>5, <2>1, <2>2
<1> QED
  BY <1>1, <1>2, <1>3, <1>4, <1>5 DEF CreatedOnce

\* The rows after a step: the same, or one more.
LEMMA NextRows ==
    ASSUME Inv, [Next]_vars
    PROVE  /\ rows' \in Seq(Rows) /\ issued' \subseteq Rows
           /\ RowsGrow
           /\ CreatedOnce'
           /\ UNCHANGED settings
<1> USE DEF Inv
<1>1. CASE UNCHANGED <<rows, issued, settings>>
  <2>1. rows \in Seq(Rows) /\ issued \subseteq Rows
    BY DEF TypeOK
  <2> QED
    BY <1>1, <2>1 DEF RowsGrow, CreatedOnce
<1>2. ASSUME NEW w \in Workers, Create(w) \/ CreateLost(w)
      PROVE  /\ rows' \in Seq(Rows) /\ issued' \subseteq Rows
             /\ RowsGrow
             /\ CreatedOnce'
             /\ UNCHANGED settings
  <2>1. /\ request[w] \in Requests /\ request[w].op = "create"
        /\ ~Taken(request[w].project)
        /\ UNCHANGED settings
    BY <1>2 DEF Create, CreateLost, Handles, Respond, TypeOK, Idle
  <2>2. /\ request[w].project \in Projects
        /\ request[w].key \in ChosenKeys \union {NoKey, Generate}
    BY <2>1 DEF Requests, Asked
  <2>3. PICK k \in KeyFor(request[w].key) :
          LET row == [id |-> request[w].project, key |-> k] IN
          rows' = Append(rows, row) /\ issued' \in {issued, issued \union {row}}
    BY <1>2 DEF Create, CreateLost
  <2>4. k \in Keys \union {NoKey}
    BY <2>2, ApiAssumption DEF KeyFor, Keys
  <2> DEFINE row == [id |-> request[w].project, key |-> k]
  <2>5. row \in Rows /\ row.id = request[w].project
    BY <2>2, <2>4 DEF Rows
  <2> QED
    BY <2>1, <2>3, <2>5, Inserted
<1> QED
  BY <1>1, <1>2 DEF Next, Answer, Arrive, Conflict, Manage, Forbid, ListProjects,
     Query, Fail, Respond, settings, vars

-----------------------------------------------------------------------------
\* An endpoint shows its caller what belongs to him, whichever it is.
LEMMA AnswerShape ==
    ASSUME Inv, NEW w \in Workers, Answer(w)
    PROVE  Answers(w)
<1> USE DEF Inv
<1>1. request[w] # Idle
  BY ApiAssumption DEF Answer, Create, CreateLost, Conflict, Manage, Forbid, ListProjects,
     Query, Fail, Handles, Idle, TypeOK
<1>2. Admits(token[w], who[w])
  BY <1>1 DEF CallerInv
<1>3. /\ who[w] = Admin => token[w] = apiKey
      /\ who[w] # Admin => who[w] \in Projects /\ Opens(token[w], who[w])
  BY <1>2, ApiAssumption DEF Admits, Opens
<1>4. {} \in SUBSET MayShow(w)
  OBVIOUS
<1>5. CASE Create(w) \/ CreateLost(w) \/ Conflict(w) \/ Manage(w) \/ Forbid(w) \/ Fail(w)
  BY <1>1, <1>4, <1>5 DEF Answers, Create, CreateLost, Conflict, Manage, Forbid, Fail
<1>6. CASE ListProjects(w)
  <2> DEFINE found == {p \in Projects : Taken(p) /\ who[w] \in {Admin, p}}
  <2>1. found \in SUBSET MayShow(w)
    BY <1>3, ApiAssumption DEF MayShow
  <2> QED
    BY <1>1, <1>6, <2>1 DEF Answers, ListProjects
<1>7. CASE Query(w)
  <2> DEFINE found == {s \in Spans : Scope(w) \in {None, ProjectOf[s]}}
  <2>1. found \in SUBSET MayShow(w)
    BY <1>3, ApiAssumption DEF MayShow, Scope
  <2> QED
    BY <1>1, <1>7, <2>1 DEF Answers, Query
<1> QED
  BY <1>5, <1>6, <1>7 DEF Answer

\* Types, and what is known of the callers, after a step.
LEMMA NextTypes ==
    ASSUME Inv, [Next]_vars
    PROVE  TypeOK' /\ CallerInv'
<1> USE DEF Inv
<1>1. /\ rows' \in Seq(Rows) /\ issued' \subseteq Rows
      /\ apiKey' \in ChosenKeys \union {NoKey} /\ requireAuth' \in BOOLEAN
  BY NextRows DEF TypeOK, settings
<1>2. CASE UNCHANGED <<token, request, who, answer>>
  <2>1. TypeOK'
    BY <1>1, <1>2 DEF TypeOK
  <2> QED
    BY <1>2, <2>1, NextRows, OpensStays DEF CallerInv
<1>3. ASSUME NEW w \in Workers, Answers(w) PROVE TypeOK' /\ CallerInv'
  <2>1. PICK status \in {0, 200, 201, 403, 404, 409, 500}, found \in SUBSET MayShow(w) :
          Respond(w, status, found)
    BY <1>3 DEF Answers
  <2>2. found \in SUBSET (Spans \union Projects)
    BY <2>1 DEF MayShow
  <2>3. token[w] \in Keys \union {NoKey}
    BY DEF TypeOK
  <2>4. answer' \in [status : {0, 200, 201, 401, 403, 404, 409, 500},
                      found : SUBSET (Spans \union Projects), to : Keys \union {NoKey}]
    BY <2>1, <2>2, <2>3 DEF Respond, Response
  <2>5. TypeOK'
    BY <1>1, <2>1, <2>4 DEF TypeOK, Respond
  <2>6. \A v \in Workers : request'[v] # Idle =>
          v # w /\ request[v] # Idle /\ token'[v] = token[v] /\ who'[v] = who[v]
    BY <2>1 DEF Respond, TypeOK
  <2> QED
    BY <2>5, <2>6, NextRows, OpensStays DEF CallerInv
<1>4. ASSUME NEW w \in Workers, NEW key \in Keys \union {NoKey}, NEW r \in Requests,
             Arrive(w, key, r)
      PROVE  TypeOK' /\ CallerInv'
  <2>1. CASE UNCHANGED <<token, who, request>>
    <3>1. TypeOK'
      BY <1>1, <1>4, <2>1 DEF TypeOK, Arrive, NoAnswer
    <3> QED
      BY <2>1, <3>1, NextRows, OpensStays DEF CallerInv
  <2>2. ASSUME NEW i \in Identities, Admits(key, i),
               token' = [token EXCEPT ![w] = key], who' = [who EXCEPT ![w] = i],
               request' = [request EXCEPT ![w] = r], answer' = NoAnswer
        PROVE  TypeOK' /\ CallerInv'
    <3>1. i # None /\ r # Idle
      BY <2>2, IdleIsNone, ApiAssumption DEF Identities, None, Admin
    <3>2. TypeOK'
      BY <1>1, <2>2, <3>1 DEF TypeOK, NoAnswer
    <3>3. \A v \in Workers : request'[v] # Idle => Admits(token'[v], who'[v])
      BY <2>2 DEF TypeOK, CallerInv
    <3> QED
      BY <3>2, <3>3, NextRows, OpensStays DEF CallerInv
  <2> QED
    BY <1>4, <2>1, <2>2 DEF Arrive
<1> QED
  BY <1>2, <1>3, <1>4, AnswerShape DEF Next, vars

\* What was answered stays right, and what is answered now is.
LEMMA NextAnswer ==
    ASSUME Inv, [Next]_vars
    PROVE  AnswerInv'
<1> USE DEF Inv
<1>1. /\ TypeOK /\ TypeOK' /\ RowsGrow /\ UNCHANGED settings
      /\ \A key, i : Opens(key, i) => Opens(key, i)'
  <2>1. TypeOK /\ TypeOK' /\ RowsGrow /\ UNCHANGED settings
    BY NextRows, NextTypes
  <2> QED
    BY <2>1, OpensStays
<1>2. CASE UNCHANGED answer
  <2>1. \A s \in answer.found :
          \/ answer.to = apiKey
          \/ Opens(answer.to, IF s \in Spans THEN ProjectOf[s] ELSE s)
    BY DEF AnswerInv, Isolation
  <2>2. Isolation'
    BY <1>1, <1>2, <2>1 DEF Isolation, settings
  <2>3. FailClosed'
    BY <1>1, <1>2 DEF AnswerInv, FailClosed, settings
  <2> QED
    BY <2>2, <2>3 DEF AnswerInv
<1>3. CASE answer'.found = {} /\ answer'.status \in {0, 401}
  BY <1>3 DEF AnswerInv, Isolation, FailClosed
<1>4. ASSUME NEW w \in Workers, Answers(w) PROVE AnswerInv'
  <2>1. PICK status \in {0, 200, 201, 403, 404, 409, 500}, found \in SUBSET MayShow(w) :
          Respond(w, status, found)
    BY <1>4 DEF Answers
  <2>2. answer'.to = token[w] /\ answer'.found = found /\ apiKey' = apiKey
    BY <1>1, <2>1 DEF Respond, Response, settings
  <2>3. \A s \in found : \/ token[w] = apiKey
                        \/ Opens(token[w], IF s \in Spans THEN ProjectOf[s] ELSE s)
    BY <2>1 DEF MayShow
  <2>4. Isolation'
    BY <1>1, <2>2, <2>3 DEF Isolation
  <2>5. Admits(token[w], who[w])
    BY <1>4 DEF Answers, CallerInv
  <2>6. token[w] = apiKey \/ \E p \in Projects : Opens(token[w], p)
    BY <2>5 DEF Admits
  <2>7. FailClosed'
    BY <1>1, <2>2, <2>6 DEF FailClosed
  <2> QED
    BY <2>4, <2>7 DEF AnswerInv
<1>5. ASSUME NEW w \in Workers, NEW key \in Keys \union {NoKey}, NEW r \in Requests,
             Arrive(w, key, r)
      PROVE  answer'.found = {} /\ answer'.status \in {0, 401}
  BY <1>5 DEF Arrive, NoAnswer
<1> QED
  BY <1>2, <1>3, <1>4, <1>5, AnswerShape DEF Next, vars

LEMMA NextInv == Inv /\ [Next]_vars => Inv'
  BY NextRows, NextTypes, NextAnswer DEF Inv

-----------------------------------------------------------------------------
\* The strengthened invariant holds in every reachable state.
THEOREM Invariant == Spec => []Inv
  BY InitInv, NextInv, PTL DEF Spec

\* Type correctness.
THEOREM TypeCorrect == Spec => []TypeOK
<1>1. Inv => TypeOK
  BY DEF Inv
<1> QED
  BY <1>1, Invariant, PTL

\* However many workers create a project at once, it is created once, and the
\* key shown to its creator is the one that is stored (main.py:477-491).
THEOREM SingleCreation == Spec => []CreatedOnce
<1>1. Inv => CreatedOnce
  BY DEF Inv
<1> QED
  BY <1>1, Invariant, PTL

\* A credential opens for ever what it opened once (control.py:56-62).
THEOREM StableIdentity == Spec => IdentityStays
<1>1. Inv /\ [Next]_vars =>
        [\A key \in Keys, i \in Identities : Admits(key, i) => Admits(key, i)']_vars
  <2> SUFFICES ASSUME Inv, [Next]_vars, NEW key \in Keys, NEW i \in Identities,
                      Admits(key, i)
               PROVE  Admits(key, i)'
    OBVIOUS
  <2>1. TypeOK /\ TypeOK' /\ RowsGrow /\ UNCHANGED settings
    BY NextRows, NextTypes DEF Inv
  <2> QED
    BY <2>1, OpensStays
<1> QED
  BY <1>1, Invariant, PTL DEF Spec, IdentityStays

\* A key returned with HTTP 201 opens its project, except in the three cases
\* that create_project does not check (main.py:473-487).
THEOREM KeysOpen == Spec => []IssuedOpens
<1>1. Inv => IssuedOpens
  <2> SUFFICES ASSUME Inv, NEW row \in issued PROVE
        \/ Admits(row.key, row.id)
        \/ row.key \in {NoKey, apiKey}
        \/ \E i, j \in DOMAIN rows : i < j /\ rows[j] = row /\ rows[i].key = row.key
    BY DEF IssuedOpens
  <2>1. PICK j \in DOMAIN rows : rows[j] = row
    BY DEF Inv, CreatedOnce
  <2>2. row \in Rows /\ row.id \in Projects /\ row = [id |-> row.id, key |-> row.key]
    BY DEF Inv, TypeOK, Rows
  <2>3. DOMAIN rows = 1..Len(rows) /\ Len(rows) \in Nat
    BY DEF Inv, TypeOK
  <2>4. CASE \A i \in 1..(j - 1) : rows[i].key # row.key
    BY <2>1, <2>2, <2>4 DEF Admits, Opens
  <2>5. CASE \E i \in 1..(j - 1) : rows[i].key = row.key
    BY <2>1, <2>3, <2>5
  <2> QED
    BY <2>4, <2>5
<1> QED
  BY <1>1, Invariant, PTL

\* What a caller is shown belongs to the project his key opens, for every
\* interleaving of requests with the creation of projects (main.py:334-337).
THEOREM Isolated == Spec => []Isolation
<1>1. Inv => Isolation
  BY DEF Inv, AnswerInv
<1> QED
  BY <1>1, Invariant, PTL

\* Without a valid key there is nothing but 401, also while the database fails
\* (main.py:128-134, control.py:63).
THEOREM ClosedOnFailure == Spec => []FailClosed
<1>1. Inv => FailClosed
  BY DEF Inv, AnswerInv
<1> QED
  BY <1>1, Invariant, PTL
=============================================================================
