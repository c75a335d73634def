-------------------------------- MODULE Api ---------------------------------
(***************************************************************************)
(* Projects, credentials and the project filter of the REST API: settings  *)
(* of backend/app/settings.py, get_auth_identity and the endpoints of      *)
(* main.py, verify_project_credential of control.py.  Endpoints run in the *)
(* worker threads of several processes, and each of them asks the control  *)
(* database twice: for the caller's identity, then for what it was called. *)
(*                                                                         *)
(* A stored hash stands for the key it is made of (hash_api_key is taken   *)
(* to be injective), a key for its stripped form; of a query's answer only *)
(* the spans it is about are modelled.                                     *)
(***************************************************************************)
EXTENDS Integers, Sequences, FiniteSets

CONSTANTS Workers,     \* threads that answer requests
          Projects,    \* project ids
          ChosenKeys,  \* keys people choose
          Generated,   \* keys generate_api_key() returns
          Spans,       \* committed spans
          ProjectOf,   \* each one's project_id
          MayFail      \* the control database may refuse a statement

None == "none"         \* no project id; an identity that is refused
NoKey == "no key"      \* no token or key, or a blank one
Generate == "generate" \* POST /api/v1/projects without api_key
Admin == "admin"       \* AuthIdentity(is_admin=True)

Keys == ChosenKeys \union Generated

ASSUME ApiAssumption ==
    /\ {None, Admin} \intersect Projects = {}
    /\ {NoKey, Generate} \intersect Keys = {}
    /\ ChosenKeys \intersect Generated = {}
    /\ Spans \intersect Projects = {}
    /\ ProjectOf \in [Spans -> Projects \union {None}]
    /\ MayFail \in BOOLEAN

VARIABLES apiKey,       \* settings.api_key
          requireAuth,  \* settings.require_auth
          rows,         \* the projects table in rowid order
          token,        \* the credential of each worker's request
          request,      \* the request it handles once the caller is known
          who,          \* the caller's AuthIdentity
          answer,       \* the response given in the last step, or NoAnswer
          issued        \* the rows whose keys were returned with HTTP 201

settings == <<apiKey, requireAuth>>
vars == <<settings, rows, token, request, who, answer, issued>>

Identities == Projects \union {Admin}
Rows == [id : Projects, key : Keys \union {NoKey}]
Filters == Projects \union {None}

\* What is asked; `project` is the id of a new project, or the project_id of
\* a query (/traces, /traces/{trace_id}, /analytics/overview, /analytics/models).
\* "admin" stands for /admin/compact and /admin/wal-cleanup.
Asked(op, projects, keys) == [op : {op}, project : projects, key : keys]
Requests ==
    Asked("create", Projects, ChosenKeys \union {NoKey, Generate})
      \union Asked("query", Filters, {NoKey})
      \union Asked("projects", {None}, {NoKey}) \union Asked("admin", {None}, {NoKey})
Idle == [op |-> "idle", project |-> None, key |-> NoKey]

\* A response: its status, the spans or the projects in it, and for whom.
Response(w, status, found) == [status |-> status, found |-> found, to |-> token[w]]
NoAnswer == [status |-> 0, found |-> {}, to |-> NoKey]

\* from_environment: a blank key is none, and authentication needs a key.
Valid(key, require) == require => key # NoKey

Init ==
    /\ apiKey \in ChosenKeys \union {NoKey}
    /\ requireAuth \in BOOLEAN
    /\ Valid(apiKey, requireAuth)
    /\ rows = <<>>
    /\ token = [w \in Workers |-> NoKey]
    /\ request = [w \in Workers |-> Idle]
    /\ who = [w \in Workers |-> None]
    /\ answer = NoAnswer
    /\ issued = {}

\* Mutant of Opens: the newest project with the key decides.
NewestOpens(key, p) ==
    \E i \in DOMAIN rows :
      /\ rows[i] = [id |-> p, key |-> key]
      /\ \A j \in DOMAIN rows : j > i => rows[j].key # key

-----------------------------------------------------------------------------
(* Who is it? *)

\* verify_project_credential: the first row with the key decides; no token
\* matches a row whose key is blank.
Opens(key, p) ==
    /\ key # NoKey
    /\ \E i \in DOMAIN rows :
         /\ rows[i] = [id |-> p, key |-> key]
         /\ \A j \in 1..(i - 1) : rows[j].key # key

Unknown(key) == key = NoKey \/ \A i \in DOMAIN rows : rows[i].key # key

\* Mutant of Admits: where no key is required, a wrong one is not refused.
AdmitsWrong(key, i) ==
    \/ i = Admin /\ apiKey = NoKey
    \/ i = Admin /\ key # NoKey /\ key = apiKey
    \/ i \in Projects /\ key # apiKey /\ Opens(key, i)

\* get_auth_identity returns i for this token: the admin key, a project's key,
\* or no token where no key is configured.
Admits(key, i) ==
    \/ i = Admin /\ key = NoKey /\ apiKey = NoKey
    \/ i = Admin /\ key # NoKey /\ key = apiKey
    \/ i \in Projects /\ key # apiKey /\ Opens(key, i)

\* It answers 401; an error of the database is taken for "no such key".
Refuses(key) ==
    /\ key # NoKey \/ apiKey # NoKey
    /\ key # apiKey
    /\ Unknown(key) \/ MayFail

\* A request arrives with its token, which is known to the caller.
Arrive(w, key, r) ==
    /\ request[w] = Idle
    /\ key \in Generated => \E row \in issued : row.key = key
    /\ \/ \E i \in Identities :
            /\ Admits(key, i)
            /\ token' = [token EXCEPT ![w] = key]
            /\ who' = [who EXCEPT ![w] = i]
            /\ request' = [request EXCEPT ![w] = r]
            /\ answer' = NoAnswer
       \/ /\ Refuses(key)
          /\ answer' = [status |-> 401, found |-> {}, to |-> key]
          /\ UNCHANGED <<token, who, request>>
    /\ UNCHANGED <<settings, rows, issued>>

\* Mutant of Respond: the identity outlives the request.
RespondOnly(w, status, found) ==
    /\ answer' = Response(w, status, found)
    /\ request' = [request EXCEPT ![w] = Idle]
    /\ token' = [token EXCEPT ![w] = NoKey]
    /\ UNCHANGED <<settings, who>>

Respond(w, status, found) ==
    /\ answer' = Response(w, status, found)
    /\ request' = [request EXCEPT ![w] = Idle]
    /\ who' = [who EXCEPT ![w] = None]
    /\ token' = [token EXCEPT ![w] = NoKey]
    /\ UNCHANGED settings

Handles(w, op) == request[w].op = op

-----------------------------------------------------------------------------
(* create_project *)

Taken(p) == \E i \in DOMAIN rows : rows[i].id = p

\* What generate_api_key() returns was never returned before.
KeyFor(k) ==
    IF k = Generate
    THEN {g \in Generated : \A i \in DOMAIN rows : rows[i].key # g}
    ELSE {k}

\* Mutant of Create: INSERT OR REPLACE.
CreateOrReplace(w) ==
    LET p == request[w].project IN
    /\ Handles(w, "create") /\ who[w] = Admin
    /\ \E k \in KeyFor(request[w].key) :
         /\ rows' = Append(SelectSeq(rows, LAMBDA row : row.id # p), [id |-> p, key |-> k])
         /\ issued' = issued \union {[id |-> p, key |-> k]}
    /\ Respond(w, 201, {})

\* Mutant of Create: one generated key is stored, another returned.
CreateTwoKeys(w) ==
    LET p == request[w].project IN
    /\ Handles(w, "create") /\ who[w] = Admin /\ ~Taken(p)
    /\ \E k, l \in KeyFor(request[w].key) :
         /\ rows' = Append(rows, [id |-> p, key |-> k])
         /\ issued' = issued \union {[id |-> p, key |-> l]}
    /\ Respond(w, 201, {})

\* INSERT and commit; the key is in the response.
Create(w) ==
    LET p == request[w].project IN
    /\ Handles(w, "create") /\ who[w] = Admin /\ ~Taken(p)
    /\ \E k \in KeyFor(request[w].key) :
         /\ rows' = Append(rows, [id |-> p, key |-> k])
         /\ issued' = issued \union {[id |-> p, key |-> k]}
    /\ Respond(w, 201, {})

\* Committed, but the process dies before it answers.
CreateLost(w) ==
    LET p == request[w].project IN
    /\ MayFail
    /\ Handles(w, "create") /\ who[w] = Admin /\ ~Taken(p)
    /\ \E k \in KeyFor(request[w].key) : rows' = Append(rows, [id |-> p, key |-> k])
    /\ Respond(w, 0, {})
    /\ UNCHANGED issued

\* IntegrityError: the id is the primary key.
Conflict(w) ==
    /\ Handles(w, "create") /\ who[w] = Admin
    /\ Taken(request[w].project)
    /\ Respond(w, 409, {})
    /\ UNCHANGED <<rows, issued>>

-----------------------------------------------------------------------------
(* The other endpoints. *)

\* compact and wal-cleanup
Manage(w) ==
    /\ Handles(w, "admin") /\ who[w] = Admin
    /\ Respond(w, 200, {})
    /\ UNCHANGED <<rows, issued>>

\* A project asks for another one, or for what only an admin may do.
Forbid(w) ==
    /\ who[w] \in Projects
    /\ \/ Handles(w, "create") \/ Handles(w, "admin")
       \/ Handles(w, "query") /\ request[w].project \notin {None, who[w]}
    /\ Respond(w, 403, {})
    /\ UNCHANGED <<rows, issued>>

ListProjects(w) ==
    /\ Handles(w, "projects")
    /\ Respond(w, 200, {p \in Projects : Taken(p) /\ who[w] \in {Admin, p}})
    /\ UNCHANGED <<rows, issued>>

\* Mutant of Scope: the caller's project does not become the filter.
ScopeAsAsked(w) == request[w].project

\* The effective project filter; None: no filter.
Scope(w) == IF who[w] = Admin THEN request[w].project ELSE who[w]

\* list_traces, analytics_overview and analytics_models answer 200, get_trace
\* 404 when there is nothing.
Query(w) ==
    LET found == {s \in Spans : Scope(w) \in {None, ProjectOf[s]}} IN
    /\ Handles(w, "query")
    /\ who[w] \in Projects => request[w].project \in {None, who[w]}
    /\ Respond(w, 200, found) \/ (found = {} /\ Respond(w, 404, {}))
    /\ UNCHANGED <<rows, issued>>

\* Any error of the database behind the authentication.
Fail(w) ==
    /\ MayFail /\ request[w] # Idle
    /\ Respond(w, 500, {})
    /\ UNCHANGED <<rows, issued>>

-----------------------------------------------------------------------------
Answer(w) ==
    \/ Create(w) \/ CreateLost(w) \/ Conflict(w) \/ Manage(w) \/ Forbid(w)
    \/ ListProjects(w) \/ Query(w) \/ Fail(w)

Next ==
    \E w \in Workers :
      \/ \E key \in Keys \union {NoKey}, r \in Requests : Arrive(w, key, r)
      \/ Answer(w)

Spec == Init /\ [][Next]_vars

-----------------------------------------------------------------------------
(* Properties. *)

TypeOK ==
    /\ apiKey \in ChosenKeys \union {NoKey} /\ requireAuth \in BOOLEAN
    /\ rows \in Seq(Rows)
    /\ token \in [Workers -> Keys \union {NoKey}]
    /\ request \in [Workers -> Requests \union {Idle}]
    /\ who \in [Workers -> Identities \union {None}]
    /\ answer \in [status : {0, 200, 201, 401, 403, 404, 409, 500},
                   found : SUBSET (Spans \union Projects), to : Keys \union {NoKey}]
    /\ issued \subseteq Rows
    /\ \A w \in Workers : who[w] = None <=> request[w] = Idle

\* A project is created once, however many requests to create it run at the
\* same time, and the key its creator was given is the key it keeps.
CreatedOnce ==
    /\ \A i, j \in DOMAIN rows : rows[i].id = rows[j].id => i = j
    /\ \A row \in issued : \E i \in DOMAIN rows : rows[i] = row

\* Once a credential opens a project, or the administration, it opens the
\* same one for ever: what was decided at authentication still holds when the
\* handler answers, and later projects take nobody's access away.
IdentityStays ==
    [][\A key \in Keys, i \in Identities : Admits(key, i) => Admits(key, i)']_vars

\* The key returned with HTTP 201 opens the project just created (SECURITY.md:10),
\* unless it is blank, the admin's, or that of an older project: create_project
\* checks none of these.
IssuedOpens ==
    \A row \in issued :
      \/ Admits(row.key, row.id)
      \/ row.key \in {NoKey, apiKey}
      \/ \E i, j \in DOMAIN rows : i < j /\ rows[j] = row /\ rows[i].key = row.key

\* "restricted to their respective project_id" (docs/ARCHITECTURE.md:433): what
\* a caller is shown belongs to the project his key opens, unless it is the
\* admin key, or he needs none, as no key is configured.
Isolation ==
    \A s \in answer.found :
      \/ answer.to = apiKey
      \/ Opens(answer.to, IF s \in Spans THEN ProjectOf[s] ELSE s)

\* Nobody without a valid key gets anything but 401 (SECURITY.md:9): not if the
\* database fails, nor if no key is configured but he presents one.
FailClosed ==
    answer.status \in {200, 201, 403, 404, 409, 500} =>
      answer.to = apiKey \/ \E p \in Projects : Opens(answer.to, p)
=============================================================================
