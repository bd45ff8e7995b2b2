------------------------------ MODULE Accounts ------------------------------
(***************************************************************************)
(* What surrounds every request: get_principal (saalr_api/auth/            *)
(* dependency.py) finds the caller's tenant or creates it, and opens the   *)
(* transaction the handler runs in, with app.current_tenant set for the    *)
(* row-level security policies; every transaction takes a connection from  *)
(* one pool. Two kinds of handler run inside: the academy's pages, which   *)
(* keep a row of progress per user and module (content/router.py, repo.py),*)
(* and a forecast (forecast/service.py), which opens a second session      *)
(* while the first is open. The transaction is committed when the response *)
(* has been sent.                                                          *)
(*                                                                         *)
(* A bootstrap creates a user, a tenant, a membership and a subscription   *)
(* in one transaction; they are one user here, named by the request that   *)
(* created it, and there may be one from earlier. One module of the        *)
(* academy is modelled.                                                    *)
(***************************************************************************)
EXTENDS FiniteSets, Integers

CONSTANTS
    Requests,
    Identities,     \* what a token proves: [email, sub]; sub is None under DevAuthProvider
    Connections,    \* the pool
    Earlier,        \* a user, and tenant, from before
    None,
    MaxFaults       \* requests that die on the way

VARIABLES
    users,          \* committed users, [id, email, sub]
    progress,       \* user_progress.status by tenant, None for no row
    guc,            \* app.current_tenant of each connection
    request,        \* the requests, see Waiting below
    faults

accountVars == <<users, progress, guc, request, faults>>

Op == {"view", "complete", "forecast"}

Tenants == Requests \cup {Earlier}

\* One identity provider at a time: DevAuthProvider proves no subject, Clerk one for
\* every token. And the names are apart.
ASSUME OneProvider ==
    /\ (\A c \in Identities : c.sub # None) \/ (\A c \in Identities : c.sub = None)
    /\ None \notin Tenants /\ None \notin Identities /\ None # "completed"
    /\ Earlier \notin Requests

\* at: what the request does next; conns: the connections it holds; tenant: the
\* principal; seen: the progress it read; told: the status its client was told; saw:
\* the tenants whose rows its sessions could see.
Waiting == [at |-> "new", op |-> None, claims |-> None, conns |-> {}, tenant |-> None,
            seen |-> None, told |-> None, saw |-> {}]

AccountsTypeOK ==
    /\ users \subseteq [id : Tenants, email : {c.email : c \in Identities},
                        sub : {c.sub : c \in Identities}]
    /\ progress \in [Tenants -> {None, "in_progress", "completed"}]
    /\ guc \in [Connections -> Tenants \cup {None}]
    /\ \A r \in Requests :
          /\ request[r].at \in {"new", "resolve", "bootstrap", "inserting", "inserted", "again",
                                "enter", "open", "write", "written", "answered", "nested",
                                "done", "failed"}
          /\ request[r].told \in {None, "in_progress", "completed"}
          /\ request[r].conns \subseteq Connections
    /\ faults \in 0 .. MaxFaults

AccountsInit ==
    /\ \/ /\ users = {}
          /\ progress = [t \in Tenants |-> None]
       \/ \E c \in Identities, status \in {None, "in_progress"} :
             /\ users = {[id |-> Earlier, email |-> c.email, sub |-> c.sub]}
             /\ progress = [t \in Tenants |-> IF t = Earlier THEN status ELSE None]
    /\ guc = [c \in Connections |-> None]
    /\ request = [r \in Requests |-> Waiting]
    /\ faults = 0

Held == UNION {request[r].conns : r \in Requests}
Free == Connections \ Held

-----------------------------------------------------------------------------
(* Phase 1: resolve or bootstrap the principal.                            *)

Authenticate(r, op, claims) ==
    /\ request[r].at = "new"
    /\ request' = [request EXCEPT ![r].at = "resolve", ![r].op = op, ![r].claims = claims]
    /\ UNCHANGED <<users, progress, guc, faults>>

\* Mutant of Matches: a Clerk identity may also be found by its address.
MatchesEitherWay(u, claims) ==
    (claims.sub # None /\ u.sub = claims.sub) \/ u.email = claims.email

\* auth_resolve_principal.
Matches(u, claims) ==
    IF claims.sub # None THEN u.sub = claims.sub ELSE u.email = claims.email

\* A transaction of one statement. A second look-up that finds nobody is a 500.
Resolve(r) ==
    /\ request[r].at \in {"resolve", "again"}
    /\ Free # {}
    /\ \/ \E u \in users :
             /\ Matches(u, request[r].claims)
             /\ request' = [request EXCEPT ![r].at = "enter", ![r].tenant = u.id]
       \/ /\ \A u \in users : ~Matches(u, request[r].claims)
          /\ request' = [request EXCEPT ![r].at =
                IF request[r].at = "resolve" THEN "bootstrap" ELSE "failed"]
    /\ UNCHANGED <<users, progress, guc, faults>>

BootstrapBegin(r) ==
    /\ request[r].at = "bootstrap"
    /\ \E c \in Free : request' = [request EXCEPT ![r].at = "inserting", ![r].conns = {c}]
    /\ UNCHANGED <<users, progress, guc, faults>>

\* The unique indexes of users: email, and clerk_user_id where there is one.
SameKey(u, claims) == u.email = claims.email \/ (u.sub # None /\ u.sub = claims.sub)

Conflict(r) == \E u \in users : SameKey(u, request[r].claims)

\* An uncommitted user with a key of this one makes the insert wait.
BootstrapInsert(r) ==
    /\ request[r].at = "inserting"
    /\ ~Conflict(r)
    /\ \A q \in Requests :
          request[q].at = "inserted" => ~SameKey(request[q].claims, request[r].claims)
    /\ request' = [request EXCEPT ![r].at = "inserted"]
    /\ UNCHANGED <<users, progress, guc, faults>>

\* IntegrityError: another first login has won.
BootstrapLoses(r) ==
    /\ request[r].at = "inserting"
    /\ Conflict(r)
    /\ request' = [request EXCEPT ![r].at = "again", ![r].conns = {}]
    /\ UNCHANGED <<users, progress, guc, faults>>

BootstrapCommit(r) ==
    /\ request[r].at = "inserted"
    /\ users' = users \cup {[id |-> r, email |-> request[r].claims.email,
                             sub |-> request[r].claims.sub]}
    /\ request' = [request EXCEPT ![r].at = "again", ![r].conns = {}]
    /\ UNCHANGED <<progress, guc, faults>>

-----------------------------------------------------------------------------
(* Phase 2: the request's transaction, with the tenant set.                *)

Enter(r) ==
    /\ request[r].at = "enter"
    /\ \E c \in Free :
          /\ guc' = [guc EXCEPT ![c] = request[r].tenant]
          /\ request' = [request EXCEPT ![r].at = "open", ![r].conns = {c},
                                        ![r].saw = {request[r].tenant}]
    /\ UNCHANGED <<users, progress, faults>>

\* Mutant of Unset: set_config(..., false), the setting belongs to the session.
UnsetNothing(conns) == guc

\* The setting is local to the transaction: it goes with the end of it.
Unset(conns) == [c \in Connections |-> IF c \in conns THEN None ELSE guc[c]]

\* The transaction ends, its connections go back to the pool.
EndTransaction(r, at) ==
    /\ guc' = Unset(request[r].conns)
    /\ request' = [request EXCEPT ![r].at = at, ![r].conns = {}]

\* get_progress.
ReadProgress(r) ==
    /\ request[r].at = "open"
    /\ request[r].op \in {"view", "complete"}
    /\ request' = [request EXCEPT ![r].at = "write", ![r].seen = progress[request[r].tenant]]
    /\ UNCHANGED <<users, progress, guc, faults>>

\* Mutant of Upserted: the page writes the status it was opened with.
UpsertedAsViewed(r) == IF request[r].op = "complete" THEN "completed" ELSE "in_progress"

\* upsert_progress: an insert where it read no row; else only a completion changes
\* the status, and the UPDATE of a view leaves that column alone.
Upserted(r) ==
    IF request[r].op = "complete" THEN "completed"
    ELSE IF request[r].seen = None THEN "in_progress"
    ELSE progress[request[r].tenant]

\* The insert of a row another request has inserted meanwhile.
DuplicateProgress(r) == request[r].seen = None /\ progress[request[r].tenant] # None

\* A page opened on a completed lesson writes nothing.
Writes(r) == request[r].op = "complete" \/ request[r].seen # "completed"

\* r has a row of progress flushed and not committed.
Locks(r) == request[r].at \in {"written", "answered"} /\ Writes(r)

\* The flush waits for the transaction that has the row, or the key of an insert.
WriteProgress(r) ==
    /\ request[r].at = "write"
    /\ ~DuplicateProgress(r)
    /\ Writes(r) =>
          \A q \in Requests : Locks(q) => request[q].tenant # request[r].tenant
    /\ request' = [request EXCEPT ![r].at = "written"]
    /\ UNCHANGED <<users, progress, guc, faults>>

WriteFails(r) ==
    /\ request[r].at = "write"
    /\ DuplicateProgress(r)
    /\ EndTransaction(r, "failed")
    /\ UNCHANGED <<users, progress, faults>>

\* The handler returns the row's status, and the client reads it.
AnswerProgress(r) ==
    /\ request[r].at = "written"
    /\ request' = [request EXCEPT ![r].at = "answered",
          ![r].told = IF request[r].op = "complete" THEN "completed"
                      ELSE IF request[r].seen = None THEN "in_progress"
                      ELSE request[r].seen]
    /\ UNCHANGED <<users, progress, guc, faults>>

\* get_principal's exit.
CommitProgress(r) ==
    /\ request[r].at = "answered"
    /\ progress' = [progress EXCEPT ![request[r].tenant] = Upserted(r)]
    /\ EndTransaction(r, "done")
    /\ UNCHANGED <<users, faults>>

\* record_validation has a session of its own, with no tenant, inside the request's.
NestedBegin(r) ==
    /\ request[r].at = "open"
    /\ request[r].op = "forecast"
    /\ \E c \in Free :
          request' = [request EXCEPT ![r].at = "nested", ![r].conns = @ \cup {c},
                                     ![r].saw = @ \cup ({guc[c]} \ {None})]
    /\ UNCHANGED <<users, progress, guc, faults>>

NestedEnd(r) ==
    /\ request[r].at = "nested"
    /\ EndTransaction(r, "done")
    /\ UNCHANGED <<users, progress, faults>>

-----------------------------------------------------------------------------

WantsConnection(r) ==
    \/ request[r].at \in {"resolve", "again", "bootstrap", "enter"}
    \/ request[r].at = "open" /\ request[r].op = "forecast"

\* Mutant of PoolTimeout: only a request that holds nothing gives up.
PoolTimeoutOutside(r) ==
    /\ WantsConnection(r) /\ Free = {} /\ request[r].conns = {}
    /\ EndTransaction(r, "failed")
    /\ UNCHANGED <<users, progress, faults>>

\* The engine's pool gives up on a connection after its time limit.
PoolTimeout(r) ==
    /\ WantsConnection(r) /\ Free = {}
    /\ EndTransaction(r, "failed")
    /\ UNCHANGED <<users, progress, faults>>

\* The process dies, or a commit fails: its transactions roll back, its connections
\* close. A client that was answered keeps the answer.
Dies(r) ==
    /\ request[r].at \notin {"new", "done", "failed"}
    /\ faults < MaxFaults
    /\ faults' = faults + 1
    /\ EndTransaction(r, "failed")
    /\ UNCHANGED <<users, progress>>

Proceed(r) ==
    \/ Resolve(r)
    \/ BootstrapBegin(r)
    \/ BootstrapInsert(r)
    \/ BootstrapLoses(r)
    \/ BootstrapCommit(r)
    \/ Enter(r)
    \/ ReadProgress(r)
    \/ WriteProgress(r)
    \/ WriteFails(r)
    \/ AnswerProgress(r)
    \/ CommitProgress(r)
    \/ NestedBegin(r)
    \/ NestedEnd(r)
    \/ PoolTimeout(r)

AccountsNext == \E r \in Requests :
    \/ \E op \in Op, claims \in Identities : Authenticate(r, op, claims)
    \/ Proceed(r)
    \/ Dies(r)

\* The server runs every request it has accepted.
Fairness == \A r \in Requests : WF_accountVars(Proceed(r))

AccountsSpec == AccountsInit /\ [][AccountsNext]_accountVars /\ Fairness

-----------------------------------------------------------------------------
(* Properties                                                              *)

Entered(r) == request[r].tenant # None

\* However first logins race and fail, two requests work in the same tenant exactly
\* when their tokens prove the same identity: nobody gets a second tenant, and nobody
\* enters another's.
OneTenantPerIdentity ==
    \A q, r \in Requests : Entered(q) /\ Entered(r) =>
        (request[q].tenant = request[r].tenant
            <=> IF request[q].claims.sub # None
                THEN request[q].claims.sub = request[r].claims.sub
                ELSE request[q].claims.email = request[r].claims.email)

\* No session of a request, the nested one on whatever connection it drew included,
\* can see the rows of another tenant than the request's.
TenantsIsolated == \A r \in Requests : request[r].saw \subseteq {request[r].tenant}

\* A lesson that a page shows, or a completion answers, as completed is completed for
\* good, whatever views race with it; but a completion, answered before its commit, may
\* be lost with the request.
CompletionsKept ==
    \A r \in Requests : request[r].told = "completed" =>
        \/ progress[request[r].tenant] = "completed"
        \/ request[r].op = "complete" /\ request[r].at \in {"answered", "failed"}

\* Requests that hold a connection and need a second one can take the whole pool;
\* every request still ends.
RequestsEnd ==
    \A r \in Requests :
        request[r].at # "new" ~> request[r].at \in {"done", "failed"}

=============================================================================
