--------------------------- MODULE Services_proofs ---------------------------
(***************************************************************************)
(* What the parts around the trading core promise, for every number of     *)
(* requests, workers, runs and readers: logins and tenant transactions,    *)
(* the caches over bars, the option chain, news, and the academy. And what *)
(* a backtest reports, for every tape and position.                        *)
(***************************************************************************)
EXTENDS Services, CollectionLemmas, FiniteSetTheorems, TLAPS

-----------------------------------------------------------------------------
(* First logins and tenant transactions                                    *)

Status == {None, "in_progress", "completed"}

At == {"new", "resolve", "bootstrap", "inserting", "inserted", "again", "enter", "open",
       "write", "written", "answered", "nested", "done", "failed"}

RequestRecord ==
    [at : At, op : Op \cup {None}, claims : Identities \cup {None},
     conns : SUBSET Connections, tenant : Tenants \cup {None}, seen : Status,
     told : Status, saw : SUBSET Tenants]

User == [id : Tenants, email : {c.email : c \in Identities},
         sub : {c.sub : c \in Identities}]

Types ==
    /\ users \subseteq User
    /\ progress \in [Tenants -> Status]
    /\ guc \in [Connections -> Tenants \cup {None}]
    /\ request \in [Requests -> RequestRecord]

\* A request has claims once it is authenticated, and works in a tenant.
RequestFits(q) ==
    /\ q.at # "new" => q.claims \in Identities
    /\ q.at = "new" => q.tenant = None
    /\ q.at \in {"enter", "open", "write", "written", "answered", "nested"} => q.tenant # None

RequestsFit == \A r \in Requests : RequestFits(request[r])

\* The id, the address and the subject of a user are nobody else's.
UsersApart ==
    \A u, v \in users :
        u.id = v.id \/ u.email = v.email \/ (u.sub # None /\ u.sub = v.sub) => u = v

\* Past its own bootstrap, or its failure.
Bootstrapped(q) ==
    q.at \in {"again", "enter", "open", "write", "written", "answered", "nested", "done", "failed"}

\* A user is named after the request that has committed it.
UsersNamed == \A u \in users : u.id \in Requests => Bootstrapped(request[u.id])

\* Two requests about to commit a user do not share a key with each other, nor with
\* a user there is: the unique indexes have made the second one wait.
InsertsApart ==
    \A r \in Requests : request[r].at = "inserted" =>
        /\ ~Conflict(r)
        /\ \A q \in Requests \ {r} :
              request[q].at = "inserted" => ~SameKey(request[q].claims, request[r].claims)

\* A principal is the tenant of a user its claims match.
Principal(q) ==
    q.tenant # None =>
        /\ q.claims \in Identities
        /\ \E u \in users : u.id = q.tenant /\ Matches(u, q.claims)

PrincipalsMatch == \A r \in Requests : Principal(request[r])

IInv ==
    /\ Types
    /\ RequestsFit
    /\ UsersApart
    /\ UsersNamed
    /\ InsertsApart
    /\ PrincipalsMatch

-----------------------------------------------------------------------------
(* Lemmas                                                                  *)

\* A step of r that creates no user, begins no insert and finds no principal.
LEMMA Moves ==
    ASSUME IInv, Types', NEW r \in Requests, NEW q \in RequestRecord, UNCHANGED users,
           request' = [request EXCEPT ![r] = q],
           RequestFits(q),
           q.at # "inserted",
           Bootstrapped(request[r]) => Bootstrapped(q),
           q.tenant = request[r].tenant,
           q.claims = request[r].claims \/ request[r].at = "new"
    PROVE  IInv'
<1>1. /\ request'[r] = q
      /\ \A p \in Requests \ {r} : request'[p] = request[p]
    BY DEF IInv, Types
<1>2. RequestsFit'
    BY <1>1 DEF IInv, RequestsFit
<1>3. UsersApart'
    BY DEF IInv, UsersApart
<1>4. UsersNamed'
    BY <1>1 DEF IInv, UsersNamed
<1>5. InsertsApart'
    BY <1>1 DEF IInv, InsertsApart, Conflict, SameKey
<1>6. PrincipalsMatch'
  <2>1. request[r].at = "new" => q.tenant = None
    BY DEF IInv, RequestsFit, RequestFits
  <2> QED
    BY <1>1, <2>1 DEF IInv, PrincipalsMatch, Principal, Matches
<1> QED
    BY <1>2, <1>3, <1>4, <1>5, <1>6 DEF IInv

\* r's transaction ends.
LEMMA Ends ==
    ASSUME IInv, NEW r \in Requests, NEW at \in {"done", "failed"},
           request[r].at # "new",
           EndTransaction(r, at), UNCHANGED users, progress' \in [Tenants -> Status]
    PROVE  IInv'
<1> DEFINE q == [request[r] EXCEPT !.at = at, !.conns = {}]
<1>1. request[r] \in RequestRecord /\ RequestFits(request[r])
    BY DEF IInv, Types, RequestsFit
<1>2. /\ request' = [request EXCEPT ![r] = q]
      /\ q \in RequestRecord
      /\ q.at = at /\ q.tenant = request[r].tenant /\ q.claims = request[r].claims
    BY <1>1, Zenon DEF EndTransaction, RequestRecord, At
<1>3. Types'
  <2>1. guc' \in [Connections -> Tenants \cup {None}]
    BY DEF EndTransaction, Unset, IInv, Types
  <2> QED
    BY <1>2, <2>1 DEF IInv, Types
<1>4. RequestFits(q) /\ Bootstrapped(q) /\ q.at # "inserted"
    BY <1>1, <1>2 DEF RequestFits, Bootstrapped
<1> HIDE DEF q
<1> QED
    BY <1>2, <1>3, <1>4, Moves, Zenon

-----------------------------------------------------------------------------
(* The invariant                                                           *)

LEMMA InitIInv == AccountsInit => IInv
<1> SUFFICES ASSUME AccountsInit PROVE IInv
    OBVIOUS
<1>1. Waiting \in RequestRecord /\ Waiting.at = "new" /\ Waiting.tenant = None
    BY DEF Waiting, RequestRecord, At, Status
<1>2. \A r \in Requests : request[r] = Waiting
    BY DEF AccountsInit
<1>3. request \in [Requests -> RequestRecord] /\ guc \in [Connections -> Tenants \cup {None}]
    BY <1>1 DEF AccountsInit
<1>4. CASE users = {} /\ progress = [t \in Tenants |-> None]
  <2>1. Types /\ UsersApart /\ UsersNamed
    BY <1>3, <1>4 DEF Types, Status, UsersApart, UsersNamed
  <2> QED
    BY <1>1, <1>2, <2>1 DEF IInv, RequestsFit, RequestFits, InsertsApart, PrincipalsMatch, Principal
<1>5. ASSUME NEW c \in Identities, NEW status \in {None, "in_progress"},
             users = {[id |-> Earlier, email |-> c.email, sub |-> c.sub]},
             progress = [t \in Tenants |-> IF t = Earlier THEN status ELSE None]
      PROVE  IInv
  <2>1. users \subseteq User
    BY <1>5 DEF User, Tenants
  <2>2. progress \in [Tenants -> Status]
    BY <1>5 DEF Status
  <2>3. UsersApart /\ UsersNamed
    BY <1>5, OneProvider DEF UsersApart, UsersNamed
  <2> QED
    BY <1>1, <1>2, <1>3, <2>1, <2>2, <2>3
       DEF IInv, Types, RequestsFit, RequestFits, InsertsApart, PrincipalsMatch, Principal
<1> QED
    BY <1>4, <1>5 DEF AccountsInit

LEMMA AuthenticateIInv ==
    ASSUME IInv, NEW r \in Requests, NEW op \in Op, NEW c \in Identities, Authenticate(r, op, c)
    PROVE  IInv'
<1> DEFINE q == [request[r] EXCEPT !.at = "resolve", !.op = op, !.claims = c]
<1>1. /\ request[r] \in RequestRecord /\ request[r].at = "new" /\ request[r].tenant = None
    BY DEF Authenticate, IInv, Types, RequestsFit, RequestFits
<1>2. /\ request' = [request EXCEPT ![r] = q] /\ q \in RequestRecord
      /\ q.at = "resolve" /\ q.tenant = None /\ q.claims = c
    BY <1>1, Zenon DEF Authenticate, RequestRecord, At
<1> HIDE DEF q
<1>3. Types'
    BY <1>2, ZenonT(40) DEF Authenticate, IInv, Types
<1>4. RequestFits(q) /\ ~Bootstrapped(request[r])
    BY <1>1, <1>2 DEF RequestFits, Bootstrapped
<1> QED
    BY <1>1, <1>2, <1>3, <1>4, Moves, Zenon DEF Authenticate

\* The look-up finds the tenant of a user the claims match.
LEMMA FoundIInv ==
    ASSUME IInv, NEW r \in Requests, NEW u \in users, NEW q \in RequestRecord,
           request[r].at \in {"resolve", "again"},
           request' = [request EXCEPT ![r] = q], UNCHANGED <<users, progress, guc>>,
           q.at = "enter", q.tenant = u.id, q.claims = request[r].claims,
           Matches(u, q.claims)
    PROVE  IInv'
<1>1. q.claims \in Identities /\ q.tenant \in Tenants
    BY DEF IInv, Types, RequestsFit, RequestFits, User
<1>2. RequestFits(q) /\ Principal(q)
    BY <1>1, OneProvider DEF RequestFits, Principal
<1>3. /\ request'[r] = q
      /\ \A p \in Requests \ {r} : request'[p] = request[p]
    BY DEF IInv, Types
<1>4. Types' /\ UsersApart'
    BY DEF IInv, Types, UsersApart
<1>5. RequestsFit'
    BY <1>2, <1>3 DEF IInv, RequestsFit
<1>6. UsersNamed'
    BY <1>3 DEF IInv, UsersNamed, Bootstrapped
<1>7. InsertsApart'
    BY <1>3 DEF IInv, InsertsApart, Conflict, SameKey
<1>8. PrincipalsMatch'
    BY <1>2, <1>3 DEF IInv, PrincipalsMatch, Principal, Matches
<1> QED
    BY <1>4, <1>5, <1>6, <1>7, <1>8 DEF IInv

\* A step that only moves r along, with other connections.
LEMMA AdvanceIInv ==
    ASSUME IInv, NEW r \in Requests, NEW q \in RequestRecord,
           request' = [request EXCEPT ![r] = q], UNCHANGED <<users, progress>>,
           guc' \in [Connections -> Tenants \cup {None}],
           request[r].at # "new", q.at \notin {"new", "inserted"},
           q.at \in {"enter", "open", "write", "written", "answered", "nested"}
               => request[r].at \in {"enter", "open", "write", "written", "answered", "nested"},
           Bootstrapped(request[r]) => Bootstrapped(q),
           q.tenant = request[r].tenant, q.claims = request[r].claims
    PROVE  IInv'
<1>1. Types'
    BY DEF IInv, Types
<1>2. RequestFits(q)
    BY DEF IInv, RequestsFit, RequestFits
<1> QED
    BY <1>1, <1>2, Moves, Zenon

\* The insert has its keys to itself from here to the commit.
LEMMA InsertIInv ==
    ASSUME IInv, NEW r \in Requests, BootstrapInsert(r)
    PROVE  IInv'
<1> DEFINE q == [request[r] EXCEPT !.at = "inserted"]
<1>1. /\ request[r] \in RequestRecord /\ request[r].at = "inserting"
      /\ request[r].claims \in Identities
    BY DEF BootstrapInsert, IInv, Types, RequestsFit, RequestFits
<1>2. /\ request' = [request EXCEPT ![r] = q] /\ q \in RequestRecord
      /\ q.at = "inserted" /\ q.tenant = request[r].tenant /\ q.claims = request[r].claims
    BY <1>1 DEF BootstrapInsert, RequestRecord, At
<1> HIDE DEF q
<1>3. /\ request'[r] = q
      /\ \A p \in Requests \ {r} : request'[p] = request[p]
      /\ UNCHANGED <<users, progress, guc>>
    BY <1>2 DEF BootstrapInsert, IInv, Types
<1>4. Types' /\ UsersApart'
    BY <1>2, <1>3 DEF IInv, Types, UsersApart
<1>5. RequestsFit'
    BY <1>1, <1>2, <1>3 DEF IInv, RequestsFit, RequestFits
<1>6. UsersNamed'
    BY <1>1, <1>3 DEF IInv, UsersNamed, Bootstrapped
<1>7. InsertsApart'
    BY <1>2, <1>3 DEF BootstrapInsert, IInv, InsertsApart, Conflict, SameKey
<1>8. PrincipalsMatch'
    BY <1>2, <1>3 DEF IInv, PrincipalsMatch, Principal, Matches
<1> QED
    BY <1>4, <1>5, <1>6, <1>7, <1>8 DEF IInv

\* The commit adds a user whose keys nobody has, or is about to have.
LEMMA CommitIInv ==
    ASSUME IInv, NEW r \in Requests, BootstrapCommit(r)
    PROVE  IInv'
<1> DEFINE q == [request[r] EXCEPT !.at = "again", !.conns = {}]
           n == [id |-> r, email |-> request[r].claims.email, sub |-> request[r].claims.sub]
<1>1. /\ request[r] \in RequestRecord /\ request[r].at = "inserted"
      /\ request[r].claims \in Identities
    BY DEF BootstrapCommit, IInv, Types, RequestsFit, RequestFits
<1>2. /\ request' = [request EXCEPT ![r] = q] /\ q \in RequestRecord
      /\ q.at = "again" /\ q.tenant = request[r].tenant /\ q.claims = request[r].claims
    BY <1>1, Zenon DEF BootstrapCommit, RequestRecord, At
<1>3. /\ n \in User /\ n.id = r
      /\ n.email = request[r].claims.email /\ n.sub = request[r].claims.sub
      /\ users' = users \cup {n}
    BY <1>1 DEF BootstrapCommit, User, Tenants
<1> HIDE DEF q, n
<1>4. /\ request'[r] = q
      /\ \A p \in Requests \ {r} : request'[p] = request[p]
      /\ UNCHANGED <<progress, guc>>
    BY <1>2, Zenon DEF BootstrapCommit, IInv, Types
<1>5. Types'
    BY <1>2, <1>3, <1>4 DEF IInv, Types
<1>6. RequestsFit'
    BY <1>1, <1>2, <1>4 DEF IInv, RequestsFit, RequestFits
<1>7. UsersApart'
  <2>1. \A u \in users : u.id # n.id
    BY <1>1, <1>3 DEF IInv, UsersNamed, Bootstrapped
  <2>2. \A u \in users : u.email # n.email /\ ~(u.sub # None /\ u.sub = n.sub)
    BY <1>1, <1>3 DEF IInv, InsertsApart, Conflict, SameKey
  <2> QED
    BY <1>3, <2>1, <2>2 DEF IInv, UsersApart
<1>8. UsersNamed'
    BY <1>2, <1>3, <1>4 DEF IInv, UsersNamed, Bootstrapped
<1>9. InsertsApart'
  <2> SUFFICES ASSUME NEW p \in Requests \ {r}, request[p].at = "inserted"
               PROVE  /\ ~Conflict(p)'
                      /\ \A o \in Requests \ {p} :
                            request'[o].at = "inserted"
                                => ~SameKey(request'[o].claims, request'[p].claims)
    BY <1>2, <1>4 DEF InsertsApart
  <2>1. ~SameKey(n, request[p].claims)
    BY <1>1, <1>3 DEF IInv, InsertsApart, SameKey
  <2>2. ~Conflict(p)'
    BY <1>3, <1>4, <2>1 DEF IInv, InsertsApart, Conflict, SameKey
  <2> QED
    BY <1>2, <1>4, <2>2 DEF IInv, InsertsApart
<1>10. PrincipalsMatch'
    BY <1>2, <1>3, <1>4 DEF IInv, PrincipalsMatch, Principal, Matches
<1> QED
    BY <1>5, <1>6, <1>7, <1>8, <1>9, <1>10 DEF IInv

LEMMA ResolveIInv ==
    ASSUME IInv, NEW r \in Requests, Resolve(r)
    PROVE  IInv'
<1>1. request[r] \in RequestRecord /\ request[r].at \in {"resolve", "again"}
    BY DEF Resolve, IInv, Types
<1>2. UNCHANGED <<users, progress, guc>> /\ guc \in [Connections -> Tenants \cup {None}]
    BY DEF Resolve, IInv, Types
<1>3. ASSUME NEW u \in users, Matches(u, request[r].claims),
             request' = [request EXCEPT ![r].at = "enter", ![r].tenant = u.id]
      PROVE  IInv'
  <2> DEFINE q == [request[r] EXCEPT !.at = "enter", !.tenant = u.id]
  <2>1. u.id \in Tenants
    BY DEF IInv, Types, User
  <2>2. /\ request' = [request EXCEPT ![r] = q] /\ q \in RequestRecord
        /\ q.at = "enter" /\ q.tenant = u.id /\ q.claims = request[r].claims
    BY <1>1, <1>3, <2>1, Zenon DEF RequestRecord, At
  <2> HIDE DEF q
  <2> QED
    BY <1>1, <1>2, <1>3, <2>2, FoundIInv, Zenon
<1>4. ASSUME NEW at \in {"bootstrap", "failed"},
             at = "bootstrap" <=> request[r].at = "resolve",
             request' = [request EXCEPT ![r].at = at]
      PROVE  IInv'
  <2> DEFINE q == [request[r] EXCEPT !.at = at]
  <2>1. /\ request' = [request EXCEPT ![r] = q] /\ q \in RequestRecord
        /\ q.at = at /\ q.tenant = request[r].tenant /\ q.claims = request[r].claims
    BY <1>1, <1>4 DEF RequestRecord, At
  <2>2. Bootstrapped(request[r]) => Bootstrapped(q)
    BY <1>1, <1>4, <2>1 DEF Bootstrapped
  <2> HIDE DEF q
  <2> QED
    BY <1>1, <1>2, <2>1, <2>2, AdvanceIInv, Zenon
<1> QED
    BY <1>1, <1>3, <1>4 DEF Resolve

LEMMA BootstrapBeginIInv ==
    ASSUME IInv, NEW r \in Requests, BootstrapBegin(r)
    PROVE  IInv'
<1>1. PICK c \in Connections :
         request' = [request EXCEPT ![r].at = "inserting", ![r].conns = {c}]
    BY Zenon DEF BootstrapBegin, Free
<1> DEFINE q == [request[r] EXCEPT !.at = "inserting", !.conns = {c}]
<1>2. /\ request[r] \in RequestRecord /\ request[r].at = "bootstrap"
      /\ UNCHANGED <<users, progress, guc>> /\ guc \in [Connections -> Tenants \cup {None}]
    BY DEF BootstrapBegin, IInv, Types
<1>3. /\ request' = [request EXCEPT ![r] = q] /\ q \in RequestRecord
      /\ q.at = "inserting" /\ q.tenant = request[r].tenant /\ q.claims = request[r].claims
    BY <1>1, <1>2, Zenon DEF RequestRecord, At
<1> HIDE DEF q
<1> QED
    BY <1>2, <1>3, AdvanceIInv, Zenon DEF Bootstrapped

LEMMA BootstrapLosesIInv ==
    ASSUME IInv, NEW r \in Requests, BootstrapLoses(r)
    PROVE  IInv'
<1> DEFINE q == [request[r] EXCEPT !.at = "again", !.conns = {}]
<1>1. /\ request[r] \in RequestRecord /\ request[r].at = "inserting"
      /\ UNCHANGED <<users, progress, guc>> /\ guc \in [Connections -> Tenants \cup {None}]
    BY DEF BootstrapLoses, IInv, Types
<1>2. /\ request' = [request EXCEPT ![r] = q] /\ q \in RequestRecord
      /\ q.at = "again" /\ q.tenant = request[r].tenant /\ q.claims = request[r].claims
    BY <1>1, Zenon DEF BootstrapLoses, RequestRecord, At
<1> HIDE DEF q
<1> QED
    BY <1>1, <1>2, AdvanceIInv, Zenon DEF Bootstrapped

\* From here on the request's own transaction.
LEMMA EnterIInv ==
    ASSUME IInv, NEW r \in Requests, Enter(r)
    PROVE  IInv'
<1>1. PICK c \in Connections :
         /\ guc' = [guc EXCEPT ![c] = request[r].tenant]
         /\ request' = [request EXCEPT ![r].at = "open", ![r].conns = {c},
                                       ![r].saw = {request[r].tenant}]
    BY Zenon DEF Enter, Free
<1> DEFINE q == [request[r] EXCEPT !.at = "open", !.conns = {c}, !.saw = {request[r].tenant}]
<1>2. /\ request[r] \in RequestRecord /\ request[r].at = "enter"
      /\ request[r].tenant \in Tenants /\ UNCHANGED <<users, progress>>
    BY DEF Enter, IInv, Types, RequestsFit, RequestFits, RequestRecord
<1>3. guc' \in [Connections -> Tenants \cup {None}]
    BY <1>1, <1>2 DEF IInv, Types
<1>4. /\ request' = [request EXCEPT ![r] = q] /\ q \in RequestRecord
      /\ q.at = "open" /\ q.tenant = request[r].tenant /\ q.claims = request[r].claims
    BY <1>1, <1>2, Zenon DEF RequestRecord, At
<1> HIDE DEF q
<1> QED
    BY <1>2, <1>3, <1>4, AdvanceIInv, Zenon DEF Bootstrapped

LEMMA ReadIInv ==
    ASSUME IInv, NEW r \in Requests, ReadProgress(r)
    PROVE  IInv'
<1> DEFINE q == [request[r] EXCEPT !.at = "write", !.seen = progress[request[r].tenant]]
<1>1. /\ request[r] \in RequestRecord /\ request[r].at = "open"
      /\ request[r].tenant \in Tenants /\ UNCHANGED <<users, progress, guc>>
      /\ guc \in [Connections -> Tenants \cup {None}]
    BY DEF ReadProgress, IInv, Types, RequestsFit, RequestFits, RequestRecord
<1>2. progress[request[r].tenant] \in Status
    BY <1>1 DEF IInv, Types
<1>3. /\ request' = [request EXCEPT ![r] = q] /\ q \in RequestRecord
      /\ q.at = "write" /\ q.tenant = request[r].tenant /\ q.claims = request[r].claims
    BY <1>1, <1>2, Zenon DEF ReadProgress, RequestRecord, At
<1> HIDE DEF q
<1> QED
    BY <1>1, <1>3, AdvanceIInv, Zenon DEF Bootstrapped

\* The flush, and the answer.
LEMMA WrittenIInv ==
    ASSUME IInv, NEW r \in Requests, WriteProgress(r)
    PROVE  IInv'
<1> DEFINE q == [request[r] EXCEPT !.at = "written"]
<1>1. /\ request[r] \in RequestRecord /\ request[r].at = "write"
      /\ UNCHANGED <<users, progress, guc>> /\ guc \in [Connections -> Tenants \cup {None}]
    BY DEF WriteProgress, IInv, Types
<1>2. /\ request' = [request EXCEPT ![r] = q] /\ q \in RequestRecord
      /\ q.at = "written" /\ q.tenant = request[r].tenant /\ q.claims = request[r].claims
    BY <1>1, Zenon DEF WriteProgress, RequestRecord, At
<1> HIDE DEF q
<1> QED
    BY <1>1, <1>2, AdvanceIInv, Zenon DEF Bootstrapped

\* What the client is told.
Told(r) == IF request[r].op = "complete" THEN "completed"
           ELSE IF request[r].seen = None THEN "in_progress"
           ELSE request[r].seen

LEMMA AnswerIInv ==
    ASSUME IInv, NEW r \in Requests, AnswerProgress(r)
    PROVE  IInv'
<1> DEFINE q == [request[r] EXCEPT !.at = "answered", !.told = Told(r)]
<1>1. /\ request[r] \in RequestRecord /\ request[r].at = "written"
      /\ UNCHANGED <<users, progress, guc>> /\ guc \in [Connections -> Tenants \cup {None}]
    BY DEF AnswerProgress, IInv, Types
<1>2. Told(r) \in Status
  <2>1. request[r].seen \in Status
    BY <1>1 DEF RequestRecord
  <2> QED
    BY <2>1 DEF Told, Status
<1>3. request' = [request EXCEPT ![r].at = "answered", ![r].told = Told(r)]
    BY DEF AnswerProgress, Told
<1>4. /\ request' = [request EXCEPT ![r] = q] /\ q \in RequestRecord
      /\ q.at = "answered" /\ q.tenant = request[r].tenant /\ q.claims = request[r].claims
    BY <1>1, <1>2, <1>3, Zenon DEF RequestRecord, At
<1> HIDE DEF q
<1> QED
    BY <1>1, <1>4, AdvanceIInv, Zenon DEF Bootstrapped

LEMMA NestedBeginIInv ==
    ASSUME IInv, NEW r \in Requests, NestedBegin(r)
    PROVE  IInv'
<1>1. PICK c \in Connections :
         request' = [request EXCEPT ![r].at = "nested", ![r].conns = @ \cup {c},
                                    ![r].saw = @ \cup ({guc[c]} \ {None})]
    BY Zenon DEF NestedBegin, Free
<1> DEFINE q == [request[r] EXCEPT !.at = "nested", !.conns = request[r].conns \cup {c},
                                   !.saw = request[r].saw \cup ({guc[c]} \ {None})]
<1>2. /\ request[r] \in RequestRecord /\ request[r].at = "open"
      /\ UNCHANGED <<users, progress, guc>> /\ guc \in [Connections -> Tenants \cup {None}]
    BY DEF NestedBegin, IInv, Types
<1>3. {guc[c]} \ {None} \subseteq Tenants
    BY <1>2
<1>4. /\ request' = [request EXCEPT ![r] = q] /\ q \in RequestRecord
      /\ q.at = "nested" /\ q.tenant = request[r].tenant /\ q.claims = request[r].claims
    BY <1>1, <1>2, <1>3, Zenon DEF RequestRecord, At
<1> HIDE DEF q
<1> QED
    BY <1>2, <1>4, AdvanceIInv, Zenon DEF Bootstrapped

LEMMA StepIInv == IInv /\ [AccountsNext]_accountVars => IInv'
<1> SUFFICES ASSUME IInv, [AccountsNext]_accountVars PROVE IInv'
    OBVIOUS
<1>1. progress \in [Tenants -> Status]
    BY DEF IInv, Types
<1>2. ASSUME NEW r \in Requests, NEW op \in Op, NEW c \in Identities, Authenticate(r, op, c)
      PROVE  IInv'
    BY <1>2, AuthenticateIInv
<1>3. ASSUME NEW r \in Requests, Resolve(r) PROVE IInv'
    BY <1>3, ResolveIInv
<1>4. ASSUME NEW r \in Requests, BootstrapBegin(r) PROVE IInv'
    BY <1>4, BootstrapBeginIInv
<1>5. ASSUME NEW r \in Requests, BootstrapInsert(r) PROVE IInv'
    BY <1>5, InsertIInv
<1>6. ASSUME NEW r \in Requests, BootstrapLoses(r) PROVE IInv'
    BY <1>6, BootstrapLosesIInv
<1>7. ASSUME NEW r \in Requests, BootstrapCommit(r) PROVE IInv'
    BY <1>7, CommitIInv
<1>8. ASSUME NEW r \in Requests, Enter(r) PROVE IInv'
    BY <1>8, EnterIInv
<1>9. ASSUME NEW r \in Requests, ReadProgress(r) PROVE IInv'
    BY <1>9, ReadIInv
<1>10. ASSUME NEW r \in Requests, CommitProgress(r) PROVE IInv'
  <2>1. request[r].tenant \in Tenants
    BY <1>10 DEF CommitProgress, IInv, Types, RequestsFit, RequestFits, RequestRecord
  <2>2. Upserted(r) \in Status
    BY <1>1, <2>1 DEF Upserted, Status
  <2>3. progress' \in [Tenants -> Status]
    BY <1>1, <1>10, <2>2, Zenon DEF CommitProgress
  <2> QED
    BY <1>10, <2>3, Ends DEF CommitProgress
<1>17. ASSUME NEW r \in Requests, WriteProgress(r) \/ AnswerProgress(r) PROVE IInv'
    BY <1>17, WrittenIInv, AnswerIInv
<1>11. ASSUME NEW r \in Requests, WriteFails(r) PROVE IInv'
    BY <1>1, <1>11, Ends DEF WriteFails
<1>12. ASSUME NEW r \in Requests, NestedBegin(r) PROVE IInv'
    BY <1>12, NestedBeginIInv
<1>13. ASSUME NEW r \in Requests, NestedEnd(r) PROVE IInv'
    BY <1>1, <1>13, Ends DEF NestedEnd
<1>14. ASSUME NEW r \in Requests, PoolTimeout(r) PROVE IInv'
    BY <1>1, <1>14, Ends DEF PoolTimeout, WantsConnection
<1>15. ASSUME NEW r \in Requests, Dies(r) PROVE IInv'
    BY <1>1, <1>15, Ends DEF Dies
<1>16. CASE UNCHANGED accountVars
  <2>1. Types' /\ RequestsFit' /\ UsersApart' /\ UsersNamed'
    BY <1>16 DEF accountVars, IInv, Types, RequestsFit, UsersApart, UsersNamed
  <2>2. InsertsApart' /\ PrincipalsMatch'
    BY <1>16 DEF accountVars, IInv, InsertsApart, Conflict, SameKey, PrincipalsMatch, Principal, Matches
  <2> QED
    BY <2>1, <2>2 DEF IInv
<1> QED
    BY <1>2, <1>3, <1>4, <1>5, <1>6, <1>7, <1>8, <1>9, <1>10, <1>11, <1>12, <1>13, <1>14,
       <1>15, <1>16, <1>17 DEF AccountsNext, Proceed

-----------------------------------------------------------------------------
(* What the sessions see                                                   *)

\* The request's transaction is open.
Inside(q) == q.at \in {"open", "write", "written", "answered", "nested"}

\* A request has seen nothing before it enters, then its own tenant's rows.
Sees(q) ==
    /\ q.saw \subseteq {q.tenant}
    /\ ~Inside(q) /\ q.at \notin {"done", "failed"} => q.saw = {}

\* A setting lives on a connection that an open transaction holds, so that a nested
\* session draws a connection without one.
SInv ==
    /\ \A r \in Requests : Sees(request[r])
    /\ \A c \in Connections : guc[c] # None =>
          \E r \in Requests : Inside(request[r]) /\ c \in request[r].conns

\* A step of one request.
LEMMA SessionStep ==
    ASSUME IInv, SInv, NEW r \in Requests, NEW q,
           request' = [request EXCEPT ![r] = q], Sees(q),
           \A c \in Connections : guc'[c] # None =>
              \/ Inside(q) /\ c \in q.conns
              \/ guc[c] # None /\ (Inside(request[r]) => c \notin request[r].conns)
    PROVE  SInv'
<1>1. /\ request'[r] = q
      /\ \A p \in Requests \ {r} : request'[p] = request[p]
    BY DEF IInv, Types
<1> QED
    BY <1>1 DEF SInv

\* A step before the transaction is open, which sets nothing.
LEMMA OutsideStep ==
    ASSUME IInv, SInv, NEW r \in Requests, NEW q,
           request' = [request EXCEPT ![r] = q], UNCHANGED guc,
           request[r].at \notin {"open", "write", "written", "answered", "nested", "done", "failed"},
           q.saw = request[r].saw
    PROVE  SInv'
<1>1. request[r].saw = {} /\ ~Inside(request[r])
    BY DEF SInv, Sees, Inside
<1> QED
    BY <1>1, SessionStep, Zenon DEF Sees

LEMMA EndStep ==
    ASSUME IInv, SInv, NEW r \in Requests, NEW at \in {"done", "failed"},
           EndTransaction(r, at)
    PROVE  SInv'
<1> DEFINE q == [request[r] EXCEPT !.at = at, !.conns = {}]
<1>1. request[r] \in RequestRecord /\ guc \in [Connections -> Tenants \cup {None}]
    BY DEF IInv, Types
<1>2. /\ request' = [request EXCEPT ![r] = q]
      /\ q.at = at /\ q.saw = request[r].saw /\ q.tenant = request[r].tenant
    BY <1>1, Zenon DEF EndTransaction, RequestRecord
<1> HIDE DEF q
<1>3. \A c \in Connections : guc'[c] # None => guc[c] # None /\ c \notin request[r].conns
    BY <1>1 DEF EndTransaction, Unset
<1>4. Sees(q)
    BY <1>2 DEF SInv, Sees
<1> QED
    BY <1>2, <1>3, <1>4, SessionStep, Zenon

LEMMA StepSInv == IInv /\ SInv /\ [AccountsNext]_accountVars => SInv'
<1> SUFFICES ASSUME IInv, SInv, [AccountsNext]_accountVars PROVE SInv'
    OBVIOUS
<1>1. \A r \in Requests : request[r] \in RequestRecord
    BY DEF IInv, Types
<1>2. ASSUME NEW r \in Requests, NEW op \in Op, NEW c \in Identities, Authenticate(r, op, c)
      PROVE  SInv'
  <2> DEFINE q == [request[r] EXCEPT !.at = "resolve", !.op = op, !.claims = c]
  <2>1. request' = [request EXCEPT ![r] = q] /\ q.saw = request[r].saw
    BY <1>1, <1>2, Zenon DEF Authenticate, RequestRecord
  <2> HIDE DEF q
  <2> QED
    BY <1>2, <2>1, OutsideStep, Zenon DEF Authenticate
<1>3. ASSUME NEW r \in Requests, Resolve(r) PROVE SInv'
  <2>1. PICK at \in {"enter", "bootstrap", "failed"}, t \in {u.id : u \in users} \cup {request[r].tenant} :
           request' = [request EXCEPT ![r].at = at, ![r].tenant = t]
    <3>1. request = [request EXCEPT ![r].tenant = request[r].tenant]
      BY <1>1 DEF RequestRecord, IInv, Types
    <3> QED
      BY <1>3 DEF Resolve
  <2> DEFINE q == [request[r] EXCEPT !.at = at, !.tenant = t]
  <2>2. request' = [request EXCEPT ![r] = q] /\ q.saw = request[r].saw
    BY <1>1, <2>1, Zenon DEF RequestRecord
  <2> HIDE DEF q
  <2> QED
    BY <1>3, <2>2, OutsideStep, Zenon DEF Resolve
<1>4. ASSUME NEW r \in Requests, BootstrapBegin(r) PROVE SInv'
  <2>1. PICK c \in Connections :
           request' = [request EXCEPT ![r].at = "inserting", ![r].conns = {c}]
    BY <1>4, Zenon DEF BootstrapBegin, Free
  <2> DEFINE q == [request[r] EXCEPT !.at = "inserting", !.conns = {c}]
  <2>2. request' = [request EXCEPT ![r] = q] /\ q.saw = request[r].saw
    BY <1>1, <2>1, Zenon DEF RequestRecord
  <2> HIDE DEF q
  <2> QED
    BY <1>4, <2>2, OutsideStep, Zenon DEF BootstrapBegin
<1>5. ASSUME NEW r \in Requests, BootstrapInsert(r) PROVE SInv'
  <2> DEFINE q == [request[r] EXCEPT !.at = "inserted"]
  <2>1. request' = [request EXCEPT ![r] = q] /\ q.saw = request[r].saw
    BY <1>1, <1>5 DEF BootstrapInsert, RequestRecord
  <2> HIDE DEF q
  <2> QED
    BY <1>5, <2>1, OutsideStep, Zenon DEF BootstrapInsert
<1>6. ASSUME NEW r \in Requests, BootstrapLoses(r) \/ BootstrapCommit(r) PROVE SInv'
  <2> DEFINE q == [request[r] EXCEPT !.at = "again", !.conns = {}]
  <2>1. request' = [request EXCEPT ![r] = q] /\ q.saw = request[r].saw
    BY <1>1, <1>6, Zenon DEF BootstrapLoses, BootstrapCommit, RequestRecord
  <2> HIDE DEF q
  <2> QED
    BY <1>6, <2>1, OutsideStep, Zenon DEF BootstrapLoses, BootstrapCommit
<1>7. ASSUME NEW r \in Requests, Enter(r) PROVE SInv'
  <2>1. PICK c \in Connections :
           /\ guc' = [guc EXCEPT ![c] = request[r].tenant]
           /\ request' = [request EXCEPT ![r].at = "open", ![r].conns = {c},
                                         ![r].saw = {request[r].tenant}]
    BY <1>7, Zenon DEF Enter, Free
  <2> DEFINE q == [request[r] EXCEPT !.at = "open", !.conns = {c}, !.saw = {request[r].tenant}]
  <2>2. /\ request' = [request EXCEPT ![r] = q]
        /\ q.at = "open" /\ q.conns = {c} /\ q.saw = {q.tenant}
    BY <1>1, <2>1, Zenon DEF RequestRecord
  <2> HIDE DEF q
  <2>3. \A d \in Connections : guc'[d] # None => d = c \/ guc[d] # None
    BY <2>1 DEF IInv, Types
  <2>4. ~Inside(request[r])
    BY <1>7 DEF Enter, Inside
  <2> QED
    BY <2>2, <2>3, <2>4, SessionStep, Zenon DEF Sees, Inside
<1>8. ASSUME NEW r \in Requests, ReadProgress(r) PROVE SInv'
  <2> DEFINE q == [request[r] EXCEPT !.at = "write", !.seen = progress[request[r].tenant]]
  <2>1. /\ request' = [request EXCEPT ![r] = q]
        /\ q.at = "write" /\ q.conns = request[r].conns
        /\ q.saw = request[r].saw /\ q.tenant = request[r].tenant
    BY <1>1, <1>8, Zenon DEF ReadProgress, RequestRecord
  <2> HIDE DEF q
  <2>2. Sees(q)
    BY <2>1 DEF SInv, Sees, Inside
  <2> QED
    BY <1>8, <2>1, <2>2, SessionStep, Zenon DEF ReadProgress, Inside
<1>9. ASSUME NEW r \in Requests, NestedBegin(r) PROVE SInv'
  <2>1. PICK c \in Free :
           request' = [request EXCEPT ![r].at = "nested", ![r].conns = @ \cup {c},
                                      ![r].saw = @ \cup ({guc[c]} \ {None})]
    BY <1>9, Zenon DEF NestedBegin
  <2>2. c \in Connections /\ guc[c] = None
    BY DEF Free, Held, SInv
  <2> DEFINE q == [request[r] EXCEPT !.at = "nested", !.conns = request[r].conns \cup {c},
                                     !.saw = request[r].saw \cup ({guc[c]} \ {None})]
  <2>3. /\ request' = [request EXCEPT ![r] = q]
        /\ q.at = "nested" /\ q.conns = request[r].conns \cup {c}
        /\ q.saw = request[r].saw /\ q.tenant = request[r].tenant
    BY <1>1, <2>1, <2>2, Zenon DEF RequestRecord
  <2> HIDE DEF q
  <2>4. Sees(q)
    BY <2>3 DEF SInv, Sees, Inside
  <2> QED
    BY <1>9, <2>3, <2>4, SessionStep, Zenon DEF NestedBegin, Inside
<1>10. ASSUME NEW r \in Requests,
              \/ CommitProgress(r) \/ WriteFails(r) \/ NestedEnd(r) \/ PoolTimeout(r) \/ Dies(r)
       PROVE  SInv'
    BY <1>10, EndStep DEF CommitProgress, WriteFails, NestedEnd, PoolTimeout, Dies
<1>12. ASSUME NEW r \in Requests, NEW q, request' = [request EXCEPT ![r] = q], UNCHANGED guc,
              Inside(request[r]), Inside(q), q.conns = request[r].conns,
              q.saw = request[r].saw, q.tenant = request[r].tenant
       PROVE  SInv'
  <2>1. Sees(q)
    BY <1>12 DEF SInv, Sees
  <2>2. \A c \in Connections : guc'[c] # None =>
           (Inside(q) /\ c \in q.conns) \/ (guc[c] # None /\ c \notin request[r].conns)
    BY <1>12
  <2> QED
    BY <1>12, <2>1, <2>2, SessionStep, Zenon
<1>13. ASSUME NEW r \in Requests, WriteProgress(r) PROVE SInv'
  <2> DEFINE q == [request[r] EXCEPT !.at = "written"]
  <2>1. /\ request' = [request EXCEPT ![r] = q] /\ UNCHANGED guc
        /\ request[r].at = "write" /\ q.at = "written" /\ q.conns = request[r].conns
        /\ q.saw = request[r].saw /\ q.tenant = request[r].tenant
    BY <1>1, <1>13, Zenon DEF WriteProgress, RequestRecord
  <2> HIDE DEF q
  <2> QED
    BY <1>12, <2>1 DEF Inside
<1>14. ASSUME NEW r \in Requests, AnswerProgress(r) PROVE SInv'
  <2> DEFINE q == [request[r] EXCEPT !.at = "answered", !.told = Told(r)]
  <2>1. request' = [request EXCEPT ![r].at = "answered", ![r].told = Told(r)]
    BY <1>14 DEF AnswerProgress, Told
  <2>2. /\ request' = [request EXCEPT ![r] = q] /\ UNCHANGED guc
        /\ request[r].at = "written" /\ q.at = "answered" /\ q.conns = request[r].conns
        /\ q.saw = request[r].saw /\ q.tenant = request[r].tenant
    BY <1>1, <1>14, <2>1, Zenon DEF AnswerProgress, RequestRecord
  <2> HIDE DEF q
  <2> QED
    BY <1>12, <2>2 DEF Inside
<1>11. CASE UNCHANGED accountVars
    BY <1>11 DEF accountVars, SInv
<1> QED
    BY <1>2, <1>3, <1>4, <1>5, <1>6, <1>7, <1>8, <1>9, <1>10, <1>11, <1>13, <1>14
    DEF AccountsNext, Proceed

-----------------------------------------------------------------------------
(* The progress of a lesson                                                *)

\* What a request has asked for, read and been told.
Kept(q) ==
    /\ q.at = "nested" => q.op = "forecast"
    /\ q.at \in {"write", "written", "answered"} /\ q.seen = "completed" =>
          progress[q.tenant] = "completed"
    /\ q.told # None => q.at \in {"answered", "done", "failed"} /\ q.tenant \in Tenants
    /\ q.told = "completed" =>
          \/ progress[q.tenant] = "completed"
          \/ q.op = "complete" /\ q.at \in {"answered", "failed"}

\* A row is flushed by one request at a time, and an insert by one that still finds none.
KInv ==
    /\ \A r \in Requests : Kept(request[r])
    /\ \A r, q \in Requests :
          Locks(r) /\ Locks(q) /\ request[r].tenant = request[q].tenant => r = q
    /\ \A r \in Requests : Locks(r) /\ request[r].seen = None =>
          progress[request[r].tenant] = None

\* A step of r that writes no progress and flushes nothing.
LEMMA ProgressKept ==
    ASSUME IInv, KInv, NEW r \in Requests, NEW q,
           request' = [request EXCEPT ![r] = q], UNCHANGED progress,
           Kept(q), q.at \notin {"written", "answered"}
    PROVE  KInv'
<1>1. /\ request'[r] = q
      /\ \A p \in Requests \ {r} : request'[p] = request[p]
    BY DEF IInv, Types
<1>2. \A p \in Requests : Kept(request[p])'
    BY <1>1 DEF KInv, Kept
<1>3. ~Locks(r)' /\ \A p \in Requests \ {r} : Locks(p)' = Locks(p)
    BY <1>1 DEF Locks, Writes
<1> QED
    BY <1>1, <1>2, <1>3 DEF KInv

\* The flush finds no other on its row.
LEMMA WriteLocks ==
    ASSUME IInv, KInv, NEW r \in Requests, WriteProgress(r)
    PROVE  KInv'
<1> DEFINE q == [request[r] EXCEPT !.at = "written"]
<1>1. /\ request[r] \in RequestRecord /\ request[r].at = "write" /\ UNCHANGED progress
    BY DEF WriteProgress, IInv, Types
<1>2. /\ request' = [request EXCEPT ![r] = q]
      /\ q.at = "written" /\ q.op = request[r].op /\ q.tenant = request[r].tenant
      /\ q.seen = request[r].seen /\ q.told = request[r].told
    BY <1>1, Zenon DEF WriteProgress, RequestRecord
<1>3. /\ request'[r] = q
      /\ \A p \in Requests \ {r} : request'[p] = request[p]
    BY <1>2 DEF IInv, Types
<1> HIDE DEF q
<1>4. Kept(q)
    BY <1>1, <1>2 DEF KInv, Kept
<1>5. \A p \in Requests : Kept(request[p])'
    BY <1>1, <1>3, <1>4 DEF KInv, Kept
<1>6. /\ Locks(r)' => Writes(r)
      /\ \A p \in Requests \ {r} : Locks(p)' = Locks(p)
    BY <1>2, <1>3 DEF Locks, Writes
<1>7. ~DuplicateProgress(r)
      /\ (Writes(r) => \A p \in Requests : Locks(p) => request[p].tenant # request[r].tenant)
    BY DEF WriteProgress
<1>8. \A o, p \in Requests :
          Locks(o)' /\ Locks(p)' /\ request'[o].tenant = request'[p].tenant => o = p
    BY <1>2, <1>3, <1>6, <1>7 DEF KInv
<1>9. \A p \in Requests : Locks(p)' /\ request'[p].seen = None =>
          progress[request'[p].tenant] = None
    BY <1>2, <1>3, <1>6, <1>7 DEF KInv, DuplicateProgress
<1> QED
    BY <1>1, <1>5, <1>8, <1>9 DEF KInv

\* A page is told of the status it read, a completion of the one it has flushed.
LEMMA AnswerTells ==
    ASSUME IInv, KInv, NEW r \in Requests, AnswerProgress(r)
    PROVE  KInv'
<1> DEFINE q == [request[r] EXCEPT !.at = "answered", !.told = Told(r)]
<1>1. /\ request[r] \in RequestRecord /\ request[r].at = "written" /\ UNCHANGED progress
      /\ request[r].tenant \in Tenants
    BY DEF AnswerProgress, IInv, Types, RequestsFit, RequestFits, RequestRecord
<1>2. request' = [request EXCEPT ![r].at = "answered", ![r].told = Told(r)]
    BY DEF AnswerProgress, Told
<1>3. /\ request' = [request EXCEPT ![r] = q]
      /\ q.at = "answered" /\ q.op = request[r].op /\ q.tenant = request[r].tenant
      /\ q.seen = request[r].seen /\ q.told = Told(r)
    BY <1>1, <1>2, Zenon DEF RequestRecord
<1>4. /\ request'[r] = q
      /\ \A p \in Requests \ {r} : request'[p] = request[p]
    BY <1>3 DEF IInv, Types
<1> HIDE DEF q
<1>5. Kept(q)
    BY <1>1, <1>3 DEF KInv, Kept, Told
<1>6. \A p \in Requests : Kept(request[p])'
    BY <1>1, <1>4, <1>5 DEF KInv, Kept
<1>7. \A p \in Requests :
          Locks(p)' = Locks(p) /\ request'[p].tenant = request[p].tenant
          /\ request'[p].seen = request[p].seen
    BY <1>1, <1>3, <1>4 DEF Locks, Writes
<1> QED
    BY <1>1, <1>6, <1>7 DEF KInv

\* A completion commits "completed"; a view inserts where there is no row, and no
\* completion either, or leaves the status as it is.
LEMMA CommitKeepsCompletions ==
    ASSUME IInv, KInv, NEW r \in Requests, CommitProgress(r)
    PROVE  KInv'
<1> DEFINE q == [request[r] EXCEPT !.at = "done", !.conns = {}]
           t == request[r].tenant
<1>1. /\ request[r] \in RequestRecord /\ progress \in [Tenants -> Status]
      /\ request[r].at = "answered" /\ t \in Tenants
    BY DEF CommitProgress, IInv, Types, RequestsFit, RequestFits, RequestRecord
<1>2. /\ request' = [request EXCEPT ![r] = q]
      /\ q.at = "done" /\ q.op = request[r].op /\ q.tenant = t /\ q.told = request[r].told
    BY <1>1, Zenon DEF CommitProgress, EndTransaction, RequestRecord
<1>3. /\ request'[r] = q
      /\ \A p \in Requests \ {r} : request'[p] = request[p]
    BY <1>2 DEF IInv, Types
<1>4. /\ progress'[t] = Upserted(r)
      /\ \A u \in Tenants \ {t} : progress'[u] = progress[u]
    BY <1>1 DEF CommitProgress
<1> HIDE DEF q
<1>5. progress[t] = "completed" => Upserted(r) = "completed"
  <2>1. progress[t] = "completed" /\ request[r].seen = None => FALSE
    BY <1>1, OneProvider DEF KInv, Locks, Writes
  <2> QED
    BY <2>1 DEF Upserted
<1>6. \A u \in Tenants : progress[u] = "completed" => progress'[u] = "completed"
    BY <1>4, <1>5
<1>7. Kept(request[r])'
  <2>1. request[r].told = "completed" =>
            progress[t] = "completed" \/ request[r].op = "complete"
    BY DEF KInv, Kept
  <2>2. request[r].op = "complete" => progress'[t] = "completed"
    BY <1>4 DEF Upserted
  <2>4. q.told = "completed" => progress'[q.tenant] = "completed"
    BY <1>1, <1>2, <1>6, <2>1, <2>2
  <2>5. q.at = "done" /\ q.tenant \in Tenants
    BY <1>1, <1>2
  <2> QED
    BY <1>3, <2>4, <2>5 DEF Kept
<1>8. ASSUME NEW p \in Requests \ {r} PROVE Kept(request[p])'
  <2>1. Kept(request[p]) /\ request'[p] = request[p]
    BY <1>3 DEF KInv
  <2>2. request[p].at \in {"write", "written", "answered"} => request[p].tenant \in Tenants
    BY DEF IInv, Types, RequestsFit, RequestFits, RequestRecord
  <2> QED
    BY <1>6, <2>1, <2>2, OneProvider DEF Kept
<1>9. ~Locks(r)' /\ \A p \in Requests \ {r} : Locks(p)' = Locks(p)
    BY <1>2, <1>3 DEF Locks, Writes
<1>10. ASSUME NEW p \in Requests, Locks(p)', request'[p].seen = None
       PROVE  progress'[request'[p].tenant] = None
  <2>1. p # r /\ Locks(p) /\ request'[p] = request[p] /\ progress[request[p].tenant] = None
    BY <1>3, <1>9, <1>10 DEF KInv
  <2>2. request[p].tenant \in Tenants
    BY <2>1 DEF Locks, IInv, Types, RequestsFit, RequestFits, RequestRecord
  <2>3. CASE request[p].tenant # t
    BY <1>4, <2>1, <2>2, <2>3
  <2>4. CASE request[p].tenant = t
    <3>1. ~Locks(r)
      BY <2>1, <2>4 DEF KInv
    <3>2. request[r].op # "complete" /\ request[r].seen = "completed"
      BY <1>1, <3>1 DEF Locks, Writes
    <3>3. progress[t] = "completed"
      BY <1>1, <3>2 DEF KInv, Kept
    <3> QED
      BY <2>1, <2>4, <3>3, OneProvider
  <2> QED
    BY <2>3, <2>4
<1>11. \A p \in Requests : Kept(request[p])'
  <2>1. \A p \in Requests : p = r \/ p \in Requests \ {r}
    OBVIOUS
  <2> QED
    BY <1>7, <1>8, <2>1, Zenon
<1>12. \A o, p \in Requests :
          Locks(o)' /\ Locks(p)' /\ request'[o].tenant = request'[p].tenant => o = p
    BY <1>3, <1>9 DEF KInv
<1> QED
    BY <1>10, <1>11, <1>12 DEF KInv

LEMMA StepKInv == IInv /\ KInv /\ [AccountsNext]_accountVars => KInv'
<1> SUFFICES ASSUME IInv, KInv, [AccountsNext]_accountVars PROVE KInv'
    OBVIOUS
<1>1. \A r \in Requests : request[r] \in RequestRecord /\ Kept(request[r])
    BY DEF IInv, Types, KInv
<1>2. request \in [Requests -> RequestRecord]
    BY DEF IInv, Types
<1>3. ASSUME NEW r \in Requests, NEW q, request[r].at \notin {"answered", "done", "failed"},
             request' = [request EXCEPT ![r] = q], UNCHANGED progress,
             q.told = request[r].told,
             q.at \notin {"write", "written", "answered", "nested"}
      PROVE  KInv'
  <2>1. q.told = None
    BY <1>1, <1>3 DEF Kept
  <2>2. Kept(q)
    BY <1>3, <2>1, OneProvider DEF Kept
  <2> QED
    BY <1>3, <2>2, ProgressKept, Zenon
<1>4. ASSUME NEW r \in Requests, NEW op \in Op, NEW c \in Identities, Authenticate(r, op, c)
      PROVE  KInv'
  <2> DEFINE q == [request[r] EXCEPT !.at = "resolve", !.op = op, !.claims = c]
  <2>1. /\ request' = [request EXCEPT ![r] = q]
        /\ q.at = "resolve" /\ q.told = request[r].told
    BY <1>1, <1>4, Zenon DEF Authenticate, RequestRecord
  <2> HIDE DEF q
  <2> QED
    BY <1>3, <1>4, <2>1 DEF Authenticate
<1>5. ASSUME NEW r \in Requests, Resolve(r) PROVE KInv'
  <2>1. ASSUME NEW u \in users, request' = [request EXCEPT ![r].at = "enter", ![r].tenant = u.id]
        PROVE  KInv'
    <3> DEFINE q == [request[r] EXCEPT !.at = "enter", !.tenant = u.id]
    <3>1. /\ request' = [request EXCEPT ![r] = q]
          /\ q.at = "enter" /\ q.told = request[r].told
      BY <1>1, <2>1, Zenon DEF RequestRecord
    <3> HIDE DEF q
    <3> QED
      BY <1>3, <1>5, <3>1 DEF Resolve
  <2>2. ASSUME NEW at \in {"bootstrap", "failed"}, request' = [request EXCEPT ![r].at = at]
        PROVE  KInv'
    <3> DEFINE q == [request[r] EXCEPT !.at = at]
    <3>1. /\ request' = [request EXCEPT ![r] = q]
          /\ q.at = at /\ q.told = request[r].told
      BY <1>1, <2>2, Zenon DEF RequestRecord
    <3> HIDE DEF q
    <3> QED
      BY <1>3, <1>5, <3>1 DEF Resolve
  <2> QED
    BY <1>5, <2>1, <2>2 DEF Resolve
<1>6. ASSUME NEW r \in Requests, NEW at \in {"inserting", "again"}, NEW conns,
             request[r].at \in {"bootstrap", "inserting", "inserted"}, UNCHANGED progress,
             request' = [request EXCEPT ![r].at = at, ![r].conns = conns]
      PROVE  KInv'
  <2> DEFINE q == [request[r] EXCEPT !.at = at, !.conns = conns]
  <2>1. /\ request' = [request EXCEPT ![r] = q]
        /\ q.at = at /\ q.told = request[r].told
    BY <1>1, <1>6, Zenon DEF RequestRecord
  <2> HIDE DEF q
  <2> QED
    BY <1>3, <1>6, <2>1
<1>7. ASSUME NEW r \in Requests, BootstrapBegin(r) \/ BootstrapLoses(r) \/ BootstrapCommit(r)
      PROVE  KInv'
    BY <1>6, <1>7 DEF BootstrapBegin, BootstrapLoses, BootstrapCommit
<1>8. ASSUME NEW r \in Requests, BootstrapInsert(r) PROVE KInv'
  <2> DEFINE q == [request[r] EXCEPT !.at = "inserted"]
  <2>1. /\ request' = [request EXCEPT ![r] = q]
        /\ q.at = "inserted" /\ q.told = request[r].told
    BY <1>1, <1>8 DEF BootstrapInsert, RequestRecord
  <2> HIDE DEF q
  <2> QED
    BY <1>3, <1>8, <2>1 DEF BootstrapInsert
<1>9. ASSUME NEW r \in Requests, Enter(r) PROVE KInv'
  <2>1. PICK c \in Free : request' = [request EXCEPT ![r].at = "open", ![r].conns = {c},
                                                      ![r].saw = {request[r].tenant}]
    BY <1>9, Zenon DEF Enter
  <2> DEFINE q == [request[r] EXCEPT !.at = "open", !.conns = {c}, !.saw = {request[r].tenant}]
  <2>2. /\ request' = [request EXCEPT ![r] = q]
        /\ q.at = "open" /\ q.told = request[r].told
    BY <1>1, <2>1, Zenon DEF RequestRecord
  <2> HIDE DEF q
  <2> QED
    BY <1>3, <1>9, <2>2 DEF Enter
<1>10. ASSUME NEW r \in Requests, ReadProgress(r) PROVE KInv'
  <2> DEFINE q == [request[r] EXCEPT !.at = "write", !.seen = progress[request[r].tenant]]
  <2>1. /\ request' = [request EXCEPT ![r] = q]
        /\ q.at = "write" /\ q.told = request[r].told /\ q.tenant = request[r].tenant
        /\ q.seen = progress[request[r].tenant]
    BY <1>1, <1>10, Zenon DEF ReadProgress, RequestRecord
  <2> HIDE DEF q
  <2>2. request[r].at = "open" /\ UNCHANGED progress
    BY <1>10 DEF ReadProgress
  <2>3. q.told = None
    BY <1>1, <2>1, <2>2 DEF Kept
  <2>4. Kept(q)
    BY <2>1, <2>3, OneProvider DEF Kept
  <2> QED
    BY <2>1, <2>2, <2>4, ProgressKept, Zenon
<1>11. ASSUME NEW r \in Requests, WriteProgress(r) \/ AnswerProgress(r) \/ CommitProgress(r)
       PROVE  KInv'
    BY <1>11, WriteLocks, AnswerTells, CommitKeepsCompletions
<1>12. ASSUME NEW r \in Requests, NEW at \in {"done", "failed"}, EndTransaction(r, at),
              UNCHANGED progress, request[r].at \notin {"done", "failed"},
              at = "done" => request[r].at # "answered"
       PROVE  KInv'
  <2> DEFINE q == [request[r] EXCEPT !.at = at, !.conns = {}]
  <2>1. /\ request' = [request EXCEPT ![r] = q]
        /\ q.at = at /\ q.told = request[r].told /\ q.op = request[r].op
        /\ q.tenant = request[r].tenant
    BY <1>1, <1>12, Zenon DEF EndTransaction, RequestRecord
  <2> HIDE DEF q
  <2>2. Kept(q)
    BY <1>1, <1>12, <2>1 DEF Kept
  <2> QED
    BY <1>12, <2>1, <2>2, ProgressKept, Zenon
<1>13. ASSUME NEW r \in Requests, WriteFails(r) \/ PoolTimeout(r) \/ Dies(r) \/ NestedEnd(r)
       PROVE  KInv'
    BY <1>12, <1>13 DEF WriteFails, PoolTimeout, WantsConnection, Dies, NestedEnd
<1>14. ASSUME NEW r \in Requests, NestedBegin(r) PROVE KInv'
  <2>1. PICK c \in Free : request' = [request EXCEPT ![r].at = "nested", ![r].conns = @ \cup {c},
                                         ![r].saw = @ \cup ({guc[c]} \ {None})]
    BY <1>14, Zenon DEF NestedBegin
  <2> DEFINE q == [request[r] EXCEPT !.at = "nested", !.conns = @ \cup {c},
                                     !.saw = @ \cup ({guc[c]} \ {None})]
  <2>2. request' = [request EXCEPT ![r] = q]
    BY <1>1, <2>1, Zenon DEF IInv, Types
  <2>3. q.at = "nested" /\ q.op = "forecast" /\ q.told = request[r].told
    BY <1>1, <1>14 DEF NestedBegin, RequestRecord
  <2> HIDE DEF q
  <2>4. request[r].at = "open" /\ UNCHANGED progress
    BY <1>14 DEF NestedBegin
  <2>5. q.told = None
    BY <1>1, <2>3, <2>4 DEF Kept
  <2>6. Kept(q)
    BY <2>3, <2>5, OneProvider DEF Kept
  <2> QED
    BY <2>2, <2>3, <2>4, <2>6, ProgressKept, Zenon
<1>15. CASE UNCHANGED accountVars
    BY <1>15 DEF accountVars, KInv, Kept, Locks, Writes
<1> QED
    BY <1>4, <1>5, <1>7, <1>8, <1>9, <1>10, <1>11, <1>13, <1>14, <1>15 DEF AccountsNext, Proceed

-----------------------------------------------------------------------------
(* Theorems about accounts                                                 *)

\* However many first logins race, lose and die, requests work in one tenant exactly
\* when their tokens prove one identity, under either provider: of two bootstraps of
\* one person the unique indexes fail one, which then finds the other's user.
THEOREM SingleTenant == AccountsSpec => []OneTenantPerIdentity
<1>1. IInv => OneTenantPerIdentity
  <2> SUFFICES ASSUME IInv, NEW q \in Requests, NEW r \in Requests, Entered(q), Entered(r)
               PROVE  request[q].tenant = request[r].tenant
                        <=> IF request[q].claims.sub # None
                            THEN request[q].claims.sub = request[r].claims.sub
                            ELSE request[q].claims.email = request[r].claims.email
    BY DEF OneTenantPerIdentity
  <2>1. PICK u \in users : u.id = request[q].tenant /\ Matches(u, request[q].claims)
    BY DEF IInv, PrincipalsMatch, Principal, Entered
  <2>2. PICK v \in users : v.id = request[r].tenant /\ Matches(v, request[r].claims)
    BY DEF IInv, PrincipalsMatch, Principal, Entered
  <2>3. request[q].claims \in Identities /\ request[r].claims \in Identities
    BY DEF IInv, PrincipalsMatch, Principal, Entered
  <2>4. request[q].claims.sub # None <=> request[r].claims.sub # None
    BY <2>3, OneProvider
  <2>5. u.id = v.id \/ u.email = v.email \/ (u.sub # None /\ u.sub = v.sub) => u = v
    BY DEF IInv, UsersApart
  <2> QED
    BY <2>1, <2>2, <2>4, <2>5 DEF Matches
<1>2. AccountsInit => IInv
    BY InitIInv
<1>3. IInv /\ [AccountsNext]_accountVars => IInv'
    BY StepIInv
<1> QED
    BY <1>1, <1>2, <1>3, PTL DEF AccountsSpec

\* The setting that row-level security reads ends with the transaction, so that no
\* session, on whichever of the pool's connections it runs, sees another tenant's
\* rows: for any pool, and any mix of requests, time-outs and deaths.
THEOREM NoForeignRows == AccountsSpec => []TenantsIsolated
<1>1. AccountsInit => IInv /\ SInv
  <2>1. AccountsInit => SInv
    BY DEF AccountsInit, SInv, Sees, Waiting
  <2> QED
    BY <2>1, InitIInv
<1>2. IInv /\ SInv /\ [AccountsNext]_accountVars => (IInv /\ SInv)'
    BY StepIInv, StepSInv
<1>3. SInv => TenantsIsolated
    BY DEF SInv, Sees, TenantsIsolated
<1> QED
    BY <1>1, <1>2, <1>3, PTL DEF AccountsSpec

\* A lesson that a client was told is completed stays completed: a view of the page never
\* writes the status of a row it has read, and the insert of a view that read none waits
\* for the completion's and fails on it. The one completion that is not kept is of a
\* request that died, or failed to commit, after its answer; nobody else is ever told of
\* it.
THEOREM CompletionsStay == AccountsSpec => []CompletionsKept
<1>1. AccountsInit => IInv /\ KInv
  <2>1. AccountsInit => KInv
    BY OneProvider DEF AccountsInit, KInv, Kept, Waiting, Locks
  <2> QED
    BY <2>1, InitIInv
<1>2. IInv /\ KInv /\ [AccountsNext]_accountVars => (IInv /\ KInv)'
    BY StepIInv, StepKInv
<1>3. KInv => CompletionsKept
    BY DEF KInv, Kept, CompletionsKept
<1> QED
    BY <1>1, <1>2, <1>3, PTL DEF AccountsSpec

-----------------------------------------------------------------------------
(* Bars and the caches over them                                           *)

Tape == [Bars!Day -> {None, "partial", "final"}]
CachedPayload == [closes : Tape, premium : BOOLEAN]

Reading ==
    [at : {"new", "spot", "get", "load", "set", "done", "failed"},
     op : {None, "forecast", "montecarlo", "regime"}, premium : BOOLEAN,
     spot : Tape \cup {None}, closes : Tape \cup {None}, hit : BOOLEAN,
     payload : CachedPayload \cup {None}]

\* A job has the bars it fetched, and a range once it works.
Stage == {"new", "fetch", "write", "ended"}
Ingesting(q) ==
    \/ q \in [at : Stage, rows : Tape]
    \/ \E Days : q \in [at : Stage, start : Days, end : Days, rows : Tape]

BarsTypes ==
    /\ day \in Bars!Day /\ closed \in BOOLEAN
    /\ bars \in Tape
    /\ DOMAIN job = Jobs /\ \A j \in Jobs : Ingesting(job[j])
    /\ store \in [Bars!Keys -> CachedPayload \cup {None}]
    /\ reader \in [Readers -> Reading]

\* A Monte Carlo keeps the closes it took its spot from until it has its volatility;
\* the others load theirs after a miss.
ReadingFits(q) ==
    /\ q.at \in {"get", "set"} /\ q.op = "montecarlo" => q.closes = q.spot /\ q.closes \in Tape
    /\ q.at = "load" => q.op # "montecarlo"
    /\ q.at = "spot" => q.op = "montecarlo"
    /\ q.at = "set" => q.closes \in Tape
    /\ q.at = "done" /\ q.op = "regime" => q.payload.premium = q.premium
    /\ q.at = "done" /\ q.op = "montecarlo" /\ ~q.hit => q.payload.closes = q.spot

\* The regime's keys tell the tiers apart.
StoreFits ==
    /\ store["regime:premium"] # None => store["regime:premium"].premium
    /\ store["regime:base"] # None => ~store["regime:base"].premium

BarsInv == BarsTypes /\ StoreFits /\ \A r \in Readers : ReadingFits(reader[r])

\* A step of one reader that leaves the cache alone.
LEMMA Reads ==
    ASSUME BarsInv, NEW r \in Readers, NEW q \in Reading, ReadingFits(q),
           reader' = [reader EXCEPT ![r] = q], UNCHANGED <<day, closed, bars, job, store>>
    PROVE  BarsInv'
<1>1. /\ reader' \in [Readers -> Reading]
      /\ \A p \in Readers : reader'[p] = IF p = r THEN q ELSE reader[p]
    BY DEF BarsInv, BarsTypes
<1>2. BarsTypes'
    BY <1>1 DEF BarsInv, BarsTypes
<1>3. StoreFits'
    BY DEF BarsInv, StoreFits
<1> QED
    BY <1>1, <1>2, <1>3 DEF BarsInv

\* A step of one job.
LEMMA Ingests ==
    ASSUME BarsInv, NEW j \in Jobs, NEW q, Ingesting(q),
           job' = [job EXCEPT ![j] = q], bars' \in Tape, UNCHANGED <<day, closed, store, reader>>
    PROVE  BarsInv'
<1>1. /\ DOMAIN job' = Jobs
      /\ \A i \in Jobs : job'[i] = IF i = j THEN q ELSE job[i]
    BY DEF BarsInv, BarsTypes
<1>2. \A i \in Jobs : Ingesting(job'[i])
    BY <1>1 DEF BarsInv, BarsTypes
<1>3. BarsTypes'
    BY <1>1, <1>2 DEF BarsInv, BarsTypes
<1> QED
    BY <1>3 DEF BarsInv, StoreFits

LEMMA FetchedRows ==
    ASSUME NEW q, Ingesting(q), NEW rows \in Tape
    PROVE  Ingesting([q EXCEPT !.at = "write", !.rows = rows])
<1>1. CASE q \in [at : Stage, rows : Tape]
    BY <1>1, Zenon DEF Ingesting, Stage
<1>2. ASSUME NEW Days, q \in [at : Stage, start : Days, end : Days, rows : Tape]
      PROVE  Ingesting([q EXCEPT !.at = "write", !.rows = rows])
    BY <1>2, Zenon DEF Ingesting, Stage
<1> QED
    BY <1>1, <1>2 DEF Ingesting

LEMMA NoRows == [d \in Bars!Day |-> None] \in Tape
BY DEF Tape

LEMMA BarsInitInv == Bars!Init => BarsInv
<1> SUFFICES ASSUME Bars!Init PROVE BarsInv
    OBVIOUS
<1> USE DEF Bars!Init
<1>1. bars \in Tape
    BY DEF Tape
<1>2. Ingesting(Bars!NotStarted)
    BY NoRows DEF Ingesting, Stage, Bars!NotStarted
<1>3. DOMAIN job = Jobs /\ \A j \in Jobs : Ingesting(job[j])
    BY <1>2
<1>4. store \in [Bars!Keys -> CachedPayload \cup {None}] /\ StoreFits
    BY DEF StoreFits, Bars!Keys
<1>5. Bars!NotRead \in Reading /\ ReadingFits(Bars!NotRead)
    BY DEF Bars!NotRead, Reading, ReadingFits
<1>6. reader \in [Readers -> Reading] /\ \A r \in Readers : ReadingFits(reader[r])
    BY <1>5
<1> QED
    BY <1>1, <1>3, <1>4, <1>6, Zenon DEF BarsInv, BarsTypes

LEMMA BarsNextInv == BarsInv /\ [Bars!Next]_barVars => BarsInv'
<1> SUFFICES ASSUME BarsInv, [Bars!Next]_barVars PROVE BarsInv'
    OBVIOUS
<1>1. CASE Bars!SessionEnds
    BY <1>1 DEF Bars!SessionEnds, BarsInv, BarsTypes, StoreFits
<1>2. CASE Bars!NextDay
  <2>1. day' \in Bars!Day
    BY <1>2, ServicesAssumption DEF Bars!NextDay, BarsInv, BarsTypes, Bars!Day
  <2> QED
    BY <1>2, <2>1, Zenon DEF Bars!NextDay, BarsInv, BarsTypes, StoreFits
<1>3. ASSUME NEW j \in Jobs, NEW start, NEW end, Bars!Fetching(j, start, end)
      PROVE  BarsInv'
  <2> DEFINE q == [at |-> "fetch", start |-> start, end |-> end, rows |-> Bars!NotStarted.rows]
  <2>1. q \in [at : Stage, start : {start, end}, end : {start, end}, rows : Tape]
    BY NoRows DEF Stage, Bars!NotStarted
  <2>2. Ingesting(q)
    BY <2>1, Zenon DEF Ingesting
  <2> HIDE DEF q
  <2> QED
    BY <1>3, <2>2, Ingests, Zenon DEF q, Bars!Fetching, BarsInv, BarsTypes
<1>4. ASSUME NEW j \in Jobs, Bars!StartRun(j) \/ Bars!StartBackfill(j)
      PROVE  BarsInv'
    BY <1>3, <1>4 DEF Bars!StartRun, Bars!StartBackfill
<1>5. Ingesting([Bars!NotStarted EXCEPT !.at = "ended"])
    BY NoRows DEF Ingesting, Stage, Bars!NotStarted
<1>6. ASSUME NEW j \in Jobs, Bars!Fetch(j)
      PROVE  BarsInv'
  <2> DEFINE rows == [d \in Bars!Day |-> IF d \in job[j].start .. job[j].end
                                         THEN Bars!Published(d) ELSE None]
             q == [job[j] EXCEPT !.at = "write", !.rows = rows]
  <2>1. rows \in Tape
    BY DEF Tape, Bars!Published
  <2>2. Ingesting(job[j])
    BY DEF BarsInv, BarsTypes
  <2>3. Ingesting(q)
    BY <2>1, <2>2, FetchedRows, Zenon
  <2>4. CASE job' = [job EXCEPT ![j].at = "write", ![j].rows = rows]
    <3>1. job' = [job EXCEPT ![j] = q]
      BY <2>4, Zenon
    <3> QED
      BY <1>6, <2>3, <3>1, Ingests, Zenon DEF Bars!Fetch, BarsInv, BarsTypes
  <2>5. CASE job' = [job EXCEPT ![j] = [Bars!NotStarted EXCEPT !.at = "ended"]]
    BY <1>5, <1>6, <2>5, Ingests, Zenon DEF Bars!Fetch, BarsInv, BarsTypes
  <2> QED
    BY <1>6, <2>4, <2>5 DEF Bars!Fetch
<1>7. ASSUME NEW j \in Jobs, Bars!Write(j)
      PROVE  BarsInv'
  <2>1. Ingesting(job[j]) /\ bars \in Tape
    BY DEF BarsInv, BarsTypes
  <2>2. bars' \in Tape
    BY <1>7, <2>1 DEF Bars!Write, Ingesting, Tape
  <2> QED
    BY <1>5, <1>7, <2>2, Ingests, Zenon DEF Bars!Write
<1>8. ASSUME NEW j \in Jobs, Bars!JobDies(j)
      PROVE  BarsInv'
    BY <1>5, <1>8, Ingests, Zenon DEF Bars!JobDies, BarsInv, BarsTypes
<1>9. ASSUME NEW r \in Readers
      PROVE  /\ reader[r] \in Reading /\ ReadingFits(reader[r])
             /\ bars \in Tape /\ store[Bars!Key(r)] \in CachedPayload \cup {None}
    BY DEF BarsInv, BarsTypes, Bars!Key, Bars!Keys
<1>10. ASSUME NEW r \in Readers, NEW op \in {"forecast", "montecarlo", "regime"},
              NEW premium \in BOOLEAN, Bars!Begin(r, op, premium)
       PROVE  BarsInv'
  <2> DEFINE q == [Bars!NotRead EXCEPT !.op = op, !.premium = premium,
                       !.at = IF op = "montecarlo" THEN "spot" ELSE "get"]
  <2>1. q \in Reading /\ ReadingFits(q)
    BY Zenon DEF Bars!NotRead, Reading, ReadingFits
  <2>2. reader' = [reader EXCEPT ![r] = q] /\ UNCHANGED <<day, closed, bars, job, store>>
    BY <1>10 DEF Bars!Begin
  <2> HIDE DEF q
  <2> QED
    BY <2>1, <2>2, Reads, Zenon
<1>11. ASSUME NEW r \in Readers, Bars!LoadCloses(r)
       PROVE  BarsInv'
  <2> DEFINE at == IF ~Bars!Written(bars) THEN "failed"
                   ELSE IF reader[r].at = "spot" THEN "get" ELSE "set"
             q == [reader[r] EXCEPT !.at = at,
                      !.spot = IF reader[r].at = "spot" THEN bars ELSE reader[r].spot,
                      !.closes = bars]
  <2>1. reader[r].at \in {"spot", "load"} /\ UNCHANGED <<day, closed, bars, job, store>>
    BY <1>11 DEF Bars!LoadCloses
  <2>2. reader' = [reader EXCEPT ![r] = q]
    BY <1>11, Zenon DEF Bars!LoadCloses
  <2>3. /\ at \in {"failed", "get", "set"}
        /\ reader[r].at = "spot" => at \in {"failed", "get"}
        /\ reader[r].at = "load" => at \in {"failed", "set"}
    BY <2>1
  <2> HIDE DEF at
  <2>4. q \in Reading /\ ReadingFits(q)
    BY <1>9, <2>1, <2>3, Zenon DEF Reading, ReadingFits
  <2> HIDE DEF q
  <2> QED
    BY <2>1, <2>2, <2>4, Reads, Zenon
<1>12. ASSUME NEW r \in Readers, Bars!Get(r)
       PROVE  BarsInv'
  <2>1. reader[r].at = "get" /\ UNCHANGED <<day, closed, bars, job, store>>
    BY <1>12 DEF Bars!Get
  <2>2. CASE store[Bars!Key(r)] # None
    <3> DEFINE payload == store[Bars!Key(r)]
               q == [reader[r] EXCEPT !.at = "done", !.hit = TRUE, !.closes = None,
                                      !.payload = payload]
    <3>1. reader' = [reader EXCEPT ![r] = q]
      BY <1>12, <2>2, Zenon DEF Bars!Get
    <3>2. /\ payload \in CachedPayload
          /\ reader[r].op = "regime" => payload.premium = reader[r].premium
      BY <1>9, <2>2 DEF BarsInv, StoreFits, Bars!Key, Reading, CachedPayload
    <3> HIDE DEF payload
    <3>3. q \in Reading /\ ReadingFits(q)
      BY <1>9, <2>1, <3>2, Zenon DEF Reading, ReadingFits
    <3> HIDE DEF q
    <3> QED
      BY <2>1, <3>1, <3>3, Reads, Zenon
  <2>3. CASE store[Bars!Key(r)] = None
    <3> DEFINE q == [reader[r] EXCEPT !.at = Bars!AfterMiss(r)]
    <3>1. reader' = [reader EXCEPT ![r] = q]
      BY <1>12, <2>3 DEF Bars!Get
    <3>2. q \in Reading /\ ReadingFits(q)
      BY <1>9, <2>1 DEF Reading, ReadingFits, Bars!AfterMiss
    <3> HIDE DEF q
    <3> QED
      BY <2>1, <3>1, <3>2, Reads, Zenon
  <2> QED
    BY <2>2, <2>3
<1>13. ASSUME NEW r \in Readers, Bars!Set(r)
       PROVE  BarsInv'
  <2> DEFINE payload == Bars!Payload(r)
             q == [reader[r] EXCEPT !.at = "done", !.closes = None, !.payload = payload]
  <2>1. reader[r].at = "set" /\ UNCHANGED <<day, closed, bars, job>>
    BY <1>13 DEF Bars!Set
  <2>2. reader' = [reader EXCEPT ![r] = q]
    BY <1>13, Zenon DEF Bars!Set
  <2>3. /\ payload \in CachedPayload
        /\ payload.premium = reader[r].premium /\ payload.closes = reader[r].closes
    BY <1>9, <2>1 DEF Bars!Payload, Reading, ReadingFits, CachedPayload
  <2>4. q \in Reading /\ ReadingFits(q)
    BY <1>9, <2>1, <2>3, Zenon DEF Reading, ReadingFits
  <2>5. store' = [store EXCEPT ![Bars!Key(r)] = payload]
    BY <1>13 DEF Bars!Set
  <2> HIDE DEF payload, q
  <2>6. store' \in [Bars!Keys -> CachedPayload \cup {None}]
    BY <2>3, <2>5, Zenon DEF BarsInv, BarsTypes
  <2>7. StoreFits'
    BY <1>9, <2>3, <2>5 DEF BarsInv, BarsTypes, StoreFits, Bars!Key, Bars!Keys, Reading
  <2>8. /\ reader' \in [Readers -> Reading]
        /\ \A p \in Readers : reader'[p] = IF p = r THEN q ELSE reader[p]
    BY <2>2, <2>4 DEF BarsInv, BarsTypes
  <2> QED
    BY <2>1, <2>4, <2>6, <2>7, <2>8 DEF BarsInv, BarsTypes
<1>14. ASSUME NEW k \in Bars!Keys, Bars!Expire(k)
       PROVE  BarsInv'
    BY <1>14 DEF Bars!Expire, BarsInv, BarsTypes, StoreFits, Bars!Keys
<1>15. CASE UNCHANGED barVars
    BY <1>15 DEF barVars, BarsInv, BarsTypes, StoreFits
<1> QED
    BY <1>1, <1>2, <1>4, <1>6, <1>7, <1>8, <1>10, <1>11, <1>12, <1>13, <1>14, <1>15
    DEF Bars!Next

\* A free reader is never served premium fields, nor a premium one the bare regime, and a
\* Monte Carlo takes spot and volatility from one reading of the bars, for any readers,
\* ingest jobs and calendar.
THEOREM ReadersAreServedRight == Bars!Spec => []AnswersFit
<1>1. BarsInv => AnswersFit
    BY DEF BarsInv, ReadingFits, AnswersFit, Bars!AnswersFit, Bars!TierKept, Bars!OneSnapshot,
           Bars!Answered
<1> QED
    BY <1>1, BarsInitInv, BarsNextInv, PTL DEF Bars!Spec, Bars!vars, barVars

-----------------------------------------------------------------------------
(* The option chain                                                        *)

ChainPayload == [as_of : Chain!Hour, curve : {"fred", "flat"}, source : {"fred", "fallback"}]

Viewing ==
    [at : {"new", "get", "fetch", "set", "show", "commit", "done", "failed"},
     op : {None, "chain", "capture"}, payload : ChainPayload \cup {None}, built : BOOLEAN,
     baseline : [Chain!Windows -> Chain!Hour \cup {None}]]

\* From the fetch, or the cache, on there is a payload, and baselines are picked for it.
ViewingFits(q) ==
    /\ q.at \in {"set", "show", "commit", "done"} => q.payload \in ChainPayload
    /\ \A w \in Chain!Windows : q.baseline[w] # None =>
          /\ q.payload \in ChainPayload
          /\ q.at \in {"commit", "done"}
          /\ q.baseline[w] < q.payload.as_of
          /\ w = "day" => q.baseline[w] \div DayHours = q.payload.as_of \div DayHours

ChainInv ==
    /\ keyed \in BOOLEAN /\ hour \in Chain!Hour
    /\ snapshots \subseteq Chain!Hour
    /\ shown \in ChainPayload \cup {None}
    /\ viewer \in [Requests -> Viewing]
    /\ \A r \in Requests : ViewingFits(viewer[r])

\* Of some hours there is a nearest one to any hour.
LEMMA NearestExists ==
    ASSUME NEW ts \in SUBSET Nat, ts # {}, NEW target \in Int
    PROVE  \E t \in ts : \A u \in ts :
              \/ Chain!Distance(t, target) < Chain!Distance(u, target)
              \/ Chain!Distance(t, target) = Chain!Distance(u, target) /\ t <= u
<1> DEFINE far == {Chain!Distance(t, target) : t \in ts}
<1>1. \A t \in ts : Chain!Distance(t, target) \in Nat
    BY DEF Chain!Distance
<1>2. PICK d \in far : \A e \in far : d <= e
  <2>1. far \in SUBSET Nat /\ far # {}
    BY <1>1, Zenon
  <2> HIDE DEF far
  <2> QED
    BY <2>1, LeastNumber
<1> DEFINE near == {t \in ts : Chain!Distance(t, target) = d}
<1>3. PICK t \in near : \A u \in near : t <= u
  <2>1. near \in SUBSET Nat /\ near # {}
    OBVIOUS
  <2> HIDE DEF near
  <2> QED
    BY <2>1, LeastNumber
<1>4. ASSUME NEW u \in ts
      PROVE  \/ Chain!Distance(t, target) < Chain!Distance(u, target)
             \/ Chain!Distance(t, target) = Chain!Distance(u, target) /\ t <= u
  <2>1. d <= Chain!Distance(u, target) /\ Chain!Distance(t, target) = d
    BY <1>2, <1>3
  <2>2. Chain!Distance(u, target) = d => t <= u
    BY <1>3
  <2> QED
    BY <1>1, <2>1, <2>2
<1> QED
    BY <1>3, <1>4

\* Hours of one day.
LEMMA SameDay ==
    ASSUME NEW a \in Nat, NEW b \in Nat, b >= (a \div DayHours) * DayHours, b < a
    PROVE  b \div DayHours = a \div DayHours
<1> DEFINE D == DayHours
           q == a \div D
<1>1. D \in Nat \ {0}
    BY ServicesAssumption
<1> HIDE DEF D
<1>2. q \in Nat /\ a < q * D + D
    BY <1>1
<1> HIDE DEF q
<1>3. b < q * D + D /\ b >= q * D
    BY <1>1, <1>2 DEF q, D
<1>4. b \div D = q
    BY <1>1, <1>2, <1>3
<1> QED
    BY <1>4 DEF q, D

\* Of earlier snapshots, and for the day of this day's.
LEMMA BaselineFits ==
    ASSUME NEW hist \in SUBSET Chain!Hour, NEW as_of \in Chain!Hour, NEW w \in Chain!Windows
    PROVE  LET b == Chain!Baseline(hist, as_of, w)
           IN  /\ b \in Chain!Hour \cup {None}
               /\ b # None => /\ b < as_of
                              /\ w = "day" => b \div DayHours = as_of \div DayHours
<1> DEFINE earlier == Chain!Before(hist, as_of)
           today == {t \in earlier : t >= (as_of \div DayHours) * DayHours}
           IsBest(t, ts, target) ==
               \A u \in ts :
                   \/ Chain!Distance(t, target) < Chain!Distance(u, target)
                   \/ Chain!Distance(t, target) = Chain!Distance(u, target) /\ t <= u
           Nearest(ts, target) ==
               IF ts = {} THEN None ELSE CHOOSE t \in ts : IsBest(t, ts, target)
<1>1. ASSUME NEW ts \in SUBSET Nat, NEW target \in Int, Nearest(ts, target) # None
      PROVE  Nearest(ts, target) \in ts
    BY <1>1, NearestExists
<1>2. earlier \subseteq hist /\ \A t \in earlier : t < as_of
    BY DEF Chain!Before
<1>6. Chain!Hour \in SUBSET Nat
    BY DEF Chain!Hour
<1>3. Chain!Baseline(hist, as_of, w) =
          IF w = "day" THEN Nearest(today, 0) ELSE Nearest(earlier, as_of - Chain!Delta[w])
    BY DEF Chain!Baseline
<1> HIDE DEF Nearest, earlier
<1>4. CASE w = "day"
  <2>1. today \in SUBSET Nat /\ 0 \in Int
    <3>1. today \subseteq earlier
      OBVIOUS
    <3> HIDE DEF today
    <3> QED
      BY <1>2, <1>6, <3>1
  <2> HIDE DEF today
  <2>2. Nearest(today, 0) # None => Nearest(today, 0) \in today
    BY <1>1, <2>1
  <2> USE DEF today
  <2>3. \A t \in today : /\ t \in Chain!Hour /\ t < as_of
                         /\ t \div DayHours = as_of \div DayHours
    BY <1>2, <1>6, SameDay
  <2> HIDE DEF today
  <2> QED
    BY <1>3, <1>4, <2>2, <2>3
<1>5. CASE w # "day"
  <2>1. earlier \in SUBSET Nat /\ as_of - Chain!Delta[w] \in Int
    BY <1>2, <1>5, <1>6 DEF Chain!Delta, Chain!Windows
  <2>2. Nearest(earlier, as_of - Chain!Delta[w]) # None
            => Nearest(earlier, as_of - Chain!Delta[w]) \in earlier
    BY <1>1, <2>1
  <2> QED
    BY <1>2, <1>3, <1>5, <1>6, <2>2, Zenon
<1> QED
    BY <1>4, <1>5

\* A step of one request.
LEMMA Views ==
    ASSUME ChainInv, NEW r \in Requests, NEW q \in Viewing, ViewingFits(q),
           viewer' = [viewer EXCEPT ![r] = q], UNCHANGED <<keyed, hour>>,
           snapshots' \subseteq Chain!Hour, shown' \in ChainPayload \cup {None}
    PROVE  ChainInv'
<1>1. /\ viewer' \in [Requests -> Viewing]
      /\ \A p \in Requests : viewer'[p] = IF p = r THEN q ELSE viewer[p]
    BY DEF ChainInv
<1> QED
    BY <1>1 DEF ChainInv

LEMMA FreshView == Chain!Fresh \in Viewing /\ ViewingFits(Chain!Fresh)
BY DEF Chain!Fresh, Viewing, ViewingFits

LEMMA ChainInitInv == Chain!Init => ChainInv
<1> SUFFICES ASSUME Chain!Init PROVE ChainInv
    OBVIOUS
<1>1. snapshots \subseteq Chain!Hour
    BY ServicesAssumption DEF Chain!Init, Chain!Hour
<1> QED
    BY <1>1, FreshView DEF Chain!Init, ChainInv

LEMMA ChainNextInv == ChainInv /\ [Chain!Next]_chainVars => ChainInv'
<1> SUFFICES ASSUME ChainInv, [Chain!Next]_chainVars PROVE ChainInv'
    OBVIOUS
<1>1. CASE Chain!Tick
  <2>1. hour' \in Chain!Hour
    BY <1>1, ServicesAssumption DEF Chain!Tick, ChainInv, Chain!Hour
  <2> QED
    BY <1>1, <2>1 DEF Chain!Tick, ChainInv
<1>2. CASE Chain!Expire
    BY <1>2 DEF Chain!Expire, ChainInv
<1>3. ASSUME NEW r \in Requests
      PROVE  /\ viewer[r] \in Viewing /\ ViewingFits(viewer[r])
             /\ shown \in ChainPayload \cup {None}
             /\ snapshots \subseteq Chain!Hour /\ keyed \in BOOLEAN /\ hour \in Chain!Hour
    BY DEF ChainInv
<1>4. ASSUME NEW r \in Requests, Chain!BeginChain(r)
      PROVE  ChainInv'
  <2> DEFINE q == [viewer[r] EXCEPT !.op = "chain", !.at = "get"]
  <2>1. q \in Viewing /\ ViewingFits(q)
    BY <1>3, <1>4, Zenon DEF Chain!BeginChain, Viewing, ViewingFits
  <2>2. viewer' = [viewer EXCEPT ![r] = q] /\ UNCHANGED <<keyed, hour, snapshots, shown>>
    BY <1>4, Zenon DEF Chain!BeginChain
  <2> HIDE DEF q
  <2> QED
    BY <1>3, <2>1, <2>2, Views, Zenon
<1>5. ASSUME NEW r \in Requests, Chain!BeginCapture(r)
      PROVE  ChainInv'
  <2> DEFINE q == [viewer[r] EXCEPT !.op = "capture", !.at = "fetch"]
  <2>1. q \in Viewing /\ ViewingFits(q)
    BY <1>3, <1>5, Zenon DEF Chain!BeginCapture, Viewing, ViewingFits
  <2>2. viewer' = [viewer EXCEPT ![r] = q] /\ UNCHANGED <<keyed, hour, snapshots, shown>>
    BY <1>5, Zenon DEF Chain!BeginCapture
  <2> HIDE DEF q
  <2> QED
    BY <1>3, <2>1, <2>2, Views, Zenon
<1>6. ASSUME NEW r \in Requests, Chain!Get(r)
      PROVE  ChainInv'
  <2> DEFINE q == IF shown # None THEN [viewer[r] EXCEPT !.at = "show", !.payload = shown]
                  ELSE [viewer[r] EXCEPT !.at = "fetch"]
  <2>1. q \in Viewing /\ ViewingFits(q)
    BY <1>3, <1>6, Zenon DEF Chain!Get, Viewing, ViewingFits
  <2>2. viewer' = [viewer EXCEPT ![r] = q] /\ UNCHANGED <<keyed, hour, snapshots, shown>>
    BY <1>6, Zenon DEF Chain!Get
  <2> HIDE DEF q
  <2> QED
    BY <1>3, <2>1, <2>2, Views, Zenon
<1>7. ASSUME NEW r \in Requests, Chain!Fetch(r)
      PROVE  ChainInv'
  <2>1. viewer[r].at = "fetch" /\ UNCHANGED <<keyed, hour, snapshots, shown>>
    BY <1>7, Zenon DEF Chain!Fetch
  <2>2. ASSUME NEW curve \in Chain!Curves, NEW priced \in BOOLEAN,
               viewer' = [viewer EXCEPT ![r].at = "set", ![r].built = priced,
                              ![r].payload = Chain!Payload(hour, curve, Chain!source_name)]
        PROVE  ChainInv'
    <3> DEFINE payload == Chain!Payload(hour, curve, Chain!source_name)
               q == [viewer[r] EXCEPT !.at = "set", !.built = priced, !.payload = payload]
    <3>1. payload \in ChainPayload
      BY <1>3 DEF Chain!Payload, Chain!Curves, Chain!source_name, ChainPayload
    <3>2. viewer' = [viewer EXCEPT ![r] = q]
      BY <2>2, Zenon
    <3> HIDE DEF payload
    <3>3. q \in Viewing /\ ViewingFits(q)
      BY <1>3, <2>1, <3>1, Zenon DEF Viewing, ViewingFits
    <3> HIDE DEF q
    <3> QED
      BY <1>3, <2>1, <3>2, <3>3, Views, Zenon
  <2>3. CASE viewer' = [viewer EXCEPT ![r].at = "failed"]
    <3> DEFINE q == [viewer[r] EXCEPT !.at = "failed"]
    <3>1. q \in Viewing /\ ViewingFits(q) /\ viewer' = [viewer EXCEPT ![r] = q]
      BY <1>3, <2>1, <2>3 DEF Viewing, ViewingFits
    <3> HIDE DEF q
    <3> QED
      BY <1>3, <2>1, <3>1, Views, Zenon
  <2> QED
    BY <1>7, <2>2, <2>3, Zenon DEF Chain!Fetch, Chain!Computed
<1>8. ASSUME NEW r \in Requests, Chain!Set(r)
      PROVE  ChainInv'
  <2> DEFINE q == [viewer[r] EXCEPT !.at = IF viewer[r].op = "chain" THEN "show" ELSE "commit"]
  <2>1. q \in Viewing /\ ViewingFits(q) /\ shown' \in ChainPayload
    BY <1>3, <1>8 DEF Chain!Set, Viewing, ViewingFits
  <2>2. viewer' = [viewer EXCEPT ![r] = q] /\ UNCHANGED <<keyed, hour, snapshots>>
    BY <1>8 DEF Chain!Set
  <2> HIDE DEF q
  <2> QED
    BY <1>3, <2>1, <2>2, Views, Zenon
<1>9. ASSUME NEW r \in Requests, Chain!Show(r)
      PROVE  ChainInv'
  <2> DEFINE as_of == viewer[r].payload.as_of
             hist == snapshots \cup (IF viewer[r].built THEN {as_of} ELSE {})
             baseline == [w \in Chain!Windows |-> Chain!Baseline(hist, as_of, w)]
             q == [viewer[r] EXCEPT !.at = "commit", !.baseline = baseline]
  <2>1. viewer[r].at = "show" /\ UNCHANGED <<keyed, hour, snapshots, shown>>
    BY <1>9 DEF Chain!Show
  <2>2. viewer' = [viewer EXCEPT ![r] = q]
    BY <1>9, Zenon DEF Chain!Show
  <2>3. viewer[r].payload \in ChainPayload /\ as_of \in Chain!Hour
    BY <1>3, <2>1 DEF ViewingFits, ChainPayload
  <2>4. hist \in SUBSET Chain!Hour
    BY <1>3, <2>3
  <2> HIDE DEF hist
  <2>5. /\ baseline \in [Chain!Windows -> Chain!Hour \cup {None}]
        /\ \A w \in Chain!Windows : baseline[w] # None =>
              /\ baseline[w] < as_of
              /\ w = "day" => baseline[w] \div DayHours = as_of \div DayHours
    <3> HIDE DEF as_of
    <3> QED
      BY <2>3, <2>4, BaselineFits DEF as_of
  <2> HIDE DEF baseline
  <2>6. q \in Viewing /\ ViewingFits(q)
    BY <1>3, <2>1, <2>3, <2>5, Zenon DEF Viewing, ViewingFits
  <2> HIDE DEF q
  <2> QED
    BY <1>3, <2>1, <2>2, <2>6, Views, Zenon
<1>10. ASSUME NEW r \in Requests, Chain!Commit(r)
       PROVE  ChainInv'
  <2> DEFINE q == [viewer[r] EXCEPT !.at = "done"]
  <2>1. /\ q \in Viewing /\ ViewingFits(q)
        /\ viewer[r].payload.as_of \in Chain!Hour
    BY <1>3, <1>10 DEF Chain!Commit, Viewing, ViewingFits, ChainPayload
  <2>2. viewer' = [viewer EXCEPT ![r] = q] /\ UNCHANGED <<keyed, hour, shown>>
    BY <1>10 DEF Chain!Commit
  <2>3. snapshots' \subseteq Chain!Hour
    BY <1>3, <1>10, <2>1 DEF Chain!Commit
  <2> HIDE DEF q
  <2> QED
    BY <1>3, <2>1, <2>2, <2>3, Views, Zenon
<1>11. ASSUME NEW r \in Requests, Chain!Dies(r)
       PROVE  ChainInv'
  <2> DEFINE q == [Chain!Fresh EXCEPT !.at = "failed"]
  <2>1. q \in Viewing /\ ViewingFits(q)
    BY Zenon DEF Chain!Fresh, Viewing, ViewingFits
  <2>2. viewer' = [viewer EXCEPT ![r] = q] /\ UNCHANGED <<keyed, hour, snapshots, shown>>
    BY <1>11 DEF Chain!Dies
  <2> HIDE DEF q
  <2> QED
    BY <1>3, <2>1, <2>2, Views, Zenon
<1>12. CASE UNCHANGED chainVars
    BY <1>12 DEF chainVars, ChainInv
<1> QED
    BY <1>1, <1>2, <1>4, <1>5, <1>6, <1>7, <1>8, <1>9, <1>10, <1>11, <1>12 DEF Chain!Next

\* Open interest is compared with an earlier snapshot, for the day's change with one of
\* the same day: for any requests, length of day and clock, whatever is cached.
THEOREM ChainsFit == Chain!Spec => []ChainFits
<1>1. ChainInv => ChainFits
    BY DEF ChainInv, ViewingFits, ChainFits, Chain!ChainFits
<1> QED
    BY <1>1, ChainInitInv, ChainNextInv, PTL DEF Chain!Spec, Chain!vars, chainVars

-----------------------------------------------------------------------------
(* News                                                                    *)

Feeds == {"massive", "finnhub", "yahoo", "google"}

\* The feeds that are asked.
Asked == IF feeds = <<"massive">> THEN {"massive"} ELSE Feeds \ {"massive"}

\* Headlines a worker that started at as_of may have been given.
Given(news, as_of) ==
    /\ news \subseteq Wire
    /\ feeds # <<"massive">> => \A h \in news : h.at >= as_of - Lookback

RunFits(q) ==
    /\ q.at \in {"ask", "save"} =>
          /\ q.as_of \in 0 .. now /\ q.left \in Seq(Asked)
          /\ q.answered \in BOOLEAN /\ Given(q.news, q.as_of)
    /\ q.at = "ask" => q.left # <<>>
    /\ q.at = "save" => q.answered

Refreshing ==
    [at : {"new", "ask", "save", "ended"}, as_of : Nat \cup {None}, left : Seq(Feeds),
     answered : BOOLEAN, news : SUBSET Wire]

\* The row is of a run that reached a feed, and says what its headlines say.
RowFits ==
    latest # None =>
        /\ latest.as_of \in Nat /\ latest.computed_at \in 0 .. now
        /\ Given(latest.news, latest.as_of)
        /\ latest.aggregate = News!aggregate_sentiment(latest.news, latest.as_of)
        /\ latest.answered

NewsInv ==
    /\ now \in Nat
    /\ feeds \in Seq(Asked) /\ feeds # <<>>
    /\ RowFits
    /\ run \in [Runs -> Refreshing]
    /\ \A w \in Runs : RunFits(run[w])

\* A weight is a number.
LEMMA WeightType ==
    ASSUME NEW h \in Wire, NEW as_of \in Nat
    PROVE  News!Weight(h, as_of) \in Nat
<1> DEFINE age == IF h.at < as_of THEN as_of - h.at ELSE 0
           D == 1..age
<1>1. h.at \in Nat /\ h.confidence \in Nat
  <2>1. h \in [at : 0 .. MaxTime + 1, score : {-1, 1}, confidence : 1 .. 40]
    BY ServicesAssumption
  <2> QED
    BY <2>1
<1>2. age \in Nat
    BY <1>1
<1> HIDE DEF age
<1>3. IsFiniteSet(D) /\ Cardinality(D) = age
    BY <1>2, FS_Interval
<1> HIDE DEF D
<1>4. IsFiniteSet(SUBSET D) /\ Cardinality(SUBSET D) = 2 ^ age
    BY <1>3, FS_SUBSET
<1>5. 2 ^ age \in Nat \ {0}
  <2>1. SUBSET D # {}
    OBVIOUS
  <2> QED
    BY <1>4, <2>1, FS_EmptySet, FS_CardinalityType, Zenon
<1> DEFINE b == 2 ^ age
           c == h.confidence
<1>6. c \in Nat /\ b \in Nat \ {0}
    BY <1>1, <1>5
<1>7. News!Weight(h, as_of) = c \div b
    BY DEF News!Weight, age
<1> HIDE DEF b, c
<1>8. c \div b \in Nat
    BY <1>6
<1> QED
    BY <1>7, <1>8

LEMMA NewsSum == ASSUME NEW f, NEW S PROVE News!SumOver(f, S) = SumOver(f, S)
BY DEF News!SumOver, SumOver, News!MapThenSumSet, MapThenSumSet, News!MapThenFoldSet,
       MapThenFoldSet

\* Of the weight that passes the floor, more than half pulls the way the row does.
LEMMA PullIsBacked ==
    ASSUME NEW news \in SUBSET Wire, NEW as_of \in Nat,
           News!aggregate_sentiment(news, as_of).score # 0
    PROVE  LET score == News!aggregate_sentiment(news, as_of).score
               backing == {h \in news : h.score * score > 0}
           IN  2 * News!SumOver([h \in news |-> News!Weight(h, as_of)], backing) >= News!MinWeight
<1> DEFINE f == [h \in news |-> h.score * News!Weight(h, as_of)]
           g == [h \in news |-> News!Weight(h, as_of)]
           pull == SumOver(f, news)
           total == SumOver(g, news)
           score == News!aggregate_sentiment(news, as_of).score
           sure == total >= News!MinWeight
           B == {h \in news : h.score * score > 0}
           C == news \ B
<1>1. score = IF sure THEN pull ELSE 0
    BY NewsSum DEF News!aggregate_sentiment
<1>2. \A h \in news : g[h] \in Nat /\ f[h] = h.score * g[h] /\ h.score \in {-1, 1}
    BY WeightType, ServicesAssumption, Zenon
<1>3. IsFiniteSet(news) /\ IsFiniteSet(B) /\ IsFiniteSet(C)
    BY ServicesAssumption, FS_Subset
<1>0. score # 0
    OBVIOUS
<1> HIDE DEF f, g, sure, score
<1>4. score = pull /\ sure
    BY <1>0, <1>1
<1>5. \A h \in news : f[h] \in Int /\ g[h] \in Int
    BY <1>2
<1>6. pull \in Int /\ score \in Int /\ score # 0
    BY <1>0, <1>3, <1>4, <1>5, SumType
<1>7. PICK sign \in {-1, 1} : sign * pull > 0
  <2>1. score > 0 => 1 * score > 0
    BY <1>6
  <2>2. score < 0 => (-1) * score > 0
    BY <1>6
  <2> QED
    BY <1>4, <1>6, <2>1, <2>2
<1>8. \A s \in {-1, 1} : s * score > 0 <=> s = sign
    BY <1>4, <1>6, <1>7
<1>9. /\ \A h \in B : f[h] = g[h] * sign
      /\ \A h \in C : f[h] = g[h] * (0 - sign)
    BY <1>2, <1>7, <1>8
<1> HIDE DEF B, C
<1>10. /\ B \cup C = news /\ B \cap C = {}
       /\ B \subseteq news /\ C \subseteq news
    BY DEF B, C
<1> DEFINE p == SumOver(g, B)
           q == SumOver(g, C)
<1>11. p \in Int /\ q \in Int
    BY <1>3, <1>5, <1>10, SumType
<1>12. total = p + q
    BY <1>3, <1>5, <1>10, SumSplit
<1>13. pull = SumOver(f, B) + SumOver(f, C)
    BY <1>3, <1>5, <1>10, SumSplit
<1>14. SumOver(f, B) = p * sign
  <2>1. \A h \in B : g[h] \in Int /\ f[h] = g[h] * sign
    BY <1>5, <1>9, <1>10
  <2> QED
    BY <1>3, <1>7, <2>1, SumScale
<1>15. SumOver(f, C) = q * (0 - sign)
  <2>1. \A h \in C : g[h] \in Int /\ f[h] = g[h] * (0 - sign)
    BY <1>5, <1>9, <1>10
  <2>2. 0 - sign \in Int
    BY <1>7
  <2> QED
    BY <1>3, <2>1, <2>2, SumScale
<1> HIDE DEF p, q, pull, total
<1>16. sign * (p * sign + q * (0 - sign)) > 0
    BY <1>7, <1>13, <1>14, <1>15
<1>17. p > q
  <2>1. CASE sign = 1
    BY <1>11, <1>16, <2>1
  <2>2. CASE sign = -1
    BY <1>11, <1>16, <2>2
  <2> QED
    BY <1>7, <2>1, <2>2
<1>18. p + q >= News!MinWeight
    BY <1>4, <1>12 DEF sure
<1>19. 2 * p >= News!MinWeight
    BY <1>11, <1>17, <1>18 DEF News!MinWeight
<1>20. News!SumOver(g, B) = p
    BY NewsSum DEF p
<1>21. 2 * News!SumOver(g, B) >= News!MinWeight
    BY <1>19, <1>20
<1> QED
    BY <1>21, Zenon DEF g, B, score

LEMMA NewsInitInv == News!Init => NewsInv
<1> SUFFICES ASSUME News!Init PROVE NewsInv
    OBVIOUS
<1>1. feeds \in Seq(Asked) /\ feeds # <<>>
  <2>1. feeds \in News!Providers
    BY DEF News!Init
  <2>2. CASE feeds = <<"massive">>
    BY <2>2 DEF Asked
  <2>3. CASE feeds # <<"massive">>
    <3>1. Asked = Feeds \ {"massive"}
      BY <2>3 DEF Asked
    <3>2. {"finnhub", "yahoo", "google"} \subseteq Asked
      BY <3>1, Zenon DEF Feeds
    <3>3. \/ feeds = <<"finnhub">>
          \/ feeds = <<"yahoo", "google">>
          \/ feeds = <<"finnhub", "yahoo", "google">>
      BY <2>1, <2>3 DEF News!Providers
    <3>4. "finnhub" \in Asked /\ "yahoo" \in Asked /\ "google" \in Asked
      BY <3>2, Zenon
    <3> HIDE DEF Asked
    <3>5. CASE feeds = <<"finnhub">>
      BY <3>4, <3>5
    <3>6. CASE feeds = <<"yahoo", "google">>
      BY <3>4, <3>6
    <3>7. CASE feeds = <<"finnhub", "yahoo", "google">>
      BY <3>4, <3>7
    <3> QED
      BY <3>3, <3>5, <3>6, <3>7, Zenon
  <2> QED
    BY <2>2, <2>3
<1>2. News!NotStarted \in Refreshing /\ RunFits(News!NotStarted)
  <2>1. <<>> \in Seq(Feeds)
    OBVIOUS
  <2> QED
    BY <2>1 DEF News!NotStarted, Refreshing, RunFits
<1> QED
    BY <1>1, <1>2 DEF News!Init, NewsInv, RowFits

\* A step of one run that leaves the row alone.
LEMMA Refreshes ==
    ASSUME NewsInv, NEW w \in Runs, NEW q \in Refreshing, RunFits(q), RowFits',
           run' = [run EXCEPT ![w] = q], UNCHANGED <<now, feeds>>
    PROVE  NewsInv'
<1>1. /\ run' \in [Runs -> Refreshing]
      /\ \A v \in Runs : run'[v] = IF v = w THEN q ELSE run[v]
    BY DEF NewsInv
<1>2. \A v \in Runs : RunFits(run'[v])
    BY <1>1 DEF NewsInv
<1>3. \A v \in Runs : RunFits(run[v])'
    BY <1>2 DEF RunFits, Given, Asked
<1>4. feeds' \in Seq(Asked') /\ feeds' # <<>>
    BY DEF NewsInv, Asked
<1> QED
    BY <1>1, <1>3, <1>4 DEF NewsInv

LEMMA NewsNextInv == NewsInv /\ [News!Next]_newsVars => NewsInv'
<1> SUFFICES ASSUME NewsInv, [News!Next]_newsVars PROVE NewsInv'
    OBVIOUS
<1>1. CASE News!Tick
  <2>1. now' \in Nat /\ 0 .. now \subseteq 0 .. now'
    BY <1>1 DEF News!Tick, NewsInv
  <2>2. RowFits'
    BY <1>1, <2>1 DEF News!Tick, NewsInv, RowFits, Given
  <2>3. \A w \in Runs : RunFits(run[w])'
    BY <1>1, <2>1 DEF News!Tick, NewsInv, RunFits, Given, Asked
  <2>4. Asked' = Asked
    BY <1>1 DEF News!Tick, Asked
  <2> QED
    BY <1>1, <2>1, <2>2, <2>3, <2>4 DEF News!Tick, NewsInv
<1>2. ASSUME NEW w \in Runs
      PROVE  /\ run[w] \in Refreshing /\ RunFits(run[w]) /\ RowFits
             /\ now \in Nat /\ feeds \in Seq(Asked) /\ feeds # <<>>
    BY DEF NewsInv
<1>3. UNCHANGED <<now, feeds, latest>> => RowFits'
    BY DEF NewsInv, RowFits, Given
<1>12. Asked \subseteq Feeds
    BY DEF Asked, Feeds
<1>13. Seq(Asked) \subseteq Seq(Feeds)
    BY <1>12
<1>4. [News!NotStarted EXCEPT !.at = "ended"] \in Refreshing
      /\ RunFits([News!NotStarted EXCEPT !.at = "ended"])
  <2>1. <<>> \in Seq(Feeds)
    OBVIOUS
  <2> QED
    BY <2>1, Zenon DEF News!NotStarted, Refreshing, RunFits
<1>5. ASSUME NEW w \in Runs, News!StartRun(w)
      PROVE  NewsInv'
  <2> DEFINE q == [News!NotStarted EXCEPT !.at = "ask", !.as_of = now, !.left = feeds]
  <2>1. now \in 0 .. now /\ Given({}, now)
    BY <1>2 DEF Given
  <2>2. q \in Refreshing /\ RunFits(q)
    BY <1>2, <1>13, <2>1, Zenon DEF News!NotStarted, Refreshing, RunFits
  <2>3. run' = [run EXCEPT ![w] = q] /\ UNCHANGED <<now, feeds, latest>>
    BY <1>5 DEF News!StartRun
  <2> HIDE DEF q
  <2> QED
    BY <1>3, <2>2, <2>3, Refreshes, Zenon
<1>6. ASSUME NEW w \in Runs, run[w].at = "ask"
      PROVE  /\ Head(run[w].left) \in Asked /\ Tail(run[w].left) \in Seq(Asked)
             /\ \A items \in News!News(Head(run[w].left), run[w].as_of) :
                    Given(items, run[w].as_of)
  <2>1. run[w].left \in Seq(Asked) /\ run[w].left # <<>>
    BY <1>2, <1>6 DEF RunFits
  <2>2. Head(run[w].left) \in Asked /\ Tail(run[w].left) \in Seq(Asked)
    BY <2>1
  <2>3. ASSUME NEW feed \in Asked, NEW as_of, NEW items \in News!News(feed, as_of)
        PROVE  Given(items, as_of)
    <3>1. CASE feeds = <<"massive">>
      <4>1. News!News(feed, as_of) = SUBSET News!Published
        BY <3>1 DEF Asked, News!News, News!MassiveNews
      <4>2. items \subseteq Wire
        BY <2>3, <4>1 DEF News!Published
      <4> QED
        BY <3>1, <4>2 DEF Given
    <3>2. CASE feeds # <<"massive">>
      <4>1. News!News(feed, as_of) \subseteq SUBSET News!Recent(as_of)
        BY <3>2 DEF Asked, Feeds, News!News, News!FinnhubNews, News!RssNews
      <4>2. items \in SUBSET News!Recent(as_of)
        BY <2>3, <4>1
      <4> QED
        BY <4>2 DEF News!Recent, News!Published, Given
    <3> QED
      BY <3>1, <3>2
  <2> QED
    BY <2>2, <2>3
<1>7. ASSUME NEW w \in Runs, News!FeedAnswers(w)
      PROVE  NewsInv'
  <2>1. run[w].at = "ask" /\ UNCHANGED <<now, feeds, latest>>
    BY <1>7 DEF News!FeedAnswers
  <2> DEFINE left == Tail(run[w].left)
  <2>2. PICK items \in News!News(Head(run[w].left), run[w].as_of) :
            run' = [run EXCEPT ![w].answered = TRUE, ![w].news = items, ![w].left = left,
                        ![w].at = IF items # {} THEN "save"
                                  ELSE IF left = <<>> THEN News!Exhausted(TRUE) ELSE "ask"]
    BY <1>7, Zenon DEF News!FeedAnswers
  <2> DEFINE at == IF items # {} THEN "save"
                   ELSE IF left = <<>> THEN News!Exhausted(TRUE) ELSE "ask"
             q == [run[w] EXCEPT !.answered = TRUE, !.news = items, !.left = left, !.at = at]
  <2>3. /\ left \in Seq(Asked) /\ Given(items, run[w].as_of) /\ items \subseteq Wire
        /\ at \in {"save", "ask"}
        /\ at = "ask" => left # <<>>
    BY <1>6, <2>1 DEF News!Exhausted, Given
  <2>4. run' = [run EXCEPT ![w] = q]
    BY <2>2, Zenon
  <2> HIDE DEF at, left
  <2>5. q \in Refreshing /\ RunFits(q)
    BY <1>2, <1>13, <2>1, <2>3, Zenon DEF Refreshing, RunFits
  <2> HIDE DEF q
  <2> QED
    BY <1>3, <2>1, <2>4, <2>5, Refreshes, Zenon
<1>8. ASSUME NEW w \in Runs, News!FeedFails(w)
      PROVE  NewsInv'
  <2>1. run[w].at = "ask" /\ UNCHANGED <<now, feeds, latest>>
    BY <1>8 DEF News!FeedFails
  <2> DEFINE left == Tail(run[w].left)
             at == IF left = <<>> THEN News!Exhausted(run[w].answered) ELSE "ask"
             q == [run[w] EXCEPT !.left = left, !.at = at]
  <2>2. run' = [run EXCEPT ![w] = q]
    BY <1>8, Zenon DEF News!FeedFails
  <2>3. /\ left \in Seq(Asked)
        /\ at \in {"save", "ask", "ended"}
        /\ at = "ask" => left # <<>>
        /\ at = "save" => run[w].answered
    BY <1>6, <2>1 DEF News!Exhausted
  <2> HIDE DEF at, left
  <2>4. q \in Refreshing /\ RunFits(q)
    BY <1>2, <1>13, <2>1, <2>3, Zenon DEF Refreshing, RunFits
  <2> HIDE DEF q
  <2> QED
    BY <1>3, <2>1, <2>2, <2>4, Refreshes, Zenon
<1>9. ASSUME NEW w \in Runs, News!Save(w)
      PROVE  NewsInv'
  <2>1. /\ RunFits(run[w]) /\ run[w].at = "save" /\ now \in Nat
        /\ now \in 0 .. now /\ 0 .. now \subseteq Nat
    BY <1>2, <1>9 DEF News!Save
  <2>2. latest' = [aggregate |-> News!aggregate_sentiment(run[w].news, run[w].as_of),
                  as_of |-> run[w].as_of, computed_at |-> now,
                  news |-> run[w].news, answered |-> run[w].answered] /\ UNCHANGED <<now, feeds>>
    BY <1>9 DEF News!Save
  <2>3. RowFits'
    BY <2>1, <2>2 DEF RowFits, RunFits, Given
  <2> QED
    BY <1>4, <1>9, <2>3, Refreshes, Zenon DEF News!Save
<1>10. ASSUME NEW w \in Runs, News!RunDies(w)
       PROVE  NewsInv'
    BY <1>3, <1>4, <1>10, Refreshes, Zenon DEF News!RunDies
<1>11. CASE UNCHANGED newsVars
    BY <1>11 DEF newsVars, NewsInv, RowFits, RunFits, Given, Asked
<1> QED
    BY <1>1, <1>5, <1>7, <1>8, <1>9, <1>10, <1>11 DEF News!Next

\* A drift that is applied has headlines behind it that pull the same way and weighed,
\* by their age, half the floor; they are dated within the look-back where every answer
\* is filtered by date, which Massive's later pages are not; and a row is never of an
\* outage: for any headlines, feeds, runs and ages.
THEOREM DriftsHaveNews == News!Spec => []SentimentIsNews
<1>1. NewsInv => SentimentIsNews
  <2> SUFFICES ASSUME NewsInv PROVE SentimentIsNews
    OBVIOUS
  <2>1. RowFits /\ now \in Nat
    BY DEF NewsInv
  <2>2. News!OutageIsNoNews
    BY <2>1 DEF RowFits, News!OutageIsNoNews
  <2>3. ASSUME News!Verdict = "applied", News!Shown.score # 0
        PROVE  /\ 2 * News!SumOver([h \in latest.news |-> News!Weight(h, latest.as_of)],
                                   News!Backing) >= News!MinWeight
               /\ feeds # <<"massive">> =>
                     \A h \in latest.news :
                        now - h.at <= Lookback + MaxAge + (latest.computed_at - latest.as_of)
    <3>1. latest # None /\ News!Shown = latest.aggregate
      BY <2>3 DEF News!Verdict, News!Shown
    <3>2. now - latest.computed_at <= MaxAge
      BY <2>1, <2>3, <3>1, ServicesAssumption DEF News!Verdict, RowFits
    <3>3. /\ latest.news \in SUBSET Wire /\ latest.as_of \in Nat /\ latest.computed_at \in Nat
          /\ News!Shown = News!aggregate_sentiment(latest.news, latest.as_of)
          /\ feeds # <<"massive">> => \A h \in latest.news : h.at >= latest.as_of - Lookback
      BY <2>1, <3>1 DEF RowFits, Given
    <3>4. 2 * News!SumOver([h \in latest.news |-> News!Weight(h, latest.as_of)],
                           News!Backing) >= News!MinWeight
      BY <2>3, <3>3, PullIsBacked DEF News!Backing
    <3>5. ASSUME feeds # <<"massive">>, NEW h \in latest.news
          PROVE  now - h.at <= Lookback + MaxAge + (latest.computed_at - latest.as_of)
      <4>1. h.at \in Nat /\ Lookback \in Nat /\ MaxAge \in Nat
        BY <3>3, ServicesAssumption
      <4> QED
        BY <2>1, <3>2, <3>3, <3>5, <4>1
    <3> QED
      BY <3>4, <3>5
  <2> QED
    BY <2>2, <2>3 DEF SentimentIsNews, News!SentimentIsNews, News!DriftHasNews
<1> QED
    BY <1>1, NewsInitInv, NewsNextInv, PTL DEF News!Spec, News!vars, newsVars

-----------------------------------------------------------------------------
(* The academy                                                             *)

Reindexing ==
    [at : {"idle", "delete", "embed", "inserted", "done", "failed"},
     edition : Editions \cup {<<>>}, seen : SUBSET Academy!Chunk, gone : SUBSET Academy!Chunk]

\* Any two editions share a module.
Sharing == \A d, e \in Editions : Academy!ToSet(d) \cap Academy!ToSet(e) # {}

Whole(rows) ==
    rows = {} \/ \E e \in Editions, w \in Reindexes \cup {None} : rows = Academy!Chunks(e, w)

\* Rows of runs that are over.
Written(rows) ==
    \A x \in rows : x.run = None \/ (x.run \in Reindexes /\ worker[x.run].at = "done")

\* What a run has seen is the index, or none of it is there any more.
Seen(q) ==
    q.at = "delete" => /\ q.edition \in Editions
                       /\ Written(q.seen)
                       /\ q.seen = index \/ q.seen \cap index = {}

\* What it has deleted is the index or nothing, and before it inserts, the index.
Holding(q) ==
    /\ q.at \in {"embed", "inserted"} => q.edition \in Editions /\ q.gone \in {{}, index}
    /\ q.at = "inserted" => q.gone = index

\* Two runs never hold the same rows, and one at most has inserted.
Apart(p, q) ==
    /\ {p.at, q.at} \subseteq {"embed", "inserted"} => p.gone \cap q.gone = {}
    /\ ~(p.at = "inserted" /\ q.at = "inserted")

ReindexInv ==
    /\ index \subseteq Academy!Chunk /\ Whole(index) /\ Written(index)
    /\ \A w \in Reindexes : Seen(worker[w]) /\ Holding(worker[w])
    /\ \A v, w \in Reindexes : v # w => Apart(worker[v], worker[w])
    /\ \A x, y \in answer.excerpts : x.run = y.run

IndexInv == worker \in [Reindexes -> Reindexing] /\ ReindexInv

\* The rows of an edition are of one run, and two editions conflict.
LEMMA EditionRows ==
    ASSUME NEW e \in Editions, NEW w \in Reindexes \cup {None}
    PROVE  /\ Academy!Chunks(e, w) \subseteq Academy!Chunk
           /\ \A x \in Academy!Chunks(e, w) : x.run = w
           /\ \A d \in Editions, v \in Reindexes \cup {None} : Sharing =>
                 \E x \in Academy!Chunks(e, w), y \in Academy!Chunks(d, v) : x.slug = y.slug
<1>1. Academy!Chunks(e, w) \subseteq Academy!Chunk /\ \A x \in Academy!Chunks(e, w) : x.run = w
    BY DEF Academy!Chunks, Academy!Chunk, Academy!Slugs
<1>2. ASSUME NEW d \in Editions, NEW v \in Reindexes \cup {None}, Sharing
      PROVE  \E x \in Academy!Chunks(e, w), y \in Academy!Chunks(d, v) : x.slug = y.slug
  <2>1. PICK s \in Academy!ToSet(e) : s \in Academy!ToSet(d)
    BY <1>2 DEF Sharing
  <2> DEFINE x == [slug |-> s, run |-> w]
             y == [slug |-> s, run |-> v]
  <2>2. x \in Academy!Chunks(e, w) /\ y \in Academy!Chunks(d, v) /\ x.slug = y.slug
    BY <2>1 DEF Academy!Chunks
  <2> QED
    BY <2>2
<1> QED
    BY <1>1, <1>2

\* A run moves on, and the index stays.
LEMMA RunMoves ==
    ASSUME IndexInv, NEW w \in Reindexes, NEW q \in Reindexing,
           worker' = [worker EXCEPT ![w] = q], UNCHANGED <<index, answer>>,
           worker[w].at # "done", Seen(q), Holding(q),
           \A v \in Reindexes \ {w} : Apart(worker[v], q)
    PROVE  IndexInv'
<1>1. /\ worker' \in [Reindexes -> Reindexing]
      /\ \A v \in Reindexes : worker'[v] = IF v = w THEN q ELSE worker[v]
    BY DEF IndexInv
<1>2. \A rows : Written(rows) => Written(rows)'
  <2> SUFFICES ASSUME NEW rows, Written(rows) PROVE Written(rows)'
    OBVIOUS
  <2> QED
    BY <1>1 DEF Written
<1>3. \A v \in Reindexes : Seen(worker[v])' /\ Holding(worker[v])'
  <2> SUFFICES ASSUME NEW v \in Reindexes PROVE Seen(worker[v])' /\ Holding(worker[v])'
    OBVIOUS
  <2>1. Seen(worker'[v]) /\ Holding(worker'[v])
    BY <1>1 DEF IndexInv, ReindexInv
  <2>2. Written(worker'[v].seen) => Written(worker[v].seen)'
    BY <1>2
  <2> QED
    BY <2>1, <2>2 DEF Seen, Holding
<1>4. \A u, v \in Reindexes : u # v => Apart(worker'[u], worker'[v])
  <2>1. \A v \in Reindexes \ {w} : Apart(q, worker[v])
    BY DEF Apart
  <2> QED
    BY <1>1, <2>1 DEF IndexInv, ReindexInv
<1>5. \A u, v \in Reindexes : u # v => Apart(worker[u], worker[v])'
    BY <1>4 DEF Apart
<1>6. Whole(index)' /\ (index \subseteq Academy!Chunk)' /\ Written(index)'
    BY <1>2 DEF IndexInv, ReindexInv, Whole
<1>7. \A x, y \in answer'.excerpts : x.run = y.run
    BY DEF IndexInv, ReindexInv
<1> QED
    BY <1>1, <1>3, <1>5, <1>6, <1>7 DEF IndexInv, ReindexInv

LEMMA IndexInitInv == Academy!Init /\ Sharing => IndexInv
<1> SUFFICES ASSUME Academy!Init, Sharing PROVE IndexInv
    OBVIOUS
<1>1. Academy!Idle \in Reindexing /\ Academy!Idle.at = "idle"
    BY DEF Academy!Idle, Reindexing
<1>2. index = {} \/ \E e \in Editions : index = Academy!Chunks(e, None)
    BY DEF Academy!Init
<1>3. Whole(index) /\ index \subseteq Academy!Chunk /\ Written(index)
    BY <1>2, EditionRows DEF Whole, Written
<1>4. \A w \in Reindexes : worker[w] = Academy!Idle
    BY DEF Academy!Init
<1>5. worker \in [Reindexes -> Reindexing]
    BY <1>1 DEF Academy!Init
<1>6. answer.excerpts = {}
    BY DEF Academy!Init, Academy!NoAnswer
<1> QED
    BY <1>1, <1>3, <1>4, <1>5, <1>6 DEF IndexInv, ReindexInv, Seen, Holding, Apart

LEMMA IndexNextInv == Sharing /\ IndexInv /\ [Academy!Next]_academyVars => IndexInv'
<1> SUFFICES ASSUME Sharing, IndexInv, [Academy!Next]_academyVars PROVE IndexInv'
    OBVIOUS
<1>1. ASSUME NEW w \in Reindexes
      PROVE  /\ worker[w] \in Reindexing /\ Seen(worker[w]) /\ Holding(worker[w])
             /\ \A v \in Reindexes \ {w} : Apart(worker[v], worker[w])
    BY DEF IndexInv, ReindexInv
<1>2. index \subseteq Academy!Chunk /\ Whole(index) /\ Written(index)
    BY DEF IndexInv, ReindexInv
<1>3. \A at \in {"idle", "failed", "done"} :
          LET q == [Academy!Idle EXCEPT !.at = at]
          IN  /\ q \in Reindexing /\ Seen(q) /\ Holding(q) /\ q.at = at
              /\ \A p : Apart(p, q)
    BY DEF Academy!Idle, Reindexing, Seen, Holding, Apart
<1>4. ASSUME NEW w \in Reindexes, NEW e \in Editions, Academy!ReindexStart(w, e)
      PROVE  IndexInv'
  <2> DEFINE q == [at |-> "delete", edition |-> e, seen |-> index, gone |-> {}]
  <2>1. q \in Reindexing /\ Seen(q) /\ Holding(q) /\ \A p : Apart(p, q)
    BY <1>2 DEF Reindexing, Seen, Holding, Apart
  <2>2. /\ worker' = [worker EXCEPT ![w] = q] /\ UNCHANGED <<index, answer>>
        /\ worker[w].at # "done"
    BY <1>4 DEF Academy!ReindexStart
  <2> HIDE DEF q
  <2> QED
    BY <2>1, <2>2, RunMoves, Zenon
<1>5. ASSUME NEW w \in Reindexes, Academy!ReindexDelete(w)
      PROVE  IndexInv'
  <2> DEFINE gone == worker[w].seen \cap index
             q == [worker[w] EXCEPT !.at = "embed", !.gone = gone]
  <2>1. /\ worker' = [worker EXCEPT ![w] = q] /\ UNCHANGED <<index, answer>>
        /\ worker[w].at = "delete"
        /\ \A v \in Reindexes \ {w} : worker[v].at \in {"embed", "inserted"}
              => worker[v].gone \cap worker[w].seen = {}
    BY <1>5, Zenon DEF Academy!ReindexDelete
  <2>2. gone \in {{}, index} /\ worker[w].edition \in Editions /\ gone \subseteq worker[w].seen
    BY <1>1, <2>1 DEF Seen
  <2> HIDE DEF gone
  <2>3. q \in Reindexing /\ q.at = "embed" /\ q.gone = gone /\ q.edition \in Editions
    BY <1>1, <1>2, <2>2, Zenon DEF Reindexing
  <2>4. Seen(q) /\ Holding(q)
    BY <2>2, <2>3 DEF Seen, Holding
  <2>5. \A v \in Reindexes \ {w} : Apart(worker[v], q)
    BY <2>1, <2>2, <2>3 DEF Apart
  <2> HIDE DEF q
  <2> QED
    BY <2>1, <2>3, <2>4, <2>5, RunMoves, Zenon
<1>6. ASSUME NEW w \in Reindexes, Academy!ReindexInsert(w)
      PROVE  IndexInv'
  <2> DEFINE rows == Academy!Chunks(worker[w].edition, w)
  <2>1. worker[w].at = "embed" /\ UNCHANGED <<index, answer>>
    BY <1>6 DEF Academy!ReindexInsert
  <2>2. worker[w].edition \in Editions /\ worker[w].gone \in {{}, index}
    BY <1>1, <2>1 DEF Holding
  <2>3. ASSUME Academy!Conflicts(w, rows)
        PROVE  IndexInv'
    <3>1. worker' = [worker EXCEPT ![w] = [Academy!Idle EXCEPT !.at = "failed"]]
      BY <1>6, <2>3 DEF Academy!ReindexInsert
    <3> QED
      BY <1>3, <2>1, <3>1, RunMoves, Zenon
  <2>4. ASSUME ~Academy!Conflicts(w, rows)
        PROVE  IndexInv'
    <3> DEFINE q == [worker[w] EXCEPT !.at = "inserted"]
    <3>1. worker' = [worker EXCEPT ![w] = q]
      BY <1>6, <2>4 DEF Academy!ReindexInsert
    <3>2. worker[w].gone = index
      <4> SUFFICES ASSUME worker[w].gone = {}, index # {} PROVE FALSE
        BY <2>2
      <4>1. PICK e \in Editions, v \in Reindexes \cup {None} : index = Academy!Chunks(e, v)
        BY <1>2 DEF Whole
      <4>2. \E x \in rows, y \in index : x.slug = y.slug
        BY <2>2, <4>1, EditionRows
      <4> QED
        BY <2>4, <4>2 DEF Academy!Conflicts
    <3>3. /\ q \in Reindexing /\ q.at = "inserted" /\ q.gone = worker[w].gone
          /\ q.edition = worker[w].edition
      BY <1>1 DEF Reindexing
    <3>4. Seen(q) /\ Holding(q)
      BY <2>2, <3>2, <3>3 DEF Seen, Holding
    <3>5. ASSUME NEW v \in Reindexes \ {w}
          PROVE  Apart(worker[v], q)
      <4>1. worker[v].at # "inserted"
        <5> SUFFICES ASSUME worker[v].at = "inserted" PROVE FALSE
          OBVIOUS
        <5>1. worker[v].edition \in Editions
          BY <1>1 DEF Holding
        <5>2. Academy!ToSet(worker[v].edition) \cap Academy!ToSet(worker[w].edition) # {}
          BY <2>2, <5>1 DEF Sharing
        <5> QED
          BY <1>6, <5>2 DEF Academy!ReindexInsert
      <4> QED
        BY <1>1, <2>1, <3>3, <4>1 DEF Apart
    <3> HIDE DEF q
    <3> QED
      BY <2>1, <3>1, <3>3, <3>4, <3>5, RunMoves, Zenon
  <2> QED
    BY <2>3, <2>4
<1>7. ASSUME NEW w \in Reindexes, Academy!ReindexFails(w)
      PROVE  IndexInv'
    BY <1>3, <1>7, RunMoves, Zenon DEF Academy!ReindexFails
<1>8. ASSUME NEW w \in Reindexes, Academy!ReindexCommit(w)
      PROVE  IndexInv'
  <2> DEFINE rows == Academy!Chunks(worker[w].edition, w)
             q == [Academy!Idle EXCEPT !.at = "done"]
  <2>1. /\ worker[w].at = "inserted" /\ UNCHANGED answer
        /\ worker' = [worker EXCEPT ![w] = q]
        /\ index' = (index \ worker[w].gone) \cup rows
    BY <1>8 DEF Academy!ReindexCommit
  <2>2. worker[w].edition \in Editions /\ worker[w].gone = index
    BY <1>1, <2>1 DEF Holding
  <2>3. index' = rows
    BY <2>1, <2>2
  <2>4. /\ rows \subseteq Academy!Chunk /\ Whole(rows) /\ \A x \in rows : x.run = w
    BY <2>2, EditionRows DEF Whole
  <2>5. q \in Reindexing /\ q.at = "done" /\ q.seen = {}
    BY DEF Academy!Idle, Reindexing
  <2> HIDE DEF q, rows
  <2>6. /\ worker' \in [Reindexes -> Reindexing]
        /\ \A v \in Reindexes : worker'[v] = IF v = w THEN q ELSE worker[v]
    BY <2>1, <2>5 DEF IndexInv
  <2>7. \A S : Written(S) => Written(S)'
    <3> SUFFICES ASSUME NEW S, Written(S) PROVE Written(S)'
      OBVIOUS
    <3> QED
      BY <2>1, <2>6 DEF Written
  <2>8. \A x \in rows : x.run \in Reindexes /\ worker'[x.run].at = "done"
    BY <2>4, <2>5, <2>6
  <2>9. Whole(index)' /\ (index \subseteq Academy!Chunk)' /\ Written(index)'
    BY <2>3, <2>4, <2>8 DEF Whole, Written
  <2>10. ASSUME NEW v \in Reindexes
         PROVE  Seen(worker[v])' /\ Holding(worker[v])'
    <3>1. CASE v = w
      BY <2>5, <2>6, <3>1 DEF Seen, Holding
    <3>2. CASE v # w
      <4>1. worker'[v] = worker[v] /\ worker[v].at # "inserted" /\ Apart(worker[v], worker[w])
        BY <1>1, <2>1, <2>6, <3>2 DEF Apart
      <4>2. worker[v].at = "embed" => worker[v].edition \in Editions /\ worker[v].gone = {}
        BY <1>1, <2>1, <2>2, <4>1 DEF Apart, Holding
      <4>3. worker[v].at = "delete" => /\ worker[v].edition \in Editions
                                       /\ Written(worker[v].seen)
                                       /\ worker[v].seen \cap index' = {}
        <5> SUFFICES ASSUME worker[v].at = "delete"
                     PROVE  /\ worker[v].edition \in Editions /\ Written(worker[v].seen)
                            /\ worker[v].seen \cap rows = {}
          BY <2>3
        <5>1. worker[v].edition \in Editions /\ Written(worker[v].seen)
          BY <1>1 DEF Seen
        <5>2. \A x \in worker[v].seen : x.run # w
          BY <2>1, <5>1, ServicesAssumption DEF Written
        <5> QED
          BY <2>4, <5>1, <5>2
      <4>4. worker[v].at = "delete" => Written(worker[v].seen)'
        <5>1. worker[v].at = "delete" => Written(worker'[v].seen)
          BY <4>1, <4>3
        <5>2. Written(worker'[v].seen) => Written(worker[v].seen)'
          BY <2>7
        <5> QED
          BY <5>1, <5>2
      <4> QED
        BY <4>1, <4>2, <4>3, <4>4 DEF Seen, Holding
    <3> QED
      BY <3>1, <3>2
  <2>11. ASSUME NEW u \in Reindexes, NEW v \in Reindexes, u # v
         PROVE  Apart(worker[u], worker[v])'
    <3>1. Apart(worker'[u], worker'[v])
      BY <2>5, <2>6, <2>11 DEF Apart, IndexInv, ReindexInv
    <3> QED
      BY <3>1 DEF Apart
  <2>12. \A x, y \in answer'.excerpts : x.run = y.run
    BY <2>1 DEF IndexInv, ReindexInv
  <2> QED
    BY <2>6, <2>9, <2>10, <2>11, <2>12 DEF IndexInv, ReindexInv
<1>9. ASSUME UNCHANGED <<index, worker>>, \A x, y \in answer'.excerpts : x.run = y.run
      PROVE  IndexInv'
  <2>1. \A w \in Reindexes : Seen(worker[w])' /\ Holding(worker[w])'
    BY <1>1, <1>9 DEF Seen, Holding, Written
  <2>2. \A v, w \in Reindexes : v # w => Apart(worker[v], worker[w])'
    BY <1>1, <1>9 DEF Apart
  <2>3. Whole(index)' /\ (index \subseteq Academy!Chunk)' /\ Written(index)'
    BY <1>2, <1>9 DEF Whole, Written
  <2> QED
    BY <1>9, <2>1, <2>2, <2>3 DEF IndexInv, ReindexInv
<1>10. ASSUME NEW mode, Academy!Search(mode)
       PROVE  IndexInv'
  <2>1. UNCHANGED <<index, worker>> /\ answer'.excerpts = {}
    BY <1>10 DEF Academy!Search, Academy!NoAnswer
  <2> QED
    BY <1>9, <2>1
<1>11. ASSUME Academy!Ask
       PROVE  IndexInv'
  <2>1. UNCHANGED <<index, worker>>
    BY <1>11 DEF Academy!Ask
  <2>2. PICK k \in Limits : \E chunks \in Academy!Excerpts(k) :
            answer'.excerpts = Academy!ToSet(chunks)
    BY <1>11 DEF Academy!Ask, Academy!NoAnswer
  <2>3. PICK chunks \in Academy!Excerpts(k) : answer'.excerpts = Academy!ToSet(chunks)
    BY <2>2
  <2>4. answer'.excerpts \subseteq index
    BY <2>3, Zenon DEF Academy!Excerpts, Academy!SemanticHits, Academy!SetToAllKPermutations,
                Academy!SetToSeqs, Academy!ToSet
  <2>5. \A x, y \in index : x.run = y.run
    BY <1>2, EditionRows DEF Whole
  <2> QED
    BY <1>9, <2>1, <2>4, <2>5
<1>12. CASE UNCHANGED academyVars
  <2>1. UNCHANGED <<index, worker, answer>>
    BY <1>12 DEF academyVars
  <2> QED
    BY <1>9, <2>1 DEF IndexInv, ReindexInv
<1> QED
    BY <1>4, <1>5, <1>6, <1>7, <1>8, <1>10, <1>11, <1>12 DEF Academy!Next

LEMMA AcademyToSet == ASSUME NEW s PROVE Academy!ToSet(s) = ToSet(s)
BY DEF Academy!ToSet, ToSet

LEMMA AcademyAmong == ASSUME NEW s, NEW S PROVE Academy!Among(s, S) = Among(s, S)
BY DEF Academy!Among, Among

\* The rank of an entry is one less than its first position.
LEMMA RankOf ==
    ASSUME NEW J, NEW h \in Seq(J), NEW x
    PROVE  /\ x \notin ToSet(h) => Academy!Rank(x, h) = -1
           /\ x \in ToSet(h) => /\ Academy!Rank(x, h) \in 0 .. Len(h) - 1
                                /\ h[Academy!Rank(x, h) + 1] = x
           /\ \A i \in 1 .. Len(h) : h[i] = x => Academy!Rank(x, h) < i
<1> DEFINE I == {i \in 1 .. Len(h) : h[i] = x}
           r == IF I # {} THEN Academy!Min(I) ELSE 0
<1>1. Academy!Rank(x, h) = r - 1
    BY DEF Academy!Rank, Academy!SelectInSeq
<1>2. x \in ToSet(h) <=> I # {}
    BY InToSet
<1>3. I # {} => r \in I /\ \A i \in I : r <= i
  <2>1. I \in SUBSET Nat
    OBVIOUS
  <2> HIDE DEF I
  <2> SUFFICES ASSUME I # {} PROVE r \in I /\ \A i \in I : r <= i
    OBVIOUS
  <2>2. \E i \in I : \A k \in I : i <= k
    BY <2>1, LeastNumber
  <2> QED
    BY <2>2 DEF Academy!Min
<1>4. I = {} => r = 0
    OBVIOUS
<1>5. Len(h) \in Nat
    OBVIOUS
<1>6. \A i \in 1 .. Len(h) : i \in I <=> h[i] = x
    OBVIOUS
<1>7. I \subseteq 1 .. Len(h)
    OBVIOUS
<1> HIDE DEF r, I
<1>8. CASE I = {}
    BY <1>1, <1>2, <1>4, <1>6, <1>8
<1>9. CASE I # {}
  <2>1. r \in 1 .. Len(h) /\ h[r] = x /\ (r - 1) + 1 = r /\ r - 1 \in 0 .. Len(h) - 1
    <3>1. r \in 1 .. Len(h) /\ h[r] = x
      BY <1>3, <1>6, <1>7, <1>9, Zenon
    <3> QED
      BY <1>5, <3>1
  <2>2. \A i \in 1 .. Len(h) : h[i] = x => r - 1 < i
    BY <1>3, <1>5, <1>6, <1>9, <2>1
  <2> QED
    BY <1>1, <1>2, <1>9, <2>1, <2>2
<1> QED
    BY <1>8, <1>9

\* A first place is worth 3782 points, and no other is worth more.
LEMMA PointsOfRank ==
    ASSUME NEW r \in Nat
    PROVE  /\ Academy!RankPoints(r) \in Nat /\ Academy!RankPoints(r) <= 3782
           /\ Academy!RankPoints(0) = 3782
<1>1. (60 * 61 * 62) = 226920 /\ 60 + 0 = 60 /\ 226920 \div 60 = 3782
    OBVIOUS
<1> DEFINE d == 60 + r
           q == 226920 \div d
<1>2. d \in Nat /\ d >= 60
    OBVIOUS
<1> HIDE DEF d
<1>3. q \in Nat /\ q * d <= 226920
    BY <1>2
<1> HIDE DEF q
<1>4. q * 60 <= q * d
    BY <1>2, <1>3
<1>5. q <= 3782
  <2>1. q * d \in Nat
    BY <1>2, <1>3
  <2> QED
    BY <1>3, <1>4, <2>1
<1> QED
    BY <1>1, <1>3, <1>5 DEF q, d, Academy!RankPoints

\* The results of a hybrid search start with modules that both searches have found,
\* up to the best of the keyword search.
LEMMA BestIsFused ==
    ASSUME NEW J, NEW keyword \in Seq(J), keyword # <<>>, NEW semantic \in Seq(J)
    PROVE  LET fused == Academy!reciprocal_rank_fusion(keyword, semantic)
           IN  /\ fused \in Seq(J)
               /\ \E p \in 1 .. Len(fused) :
                     /\ fused[p] = keyword[1]
                     /\ \A i \in 1 .. p - 1 : fused[i] \in ToSet(keyword) \cap ToSet(semantic)
<1> DEFINE slugs == ToSet(keyword) \cup ToSet(semantic)
           Score(s) == (IF s \in ToSet(keyword)
                        THEN Academy!RankPoints(Academy!Rank(s, keyword)) ELSE 0)
                       + (IF s \in ToSet(semantic)
                          THEN Academy!RankPoints(Academy!Rank(s, semantic)) ELSE 0)
           FirstSeen(s) == Academy!Rank(s, keyword \o semantic)
           Leads(s, t) == \/ Score(s) > Score(t)
                          \/ Score(s) = Score(t) /\ FirstSeen(s) < FirstSeen(t)
           Place(s) == Cardinality({t \in slugs : t = s \/ Leads(t, s)})
           fused == [i \in 1 .. Cardinality(slugs) |-> CHOOSE s \in slugs : Place(s) = i]
           best == keyword[1]
<1>1. Academy!reciprocal_rank_fusion(keyword, semantic) = fused
    BY DEF Academy!reciprocal_rank_fusion, Academy!ToSet, ToSet,
       Academy!Cardinality, Cardinality
<1>2. IsFiniteSet(slugs)
  <2>1. IsFiniteSet(ToSet(keyword)) /\ IsFiniteSet(ToSet(semantic))
    BY FiniteEntries
  <2> QED
    BY <2>1, FS_Union, Zenon
<1>3. slugs \subseteq J /\ best \in ToSet(keyword) /\ Len(keyword) >= 1
  <2>1. Len(keyword) >= 1 /\ Len(keyword) \in Nat
    OBVIOUS
  <2> QED
    BY <2>1, InToSet
<1>4. \A s \in slugs : /\ FirstSeen(s) \in Nat
                       /\ (keyword \o semantic)[FirstSeen(s) + 1] = s
  <2> DEFINE h == keyword \o semantic
  <2>1. h \in Seq(J) /\ ToSet(h) = slugs
    <3>1. /\ h \in Seq(J) /\ Len(h) = Len(keyword) + Len(semantic)
          /\ \A i \in 1 .. Len(keyword) : h[i] = keyword[i]
          /\ \A i \in 1 .. Len(semantic) : h[Len(keyword) + i] = semantic[i]
          /\ Len(keyword) \in Nat /\ Len(semantic) \in Nat
      OBVIOUS
    <3> HIDE DEF h
    <3>2. /\ ToSet(h) = {h[i] : i \in 1 .. Len(h)}
          /\ ToSet(keyword) = {keyword[i] : i \in 1 .. Len(keyword)}
          /\ ToSet(semantic) = {semantic[i] : i \in 1 .. Len(semantic)}
      BY <3>1, InToSet, Zenon
    <3>3. ASSUME NEW i \in 1 .. Len(h) PROVE h[i] \in slugs
      <4>1. CASE i <= Len(keyword)
        BY <3>1, <3>2, <4>1
      <4>2. CASE ~(i <= Len(keyword))
        <5>1. i - Len(keyword) \in 1 .. Len(semantic) /\ Len(keyword) + (i - Len(keyword)) = i
          BY <3>1, <4>2
        <5> QED
          BY <3>1, <3>2, <5>1, Zenon
      <4> QED
        BY <4>1, <4>2
    <3>4. ASSUME NEW i \in 1 .. Len(keyword) PROVE keyword[i] \in ToSet(h)
      BY <3>1, <3>2
    <3>5. ASSUME NEW i \in 1 .. Len(semantic) PROVE semantic[i] \in ToSet(h)
      <4>1. Len(keyword) + i \in 1 .. Len(h)
        BY <3>1
      <4> QED
        BY <3>1, <3>2, <4>1
    <3>6. ToSet(h) \subseteq slugs
      BY <3>2, <3>3
    <3>7. slugs \subseteq ToSet(h)
      BY <3>2, <3>4, <3>5, Zenon
    <3> QED
      BY <3>1, <3>6, <3>7
  <2> HIDE DEF h
  <2>2. \A s \in ToSet(h) : /\ Academy!Rank(s, h) \in 0 .. Len(h) - 1
                            /\ h[Academy!Rank(s, h) + 1] = s
    BY <2>1, RankOf
  <2>3. \A r \in 0 .. Len(h) - 1 : r \in Nat
    OBVIOUS
  <2> QED
    BY <2>1, <2>2, <2>3 DEF h
<1>5. FirstSeen(best) = 0
  <2>1. /\ keyword \o semantic \in Seq(J) /\ 1 \in 1 .. Len(keyword \o semantic)
        /\ (keyword \o semantic)[1] = best
    BY <1>3
  <2>2. FirstSeen(best) < 1
    BY <2>1, RankOf, Zenon
  <2> QED
    BY <1>3, <1>4, <2>2
<1>6. ASSUME NEW h \in {keyword, semantic}, NEW s \in ToSet(h)
      PROVE  /\ Academy!Rank(s, h) \in Nat
             /\ Academy!RankPoints(Academy!Rank(s, h)) \in Nat
             /\ Academy!RankPoints(Academy!Rank(s, h)) <= 3782
  <2>1. Academy!Rank(s, h) \in 0 .. Len(h) - 1
    BY <1>6, RankOf
  <2> DEFINE r == Academy!Rank(s, h)
  <2>2. r \in Nat
    BY <2>1
  <2> HIDE DEF r
  <2>3. Academy!RankPoints(r) \in Nat /\ Academy!RankPoints(r) <= 3782
    BY <2>2, PointsOfRank
  <2> QED
    BY <2>2, <2>3 DEF r
<1>7. \A s \in slugs : /\ Score(s) \in Nat
                       /\ ~(s \in ToSet(keyword) \cap ToSet(semantic)) => Score(s) <= 3782
  <2> SUFFICES ASSUME NEW s \in slugs
               PROVE  /\ Score(s) \in Nat
                      /\ ~(s \in ToSet(keyword) \cap ToSet(semantic)) => Score(s) <= 3782
    OBVIOUS
  <2> DEFINE a == IF s \in ToSet(keyword)
                  THEN Academy!RankPoints(Academy!Rank(s, keyword)) ELSE 0
             b == IF s \in ToSet(semantic)
                  THEN Academy!RankPoints(Academy!Rank(s, semantic)) ELSE 0
  <2>1. a \in Nat /\ b \in Nat /\ a <= 3782 /\ b <= 3782
    BY <1>6
  <2>2. ~(s \in ToSet(keyword) \cap ToSet(semantic)) => a = 0 \/ b = 0
    OBVIOUS
  <2>3. Score(s) = a + b
    OBVIOUS
  <2> HIDE DEF a, b, Score
  <2>4. Score(s) \in Nat /\ (a = 0 \/ b = 0 => Score(s) <= 3782)
    BY <2>1, <2>3
  <2> QED
    BY <2>2, <2>4
<1>8. Score(best) >= 3782
  <2>1. Academy!Rank(best, keyword) = 0
    <3>1. 1 \in 1 .. Len(keyword)
      BY <1>3
    <3>2. Academy!Rank(best, keyword) < 1
      BY <3>1, RankOf
    <3> QED
      BY <1>3, <1>6, <3>2
  <2>2. Academy!RankPoints(Academy!Rank(best, keyword)) = 3782
    BY <2>1, PointsOfRank
  <2> DEFINE b == IF best \in ToSet(semantic)
                  THEN Academy!RankPoints(Academy!Rank(best, semantic)) ELSE 0
  <2>3. b \in Nat
    BY <1>6
  <2>4. Score(best) = 3782 + b
    BY <1>3, <2>2
  <2> HIDE DEF b, Score
  <2> QED
    BY <2>3, <2>4
<1> HIDE DEF Score, FirstSeen
<1>9. ASSUME NEW s \in slugs, Leads(s, best)
      PROVE  s \in ToSet(keyword) \cap ToSet(semantic)
    BY <1>3, <1>4, <1>5, <1>7, <1>8, <1>9
<1> DEFINE R == {q \in slugs \X slugs : Leads(q[1], q[2])}
<1>10. \A s, t \in slugs : <<s, t>> \in R <=> Leads(s, t)
    OBVIOUS
<1>11. \A s, t \in slugs : s # t => FirstSeen(s) # FirstSeen(t)
    BY <1>4
<1>12. /\ \A x \in slugs : ~Leads(x, x)
       /\ \A x, y, z \in slugs : Leads(x, y) /\ Leads(y, z) => Leads(x, z)
       /\ \A x, y \in slugs : x = y \/ Leads(x, y) \/ Leads(y, x)
    BY <1>4, <1>7, <1>11
<1>13. \A s \in slugs : Place(s) = Cardinality(Down(slugs, R, s))
  <2>1. \A s \in slugs : {t \in slugs : t = s \/ Leads(t, s)} = Down(slugs, R, s)
    BY <1>10 DEF Down
  <2> QED
    BY <2>1, Zenon
<1> HIDE DEF Leads, slugs, R
<1>14. /\ \A x \in slugs : Cardinality(Down(slugs, R, x)) \in 1..Cardinality(slugs)
       /\ \A i \in 1..Cardinality(slugs) : \E x \in slugs : Cardinality(Down(slugs, R, x)) = i
       /\ \A x, y \in slugs : Cardinality(Down(slugs, R, x)) < Cardinality(Down(slugs, R, y))
             <=> <<x, y>> \in R
  <2>1. /\ \A x \in slugs : <<x, x>> \notin R
        /\ \A x, y, z \in slugs : <<x, y>> \in R /\ <<y, z>> \in R => <<x, z>> \in R
        /\ \A x, y \in slugs : x = y \/ <<x, y>> \in R \/ <<y, x>> \in R
    BY <1>10, <1>12
  <2> QED
    BY <1>2, <2>1, RankingIsOneToOne, Zenon
<1> HIDE DEF Place
<1>15. /\ \A x \in slugs : Place(x) \in 1..Cardinality(slugs)
       /\ \A i \in 1..Cardinality(slugs) : \E x \in slugs : Place(x) = i
       /\ \A x, y \in slugs : Place(x) < Place(y) => Leads(x, y)
       /\ \A x, y \in slugs : Place(x) = Place(y) => x = y
  <2>1. /\ \A x \in slugs : Place(x) \in 1..Cardinality(slugs)
        /\ \A i \in 1..Cardinality(slugs) : \E x \in slugs : Place(x) = i
    BY <1>13, <1>14
  <2>2. \A x, y \in slugs : Place(x) < Place(y) <=> Leads(x, y)
    BY <1>10, <1>13, <1>14, Zenon
  <2>3. ASSUME NEW x \in slugs, NEW y \in slugs, Place(x) = Place(y)
        PROVE  x = y
    <3>1. ~(Place(x) < Place(y)) /\ ~(Place(y) < Place(x))
      BY <2>1, <2>3
    <3> QED
      BY <1>12, <2>2, <3>1
  <2> QED
    BY <2>1, <2>2, <2>3
<1>16. Cardinality(slugs) \in Nat
    BY <1>2, FS_CardinalityType
<1>17. \A i \in 1 .. Cardinality(slugs) : fused[i] \in slugs /\ Place(fused[i]) = i
    BY <1>15
<1>18. fused \in Seq(J) /\ Len(fused) = Cardinality(slugs)
    BY <1>3, <1>16, <1>17
<1> HIDE DEF fused, best
<1> DEFINE p == Place(best)
<1>19. best \in slugs
    BY <1>3 DEF slugs
<1>20. p \in 1 .. Len(fused) /\ fused[p] = best
    BY <1>15, <1>17, <1>18, <1>19
<1>21. ASSUME NEW i \in 1 .. p - 1 PROVE fused[i] \in ToSet(keyword) \cap ToSet(semantic)
  <2>1. i \in 1 .. Cardinality(slugs) /\ i < p
    BY <1>16, <1>18, <1>20
  <2>2. Leads(fused[i], best)
    BY <1>15, <1>17, <1>19, <2>1
  <2> QED
    BY <1>9, <1>17, <2>1, <2>2
<1> HIDE DEF p
<1>22. \E k \in 1 .. Len(fused) :
          /\ fused[k] = keyword[1]
          /\ \A i \in 1 .. k - 1 : fused[i] \in ToSet(keyword) \cap ToSet(semantic)
    BY <1>20, <1>21 DEF best
<1> QED
    BY <1>1, <1>18, <1>22

\* The cut at the limit, and the modules of other editions, cost the best hit nothing
\* but what both searches found.
LEMMA BestIsKept ==
    ASSUME NEW J, NEW keyword \in Seq(J), keyword # <<>>, NEW semantic \in Seq(J),
           NEW edition \in Editions, NEW limit \in Nat \ {0},
           ToSet(keyword) \subseteq ToSet(edition),
           NEW results, results = Academy!Results(edition, "hybrid", limit, keyword, semantic)
    PROVE  LET place == Academy!Rank(keyword[1], results) + 1
               above == IF place = 0 THEN Len(results) ELSE place - 1
           IN  /\ results # <<>>
               /\ \A i \in 1 .. above : results[i] \in ToSet(keyword) \cap ToSet(semantic)
<1> DEFINE ordered == IF semantic = <<>> THEN keyword
                      ELSE Academy!reciprocal_rank_fusion(keyword, semantic)
           best == keyword[1]
           both == ToSet(keyword) \cap ToSet(semantic)
           size == Academy!Min({limit, Len(ordered)})
           cut == SubSeq(ordered, 1, size)
           place == Academy!Rank(best, results) + 1
           above == IF place = 0 THEN Len(results) ELSE place - 1
<1>1. results = Among(cut, ToSet(edition))
    BY AcademyAmong, AcademyToSet DEF Academy!Results
<1>2. ordered \in Seq(J) /\ \E p \in 1 .. Len(ordered) :
          /\ ordered[p] = best
          /\ \A i \in 1 .. p - 1 : ordered[i] \in both
  <2>1. CASE semantic = <<>>
    <3>1. 1 \in 1 .. Len(keyword) /\ 1 .. 1 - 1 = {}
      OBVIOUS
    <3> QED
      BY <2>1, <3>1
  <2>2. CASE semantic # <<>>
    BY <2>2, BestIsFused
  <2> QED
    BY <2>1, <2>2
<1>3. best \in ToSet(keyword)
  <2>1. 1 \in 1 .. Len(keyword)
    OBVIOUS
  <2> QED
    BY <2>1, InToSet
<1> HIDE DEF ordered
<1>4. PICK p \in 1 .. Len(ordered) : /\ ordered[p] = best
                                     /\ \A i \in 1 .. p - 1 : ordered[i] \in both
    BY <1>2
<1>5. Len(ordered) \in Nat /\ Len(ordered) >= 1 /\ p \in Nat
    BY <1>2, <1>4
<1>6. size \in {limit, Len(ordered)} /\ size <= limit /\ size <= Len(ordered)
  <2>1. limit \in Nat /\ Len(ordered) \in Nat
    BY <1>5
  <2>2. \E n \in {limit, Len(ordered)} : \A m \in {limit, Len(ordered)} : n <= m
    BY <2>1
  <2> QED
    BY <2>2 DEF Academy!Min
<1>7. size \in 1 .. Len(ordered)
    BY <1>5, <1>6
<1> HIDE DEF size
<1>8. /\ cut \in Seq(J) /\ Len(cut) = size
      /\ \A i \in 1 .. size : cut[i] = ordered[i]
    BY <1>2, <1>5, <1>7
<1> HIDE DEF cut
<1> DEFINE k == IF p <= size THEN p ELSE size
<1>9. /\ k \in 0 .. Len(cut) /\ k >= 1
      /\ \A i \in 1 .. k : cut[i] = ordered[i]
      /\ p <= size => k = p
      /\ ~(p <= size) => k = Len(cut) /\ \A i \in 1 .. k : i \in 1 .. p - 1
    BY <1>5, <1>7, <1>8
<1>10. \A i \in 1 .. k : cut[i] \in ToSet(edition)
  <2> SUFFICES ASSUME NEW i \in 1 .. k PROVE cut[i] \in ToSet(edition)
    OBVIOUS
  <2>1. i = p \/ i \in 1 .. p - 1
    BY <1>5, <1>7
  <2>2. ordered[i] \in ToSet(keyword)
    BY <1>3, <1>4, <2>1
  <2> QED
    BY <1>9, <2>2
<1> HIDE DEF k, both, best
<1>11. /\ results \in Seq(J) /\ Len(results) \in k .. Len(cut)
       /\ \A i \in 1 .. k : results[i] = cut[i]
    BY <1>1, <1>8, <1>9, <1>10, AmongPrefix
<1>12. /\ results # <<>>
       /\ \A i \in 1 .. k : results[i] = ordered[i]
    BY <1>9, <1>11
<1>13. /\ place \in 0 .. Len(results)
       /\ \A i \in 1 .. Len(results) : results[i] = best => place <= i
  <2> DEFINE r == Academy!Rank(best, results)
  <2>1. /\ best \notin ToSet(results) => r = -1
        /\ best \in ToSet(results) => r \in 0 .. Len(results) - 1
        /\ \A i \in 1 .. Len(results) : results[i] = best => r < i
    BY <1>11, RankOf, Zenon
  <2> HIDE DEF r
  <2>2. Len(results) \in Nat
    BY <1>11
  <2>3. r \in Int /\ r + 1 \in 0 .. Len(results)
    BY <2>1, <2>2
  <2>4. \A i \in 1 .. Len(results) : results[i] = best => r + 1 <= i
    BY <2>1, <2>3
  <2> QED
    BY <2>3, <2>4 DEF r
<1> HIDE DEF place
<1>14. ASSUME NEW i \in 1 .. above
       PROVE  results[i] \in both
  <2>1. CASE p <= size
    <3>1. k = p /\ p \in 1 .. Len(results) /\ results[p] = best
      BY <1>4, <1>5, <1>9, <1>11, <1>12, <2>1
    <3>2. place <= p /\ place # 0
      <4>1. place <= p
        BY <1>13, <3>1
      <4>2. place # 0
        <5>1. best \in ToSet(results)
          BY <1>11, <3>1, InToSet
        <5>2. Academy!Rank(best, results) \in 0 .. Len(results) - 1
          BY <1>11, <5>1, RankOf
        <5> QED
          BY <5>2 DEF place
      <4> QED
        BY <4>1, <4>2
    <3>3. i \in 1 .. p - 1 /\ i \in 1 .. k
      BY <1>5, <1>13, <3>1, <3>2
    <3> QED
      BY <1>4, <1>12, <3>3
  <2>2. CASE ~(p <= size)
    <3>1. k = Len(cut) /\ Len(results) = k /\ \A j \in 1 .. k : j \in 1 .. p - 1
      <4>1. k = Len(cut) /\ \A j \in 1 .. k : j \in 1 .. p - 1
        BY <1>9, <2>2
      <4>2. Len(cut) \in Nat
        BY <1>5, <1>7, <1>8
      <4> DEFINE n == Len(results)
                 m == Len(cut)
      <4>3. n \in k .. m /\ k = m /\ m \in Nat
        BY <1>11, <4>1, <4>2
      <4> HIDE DEF n, m
      <4>4. n = k
        BY <4>3
      <4> QED
        BY <4>1, <4>4 DEF n
    <3>2. i \in 1 .. k
      BY <1>13, <3>1
    <3> QED
      BY <1>4, <1>12, <3>1, <3>2
  <2> QED
    BY <2>1, <2>2
<1> QED
    BY <1>12, <1>14 DEF place, both, best

-----------------------------------------------------------------------------

AcademyInv ==
    /\ worker \in [Reindexes -> Reindexing]
    /\ index \subseteq Academy!Chunk /\ IsFiniteSet(index)
    /\ Academy!BestHitStays
    /\ Sharing => IndexInv

\* The rows of an edition are finitely many.
LEMMA FiniteRows ==
    ASSUME NEW e \in Editions \cup {<<>>}, NEW w \in Reindexes \cup {None}
    PROVE  IsFiniteSet(Academy!Chunks(e, w)) /\ Academy!Chunks(e, w) \subseteq Academy!Chunk
<1> DEFINE S == Academy!ToSet(e)
           T == Academy!Chunks(e, w)
           f == [s \in S |-> [slug |-> s, run |-> w]]
<1>1. IsFiniteSet(S)
  <2>1. CASE e \in Editions
    <3>1. e \in Seq(ToSet(e))
      BY <2>1, ServicesAssumption
    <3> QED
      BY <3>1, AcademyToSet, FiniteEntries
  <2>2. CASE e = <<>>
    <3>1. S = {}
      BY <2>2 DEF Academy!ToSet
    <3> QED
      BY <3>1, FS_EmptySet
  <2> QED
    BY <2>1, <2>2
<1>2. f \in Surjection(S, T)
    BY DEF Surjection, Academy!Chunks
<1>3. IsFiniteSet(T)
  <2> HIDE DEF f, S, T
  <2> QED
    BY <1>1, <1>2, FS_Surjection
<1>4. T \subseteq Academy!Chunk
  <2>1. CASE e \in Editions
    BY <2>1, EditionRows
  <2>2. CASE e = <<>>
    BY <2>2 DEF Academy!Chunks, Academy!ToSet
  <2> QED
    BY <2>1, <2>2
<1> QED
    BY <1>3, <1>4

\* Arrangements of some of finitely many things are sequences of them.
LEMMA ArrangementType ==
    ASSUME NEW S, IsFiniteSet(S), NEW s \in Academy!SetToAllKPermutations(S)
    PROVE  s \in Seq(S)
<1>1. PICK T \in SUBSET S : s \in Academy!SetToSeqs(T)
    BY DEF Academy!SetToAllKPermutations
<1>2. IsFiniteSet(T) /\ Cardinality(T) \in Nat
    BY FS_Subset, FS_CardinalityType
<1>3. s \in [1..Cardinality(T) -> T]
    BY <1>1, Zenon DEF Academy!SetToSeqs, Academy!Cardinality, Cardinality
<1> DEFINE n == Cardinality(T)
<1>4. n \in Nat /\ s \in [1..n -> S]
    BY <1>2, <1>3
<1> HIDE DEF n
<1> QED
    BY <1>4

\* A step that leaves the index and the answer alone, but for one run.
LEMMA WorkerMoves ==
    ASSUME AcademyInv, NEW w \in Reindexes, NEW q \in Reindexing,
           worker' = [worker EXCEPT ![w] = q], UNCHANGED answer,
           index' \subseteq Academy!Chunk, IsFiniteSet(index'),
           Sharing => IndexInv'
    PROVE  AcademyInv'
<1>1. worker' \in [Reindexes -> Reindexing]
    BY DEF AcademyInv
<1>2. Academy!BestHitStays'
    BY DEF AcademyInv, Academy!BestHitStays
<1> QED
    BY <1>1, <1>2 DEF AcademyInv, Sharing

LEMMA AcademyInitInv == Academy!Init => AcademyInv
<1> SUFFICES ASSUME Academy!Init PROVE AcademyInv
    OBVIOUS
<1>1. worker \in [Reindexes -> Reindexing]
  <2>1. Academy!Idle \in Reindexing
    BY DEF Academy!Idle, Reindexing
  <2> QED
    BY <2>1 DEF Academy!Init
<1>2. index \subseteq Academy!Chunk /\ IsFiniteSet(index)
  <2>1. index = {} \/ \E e \in Editions : index = Academy!Chunks(e, None)
    BY DEF Academy!Init
  <2> QED
    BY <2>1, FiniteRows, FS_EmptySet
<1>3. Academy!BestHitStays
  <2>1. answer.keyword = <<>>
    BY DEF Academy!Init, Academy!NoAnswer
  <2> QED
    BY <2>1 DEF Academy!BestHitStays
<1> QED
    BY <1>1, <1>2, <1>3, IndexInitInv DEF AcademyInv

\* A search keeps the best hit of what it is based on.
LEMMA SearchKeepsBest ==
    ASSUME AcademyInv, NEW mode \in {"keyword", "semantic", "hybrid"}, Academy!Search(mode)
    PROVE  Academy!BestHitStays'
<1> SUFFICES ASSUME mode = "hybrid", answer'.keyword # <<>>
             PROVE  Academy!BestHitStays'
  <2>1. answer'.mode = mode
    BY SMTT(30) DEF Academy!Search, Academy!NoAnswer
  <2> QED
    BY <2>1 DEF Academy!BestHitStays
<1>1. PICK edition \in Editions, limit \in Limits :
          \E keyword \in Academy!KeywordHits(edition), chunks \in Academy!SemanticHits(limit) :
             answer' = [Academy!NoAnswer EXCEPT
                 !.mode = mode, !.edition = edition, !.keyword = keyword,
                 !.semantic = [i \in DOMAIN chunks |-> chunks[i].slug],
                 !.results = Academy!Results(edition, mode, limit, keyword,
                                             [i \in DOMAIN chunks |-> chunks[i].slug])]
    BY ZenonT(40) DEF Academy!Search
<1>2. PICK keyword \in Academy!KeywordHits(edition), chunks \in Academy!SemanticHits(limit) :
          answer' = [Academy!NoAnswer EXCEPT
              !.mode = mode, !.edition = edition, !.keyword = keyword,
              !.semantic = [i \in DOMAIN chunks |-> chunks[i].slug],
              !.results = Academy!Results(edition, mode, limit, keyword,
                                          [i \in DOMAIN chunks |-> chunks[i].slug])]
    BY <1>1, Zenon
<1> DEFINE semantic == [i \in DOMAIN chunks |-> chunks[i].slug]
           hits == ToSet(edition)
           slugs == {semantic[i] : i \in DOMAIN semantic}
           J == hits \cup slugs
<1>3. keyword \in Seq(hits)
  <2>1. IsFiniteSet(hits)
    <3>1. edition \in Seq(ToSet(edition))
      BY ServicesAssumption
    <3> QED
      BY <3>1, FiniteEntries
  <2>2. keyword \in Academy!SetToAllKPermutations(hits)
    BY AcademyToSet DEF Academy!KeywordHits
  <2> QED
    BY <2>1, <2>2, ArrangementType
<1>4. semantic \in Seq(slugs)
  <2>1. chunks \in Seq(index)
    BY ArrangementType DEF Academy!SemanticHits, AcademyInv
  <2>2. DOMAIN chunks = 1 .. Len(chunks) /\ Len(chunks) \in Nat
    BY <2>1
  <2>3. DOMAIN semantic = 1 .. Len(chunks) /\ \A i \in 1 .. Len(chunks) : semantic[i] \in slugs
    BY <2>2
  <2> DEFINE n == Len(chunks)
  <2>4. semantic \in [1 .. n -> slugs] /\ n \in Nat
    BY <2>2, <2>3
  <2> HIDE DEF n, semantic, slugs
  <2> QED
    BY <2>4
<1> DEFINE found == Academy!Results(edition, mode, limit, keyword, semantic)
<1> HIDE DEF hits, slugs
<1> HIDE DEF found
<1>5. answer' = [Academy!NoAnswer EXCEPT
           !.mode = mode, !.edition = edition, !.keyword = keyword,
           !.semantic = semantic, !.results = found]
    BY <1>2 DEF found
<1> HIDE DEF semantic
<1>6. keyword \in Seq(J) /\ semantic \in Seq(J)
    BY <1>3, <1>4
<1>7. ToSet(keyword) \subseteq hits
    BY <1>3, InToSet
<1> DEFINE results == answer'.results
<1>8. /\ keyword # <<>> /\ limit \in Nat \ {0}
      /\ results = Academy!Results(edition, "hybrid", limit, keyword, semantic)
      /\ answer'.keyword = keyword /\ answer'.semantic = semantic
  <2>1. answer'.keyword = keyword /\ answer'.semantic = semantic /\ results = found
    BY <1>5 DEF Academy!NoAnswer
  <2>2. limit \in Nat \ {0}
    BY ServicesAssumption
  <2> QED
    BY <2>1, <2>2 DEF found
<1> HIDE DEF J, results
<1> DEFINE place == Academy!Rank(keyword[1], results) + 1
           above == IF place = 0 THEN Len(results) ELSE place - 1
<1>9. /\ results # <<>>
      /\ \A i \in 1 .. above : results[i] \in ToSet(keyword) \cap ToSet(semantic)
    BY <1>6, <1>7, <1>8, BestIsKept DEF hits
<1> QED
    BY <1>8, <1>9, AcademyToSet DEF Academy!BestHitStays, results

LEMMA AcademyNextInv == AcademyInv /\ [Academy!Next]_academyVars => AcademyInv'
<1> SUFFICES ASSUME AcademyInv, [Academy!Next]_academyVars PROVE AcademyInv'
    OBVIOUS
<1>1. Sharing => IndexInv'
    BY IndexNextInv DEF AcademyInv
<1>2. /\ \A w \in Reindexes : worker[w] \in Reindexing
      /\ index \subseteq Academy!Chunk /\ IsFiniteSet(index)
    BY DEF AcademyInv
<1>3. \A at \in {"failed", "done"} : [Academy!Idle EXCEPT !.at = at] \in Reindexing
    BY DEF Academy!Idle, Reindexing
<1>4. ASSUME NEW w \in Reindexes, NEW e \in Editions, Academy!ReindexStart(w, e)
      PROVE  AcademyInv'
  <2> DEFINE q == [at |-> "delete", edition |-> e, seen |-> index, gone |-> {}]
  <2>1. q \in Reindexing
    BY <1>2 DEF Reindexing
  <2>2. worker' = [worker EXCEPT ![w] = q] /\ UNCHANGED <<index, answer>>
    BY <1>4 DEF Academy!ReindexStart
  <2> HIDE DEF q
  <2> QED
    BY <1>1, <1>2, <2>1, <2>2, WorkerMoves, Zenon
<1>5. ASSUME NEW w \in Reindexes, Academy!ReindexDelete(w)
      PROVE  AcademyInv'
  <2> DEFINE q == [worker[w] EXCEPT !.at = "embed", !.gone = worker[w].seen \cap index]
  <2>1. q \in Reindexing
    BY <1>2, Zenon DEF Reindexing
  <2>2. worker' = [worker EXCEPT ![w] = q] /\ UNCHANGED <<index, answer>>
    BY <1>5, Zenon DEF Academy!ReindexDelete
  <2> HIDE DEF q
  <2> QED
    BY <1>1, <1>2, <2>1, <2>2, WorkerMoves, Zenon
<1>6. ASSUME NEW w \in Reindexes, Academy!ReindexInsert(w)
      PROVE  AcademyInv'
  <2> DEFINE q == IF Academy!Conflicts(w, Academy!Chunks(worker[w].edition, w))
                  THEN [Academy!Idle EXCEPT !.at = "failed"]
                  ELSE [worker[w] EXCEPT !.at = "inserted"]
  <2>1. q \in Reindexing
    BY <1>2, <1>3 DEF Reindexing
  <2>2. worker' = [worker EXCEPT ![w] = q] /\ UNCHANGED <<index, answer>>
    BY <1>6 DEF Academy!ReindexInsert
  <2> HIDE DEF q
  <2> QED
    BY <1>1, <1>2, <2>1, <2>2, WorkerMoves, Zenon
<1>7. ASSUME NEW w \in Reindexes, Academy!ReindexCommit(w)
      PROVE  AcademyInv'
  <2> DEFINE rows == Academy!Chunks(worker[w].edition, w)
             rest == index \ worker[w].gone
  <2>1. /\ worker' = [worker EXCEPT ![w] = [Academy!Idle EXCEPT !.at = "done"]]
        /\ UNCHANGED answer
        /\ index' = rest \cup rows
    BY <1>7 DEF Academy!ReindexCommit
  <2>2. IsFiniteSet(rows) /\ rows \subseteq Academy!Chunk
    BY <1>2, FiniteRows DEF Reindexing
  <2>3. IsFiniteSet(rest) /\ rest \subseteq Academy!Chunk
    BY <1>2, FS_Subset
  <2> HIDE DEF rows, rest
  <2>4. IsFiniteSet(index') /\ index' \subseteq Academy!Chunk
    BY <2>1, <2>2, <2>3, FS_Union, Zenon
  <2> QED
    BY <1>1, <1>3, <2>1, <2>4, WorkerMoves, Zenon
<1>8. ASSUME NEW w \in Reindexes, Academy!ReindexFails(w)
      PROVE  AcademyInv'
    BY <1>1, <1>2, <1>3, <1>8, WorkerMoves, Zenon DEF Academy!ReindexFails
<1>9. ASSUME UNCHANGED <<index, worker>>, Academy!BestHitStays'
      PROVE  AcademyInv'
    BY <1>1, <1>9, SMTT(30) DEF AcademyInv, Sharing
<1>10. ASSUME NEW mode \in {"keyword", "semantic", "hybrid"}, Academy!Search(mode)
       PROVE  AcademyInv'
    BY <1>9, <1>10, SearchKeepsBest, Zenon DEF Academy!Search
<1>11. ASSUME Academy!Ask
       PROVE  AcademyInv'
  <2>1. answer'.mode = "ask"
    BY <1>11 DEF Academy!Ask, Academy!NoAnswer
  <2>2. Academy!BestHitStays'
    BY <2>1 DEF Academy!BestHitStays
  <2> QED
    BY <1>9, <1>11, <2>2 DEF Academy!Ask
<1>12. CASE UNCHANGED academyVars
  <2>1. UNCHANGED <<index, worker, answer>>
    BY <1>12 DEF academyVars
  <2>2. Academy!BestHitStays'
    BY <2>1 DEF AcademyInv, Academy!BestHitStays
  <2> QED
    BY <1>9, <2>1, <2>2
<1> QED
    BY <1>4, <1>5, <1>6, <1>7, <1>8, <1>10, <1>11, <1>12 DEF Academy!Next

\* Where any two editions share a module, the index is one edition, whole, however many
\* reindex runs overlap and of whichever editions; and the best keyword hit of a hybrid
\* search stays above all that only one search has found.
THEOREM OneEditionServed == Academy!Spec => []AcademyFits
<1>1. AcademyInv => AcademyFits
  <2> SUFFICES ASSUME AcademyInv PROVE AcademyFits
    OBVIOUS
  <2>1. Academy!OneEdition
    <3> SUFFICES ASSUME Sharing
                 PROVE  /\ index = {} \/ \E e \in Editions, w \in Reindexes \cup {None} :
                                            index = Academy!Chunks(e, w)
                        /\ \A x, y \in answer.excerpts : x.run = y.run
      BY DEF Academy!OneEdition, Sharing
    <3> QED
      BY DEF AcademyInv, IndexInv, ReindexInv, Whole
  <2> QED
    BY <2>1 DEF AcademyInv, AcademyFits, Academy!AcademyFits
<1> QED
    BY <1>1, AcademyInitInv, AcademyNextInv, PTL DEF Academy!Spec, Academy!vars, academyVars

-----------------------------------------------------------------------------
(* The backtest engine: days in order                                      *)

UpTo(S, p) == {q \in S : q <= p}

\* The days of a finite set in ascending order: the place of a day is how many there
\* are up to it.
LEMMA AscendingOrder ==
    ASSUME NEW S \in SUBSET Int, IsFiniteSet(S)
    PROVE  /\ Cardinality(S) \in Nat /\ DOMAIN Ascending(S) = 1..Cardinality(S)
           /\ Ascending(S) \in Seq(S) /\ Len(Ascending(S)) = Cardinality(S)
           /\ \A i \in 1..Cardinality(S) :
                 Ascending(S)[i] \in S /\ Cardinality(UpTo(S, Ascending(S)[i])) = i
           /\ \A i, j \in 1..Cardinality(S) : i < j => Ascending(S)[i] < Ascending(S)[j]
           /\ \A p \in S : /\ Cardinality(UpTo(S, p)) \in 1..Cardinality(S)
                           /\ Ascending(S)[Cardinality(UpTo(S, p))] = p
<1> DEFINE R == {e \in S \X S : e[1] < e[2]}
           n == Cardinality(S)
           place(p) == Cardinality(UpTo(S, p))
<1>1. n \in Nat
    BY FS_CardinalityType
<1>2. \A x, y \in S : <<x, y>> \in R <=> x < y
    OBVIOUS
<1>3. /\ \A x \in S : <<x, x>> \notin R
      /\ \A x, y, z \in S : <<x, y>> \in R /\ <<y, z>> \in R => <<x, z>> \in R
      /\ \A x, y \in S : x = y \/ <<x, y>> \in R \/ <<y, x>> \in R
    BY <1>2
<1>4. \A x \in S : Down(S, R, x) = UpTo(S, x)
  <2> HIDE DEF R
  <2> SUFFICES ASSUME NEW x \in S, NEW y \in S PROVE (y = x \/ <<y, x>> \in R) <=> y <= x
    BY Zenon DEF Down, UpTo
  <2>1. x \in Int /\ y \in Int /\ (<<y, x>> \in R <=> y < x)
    BY <1>2
  <2> QED
    BY <2>1
<1> HIDE DEF R
<1>5. /\ \A x \in S : Cardinality(Down(S, R, x)) \in 1..n
      /\ \A i \in 1..n : \E x \in S : Cardinality(Down(S, R, x)) = i
      /\ \A x, y \in S :
            Cardinality(Down(S, R, x)) < Cardinality(Down(S, R, y)) <=> <<x, y>> \in R
    BY <1>3, RankingIsOneToOne, Zenon
<1>6. /\ \A x \in S : place(x) \in 1..n
      /\ \A i \in 1..n : \E x \in S : place(x) = i
      /\ \A x, y \in S : place(x) < place(y) <=> x < y
    BY <1>2, <1>4, <1>5, Zenon
<1>7. Ascending(S) = [i \in 1..n |-> CHOOSE p \in S : place(p) = i]
    BY DEF Ascending, UpTo
<1> HIDE DEF n, place
<1>8. \A i \in 1..n : Ascending(S)[i] \in S /\ place(Ascending(S)[i]) = i
    BY <1>6, <1>7
<1>9. \A x, y \in S : place(x) = place(y) => x = y
  <2> SUFFICES ASSUME NEW x \in S, NEW y \in S, place(x) = place(y) PROVE x = y
    OBVIOUS
  <2>1. ~(place(x) < place(y)) /\ ~(place(y) < place(x))
    BY <1>1, <1>6
  <2>2. ~(x < y) /\ ~(y < x)
    BY <1>6, <2>1
  <2> QED
    BY <2>2
<1>10. \A p \in S : Ascending(S)[place(p)] = p
    BY <1>6, <1>8, <1>9, Zenon
<1>11. \A i, j \in 1..n : i < j => Ascending(S)[i] < Ascending(S)[j]
    BY <1>6, <1>8, Zenon
<1>12. DOMAIN Ascending(S) = 1..n /\ Ascending(S) \in [1..n -> S]
    BY <1>7, <1>8
<1>13. Ascending(S) \in Seq(S) /\ Len(Ascending(S)) = n
    BY <1>1, <1>12
<1> QED
    BY <1>1, <1>6, <1>8, <1>10, <1>11, <1>12, <1>13 DEF n, place

\* The days up to one of them are the first ones.
LEMMA AscendingCut ==
    ASSUME NEW S \in SUBSET Int, IsFiniteSet(S), NEW i \in 1..Cardinality(S),
           NEW T, T = UpTo(S, Ascending(S)[i])
    PROVE  /\ T \in SUBSET Int /\ IsFiniteSet(T) /\ Cardinality(T) = i
           /\ \A j \in 1..i : Ascending(T)[j] = Ascending(S)[j]
<1>1. /\ Ascending(S)[i] \in S /\ Cardinality(UpTo(S, Ascending(S)[i])) = i
      /\ Cardinality(S) \in Nat
    BY AscendingOrder
<1>2. T \subseteq S /\ T \in SUBSET Int /\ IsFiniteSet(T) /\ Cardinality(T) = i
    BY <1>1, FS_Subset, Zenon DEF UpTo
<1>3. ASSUME NEW j \in 1..i PROVE Ascending(T)[j] = Ascending(S)[j]
  <2>1. Ascending(T)[j] \in T /\ Cardinality(UpTo(T, Ascending(T)[j])) = j
    BY <1>2, AscendingOrder, Zenon
  <2> DEFINE p == Ascending(T)[j]
  <2>2. p \in S /\ p <= Ascending(S)[i] /\ Ascending(S)[i] \in Int /\ p \in Int
    BY <1>1, <1>2, <2>1, Zenon DEF UpTo
  <2>3. UpTo(T, p) = UpTo(S, p)
    <3> HIDE DEF p
    <3>1. ASSUME NEW q \in S, q <= p PROVE q <= Ascending(S)[i]
      BY <2>2, <3>1
    <3>2. UpTo(T, p) = {q \in T : q <= p} /\ T = {q \in S : q <= Ascending(S)[i]}
      BY DEF UpTo
    <3> QED
      BY <1>2, <3>1, <3>2, Zenon DEF UpTo
  <2>4. Ascending(S)[Cardinality(UpTo(S, p))] = p
    BY <2>2, AscendingOrder
  <2> QED
    BY <2>1, <2>3, <2>4
<1> QED
    BY <1>2, <1>3

-----------------------------------------------------------------------------
(* A tape cut after a day                                                  *)

Cut(closes, D) == [e \in {f \in DOMAIN closes : f <= D} |-> closes[e]]

\* What a position is worth on a day does not depend on later closes.
LEMMA CutMarks ==
    ASSUME NEW closes, DOMAIN closes \in SUBSET Int, NEW D \in DOMAIN closes,
           NEW d \in DOMAIN closes, d <= D, NEW held
    PROVE  PositionValue(held, Cut(closes, D), d) = PositionValue(held, closes, d)
<1> DEFINE cut == Cut(closes, D)
<1>1. DOMAIN cut = UpTo(DOMAIN closes, D) /\ \A e \in DOMAIN cut : cut[e] = closes[e]
    BY DEF Cut, UpTo
<1> HIDE DEF cut
<1>2. \A e \in DOMAIN closes : e <= d => e \in DOMAIN cut
  <2> SUFFICES ASSUME NEW e \in DOMAIN closes, e <= d PROVE e <= D
    BY <1>1 DEF UpTo
  <2>1. e \in Int /\ d \in Int /\ D \in Int
    OBVIOUS
  <2> QED
    BY <2>1
<1>3. DOMAIN cut \subseteq DOMAIN closes
    BY <1>1 DEF UpTo
<1>4. \A e : {f \in DOMAIN cut : e < f /\ f <= d} = {f \in DOMAIN closes : e < f /\ f <= d}
    BY <1>2, <1>3
<1>5. VolWindow(cut, d) = VolWindow(closes, d)
    BY <1>2, <1>3, <1>4 DEF VolWindow
<1>6. {cut[e] : e \in VolWindow(cut, d)} = {closes[e] : e \in VolWindow(closes, d)}
  <2>1. \A e \in VolWindow(closes, d) : e \in DOMAIN cut
    BY <1>2 DEF VolWindow
  <2>2. \A e \in VolWindow(closes, d) : cut[e] = closes[e]
    BY <1>1, <2>1
  <2> QED
    BY <1>5, <2>2
<1>7. vol_at(cut, d) = vol_at(closes, d)
    BY <1>5, <1>6, Zenon DEF vol_at
<1>8. d \in DOMAIN cut /\ cut[d] = closes[d]
    BY <1>1, <1>2
<1> QED
    BY <1>7, <1>8, Zenon DEF PositionValue, cut

\* The simulated days of a tape, in order, and of a tape cut after one of them.
LEMMA DaysOfTape ==
    ASSUME NEW closes \in Tapes
    PROVE  /\ DOMAIN closes \in SUBSET Int /\ IsFiniteSet(DOMAIN closes)
           /\ SimDays(closes) \in SUBSET Int /\ IsFiniteSet(SimDays(closes))
           /\ SimDays(closes) \subseteq DOMAIN closes
           /\ Start \in Int /\ End \in Int
<1>1. DOMAIN closes \in SUBSET Int /\ IsFiniteSet(DOMAIN closes)
    BY TapesAssumption
<1>2. SimDays(closes) \subseteq DOMAIN closes
    BY DEF SimDays
<1>3. IsFiniteSet(SimDays(closes))
    BY <1>1, <1>2, FS_Subset
<1> QED
    BY <1>1, <1>2, <1>3, TapesAssumption

\* The days of a tape cut after its ith simulated day are its first i.
LEMMA CutDays ==
    ASSUME NEW closes \in Tapes, NEW i \in 1..Len(Ascending(SimDays(closes)))
    PROVE  LET days == Ascending(SimDays(closes))
               cut  == Cut(closes, days[i])
               left == Ascending(SimDays(cut))
           IN  /\ Len(days) \in Nat /\ Len(left) = i
               /\ \A j \in 1..i : left[j] = days[j] /\ days[j] \in DOMAIN closes /\ days[j] <= days[i]
               /\ Min(SimDays(closes)) = days[1] /\ Min(SimDays(cut)) = days[1]
<1> DEFINE S == SimDays(closes)
           days == Ascending(S)
           cut == Cut(closes, days[i])
           T == SimDays(cut)
<1>1. S \in SUBSET Int /\ IsFiniteSet(S) /\ S \subseteq DOMAIN closes
    BY DaysOfTape
<1> HIDE DEF S
<1>2. /\ Cardinality(S) \in Nat /\ Len(days) = Cardinality(S)
      /\ \A j \in 1..Len(days) : days[j] \in S
      /\ \A j, k \in 1..Len(days) : j < k => days[j] < days[k]
      /\ \A p \in S : \E j \in 1..Len(days) : days[j] = p
    BY <1>1, AscendingOrder
<1>3. i \in 1..Cardinality(S)
    BY <1>2 DEF S
<1>4. DOMAIN cut = UpTo(DOMAIN closes, days[i])
    BY DEF Cut, UpTo
<1>5. T = UpTo(S, days[i])
  <2> HIDE DEF cut, days
  <2> QED
    BY <1>4 DEF SimDays, UpTo, S
<1>6. /\ T \in SUBSET Int /\ IsFiniteSet(T) /\ Cardinality(T) = i
      /\ \A j \in 1..i : Ascending(T)[j] = days[j]
  <2> HIDE DEF T
  <2> QED
    BY <1>1, <1>3, <1>5, AscendingCut
<1> HIDE DEF T, days
<1>7. Len(Ascending(T)) = i
    BY <1>6, AscendingOrder
<1>8. \A j \in 1..i : j \in 1..Len(days) /\ days[j] \in S /\ days[j] <= days[i]
  <2> SUFFICES ASSUME NEW j \in 1..i
               PROVE  j \in 1..Len(days) /\ days[j] \in S /\ days[j] <= days[i]
    OBVIOUS
  <2>1. j \in 1..Len(days) /\ i \in 1..Len(days)
    BY <1>2, <1>3
  <2>2. days[j] \in S /\ days[i] \in S /\ days[j] \in Int /\ days[i] \in Int
    BY <1>1, <1>2, <2>1, Zenon
  <2>3. j < i => days[j] < days[i]
    BY <1>2, <2>1
  <2> QED
    BY <2>1, <2>2, <2>3
<1>9. days[1] \in S /\ \A p \in S : days[1] <= p
  <2>1. 1 \in 1..Len(days)
    BY <1>2, <1>3
  <2> SUFFICES ASSUME NEW p \in S PROVE days[1] <= p
    BY <1>2, <2>1
  <2>2. PICK j \in 1..Len(days) : days[j] = p
    BY <1>2
  <2>3. j > 1 => days[1] < days[j]
    BY <1>2, <2>1, <2>2
  <2>4. days[1] \in Int /\ days[j] \in Int
    BY <1>1, <1>2, <2>1, <2>2, Zenon
  <2> QED
    BY <2>2, <2>3, <2>4
<1>10. Min(S) = days[1]
    BY <1>1, <1>9, MinIsLeast, Zenon
<1>11. Min(T) = days[1]
  <2>1. 1 \in 1..i
    BY <1>2, <1>3
  <2>2. days[1] \in T /\ \A p \in T : days[1] <= p
    BY <1>5, <1>8, <1>9, <2>1 DEF UpTo
  <2> QED
    BY <1>6, <2>2, MinIsLeast, Zenon
<1> QED
    BY <1>1, <1>2, <1>6, <1>7, <1>8, <1>10, <1>11 DEF S, T, days

-----------------------------------------------------------------------------
(* A run, day by day                                                       *)

\* The equation of the function that a run is the last value of.
RunStep(config, closes, cost, f, i) ==
    LET days == Ascending(SimDays(closes))
    IN  IF i = 0 THEN [cycle |-> open_cycle(config, closes, cost, days[1]), realized |-> 0,
                       equity |-> << >>, trades |-> << >>, held |-> << >>]
        ELSE EngineDay(f[i - 1], config, closes, cost, days[i])

IsRun(f, config, closes, cost) ==
    f = [i \in 0 .. Len(Ascending(SimDays(closes))) |-> RunStep(config, closes, cost, f, i)]

RunOf(config, closes, cost) == CHOOSE f : IsRun(f, config, closes, cost)

LEMMA RunIsChosen ==
    ASSUME NEW config, NEW closes, NEW cost
    PROVE  run_backtest_engine(config, closes, cost) =
               LET days == Ascending(SimDays(closes))
                   books  == RunOf(config, closes, cost)[Len(days)]
                   last == days[Len(days)]
               IN  IF last < books.cycle.front
                   THEN [books EXCEPT !.trades = Append(@, CyclePnl(books.cycle, closes, cost, last))]
                   ELSE books
BY DEF run_backtest_engine, RunOf, IsRun, RunStep

\* There is such a function.
LEMMA RunExists ==
    ASSUME NEW config, NEW closes, NEW cost, Len(Ascending(SimDays(closes))) \in Nat
    PROVE  IsRun(RunOf(config, closes, cost), config, closes, cost)
<1> DEFINE len == Len(Ascending(SimDays(closes)))
           S(f, i) == RunStep(config, closes, cost, f, i)
           Solves(f, n) == f = [i \in 0..n |-> S(f, i)]
           Solvable(n) == \E f : Solves(f, n)
<1>1. \A f, g : S(f, 0) = S(g, 0)
    BY DEF RunStep
<1>2. ASSUME NEW f, NEW g, NEW i, i # 0, f[i - 1] = g[i - 1] PROVE S(f, i) = S(g, i)
    BY <1>2 DEF RunStep
<1> HIDE DEF S
<1>3. \E f : Solves(f, 0)
  <2> DEFINE g == [i \in 0..0 |-> S(<<>>, i)]
  <2>1. \A i \in 0..0 : S(<<>>, i) = S(g, i)
    BY <1>1
  <2> QED
    BY <2>1
<1>4. ASSUME NEW n \in Nat, NEW f, Solves(f, n)
      PROVE  \E g : Solves(g, n + 1)
  <2> DEFINE g == [i \in 0..(n + 1) |-> S(f, i)]
  <2>1. \A i \in 0..n : g[i] = f[i]
    BY <1>4
  <2>2. \A i \in 0..(n + 1) : S(f, i) = S(g, i)
    <3> HIDE DEF g
    <3> SUFFICES ASSUME NEW i \in 0..(n + 1) PROVE S(f, i) = S(g, i)
      OBVIOUS
    <3>1. CASE i = 0
      BY <1>1, <3>1, Zenon
    <3>2. CASE i # 0
      <4>1. i - 1 \in 0..n
        BY <1>4, <3>2
      <4>2. f[i - 1] = g[i - 1]
        BY <2>1, <4>1
      <4> QED
        BY <1>2, <3>2, <4>2, Zenon
    <3> QED
      BY <3>1, <3>2
  <2> QED
    BY <2>2, Zenon
<1>5. Solvable(0) /\ \A n \in Nat : Solvable(n) => Solvable(n + 1)
    BY <1>3, <1>4
<1> HIDE DEF Solvable
<1> DEFINE N == {n \in Nat : Solvable(n)}
<1>6. N \in SUBSET Nat /\ 0 \in N /\ \A n \in N : n + 1 \in N
    BY <1>5
<1> HIDE DEF N
<1>7. N = Nat
    BY <1>6, Induction, Zenon
<1>8. Solvable(len)
    BY <1>7 DEF N
<1>9. \E f : IsRun(f, config, closes, cost)
    BY <1>8 DEF Solvable, IsRun, S
<1> QED
    BY <1>9 DEF RunOf

\* What a day adds to the equity.
DayEquity(books, config, closes, cost, d) ==
    LET rolled == IF d >= books.cycle.front THEN Rolled(books, config, closes, cost, d) ELSE books
    IN  Capital + rolled.realized
            + (PositionValue(rolled.cycle.legs, closes, d) - rolled.cycle.entry - rolled.cycle.cost)

BooksFields == {"cycle", "realized", "equity", "trades", "held"}

\* A day keeps the fields, and appends to the equity.
LEMMA DayFields ==
    ASSUME NEW books, DOMAIN books = BooksFields, NEW config, NEW closes, NEW cost, NEW d
    PROVE  LET next == EngineDay(books, config, closes, cost, d)
           IN  /\ DOMAIN next = BooksFields
               /\ next.equity = Append(books.equity, DayEquity(books, config, closes, cost, d))
<1> DEFINE rolled == IF d >= books.cycle.front THEN Rolled(books, config, closes, cost, d) ELSE books
           next == EngineDay(books, config, closes, cost, d)
<1>1. DOMAIN rolled = BooksFields /\ rolled.equity = books.equity
    BY DEF Rolled, BooksFields
<1>2. next = [rolled EXCEPT !.equity = Append(@, DayEquity(books, config, closes, cost, d)),
                         !.held = Append(@, rolled.cycle.legs)]
    BY DEF EngineDay, DayEquity
<1> HIDE DEF rolled, next
<1> QED
    BY <1>1, <1>2 DEF BooksFields, next

\* The curve grows by a value a day: its first j values are the curve of day j.
LEMMA CurveGrows ==
    ASSUME NEW config, NEW closes, NEW cost, Len(Ascending(SimDays(closes))) \in Nat
    PROVE  LET n == Len(Ascending(SimDays(closes)))
               f == RunOf(config, closes, cost)
           IN  /\ \A j \in 0..n : DOMAIN f[j] = BooksFields
               /\ \A j \in 1..n : SubSeq(f[n].equity, 1, j) = f[j].equity
<1> DEFINE days == Ascending(SimDays(closes))
           n == Len(days)
           f == RunOf(config, closes, cost)
           E == {DayEquity(f[j - 1], config, closes, cost, days[j]) : j \in 1..n}
           Fits(j) == DOMAIN f[j] = BooksFields /\ f[j].equity \in Seq(E) /\ Len(f[j].equity) = j
           M == {j \in Nat : j <= n => Fits(j)}
<1>1. n \in Nat
    OBVIOUS
<1>2. \A j \in 0..n : f[j] = RunStep(config, closes, cost, f, j)
  <2>1. IsRun(f, config, closes, cost)
    BY RunExists
  <2> HIDE DEF f
  <2> QED
    BY <2>1 DEF IsRun
<1>3. 0 \in 0..n /\ f[0] = [cycle |-> open_cycle(config, closes, cost, days[1]), realized |-> 0,
                            equity |-> << >>, trades |-> << >>, held |-> << >>]
  <2>1. 0 \in 0..n
    BY <1>1
  <2> HIDE DEF n, f
  <2> QED
    BY <1>2, <2>1 DEF RunStep
<1>4. \A j \in 0..n : j # 0 => f[j] = EngineDay(f[j - 1], config, closes, cost, days[j])
  <2> HIDE DEF n, f
  <2> QED
    BY <1>2 DEF RunStep
<1>5. \A j \in 1..n : DayEquity(f[j - 1], config, closes, cost, days[j]) \in E
    OBVIOUS
<1> HIDE DEF n, f, E, days
<1>6. Fits(0)
  <2>1. DOMAIN f[0] = BooksFields /\ f[0].equity = <<>>
    BY <1>3 DEF BooksFields
  <2> QED
    BY <2>1
<1>7. ASSUME NEW j \in 1..n, Fits(j - 1)
      PROVE  /\ Fits(j)
             /\ f[j].equity = Append(f[j - 1].equity, DayEquity(f[j - 1], config, closes, cost, days[j]))
  <2>1. j \in 0..n /\ j # 0
    BY <1>1
  <2>2. /\ DOMAIN f[j] = BooksFields
        /\ f[j].equity = Append(f[j - 1].equity, DayEquity(f[j - 1], config, closes, cost, days[j]))
    BY <1>4, <1>7, <2>1, DayFields, SMTT(30)
  <2> DEFINE x == DayEquity(f[j - 1], config, closes, cost, days[j])
             s == f[j - 1].equity
  <2>3. s \in Seq(E) /\ Len(s) = j - 1 /\ x \in E
    BY <1>5, <1>7
  <2> HIDE DEF s, x
  <2>4. Append(s, x) \in Seq(E) /\ Len(Append(s, x)) = j
    BY <2>1, <2>3
  <2> QED
    BY <2>2, <2>4 DEF s, x
<1>8. M \in SUBSET Nat /\ 0 \in M /\ \A j \in M : j + 1 \in M
  <2> SUFFICES ASSUME NEW j \in M PROVE j + 1 \in M
    BY <1>6
  <2> SUFFICES ASSUME j + 1 <= n PROVE Fits(j + 1)
    OBVIOUS
  <2>1. j + 1 \in 1..n /\ (j + 1) - 1 = j /\ Fits(j)
    BY <1>1
  <2> QED
    BY <1>7, <2>1
<1>9. \A j \in 0..n : Fits(j)
  <2> HIDE DEF M, Fits
  <2>1. M = Nat
    BY <1>8, Induction, Zenon
  <2> QED
    BY <1>1, <2>1 DEF M
<1>10. \A j \in 1..n : f[j].equity = Append(f[j - 1].equity,
                                            DayEquity(f[j - 1], config, closes, cost, days[j]))
  <2>1. \A j \in 1..n : j - 1 \in 0..n
    BY <1>1
  <2> HIDE DEF Fits
  <2> QED
    BY <1>7, <1>9, <2>1
<1>11. ASSUME NEW j \in 1..n PROVE SubSeq(f[n].equity, 1, j) = f[j].equity
  <2> DEFINE Starts(k) == SubSeq(f[k].equity, 1, j) = f[j].equity
             K == {d \in Nat : j + d <= n => Starts(j + d)}
  <2>1. Starts(j)
    <3>1. f[j].equity \in Seq(E) /\ Len(f[j].equity) = j
      BY <1>1, <1>9
    <3> QED
      BY <3>1
  <2>2. ASSUME NEW d \in K, j + (d + 1) <= n PROVE Starts(j + (d + 1))
    <3>1. j + (d + 1) \in 1..n /\ j + d \in 0..n /\ (j + (d + 1)) - 1 = j + d
      BY <1>1, <2>2
    <3> DEFINE s == f[j + d].equity
               x == DayEquity(f[j + d], config, closes, cost, days[j + (d + 1)])
    <3>2. f[j + (d + 1)].equity = Append(s, x)
      BY <1>10, <3>1
    <3>3. x \in E
      BY <1>5, <3>1
    <3>4. s \in Seq(E) /\ Len(s) = j + d /\ SubSeq(s, 1, j) = f[j].equity
      <4>1. Fits(j + d)
        BY <1>9, <3>1, Zenon
      <4>2. j + d <= n /\ Starts(j + d)
        BY <1>1, <2>2, <3>1
      <4> QED
        BY <4>1, <4>2
    <3> HIDE DEF s, x
    <3>5. SubSeq(Append(s, x), 1, j) = SubSeq(s, 1, j)
      BY <1>1, <3>3, <3>4
    <3> QED
      BY <3>2, <3>4, <3>5
  <2> HIDE DEF Starts
  <2>3. K \in SUBSET Nat /\ 0 \in K /\ \A d \in K : d + 1 \in K
    BY <2>1, <2>2
  <2> HIDE DEF K
  <2>4. K = Nat
    BY <2>3, Induction, Zenon
  <2>5. n - j \in K /\ j + (n - j) = n /\ n <= n
    BY <1>1, <2>4
  <2> QED
    BY <2>5 DEF K, Starts
<1> HIDE DEF Fits
<1>12. \A j \in 0..n : DOMAIN f[j] = BooksFields
    BY <1>9 DEF Fits
<1> QED
    BY <1>11, <1>12 DEF n, f, days

\* A run over the cut tape goes as the run over the whole one does, up to the cut.
LEMMA CutRun ==
    ASSUME NEW config, NEW closes \in Tapes, NEW cost,
           NEW i \in 1..Len(Ascending(SimDays(closes)))
    PROVE  LET cut == Cut(closes, Ascending(SimDays(closes))[i])
           IN  RunOf(config, cut, cost)[i] = RunOf(config, closes, cost)[i]
<1> DEFINE days == Ascending(SimDays(closes))
           D == days[i]
           cut == Cut(closes, D)
           left == Ascending(SimDays(cut))
           f == RunOf(config, closes, cost)
           g == RunOf(config, cut, cost)
<1>1. /\ Len(days) \in Nat /\ Len(left) = i
      /\ \A j \in 1..i : left[j] = days[j] /\ days[j] \in DOMAIN closes /\ days[j] <= D
      /\ Min(SimDays(closes)) = days[1] /\ Min(SimDays(cut)) = days[1]
    BY CutDays
<1>2. i \in Nat /\ 1 \in 1..i /\ i \in 1..i
    BY <1>1
<1>3. /\ \A j \in 0..Len(days) : f[j] = RunStep(config, closes, cost, f, j)
      /\ \A j \in 0..i : g[j] = RunStep(config, cut, cost, g, j)
  <2>1. IsRun(f, config, closes, cost) /\ IsRun(g, config, cut, cost)
    BY <1>1, <1>2, RunExists
  <2> HIDE DEF f, g
  <2> QED
    BY <1>1, <2>1, Zenon DEF IsRun
<1>4. DOMAIN closes \in SUBSET Int
    BY DaysOfTape
<1> HIDE DEF D
<1>5. \A j \in 1..i : \A held : PositionValue(held, cut, days[j]) = PositionValue(held, closes, days[j])
  <2> HIDE DEF days
  <2> SUFFICES ASSUME NEW j \in 1..i, NEW held
               PROVE  PositionValue(held, cut, days[j]) = PositionValue(held, closes, days[j])
    OBVIOUS
  <2> QED
    BY <1>1, <1>2, <1>4, CutMarks DEF D
<1>6. \A j \in 1..i : cut[days[j]] = closes[days[j]]
  <2> HIDE DEF days
  <2> QED
    BY <1>1 DEF Cut
<1> HIDE DEF days, cut, left, f, g
<1>7. \A j \in 1..i : open_cycle(config, cut, cost, days[j]) = open_cycle(config, closes, cost, days[j])
  <2> SUFFICES ASSUME NEW j \in 1..i
               PROVE  open_cycle(config, cut, cost, days[j]) = open_cycle(config, closes, cost, days[j])
    OBVIOUS
  <2>1. /\ cut[Min(SimDays(cut))] = closes[Min(SimDays(closes))]
        /\ cut[days[j]] = closes[days[j]]
    BY <1>1, <1>2, <1>6 DEF days, cut, D
  <2>2. \A held : PositionValue(held, cut, days[j]) = PositionValue(held, closes, days[j])
    BY <1>5
  <2> QED
    BY <2>1, <2>2, Zenon DEF open_cycle
<1>8. \A j \in 1..i : \A books :
         EngineDay(books, config, cut, cost, days[j]) = EngineDay(books, config, closes, cost, days[j])
  <2> SUFFICES ASSUME NEW j \in 1..i, NEW books
               PROVE  EngineDay(books, config, cut, cost, days[j])
                          = EngineDay(books, config, closes, cost, days[j])
    OBVIOUS
  <2>1. /\ open_cycle(config, cut, cost, days[j]) = open_cycle(config, closes, cost, days[j])
        /\ \A held : PositionValue(held, cut, days[j]) = PositionValue(held, closes, days[j])
    BY <1>5, <1>7, Zenon
  <2>2. CyclePnl(books.cycle, cut, cost, days[j]) = CyclePnl(books.cycle, closes, cost, days[j])
    BY <2>1, Zenon DEF CyclePnl
  <2>3. Rolled(books, config, cut, cost, days[j]) = Rolled(books, config, closes, cost, days[j])
    BY <2>1, <2>2, Zenon DEF Rolled
  <2> DEFINE rolled == IF days[j] >= books.cycle.front THEN Rolled(books, config, closes, cost, days[j])
                    ELSE books
             was == IF days[j] >= books.cycle.front THEN Rolled(books, config, cut, cost, days[j])
                    ELSE books
             next(at, tape) ==
                 [at EXCEPT !.equity = Append(@, Capital + at.realized
                                + (PositionValue(at.cycle.legs, tape, days[j])
                                       - at.cycle.entry - at.cycle.cost)),
                            !.held = Append(@, at.cycle.legs)]
  <2>4. was = rolled
    BY <2>3
  <2>5. /\ EngineDay(books, config, closes, cost, days[j]) = next(rolled, closes)
        /\ EngineDay(books, config, cut, cost, days[j]) = next(was, cut)
    BY DEF EngineDay
  <2> HIDE DEF rolled, was
  <2>6. next(rolled, cut) = next(rolled, closes)
    BY <2>1, Zenon
  <2> QED
    BY <2>4, <2>5, <2>6, Zenon
<1>9. i <= Len(days) /\ days[1] = left[1]
    BY <1>1, <1>2 DEF days
<1>10. g[0] = f[0]
  <2>1. 0 \in 0..i /\ 0 \in 0..Len(days)
    BY <1>1, <1>2
  <2>2. g[0] = RunStep(config, cut, cost, g, 0) /\ f[0] = RunStep(config, closes, cost, f, 0)
    BY <1>3, <2>1
  <2>3. open_cycle(config, cut, cost, left[1]) = open_cycle(config, closes, cost, days[1])
    BY <1>2, <1>7, <1>9
  <2> QED
    BY <2>2, <2>3, Zenon DEF RunStep, days, left
<1>11. ASSUME NEW j \in 1..i, g[j - 1] = f[j - 1] PROVE g[j] = f[j]
  <2>1. j \in 0..i /\ j \in 0..Len(days) /\ j # 0
    BY <1>1, <1>2, <1>9
  <2>2. g[j] = RunStep(config, cut, cost, g, j) /\ f[j] = RunStep(config, closes, cost, f, j)
    BY <1>3, <2>1
  <2>3. /\ g[j] = EngineDay(g[j - 1], config, cut, cost, left[j])
        /\ f[j] = EngineDay(f[j - 1], config, closes, cost, days[j])
    BY <2>1, <2>2, Zenon DEF RunStep, days, left
  <2> QED
    BY <1>1, <1>8, <1>11, <2>3, Zenon
<1> DEFINE M == {j \in Nat : j <= i => g[j] = f[j]}
<1>12. M \in SUBSET Nat /\ 0 \in M /\ \A j \in M : j + 1 \in M
  <2> SUFFICES ASSUME NEW j \in M, j + 1 <= i PROVE g[j + 1] = f[j + 1]
    BY <1>10
  <2>1. j + 1 \in 1..i /\ (j + 1) - 1 = j /\ g[j] = f[j]
    BY <1>2
  <2> QED
    BY <1>11, <2>1
<1>13. g[i] = f[i]
  <2> HIDE DEF M
  <2>1. M = Nat
    BY <1>12, Induction, Zenon
  <2> QED
    BY <1>2, <2>1 DEF M
<1> QED
    BY <1>13 DEF f, g, cut, D, days

\* However the tape goes on, the curve up to a day is that of the tape cut there.
LEMMA CutCurve ==
    ASSUME NEW config, NEW closes \in Tapes, NEW cost,
           NEW i \in 1..Len(Ascending(SimDays(closes)))
    PROVE  run_backtest_engine(config, Cut(closes, Ascending(SimDays(closes))[i]), cost).equity
               = SubSeq(run_backtest_engine(config, closes, cost).equity, 1, i)
<1> DEFINE days == Ascending(SimDays(closes))
           n == Len(days)
           cut == Cut(closes, days[i])
           left == Ascending(SimDays(cut))
           f == RunOf(config, closes, cost)
           g == RunOf(config, cut, cost)
<1>1. n \in Nat /\ Len(left) = i
    BY CutDays
<1>2. i \in Nat /\ i \in 0..i /\ n \in 0..n /\ i \in 1..n
    BY <1>1
<1>3. g[i] = f[i]
    BY CutRun
<1>4. DOMAIN f[n] = BooksFields /\ SubSeq(f[n].equity, 1, i) = f[i].equity
  <2> HIDE DEF f
  <2> QED
    BY <1>1, <1>2, CurveGrows DEF f
<1>5. DOMAIN g[i] = BooksFields
  <2>1. Len(left) \in Nat
    BY <1>1, <1>2
  <2> HIDE DEF cut
  <2> QED
    BY <1>1, <1>2, <2>1, CurveGrows
<1>6. /\ run_backtest_engine(config, closes, cost).equity = f[n].equity
      /\ run_backtest_engine(config, cut, cost).equity = g[i].equity
  <2> DEFINE u == run_backtest_engine(config, closes, cost)
             v == run_backtest_engine(config, cut, cost)
             x == f[n]
             y == g[i]
  <2>1. /\ u = x \/ u = [x EXCEPT !.trades = Append(@, CyclePnl(x.cycle, closes, cost, days[n]))]
        /\ v = y \/ v = [y EXCEPT !.trades = Append(@, CyclePnl(y.cycle, cut, cost, left[i]))]
    BY <1>1, RunIsChosen, Zenon
  <2> HIDE DEF u, v, x, y
  <2>2. DOMAIN x = BooksFields /\ DOMAIN y = BooksFields
    BY <1>4, <1>5 DEF x, y
  <2>3. u.equity = x.equity /\ v.equity = y.equity
    BY <2>1, <2>2 DEF BooksFields
  <2> QED
    BY <2>3 DEF u, v, x, y
<1> QED
    BY <1>3, <1>4, <1>6

-----------------------------------------------------------------------------
(* The builder's legs                                                      *)

\* A leg as a template has it.
BareLeg == [kind : {"option", "equity", "cash"}, call : BOOLEAN, sign : {-1, 1},
            strike : Int, qty : Nat]

\* A leg of a template: an option's strike is above zero.
TemplateLeg == {leg \in BareLeg : leg.kind = "option" => leg.strike \in Nat \ {0}}

\* The legs the templates are made of.
LEMMA LegTypes ==
    /\ \A steps \in -2..2 : /\ BuyCall(steps) \in TemplateLeg /\ SellCall(steps) \in TemplateLeg
                            /\ BuyPut(steps) \in TemplateLeg /\ SellPut(steps) \in TemplateLeg
                            /\ Twice(SellCall(steps)) \in TemplateLeg
                            /\ Twice(SellPut(steps)) \in TemplateLeg
    /\ Shares \in TemplateLeg /\ Cash \in TemplateLeg
<1>1. ASSUME NEW steps \in -2..2 PROVE Atm + steps * Width \in Nat \ {0}
  <2>1. Atm \in Nat /\ Width \in Nat /\ Atm > 2 * Width
    BY BuilderAssumption
  <2>2. steps \in {-2, -1, 0, 1, 2}
    OBVIOUS
  <2> QED
    BY <2>1, <2>2
<1>2. Shares \in TemplateLeg /\ Cash \in TemplateLeg
    BY DEF Shares, Cash, BareLeg, TemplateLeg
<1>3. \A call \in BOOLEAN, sign \in {-1, 1}, qty \in Nat, steps \in -2..2 :
         Option(call, sign, steps, qty) \in TemplateLeg
    BY <1>1 DEF Option, BareLeg, TemplateLeg
<1>4. \A leg \in TemplateLeg : Twice(leg) \in TemplateLeg
    BY DEF Twice, BareLeg, TemplateLeg
<1> HIDE DEF TemplateLeg
<1>5. ASSUME NEW steps \in -2..2
      PROVE  /\ BuyCall(steps) \in TemplateLeg /\ SellCall(steps) \in TemplateLeg
             /\ BuyPut(steps) \in TemplateLeg /\ SellPut(steps) \in TemplateLeg
  <2>1. -1 \in {-1, 1} /\ 1 \in {-1, 1} /\ 1 \in Nat
    OBVIOUS
  <2> QED
    BY <1>3, <2>1, Zenon DEF BuyCall, SellCall, BuyPut, SellPut
<1> QED
    BY <1>2, <1>4, <1>5

\* The templates and their legs.
LEMMA RegistryLegs ==
    /\ Registry.bull_call_spread.legs = <<BuyCall(0), SellCall(1)>>
    /\ Registry.bear_put_spread.legs = <<BuyPut(0), SellPut(-1)>>
    /\ Registry.long_straddle.legs = <<BuyCall(0), BuyPut(0)>>
    /\ Registry.long_strangle.legs = <<BuyCall(1), BuyPut(-1)>>
    /\ Registry.iron_condor.legs = <<BuyPut(-2), SellPut(-1), SellCall(1), BuyCall(2)>>
    /\ Registry.iron_butterfly.legs = <<BuyPut(-1), SellPut(0), SellCall(0), BuyCall(1)>>
    /\ Registry.covered_call.legs = <<Shares, SellCall(1)>>
    /\ Registry.cash_secured_put.legs = <<SellPut(0), Cash>>
    /\ Registry.long_calendar.legs = <<SellCall(0), BuyCall(0)>>
    /\ Registry.bull_put_spread.legs = <<SellPut(0), BuyPut(-1)>>
    /\ Registry.bear_call_spread.legs = <<SellCall(0), BuyCall(1)>>
    /\ Registry.short_straddle.legs = <<SellCall(0), SellPut(0)>>
    /\ Registry.short_strangle.legs = <<SellCall(1), SellPut(-1)>>
    /\ Registry.protective_put.legs = <<Shares, BuyPut(-1)>>
    /\ Registry.collar.legs = <<Shares, BuyPut(-1), SellCall(1)>>
    /\ Registry.call_ratio_spread.legs = <<BuyCall(0), Twice(SellCall(1))>>
    /\ Registry.put_ratio_spread.legs = <<BuyPut(0), Twice(SellPut(-1))>>
    /\ Registry.jade_lizard.legs = <<SellPut(-1), SellCall(1), BuyCall(2)>>
    /\ Registry.call_butterfly.legs = <<BuyCall(-1), Twice(SellCall(0)), BuyCall(1)>>
    /\ Registry.put_butterfly.legs = <<BuyPut(1), Twice(SellPut(0)), BuyPut(-1)>>
    /\ Registry.broken_wing_butterfly.legs = <<BuyCall(-1), Twice(SellCall(0)), BuyCall(2)>>
    /\ Templates = {"bull_call_spread", "bear_put_spread", "long_straddle", "long_strangle",
                     "iron_condor", "iron_butterfly", "covered_call", "cash_secured_put",
                     "long_calendar", "bull_put_spread", "bear_call_spread", "short_straddle",
                     "short_strangle", "protective_put", "collar", "call_ratio_spread",
                     "put_ratio_spread", "jade_lizard", "call_butterfly", "put_butterfly",
                     "broken_wing_butterfly"}
BY Zenon DEF Registry, Tagged, Templates

\* Every template has well-formed legs, one of them an option.
LEMMA RegistryTypes ==
    ASSUME NEW key \in Templates
    PROVE  /\ Registry[key].legs \in Seq(TemplateLeg) /\ Registry[key].legs \in Seq(BareLeg)
           /\ \E i \in DOMAIN Registry[key].legs : Registry[key].legs[i].kind = "option"
<1>1. {-2, -1, 0, 1, 2} \subseteq -2..2
    OBVIOUS
<1> HIDE DEF TemplateLeg
<1>2. {BuyCall(-1), BuyCall(0), BuyCall(1), BuyCall(2), BuyPut(-1),
        BuyPut(-2), BuyPut(0), BuyPut(1), Cash, SellCall(0),
        SellCall(1), SellPut(-1), SellPut(0), Shares, Twice(SellCall(0)),
        Twice(SellCall(1)), Twice(SellPut(-1)), Twice(SellPut(0))}
          \subseteq TemplateLeg
    BY <1>1, LegTypes
<1>3. \A steps \in {-2, -1, 0, 1, 2} :
         /\ BuyCall(steps).kind = "option" /\ SellCall(steps).kind = "option"
         /\ BuyPut(steps).kind = "option" /\ SellPut(steps).kind = "option"
    BY DEF BuyCall, SellCall, BuyPut, SellPut, Option
<1> DEFINE Fits(l) == l \in Seq(TemplateLeg) /\ \E i \in DOMAIN l : l[i].kind = "option"
<1>4. /\ \A a, b \in TemplateLeg : a.kind = "option" \/ b.kind = "option" => Fits(<<a, b>>)
      /\ \A a, b, c \in TemplateLeg : a.kind = "option" \/ b.kind = "option" => Fits(<<a, b, c>>)
      /\ \A a, b, c, d \in TemplateLeg : a.kind = "option" => Fits(<<a, b, c, d>>)
  <2>1. ASSUME NEW a \in TemplateLeg, NEW b \in TemplateLeg, a.kind = "option" \/ b.kind = "option"
        PROVE  Fits(<<a, b>>)
    <3>1. /\ <<a, b>> \in Seq(TemplateLeg) /\ 1 \in DOMAIN <<a, b>> /\ 2 \in DOMAIN <<a, b>>
          /\ <<a, b>>[1] = a /\ <<a, b>>[2] = b
      OBVIOUS
    <3> QED
      BY <2>1, <3>1
  <2>2. ASSUME NEW a \in TemplateLeg, NEW b \in TemplateLeg, NEW c \in TemplateLeg,
               a.kind = "option" \/ b.kind = "option"
        PROVE  Fits(<<a, b, c>>)
    <3>1. /\ <<a, b, c>> \in Seq(TemplateLeg)
          /\ 1 \in DOMAIN <<a, b, c>> /\ 2 \in DOMAIN <<a, b, c>>
          /\ <<a, b, c>>[1] = a /\ <<a, b, c>>[2] = b
      OBVIOUS
    <3> QED
      BY <2>2, <3>1
  <2>3. ASSUME NEW a \in TemplateLeg, NEW b \in TemplateLeg, NEW c \in TemplateLeg,
               NEW d \in TemplateLeg, a.kind = "option"
        PROVE  Fits(<<a, b, c, d>>)
    <3>1. /\ <<a, b, c, d>> \in Seq(TemplateLeg) /\ 1 \in DOMAIN <<a, b, c, d>>
          /\ <<a, b, c, d>>[1] = a
      OBVIOUS
    <3> QED
      BY <2>3, <3>1
  <2> HIDE DEF Fits
  <2> QED
    BY <2>1, <2>2, <2>3
<1> HIDE DEF Fits
<1>5. /\ Fits(<<BuyCall(0), SellCall(1)>>)
      /\ Fits(<<BuyPut(0), SellPut(-1)>>)
      /\ Fits(<<BuyCall(0), BuyPut(0)>>)
      /\ Fits(<<BuyCall(1), BuyPut(-1)>>)
      /\ Fits(<<BuyPut(-2), SellPut(-1), SellCall(1), BuyCall(2)>>)
      /\ Fits(<<BuyPut(-1), SellPut(0), SellCall(0), BuyCall(1)>>)
      /\ Fits(<<Shares, SellCall(1)>>)
      /\ Fits(<<SellPut(0), Cash>>)
      /\ Fits(<<SellCall(0), BuyCall(0)>>)
      /\ Fits(<<SellPut(0), BuyPut(-1)>>)
      /\ Fits(<<SellCall(0), BuyCall(1)>>)
      /\ Fits(<<SellCall(0), SellPut(0)>>)
      /\ Fits(<<SellCall(1), SellPut(-1)>>)
      /\ Fits(<<Shares, BuyPut(-1)>>)
      /\ Fits(<<Shares, BuyPut(-1), SellCall(1)>>)
      /\ Fits(<<BuyCall(0), Twice(SellCall(1))>>)
      /\ Fits(<<BuyPut(0), Twice(SellPut(-1))>>)
      /\ Fits(<<SellPut(-1), SellCall(1), BuyCall(2)>>)
      /\ Fits(<<BuyCall(-1), Twice(SellCall(0)), BuyCall(1)>>)
      /\ Fits(<<BuyPut(1), Twice(SellPut(0)), BuyPut(-1)>>)
      /\ Fits(<<BuyCall(-1), Twice(SellCall(0)), BuyCall(2)>>)
    BY <1>2, <1>3, <1>4, Zenon
<1>6. Fits(Registry[key].legs)
    BY <1>5, RegistryLegs, ZenonT(40)
<1>7. Seq(TemplateLeg) \subseteq Seq(BareLeg)
    BY DEF TemplateLeg
<1> QED
    BY <1>6, <1>7 DEF Fits

\* What the builder has: a leg without an entry price is as in its template.
LegsFit ==
    /\ IsFiniteSet(DOMAIN legs)
    /\ \A i \in DOMAIN legs : "entry" \in DOMAIN legs[i] \/ legs[i] \in BareLeg

LEMMA BuilderKeepsLegs ==
    /\ Init => LegsFit
    /\ LegsFit /\ [Next]_vars => LegsFit'
<1>1. ASSUME NEW s \in Seq(BareLeg), legs' = s PROVE LegsFit'
  <2>1. DOMAIN s = 1..Len(s) /\ Len(s) \in Nat /\ \A i \in DOMAIN s : s[i] \in BareLeg
    OBVIOUS
  <2>2. IsFiniteSet(1..Len(s))
    BY <2>1, FS_Interval
  <2> QED
    BY <1>1, <2>1, <2>2 DEF LegsFit
<1>2. Init => LegsFit
  <2>1. DOMAIN << >> = {}
    OBVIOUS
  <2> QED
    BY <2>1, FS_EmptySet DEF Init, LegsFit
<1>3. ASSUME LegsFit, NEW i \in DOMAIN legs, NEW entry, PriceLeg(i, entry) PROVE LegsFit'
  <2>1. legs' = [legs EXCEPT ![i] = With(legs[i], "entry", entry)]
    BY <1>3 DEF PriceLeg
  <2>2. "entry" \in DOMAIN With(legs[i], "entry", entry)
    BY DEF With
  <2>3. /\ DOMAIN legs' = DOMAIN legs
        /\ legs'[i] = With(legs[i], "entry", entry)
        /\ \A j \in DOMAIN legs : j # i => legs'[j] = legs[j]
    BY <2>1
  <2> QED
    BY <1>3, <2>2, <2>3 DEF LegsFit
<1>4. ASSUME LegsFit, UNCHANGED legs PROVE LegsFit'
    BY <1>4 DEF LegsFit
<1>5. ASSUME NEW key \in Templates, Build(key) PROVE LegsFit'
    BY <1>1, <1>5, RegistryTypes DEF Build
<1> QED
  <2> SUFFICES ASSUME LegsFit, [Next]_vars PROVE LegsFit'
    BY <1>2
  <2> QED
    BY <1>3, <1>4, <1>5 DEF Next, vars, Analyze, Recommend

-----------------------------------------------------------------------------
(* Averages of a tape                                                      *)

\* The last days of a series that only rises: its average is below its last value, the
\* average of a longer stretch is below that of a shorter, and both are above the past.
LEMMA RisingAverages ==
    ASSUME NEW f, NEW n \in Nat, NEW short \in Nat \ {0}, NEW long \in Nat,
           short < long, 2 * short <= n, long <= n,
           \A i \in 1..n : f[i] \in Int,
           \A i, j \in 1..n : i < j => f[i] < f[j]
    PROVE  LET fresh == SumOver(f, n - short + 1 .. n)
               past == SumOver(f, n - 2 * short + 1 .. n - short)
               all == SumOver(f, n - long + 1 .. n)
           IN  /\ fresh \in Int /\ past \in Int /\ all \in Int /\ f[n] \in Int
               /\ fresh <= f[n] * short /\ all < f[n] * long
               /\ all * short < fresh * long /\ past < fresh
<1> DEFINE N == n - short + 1 .. n
           P == n - 2 * short + 1 .. n - short
           R == n - long + 1 .. n - short
           rest == long - short
           first == n - short + 1
           c == f[n - short + 1]
           t == f[n]
           fresh == SumOver(f, N)
           past == SumOver(f, P)
           left == SumOver(f, R)
           flip == [i \in 1..n |-> f[i] * (-1)]
<1>1. /\ first \in 1..n /\ n \in 1..n /\ rest \in Nat \ {0}
      /\ N \subseteq 1..n /\ P \subseteq 1..n /\ R \subseteq 1..n
      /\ \A i \in N : i = first \/ first < i
      /\ \A i \in N : i = n \/ i < n
      /\ \A i \in P \cup R : i < first /\ i < n
      /\ n - long + 1 .. n = R \cup N /\ R \cap N = {}
      /\ R # {} /\ P # {}
  <2>1. n - short \in P /\ n - short \in R
    OBVIOUS
  <2> QED
    BY <2>1
<1>2. /\ IsFiniteSet(N) /\ Cardinality(N) = short
      /\ IsFiniteSet(P) /\ Cardinality(P) = short
      /\ IsFiniteSet(R) /\ Cardinality(R) = rest
  <2>1. \A a, b \in Int : /\ IsFiniteSet(a..b)
                          /\ Cardinality(a..b) = IF a > b THEN 0 ELSE b - a + 1
    BY FS_Interval
  <2> QED
    BY <2>1
<1>3. c \in Int /\ t \in Int
    BY <1>1
<1> HIDE DEF N, P, R, rest, first, c, t
<1>4. /\ \A i \in N : f[i] \in Int /\ c <= f[i] /\ f[i] <= t
      /\ \A i \in P \cup R : f[i] \in Int /\ f[i] < c /\ f[i] < t
  <2>1. c = f[first] /\ t = f[n]
    BY DEF c, t, first
  <2>2. \A i \in N \cup P \cup R : f[i] \in Int /\ i \in 1..n
    BY <1>1
  <2>3. ASSUME NEW i \in N PROVE c <= f[i] /\ f[i] <= t
    <3>1. (c = f[i] \/ c < f[i]) /\ (f[i] = t \/ f[i] < t)
      BY <1>1, <2>1, <2>2
    <3> QED
      BY <1>3, <2>2, <3>1
  <2>4. ASSUME NEW i \in P \cup R PROVE f[i] < c /\ f[i] < t
      BY <1>1, <2>1, <2>2
  <2> QED
    BY <2>2, <2>3, <2>4
<1>5. /\ fresh \in Int /\ short * c <= fresh
      /\ past \in Int /\ left \in Int
  <2>1. \A i \in P \cup R : f[i] \in Int
    BY <1>4
  <2> QED
    BY <1>2, <1>3, <1>4, <2>1, SumAtLeast, SumType
<1>6. /\ \A i \in 1..n : flip[i] = f[i] * (-1)
      /\ \A i \in N : flip[i] \in Int /\ -t <= flip[i]
      /\ \A i \in P : flip[i] \in Int /\ -c < flip[i]
      /\ \A i \in R : flip[i] \in Int /\ -c < flip[i] /\ -t < flip[i]
  <2>1. \A a, b \in Int : /\ a * (-1) \in Int /\ -a \in Int
                          /\ (a <= b => -b <= a * (-1)) /\ (a < b => -b < a * (-1))
    OBVIOUS
  <2>2. \A i \in 1..n : flip[i] = f[i] * (-1)
    OBVIOUS
  <2> HIDE DEF flip
  <2> QED
    BY <1>1, <1>3, <1>4, <2>1, <2>2
<1> HIDE DEF flip
<1>7. /\ SumOver(flip, N) = fresh * (-1)
      /\ SumOver(flip, P) = past * (-1)
      /\ SumOver(flip, R) = left * (-1)
  <2>1. -1 \in Int
    OBVIOUS
  <2>2. \A i \in N \cup P \cup R : f[i] \in Int /\ flip[i] = f[i] * (-1)
    BY <1>1, <1>4, <1>6
  <2> DEFINE k == -1
  <2>3. k \in Int /\ k = -1
    BY <2>1
  <2> HIDE DEF k
  <2>4. \A i \in N \cup P \cup R : f[i] \in Int /\ flip[i] = f[i] * k
    BY <2>2, <2>3
  <2>5. /\ SumOver(flip, N) = fresh * k
        /\ SumOver(flip, P) = past * k
        /\ SumOver(flip, R) = left * k
    BY <1>2, <2>3, <2>4, SumScale
  <2> QED
    BY <2>3, <2>5
<1>8. /\ short * (-t) <= fresh * (-1)
      /\ short * (-c) < past * (-1)
      /\ rest * (-c) < left * (-1)
      /\ rest * (-t) < left * (-1)
  <2>1. -t \in Int /\ -c \in Int
    BY <1>3
  <2>2. short * (-t) <= SumOver(flip, N)
    BY <1>2, <1>6, <2>1, SumAtLeast
  <2>3. /\ short * (-c) < SumOver(flip, P)
        /\ rest * (-c) < SumOver(flip, R)
        /\ rest * (-t) < SumOver(flip, R)
    BY <1>1, <1>2, <1>6, <2>1, SumAbove, Zenon
  <2> QED
    BY <1>7, <2>2, <2>3
<1>9. SumOver(f, n - long + 1 .. n) = left + fresh
  <2>1. \A i \in R \cup N : f[i] \in Int
    BY <1>4
  <2> QED
    BY <1>1, <1>2, <2>1, SumSplit, Zenon
<1>10. rest \in Nat \ {0} /\ long = rest + short
    BY <1>1 DEF rest
<1>11. /\ fresh <= t * short /\ past < c * short
       /\ left < c * rest /\ left < t * rest /\ c * short <= fresh
  <2>1. \A a, b \in Int, k \in Nat : /\ k * (-a) <= b * (-1) => b <= a * k
                                    /\ k * (-a) < b * (-1) => b < a * k
                                    /\ k * a = a * k
    OBVIOUS
  <2> QED
    BY <1>3, <1>5, <1>8, <1>10, <2>1
<1> HIDE DEF fresh, past, left
<1>12. past < fresh
    BY <1>3, <1>5, <1>11
<1>13. left + fresh < t * long
  <2>1. t * long = t * rest + t * short /\ t * rest \in Int /\ t * short \in Int
    BY <1>3, <1>10
  <2> QED
    BY <1>5, <1>11, <2>1
<1>14. (left + fresh) * short < fresh * long
  <2>1. left * short < (c * rest) * short
    BY <1>3, <1>5, <1>10, <1>11
  <2>2. (c * short) * rest <= fresh * rest
    BY <1>3, <1>5, <1>10, <1>11
  <2>3. (c * rest) * short = (c * short) * rest
    BY <1>3, <1>10
  <2>4. /\ (left + fresh) * short = left * short + fresh * short
        /\ fresh * long = fresh * rest + fresh * short
        /\ left * short \in Int /\ fresh * short \in Int /\ fresh * rest \in Int
        /\ (c * rest) * short \in Int
    BY <1>3, <1>5, <1>10
  <2> QED
    BY <2>1, <2>2, <2>3, <2>4
<1> QED
    BY <1>3, <1>5, <1>9, <1>11, <1>12, <1>13, <1>14 DEF fresh, past, N, P, t

\* The direction of a tape, from its averages.
LEMMA TrendLabels ==
    ASSUME NEW price \in Int, NEW fresh \in Int, NEW past \in Nat \ {0}, NEW long \in Int
    PROVE  LET sides == Sign(price * Short - fresh) + Sign(price * Long - long)
                            + Sign(fresh * Long - long * Short)
               slope == Max({-past, Min({10 * (fresh - past), past})})
               label == direction_label([num |-> 2 * sides * past + 9 * slope, den |-> 15 * past])
           IN  /\ /\ price * Short >= fresh /\ price * Long > long
                  /\ fresh * Long > long * Short /\ fresh > past
                  => label \in {"bullish", "strong_bullish"}
               /\ /\ price * Short <= fresh /\ price * Long < long
                  /\ fresh * Long < long * Short /\ fresh < past
                  => label \in {"bearish", "strong_bearish"}
<1>1. Short \in Int /\ Long \in Int
    BY RegimeAssumption
<1> DEFINE a == price * Short
           b == price * Long
           c == fresh * Long
           d == long * Short
           sides == Sign(a - fresh) + Sign(b - long) + Sign(c - d)
           slope == Max({-past, Min({10 * (fresh - past), past})})
           num == 2 * sides * past + 9 * slope
           den == 15 * past
           label == direction_label([num |-> num, den |-> den])
<1>2. a \in Int /\ b \in Int /\ c \in Int /\ d \in Int
    BY <1>1
<1>3. slope \in Int /\ (fresh > past => slope >= 0) /\ (fresh < past => slope <= 0)
  <2> DEFINE x == 10 * (fresh - past)
             m == Min({x, past})
  <2>1. x \in Int /\ past \in Int /\ (fresh > past => x > 0) /\ (fresh < past => x < 0)
    OBVIOUS
  <2> HIDE DEF x
  <2>2. Min({x, past}) = IF x <= past THEN x ELSE past
    BY <2>1, Extremes
  <2>3. m \in Int /\ (fresh > past => m > 0) /\ (fresh < past => m < 0)
    BY <2>1, <2>2
  <2> HIDE DEF m
  <2>4. slope = IF -past <= m THEN m ELSE -past
    <3>1. -past \in Int /\ slope = Max({-past, m})
      BY DEF m, x
    <3> HIDE DEF slope
    <3> QED
      BY <2>3, <3>1, Extremes
  <2> HIDE DEF slope
  <2> QED
    BY <2>3, <2>4
<1>4. label = CASE 5 * num >= 3 * den                       -> "strong_bullish"
                [] 5 * num < 3 * den /\ 5 * num >= den      -> "bullish"
                [] 5 * num < den /\ 5 * num > -den          -> "neutral"
                [] 5 * num <= -den /\ 5 * num > -3 * den    -> "bearish"
                [] 5 * num <= -3 * den                      -> "strong_bearish"
    BY Zenon DEF direction_label
<1>5. den \in Nat \ {0} /\ den = 15 * past
    OBVIOUS
<1>6. ASSUME a >= fresh, b > long, c > d, fresh > past PROVE label \in {"bullish", "strong_bullish"}
  <2>1. sides \in {2, 3}
    BY <1>2, <1>6 DEF Sign
  <2> HIDE DEF sides, slope, a, b, c, d
  <2>2. num \in Int /\ num >= 4 * past
    <3>1. 2 * sides * past \in {4 * past, 6 * past}
      BY <2>1
    <3> QED
      BY <1>3, <1>6, <3>1
  <2> HIDE DEF num, den, label
  <2>3. 5 * num >= den
    BY <1>5, <2>2
  <2> QED
    BY <1>4, <1>5, <2>2, <2>3
<1>7. ASSUME a <= fresh, b < long, c < d, fresh < past PROVE label \in {"bearish", "strong_bearish"}
  <2>1. sides \in {-2, -3}
    BY <1>2, <1>7 DEF Sign
  <2> HIDE DEF sides, slope, a, b, c, d
  <2>2. num \in Int /\ num <= -4 * past
    <3>1. 2 * sides * past \in {-4 * past, -6 * past}
      BY <2>1
    <3> QED
      BY <1>3, <1>7, <3>1
  <2> HIDE DEF num, den, label
  <2>3. 5 * num <= -den
    BY <1>5, <2>2
  <2>4. ~(5 * num >= 3 * den) /\ ~(5 * num >= den) /\ ~(5 * num > -den)
    BY <1>5, <2>2, <2>3
  <2> QED
    BY <1>4, <1>5, <2>2, <2>3, <2>4
<1> QED
    BY <1>6, <1>7

\* A tape that only rises is labelled a rise, and one that only falls a fall.
LEMMA TapesGo ==
    ASSUME NEW closes \in Seq(Nat \ {0}), Len(closes) >= MinCloses
    PROVE  /\ (\A i \in 2..Len(closes) : closes[i] > closes[i - 1])
              => classify_regime(closes).direction \in {"bullish", "strong_bullish"}
           /\ (\A i \in 2..Len(closes) : closes[i] < closes[i - 1])
              => classify_regime(closes).direction \in {"bearish", "strong_bearish"}
<1> DEFINE n == Len(closes)
           N == n - Short + 1 .. n
           P == n - 2 * Short + 1 .. n - Short
           A == n - Long + 1 .. n
           price == closes[n]
           fresh == SumOver(closes, N)
           past == SumOver(closes, P)
           long == SumOver(closes, A)
           sides == Sign(price * Short - fresh) + Sign(price * Long - long)
                        + Sign(fresh * Long - long * Short)
           slope == Max({-past, Min({10 * (fresh - past), past})})
           flip == [i \in 1..n |-> closes[i] * (-1)]
<1>1. /\ n \in Nat /\ Short \in Nat \ {0} /\ Long \in Nat
      /\ Short < Long /\ 2 * Short <= n /\ Long <= n
    BY RegimeAssumption
<1>2. /\ N \subseteq 1..n /\ P \subseteq 1..n /\ A \subseteq 1..n /\ P # {} /\ n \in 1..n
      /\ \A i \in 1..n : closes[i] \in Nat \ {0}
      /\ \A i \in 2..n : i \in 1..n /\ i - 1 \in 1..n
  <2>1. n - Short \in P
    BY <1>1
  <2>2. \A i \in 1..n : closes[i] \in Nat \ {0}
    OBVIOUS
  <2> HIDE DEF n
  <2>3. N \subseteq 1..n /\ P \subseteq 1..n /\ A \subseteq 1..n /\ n \in 1..n
    BY <1>1
  <2>4. \A i \in 2..n : i \in 1..n /\ i - 1 \in 1..n
    BY <1>1
  <2> QED
    BY <2>1, <2>2, <2>3, <2>4
<1>3. IsFiniteSet(N) /\ IsFiniteSet(P) /\ IsFiniteSet(A)
  <2>1. \A a, b \in Int : IsFiniteSet(a..b)
    BY FS_Interval
  <2> QED
    BY <1>1, <2>1
<1>4. classify_regime(closes).direction
          = direction_label([num |-> 2 * sides * past + 9 * slope, den |-> 15 * past])
    BY DEF classify_regime, trend_score, Total, SumOver
<1> HIDE DEF n, N, P, A
<1>5. /\ fresh \in Int /\ past \in Nat \ {0} /\ long \in Int /\ price \in Int
  <2>1. \A i \in N \cup P \cup A : closes[i] \in Int
    BY <1>2
  <2>2. \A i \in P : closes[i] \in Int /\ 0 < closes[i]
    BY <1>2
  <2>3. Cardinality(P) * 0 < past /\ Cardinality(P) \in Nat
    <3>1. 0 \in Int
      OBVIOUS
    <3> QED
      BY <1>2, <1>3, <2>2, <3>1, SumAbove, FS_CardinalityType, Zenon
  <2>4. past \in Int /\ fresh \in Int /\ long \in Int
    BY <1>3, <2>1, SumType
  <2> HIDE DEF past
  <2> QED
    BY <1>2, <2>3, <2>4
<1>6. /\ SumOver(flip, N) = fresh * (-1)
      /\ SumOver(flip, P) = past * (-1)
      /\ SumOver(flip, A) = long * (-1)
      /\ \A i \in 1..n : flip[i] = closes[i] * (-1)
  <2> DEFINE k == -1
  <2>1. k \in Int /\ k = -1
    OBVIOUS
  <2> HIDE DEF k
  <2>2. \A i \in 1..n : flip[i] = closes[i] * k
    BY <2>1
  <2>3. \A i \in N \cup P \cup A : closes[i] \in Int /\ flip[i] = closes[i] * k
    BY <1>2, <2>2
  <2> HIDE DEF flip
  <2>4. /\ SumOver(flip, N) = fresh * k
        /\ SumOver(flip, P) = past * k
        /\ SumOver(flip, A) = long * k
    BY <1>3, <2>1, <2>3, SumScale
  <2> QED
    BY <2>1, <2>2, <2>4
<1> DEFINE label == direction_label([num |-> 2 * sides * past + 9 * slope, den |-> 15 * past])
<1>7. /\ /\ price * Short >= fresh /\ price * Long > long
         /\ fresh * Long > long * Short /\ fresh > past
         => label \in {"bullish", "strong_bullish"}
      /\ /\ price * Short <= fresh /\ price * Long < long
         /\ fresh * Long < long * Short /\ fresh < past
         => label \in {"bearish", "strong_bearish"}
  <2> HIDE DEF fresh, past, long, price
  <2> QED
    BY <1>5, TrendLabels, Zenon
<1> HIDE DEF flip, label
<1>8. ASSUME \A i \in 2..n : closes[i] > closes[i - 1]
      PROVE  label \in {"bullish", "strong_bullish"}
  <2>1. \A i \in 1..n : closes[i] \in Int
    BY <1>2
  <2>2. \A i \in 2..n : closes[i - 1] < closes[i]
    BY <1>2, <1>8
  <2>3. \A i, j \in 1..n : i < j => closes[i] < closes[j]
    BY <1>1, <2>1, <2>2, StepsRise, Zenon
  <2>4. /\ fresh <= price * Short /\ long < price * Long
        /\ long * Short < fresh * Long /\ past < fresh
    BY <1>1, <2>1, <2>3, RisingAverages, Zenon DEF N, P, A
  <2>5. \A a, b \in Int : (a <= b => b >= a) /\ (a < b => b > a)
    OBVIOUS
  <2>6. /\ price * Short \in Int /\ price * Long \in Int
        /\ fresh * Long \in Int /\ long * Short \in Int
    <3> HIDE DEF fresh, past, long, price
    <3> QED
      BY <1>1, <1>5
  <2> QED
    BY <1>5, <1>7, <2>4, <2>5, <2>6
<1>9. ASSUME \A i \in 2..n : closes[i] < closes[i - 1]
      PROVE  label \in {"bearish", "strong_bearish"}
  <2>1. \A a, b \in Int : a * (-1) \in Int /\ (a < b <=> b * (-1) < a * (-1))
    OBVIOUS
  <2>2. \A i \in 1..n : flip[i] \in Int
    BY <1>2, <1>6, <2>1
  <2>3. \A i \in 2..n : flip[i - 1] < flip[i]
    <3> SUFFICES ASSUME NEW i \in 2..n PROVE flip[i - 1] < flip[i]
      OBVIOUS
    <3>1. closes[i] < closes[i - 1] /\ closes[i] \in Int /\ closes[i - 1] \in Int
      BY <1>2, <1>9
    <3> QED
      BY <1>2, <1>6, <2>1, <3>1, Zenon
  <2>4. \A i, j \in 1..n : i < j => flip[i] < flip[j]
    BY <1>1, <2>2, <2>3, StepsRise, Zenon
  <2> DEFINE m == fresh * (-1)
             p == past * (-1)
             l == long * (-1)
             q == price * (-1)
  <2>5. m <= q * Short /\ l < q * Long /\ l * Short < m * Long /\ p < m
    <3>1. SumOver(flip, N) = m /\ SumOver(flip, P) = p /\ SumOver(flip, A) = l /\ flip[n] = q
      BY <1>2, <1>6
    <3> HIDE DEF m, p, l, q
    <3> QED
      BY <1>1, <2>2, <2>4, <3>1, RisingAverages, Zenon DEF N, P, A
  <2>6. price * Short <= fresh /\ price * Long < long /\ fresh * Long < long * Short /\ fresh < past
    <3> DEFINE a == fresh
               b == past
               c == long
               d == price
    <3>1. a \in Int /\ b \in Int /\ c \in Int /\ d \in Int /\ Short \in Int /\ Long \in Int
      BY <1>1, <1>5
    <3>2. /\ a * (-1) <= (d * (-1)) * Short /\ c * (-1) < (d * (-1)) * Long
          /\ (c * (-1)) * Short < (a * (-1)) * Long /\ b * (-1) < a * (-1)
      BY <2>5
    <3> HIDE DEF a, b, c, d
    <3>3. d * Short <= a /\ d * Long < c /\ a * Long < c * Short /\ a < b
      <4>1. \A x, y \in Int : (x * (-1)) * y = -(x * y) /\ x * (-1) = -x /\ x * y \in Int
        OBVIOUS
      <4>2. \A x, y \in Int : (-x <= -y => y <= x) /\ (-x < -y => y < x)
        OBVIOUS
      <4> QED
        BY <3>1, <3>2, <4>1, <4>2
    <3> QED
      BY <3>3 DEF a, b, c, d
  <2> QED
    BY <1>7, <2>6
<1> QED
    BY <1>4, <1>8, <1>9 DEF label, n

-----------------------------------------------------------------------------
(* The ranking of the templates                                            *)

\* What a template is worth in a regime.
Score(t, regime) ==
    DirPoints(t.view, regime.direction) + VolPoints(t.vol, regime.volatility)
        + Bonus(t.view, regime.momentum) - Penalty(t)

\* The points a template may get.
LEMMA PointTypes ==
    ASSUME NEW view, NEW vol, NEW t, NEW regime
    PROVE  /\ DirPoints(view, regime.direction) \in {3, 1, -2}
           /\ VolPoints(vol, regime.volatility) \in {3, 2, 1, -1}
           /\ Bonus(view, regime.momentum) \in {1, 0}
           /\ Penalty(t) \in 0..3
<1>1. DirPoints(view, regime.direction) \in {3, 1, -2}
    BY DEF DirPoints
<1>2. VolPoints(vol, regime.volatility) \in {3, 2, 1, -1}
    BY DEF VolPoints
<1>3. Bonus(view, regime.momentum) \in {1, 0}
    BY DEF Bonus
<1>4. Penalty(t) \in 0..3
    BY DEF Penalty
<1> QED
    BY <1>1, <1>2, <1>3, <1>4

\* Every template of undefined risk has one of defined risk that bets on the same move and
\* the same volatility, and is penalised less.
LEMMA SaferTemplate ==
    ASSUME NEW key \in Templates, Registry[key].risk = "undefined"
    PROVE  \E safe \in Templates :
              /\ Registry[safe].risk = "defined"
              /\ Registry[safe].view = Registry[key].view
              /\ Registry[safe].vol = Registry[key].vol
              /\ Penalty(Registry[safe]) < Penalty(Registry[key])
<1>1. /\ {"bull_put_spread", "bear_call_spread", "iron_condor"} \subseteq Templates
      /\ Registry.bull_put_spread.view = "bullish"
      /\ Registry.bear_call_spread.view = "bearish"
      /\ Registry.iron_condor.view = "neutral"
      /\ \A safe \in {"bull_put_spread", "bear_call_spread", "iron_condor"} :
            /\ Registry[safe].risk = "defined" /\ Registry[safe].vol = "short_vol"
            /\ Registry[safe].level # "advanced"
    BY DEF Templates, Registry, Tagged
<1>2. Registry[key].vol = "short_vol" /\ Registry[key].view \in {"bullish", "bearish", "neutral"}
    BY DEF Templates, Registry, Tagged
<1>3. Penalty(Registry[key]) >= 2
    BY DEF Penalty
<1>4. \A safe \in {"bull_put_spread", "bear_call_spread", "iron_condor"} :
         Penalty(Registry[safe]) = 0
    BY <1>1 DEF Penalty
<1>5. PICK safe \in {"bull_put_spread", "bear_call_spread", "iron_condor"} :
          Registry[safe].view = Registry[key].view
    BY <1>1, <1>2
<1>6. Penalty(Registry[key]) \in Int
    BY PointTypes
<1>7. Penalty(Registry[safe]) < Penalty(Registry[key])
    BY <1>3, <1>4, <1>6
<1> QED
    BY <1>1, <1>2, <1>5, <1>7

\* What the builder has ranked is the templates for the regime of the tape it was asked about.
RankingInv ==
    ranking = << >> \/ /\ market \in Seq(Nat \ {0}) /\ Len(market) >= MinCloses
                       /\ ranking = recommend(classify_regime(market))

\* The builder keeps it.
LEMMA BuilderRanks ==
    /\ Init => RankingInv
    /\ RankingInv /\ [Next]_vars => RankingInv'
<1>1. Init => RankingInv
    BY DEF Init, RankingInv
<1>2. RankingInv /\ [Next]_vars => RankingInv'
  <2> SUFFICES ASSUME RankingInv, [Next]_vars PROVE RankingInv'
    OBVIOUS
  <2>1. ASSUME NEW closes \in Histories, Recommend(closes) PROVE RankingInv'
    BY <2>1, BuilderAssumption DEF Recommend, RankingInv
  <2>2. ASSUME UNCHANGED <<market, ranking>> PROVE RankingInv'
    BY <2>2 DEF RankingInv
  <2>3. ASSUME ranking' = << >> PROVE RankingInv'
    BY <2>3 DEF RankingInv
  <2> QED
    BY <2>1, <2>2, <2>3 DEF Next, vars, Build, PriceLeg, Analyze
<1> QED
    BY <1>1, <1>2

\* The ranking of such a tape fits it.
LEMMA RankingHolds == RankingInv => RankingFits
<1> SUFFICES ASSUME RankingInv PROVE RankingFits
    OBVIOUS
<1> DEFINE regime == classify_regime(market)
<1>1. ASSUME ranking = << >> PROVE RankingFits
  <2>1. DOMAIN ranking = {}
    BY <1>1
  <2> QED
    BY <2>1 DEF RankingFits, SafeTemplatesLead, TrendLeads
<1>2. ASSUME ranking # << >> PROVE RankingFits
  <2>1. /\ market \in Seq(Nat \ {0}) /\ Len(market) >= MinCloses
        /\ ranking = recommend(regime)
    BY <1>2 DEF RankingInv
  <2>2. /\ DOMAIN ranking = Templates
        /\ \A key \in Templates : ranking[key] = Score(Registry[key], regime)
    BY <2>1 DEF recommend, Score
  <2>3. /\ regime.direction \in {"bullish", "strong_bullish"}
           \/ ~(\A i \in 2..Len(market) : market[i] > market[i - 1])
        /\ regime.direction \in {"bearish", "strong_bearish"}
           \/ ~(\A i \in 2..Len(market) : market[i] < market[i - 1])
    BY <2>1, TapesGo
  <2> HIDE DEF regime
  <2>4. SafeTemplatesLead
    <3> SUFFICES ASSUME NEW key \in Templates, Registry[key].risk = "undefined"
                 PROVE  \E safe \in Templates :
                           Registry[safe].risk = "defined" /\ ranking[key] < ranking[safe]
      BY <2>2 DEF SafeTemplatesLead
    <3>1. PICK safe \in Templates :
              /\ Registry[safe].risk = "defined"
              /\ Registry[safe].view = Registry[key].view
              /\ Registry[safe].vol = Registry[key].vol
              /\ Penalty(Registry[safe]) < Penalty(Registry[key])
      BY SaferTemplate
    <3> DEFINE d == DirPoints(Registry[key].view, regime.direction)
               v == VolPoints(Registry[key].vol, regime.volatility)
               b == Bonus(Registry[key].view, regime.momentum)
               p == Penalty(Registry[key])
               q == Penalty(Registry[safe])
    <3>2. d \in Int /\ v \in Int /\ b \in Int /\ p \in Int /\ q \in Int
      <4>1. d \in {3, 1, -2} /\ v \in {3, 2, 1, -1} /\ b \in {1, 0} /\ p \in 0..3 /\ q \in 0..3
        BY PointTypes
      <4> HIDE DEF d, v, b, p, q
      <4> QED
        BY <4>1
    <3>3. ranking[key] = d + v + b - p /\ ranking[safe] = d + v + b - q /\ q < p
      BY <2>2, <3>1 DEF Score
    <3> HIDE DEF d, v, b, p, q
    <3> QED
      BY <3>1, <3>2, <3>3
  <2>5. ASSUME NEW key \in Templates, NEW rival \in {"bull_put_spread", "bear_call_spread"},
               regime.direction \in
                   IF rival = "bull_put_spread" THEN {"bullish", "strong_bullish"}
                   ELSE {"bearish", "strong_bearish"},
               Registry[key].view = IF rival = "bull_put_spread" THEN "bearish" ELSE "bullish"
        PROVE  rival \in Templates /\ ~(ranking[rival] <= ranking[key])
    <3>1. /\ rival \in Templates /\ Registry[rival].risk = "defined"
          /\ Registry[rival].level = "beginner" /\ Registry[rival].vol = "short_vol"
          /\ Registry[rival].view = IF rival = "bull_put_spread" THEN "bullish" ELSE "bearish"
      BY DEF Templates, Registry, Tagged
    <3>2. /\ DirPoints(Registry[rival].view, regime.direction) = 3
          /\ DirPoints(Registry[key].view, regime.direction) = -2
      BY <2>5, <3>1 DEF DirPoints, Agrees, Against
    <3>3. Bonus(Registry[rival].view, regime.momentum) \in {0, 1}
          /\ Bonus(Registry[key].view, regime.momentum) = 0
      BY <2>5, <3>1 DEF Bonus
    <3>4. Penalty(Registry[rival]) = 0 /\ Penalty(Registry[key]) \in 0..3
      BY <3>1, PointTypes DEF Penalty
    <3>5. /\ VolPoints(Registry[rival].vol, regime.volatility) \in {3, 1, -1}
          /\ VolPoints(Registry[key].vol, regime.volatility) \in {3, 2, 1, -1}
      BY <3>1, PointTypes DEF VolPoints
    <3>6. /\ ranking[rival] \in Int /\ ranking[key] \in Int
          /\ ranking[rival] >= 2 /\ ranking[key] <= 1
      BY <2>2, <3>1, <3>2, <3>3, <3>4, <3>5 DEF Score
    <3> QED
      BY <3>1, <3>6
  <2>6. TrendLeads
    <3> DEFINE leads(key) == \A other \in Templates : ranking[other] <= ranking[key]
    <3> SUFFICES ASSUME NEW key \in Templates, leads(key)
                 PROVE  /\ (\A i \in 2..Len(market) : market[i] > market[i - 1])
                           => Registry[key].view # "bearish"
                        /\ (\A i \in 2..Len(market) : market[i] < market[i - 1])
                           => Registry[key].view # "bullish"
      BY <2>2 DEF TrendLeads
    <3> QED
      BY <2>3, <2>5
  <2> QED
    BY <2>4, <2>6 DEF RankingFits
<1> QED
    BY <1>1, <1>2

-----------------------------------------------------------------------------
(* What a template gains past its strikes                                  *)

\* The fields every leg has.
LegFields == {"kind", "call", "sign", "strike", "qty"}

\* What a leg gains with every step of a price above its strike.
Gain(leg) ==
    IF leg.kind = "option" THEN IF leg.call THEN leg.sign * OPTION_MULTIPLIER * leg.qty ELSE 0
    ELSE IF leg.kind = "equity" THEN leg.sign * leg.qty ELSE 0

\* What a position gains with every step of a price above all its strikes.
GainSum(position) == SumOver([i \in DOMAIN position |-> Gain(position[i])], DOMAIN position)

\* A leg of a template, priced or not.
PricedAs(leg, bare) ==
    /\ bare \in BareLeg
    /\ LegFields \subseteq DOMAIN leg
    /\ \A field \in LegFields : leg[field] = bare[field]
    /\ "entry" \in DOMAIN leg => leg.entry \in Int

\* The gains of two, three and four legs.
LEMMA GainsOfFew ==
    /\ \A a, b : Gain(a) \in Int /\ Gain(b) \in Int
          => GainSum(<<a, b>>) = Gain(a) + Gain(b)
    /\ \A a, b, c : Gain(a) \in Int /\ Gain(b) \in Int /\ Gain(c) \in Int
          => GainSum(<<a, b, c>>) = Gain(a) + Gain(b) + Gain(c)
    /\ \A a, b, c, d :
          Gain(a) \in Int /\ Gain(b) \in Int /\ Gain(c) \in Int /\ Gain(d) \in Int
          => GainSum(<<a, b, c, d>>) = Gain(a) + Gain(b) + Gain(c) + Gain(d)
<1>1. ASSUME NEW f, NEW n \in 1..4, \A i \in 1..n : f[i] \in Int
      PROVE  /\ n = 2 => SumOver(f, 1..n) = f[1] + f[2]
             /\ n = 3 => SumOver(f, 1..n) = f[1] + f[2] + f[3]
             /\ n = 4 => SumOver(f, 1..n) = f[1] + f[2] + f[3] + f[4]
  <2>1. SumOver(f, 1..0) = 0
    <3>1. 1..0 = {}
      OBVIOUS
    <3> QED
      BY <3>1, SumEmpty
  <2>2. \A m \in 1..n : SumOver(f, 1..m) = SumOver(f, 1..(m - 1)) + f[m]
    <3> SUFFICES ASSUME NEW m \in 1..n PROVE SumOver(f, 1..m) = SumOver(f, 1..(m - 1)) + f[m]
      OBVIOUS
    <3>1. m \in Nat \ {0} /\ \A i \in 1..m : f[i] \in Int
      BY <1>1
    <3> QED
      BY <3>1, SumFirst
  <2> DEFINE s(m) == SumOver(f, 1..m)
  <2>3. s(0) = 0 /\ \A m \in 1..n : s(m) = s(m - 1) + f[m] /\ f[m] \in Int
    BY <1>1, <2>1, <2>2
  <2> HIDE DEF s
  <2>4. CASE n = 2
    <3>1. s(1) = s(0) + f[1] /\ s(2) = s(1) + f[2] /\ f[1] \in Int /\ f[2] \in Int
      BY <2>3, <2>4
    <3> QED
      BY <2>3, <2>4, <3>1 DEF s
  <2>5. CASE n = 3
    <3>1. /\ s(1) = s(0) + f[1] /\ s(2) = s(1) + f[2] /\ s(3) = s(2) + f[3]
          /\ f[1] \in Int /\ f[2] \in Int /\ f[3] \in Int
      BY <2>3, <2>5
    <3> QED
      BY <2>3, <2>5, <3>1 DEF s
  <2>6. CASE n = 4
    <3>1. /\ s(1) = s(0) + f[1] /\ s(2) = s(1) + f[2] /\ s(3) = s(2) + f[3] /\ s(4) = s(3) + f[4]
          /\ f[1] \in Int /\ f[2] \in Int /\ f[3] \in Int /\ f[4] \in Int
      BY <2>3, <2>6
    <3> QED
      BY <2>3, <2>6, <3>1 DEF s
  <2> QED
    BY <1>1, <2>4, <2>5, <2>6
<1>2. ASSUME NEW a, NEW b,
             Gain(a) \in Int, Gain(b) \in Int
      PROVE  GainSum(<<a, b>>) = Gain(a) + Gain(b)
  <2> DEFINE p == <<a, b>>
             f == [i \in DOMAIN p |-> Gain(p[i])]
  <2>1. DOMAIN p = 1..2 /\ 2 \in 1..4 /\ f[1] = Gain(a) /\ f[2] = Gain(b)
    OBVIOUS
  <2>2. \A i \in 1..2 : f[i] \in Int
    <3>1. \A i \in 1..2 : i = 1 \/ i = 2
      OBVIOUS
    <3> HIDE DEF f
    <3> QED
      BY <1>2, <2>1, <3>1
  <2>3. GainSum(p) = SumOver(f, 1..2)
    BY <2>1 DEF GainSum
  <2> HIDE DEF f
  <2> QED
    BY <1>1, <2>1, <2>2, <2>3
<1>3. ASSUME NEW a, NEW b, NEW c,
             Gain(a) \in Int, Gain(b) \in Int, Gain(c) \in Int
      PROVE  GainSum(<<a, b, c>>) = Gain(a) + Gain(b) + Gain(c)
  <2> DEFINE p == <<a, b, c>>
             f == [i \in DOMAIN p |-> Gain(p[i])]
  <2>1. DOMAIN p = 1..3 /\ 3 \in 1..4 /\ f[1] = Gain(a) /\ f[2] = Gain(b) /\ f[3] = Gain(c)
    OBVIOUS
  <2>2. \A i \in 1..3 : f[i] \in Int
    <3>1. \A i \in 1..3 : i = 1 \/ i = 2 \/ i = 3
      OBVIOUS
    <3> HIDE DEF f
    <3> QED
      BY <1>3, <2>1, <3>1
  <2>3. GainSum(p) = SumOver(f, 1..3)
    BY <2>1 DEF GainSum
  <2> HIDE DEF f
  <2> QED
    BY <1>1, <2>1, <2>2, <2>3
<1>4. ASSUME NEW a, NEW b, NEW c, NEW d,
             Gain(a) \in Int, Gain(b) \in Int, Gain(c) \in Int, Gain(d) \in Int
      PROVE  GainSum(<<a, b, c, d>>) = Gain(a) + Gain(b) + Gain(c) + Gain(d)
  <2> DEFINE p == <<a, b, c, d>>
             f == [i \in DOMAIN p |-> Gain(p[i])]
  <2>1. /\ DOMAIN p = 1..4 /\ 4 \in 1..4
        /\ f[1] = Gain(a) /\ f[2] = Gain(b) /\ f[3] = Gain(c) /\ f[4] = Gain(d)
    OBVIOUS
  <2>2. \A i \in 1..4 : f[i] \in Int
    <3>1. \A i \in 1..4 : i = 1 \/ i = 2 \/ i = 3 \/ i = 4
      OBVIOUS
    <3> HIDE DEF f
    <3> QED
      BY <1>4, <2>1, <3>1
  <2>3. GainSum(p) = SumOver(f, 1..4)
    BY <2>1 DEF GainSum
  <2> HIDE DEF f
  <2> QED
    BY <1>1, <2>1, <2>2, <2>3
<1> QED
    BY <1>2, <1>3, <1>4

\* What the templates' positions gain with every step of a price above all strikes is
\* what their tags say: a loss only of undefined risk, a gain only of undefined reward.
LEMMA TagsOfGains ==
    ASSUME NEW key \in Templates
    PROVE  /\ GainSum(Registry[key].legs) \in Int
           /\ GainSum(Registry[key].legs) < 0 => Registry[key].risk = "undefined"
           /\ GainSum(Registry[key].legs) > 0 => Registry[key].reward = "undefined"
<1>1. \A k \in Int : /\ Gain(BuyCall(k)) = 100 /\ Gain(SellCall(k)) = -100
                     /\ Gain(BuyPut(k)) = 0 /\ Gain(SellPut(k)) = 0
                     /\ Gain(Twice(SellCall(k))) = -200 /\ Gain(Twice(SellPut(k))) = 0
    BY DEF Gain, BuyCall, SellCall, BuyPut, SellPut, Twice, Option, OPTION_MULTIPLIER
<1>2. Gain(Shares) = 100 /\ Gain(Cash) = 0
    BY DEF Gain, Shares, Cash
<1>3. -2 \in Int /\ -1 \in Int /\ 0 \in Int /\ 1 \in Int /\ 2 \in Int
    OBVIOUS
<1>4. -200 \in Int /\ -100 \in Int /\ 0 \in Int /\ 100 \in Int
    OBVIOUS
<1>5. /\ Gain(BuyCall(-1)) = 100 /\ Gain(BuyCall(0)) = 100 /\ Gain(BuyCall(1)) = 100
      /\ Gain(BuyCall(2)) = 100 /\ Gain(SellCall(0)) = -100 /\ Gain(SellCall(1)) = -100
      /\ Gain(BuyPut(-2)) = 0 /\ Gain(BuyPut(-1)) = 0 /\ Gain(BuyPut(0)) = 0
      /\ Gain(BuyPut(1)) = 0 /\ Gain(SellPut(-1)) = 0 /\ Gain(SellPut(0)) = 0
      /\ Gain(Twice(SellCall(0))) = -200 /\ Gain(Twice(SellCall(1))) = -200
      /\ Gain(Twice(SellPut(0))) = 0 /\ Gain(Twice(SellPut(-1))) = 0
    BY <1>1, <1>3
<1>6. \A leg \in {BuyCall(-1), BuyCall(0), BuyCall(1), BuyCall(2), SellCall(0), SellCall(1),
                   BuyPut(-2), BuyPut(-1), BuyPut(0), BuyPut(1), SellPut(-1), SellPut(0),
                   Twice(SellCall(0)), Twice(SellCall(1)), Twice(SellPut(0)),
                   Twice(SellPut(-1)), Shares, Cash} : Gain(leg) \in Int
    BY <1>2, <1>4, <1>5
<1>7. /\ GainSum(<<BuyCall(0), SellCall(1)>>) = 0
      /\ GainSum(<<BuyPut(0), SellPut(-1)>>) = 0
      /\ GainSum(<<BuyCall(0), BuyPut(0)>>) = 100
      /\ GainSum(<<BuyCall(1), BuyPut(-1)>>) = 100
      /\ GainSum(<<Shares, SellCall(1)>>) = 0
      /\ GainSum(<<SellPut(0), Cash>>) = 0
      /\ GainSum(<<SellCall(0), BuyCall(0)>>) = 0
      /\ GainSum(<<SellPut(0), BuyPut(-1)>>) = 0
      /\ GainSum(<<SellCall(0), BuyCall(1)>>) = 0
      /\ GainSum(<<SellCall(0), SellPut(0)>>) = -100
      /\ GainSum(<<SellCall(1), SellPut(-1)>>) = -100
      /\ GainSum(<<Shares, BuyPut(-1)>>) = 100
      /\ GainSum(<<BuyCall(0), Twice(SellCall(1))>>) = -100
      /\ GainSum(<<BuyPut(0), Twice(SellPut(-1))>>) = 0
  <2>2. /\ GainSum(<<BuyCall(0), SellCall(1)>>) = Gain(BuyCall(0)) + Gain(SellCall(1))
        /\ GainSum(<<BuyPut(0), SellPut(-1)>>) = Gain(BuyPut(0)) + Gain(SellPut(-1))
        /\ GainSum(<<BuyCall(0), BuyPut(0)>>) = Gain(BuyCall(0)) + Gain(BuyPut(0))
        /\ GainSum(<<BuyCall(1), BuyPut(-1)>>) = Gain(BuyCall(1)) + Gain(BuyPut(-1))
        /\ GainSum(<<Shares, SellCall(1)>>) = Gain(Shares) + Gain(SellCall(1))
        /\ GainSum(<<SellPut(0), Cash>>) = Gain(SellPut(0)) + Gain(Cash)
        /\ GainSum(<<SellCall(0), BuyCall(0)>>) = Gain(SellCall(0)) + Gain(BuyCall(0))
        /\ GainSum(<<SellPut(0), BuyPut(-1)>>) = Gain(SellPut(0)) + Gain(BuyPut(-1))
        /\ GainSum(<<SellCall(0), BuyCall(1)>>) = Gain(SellCall(0)) + Gain(BuyCall(1))
        /\ GainSum(<<SellCall(0), SellPut(0)>>) = Gain(SellCall(0)) + Gain(SellPut(0))
        /\ GainSum(<<SellCall(1), SellPut(-1)>>) = Gain(SellCall(1)) + Gain(SellPut(-1))
        /\ GainSum(<<Shares, BuyPut(-1)>>) = Gain(Shares) + Gain(BuyPut(-1))
        /\ GainSum(<<BuyCall(0), Twice(SellCall(1))>>) = Gain(BuyCall(0)) + Gain(Twice(SellCall(1)))
        /\ GainSum(<<BuyPut(0), Twice(SellPut(-1))>>) = Gain(BuyPut(0)) + Gain(Twice(SellPut(-1)))
    BY <1>6, GainsOfFew
  <2> QED
    BY <1>2, <1>5, <2>2
<1>8. /\ GainSum(<<Shares, BuyPut(-1), SellCall(1)>>) = 0
      /\ GainSum(<<SellPut(-1), SellCall(1), BuyCall(2)>>) = 0
      /\ GainSum(<<BuyCall(-1), Twice(SellCall(0)), BuyCall(1)>>) = 0
      /\ GainSum(<<BuyPut(1), Twice(SellPut(0)), BuyPut(-1)>>) = 0
      /\ GainSum(<<BuyCall(-1), Twice(SellCall(0)), BuyCall(2)>>) = 0
  <2>2. /\ GainSum(<<Shares, BuyPut(-1), SellCall(1)>>)
              = Gain(Shares) + Gain(BuyPut(-1)) + Gain(SellCall(1))
        /\ GainSum(<<SellPut(-1), SellCall(1), BuyCall(2)>>)
              = Gain(SellPut(-1)) + Gain(SellCall(1)) + Gain(BuyCall(2))
        /\ GainSum(<<BuyCall(-1), Twice(SellCall(0)), BuyCall(1)>>)
              = Gain(BuyCall(-1)) + Gain(Twice(SellCall(0))) + Gain(BuyCall(1))
        /\ GainSum(<<BuyPut(1), Twice(SellPut(0)), BuyPut(-1)>>)
              = Gain(BuyPut(1)) + Gain(Twice(SellPut(0))) + Gain(BuyPut(-1))
        /\ GainSum(<<BuyCall(-1), Twice(SellCall(0)), BuyCall(2)>>)
              = Gain(BuyCall(-1)) + Gain(Twice(SellCall(0))) + Gain(BuyCall(2))
    BY <1>6, GainsOfFew
  <2> QED
    BY <1>2, <1>5, <2>2
<1>9. /\ GainSum(<<BuyPut(-2), SellPut(-1), SellCall(1), BuyCall(2)>>) = 0
      /\ GainSum(<<BuyPut(-1), SellPut(0), SellCall(0), BuyCall(1)>>) = 0
  <2>2. /\ GainSum(<<BuyPut(-2), SellPut(-1), SellCall(1), BuyCall(2)>>)
              = Gain(BuyPut(-2)) + Gain(SellPut(-1)) + Gain(SellCall(1)) + Gain(BuyCall(2))
        /\ GainSum(<<BuyPut(-1), SellPut(0), SellCall(0), BuyCall(1)>>)
              = Gain(BuyPut(-1)) + Gain(SellPut(0)) + Gain(SellCall(0)) + Gain(BuyCall(1))
    BY <1>6, GainsOfFew
  <2> QED
    BY <1>2, <1>5, <2>2
<1> DEFINE Losing == {"short_straddle", "short_strangle", "call_ratio_spread"}
           Gaining == {"long_straddle", "long_strangle", "protective_put"}
<1>10. \A k \in Templates : GainSum(Registry[k].legs) =
         IF k \in Losing THEN -100 ELSE IF k \in Gaining THEN 100 ELSE 0
  <2> DEFINE gain(k) == GainSum(Registry[k].legs)
  <2>1. /\ gain("short_straddle") = -100 /\ gain("short_strangle") = -100
        /\ gain("call_ratio_spread") = -100
        /\ gain("long_straddle") = 100 /\ gain("long_strangle") = 100
        /\ gain("protective_put") = 100
        /\ gain("bull_call_spread") = 0
        /\ gain("bear_put_spread") = 0
        /\ gain("iron_condor") = 0
        /\ gain("iron_butterfly") = 0
        /\ gain("covered_call") = 0
        /\ gain("cash_secured_put") = 0
        /\ gain("long_calendar") = 0
        /\ gain("bull_put_spread") = 0
        /\ gain("bear_call_spread") = 0
        /\ gain("collar") = 0
        /\ gain("put_ratio_spread") = 0
        /\ gain("jade_lizard") = 0
        /\ gain("call_butterfly") = 0
        /\ gain("put_butterfly") = 0
        /\ gain("broken_wing_butterfly") = 0
    BY <1>7, <1>8, <1>9, RegistryLegs, Zenon
  <2> HIDE DEF gain
  <2>2. \A k \in Templates : gain(k) =
           IF k \in Losing THEN -100 ELSE IF k \in Gaining THEN 100 ELSE 0
    BY <2>1, RegistryLegs
  <2> QED
    BY <2>2 DEF gain
<1>11. /\ \A k \in Losing : Registry[k].risk = "undefined"
       /\ \A k \in Gaining : Registry[k].reward = "undefined"
    BY DEF Registry, Tagged
<1> DEFINE gain == GainSum(Registry[key].legs)
<1>12. gain = IF key \in Losing THEN -100 ELSE IF key \in Gaining THEN 100 ELSE 0
    BY <1>10
<1> HIDE DEF gain, Losing, Gaining
<1>13. gain \in Int /\ (gain < 0 => key \in Losing) /\ (gain > 0 => key \in Gaining)
    BY <1>12
<1> QED
    BY <1>11, <1>13 DEF gain

\* A priced leg of a template.
Priced(leg) == leg.kind = "cash" \/ "entry" \in DOMAIN leg

\* At expiration a leg is worth a whole number; above its strike, every step of the price
\* adds its gain.
LEMMA LegGain ==
    ASSUME NEW leg, NEW bare, PricedAs(leg, bare), Priced(leg), NEW s \in Int, NEW t \in Int
    PROVE  /\ LegPnl(leg, s) \in Int /\ Gain(leg) \in Int /\ Gain(leg) = Gain(bare)
           /\ (leg.kind = "option" => leg.strike <= s /\ leg.strike <= t)
              => LegPnl(leg, s) = LegPnl(leg, t) + Gain(leg) * (s - t)
<1>1. /\ leg.kind \in {"option", "equity", "cash"} /\ leg.call \in BOOLEAN
      /\ leg.sign \in {-1, 1} /\ leg.strike \in Int /\ leg.qty \in Nat
      /\ leg.kind = bare.kind /\ leg.call = bare.call /\ leg.sign = bare.sign
      /\ leg.strike = bare.strike /\ leg.qty = bare.qty
  <2>1. /\ bare.kind \in {"option", "equity", "cash"} /\ bare.call \in BOOLEAN
        /\ bare.sign \in {-1, 1} /\ bare.strike \in Int /\ bare.qty \in Nat
    BY DEF PricedAs, BareLeg
  <2> QED
    BY <2>1 DEF PricedAs, LegFields
<1>2. leg.kind # "cash" => leg.entry \in Int
    BY DEF PricedAs, Priced
<1> DEFINE sign == leg.sign
           k == leg.strike
           q == leg.qty
           e == leg.entry
<1>3. Gain(leg) \in Int /\ Gain(leg) = Gain(bare)
    BY <1>1 DEF Gain, OPTION_MULTIPLIER
<1>4. CASE leg.kind = "cash"
  <2>1. LegPnl(leg, s) = 0 /\ LegPnl(leg, t) = 0 /\ Gain(leg) = 0
    BY <1>4 DEF LegPnl, Gain
  <2> QED
    BY <1>3, <2>1
<1>5. CASE leg.kind = "equity"
  <2>1. /\ LegPnl(leg, s) = sign * (s - e) * q /\ LegPnl(leg, t) = sign * (t - e) * q
        /\ Gain(leg) = sign * q
    BY <1>5 DEF LegPnl, Gain
  <2>2. sign \in {-1, 1} /\ e \in Int /\ q \in Nat
    BY <1>1, <1>2, <1>5
  <2> HIDE DEF sign, e, q
  <2>3. sign * (s - e) * q = sign * (t - e) * q + (sign * q) * (s - t)
    BY <2>2
  <2>4. sign * (s - e) * q \in Int
    BY <2>2
  <2> QED
    BY <1>3, <2>1, <2>3, <2>4
<1>6. CASE leg.kind = "option"
  <2> DEFINE u == Intrinsic(leg, s)
             v == Intrinsic(leg, t)
  <2>1. \A x \in Int : Intrinsic(leg, x) = IF leg.call THEN IF x - k <= 0 THEN 0 ELSE x - k
                                           ELSE IF k - x <= 0 THEN 0 ELSE k - x
    <3> SUFFICES ASSUME NEW x \in Int
                 PROVE  Intrinsic(leg, x) = IF leg.call THEN IF x - k <= 0 THEN 0 ELSE x - k
                                            ELSE IF k - x <= 0 THEN 0 ELSE k - x
      OBVIOUS
    <3>1. x - k \in Int /\ k - x \in Int /\ 0 \in Int
      BY <1>1
    <3>2. /\ Max({x - k, 0}) = IF x - k <= 0 THEN 0 ELSE x - k
          /\ Max({k - x, 0}) = IF k - x <= 0 THEN 0 ELSE k - x
      BY <3>1, Extremes
    <3> QED
      BY <3>2 DEF Intrinsic
  <2>2. u \in Int /\ v \in Int
    BY <1>1, <2>1
  <2>3. k <= s /\ k <= t => u = IF leg.call THEN v + (s - t) ELSE v
    BY <1>1, <2>1
  <2>4. /\ LegPnl(leg, s) = sign * (u - e) * 100 * q /\ LegPnl(leg, t) = sign * (v - e) * 100 * q
        /\ Gain(leg) = IF leg.call THEN sign * 100 * q ELSE 0
    BY <1>6 DEF LegPnl, Gain, OPTION_MULTIPLIER
  <2>5. sign \in {-1, 1} /\ e \in Int /\ q \in Nat
    BY <1>1, <1>2, <1>6
  <2> DEFINE strike == k
  <2>6. strike <= s /\ strike <= t => u = IF leg.call THEN v + (s - t) ELSE v
    BY <2>3
  <2> HIDE DEF sign, e, q, u, v
  <2>7. sign * (u - e) * 100 * q \in Int
    BY <2>2, <2>5
  <2>8. ASSUME u = v + (s - t)
        PROVE  sign * (u - e) * 100 * q = sign * (v - e) * 100 * q + (sign * 100 * q) * (s - t)
    BY <2>2, <2>5, <2>8
  <2>9. ASSUME u = v
        PROVE  sign * (u - e) * 100 * q = sign * (v - e) * 100 * q + 0 * (s - t)
    BY <2>2, <2>5, <2>9
  <2> QED
    BY <1>3, <1>6, <2>4, <2>6, <2>7, <2>8, <2>9 DEF k
<1> QED
    BY <1>1, <1>4, <1>5, <1>6

\* A position made of a template's legs, all of them priced.
Position(position, bare) ==
    /\ bare \in Seq(BareLeg) /\ DOMAIN position = DOMAIN bare
    /\ \A i \in DOMAIN bare : PricedAs(position[i], bare[i]) /\ Priced(position[i])

\* A position gains what its legs gain.
LEMMA PositionMoves ==
    ASSUME NEW position, IsFiniteSet(DOMAIN position), NEW s \in Int, NEW t \in Int, NEW h,
           \A i \in DOMAIN position :
               /\ LegPnl(position[i], s) \in Int /\ LegPnl(position[i], t) \in Int /\ h[i] \in Int
               /\ LegPnl(position[i], s) = LegPnl(position[i], t) + h[i] * (s - t)
    PROVE  /\ Pnl(position, s) \in Int /\ SumOver(h, DOMAIN position) \in Int
           /\ Pnl(position, s) = Pnl(position, t) + SumOver(h, DOMAIN position) * (s - t)
<1> DEFINE D == DOMAIN position
           f == [i \in D |-> LegPnl(position[i], s)]
           g == [i \in D |-> LegPnl(position[i], t)]
           d == s - t
           hd == [i \in D |-> h[i] * d]
<1>1. IsFiniteSet(D)
    OBVIOUS
<1>2. \A i \in D : /\ f[i] \in Int /\ g[i] \in Int /\ h[i] \in Int
                   /\ f[i] = g[i] + h[i] * d
    OBVIOUS
<1>3. d \in Int /\ \A i \in D : hd[i] = h[i] * d
    OBVIOUS
<1>4. Pnl(position, s) = SumOver(f, D) /\ Pnl(position, t) = SumOver(g, D)
    BY DEF Pnl
<1> HIDE DEF f, g, d, hd
<1>5. SumOver(hd, D) = SumOver(h, D) * d
    BY <1>1, <1>2, <1>3, SumScale
<1>6. \A i \in D : g[i] \in Int /\ hd[i] \in Int /\ f[i] = g[i] + hd[i]
  <2>1. \A x, y \in Int : x * y \in Int
    OBVIOUS
  <2> QED
    BY <1>2, <1>3, <2>1
<1>7. SumOver(f, D) = SumOver(g, D) + SumOver(hd, D)
    BY <1>1, <1>6, SumPlus
<1>8. SumOver(f, D) \in Int /\ SumOver(h, D) \in Int
    BY <1>1, <1>2, SumType
<1> QED
    BY <1>4, <1>5, <1>7, <1>8 DEF d

\* The numbers up to one are finitely many, of a sequence its positions.
LEMMA UpToIsFinite == ASSUME NEW n \in Nat PROVE IsFiniteSet(1..n)
    BY FS_Interval

\* The legs of a position are finitely many.
LEMMA PositionIsFinite ==
    ASSUME NEW position, NEW bare, Position(position, bare)
    PROVE  IsFiniteSet(DOMAIN position)
<1>1. DOMAIN bare = 1..Len(bare) /\ Len(bare) \in Nat
    BY DEF Position
<1>2. IsFiniteSet(1..Len(bare))
    BY <1>1, UpToIsFinite, Zenon
<1> QED
    BY <1>1, <1>2 DEF Position

\* An option of a position has one of its strikes.
LEMMA StrikesOfLegs ==
    ASSUME NEW position, NEW i \in DOMAIN position, position[i].kind = "option"
    PROVE  position[i].strike \in Strikes(position)
<1>1. position[i] \in ToSet(position)
    BY DEF ToSet
<1> QED
    BY <1>1 DEF Strikes

\* Above every strike the position gains what its gains say.
LEMMA PositionGain ==
    ASSUME NEW position, NEW bare, Position(position, bare), NEW s \in Int, NEW t \in Int,
           \A k \in Strikes(position) : k <= s /\ k <= t
    PROVE  /\ Pnl(position, s) \in Int /\ GainSum(bare) \in Int
           /\ Pnl(position, s) = Pnl(position, t) + GainSum(bare) * (s - t)
<1> DEFINE D == DOMAIN position
           h == [i \in D |-> Gain(bare[i])]
<1>1. IsFiniteSet(D) /\ DOMAIN bare = D
    BY PositionIsFinite DEF Position
<1>2. \A i \in D : h[i] = Gain(bare[i])
    OBVIOUS
<1>3. GainSum(bare) = SumOver(h, D)
    BY <1>1 DEF GainSum
<1> HIDE DEF h
<1>4. ASSUME NEW i \in D
      PROVE  /\ LegPnl(position[i], s) \in Int /\ LegPnl(position[i], t) \in Int /\ h[i] \in Int
             /\ LegPnl(position[i], s) = LegPnl(position[i], t) + h[i] * (s - t)
  <2>1. PricedAs(position[i], bare[i]) /\ Priced(position[i])
    BY <1>1 DEF Position
  <2>2. position[i].kind = "option" => position[i].strike <= s /\ position[i].strike <= t
    BY StrikesOfLegs
  <2>3. /\ LegPnl(position[i], s) \in Int /\ LegPnl(position[i], t) \in Int
        /\ Gain(position[i]) \in Int /\ Gain(position[i]) = Gain(bare[i])
        /\ LegPnl(position[i], s) = LegPnl(position[i], t) + Gain(position[i]) * (s - t)
    BY <2>1, <2>2, LegGain
  <2> QED
    BY <1>2, <2>3
<1> QED
    BY <1>1, <1>3, <1>4, PositionMoves

\* What a leg gains with every step of a price from a on, up to the next strike.
GainAbove(leg, a) ==
    IF leg.kind = "option" /\ a < leg.strike
    THEN IF leg.call THEN 0 ELSE (0 - leg.sign) * OPTION_MULTIPLIER * leg.qty
    ELSE Gain(leg)

\* Between two prices with no strike in between, a leg is worth what it was at the first
\* and a gain for each step.
LEMMA LegIsStraight ==
    ASSUME NEW leg, NEW bare, PricedAs(leg, bare), Priced(leg),
           NEW a \in Int, NEW b \in Int, NEW s \in a..b,
           leg.kind = "option" => leg.strike <= a \/ b <= leg.strike
    PROVE  /\ LegPnl(leg, s) \in Int /\ LegPnl(leg, a) \in Int /\ GainAbove(leg, a) \in Int
           /\ LegPnl(leg, s) = LegPnl(leg, a) + GainAbove(leg, a) * (s - a)
<1>1. s \in Int /\ a <= s /\ s <= b
    OBVIOUS
<1>2. CASE ~(leg.kind = "option" /\ a < leg.strike)
  <2>1. leg.kind = "option" => leg.strike <= s /\ leg.strike <= a
    <3>1. leg.kind = "option" => leg.strike \in Int
      BY DEF PricedAs, BareLeg, LegFields
    <3> QED
      BY <1>1, <1>2, <3>1
  <2>2. /\ LegPnl(leg, s) \in Int /\ LegPnl(leg, a) \in Int /\ Gain(leg) \in Int
        /\ LegPnl(leg, s) = LegPnl(leg, a) + Gain(leg) * (s - a)
    BY <1>1, <2>1, LegGain
  <2> QED
    BY <1>2, <2>2 DEF GainAbove
<1>3. CASE leg.kind = "option" /\ a < leg.strike
  <2> DEFINE sign == leg.sign
             k == leg.strike
             q == leg.qty
             e == leg.entry
             u == Intrinsic(leg, s)
             v == Intrinsic(leg, a)
  <2>1. /\ leg.call \in BOOLEAN /\ sign \in {-1, 1} /\ k \in Int /\ q \in Nat /\ e \in Int
    <3>1. bare.call \in BOOLEAN /\ bare.sign \in {-1, 1} /\ bare.strike \in Int /\ bare.qty \in Nat
      BY DEF PricedAs, BareLeg
    <3> QED
      BY <1>3, <3>1 DEF PricedAs, LegFields, Priced
  <2>2. s <= k /\ a <= k
    BY <1>1, <1>3, <2>1
  <2>3. u = (IF leg.call THEN 0 ELSE k - s) /\ v = (IF leg.call THEN 0 ELSE k - a)
    <3>1. s - k \in Int /\ k - s \in Int /\ a - k \in Int /\ k - a \in Int /\ 0 \in Int
      BY <1>1, <2>1
    <3>2. /\ Max({s - k, 0}) = IF s - k <= 0 THEN 0 ELSE s - k
          /\ Max({k - s, 0}) = IF k - s <= 0 THEN 0 ELSE k - s
          /\ Max({a - k, 0}) = IF a - k <= 0 THEN 0 ELSE a - k
          /\ Max({k - a, 0}) = IF k - a <= 0 THEN 0 ELSE k - a
      BY <3>1, Extremes
    <3>3. /\ u = IF leg.call THEN Max({s - k, 0}) ELSE Max({k - s, 0})
          /\ v = IF leg.call THEN Max({a - k, 0}) ELSE Max({k - a, 0})
      BY DEF Intrinsic
    <3> HIDE DEF u, v
    <3> QED
      BY <1>1, <2>1, <2>2, <3>2, <3>3
  <2>4. /\ LegPnl(leg, s) = sign * (u - e) * 100 * q /\ LegPnl(leg, a) = sign * (v - e) * 100 * q
        /\ GainAbove(leg, a) = IF leg.call THEN 0 ELSE (0 - sign) * 100 * q
    BY <1>3 DEF LegPnl, GainAbove, OPTION_MULTIPLIER
  <2> HIDE DEF sign, k, q, e, u, v
  <2>5. u \in Int /\ v \in Int
    BY <1>1, <2>1, <2>3
  <2>6. /\ sign * (u - e) * 100 * q \in Int /\ sign * (v - e) * 100 * q \in Int
        /\ (0 - sign) * 100 * q \in Int
    BY <2>1, <2>5
  <2>7. CASE leg.call
    <3>1. u = v
      BY <2>3, <2>7
    <3>2. sign * (u - e) * 100 * q = sign * (v - e) * 100 * q + 0 * (s - a)
      BY <1>1, <2>5, <2>6, <3>1
    <3> QED
      BY <2>4, <2>6, <2>7, <3>2
  <2>8. CASE ~leg.call
    <3>1. u = v - (s - a)
      BY <1>1, <2>1, <2>3, <2>8
    <3>2. sign * (u - e) * 100 * q = sign * (v - e) * 100 * q + ((0 - sign) * 100 * q) * (s - a)
      BY <1>1, <2>1, <2>5, <3>1
    <3> QED
      BY <2>4, <2>6, <2>8, <3>2
  <2> QED
    BY <2>7, <2>8
<1> QED
    BY <1>2, <1>3

\* So between two such prices a position is worth no less than at one of them, and no more
\* than at one of them.
LEMMA WorthBetween ==
    ASSUME NEW position, NEW bare, Position(position, bare),
           NEW a \in Int, NEW b \in Int, NEW s \in a..b,
           \A k \in Strikes(position) : k <= a \/ b <= k
    PROVE  /\ Pnl(position, s) \in Int /\ Pnl(position, a) \in Int /\ Pnl(position, b) \in Int
           /\ Pnl(position, a) <= Pnl(position, s) \/ Pnl(position, b) <= Pnl(position, s)
           /\ Pnl(position, s) <= Pnl(position, a) \/ Pnl(position, s) <= Pnl(position, b)
<1> DEFINE D == DOMAIN position
           h == [i \in D |-> GainAbove(position[i], a)]
           g == SumOver(h, D)
<1>1. IsFiniteSet(D) /\ DOMAIN bare = D
    BY PositionIsFinite DEF Position
<1>2. \A i \in D : h[i] = GainAbove(position[i], a)
    OBVIOUS
<1> HIDE DEF h
<1>3. ASSUME NEW x \in a..b
      PROVE  /\ Pnl(position, x) \in Int /\ g \in Int
             /\ Pnl(position, x) = Pnl(position, a) + g * (x - a)
  <2>1. ASSUME NEW i \in D
        PROVE  /\ LegPnl(position[i], x) \in Int /\ LegPnl(position[i], a) \in Int /\ h[i] \in Int
               /\ LegPnl(position[i], x) = LegPnl(position[i], a) + h[i] * (x - a)
    <3>1. PricedAs(position[i], bare[i]) /\ Priced(position[i])
      BY <1>1 DEF Position
    <3>2. position[i].kind = "option" => position[i].strike <= a \/ b <= position[i].strike
      BY StrikesOfLegs
    <3> QED
      BY <1>2, <3>1, <3>2, LegIsStraight
  <2>2. x \in Int
    OBVIOUS
  <2> QED
    BY <1>1, <2>1, <2>2, PositionMoves
<1> HIDE DEF g
<1> DEFINE P(x) == Pnl(position, x)
<1>4. a \in a..b /\ b \in a..b /\ s \in Int /\ s - a \in Nat /\ b - a \in Nat /\ s - a <= b - a
    OBVIOUS
<1>5. /\ P(s) \in Int /\ P(a) \in Int /\ P(b) \in Int /\ g \in Int
      /\ P(s) = P(a) + g * (s - a) /\ P(b) = P(a) + g * (b - a)
    BY <1>3, <1>4
<1> HIDE DEF P
<1> DEFINE m == s - a
           n == b - a
<1>6. m \in Nat /\ n \in Nat /\ m <= n /\ P(s) = P(a) + g * m /\ P(b) = P(a) + g * n
    BY <1>4, <1>5
<1> HIDE DEF m, n
<1>7. g >= 0 => 0 <= g * m /\ g * m <= g * n
    BY <1>5, <1>6
<1>8. ~(g >= 0) => g * m <= 0 /\ g * n <= g * m
    BY <1>5, <1>6
<1>9. g * m \in Int /\ g * n \in Int
    BY <1>5, <1>6
<1>10. /\ P(a) <= P(s) \/ P(b) <= P(s)
       /\ P(s) <= P(a) \/ P(s) <= P(b)
    BY <1>5, <1>6, <1>7, <1>8, <1>9
<1> QED
    BY <1>5, <1>10 DEF P

\* The largest of a set of numbers.
LEMMA LargestOf ==
    ASSUME NEW S \in SUBSET Int, IsFiniteSet(S), S # {}
    PROVE  Max(S) \in S /\ \A x \in S : x <= Max(S)
<1> DEFINE n == Cardinality(S)
           m == Ascending(S)[n]
<1>1. n \in Nat \ {0}
    BY FS_CardinalityType, FS_EmptySet
<1>2. m \in S
    BY <1>1, AscendingOrder
<1>3. ASSUME NEW x \in S PROVE x <= m
  <2> DEFINE i == Cardinality(UpTo(S, x))
  <2>1. i \in 1..n /\ Ascending(S)[i] = x
    BY AscendingOrder
  <2>2. i = n \/ i < n
    BY <1>1, <2>1
  <2>3. n \in 1..n
    BY <1>1
  <2>4. i < n => x < m
    BY <2>1, <2>3, AscendingOrder
  <2>5. i = n => x = m
    BY <2>1
  <2>6. x \in Int /\ m \in Int
    BY <1>2, Zenon
  <2> HIDE DEF i, m
  <2> QED
    BY <2>2, <2>4, <2>5, <2>6
<1> HIDE DEF m
<1>4. \E x \in S : \A y \in S : x >= y
  <2>1. \A y \in S : m >= y
    BY <1>2, <1>3
  <2> QED
    BY <1>2, <2>1
<1>5. Max(S) \in S /\ \A y \in S : Max(S) >= y
    BY <1>4, Zenon DEF Max
<1> QED
    BY <1>5

\* The smallest of a set of numbers.
LEMMA SmallestOf ==
    ASSUME NEW S \in SUBSET Int, IsFiniteSet(S), S # {}
    PROVE  Min(S) \in S /\ \A x \in S : Min(S) <= x
<1> DEFINE m == Ascending(S)[1]
           n == Cardinality(S)
<1>1. n \in Nat \ {0} /\ 1 \in 1..n
    BY FS_CardinalityType, FS_EmptySet
<1>2. m \in S
    BY <1>1, AscendingOrder
<1>3. ASSUME NEW x \in S PROVE m <= x
  <2> DEFINE i == Cardinality(UpTo(S, x))
  <2>1. i \in 1..n /\ Ascending(S)[i] = x
    BY AscendingOrder
  <2>2. i = 1 \/ 1 < i
    BY <1>1, <2>1
  <2>3. 1 < i => m < x
    BY <1>1, <2>1, AscendingOrder
  <2>4. i = 1 => x = m
    BY <2>1
  <2>5. x \in Int /\ m \in Int
    BY <1>2, Zenon
  <2> HIDE DEF i, m
  <2> QED
    BY <2>2, <2>3, <2>4, <2>5
<1> HIDE DEF m
<1>4. Min(S) = m
    BY <1>2, <1>3, MinIsLeast
<1> QED
    BY <1>2, <1>3, <1>4

\* What is in a set and above the rest of it is its largest.
LEMMA MaxIsLargest ==
    ASSUME NEW S \in SUBSET Int, NEW x \in S, \A y \in S : y <= x
    PROVE  Max(S) = x
<1>1. \A y \in S : (\A z \in S : y >= z) => y = x
    OBVIOUS
<1>2. \A y \in S : x >= y
    OBVIOUS
<1> QED
    BY <1>1, <1>2 DEF Max

\* The prices a curve is drawn at: finitely many, with every strike and one past them.
LEMMA GridReaches ==
    ASSUME NEW position, IsFiniteSet(Strikes(position)), Strikes(position) # {},
           Strikes(position) \subseteq Nat \ {0}, NEW spot \in Int
    PROVE  LET hi == GridEnd(position, spot)
               grid == {(i * hi) \div (Points - 1) : i \in 0 .. Points - 1} \cup Strikes(position)
           IN  /\ grid \in SUBSET Int /\ IsFiniteSet(grid)
               /\ Strikes(position) \subseteq grid /\ hi \in grid /\ hi \in Int
               /\ \A k \in Strikes(position) : k < hi
<1> DEFINE S == Strikes(position)
           top == Max({spot} \cup S)
           hi == GridEnd(position, spot)
           n == Points - 1
           piece(i) == (i * hi) \div n
           f == [i \in 0..n |-> piece(i)]
           line == {f[i] : i \in 0..n}
           grid == {(i * hi) \div (Points - 1) : i \in 0 .. Points - 1} \cup S
<1>1. n \in Nat \ {0} /\ Points \in Nat /\ n = Points - 1
    BY BuilderAssumption
<1>2. top \in Int /\ \A k \in {spot} \cup S : k <= top
  <2> DEFINE all == {spot} \cup S
  <2>1. all \in SUBSET Int /\ all # {}
    OBVIOUS
  <2>2. IsFiniteSet(all)
    BY FS_Singleton, FS_Union, Zenon
  <2> HIDE DEF all
  <2>3. Max(all) \in Int /\ \A k \in all : k <= Max(all)
    BY <2>1, <2>2, LargestOf, Zenon
  <2> QED
    BY <2>3 DEF all
<1>3. hi = 2 * top
    BY DEF GridEnd
<1> HIDE DEF top, hi
<1>4. hi \in Int /\ \A k \in S : k < hi
  <2> SUFFICES ASSUME NEW k \in S PROVE hi \in Int /\ k < hi
    BY <1>2, <1>3
  <2>1. k \in Nat \ {0} /\ k <= top
    BY <1>2
  <2> QED
    BY <1>2, <1>3, <2>1
<1> HIDE DEF n
<1>5. \A i \in 0..n : piece(i) \in Int
  <2> SUFFICES ASSUME NEW i \in 0..n PROVE piece(i) \in Int
    OBVIOUS
  <2> DEFINE a == i * hi
  <2>1. a \in Int
    BY <1>1, <1>4
  <2> HIDE DEF a
  <2>2. a \div n \in Int
    BY <1>1, <2>1
  <2> QED
    BY <2>2 DEF a
<1>6. piece(n) = hi
    BY <1>1, <1>4, AllParts
<1> HIDE DEF piece
<1>7. grid = line \cup S
  <2>1. grid = {piece(i) : i \in 0..n} \cup S
    BY DEF piece, n
  <2>2. \A i \in 0..n : f[i] = piece(i)
    OBVIOUS
  <2> HIDE DEF grid, f
  <2> QED
    BY <2>1, <2>2
<1>8. line \in SUBSET Int /\ hi \in line /\ IsFiniteSet(line)
  <2>1. IsFiniteSet(0..n)
    BY <1>1, FS_Interval
  <2>2. IsFiniteSet(line)
    BY <2>1, FiniteValues, Zenon
  <2>3. n \in 0..n
    BY <1>1
  <2>4. \A i \in 0..n : f[i] = piece(i)
    OBVIOUS
  <2> HIDE DEF f
  <2>5. f[n] = hi
    BY <1>6, <2>3, <2>4
  <2> QED
    BY <1>5, <2>2, <2>3, <2>4, <2>5
<1> HIDE DEF line, grid
<1>9. grid \in SUBSET Int /\ IsFiniteSet(grid) /\ S \subseteq grid /\ hi \in grid
  <2>1. IsFiniteSet(S) /\ S \in SUBSET Int
    OBVIOUS
  <2> HIDE DEF S
  <2>2. IsFiniteSet(line \cup S)
    BY <1>8, <2>1, FS_Union, Zenon
  <2>3. grid = line \cup S
    BY <1>7
  <2> QED
    BY <1>8, <2>1, <2>2, <2>3
<1> QED
    BY <1>4, <1>9 DEF grid, hi

\* They start at zero and end past the strikes.
LEMMA GridSpans ==
    ASSUME NEW position, IsFiniteSet(Strikes(position)), Strikes(position) # {},
           Strikes(position) \subseteq Nat \ {0}, NEW spot \in Int
    PROVE  LET hi == GridEnd(position, spot)
               grid == {(i * hi) \div (Points - 1) : i \in 0 .. Points - 1} \cup Strikes(position)
           IN  0 \in grid /\ grid \subseteq 0..hi /\ hi \in Nat
<1> DEFINE S == Strikes(position)
           hi == GridEnd(position, spot)
           n == Points - 1
           piece(i) == (i * hi) \div n
           grid == {(i * hi) \div (Points - 1) : i \in 0 .. Points - 1} \cup S
<1>1. n \in Nat \ {0} /\ n \in Nat /\ n > 0
    BY BuilderAssumption
<1>2. hi \in Int /\ \A k \in S : k < hi
    BY GridReaches
<1> HIDE DEF n, hi
<1>3. hi \in Nat /\ S \subseteq 0..hi
  <2>1. \A k \in S : k \in Nat \ {0} /\ k < hi
    BY <1>2
  <2> QED
    BY <1>2, <2>1
<1>4. ASSUME NEW i \in 0..n PROVE piece(i) \in 0..hi
  <2> DEFINE a == i * hi
             q == a \div n
  <2>1. a \in Int /\ 0 <= a /\ a <= n * hi
    BY <1>1, <1>3
  <2> HIDE DEF a
  <2>2. q \in Int /\ n * q <= a /\ a < n * q + n
    BY <1>1, <2>1
  <2> HIDE DEF q
  <2>3. ~(q < 0)
    <3> SUFFICES ASSUME q <= -1 PROVE FALSE
      BY <2>2
    <3>1. n * q <= n * (-1)
      BY <1>1, <2>2
    <3> QED
      BY <1>1, <2>1, <2>2, <3>1
  <2>4. ~(q > hi)
    <3> SUFFICES ASSUME q >= hi + 1 PROVE FALSE
      BY <1>3, <2>2
    <3>1. n * q >= n * (hi + 1)
      BY <1>1, <1>3, <2>2
    <3>2. n * (hi + 1) = n * hi + n
      BY <1>1, <1>3
    <3>3. n * hi \in Int /\ n * q \in Int
      BY <1>1, <1>3, <2>2
    <3> QED
      BY <1>1, <2>1, <2>2, <3>1, <3>2, <3>3
  <2> QED
    BY <1>3, <2>2, <2>3, <2>4 DEF q, a
<1>5. piece(0) = 0
  <2>1. 0 * hi = n * 0 /\ 0 \in Int
    BY <1>2, <1>1
  <2>2. \A a \in Int : (n * a) \div n = a
    BY <1>1, AllParts
  <2> QED
    BY <2>1, <2>2, Zenon
<1>6. 0 \in 0..n
    BY <1>1
<1>7. grid = {piece(i) : i \in 0..n} \cup S
    BY DEF n
<1> HIDE DEF piece, grid
<1>8. 0 \in grid /\ grid \subseteq 0..hi
    BY <1>3, <1>4, <1>5, <1>6, <1>7
<1> QED
    BY <1>3, <1>8 DEF grid, hi

\* The strikes of a template's legs, priced or not, are some and above zero.
LEMMA StrikesFit ==
    ASSUME NEW key \in Templates, NEW position, Position(position, Registry[key].legs)
    PROVE  /\ IsFiniteSet(Strikes(position)) /\ Strikes(position) # {}
           /\ Strikes(position) \subseteq Nat \ {0}
<1> DEFINE bare == Registry[key].legs
           D == DOMAIN bare
           f == [i \in D |-> position[i].strike]
           options == {i \in D : bare[i].kind = "option"}
<1>1. /\ bare \in Seq(TemplateLeg) /\ options # {}
      /\ \A i \in D : bare[i] \in TemplateLeg /\ PricedAs(position[i], bare[i])
      /\ DOMAIN position = D
  <2>1. bare \in Seq(TemplateLeg) /\ options # {}
    BY RegistryTypes
  <2> HIDE DEF bare
  <2>2. \A i \in D : bare[i] \in TemplateLeg
    BY <2>1
  <2> QED
    BY <2>1, <2>2 DEF Position, bare
<1>2. \A i \in D : position[i].kind = bare[i].kind /\ position[i].strike = bare[i].strike
    BY <1>1 DEF PricedAs, LegFields
<1>3. Strikes(position) = {f[i] : i \in options}
  <2>1. ToSet(position) = {position[i] : i \in D}
    BY <1>1 DEF ToSet
  <2>2. \A i \in D : f[i] = position[i].strike
    OBVIOUS
  <2> HIDE DEF f, bare
  <2> QED
    BY <1>2, <2>1, <2>2 DEF Strikes
<1>4. IsFiniteSet(options)
  <2>1. D = 1..Len(bare) /\ Len(bare) \in Nat
    BY <1>1
  <2> HIDE DEF bare
  <2>2. IsFiniteSet(1..Len(bare))
    BY <2>1, UpToIsFinite, Zenon
  <2> QED
    BY <2>1, <2>2, FS_Subset
<1>5. \A i \in options : f[i] \in Nat \ {0}
    BY <1>1, <1>2 DEF TemplateLeg
<1> HIDE DEF f, options
<1> QED
    BY <1>1, <1>3, <1>4, <1>5, FiniteValues

\* What an analysis says of the far side of a position is the sign of its gains.
LEMMA SlopeIsGain ==
    ASSUME NEW key \in Templates, NEW position, Position(position, Registry[key].legs),
           NEW spot \in Int
    PROVE  LET result == max_pl(expiration_curve(position, spot))
           IN  /\ result.unbounded_loss = (GainSum(Registry[key].legs) < 0)
               /\ result.unbounded_profit = (GainSum(Registry[key].legs) > 0)
<1> DEFINE bare == Registry[key].legs
           S == Strikes(position)
           hi == GridEnd(position, spot)
           grid == {(i * hi) \div (Points - 1) : i \in 0 .. Points - 1} \cup S
           sorted == Ascending(grid)
           curve == expiration_curve(position, spot)
           n == Cardinality(grid)
           slope == curve[Len(curve)].pnl - curve[Len(curve) - 1].pnl
           gain == GainSum(bare)
<1>1. IsFiniteSet(S) /\ S # {} /\ S \subseteq Nat \ {0}
    BY StrikesFit
<1>2. /\ grid \in SUBSET Int /\ IsFiniteSet(grid)
      /\ S \subseteq grid /\ hi \in grid /\ hi \in Int
      /\ \A k \in S : k < hi
    BY <1>1, GridReaches, Zenon
<1>3. curve = [i \in DOMAIN sorted |-> [spot |-> sorted[i], pnl |-> Pnl(position, sorted[i])]]
    BY DEF expiration_curve
<1> DEFINE result == max_pl(curve)
<1>4. result.unbounded_profit = (slope > 0) /\ result.unbounded_loss = (slope < 0)
    BY DEF max_pl
<1> HIDE DEF grid, curve, hi, result
<1>5. /\ n \in Nat /\ DOMAIN sorted = 1..n /\ \A i \in 1..n : sorted[i] \in grid
      /\ \A i, j \in 1..n : i < j => sorted[i] < sorted[j]
      /\ \A p \in grid : \E i \in 1..n : sorted[i] = p
    BY <1>2, AscendingOrder
<1> HIDE DEF sorted, n
<1>6. Len(curve) = n /\ \A i \in 1..n : curve[i].pnl = Pnl(position, sorted[i])
  <2>1. DOMAIN curve = 1..n /\ \A i \in 1..n : curve[i].pnl = Pnl(position, sorted[i])
    BY <1>3, <1>5
  <2>2. curve = [i \in 1..n |-> [spot |-> sorted[i], pnl |-> Pnl(position, sorted[i])]]
    BY <1>3, <1>5
  <2>3. Len(curve) = n
    BY <1>5, <2>2
  <2> QED
    BY <2>1, <2>3
<1>7. n \in 1..n /\ n - 1 \in 1..n
      /\ \A k \in S : k <= sorted[n - 1] /\ k <= sorted[n]
  <2>1. PICK last \in 1..n : sorted[last] = hi
    BY <1>2, <1>5
  <2>2. ASSUME NEW k \in S
        PROVE  n - 1 \in 1..n /\ k <= sorted[n - 1] /\ k <= sorted[n]
    <3>1. PICK i \in 1..n : sorted[i] = k
      BY <1>2, <1>5, Zenon
    <3>2. k < hi /\ k \in Int
      BY <1>2, Zenon
    <3>3. i < last
      <4> SUFFICES ASSUME ~(i < last) PROVE FALSE
        OBVIOUS
      <4>1. last = i \/ last < i
        BY <1>5
      <4>2. sorted[last] = sorted[i] \/ sorted[last] < sorted[i]
        BY <1>5, <4>1
      <4> QED
        BY <1>2, <2>1, <3>1, <3>2, <4>2
    <3>4. n - 1 \in 1..n /\ n \in 1..n /\ (i = n - 1 \/ i < n - 1) /\ i < n
      BY <1>5, <3>3
    <3>5. (k = sorted[n - 1] \/ k < sorted[n - 1]) /\ k < sorted[n]
      BY <1>5, <3>1, <3>4
    <3>6. sorted[n - 1] \in Int /\ sorted[n] \in Int
      BY <1>2, <1>5, <3>4, Zenon
    <3> QED
      BY <3>2, <3>4, <3>5, <3>6
  <2>3. n \in 1..n
    BY <1>5, <2>1
  <2> QED
    BY <1>1, <2>2, <2>3
<1> DEFINE s == sorted[n]
           t == sorted[n - 1]
<1>8. s \in Int /\ t \in Int /\ t < s
  <2>1. n - 1 < n
    BY <1>5
  <2>2. \A i \in 1..n : sorted[i] \in Int
    BY <1>2, <1>5, Zenon
  <2> QED
    BY <1>5, <1>7, <2>1, <2>2
<1>9. /\ Pnl(position, s) \in Int /\ Pnl(position, t) \in Int
      /\ Pnl(position, s) = Pnl(position, t) + gain * (s - t)
  <2>1. \A k \in Strikes(position) : k <= s /\ k <= t
    BY <1>7
  <2> HIDE DEF s, t
  <2> QED
    BY <1>8, <2>1, PositionGain
<1>10. slope = Pnl(position, s) - Pnl(position, t)
    BY <1>6, <1>7
<1>11. gain \in Int
    BY TagsOfGains
<1> DEFINE p == Pnl(position, s)
           q == Pnl(position, t)
           d == s - t
<1>12. /\ p \in Int /\ q \in Int /\ p = q + gain * d /\ d \in Nat \ {0} /\ slope = p - q
  <2>1. d \in Nat \ {0}
    BY <1>8
  <2> HIDE DEF slope
  <2> QED
    BY <1>9, <1>10, <2>1
<1> HIDE DEF p, q, d, slope, gain
<1>13. slope \in Int /\ slope = gain * d
  <2>1. gain * d \in Int
    BY <1>11, <1>12
  <2> QED
    BY <1>12, <2>1
<1>14. (slope < 0) = (gain < 0) /\ (slope > 0) = (gain > 0)
  <2>1. (gain < 0 => gain * d < 0) /\ (gain = 0 => gain * d = 0) /\ (gain > 0 => gain * d > 0)
    BY <1>11, <1>12
  <2> QED
    BY <1>11, <1>13, <2>1
<1> QED
    BY <1>4, <1>14, Zenon DEF result, curve, gain

\* What the builder has: the legs of its template, in parts priced, and an analysis of
\* them when all of them are.
BuilderInv ==
    /\ template # NoTemplate =>
          /\ template \in Templates
          /\ DOMAIN legs = DOMAIN Registry[template].legs
          /\ \A i \in DOMAIN legs : PricedAs(legs[i], Registry[template].legs[i])
    /\ analysis # NoAnalysis =>
          /\ template # NoTemplate
          /\ \A i \in DOMAIN legs : ~Unpriced(legs[i])
          /\ analysis.spot \in Int
          /\ analysis.result = max_pl(expiration_curve(legs, analysis.spot))

\* The position it analyses.
LEMMA AnalysedPosition ==
    ASSUME BuilderInv, analysis # NoAnalysis
    PROVE  template \in Templates /\ Position(legs, Registry[template].legs)
<1>1. template \in Templates /\ Registry[template].legs \in Seq(BareLeg)
    BY RegistryTypes DEF BuilderInv
<1> QED
    BY <1>1 DEF BuilderInv, Position, Priced, Unpriced

\* Its tags say what the far side of its position does.
LEMMA TagsHold == BuilderInv => TagsHonest
<1> SUFFICES ASSUME BuilderInv, analysis # NoAnalysis PROVE TagsHonest
    BY DEF TagsHonest
<1>1. template \in Templates /\ Position(legs, Registry[template].legs)
    BY AnalysedPosition
<1>2. /\ analysis.spot \in Int
      /\ analysis.result = max_pl(expiration_curve(legs, analysis.spot))
    BY DEF BuilderInv
<1>3. /\ analysis.result.unbounded_loss = (GainSum(Registry[template].legs) < 0)
      /\ analysis.result.unbounded_profit = (GainSum(Registry[template].legs) > 0)
    BY <1>1, <1>2, SlopeIsGain
<1> QED
    BY <1>1, <1>3, TagsOfGains DEF TagsHonest

\* The curve's values are the position's at the grid.
LEMMA CurveAtGrid ==
    ASSUME NEW position, IsFiniteSet(Strikes(position)), Strikes(position) # {},
           Strikes(position) \subseteq Nat \ {0}, NEW spot \in Int
    PROVE  LET hi == GridEnd(position, spot)
               grid == {(i * hi) \div (Points - 1) : i \in 0 .. Points - 1} \cup Strikes(position)
               curve == expiration_curve(position, spot)
           IN  {curve[i].pnl : i \in DOMAIN curve} = {Pnl(position, p) : p \in grid}
<1> DEFINE hi == GridEnd(position, spot)
           grid == {(i * hi) \div (Points - 1) : i \in 0 .. Points - 1} \cup Strikes(position)
           sorted == Ascending(grid)
           curve == expiration_curve(position, spot)
           n == Cardinality(grid)
<1>1. grid \in SUBSET Int /\ IsFiniteSet(grid)
    BY GridReaches, Zenon
<1>2. curve = [i \in DOMAIN sorted |-> [spot |-> sorted[i], pnl |-> Pnl(position, sorted[i])]]
    BY DEF expiration_curve
<1> HIDE DEF grid, curve
<1>3. /\ DOMAIN sorted = 1..n /\ \A i \in 1..n : sorted[i] \in grid
      /\ \A p \in grid : \E i \in 1..n : sorted[i] = p
    BY <1>1, AscendingOrder
<1> HIDE DEF sorted, n
<1>4. DOMAIN curve = 1..n /\ \A i \in 1..n : curve[i].pnl = Pnl(position, sorted[i])
    BY <1>2, <1>3
<1>5. {curve[i].pnl : i \in DOMAIN curve} = {Pnl(position, p) : p \in grid}
    BY <1>3, <1>4
<1> QED
    BY <1>5 DEF grid, curve

\* No price inside the grid is worth less, or more, than every price of the grid.
LEMMA GridHasExtremes ==
    ASSUME NEW key \in Templates, NEW position, Position(position, Registry[key].legs),
           NEW grid \in SUBSET Nat, IsFiniteSet(grid), 0 \in grid, NEW hi \in grid,
           Strikes(position) \subseteq grid, NEW s \in 0..hi
    PROVE  /\ Pnl(position, s) \in Int
           /\ \E p \in grid : Pnl(position, p) <= Pnl(position, s)
           /\ \E p \in grid : Pnl(position, s) <= Pnl(position, p)
<1> DEFINE low == {p \in grid : p <= s}
           high == {p \in grid : s <= p}
<1>6. hi \in Nat /\ s \in Nat /\ 0 <= s /\ s <= hi
  <2>1. hi \in Nat
    BY Zenon
  <2> QED
    BY <2>1
<1>1. PICK b \in high : \A p \in high : b <= p
  <2>1. high \in SUBSET Nat /\ hi \in high
    BY <1>6
  <2> HIDE DEF high
  <2> QED
    BY <2>1, LeastNumber, Zenon
<1>2. PICK a \in low : \A p \in low : p <= a
  <2>1. low \subseteq grid
    OBVIOUS
  <2>2. 0 \in low
    BY <1>6
  <2>3. grid \subseteq Int
    OBVIOUS
  <2> HIDE DEF low
  <2>4. low \in SUBSET Int /\ low # {} /\ IsFiniteSet(low)
    BY <2>1, <2>2, <2>3, FS_Subset, Zenon
  <2> QED
    BY <2>4, LargestOf, Zenon
<1>3. a \in grid /\ b \in grid /\ a \in Int /\ b \in Int /\ s \in a..b
    BY <1>1, <1>2
<1>4. \A k \in Strikes(position) : k <= a \/ b <= k
  <2> SUFFICES ASSUME NEW k \in Strikes(position) PROVE k <= a \/ b <= k
    OBVIOUS
  <2>1. k \in grid /\ k \in Nat
    BY Zenon
  <2>2. k \in low \/ k \in high
    BY <1>6, <2>1
  <2> QED
    BY <1>1, <1>2, <2>2
<1>5. /\ Pnl(position, s) \in Int
      /\ Pnl(position, a) <= Pnl(position, s) \/ Pnl(position, b) <= Pnl(position, s)
      /\ Pnl(position, s) <= Pnl(position, a) \/ Pnl(position, s) <= Pnl(position, b)
  <2> HIDE DEF low, high
  <2> QED
    BY <1>3, <1>4, WorthBetween, Zenon
<1> QED
    BY <1>3, <1>5

\* So an analysis tells the extremes, and which sides have none.
LEMMA AnalysisHolds == BuilderInv => AnalysisMatchesPayoff
<1> SUFFICES ASSUME BuilderInv, analysis # NoAnalysis PROVE AnalysisMatchesPayoff
    BY DEF AnalysisMatchesPayoff
<1> DEFINE bare == Registry[template].legs
           gain == GainSum(bare)
           S == Strikes(legs)
           hi == GridEnd(legs, analysis.spot)
           grid == {(i * hi) \div (Points - 1) : i \in 0 .. Points - 1} \cup S
           r == analysis.result
           P(s) == Pnl(legs, s)
           values == {P(p) : p \in grid}
           all == {Payoff[s] : s \in DOMAIN Payoff}
<1>1. template \in Templates /\ Position(legs, bare)
    BY AnalysedPosition
<1>2. analysis.spot \in Int /\ r = max_pl(expiration_curve(legs, analysis.spot))
    BY DEF BuilderInv
<1>3. IsFiniteSet(S) /\ S # {} /\ S \subseteq Nat \ {0}
    BY <1>1, StrikesFit
<1>4. /\ IsFiniteSet(grid) /\ S \subseteq grid /\ hi \in grid /\ \A k \in S : k < hi
    BY <1>2, <1>3, GridReaches
<1>5. 0 \in grid /\ grid \subseteq 0..hi /\ hi \in Nat
    BY <1>2, <1>3, GridSpans
<1>6. /\ r.unbounded_loss = (gain < 0) /\ r.unbounded_profit = (gain > 0)
    BY <1>1, <1>2, SlopeIsGain
<1>7. r.max_profit = Max(values) /\ r.max_loss = Min(values)
  <2> DEFINE curve == expiration_curve(legs, analysis.spot)
             pnls == {curve[i].pnl : i \in DOMAIN curve}
  <2>1. pnls = values
    BY <1>2, <1>3, CurveAtGrid
  <2>2. max_pl(curve).max_profit = Max(pnls) /\ max_pl(curve).max_loss = Min(pnls)
    BY DEF max_pl
  <2> HIDE DEF pnls, values, curve
  <2> QED
    BY <1>2, <2>1, <2>2 DEF curve
<1>8. Far = hi + 2 * Width /\ Width \in Nat
    BY BuilderAssumption DEF Far
<1> HIDE DEF hi, grid, r, gain
<1>9. Far \in Nat /\ hi <= Far /\ Far - 1 \in 0..Far /\ Far \in 0..Far
  <2>1. hi > 0
    BY <1>3, <1>4, <1>5
  <2> QED
    BY <1>5, <1>8, <2>1
<1> HIDE DEF bare
<1>10. ASSUME NEW s \in Int, NEW t \in Int, hi - 1 <= s, hi - 1 <= t
       PROVE  P(s) \in Int /\ gain \in Int /\ P(s) = P(t) + gain * (s - t)
  <2>1. \A k \in S : k <= s /\ k <= t
    <3> SUFFICES ASSUME NEW k \in S PROVE k <= s /\ k <= t
      OBVIOUS
    <3>1. k \in Int /\ k < hi
      BY <1>3, <1>4
    <3> QED
      BY <1>5, <1>10, <3>1
  <2> QED
    BY <1>1, <2>1, PositionGain DEF gain
<1>11. DOMAIN Payoff = 0..Far /\ \A s \in 0..Far : Payoff[s] = P(s)
    BY DEF Payoff
<1>12. /\ gain \in Int /\ Payoff[Far] \in Int /\ Payoff[Far - 1] \in Int
       /\ Payoff[Far] = Payoff[Far - 1] + gain
  <2>1. Far \in Int /\ Far - 1 \in Int /\ hi - 1 <= Far /\ hi - 1 <= Far - 1
    BY <1>5, <1>9
  <2>2. /\ P(Far) \in Int /\ P(Far - 1) \in Int /\ gain \in Int
        /\ P(Far) = P(Far - 1) + gain * (Far - (Far - 1))
    BY <1>10, <2>1
  <2>3. gain * (Far - (Far - 1)) = gain
    BY <2>1, <2>2
  <2> QED
    BY <1>9, <1>11, <2>2, <2>3
<1>13. ASSUME NEW s \in 0..hi
       PROVE  /\ P(s) \in Int /\ \E p \in grid : P(p) <= P(s)
              /\ \E p \in grid : P(s) <= P(p)
  <2>1. grid \in SUBSET Nat
    BY <1>5
  <2> QED
    BY <1>1, <1>4, <1>5, <2>1, GridHasExtremes DEF bare
<1>14. ASSUME NEW s \in 0..Far
       PROVE  /\ P(s) \in Int
              /\ ~(gain > 0) => \E p \in grid : P(s) <= P(p)
              /\ ~(gain < 0) => \E p \in grid : P(p) <= P(s)
  <2>1. CASE s <= hi
    BY <1>5, <1>9, <1>13, <2>1
  <2>2. CASE ~(s <= hi)
    <3>1. /\ P(s) \in Int /\ P(hi) \in Int /\ P(s) = P(hi) + gain * (s - hi)
          /\ s - hi \in Nat
      BY <1>5, <1>9, <1>10, <2>2
    <3> DEFINE d == s - hi
               c == P(s)
               z == P(hi)
    <3>2. d \in Nat /\ c \in Int /\ z \in Int /\ c = z + gain * d
      BY <3>1
    <3> HIDE DEF c, d, z
    <3>3. (~(gain > 0) => gain * d <= 0) /\ (~(gain < 0) => 0 <= gain * d) /\ gain * d \in Int
      BY <1>12, <3>2
    <3>4. (~(gain > 0) => c <= z) /\ (~(gain < 0) => z <= c)
      BY <3>2, <3>3
    <3> QED
      BY <1>4, <3>1, <3>4 DEF c, z
  <2> QED
    BY <2>1, <2>2
<1> DEFINE f == [p \in grid |-> P(p)]
<1>15. values \in SUBSET Int /\ values # {} /\ IsFiniteSet(values) /\ values \subseteq all
  <2>1. values = {f[p] : p \in grid}
    OBVIOUS
  <2> HIDE DEF f
  <2>2. IsFiniteSet(values)
    BY <1>4, <2>1, FiniteValues
  <2>3. \A p \in grid : p \in 0..hi /\ p \in 0..Far
    BY <1>5, <1>9
  <2>4. values \subseteq all
    BY <1>11, <2>3
  <2> QED
    BY <1>5, <1>13, <2>2, <2>3, <2>4
<1>16. all \in SUBSET Int
    BY <1>11, <1>14
<1>17. /\ Max(values) \in values /\ \A x \in values : x <= Max(values)
       /\ Min(values) \in values /\ \A x \in values : Min(values) <= x
  <2> HIDE DEF values
  <2> QED
    BY <1>15, LargestOf, SmallestOf, Zenon
<1> DEFINE top == Max(values)
           bottom == Min(values)
<1>18. top \in all /\ bottom \in all /\ top \in Int /\ bottom \in Int
    BY <1>15, <1>16, <1>17, Zenon
<1> HIDE DEF top, bottom
<1>19. ASSUME ~(gain > 0) PROVE Max(all) = top
  <2>1. ASSUME NEW x \in all PROVE x <= top
    <3>1. PICK s \in 0..Far : x = P(s)
      BY <1>11
    <3>2. PICK p \in grid : P(s) <= P(p)
      BY <1>14, <1>19
    <3>3. P(p) \in values /\ P(p) \in Int /\ P(s) \in Int
      BY <1>14, <1>15
    <3>4. P(p) <= top
      BY <1>17, <3>3 DEF top
    <3> QED
      BY <1>18, <3>1, <3>2, <3>3, <3>4
  <2> HIDE DEF all
  <2> QED
    BY <1>16, <1>18, <2>1, MaxIsLargest
<1>20. ASSUME ~(gain < 0) PROVE Min(all) = bottom
  <2>1. ASSUME NEW x \in all PROVE bottom <= x
    <3>1. PICK s \in 0..Far : x = P(s)
      BY <1>11
    <3>2. PICK p \in grid : P(p) <= P(s)
      BY <1>14, <1>20
    <3>3. P(p) \in values /\ P(p) \in Int /\ P(s) \in Int
      BY <1>14, <1>15
    <3>4. bottom <= P(p)
      BY <1>17, <3>3 DEF bottom
    <3> QED
      BY <1>18, <3>1, <3>2, <3>3, <3>4
  <2> HIDE DEF all
  <2> QED
    BY <1>16, <1>18, <2>1, MinIsLeast
<1>21. /\ r.unbounded_profit <=> Payoff[Far] > Payoff[Far - 1]
       /\ r.unbounded_loss <=> Payoff[Far] < Payoff[Far - 1]
  <2>1. (gain > 0 <=> Payoff[Far] > Payoff[Far - 1]) /\ (gain < 0 <=> Payoff[Far] < Payoff[Far - 1])
    BY <1>12
  <2> QED
    BY <1>6, <2>1, Zenon
<1>22. /\ ~r.unbounded_profit => r.max_profit = Max(all)
       /\ ~r.unbounded_loss => r.max_loss = Min(all)
  <2> HIDE DEF all, values
  <2> QED
    BY <1>6, <1>7, <1>19, <1>20, Zenon DEF top, bottom
<1> QED
    BY <1>21, <1>22 DEF AnalysisMatchesPayoff, r

\* The mean strike of a template's options.
LEMMA AnchorIsNumber ==
    ASSUME template \in Templates, DOMAIN legs = DOMAIN Registry[template].legs,
           \A i \in DOMAIN legs : PricedAs(legs[i], Registry[template].legs[i])
    PROVE  AnchorSpot \in Int
<1> DEFINE bare == Registry[template].legs
           D == DOMAIN legs
           options == {i \in D : legs[i].kind = "option"}
           f == [i \in options |-> legs[i].strike]
<1>1. /\ bare \in Seq(TemplateLeg) /\ \E i \in DOMAIN bare : bare[i].kind = "option"
    BY RegistryTypes
<1>2. DOMAIN bare = D /\ \A i \in D : bare[i] \in TemplateLeg /\ PricedAs(legs[i], bare[i])
  <2>1. DOMAIN bare = D /\ \A i \in D : PricedAs(legs[i], bare[i])
    OBVIOUS
  <2> HIDE DEF bare
  <2> QED
    BY <1>1, <2>1
<1>3. IsFiniteSet(options)
  <2>1. D = 1..Len(bare) /\ Len(bare) \in Nat
    BY <1>1, <1>2
  <2> HIDE DEF bare
  <2>2. IsFiniteSet(1..Len(bare))
    BY <2>1, UpToIsFinite, Zenon
  <2> QED
    BY <2>1, <2>2, FS_Subset
<1> HIDE DEF bare
<1>4. \A i \in D : legs[i].kind = bare[i].kind /\ legs[i].strike = bare[i].strike
    BY <1>2 DEF PricedAs, LegFields
<1>5. options # {} /\ \A i \in options : f[i] \in Int
    BY <1>1, <1>2, <1>4, Zenon DEF TemplateLeg, BareLeg
<1>6. Cardinality(options) \in Nat \ {0}
    BY <1>3, <1>5, FS_CardinalityType, FS_EmptySet
<1>7. AnchorSpot = SumOver(f, options) \div Cardinality(options)
    BY DEF AnchorSpot
<1> HIDE DEF options, f
<1>8. SumOver(f, options) \in Int
    BY <1>3, <1>5, SumType
<1> DEFINE sum == SumOver(f, options)
           n == Cardinality(options)
<1>9. sum \in Int /\ n \in Nat \ {0}
    BY <1>6, <1>8
<1> HIDE DEF sum, n
<1>10. sum \div n \in Int
    BY <1>9
<1> QED
    BY <1>7, <1>10 DEF sum, n

\* The builder keeps it.
LEMMA BuilderKeepsInv ==
    /\ Init => BuilderInv
    /\ BuilderInv /\ [Next]_vars => BuilderInv'
<1>1. Init => BuilderInv
    BY DEF Init, BuilderInv
<1>2. BuilderInv /\ [Next]_vars => BuilderInv'
  <2> SUFFICES ASSUME BuilderInv, [Next]_vars PROVE BuilderInv'
    OBVIOUS
  <2>1. ASSUME NEW key \in Templates, Build(key) PROVE BuilderInv'
    <3>1. template = NoTemplate /\ template' = key /\ analysis' = analysis
          /\ legs' = Registry[key].legs
      BY <2>1 DEF Build
    <3> DEFINE bare == Registry[key].legs
    <3>2. \A i \in DOMAIN bare : bare[i] \in BareLeg
      <4>1. bare \in Seq(BareLeg)
        BY RegistryTypes
      <4> HIDE DEF bare
      <4> QED
        BY <4>1
    <3>3. \A leg \in BareLeg : PricedAs(leg, leg)
      BY DEF PricedAs, BareLeg, LegFields
    <3>4. analysis' = NoAnalysis
      BY <3>1 DEF BuilderInv
    <3> QED
      BY <3>1, <3>2, <3>3, <3>4 DEF BuilderInv
  <2>2. ASSUME NEW i \in DOMAIN legs, NEW entry \in Entries \cup SharePrices, PriceLeg(i, entry)
        PROVE  BuilderInv'
    <3> DEFINE leg == With(legs[i], "entry", entry)
    <3>1. /\ Unpriced(legs[i]) /\ entry \in Int
          /\ legs' = [legs EXCEPT ![i] = leg]
          /\ UNCHANGED <<template, analysis>>
      <4>1. Entries \cup SharePrices \subseteq Int
        BY BuilderAssumption
      <4> QED
        BY <2>2, <4>1 DEF PriceLeg
    <3>2. analysis = NoAnalysis
      BY <3>1 DEF BuilderInv
    <3>3. ASSUME template # NoTemplate
          PROVE  \A j \in DOMAIN legs : PricedAs(legs'[j], Registry[template].legs[j])
      <4> DEFINE bare == Registry[template].legs[i]
      <4>1. PricedAs(legs[i], bare)
        BY <3>3 DEF BuilderInv
      <4>2. /\ DOMAIN leg = DOMAIN legs[i] \cup {"entry"} /\ leg.entry = entry
            /\ \A field \in LegFields : leg[field] = legs[i][field]
        BY <4>1 DEF With, PricedAs, LegFields
      <4> HIDE DEF leg
      <4>3. PricedAs(leg, bare)
        BY <3>1, <4>1, <4>2 DEF PricedAs
      <4>4. \A j \in DOMAIN legs : legs'[j] = IF j = i THEN leg ELSE legs[j]
        BY <3>1
      <4> QED
        BY <3>3, <4>3, <4>4 DEF BuilderInv
    <3>4. DOMAIN legs' = DOMAIN legs
      BY <3>1
    <3> QED
      BY <3>1, <3>2, <3>3, <3>4 DEF BuilderInv
  <2>3. ASSUME Analyze PROVE BuilderInv'
    <3>1. /\ template # NoTemplate /\ \A i \in DOMAIN legs : ~Unpriced(legs[i])
          /\ UNCHANGED <<template, legs>>
      BY <2>3 DEF Analyze
    <3>2. PICK spot \in Spots \cup {AnchorSpot} : analysis' = Analysis(spot)
      BY <2>3 DEF Analyze
    <3>3. /\ analysis'.spot = spot
          /\ analysis'.result = max_pl(expiration_curve(legs', analysis'.spot))
      BY <3>1, <3>2 DEF Analysis
    <3>4. spot \in Int
      <4>1. Spots \subseteq Int
        BY BuilderAssumption
      <4>2. AnchorSpot \in Int
        BY <3>1, AnchorIsNumber DEF BuilderInv
      <4> QED
        BY <4>1, <4>2
    <3> QED
      BY <3>1, <3>3, <3>4 DEF BuilderInv
  <2>4. ASSUME UNCHANGED <<template, legs, analysis>> PROVE BuilderInv'
    BY <2>4 DEF BuilderInv, Unpriced
  <2> QED
    BY <2>1, <2>2, <2>3, <2>4 DEF Next, vars, Recommend
<1> QED
    BY <1>1, <1>2

\* Whatever tape a recommendation is asked about: for every template of undefined risk one of
\* defined risk ranks above it, and no template against a tape that only rises, or only falls,
\* leads its ranking.
THEOREM RankingsFit == Spec => []RankingFits
    BY BuilderRanks, RankingHolds, PTL DEF Spec

\* Whatever the strikes and the entry prices: an analysis that reports an unbounded loss is of
\* a template tagged with undefined risk, and one that reports an unbounded profit of a
\* template tagged with undefined reward.
THEOREM TemplateTagsHold == Spec => []TagsHonest
    BY BuilderKeepsInv, TagsHold, PTL DEF Spec

\* Whatever the strikes, the entry prices, the spot and the number of points a curve is
\* drawn at: what an analysis reports as the largest profit and the largest loss is so at
\* every price, on the curve or between its points, unless it reports that there is none.
THEOREM ExtremesAreTrue == Spec => []AnalysisMatchesPayoff
    BY BuilderKeepsInv, AnalysisHolds, PTL DEF Spec

-----------------------------------------------------------------------------
(* What a position is worth                                                *)

\* An option of a configuration, and of a position that is held.
SomeOption == [kind : {"option"}, call : BOOLEAN, sign : {-1, 1}, strike : Int, qty : Nat,
               dte : Dtes]
HeldOption == [kind : {"option"}, call : BOOLEAN, sign : {-1, 1}, strike : Int, qty : Nat,
               dte : Dtes, expiry : Int]

ConfigFits(config) ==
    /\ IsFiniteSet(DOMAIN config)
    /\ \A i \in DOMAIN config :
          IF config[i].kind = "option" THEN config[i] \in SomeOption ELSE config[i] \in BareLeg

\* With their days to expiration the legs make a configuration.
LEMMA ConfiguredFits ==
    ASSUME LegsFit, NEW near \in Dtes, NEW far \in Dtes,
           \A i \in DOMAIN legs : "entry" \notin DOMAIN legs[i]
    PROVE  ConfigFits(Configured(near, far))
<1> DEFINE config == Configured(near, far)
<1>1. DOMAIN config = DOMAIN legs /\ IsFiniteSet(DOMAIN legs)
    BY DEF Configured, LegsFit
<1> SUFFICES ASSUME NEW i \in DOMAIN legs
             PROVE  IF config[i].kind = "option" THEN config[i] \in SomeOption
                                                 ELSE config[i] \in BareLeg
    BY <1>1 DEF ConfigFits
<1>2. legs[i] \in BareLeg
    BY DEF LegsFit
<1>3. CASE legs[i].kind = "option"
  <2> DEFINE dte == IF legs[i].sign = -1 THEN near ELSE far
  <2>1. config[i] = With(legs[i], "dte", dte) /\ dte \in Dtes
    BY <1>3 DEF Configured
  <2> HIDE DEF dte, config
  <2>2. With(legs[i], "dte", dte) \in SomeOption
    BY <1>2, <1>3, <2>1 DEF With, BareLeg, SomeOption
  <2>3. config[i].kind = "option"
    BY <2>1, <2>2 DEF SomeOption
  <2> QED
    BY <2>1, <2>2, <2>3
<1>4. CASE legs[i].kind # "option"
  <2>1. config[i] = legs[i]
    BY <1>4 DEF Configured
  <2> QED
    BY <1>2, <1>4, <2>1
<1> QED
    BY <1>3, <1>4

\* What a leg of a configuration becomes on day o.
Opened(leg, new, o) ==
    /\ new.kind = leg.kind
    /\ IF leg.kind = "option"
       THEN new \in HeldOption /\ new.dte = leg.dte /\ new.expiry = o + leg.dte
       ELSE new = leg

\* Days to expiration are numbers.
LEMMA DtesAreNumbers == \A dte \in Dtes : dte \in Nat
BY TapesAssumption

\* Instantiated on a day, a configuration is a position opened that day.
LEMMA InstanceFits ==
    ASSUME NEW config, ConfigFits(config), NEW ref \in Nat \ {0}, NEW spot \in Nat, NEW o \in Int
    PROVE  LET held == instantiate(config, ref, spot, o)
           IN  /\ DOMAIN held = DOMAIN config
               /\ \A i \in DOMAIN config : Opened(config[i], held[i], o)
<1> DEFINE held == instantiate(config, ref, spot, o)
<1>1. DOMAIN held = DOMAIN config
    BY DEF instantiate
<1> SUFFICES ASSUME NEW i \in DOMAIN config PROVE Opened(config[i], held[i], o)
    BY <1>1
<1>2. CASE config[i].kind = "option"
  <2> DEFINE strike == RoundHalfEven(spot * config[i].strike, ref)
             moved == [config[i] EXCEPT !.strike = strike]
             new == With(moved, "expiry", o + config[i].dte)
  <2>1. config[i] \in SomeOption
    BY <1>2 DEF ConfigFits
  <2>2. strike \in Int
    <3>1. spot * config[i].strike \in Int
      BY <2>1 DEF SomeOption
    <3> QED
      BY <3>1 DEF RoundHalfEven
  <2>3. held[i] = new
    BY <1>2 DEF instantiate
  <2> HIDE DEF strike, held
  <2>4. moved \in SomeOption /\ moved.dte = config[i].dte /\ moved.kind = "option"
    BY <2>1, <2>2 DEF SomeOption
  <2>5. o + config[i].dte \in Int
    <3>1. config[i].dte \in Dtes
      BY <2>1 DEF SomeOption
    <3> QED
      BY <3>1, DtesAreNumbers
  <2> HIDE DEF moved
  <2>6. new \in HeldOption /\ new.dte = moved.dte /\ new.expiry = o + config[i].dte /\ new.kind = "option"
    BY <2>4, <2>5 DEF With, SomeOption, HeldOption
  <2> HIDE DEF new
  <2> QED
    BY <1>2, <2>3, <2>4, <2>6 DEF Opened
<1>3. CASE config[i].kind # "option"
  <2>1. held[i] = config[i]
    BY <1>3 DEF instantiate
  <2> QED
    BY <1>3, <2>1 DEF Opened
<1> QED
    BY <1>2, <1>3

\* What a leg is worth is a whole number, and so is its fee.
LEMMA LegWorth ==
    ASSUME NEW closes \in Tapes, NEW d \in DOMAIN closes,
           NEW leg, \/ leg \in BareLeg /\ leg.kind # "option"
                    \/ leg \in HeldOption /\ leg.expiry <= d + leg.dte
    PROVE  LegValue(leg, closes[d], vol_at(closes, d), d) \in Int
<1>1. d \in Int /\ closes[d] \in Int
    BY TapesAssumption
<1>2. CASE leg \in HeldOption /\ leg.expiry <= d + leg.dte
  <2>1. /\ leg.strike \in Int /\ leg.qty \in Int /\ leg.sign \in Int /\ leg.expiry \in Int
        /\ leg.dte \in Dtes /\ leg.kind = "option"
    BY <1>2 DEF HeldOption
  <2>2. Intrinsic(leg, closes[d]) \in Int
    <3>1. closes[d] - leg.strike \in Int /\ leg.strike - closes[d] \in Int
      BY <1>1, <2>1
    <3> QED
      BY <3>1, Extremes DEF Intrinsic
  <2>3. ~(leg.expiry <= d) => TimeValue(vol_at(closes, d), leg.expiry - d) \in Int
    <3> SUFFICES ASSUME ~(leg.expiry <= d)
                 PROVE  TimeValue(vol_at(closes, d), leg.expiry - d) \in Int
      OBVIOUS
    <3>1. leg.expiry - d \in 1 .. leg.dte
      BY <1>1, <1>2, <2>1, DtesAreNumbers
    <3> QED
      BY <2>1, <3>1, PricerAssumption
  <2>4. UnitValue(leg, closes[d], vol_at(closes, d), d) \in Int
    <3> DEFINE time == IF leg.expiry <= d THEN 0 ELSE TimeValue(vol_at(closes, d), leg.expiry - d)
    <3>1. time \in Int
      BY <2>3
    <3>2. UnitValue(leg, closes[d], vol_at(closes, d), d) = Intrinsic(leg, closes[d]) + time
      BY DEF UnitValue
    <3> HIDE DEF time
    <3> QED
      BY <2>2, <3>1, <3>2
  <2> DEFINE u == UnitValue(leg, closes[d], vol_at(closes, d), d)
  <2>5. LegValue(leg, closes[d], vol_at(closes, d), d) = leg.sign * leg.qty * OPTION_MULTIPLIER * u
    BY <2>1 DEF LegValue
  <2> HIDE DEF u
  <2>6. u \in Int
    BY <2>4 DEF u
  <2> QED
    BY <2>1, <2>5, <2>6 DEF OPTION_MULTIPLIER
<1>3. CASE leg \in BareLeg /\ leg.kind # "option"
  <2>1. leg.sign \in Int /\ leg.qty \in Int /\ leg.kind \in {"equity", "cash"}
    BY <1>3 DEF BareLeg
  <2> QED
    BY <1>1, <2>1 DEF LegValue
<1> QED
    BY <1>2, <1>3

\* A position that was opened no later has a worth, and a fee.
LEMMA PositionWorth ==
    ASSUME NEW config, ConfigFits(config), NEW held, NEW o \in Int, DOMAIN held = DOMAIN config,
           \A i \in DOMAIN config : Opened(config[i], held[i], o),
           NEW closes \in Tapes, NEW d \in DOMAIN closes, o <= d, NEW cost \in Nat
    PROVE  PositionValue(held, closes, d) \in Int /\ CycleCost(held, cost) \in Nat
<1>1. IsFiniteSet(DOMAIN held)
    BY DEF ConfigFits
<1>2. ASSUME NEW i \in DOMAIN held
      PROVE  /\ held[i].qty \in Nat
             /\ LegValue(held[i], closes[d], vol_at(closes, d), d) \in Int
  <2>1. CASE config[i].kind = "option"
    <3>1. held[i] \in HeldOption /\ held[i].expiry = o + held[i].dte /\ held[i].dte \in Dtes
      BY <2>1 DEF Opened, HeldOption
    <3>2. held[i].dte \in Nat /\ d \in Int
      <4>1. d \in Int
        BY TapesAssumption
      <4> QED
        BY <3>1, <4>1, DtesAreNumbers
    <3>3. held[i].expiry <= d + held[i].dte
      BY <3>1, <3>2
    <3>4. held[i].qty \in Nat
      BY <3>1 DEF HeldOption
    <3> QED
      BY <3>1, <3>3, <3>4, LegWorth, Zenon
  <2>2. CASE config[i].kind # "option"
    <3>1. held[i] \in BareLeg /\ held[i].kind # "option"
      BY <2>2 DEF Opened, ConfigFits
    <3>2. held[i].qty \in Nat
      BY <3>1 DEF BareLeg
    <3> QED
      BY <3>1, <3>2, LegWorth, Zenon
  <2> QED
    BY <2>1, <2>2
<1>3. PositionValue(held, closes, d) \in Int
  <2> DEFINE f == [i \in DOMAIN held |-> LegValue(held[i], closes[d], vol_at(closes, d), d)]
  <2>1. \A i \in DOMAIN held : f[i] \in Int
    BY <1>2
  <2>2. PositionValue(held, closes, d) = SumOver(f, DOMAIN held)
    BY DEF PositionValue
  <2> HIDE DEF f
  <2> QED
    BY <1>1, <2>1, <2>2, SumType
<1>4. CycleCost(held, cost) \in Nat
  <2> DEFINE f == [i \in DOMAIN held |-> IF held[i].kind = "option" THEN held[i].qty * cost ELSE 0]
  <2>1. \A i \in DOMAIN held : f[i] \in Nat
    BY <1>2
  <2>2. CycleCost(held, cost) = SumOver(f, DOMAIN held)
    BY DEF CycleCost
  <2> HIDE DEF f
  <2> QED
    BY <1>1, <2>1, <2>2, SumNatural
<1> QED
    BY <1>3, <1>4

\* Positions that were opened on different days differ.
LEMMA OpenedApart ==
    ASSUME NEW config, ConfigFits(config), Templatable(config),
           NEW held, NEW o \in Int, \A i \in DOMAIN config : Opened(config[i], held[i], o),
           NEW other, NEW p \in Int, \A i \in DOMAIN config : Opened(config[i], other[i], p),
           o # p
    PROVE  held # other
<1>1. PICK i \in DOMAIN config : config[i].kind = "option"
    BY DEF Templatable
<1>2. held[i].expiry = o + config[i].dte /\ other[i].expiry = p + config[i].dte
    BY <1>1 DEF Opened
<1>3. config[i].dte \in Int
  <2>1. config[i].dte \in Dtes
    BY <1>1 DEF ConfigFits, SomeOption
  <2> QED
    BY <2>1, DtesAreNumbers
<1>4. o + config[i].dte # p + config[i].dte
    BY <1>3, SameShift
<1> QED
    BY <1>2, <1>4

\* A cycle lasts a day at least.
LEMMA CycleLasts ==
    ASSUME NEW config, ConfigFits(config), Templatable(config)
    PROVE  cycle_dte(config) \in Nat \ {0}
<1> DEFINE S == {config[i].dte : i \in {j \in DOMAIN config : config[j].kind = "option"}}
<1>1. S # {}
    BY DEF Templatable
<1>2. ASSUME NEW i \in DOMAIN config, config[i].kind = "option" PROVE config[i].dte \in Nat \ {0}
  <2>1. config[i].dte \in Dtes
    BY <1>2 DEF ConfigFits, SomeOption
  <2>2. config[i].dte > 0
    BY <1>2 DEF Templatable
  <2> QED
    BY <2>1, <2>2, DtesAreNumbers
<1>3. S \subseteq Nat \ {0}
    BY <1>2
<1>4. cycle_dte(config) = Min(S)
    BY DEF cycle_dte
<1> HIDE DEF S
<1>5. \E n \in S : \A m \in S : n <= m
    BY <1>1, <1>3, LeastNumber
<1>6. Min(S) \in S
    BY <1>5 DEF Min
<1> QED
    BY <1>3, <1>4, <1>6, Zenon

-----------------------------------------------------------------------------
(* Adding an entry                                                         *)

\* Appending a number adds it to the sum.
LEMMA SumAppend ==
    ASSUME NEW s \in Seq(Int), NEW x \in Int
    PROVE  Sum(s) \in Int /\ Sum(Append(s, x)) = Sum(s) + x
<1> DEFINE t == Append(s, x)
           n == Len(s)
<1>1. /\ t \in Seq(Int) /\ n \in Nat /\ Len(t) = n + 1
      /\ t[n + 1] = x /\ \A i \in 1..n : t[i] = s[i]
    BY AppendOne
<1>2. DOMAIN s = 1..n /\ DOMAIN t = 1..(n + 1) /\ \A i \in 1..n : s[i] \in Int
    BY <1>1
<1> HIDE DEF t, n
<1>3. 1..(n + 1) = (1..n) \cup {n + 1} /\ n + 1 \notin 1..n /\ IsFiniteSet(1..n)
  <2>1. IsFiniteSet(1..n)
    BY <1>1, FS_Interval
  <2> QED
    BY <1>1, <2>1
<1>4. SumOver(t, 1..n) = SumOver(s, 1..n)
    BY <1>1, <1>3, SumSame, ZenonT(40)
<1>5. SumOver(s, 1..n) \in Int
    BY <1>2, <1>3, SumType
<1>6. SumOver(t, (1..n) \cup {n + 1}) = t[n + 1] + SumOver(t, 1..n)
  <2>1. \A i \in 1..n : t[i] \in Int
    BY <1>1, <1>2
  <2> QED
    BY <1>1, <1>3, <2>1, SumAdd, Zenon
<1>7. Sum(s) = SumOver(s, 1..n) /\ Sum(t) = SumOver(t, (1..n) \cup {n + 1})
    BY <1>2, <1>3, Zenon DEF Sum
<1> QED
    BY <1>1, <1>4, <1>5, <1>6, <1>7 DEF t

-----------------------------------------------------------------------------
(* Cycles                                                                  *)

DayCount(closes) == Len(Ascending(SimDays(closes)))
DayAt(closes, j) == Ascending(SimDays(closes))[j]
CycleOf(config, closes, cost, o) == open_cycle(config, closes, cost, DayAt(closes, o))
Opening(config, closes, o) ==
    instantiate(config, closes[Min(SimDays(closes))], closes[DayAt(closes, o)], DayAt(closes, o))

\* A position on a tape, with costs.
Setting(config, closes, cost) ==
    /\ closes \in Tapes /\ cost \in Nat
    /\ ConfigFits(config) /\ Templatable(config)

\* The days of a tape, and its closes.
LEMMA DaysFit ==
    ASSUME NEW closes \in Tapes
    PROVE  /\ DayCount(closes) \in Nat
           /\ \A j \in 1..DayCount(closes) :
                 DayAt(closes, j) \in DOMAIN closes /\ DayAt(closes, j) \in Int
           /\ \A i, j \in 1..DayCount(closes) : i < j => DayAt(closes, i) < DayAt(closes, j)
           /\ \A d \in DOMAIN closes : closes[d] \in Nat \ {0}
           /\ DayCount(closes) > 0 => Min(SimDays(closes)) \in DOMAIN closes
<1> DEFINE S == SimDays(closes)
<1>1. S \in SUBSET Int /\ IsFiniteSet(S) /\ S \subseteq DOMAIN closes
    BY DaysOfTape
<1>2. \A d \in DOMAIN closes : closes[d] \in Nat \ {0}
    BY TapesAssumption
<1>3. /\ Cardinality(S) \in Nat /\ Len(Ascending(S)) = Cardinality(S)
      /\ \A i \in 1..Cardinality(S) : Ascending(S)[i] \in S
      /\ \A i, j \in 1..Cardinality(S) : i < j => Ascending(S)[i] < Ascending(S)[j]
  <2> HIDE DEF S
  <2> QED
    BY <1>1, AscendingOrder
<1>4. Len(Ascending(S)) > 0 => Min(S) \in DOMAIN closes
  <2> SUFFICES ASSUME Len(Ascending(S)) > 0 PROVE Min(S) \in DOMAIN closes
    OBVIOUS
  <2>1. 1 \in 1..Len(Ascending(S)) /\ Len(Ascending(S)) \in Nat
    BY <1>3
  <2>2. Min(S) = Ascending(S)[1]
    BY <2>1, CutDays
  <2> QED
    BY <1>1, <1>3, <2>1, <2>2
<1> HIDE DEF S
<1> QED
    BY <1>1, <1>2, <1>3, <1>4 DEF S, DayCount, DayAt

\* The cycle opened on day o: what it holds, what it cost, how long it lasts.
LEMMA CycleFits ==
    ASSUME NEW config, NEW closes, NEW cost, Setting(config, closes, cost),
           NEW o \in 1..DayCount(closes)
    PROVE  LET cycle == CycleOf(config, closes, cost, o)
               held  == Opening(config, closes, o)
           IN  /\ cycle.legs = held
               /\ cycle.entry = PositionValue(held, closes, DayAt(closes, o))
               /\ cycle.cost = CycleCost(held, cost)
               /\ cycle.front = DayAt(closes, o) + cycle_dte(config)
               /\ cycle.front \in Int /\ cycle.front > DayAt(closes, o)
               /\ CycleCost(held, cost) \in Nat
               /\ \A j \in o..DayCount(closes) : PositionValue(held, closes, DayAt(closes, j)) \in Int
               /\ \A p \in 1..DayCount(closes) : p # o => Opening(config, closes, p) # held
<1> DEFINE n == DayCount(closes)
           held == Opening(config, closes, o)
           cycle == CycleOf(config, closes, cost, o)
<1>1. closes \in Tapes /\ cost \in Nat /\ ConfigFits(config) /\ Templatable(config)
    BY DEF Setting
<1>2. /\ n \in Nat
      /\ \A j \in 1..n : DayAt(closes, j) \in DOMAIN closes /\ DayAt(closes, j) \in Int
      /\ \A i, j \in 1..n : i < j => DayAt(closes, i) < DayAt(closes, j)
      /\ \A d \in DOMAIN closes : closes[d] \in Nat \ {0}
      /\ n > 0 => Min(SimDays(closes)) \in DOMAIN closes
    BY <1>1, DaysFit
<1> HIDE DEF n
<1>3. o \in 1..n /\ n > 0
    BY <1>2 DEF n
<1>4. ASSUME NEW p \in 1..n
      PROVE  LET h == Opening(config, closes, p)
             IN  /\ DOMAIN h = DOMAIN config
                 /\ \A i \in DOMAIN config : Opened(config[i], h[i], DayAt(closes, p))
  <2>1. /\ closes[Min(SimDays(closes))] \in Nat \ {0}
        /\ closes[DayAt(closes, p)] \in Nat /\ DayAt(closes, p) \in Int
    BY <1>2, <1>3
  <2> QED
    BY <1>1, <2>1, InstanceFits, Zenon DEF Opening
<1>5. cycle = [legs |-> held, entry |-> PositionValue(held, closes, DayAt(closes, o)),
               cost |-> CycleCost(held, cost), front |-> DayAt(closes, o) + cycle_dte(config)]
    BY DEF CycleOf, open_cycle, Opening
<1>6. ASSUME NEW j \in o..n
      PROVE  PositionValue(held, closes, DayAt(closes, j)) \in Int /\ CycleCost(held, cost) \in Nat
  <2>1. j \in 1..n /\ (j = o \/ o < j)
    BY <1>2, <1>3
  <2>2. DayAt(closes, o) <= DayAt(closes, j) /\ DayAt(closes, o) \in Int /\ DayAt(closes, j) \in DOMAIN closes
    BY <1>2, <1>3, <2>1
  <2> HIDE DEF held
  <2>3. DOMAIN held = DOMAIN config
        /\ \A i \in DOMAIN config : Opened(config[i], held[i], DayAt(closes, o))
    BY <1>3, <1>4 DEF held
  <2> QED
    BY <1>1, <2>2, <2>3, PositionWorth
<1>7. o \in o..n
    BY <1>2, <1>3
<1>8. cycle_dte(config) \in Nat \ {0}
    BY <1>1, CycleLasts
<1>9. ASSUME NEW p \in 1..n, p # o PROVE Opening(config, closes, p) # held
  <2>1. p < o \/ o < p
    BY <1>2, <1>3, <1>9
  <2>2. DayAt(closes, p) # DayAt(closes, o) /\ DayAt(closes, p) \in Int /\ DayAt(closes, o) \in Int
    BY <1>2, <1>3, <2>1
  <2>3. /\ \A i \in DOMAIN config : Opened(config[i], held[i], DayAt(closes, o))
        /\ \A i \in DOMAIN config : Opened(config[i], Opening(config, closes, p)[i], DayAt(closes, p))
    BY <1>3, <1>4
  <2> HIDE DEF held
  <2> QED
    BY <1>1, <2>2, <2>3, OpenedApart
<1>10. /\ cycle.legs = held
       /\ cycle.entry = PositionValue(held, closes, DayAt(closes, o))
       /\ cycle.cost = CycleCost(held, cost)
       /\ cycle.front = DayAt(closes, o) + cycle_dte(config)
  <2> HIDE DEF held, cycle
  <2> QED
    BY <1>5
<1>11. cycle.front \in Int /\ cycle.front > DayAt(closes, o)
  <2>1. DayAt(closes, o) \in Int
    BY <1>2, <1>3
  <2> HIDE DEF cycle
  <2> QED
    BY <1>8, <1>10, <2>1
<1> HIDE DEF held, cycle
<1> QED
    BY <1>6, <1>7, <1>9, <1>10, <1>11 DEF held, cycle, n

-----------------------------------------------------------------------------
(* The books of a run                                                      *)

BooksRecord(C, H) == [cycle : C, realized : Int, equity : Seq(Int), trades : Seq(Int), held : Seq(H)]

Cycles(config, closes, cost) == {CycleOf(config, closes, cost, o) : o \in 1..DayCount(closes)}
Positions(config, closes) == {Opening(config, closes, o) : o \in 1..DayCount(closes)}

\* From day k to the next the equity moves as the position of day k does, less the
\* costs of a roll.
Financed(equity, held, closes, cost, k) ==
    equity[k + 1] - equity[k] =
        PositionValue(held[k], closes, DayAt(closes, k + 1))
            - PositionValue(held[k], closes, DayAt(closes, k))
            - (IF held[k] = held[k + 1] THEN 0
               ELSE CycleCost(held[k], cost) + CycleCost(held[k + 1], cost))

\* The cycle was opened on day o and goes on; its position is the last one held.
Underway(books, config, closes, cost, j, o) ==
    /\ books.cycle = CycleOf(config, closes, cost, o)
    /\ books.cycle.front > DayAt(closes, j)
    /\ books.held[j] = Opening(config, closes, o)
    /\ \A k \in 1..j : \E p \in 1..o : books.held[k] = Opening(config, closes, p)

BooksFit(books, config, closes, cost, j) ==
    /\ books \in BooksRecord(Cycles(config, closes, cost), Positions(config, closes))
    /\ Len(books.equity) = j /\ Len(books.held) = j
    /\ \E o \in 1..j : Underway(books, config, closes, cost, j, o)
    /\ Sum(books.trades) = books.realized
    /\ books.equity[j] = Capital + books.realized
           + (PositionValue(books.cycle.legs, closes, DayAt(closes, j)) - books.cycle.entry - books.cycle.cost)
    /\ books.equity[1] = Capital - CycleCost(books.held[1], cost)
    /\ \A k \in 1..j : k < j => Financed(books.equity, books.held, closes, cost, k)
    /\ Cardinality(ToSet(books.held)) = Len(books.trades) + 1

\* What a day writes.
LEMMA DayWrites ==
    ASSUME NEW C, NEW H, NEW rolled \in BooksRecord(C, H), NEW v \in Int, NEW h \in H,
           NEW next, next = [rolled EXCEPT !.equity = Append(@, v), !.held = Append(@, h)]
    PROVE  /\ next \in BooksRecord(C, H)
           /\ next.cycle = rolled.cycle /\ next.realized = rolled.realized /\ next.trades = rolled.trades
           /\ next.equity = Append(rolled.equity, v) /\ next.held = Append(rolled.held, h)
<1>1. Append(rolled.equity, v) \in Seq(Int) /\ Append(rolled.held, h) \in Seq(H)
    BY DEF BooksRecord
<1> QED
    BY <1>1, Zenon DEF BooksRecord

\* The books of the first day.
LEMMA FirstDay ==
    ASSUME NEW config, NEW closes, NEW cost, Setting(config, closes, cost), DayCount(closes) > 0,
           NEW books, books = [cycle |-> CycleOf(config, closes, cost, 1), realized |-> 0,
                           equity |-> << >>, trades |-> << >>, held |-> << >>]
    PROVE  BooksFit(EngineDay(books, config, closes, cost, DayAt(closes, 1)), config, closes, cost, 1)
<1> DEFINE n == DayCount(closes)
           d == DayAt(closes, 1)
           C == Cycles(config, closes, cost)
           H == Positions(config, closes)
           cycle == CycleOf(config, closes, cost, 1)
           held == Opening(config, closes, 1)
           v == Capital + 0 + (PositionValue(held, closes, d) - cycle.entry - cycle.cost)
           next == EngineDay(books, config, closes, cost, d)
<1>1. closes \in Tapes
    BY DEF Setting
<1>2. n \in Nat /\ 1 \in 1..n /\ d \in Int
    BY <1>1, DaysFit
<1>3. /\ cycle.legs = held /\ cycle.entry = PositionValue(held, closes, d)
      /\ cycle.cost = CycleCost(held, cost) /\ cycle.front \in Int /\ cycle.front > d
      /\ CycleCost(held, cost) \in Nat /\ PositionValue(held, closes, d) \in Int
  <2>1. 1 \in 1..n
    BY <1>2
  <2> QED
    BY <1>2, <2>1, CycleFits
<1>4. cycle \in C /\ held \in H
    BY <1>2 DEF Cycles, Positions
<1> HIDE DEF n, d, C, H, cycle, held
<1>5. /\ books \in BooksRecord(C, H)
      /\ books.cycle = cycle /\ books.realized = 0 /\ books.trades = <<>>
      /\ books.equity = <<>> /\ books.held = <<>>
  <2>1. books = [cycle |-> cycle, realized |-> 0, equity |-> << >>, trades |-> << >>, held |-> << >>]
    BY DEF cycle
  <2> QED
    BY <1>4, <2>1 DEF BooksRecord
<1>6. next = [books EXCEPT !.equity = Append(@, v), !.held = Append(@, held)]
  <2>1. ~(d >= books.cycle.front)
    BY <1>2, <1>3, <1>5
  <2>2. next = [books EXCEPT !.equity = Append(@, Capital + books.realized
                                        + (PositionValue(books.cycle.legs, closes, d)
                                               - books.cycle.entry - books.cycle.cost)),
                           !.held = Append(@, books.cycle.legs)]
    BY <2>1, Zenon DEF EngineDay
  <2> QED
    BY <1>3, <1>5, <2>2, Zenon
<1>7. v \in Int /\ v = Capital - CycleCost(held, cost)
  <2>1. Capital \in Int
    BY TapesAssumption
  <2> QED
    BY <1>3, <2>1
<1> HIDE DEF v, next
<1>8. /\ next \in BooksRecord(C, H)
      /\ next.cycle = cycle /\ next.realized = 0 /\ next.trades = <<>>
      /\ next.equity = Append(<<>>, v) /\ next.held = Append(<<>>, held)
    BY <1>4, <1>5, <1>6, <1>7, DayWrites, ZenonT(40)
<1>9. /\ next.equity = <<v>> /\ next.held = <<held>>
      /\ next.equity[1] = v /\ next.held[1] = held
      /\ Len(next.equity) = 1 /\ Len(next.held) = 1
    BY <1>8
<1>10. ToSet(next.held) = {held}
    BY <1>9 DEF ToSet
<1>11. Cardinality(ToSet(next.held)) = Len(next.trades) + 1
  <2>1. Cardinality({held}) = 1
    BY FS_Singleton, Zenon
  <2>2. Len(next.trades) = 0
    BY <1>8
  <2> QED
    BY <1>10, <2>1, <2>2
<1>12. Sum(next.trades) = next.realized
  <2>1. DOMAIN <<>> = {}
    OBVIOUS
  <2> QED
    BY <1>8, <2>1, SumEmpty DEF Sum
<1>13. Underway(next, config, closes, cost, 1, 1)
    BY <1>3, <1>8, <1>9 DEF Underway, cycle, held, d
<1>14. next.equity[1] = Capital + next.realized
           + (PositionValue(next.cycle.legs, closes, d) - next.cycle.entry - next.cycle.cost)
    BY <1>3, <1>8, <1>9 DEF v
<1>15. 1 \in 1..1 /\ \A k \in 1..1 : ~(k < 1)
    OBVIOUS
<1> QED
    BY <1>7, <1>8, <1>9, <1>11, <1>12, <1>13, <1>14, <1>15 DEF BooksFit, C, H, d, next

\* The books of the next day.
LEMMA NextDay ==
    ASSUME NEW config, NEW closes, NEW cost, Setting(config, closes, cost),
           NEW j \in Nat, j > 0, j + 1 <= DayCount(closes),
           NEW books, BooksFit(books, config, closes, cost, j)
    PROVE  BooksFit(EngineDay(books, config, closes, cost, DayAt(closes, j + 1)),
                   config, closes, cost, j + 1)
<1> DEFINE n == DayCount(closes)
           d == DayAt(closes, j + 1)
           C == Cycles(config, closes, cost)
           H == Positions(config, closes)
           PV(h, k) == PositionValue(h, closes, DayAt(closes, k))
           Fee(h) == CycleCost(h, cost)
           Pos(o) == Opening(config, closes, o)
           next == EngineDay(books, config, closes, cost, d)
<1>1. /\ n \in Nat /\ j \in 1..n /\ j + 1 \in 1..n
      /\ d \in Int /\ DayAt(closes, j) \in Int /\ DayAt(closes, j) < d
  <2>1. closes \in Tapes
    BY DEF Setting
  <2>2. n \in Nat
    BY <2>1, DaysFit
  <2>3. j \in 1..n /\ j + 1 \in 1..n /\ j < j + 1
    BY <2>2
  <2> QED
    BY <2>1, <2>2, <2>3, DaysFit
<1>2. ASSUME NEW o \in 1..n
      PROVE  LET c == CycleOf(config, closes, cost, o)
             IN  /\ c \in C /\ Pos(o) \in H
                 /\ c.legs = Pos(o) /\ c.entry = PV(Pos(o), o) /\ c.cost = Fee(Pos(o))
                 /\ c.front \in Int /\ c.front > DayAt(closes, o)
                 /\ Fee(Pos(o)) \in Nat
                 /\ \A k \in o..n : PV(Pos(o), k) \in Int
                 /\ \A p \in 1..n : p # o => Pos(p) # Pos(o)
  <2>1. CycleOf(config, closes, cost, o) \in C /\ Pos(o) \in H
    BY DEF Cycles, Positions
  <2> HIDE DEF C, H
  <2> QED
    BY <2>1, CycleFits
<1>3. PICK o \in 1..j : Underway(books, config, closes, cost, j, o)
    BY DEF BooksFit
<1>4. /\ books \in BooksRecord(C, H)
      /\ Len(books.equity) = j /\ Len(books.held) = j
      /\ Sum(books.trades) = books.realized
      /\ books.equity[j] = Capital + books.realized + (PV(books.cycle.legs, j) - books.cycle.entry - books.cycle.cost)
      /\ books.equity[1] = Capital - Fee(books.held[1])
      /\ \A k \in 1..j : k < j => Financed(books.equity, books.held, closes, cost, k)
      /\ Cardinality(ToSet(books.held)) = Len(books.trades) + 1
    BY DEF BooksFit
<1>5. /\ books.cycle = CycleOf(config, closes, cost, o) /\ books.held[j] = Pos(o)
      /\ \A k \in 1..j : \E p \in 1..o : books.held[k] = Pos(p)
    BY <1>3 DEF Underway
<1> HIDE DEF n, d, C, H, PV, Fee, Pos
<1>6. /\ o \in 1..n /\ o \in 1..j /\ j \in o..n /\ j + 1 \in o..n /\ o # j + 1
      /\ j + 1 \in (j + 1)..n /\ o \in Nat
    BY <1>1
<1>7. /\ books.cycle.legs = Pos(o) /\ books.cycle.cost = Fee(Pos(o))
      /\ books.cycle.entry \in Int /\ books.cycle.front \in Int
      /\ Fee(Pos(o)) \in Nat /\ PV(Pos(o), j) \in Int /\ PV(Pos(o), j + 1) \in Int
      /\ Pos(o) \in H /\ CycleOf(config, closes, cost, o) \in C
  <2>1. o \in o..n
    BY <1>1, <1>6
  <2> QED
    BY <1>2, <1>5, <1>6, <2>1
<1> DEFINE pnl == (PV(Pos(o), j + 1) - books.cycle.entry) - (books.cycle.cost + Fee(Pos(o)))
<1>8. pnl \in Int /\ CyclePnl(books.cycle, closes, cost, d) = pnl
  <2>1. CyclePnl(books.cycle, closes, cost, d) = pnl
    BY <1>7 DEF CyclePnl, PV, Fee, d
  <2> QED
    BY <1>7, <2>1
<1> HIDE DEF pnl
<1>9. books.realized \in Int /\ Capital \in Int
    BY <1>4, TapesAssumption, SMTT(30) DEF BooksRecord
<1> DEFINE RolledFits(rolled, q) ==
               /\ rolled \in BooksRecord(C, H)
               /\ rolled.cycle = CycleOf(config, closes, cost, q) /\ rolled.cycle.front > d
               /\ rolled.equity = books.equity /\ rolled.held = books.held
               /\ next = [rolled EXCEPT !.equity = Append(@, Capital + rolled.realized
                                          + (PositionValue(rolled.cycle.legs, closes, d)
                                                 - rolled.cycle.entry - rolled.cycle.cost)),
                                     !.held = Append(@, rolled.cycle.legs)]
               /\ \/ /\ q = o /\ rolled.realized = books.realized /\ rolled.trades = books.trades
                  \/ /\ q = j + 1 /\ rolled.realized = books.realized + pnl
                     /\ rolled.trades = Append(books.trades, pnl)
<1>10. \E rolled, q : RolledFits(rolled, q)
  <2>1. CASE d >= books.cycle.front
    <3> HIDE DEF RolledFits
    <3> DEFINE rolled == Rolled(books, config, closes, cost, d)
               c == CycleOf(config, closes, cost, j + 1)
    <3>1. rolled = [books EXCEPT !.realized = books.realized + pnl,
                            !.trades = Append(books.trades, pnl), !.cycle = c]
      BY <1>8, Zenon DEF Rolled, CycleOf, d
    <3>2. next = [rolled EXCEPT !.equity = Append(@, Capital + rolled.realized
                                          + (PositionValue(rolled.cycle.legs, closes, d)
                                                 - rolled.cycle.entry - rolled.cycle.cost)),
                             !.held = Append(@, rolled.cycle.legs)]
      BY <2>1, Zenon DEF EngineDay
    <3> HIDE DEF rolled, next
    <3>3. c \in C /\ c.front > d
      BY <1>1, <1>2 DEF d
    <3> HIDE DEF c
    <3>4. /\ rolled \in BooksRecord(C, H)
          /\ rolled.cycle = c /\ rolled.realized = books.realized + pnl
          /\ rolled.trades = Append(books.trades, pnl)
          /\ rolled.equity = books.equity /\ rolled.held = books.held
      <4>1. books \in BooksRecord(C, H) /\ pnl \in Int /\ c \in C
        BY <1>4, <1>8, <3>3
      <4>2. Append(books.trades, pnl) \in Seq(Int) /\ books.realized + pnl \in Int
        BY <4>1 DEF BooksRecord
      <4> QED
        BY <3>1, <4>1, <4>2, Zenon DEF BooksRecord
    <3>5. RolledFits(rolled, j + 1)
      BY <3>2, <3>3, <3>4 DEF c, RolledFits
    <3> QED
      BY <3>5
  <2>2. CASE ~(d >= books.cycle.front)
    <3>1. next = [books EXCEPT !.equity = Append(@, Capital + books.realized
                                          + (PositionValue(books.cycle.legs, closes, d)
                                                 - books.cycle.entry - books.cycle.cost)),
                             !.held = Append(@, books.cycle.legs)]
      BY <2>2, Zenon DEF EngineDay
    <3> HIDE DEF next
    <3>2. books.cycle.front > d
      BY <1>1, <1>7, <2>2
    <3>3. RolledFits(books, o)
      BY <1>4, <1>5, <3>1, <3>2
    <3> QED
      BY <3>3, Zenon
  <2> QED
    BY <2>1, <2>2, Zenon
<1> HIDE DEF next
<1>11. PICK rolled, q : RolledFits(rolled, q)
    BY <1>10, Zenon
<1>12. /\ q \in 1..n /\ q \in 1..(j + 1) /\ j + 1 \in q..n /\ (\A p \in 1..o : p \in 1..q)
       /\ rolled.cycle = CycleOf(config, closes, cost, q)
    BY <1>1, <1>6, <1>11
<1> DEFINE v == Capital + rolled.realized + (PV(Pos(q), j + 1) - rolled.cycle.entry - rolled.cycle.cost)
<1>13. /\ rolled.cycle.legs = Pos(q) /\ rolled.cycle.entry = PV(Pos(q), q) /\ rolled.cycle.cost = Fee(Pos(q))
       /\ rolled.cycle.entry \in Int /\ Fee(Pos(q)) \in Nat /\ PV(Pos(q), j + 1) \in Int
       /\ Pos(q) \in H
  <2>1. q \in q..n
    BY <1>1, <1>12
  <2> QED
    BY <1>2, <1>12, <2>1
<1>14. next = [rolled EXCEPT !.equity = Append(@, v), !.held = Append(@, Pos(q))]
    BY <1>11, <1>13 DEF PV, d
<1>15. rolled.realized \in Int
    BY <1>11 DEF BooksRecord
<1>16. v \in Int
    BY <1>9, <1>13, <1>15
<1> HIDE DEF RolledFits
<1>17. /\ next \in BooksRecord(C, H)
       /\ next.cycle = rolled.cycle /\ next.realized = rolled.realized /\ next.trades = rolled.trades
       /\ next.equity = Append(books.equity, v) /\ next.held = Append(books.held, Pos(q))
  <2>1. rolled \in BooksRecord(C, H) /\ rolled.equity = books.equity /\ rolled.held = books.held
    BY <1>11 DEF RolledFits
  <2> HIDE DEF v
  <2>2. Append(rolled.equity, v) \in Seq(Int) /\ Append(rolled.held, Pos(q)) \in Seq(H)
    BY <1>13, <1>16, <2>1 DEF BooksRecord
  <2>3. /\ next \in BooksRecord(C, H)
        /\ next.cycle = rolled.cycle /\ next.realized = rolled.realized /\ next.trades = rolled.trades
        /\ next.equity = Append(rolled.equity, v) /\ next.held = Append(rolled.held, Pos(q))
    BY <1>14, <2>1, <2>2, Zenon DEF BooksRecord
  <2> QED
    BY <2>1, <2>3
<1>18. /\ books.equity \in Seq(Int) /\ books.held \in Seq(H) /\ books.trades \in Seq(Int)
       /\ Len(books.trades) \in Nat
    BY <1>4 DEF BooksRecord
<1>19. /\ Len(next.equity) = j + 1 /\ next.equity[j + 1] = v
       /\ \A k \in 1..j : next.equity[k] = books.equity[k]
  <2> HIDE DEF v
  <2> QED
    BY <1>4, <1>16, <1>17, <1>18, AppendOne
<1>20. /\ Len(next.held) = j + 1 /\ next.held[j + 1] = Pos(q)
       /\ \A k \in 1..j : next.held[k] = books.held[k]
       /\ ToSet(next.held) = ToSet(books.held) \cup {Pos(q)}
  <2>1. /\ Len(books.held) = j /\ books.held \in Seq(H) /\ Pos(q) \in H
        /\ next.held = Append(books.held, Pos(q))
    BY <1>4, <1>13, <1>17, <1>18
  <2> DEFINE x == Pos(q)
             held == books.held
  <2> HIDE DEF x, held
  <2>2. /\ Len(Append(held, x)) = j + 1 /\ Append(held, x)[j + 1] = x
        /\ \A k \in 1..j : Append(held, x)[k] = held[k]
    BY <2>1, AppendOne DEF x, held
  <2>3. ToSet(Append(held, x)) = ToSet(held) \cup {x}
    BY <2>1, AppendTo DEF x, held
  <2> QED
    BY <2>1, <2>2, <2>3 DEF x, held
<1>21. Underway(next, config, closes, cost, j + 1, q)
  <2>1. ASSUME NEW k \in 1..(j + 1) PROVE \E p \in 1..q : next.held[k] = Pos(p)
    <3>1. CASE k = j + 1
      <4>1. q \in 1..q
        BY <1>12
      <4> QED
        BY <1>20, <3>1, <4>1
    <3>2. CASE k # j + 1
      <4>1. k \in 1..j
        BY <3>2
      <4>2. PICK p \in 1..o : books.held[k] = Pos(p)
        BY <1>5, <4>1
      <4> QED
        BY <1>12, <1>20, <4>1, <4>2, Zenon
    <3> QED
      BY <3>1, <3>2
  <2>2. rolled.cycle.front > d
    BY <1>11 DEF RolledFits
  <2> QED
    BY <1>12, <1>17, <1>20, <2>1, <2>2, Zenon DEF Underway, Pos, d
<1>22. \/ /\ q = o /\ rolled.realized = books.realized /\ rolled.trades = books.trades
       \/ /\ q = j + 1 /\ rolled.realized = books.realized + pnl
          /\ rolled.trades = Append(books.trades, pnl)
    BY <1>11 DEF RolledFits
<1>23. Sum(next.trades) = next.realized
    BY <1>4, <1>8, <1>17, <1>18, <1>22, SumAppend, Zenon
<1>24. next.equity[j + 1] = Capital + next.realized
           + (PV(next.cycle.legs, j + 1) - next.cycle.entry - next.cycle.cost)
    BY <1>13, <1>17, <1>19, Zenon
<1>25. next.equity[1] = Capital - Fee(next.held[1])
  <2>1. 1 \in 1..j
    OBVIOUS
  <2> QED
    BY <1>4, <1>19, <1>20, <2>1
<1>26. Financed(next.equity, next.held, closes, cost, j)
  <2>1. j \in 1..j
    OBVIOUS
  <2>2. /\ next.equity[j] = books.equity[j] /\ next.equity[j + 1] = v
        /\ next.held[j] = Pos(o) /\ next.held[j + 1] = Pos(q)
    BY <1>5, <1>19, <1>20, <2>1, Zenon
  <2>3. books.equity[j] = Capital + books.realized + (PV(Pos(o), j) - books.cycle.entry - Fee(Pos(o)))
    BY <1>4, <1>7
  <2>4. v - books.equity[j] = PV(Pos(o), j + 1) - PV(Pos(o), j)
                               - (IF Pos(o) = Pos(q) THEN 0 ELSE Fee(Pos(o)) + Fee(Pos(q)))
    <3>1. CASE q = o /\ rolled.realized = books.realized
      <4>1. v = Capital + books.realized + (PV(Pos(o), j + 1) - books.cycle.entry - Fee(Pos(o)))
        BY <1>5, <1>7, <1>12, <3>1
      <4> HIDE DEF v
      <4>2. v - books.equity[j] = PV(Pos(o), j + 1) - PV(Pos(o), j)
        BY <1>7, <1>9, <2>3, <4>1
      <4>3. PV(Pos(o), j + 1) - PV(Pos(o), j) = PV(Pos(o), j + 1) - PV(Pos(o), j) - 0
        BY <1>7
      <4> QED
        BY <3>1, <4>2, <4>3
    <3>2. CASE q = j + 1 /\ rolled.realized = books.realized + pnl
      <4>1. v = Capital + (books.realized + pnl) + (PV(Pos(q), j + 1) - PV(Pos(q), q) - Fee(Pos(q)))
        BY <1>13, <3>2
      <4>2. Pos(o) # Pos(q)
        BY <1>1, <1>2, <1>6, <3>2
      <4>3. pnl = (PV(Pos(o), j + 1) - books.cycle.entry) - (Fee(Pos(o)) + Fee(Pos(o)))
        BY <1>7 DEF pnl
      <4>4. v = Capital + (books.realized + pnl) - Fee(Pos(q))
        BY <1>8, <1>9, <1>13, <3>2, <4>1
      <4> HIDE DEF v
      <4>5. v - books.equity[j] = PV(Pos(o), j + 1) - PV(Pos(o), j) - (Fee(Pos(o)) + Fee(Pos(q)))
        BY <1>7, <1>8, <1>9, <1>13, <2>3, <4>3, <4>4
      <4> QED
        BY <4>2, <4>5
    <3> QED
      BY <1>22, <3>1, <3>2
  <2> HIDE DEF v
  <2> QED
    BY <2>2, <2>4 DEF Financed, PV, Fee
<1>27. ASSUME NEW k \in 1..(j + 1), k < j + 1
       PROVE  Financed(next.equity, next.held, closes, cost, k)
  <2>1. CASE k = j
    BY <1>26, <2>1
  <2>2. CASE k # j
    <3>1. k \in 1..j /\ k + 1 \in 1..j /\ k < j
      BY <1>27, <2>2
    <3>2. Financed(books.equity, books.held, closes, cost, k)
      BY <1>4, <3>1
    <3>3. /\ next.equity[k] = books.equity[k] /\ next.equity[k + 1] = books.equity[k + 1]
          /\ next.held[k] = books.held[k] /\ next.held[k + 1] = books.held[k + 1]
      BY <1>19, <1>20, <3>1, Zenon
    <3> QED
      BY <3>2, <3>3 DEF Financed
  <2> QED
    BY <2>1, <2>2
<1>28. Cardinality(ToSet(next.held)) = Len(next.trades) + 1
  <2>1. IsFiniteSet(ToSet(books.held))
    BY <1>18, FiniteEntries
  <2>2. CASE q = o /\ rolled.trades = books.trades
    <3>1. Pos(q) \in ToSet(books.held)
      <4>1. j \in 1..j /\ books.held[j] = Pos(q)
        BY <1>5, <2>2
      <4> QED
        BY <1>4, <1>18, <4>1, InToSet
    <3>2. ToSet(next.held) = ToSet(books.held)
      BY <1>20, <3>1
    <3> QED
      BY <1>4, <1>17, <2>2, <3>2
  <2>3. CASE q = j + 1 /\ rolled.trades = Append(books.trades, pnl)
    <3>1. Pos(q) \notin ToSet(books.held)
      <4> SUFFICES ASSUME Pos(q) \in ToSet(books.held) PROVE FALSE
        OBVIOUS
      <4>0. ToSet(books.held) = {books.held[i] : i \in 1..j}
        BY <1>4, <1>18, InToSet, Zenon
      <4>1. PICK k \in 1..j : books.held[k] = Pos(q)
        BY <4>0
      <4>2. PICK p \in 1..o : Pos(p) = Pos(q)
        BY <1>5, <4>1
      <4>3. p \in 1..n /\ p # q /\ q \in 1..n
        BY <1>1, <1>6, <2>3
      <4> QED
        BY <1>2, <4>2, <4>3
    <3>2. Cardinality(ToSet(next.held)) = Cardinality(ToSet(books.held)) + 1
      BY <1>20, <2>1, <3>1, FS_AddElement, Zenon
    <3>3. Len(next.trades) = Len(books.trades) + 1
      BY <1>8, <1>17, <1>18, <2>3, AppendOne
    <3> QED
      BY <1>4, <1>18, <3>2, <3>3
  <2> QED
    BY <1>22, <2>2, <2>3
<1>29. \E p \in 1..(j + 1) : Underway(next, config, closes, cost, j + 1, p)
    BY <1>12, <1>21
<1> QED
  <2> HIDE DEF v
  <2>1. BooksFit(next, config, closes, cost, j + 1)
    BY <1>17, <1>19, <1>20, <1>23, <1>24, <1>25, <1>27, <1>28, <1>29,
       Zenon DEF BooksFit, C, H, PV, Fee
  <2> QED
    BY <2>1 DEF next, d

\* The books of every day of a run.
LEMMA BooksKept ==
    ASSUME NEW config, NEW closes, NEW cost, Setting(config, closes, cost), DayCount(closes) > 0
    PROVE  \A j \in 1..DayCount(closes) :
               BooksFit(RunOf(config, closes, cost)[j], config, closes, cost, j)
<1> DEFINE n == DayCount(closes)
           f == RunOf(config, closes, cost)
           Fits(j) == BooksFit(f[j], config, closes, cost, j)
           M == {j \in Nat : j + 1 <= n => Fits(j + 1)}
<1>1. n \in Nat /\ 0 \in 0..n /\ 1 \in 0..n
  <2>1. n \in Nat
    BY DaysFit DEF Setting
  <2> QED
    BY <2>1
<1>2. \A j \in 0..n : f[j] = RunStep(config, closes, cost, f, j)
  <2>1. IsRun(f, config, closes, cost)
    BY <1>1, RunExists DEF DayCount
  <2> HIDE DEF f
  <2> QED
    BY <2>1 DEF IsRun, DayCount
<1> HIDE DEF n, f
<1>3. f[0] = [cycle |-> CycleOf(config, closes, cost, 1), realized |-> 0,
              equity |-> << >>, trades |-> << >>, held |-> << >>]
    BY <1>1, <1>2 DEF RunStep, CycleOf, DayAt
<1>4. \A j \in 0..n : j # 0 => f[j] = EngineDay(f[j - 1], config, closes, cost, DayAt(closes, j))
    BY <1>2 DEF RunStep, DayAt
<1>5. Fits(1)
  <2>1. f[1] = EngineDay(f[0], config, closes, cost, DayAt(closes, 1))
    BY <1>1, <1>4
  <2>2. BooksFit(EngineDay(f[0], config, closes, cost, DayAt(closes, 1)), config, closes, cost, 1)
    BY <1>3, FirstDay
  <2> QED
    BY <2>1, <2>2
<1>6. ASSUME NEW j \in Nat, j > 0, j + 1 <= n, Fits(j) PROVE Fits(j + 1)
  <2>1. f[j + 1] = EngineDay(f[j], config, closes, cost, DayAt(closes, j + 1))
    <3>1. j + 1 \in 0..n /\ j + 1 # 0 /\ (j + 1) - 1 = j
      BY <1>1, <1>6
    <3>2. f[j + 1] = EngineDay(f[(j + 1) - 1], config, closes, cost, DayAt(closes, j + 1))
      BY <1>4, <3>1
    <3> QED
      BY <3>1, <3>2
  <2>2. BooksFit(EngineDay(f[j], config, closes, cost, DayAt(closes, j + 1)),
                config, closes, cost, j + 1)
    BY <1>6, NextDay DEF n
  <2> QED
    BY <2>1, <2>2
<1> HIDE DEF Fits
<1>7. M \in SUBSET Nat /\ 0 \in M /\ \A j \in M : j + 1 \in M
  <2>1. 0 + 1 = 1
    OBVIOUS
  <2>2. ASSUME NEW j \in M, (j + 1) + 1 <= n PROVE Fits((j + 1) + 1)
    <3>1. j \in Nat /\ j + 1 \in Nat /\ j + 1 > 0 /\ j + 1 <= n
      BY <1>1, <2>2
    <3>2. Fits(j + 1)
      BY <2>2, <3>1
    <3> QED
      BY <1>6, <2>2, <3>1, <3>2
  <2> QED
    BY <1>5, <2>1, <2>2
<1> HIDE DEF M
<1>8. M = Nat
    BY <1>7, Induction
<1>9. ASSUME NEW j \in 1..n PROVE Fits(j)
  <2>1. j - 1 \in M /\ (j - 1) + 1 = j /\ j <= n
    BY <1>1, <1>8
  <2> QED
    BY <2>1 DEF M
<1> QED
    BY <1>9 DEF Fits, f, n

\* What a finished run reports: the books of the last day, and a last trade.
LEMMA RunCloses ==
    ASSUME NEW config, NEW closes, NEW cost, Setting(config, closes, cost), DayCount(closes) > 0
    PROVE  LET n     == DayCount(closes)
               r     == run_backtest_engine(config, closes, cost)
               fee(i) == CycleCost(r.held[i], cost)
           IN  /\ n \in Nat \ {0}
               /\ r.equity \in Seq(Int) /\ r.trades \in Seq(Int)
               /\ Len(r.equity) = n /\ Len(r.held) = n
               /\ fee(1) \in Nat /\ fee(n) \in Nat
               /\ r.equity[1] = Capital - fee(1)
               /\ \A k \in 1..n : k < n => Financed(r.equity, r.held, closes, cost, k)
               /\ r.equity[n] = Capital + Sum(r.trades) + fee(n) /\ Sum(r.trades) \in Int
               /\ Cardinality(ToSet(r.held)) = Len(r.trades)
<1> DEFINE n == DayCount(closes)
           r == run_backtest_engine(config, closes, cost)
           f == RunOf(config, closes, cost)[n]
           C == Cycles(config, closes, cost)
           H == Positions(config, closes)
           last == DayAt(closes, n)
           Pos(o) == Opening(config, closes, o)
           pnl == CyclePnl(f.cycle, closes, cost, last)
<1>1. n \in Nat /\ n > 0 /\ n \in 1..n /\ 1 \in 1..n /\ last \in Int
  <2>1. n \in Nat
    BY DaysFit DEF Setting
  <2>2. n \in 1..n /\ 1 \in 1..n
    BY <2>1
  <2> QED
    BY <2>1, <2>2, DaysFit DEF Setting
<1>2. BooksFit(f, config, closes, cost, n)
    BY <1>1, BooksKept
<1>3. r = IF last < f.cycle.front THEN [f EXCEPT !.trades = Append(@, pnl)] ELSE f
    BY RunIsChosen DEF DayCount, DayAt
<1> HIDE DEF r, f, C, H, n, last
<1>4. PICK o \in 1..n : Underway(f, config, closes, cost, n, o)
    BY <1>2 DEF BooksFit
<1>5. /\ f \in BooksRecord(C, H) /\ Len(f.equity) = n /\ Len(f.held) = n
      /\ Sum(f.trades) = f.realized
      /\ f.equity[n] = Capital + f.realized
             + (PositionValue(f.cycle.legs, closes, last) - f.cycle.entry - f.cycle.cost)
      /\ f.equity[1] = Capital - CycleCost(f.held[1], cost)
      /\ \A k \in 1..n : k < n => Financed(f.equity, f.held, closes, cost, k)
      /\ Cardinality(ToSet(f.held)) = Len(f.trades) + 1
    BY <1>2 DEF BooksFit, C, H, last
<1>6. /\ f.cycle = CycleOf(config, closes, cost, o) /\ f.cycle.front > last
      /\ f.held[n] = Pos(o)
      /\ \A k \in 1..n : \E p \in 1..n : f.held[k] = Pos(p)
  <2>1. \A p \in 1..o : p \in 1..n
    BY <1>1
  <2> QED
    BY <1>4, <2>1 DEF Underway, last
<1>7. \A p \in 1..n : CycleCost(Pos(p), cost) \in Nat
    BY CycleFits DEF n
<1>8. /\ f.cycle.legs = Pos(o) /\ f.cycle.cost = CycleCost(Pos(o), cost)
      /\ f.cycle.entry \in Int /\ f.cycle.front \in Int
      /\ PositionValue(Pos(o), closes, last) \in Int
  <2>1. o \in 1..n /\ o \in o..n /\ n \in o..n
    BY <1>1
  <2> QED
    BY <1>6, <2>1, CycleFits DEF n, last
<1> HIDE DEF Pos
<1>9. pnl \in Int /\ pnl = (PositionValue(Pos(o), closes, last) - f.cycle.entry)
                              - (f.cycle.cost + CycleCost(Pos(o), cost))
  <2>1. pnl = (PositionValue(Pos(o), closes, last) - f.cycle.entry)
                  - (f.cycle.cost + CycleCost(Pos(o), cost))
    BY <1>8 DEF CyclePnl
  <2> QED
    BY <1>7, <1>8, <2>1
<1> HIDE DEF pnl
<1>10. r = [f EXCEPT !.trades = Append(f.trades, pnl)]
    BY <1>1, <1>3, <1>6, <1>8
<1>11. /\ r.equity = f.equity /\ r.held = f.held /\ r.trades = Append(f.trades, pnl)
       /\ f.equity \in Seq(Int) /\ f.held \in Seq(H) /\ f.trades \in Seq(Int) /\ f.realized \in Int
    BY <1>5, <1>10 DEF BooksRecord
<1>12. /\ r.trades \in Seq(Int) /\ Len(r.trades) = Len(f.trades) + 1
       /\ Sum(r.trades) = f.realized + pnl /\ Sum(r.trades) \in Int
  <2>1. Append(f.trades, pnl) \in Seq(Int) /\ Len(Append(f.trades, pnl)) = Len(f.trades) + 1
    BY <1>9, <1>11, AppendOne
  <2>2. Sum(Append(f.trades, pnl)) = Sum(f.trades) + pnl
    BY <1>9, <1>11, SumAppend, Zenon
  <2> QED
    BY <1>5, <1>9, <1>11, <2>1, <2>2
<1>13. CycleCost(r.held[1], cost) \in Nat /\ CycleCost(r.held[n], cost) \in Nat
    BY <1>1, <1>6, <1>7, <1>11, Zenon
<1>14. r.equity[n] = Capital + Sum(r.trades) + CycleCost(r.held[n], cost)
  <2>1. Capital \in Int
    BY TapesAssumption
  <2>2. f.equity[n] = Capital + f.realized
             + (PositionValue(Pos(o), closes, last) - f.cycle.entry - CycleCost(Pos(o), cost))
    BY <1>5, <1>8
  <2>3. CycleCost(r.held[n], cost) = CycleCost(Pos(o), cost) /\ CycleCost(Pos(o), cost) \in Nat
    BY <1>6, <1>7, <1>11, Zenon
  <2>4. pnl = (PositionValue(Pos(o), closes, last) - f.cycle.entry)
                  - (CycleCost(Pos(o), cost) + CycleCost(Pos(o), cost))
    BY <1>8, <1>9
  <2> DEFINE p == PositionValue(Pos(o), closes, last)
             c == CycleCost(Pos(o), cost)
  <2>5. f.equity[n] = Capital + f.realized + (p - f.cycle.entry - c)
    BY <2>2
  <2>6. pnl = (p - f.cycle.entry) - (c + c) /\ p \in Int /\ c \in Int
    BY <1>8, <2>3, <2>4
  <2> HIDE DEF p, c
  <2> DEFINE e == f.cycle.entry
             z == f.realized
  <2>7. e \in Int /\ z \in Int /\ pnl = (p - e) - (c + c) /\ f.equity[n] = Capital + z + (p - e - c)
    BY <1>8, <1>11, <2>5, <2>6
  <2> HIDE DEF e, z
  <2>8. f.equity[n] = Capital + (z + pnl) + c
    BY <2>1, <2>6, <2>7
  <2> QED
    BY <1>11, <1>12, <2>3, <2>8 DEF c, z
<1>15. /\ r.equity[1] = Capital - CycleCost(r.held[1], cost)
       /\ \A k \in 1..n : k < n => Financed(r.equity, r.held, closes, cost, k)
       /\ Cardinality(ToSet(r.held)) = Len(r.trades)
    BY <1>5, <1>11, <1>12
<1> QED
    BY <1>1, <1>5, <1>11, <1>12, <1>13, <1>14, <1>15 DEF n, r

Fractions == [num : Int, den : Nat \ {0}]

Peak(equity, i) == Max({equity[j] : j \in 1 .. i})

\* The highest equity so far.
LEMMA PeakIsHighest ==
    ASSUME NEW equity \in Seq(Int)
    PROVE  \A i \in 1..Len(equity) :
              /\ Peak(equity, i) \in Int
              /\ \A j \in 1..i : equity[j] <= Peak(equity, i)
<1> DEFINE n == Len(equity)
           S(i) == {equity[j] : j \in 1 .. i}
           Highest(i) == \E x \in S(i) : \A y \in S(i) : x >= y
           M == {i \in Nat : i + 1 <= n => Highest(i + 1)}
<1>1. n \in Nat /\ \A i \in 1..n : equity[i] \in Int
    OBVIOUS
<1> HIDE DEF n
<1>2. 0 \in M
  <2>1. S(0 + 1) = {equity[1]}
    OBVIOUS
  <2>2. 1 <= n => equity[1] \in Int
    BY <1>1
  <2> HIDE DEF S
  <2>3. ASSUME 1 <= n PROVE Highest(0 + 1)
    <3>1. equity[1] \in S(0 + 1) /\ \A y \in S(0 + 1) : equity[1] >= y
      BY <2>1, <2>2, <2>3
    <3> QED
      BY <3>1
  <2> QED
    BY <2>3
<1>3. ASSUME NEW i \in M, (i + 1) + 1 <= n PROVE Highest((i + 1) + 1)
  <2> DEFINE k == i + 1
             e == equity[k + 1]
  <2>1. k \in Nat /\ k + 1 \in 1..n /\ k <= n /\ 1..(k + 1) = (1..k) \cup {k + 1}
    BY <1>1, <1>3
  <2>2. Highest(k)
    BY <1>3, <2>1
  <2>3. e \in Int /\ S(k + 1) = S(k) \cup {e} /\ S(k) \subseteq Int
    BY <1>1, <2>1
  <2> HIDE DEF k, e, S
  <2>4. PICK x \in S(k) : \A y \in S(k) : x >= y
    BY <2>2
  <2>5. \A y \in S(k) : y \in Int
    BY <2>3
  <2>6. CASE x >= e
    <3>1. x \in S(k + 1) /\ \A y \in S(k + 1) : x >= y
      BY <2>3, <2>4, <2>6
    <3> QED
      BY <3>1 DEF k
  <2>7. CASE ~(x >= e)
    <3>1. \A y \in S(k) : e >= y
      BY <2>3, <2>4, <2>5, <2>7
    <3>2. e \in S(k + 1) /\ \A y \in S(k + 1) : e >= y
      BY <2>3, <3>1
    <3> QED
      BY <3>2 DEF k
  <2> QED
    BY <2>6, <2>7
<1> HIDE DEF Highest
<1>4. M \in SUBSET Nat /\ \A i \in M : i + 1 \in M
    BY <1>3
<1> HIDE DEF M
<1>5. M = Nat
    BY <1>2, <1>4, Induction, Zenon
<1> SUFFICES ASSUME NEW i \in 1..n
             PROVE  /\ Peak(equity, i) \in Int
                    /\ \A j \in 1..i : equity[j] <= Peak(equity, i)
    BY DEF n
<1>6. Highest(i)
  <2>1. i - 1 \in M /\ (i - 1) + 1 = i /\ i <= n
    BY <1>1, <1>5
  <2> QED
    BY <2>1 DEF M
<1>7. Peak(equity, i) \in S(i) /\ \A y \in S(i) : Peak(equity, i) >= y
    BY <1>6, Zenon DEF Highest, Peak, Max
<1>8. \A j \in 1..i : equity[j] \in Int /\ equity[j] \in S(i)
    BY <1>1
<1>9. Peak(equity, i) \in Int
    BY <1>7, <1>8
<1> HIDE DEF S
<1> QED
    BY <1>7, <1>8, <1>9

Fall(equity, i) == [num |-> equity[i] - Peak(equity, i), den |-> Peak(equity, i)]
NoFall == [num |-> 0, den |-> 1]

\* The falls of the first k days.
Falls(equity, k) == {Fall(equity, i) : i \in {j \in 1..k : Peak(equity, j) > 0}} \cup {NoFall}

\* The drawdown is no less deep than any fall.
LEMMA DrawdownIsDeepest ==
    ASSUME NEW equity \in Seq(Int)
    PROVE  /\ max_drawdown(equity) \in Fractions
           /\ \A i \in 1..Len(equity) : Peak(equity, i) > 0 =>
                 max_drawdown(equity).num * Peak(equity, i)
                     <= (equity[i] - Peak(equity, i)) * max_drawdown(equity).den
<1> DEFINE n == Len(equity)
           F(k) == Falls(equity, k)
           Deepest(k) == \E f \in F(k) : \A g \in F(k) : f.num * g.den <= g.num * f.den
           M == {k \in Nat : k <= n => F(k) \subseteq Fractions /\ Deepest(k)}
<1>1. n \in Nat /\ \A i \in 1..n : equity[i] \in Int /\ Peak(equity, i) \in Int
    BY PeakIsHighest
<1>2. NoFall \in Fractions
    BY DEF NoFall, Fractions
<1>3. \A i \in 1..n : Peak(equity, i) > 0 => Fall(equity, i) \in Fractions
    BY <1>1 DEF Fall, Fractions
<1> HIDE DEF n
<1>4. 0 \in M
  <2>1. F(0) = {NoFall}
    BY DEF Falls
  <2>2. NoFall.num * NoFall.den <= NoFall.num * NoFall.den
    BY DEF NoFall
  <2> QED
    BY <1>2, <2>1, <2>2
<1>5. ASSUME NEW k \in M, k + 1 <= n PROVE F(k + 1) \subseteq Fractions /\ Deepest(k + 1)
  <2>1. k \in Nat /\ k + 1 \in 1..n /\ k <= n /\ 1..(k + 1) = (1..k) \cup {k + 1}
    BY <1>1, <1>5
  <2>2. F(k) \subseteq Fractions /\ Deepest(k)
    BY <1>5, <2>1
  <2>3. CASE ~(Peak(equity, k + 1) > 0)
    <3>1. F(k + 1) = F(k)
      BY <2>1, <2>3 DEF Falls
    <3> QED
      BY <2>2, <3>1
  <2>4. CASE Peak(equity, k + 1) > 0
    <3> DEFINE h == Fall(equity, k + 1)
    <3>1. F(k + 1) = F(k) \cup {h}
      <4>1. {j \in 1..(k + 1) : Peak(equity, j) > 0} = {j \in 1..k : Peak(equity, j) > 0} \cup {k + 1}
        BY <2>1, <2>4
      <4> QED
        BY <4>1 DEF Falls
    <3>2. h \in Fractions
      BY <1>3, <2>1, <2>4
    <3> HIDE DEF h, F
    <3>3. PICK f \in F(k) : \A g \in F(k) : f.num * g.den <= g.num * f.den
      BY <2>2
    <3>4. \A g \in F(k) : g \in Fractions
      BY <2>2
    <3>5. \A g \in Fractions : g.num \in Int /\ g.den \in Nat \ {0}
      BY DEF Fractions
    <3>6. CASE f.num * h.den <= h.num * f.den
      <4>1. f \in F(k + 1) /\ \A g \in F(k + 1) : f.num * g.den <= g.num * f.den
        BY <3>1, <3>3, <3>6
      <4> QED
        BY <2>2, <3>1, <3>2, <4>1
    <3>7. CASE ~(f.num * h.den <= h.num * f.den)
      <4>1. ASSUME NEW g \in F(k) PROVE h.num * g.den <= g.num * h.den
        <5>1. /\ h.num \in Int /\ f.num \in Int /\ g.num \in Int
              /\ h.den \in Nat \ {0} /\ f.den \in Nat \ {0} /\ g.den \in Nat \ {0}
          BY <3>2, <3>4, <3>5
        <5>2. h.num * f.den <= f.num * h.den
          <6>1. f.num * h.den \in Int /\ h.num * f.den \in Int
            BY <5>1
          <6> QED
            BY <3>7, <6>1
        <5>3. f.num * g.den <= g.num * f.den
          BY <3>3
        <5> QED
          BY <5>1, <5>2, <5>3, FractionsChain, Zenon
      <4>2. h.num * h.den <= h.num * h.den
        <5>1. h.num \in Int /\ h.den \in Int
          BY <3>2, <3>5
        <5> QED
          BY <5>1
      <4>3. h \in F(k + 1) /\ \A g \in F(k + 1) : h.num * g.den <= g.num * h.den
        BY <3>1, <4>1, <4>2
      <4> QED
        BY <2>2, <3>1, <3>2, <4>3
    <3> QED
      BY <3>6, <3>7
  <2> QED
    BY <2>3, <2>4
<1> HIDE DEF Deepest, F
<1>6. M \in SUBSET Nat /\ \A k \in M : k + 1 \in M
    BY <1>5
<1> HIDE DEF M
<1>7. n \in M
    BY <1>1, <1>4, <1>6, Induction, Zenon
<1>8. F(n) \subseteq Fractions /\ Deepest(n)
    BY <1>7 DEF M
<1>9. max_drawdown(equity) = CHOOSE f \in F(n) : \A g \in F(n) : f.num * g.den <= g.num * f.den
  <2>1. DOMAIN equity = 1..n
    BY DEF n
  <2> QED
    BY <2>1, Zenon DEF max_drawdown, F, Falls, Fall, NoFall, Peak
<1> DEFINE f == max_drawdown(equity)
<1>10. f \in F(n) /\ \A g \in F(n) : f.num * g.den <= g.num * f.den
    BY <1>8, <1>9, Zenon DEF Deepest
<1>11. \A i \in 1..n : Peak(equity, i) > 0 => Fall(equity, i) \in F(n)
    BY DEF F, Falls
<1>12. \A i : Fall(equity, i).num = equity[i] - Peak(equity, i) /\ Fall(equity, i).den = Peak(equity, i)
    BY DEF Fall
<1> HIDE DEF f
<1>13. \A i \in 1..n : Peak(equity, i) > 0 =>
          f.num * Peak(equity, i) <= (equity[i] - Peak(equity, i)) * f.den
    BY <1>10, <1>11, <1>12, Zenon
<1> QED
    BY <1>8, <1>10, <1>13 DEF f, n

\* A fall below the first day's equity is no deeper than the fall below a peak that is
\* no lower, while there is equity left.
LEMMA FallFromPeak ==
    ASSUME NEW base \in Nat \ {0}, NEW p \in Int, base <= p, NEW e \in Nat,
           NEW num \in Int, NEW den \in Nat \ {0}, num * p <= (e - p) * den
    PROVE  num * base <= (e - base) * den
<1> DEFINE s == num + den
<1>1. s * p <= e * den
  <2>1. (e - p) * den = e * den - p * den /\ s * p = num * p + p * den
    OBVIOUS
  <2>2. num * p \in Int /\ p * den \in Int /\ e * den \in Int /\ (e - p) * den \in Int
    OBVIOUS
  <2> QED
    BY <2>1, <2>2
<1>2. s * base <= e * den
  <2>1. CASE s >= 0
    <3>1. \A x, y \in Int, z \in Nat : x <= y => z * x <= z * y
      OBVIOUS
    <3>2. s * base <= s * p
      BY <2>1, <3>1
    <3>3. s * base \in Int /\ s * p \in Int /\ e * den \in Int
      OBVIOUS
    <3> QED
      BY <1>1, <3>2, <3>3
  <2>2. CASE s < 0
    <3>1. s * base <= 0 /\ e * den >= 0
      BY <2>2
    <3>2. s * base \in Int /\ e * den \in Int
      OBVIOUS
    <3> QED
      BY <3>1, <3>2
  <2> QED
    BY <2>1, <2>2
<1>3. (e - base) * den = e * den - base * den /\ s * base = num * base + base * den
  OBVIOUS
<1>4. num * base \in Int /\ base * den \in Int /\ e * den \in Int /\ (e - base) * den \in Int
  OBVIOUS
<1> HIDE DEF s
<1> QED
    BY <1>2, <1>3, <1>4

\* What the count of the winning trades says of their sum.
LEMMA WinsAndSum ==
    ASSUME NEW s \in Seq(Int)
    PROVE  LET wins == Cardinality({i \in DOMAIN s : s[i] > 0})
           IN  /\ wins = 0 => Sum(s) <= 0
               /\ wins = Len(s) => Sum(s) >= 0
<1> DEFINE W == {i \in DOMAIN s : s[i] > 0}
<1>1. /\ DOMAIN s = 1..Len(s) /\ Len(s) \in Nat
      /\ IsFiniteSet(DOMAIN s) /\ Cardinality(DOMAIN s) = Len(s)
  <2>1. DOMAIN s = 1..Len(s) /\ Len(s) \in Nat
    OBVIOUS
  <2>2. IsFiniteSet(1..Len(s)) /\ Cardinality(1..Len(s)) = Len(s)
    BY <2>1, FS_Interval, SMTT(30)
  <2> QED
    BY <2>1, <2>2
<1>2. \A i \in DOMAIN s : s[i] \in Int
    OBVIOUS
<1>3. SumOver(s, DOMAIN s) \in Int
    BY <1>1, <1>2, SumType
<1>4. W \subseteq DOMAIN s /\ IsFiniteSet(W)
    BY <1>1, FS_Subset
<1>5. ASSUME Cardinality(W) = 0 PROVE Sum(s) <= 0
  <2>1. W = {}
    BY <1>4, <1>5, FS_EmptySet, Zenon
  <2>2. \A i \in DOMAIN s : ~(s[i] > 0)
    BY <2>1
  <2>3. \A i \in DOMAIN s : ~(1 * s[i] > 0)
    BY <1>2, <2>2
  <2>4. ~(1 * SumOver(s, DOMAIN s) > 0)
  <3> SUFFICES ASSUME 1 * SumOver(s, DOMAIN s) > 0 PROVE FALSE
    OBVIOUS
  <3>1. \E i \in DOMAIN s : 1 * s[i] > 0
    BY <1>1, <1>2, SumSign
  <3> QED
    BY <2>3, <3>1
  <2> QED
    BY <1>3, <2>4 DEF Sum
<1>6. ASSUME Cardinality(W) = Len(s) PROVE Sum(s) >= 0
  <2>1. W = DOMAIN s
    BY <1>1, <1>4, <1>6, FS_Subset, Zenon
  <2>2. \A i \in DOMAIN s : s[i] \in Nat
    BY <1>2, <2>1
  <2>3. SumOver(s, DOMAIN s) \in Nat
    BY <1>1, <2>2, SumNatural
  <2> QED
    BY <2>3 DEF Sum
<1> QED
    BY <1>5, <1>6

\* A result is of a run over a tape, with the legs and costs of some configuration.
EngineInv ==
    /\ LegsFit
    /\ backtest.status = "succeeded" =>
          /\ Setting(backtest.config, backtest.closes, backtest.cost)
          /\ Cardinality(SimDays(backtest.closes)) >= 2
          /\ backtest.run = run_backtest_engine(backtest.config, backtest.closes, backtest.cost)

LEMMA RunAddsUp ==
    ASSUME EngineInv, backtest.status = "succeeded"
    PROVE  EquityAddsUp
<1> DEFINE config == backtest.config
           closes == backtest.closes
           cost == backtest.cost
           books == backtest.run
           n == DayCount(closes)
           fee(i) == CycleCost(books.held[i], cost)
<1>1. /\ Setting(config, closes, cost) /\ Cardinality(SimDays(closes)) >= 2
      /\ books = run_backtest_engine(config, closes, cost)
    BY DEF EngineInv
<1>2. n > 0 /\ Len(Ascending(SimDays(closes))) = n
  <2>1. SimDays(closes) \in SUBSET Int /\ IsFiniteSet(SimDays(closes))
    BY <1>1, DaysOfTape DEF Setting
  <2>2. n = Cardinality(SimDays(closes)) /\ Cardinality(SimDays(closes)) \in Nat
    BY <2>1, AscendingOrder DEF DayCount
  <2> QED
    BY <1>1, <2>2 DEF DayCount
<1>3. /\ n \in Nat \ {0}
      /\ books.equity \in Seq(Int) /\ books.trades \in Seq(Int)
      /\ Len(books.equity) = n /\ Len(books.held) = n
      /\ fee(1) \in Nat /\ fee(n) \in Nat
      /\ books.equity[1] = Capital - fee(1)
      /\ \A k \in 1..n : k < n => Financed(books.equity, books.held, closes, cost, k)
      /\ books.equity[n] = Capital + Sum(books.trades) + fee(n) /\ Sum(books.trades) \in Int
      /\ Cardinality(ToSet(books.held)) = Len(books.trades)
  <2> HIDE DEF config, closes, cost, books
  <2> QED
    BY <1>1, <1>2, RunCloses, SMTT(30)
<1> HIDE DEF n
<1>4. Last(books.equity) = books.equity[n]
    BY <1>3 DEF Last
<1>5. SelfFinancing
  <2>1. ASSUME NEW i \in 1 .. n - 1
        PROVE  books.equity[i + 1] - books.equity[i] =
                   PositionValue(books.held[i], closes, Ascending(SimDays(closes))[i + 1])
                       - PositionValue(books.held[i], closes, Ascending(SimDays(closes))[i])
                       - (IF books.held[i] = books.held[i + 1] THEN 0 ELSE fee(i) + fee(i + 1))
    <3>1. i \in 1..n /\ i < n
      BY <1>3, SMTT(30)
    <3>2. Financed(books.equity, books.held, closes, cost, i)
      BY <1>3, <3>1
    <3> QED
      BY <3>2 DEF Financed, DayAt
  <2> QED
    BY <1>2, <1>3, <1>4, <2>1 DEF SelfFinancing
<1>6. ReportAgrees
  <2> DEFINE report == metrics(books)
             base == books.equity[1]
             end == books.equity[n]
  <2>1. /\ report.max_drawdown = max_drawdown(books.equity)
        /\ report.wins = Cardinality({i \in DOMAIN books.trades : books.trades[i] > 0})
        /\ report.trades = Len(books.trades)
    BY DEF metrics
  <2>2. base \in Int /\ end \in Int /\ Capital \in Int /\ n \in 1..n /\ 1 \in 1..n
    <3>1. n \in 1..n /\ 1 \in 1..n
      BY <1>3
    <3>2. books.equity[1] \in Int /\ books.equity[n] \in Int
      <4> DEFINE equity == books.equity
      <4>1. equity \in Seq(Int) /\ Len(equity) = n
        BY <1>3
      <4> HIDE DEF equity
      <4>2. equity[1] \in Int /\ equity[n] \in Int
        BY <3>1, <4>1
      <4> QED
        BY <4>2 DEF equity
    <3>3. Capital \in Int
      BY TapesAssumption
    <3> QED
      BY <3>1, <3>2, <3>3
  <2>3. end - base = Sum(books.trades) + fee(1) + fee(n)
    BY <1>3, <2>2
  <2>4. ASSUME base > 0, end >= 0
        PROVE  report.max_drawdown.num * base <= (end - base) * report.max_drawdown.den
    <3> DEFINE m == max_drawdown(books.equity)
               p == Peak(books.equity, n)
    <3>1. p \in Int /\ base <= p
      BY <1>3, <2>2, PeakIsHighest, Zenon
    <3>2. m \in Fractions /\ (p > 0 => m.num * p <= (end - p) * m.den)
      BY <1>3, <2>2, DrawdownIsDeepest, Zenon
    <3> HIDE DEF m, p, base, end
    <3>3. m.num \in Int /\ m.den \in Nat \ {0}
      BY <3>2 DEF Fractions
    <3>4. p > 0 /\ base \in Nat \ {0} /\ end \in Nat
      BY <2>2, <2>4, <3>1
    <3>5. m.num * base <= (end - base) * m.den
      BY <3>1, <3>2, <3>3, <3>4, FallFromPeak, Zenon
    <3> QED
      BY <2>1, <3>5 DEF m
  <2>5. /\ report.wins = 0 => Sum(books.trades) <= 0
        /\ report.wins = report.trades => Sum(books.trades) >= 0
    BY <1>3, <2>1, WinsAndSum, Zenon
  <2> HIDE DEF report
  <2>6. report.wins = 0 => end - base <= fee(1) + fee(n)
    BY <1>3, <2>3, <2>5
  <2>7. report.wins = report.trades => end - base >= 0
    BY <1>3, <2>3, <2>5
  <2>8. Cardinality(ToSet(books.held)) = report.trades
    BY <1>3, <2>1
  <2> QED
    BY <1>3, <1>4, <2>4, <2>6, <2>7, <2>8 DEF ReportAgrees, report
<1> QED
    BY <1>5, <1>6 DEF EquityAddsUp

\* The builder and the backtests keep it.
LEMMA EngineKeepsInv ==
    /\ EngineInit => EngineInv
    /\ EngineInv /\ [EngineNext]_engineVars => EngineInv'
<1>1. EngineInit => EngineInv
    BY BuilderKeepsLegs DEF EngineInit, NoBacktest, EngineInv
<1>2. EngineInv /\ [EngineNext]_engineVars => EngineInv'
  <2> SUFFICES ASSUME EngineInv, [EngineNext]_engineVars PROVE EngineInv'
    OBVIOUS
  <2>1. LegsFit'
    <3>1. [Next]_vars
      BY DEF EngineNext, engineVars, Backtest
    <3> QED
      BY <3>1, BuilderKeepsLegs DEF EngineInv
  <2>2. CASE UNCHANGED backtest
    BY <2>1, <2>2 DEF EngineInv
  <2>3. ASSUME NEW closes \in Tapes, NEW near \in Dtes, NEW far \in Dtes, NEW cost \in Costs,
               Backtest(closes, near, far, cost)
        PROVE  EngineInv'
    <3> DEFINE config == Configured(near, far)
    <3>1. \/ backtest' = [status |-> "failed"]
          \/ /\ ~(Cardinality(SimDays(closes)) < 2) /\ Templatable(config)
             /\ backtest' = [status |-> "succeeded", config |-> config, closes |-> closes,
                             cost |-> cost, run |-> run_backtest_engine(config, closes, cost)]
      BY <2>3, Zenon DEF Backtest
    <3>2. ConfigFits(config)
      BY <2>3, ConfiguredFits DEF EngineInv, Backtest
    <3>3. cost \in Nat
      BY TapesAssumption
    <3>4. Cardinality(SimDays(closes)) \in Nat
      BY DaysOfTape, FS_CardinalityType
    <3> HIDE DEF config
    <3> QED
      BY <2>1, <3>1, <3>2, <3>3, <3>4 DEF EngineInv, Setting
  <2> QED
    BY <2>2, <2>3 DEF EngineNext, engineVars
<1> QED
    BY <1>1, <1>2

\* No day's equity depends on a later close, for any tape, position, pricing model and
\* length of the volatility's window.
THEOREM NoDayLooksAhead == EngineSpec => []NoLookAhead
<1>1. EngineInv => NoLookAhead
  <2> SUFFICES ASSUME EngineInv, backtest.status = "succeeded" PROVE NoLookAhead
    BY Zenon DEF NoLookAhead
  <2> DEFINE closes == backtest.closes
             days == Ascending(SimDays(closes))
             until(d) == [e \in {f \in DOMAIN closes : f <= d} |-> closes[e]]
  <2>1. closes \in Tapes /\ backtest.run = run_backtest_engine(backtest.config, closes, backtest.cost)
    BY DEF EngineInv, Setting
  <2> SUFFICES ASSUME NEW i \in 2 .. Len(days)
               PROVE  run_backtest_engine(backtest.config, until(days[i]), backtest.cost).equity
                          = SubSeq(backtest.run.equity, 1, i)
    BY DEF NoLookAhead
  <2>2. until(days[i]) = Cut(closes, days[i])
    BY DEF Cut
  <2>3. i \in 1..Len(days)
    OBVIOUS
  <2>4. run_backtest_engine(backtest.config, Cut(closes, days[i]), backtest.cost).equity
            = SubSeq(run_backtest_engine(backtest.config, closes, backtest.cost).equity, 1, i)
    BY <2>1, <2>3, CutCurve
  <2> HIDE DEF closes, until
  <2> QED
    BY <2>1, <2>2, <2>4, Zenon
<1> QED
    BY <1>1, EngineKeepsInv, PTL DEF EngineSpec

\* The money of a backtest adds up, for any tape, position, costs, pricing model and capital.
THEOREM MoneyAddsUp == EngineSpec => []EquityAddsUp
<1>1. EngineInv => EquityAddsUp
    BY RunAddsUp DEF EquityAddsUp, SelfFinancing, ReportAgrees
<1> QED
    BY <1>1, EngineKeepsInv, PTL DEF EngineSpec

-----------------------------------------------------------------------------
(* The parts side by side                                                  *)

\* Whichever part runs, beside it nothing moves: each part keeps what it promises.
THEOREM ServicesKeepPromises ==
    ServicesSpec => [](/\ EquityAddsUp /\ NoLookAhead
                       /\ OneTenantPerIdentity /\ TenantsIsolated /\ CompletionsKept
                       /\ AnswersFit /\ ChainFits /\ SentimentIsNews /\ AcademyFits
                       /\ RankingFits /\ TagsHonest /\ AnalysisMatchesPayoff)
<1> DEFINE services == <<part, engineVars, accountVars, barVars, chainVars, newsVars,
                         academyVars>>
<1>1. ServicesInit =>
          EngineInit /\ AccountsInit /\ Bars!Init /\ Chain!Init /\ News!Init /\ Academy!Init
    BY DEF ServicesInit
<1>2. [ServicesNext]_services =>
          /\ [EngineNext]_engineVars
          /\ [AccountsNext]_accountVars
          /\ [Bars!Next]_barVars
          /\ [Chain!Next]_chainVars
          /\ [News!Next]_newsVars
          /\ [Academy!Next]_academyVars
    BY DEF ServicesNext
<1>3. ServicesSpec => EngineSpec /\ AccountsSpec
    BY <1>1, <1>2, PTL DEF ServicesSpec, EngineSpec, AccountsSpec
<1>4. ServicesSpec => Bars!Spec /\ Chain!Spec /\ News!Spec /\ Academy!Spec
    BY <1>1, <1>2, PTL DEF ServicesSpec, Bars!Spec, Chain!Spec, News!Spec, Academy!Spec,
                          Bars!vars, Chain!vars, News!vars, Academy!vars,
                          barVars, chainVars, newsVars, academyVars
<1>5. EngineSpec => Spec
  <2>1. EngineInit => Init
    BY DEF EngineInit
  <2>2. [EngineNext]_engineVars => [Next]_vars
    BY DEF EngineNext, engineVars, Backtest
  <2> QED
    BY <2>1, <2>2, PTL DEF EngineSpec, Spec
<1> QED
    BY <1>3, <1>4, <1>5, MoneyAddsUp, NoDayLooksAhead, RankingsFit, TemplateTagsHold,
       ExtremesAreTrue,
       SingleTenant, NoForeignRows, CompletionsStay, ReadersAreServedRight, ChainsFit,
       DriftsHaveNews, OneEditionServed, PTL

=============================================================================
