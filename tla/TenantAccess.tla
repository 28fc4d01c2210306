---------------------------- MODULE TenantAccess ----------------------------
(***************************************************************************)
(* The edge of the API: RateLimiter, bearer authentication and the         *)
(* membership that it resolves, founder sign-in, the administration of     *)
(* users, and the routes that are for tenant administrators only, with a   *)
(* clock, an operator who edits accounts and memberships, deployments and  *)
(* crashes of the process.                                                 *)
(*                                                                         *)
(* A request awaits the database between its steps; what it learned in one *)
(* may no longer be so in the next.                                        *)
(***************************************************************************)
EXTENDS RateLimiter

CONSTANTS
    User,       \* subjects the identity provider or the settings know
    Founder,    \* founder_external_subject
    Request,    \* requests the process works on at a time
    Role,       \* role_key
    Mode,       \* auth_mode: a subset of {"oidc", "founder_secret"}
    TTL,        \* the lifetime of a token
    None,       \* no row, no token
    MaxTime     \* bound on the clock

ASSUME AccessAssumption ==
    /\ Founder \in User
    /\ "tenant_admin" \in Role
    /\ None \notin User \cup Client \cup Role \cup Nat
    /\ None \notin [role : Role, active : BOOLEAN]
    /\ Mode \subseteq {"oidc", "founder_secret"}
    /\ TTL \in Nat \ {0} /\ MaxTime \in Nat

VARIABLES
    mode,       \* auth_mode of the deployment
    account,    \* core.users; "inactive" too when it does not match the settings
    member,     \* core.organization_memberships of the one tenant: [role, active]
    issued,     \* when tokens were issued to the founder
    req,        \* the requests
    held        \* the roles that the user of a request had while it was here

limiter == <<passed, first>>
identity == <<account, member>>
vars == <<mode, now, limiter, identity, issued, req, held>>

Route == {"login", "me", "ingestion", "list", "provision", "update"}
Administration == {"list", "provision", "update"}
Status == {200, 401, 403, 404, 409, 413, 429, 500}
NoRequest == [pc |-> "idle", route |-> "me", user |-> Founder, token |-> None,
              role |-> None, status |-> 200, limited |-> None]

TypeOK ==
    /\ mode \in Mode
    /\ LimiterTypeOK
    /\ account \in [User -> {"absent", "active", "inactive"}]
    /\ member \in [User -> [role : Role, active : BOOLEAN] \cup {None}]
    /\ issued \subseteq Nat
    /\ req \in [Request ->
         [pc : {"idle", "arrived", "verified", "handling", "answered"},
          route : Route, user : User, token : Nat \cup {None},
          role : Role \cup {None}, status : Status,
          limited : Client \cup {None}]]
    /\ held \in [Request -> SUBSET Role]

Init ==
    /\ mode \in Mode
    /\ now = 0 /\ LimiterInit
    /\ account = [u \in User |-> "absent"]
    /\ member = [u \in User |-> None]
    /\ issued = {}
    /\ req = [r \in Request |-> NoRequest]
    /\ held = [r \in Request |-> {}]

-----------------------------------------------------------------------------
(* Accounts and memberships.                                               *)

\* The role that core.resolve_authenticated_principal returns for u, if any.
RoleOf(u) ==
    IF account[u] = "active" /\ member[u] # None /\ member[u].active
    THEN {member[u].role} ELSE {}

\* Mutant: the membership is resolved whether or not it is active.
ResolvedAnyway(u) ==
    IF account[u] = "active" /\ member[u] # None THEN {member[u].role} ELSE {}

\* What the await of resolve_membership returns.
Resolved(u) == RoleOf(u)

\* core.require_current_organization_admin
Administrator(u) == RoleOf(u) = {"tenant_admin"}

\* The memberships that count for the final administrator: 0007 does not look
\* at the account here.
Administrators ==
    {u \in User : member[u] # None /\ member[u] = [role |-> "tenant_admin",
                                                   active |-> TRUE]}

\* What changed about accounts and memberships is noted for the requests here.
Noted ==
    held' = [r \in Request |->
        IF req[r].pc = "idle" THEN {} ELSE held[r] \cup RoleOf(req[r].user)']

\* Mutant: the account is looked up whether or not it is switched off.
FounderMatchesAnyway == TRUE

\* There is no account of the founder yet, or the settings and the account agree.
FounderMatches == account[Founder] # "inactive"

\* core.ensure_founder_secret_principal, and the bootstrap: the account is
\* created if there is none, the membership created or made an active
\* administrator's.
EnsureFounder ==
    /\ account' = [account EXCEPT ![Founder] = "active"]
    /\ member' = [member EXCEPT ![Founder] =
                    [role |-> "tenant_admin", active |-> TRUE]]

-----------------------------------------------------------------------------
(* The world around the process.                                           *)

Tick ==
    /\ now < MaxTime
    /\ now' = now + 1
    /\ UNCHANGED <<mode, limiter, identity, issued, req, held>>

\* An operator's SQL.
SetAccount(u, a) ==
    /\ account' = [account EXCEPT ![u] = a]
    /\ UNCHANGED <<mode, now, limiter, member, issued, req>>
    /\ Noted

SetMember(u, role, active) ==
    /\ account[u] # "absent"
    /\ member' = [member EXCEPT ![u] = [role |-> role, active |-> active]]
    /\ UNCHANGED <<mode, now, limiter, account, issued, req>>
    /\ Noted

\* The process and the limiter in it begin anew.
Restarted ==
    /\ passed' = [c \in Client |-> <<>>]
    /\ first' = [c \in Client |-> 1]
    /\ req' = [r \in Request |-> NoRequest]
    /\ held' = [r \in Request |-> {}]
    /\ UNCHANGED <<mode, now, issued>>

\* bootstrap_founder before the new process; it fails, and the deployment with
\* it, when there is an account that does not match.
Deploy ==
    /\ IF mode = "founder_secret" THEN FounderMatches /\ EnsureFounder
       ELSE UNCHANGED identity
    /\ Restarted

Crash == Restarted /\ UNCHANGED identity

-----------------------------------------------------------------------------
(* The way in: RequestContextMiddleware, then AuthenticationMiddleware.    *)

\* Of a request that was served it is kept what it was served on.
AnswerWith(r, status) ==
    req' = [req EXCEPT ![r] =
              [IF status = 200 THEN @ ELSE NoRequest
                 EXCEPT !.pc = "answered", !.status = status]]

\* When the tokens were issued that a client may send: those of an identity
\* provider at any time, the founder's at any sign-in.
TokensOf(u) ==
    IF mode = "oidc" THEN (0..now) \cup {None}
    ELSE IF u = Founder THEN issued \cup {None} ELSE {None}

\* The request is limited, found too large, or let in.  The client is kept of a
\* request that is limited; nothing after the limiter looks at it.
Arrive(r, c, u, route, t) ==
    LET arrived == [NoRequest EXCEPT !.pc = "arrived", !.route = route,
                      !.user = u, !.token = t]
        become(q) == req' = [req EXCEPT ![r] = q]
    IN
    /\ req[r].pc = "idle"
    /\ IF route = "login" THEN u = Founder /\ t = None ELSE t \in TokensOf(u)
    /\ \/ Refuse(c)
          /\ become([arrived EXCEPT !.pc = "answered", !.status = 429,
                                    !.limited = c])
       \/ Allow(c)
          /\ \/ become([arrived EXCEPT !.pc = "answered", !.status = 413])
             \/ become(arrived)
    /\ held' = [held EXCEPT ![r] = RoleOf(u)]
    /\ UNCHANGED <<mode, now, identity, issued>>

\* jwt.decode: signed, and its exp in the future
Valid(t) == t # None /\ now < t + TTL

Verify(r) ==
    /\ req[r].pc = "arrived" /\ req[r].route # "login"
    /\ IF Valid(req[r].token) THEN req' = [req EXCEPT ![r].pc = "verified"]
       ELSE AnswerWith(r, 401)
    /\ UNCHANGED <<mode, now, limiter, identity, issued, held>>

Resolve(r) ==
    /\ req[r].pc = "verified"
    /\ \/ Resolved(req[r].user) = {} /\ AnswerWith(r, 401)
       \/ \E role \in Resolved(req[r].user) :
            req' = [req EXCEPT ![r].pc = "handling", ![r].role = role]
    /\ UNCHANGED <<mode, now, limiter, identity, issued, held>>

\* An exception: the database is gone, or the provider's keys.  No handler knows
\* it and the answer is a 500, but for a psycopg error in the transaction of the
\* routes for users, which is answered as a conflict.
Fail(r) ==
    /\ \/ /\ \/ req[r].pc \in {"verified", "handling"}
             \/ /\ req[r].pc = "arrived"
                /\ req[r].route = "login" <=> mode = "founder_secret"
          /\ AnswerWith(r, 500)
       \/ /\ req[r].pc = "handling" /\ req[r].route \in Administration
          /\ AnswerWith(r, 409)
    /\ UNCHANGED <<mode, now, limiter, identity, issued, held>>

Leave(r) ==
    /\ req[r].pc = "answered"
    /\ req' = [req EXCEPT ![r] = NoRequest]
    /\ held' = [held EXCEPT ![r] = {}]
    /\ UNCHANGED <<mode, now, limiter, identity, issued>>

-----------------------------------------------------------------------------
(* The handlers.                                                           *)

\* founder_login: the secret is compared, the membership ensured, the token
\* issued.
Login(r) ==
    /\ req[r].pc = "arrived" /\ req[r].route = "login"
    /\ \/ AnswerWith(r, 401)
          /\ UNCHANGED <<identity, issued, held>>
       \/ mode = "founder_secret" /\ ~ FounderMatches
          /\ AnswerWith(r, 500)
          /\ UNCHANGED <<identity, issued, held>>
       \/ mode = "founder_secret" /\ FounderMatches
          /\ EnsureFounder
          /\ issued' = issued \cup {now}
          /\ AnswerWith(r, 200)
          /\ Noted
    /\ UNCHANGED <<mode, now, limiter>>

Handling(r, routes) == req[r].pc = "handling" /\ req[r].route \in routes

\* The scope that the middleware put into the headers is all this looks at.
Me(r) ==
    /\ Handling(r, {"me"})
    /\ AnswerWith(r, 200)
    /\ UNCHANGED <<mode, now, limiter, identity, issued, held>>

\* _require_tenant_admin
AdminScope(r) == req[r].role = "tenant_admin"

\* The controls of ingestion; what they do there is DiscoveryQueue's.
Ingestion(r) ==
    /\ Handling(r, {"ingestion"})
    /\ AnswerWith(r, IF AdminScope(r) THEN 200 ELSE 403)
    /\ UNCHANGED <<mode, now, limiter, identity, issued, held>>

ListUsers(r) ==
    /\ Handling(r, {"list"})
    /\ AnswerWith(r, IF Administrator(req[r].user) THEN 200 ELSE 403)
    /\ UNCHANGED <<mode, now, limiter, identity, issued, held>>

\* PL/pgSQL takes a column of that name for ambiguous when it stands alone where
\* an expression may: the function has an output column of the same name.
Ambiguous(name) == name \in {"user_id", "external_subject"}

\* core.provision_organization_user: the conflict target of its first INSERT is
\* external_subject.
Provision(r, u, role) ==
    LET status == IF ~ Administrator(req[r].user) THEN 403
                  ELSE IF Ambiguous("external_subject") \/ account[u] = "inactive"
                       THEN 409 ELSE 200
    IN
    /\ Handling(r, {"provision"})
    /\ IF status = 200
       THEN /\ account' = [account EXCEPT ![u] = "active"]
            /\ member' = [member EXCEPT ![u] = [role |-> role, active |-> TRUE]]
       ELSE UNCHANGED identity
    /\ AnswerWith(r, status)
    /\ Noted
    /\ UNCHANGED <<mode, now, limiter, issued>>

\* core.update_organization_user: the guard of the final administrator, then an
\* UPDATE whose condition names user_id.
Update(r, u, role, active) ==
    LET final == ~ active /\ Administrators = {u}
        status == IF ~ Administrator(req[r].user) THEN 403
                  ELSE IF final \/ Ambiguous("user_id") THEN 409
                  ELSE IF member[u] = None THEN 404 ELSE 200
    IN
    /\ Handling(r, {"update"})
    /\ member' = IF status = 200
                 THEN [member EXCEPT ![u] = [role |-> role, active |-> active]]
                 ELSE member
    /\ AnswerWith(r, status)
    /\ UNCHANGED <<mode, now, limiter, account, issued>>
    /\ Noted

-----------------------------------------------------------------------------
World ==
    \/ Tick \/ Deploy \/ Crash
    \/ \E u \in User :
         \/ \E a \in {"active", "inactive"} : SetAccount(u, a)
         \/ \E role \in Role, active \in BOOLEAN : SetMember(u, role, active)

Serve(r) ==
    \/ \E c \in Client, u \in User, route \in Route, t \in (0..now) \cup {None} :
         Arrive(r, c, u, route, t)
    \/ Verify(r) \/ Resolve(r) \/ Leave(r)
    \/ Login(r) \/ Me(r) \/ Ingestion(r) \/ ListUsers(r)
    \/ \E u \in User, role \in Role :
         \/ Provision(r, u, role)
         \/ \E active \in BOOLEAN : Update(r, u, role, active)
    \/ Fail(r)

Next == World \/ \E r \in Request : Serve(r)

Spec == Init /\ [][Next]_vars

-----------------------------------------------------------------------------
(* Properties.                                                             *)

\* In no minute of a process does a client get more than Limit requests in.
RateIsBounded == SlidingWindow

\* A request is turned away only for what its own client has had in the last
\* minute, whatever the other clients send.
LimitedOnlyWhenUsedUp ==
    [][\A r \in Request :
         req[r].pc = "idle" /\ req'[r].pc = "answered" /\ req'[r].status = 429
         => req'[r].limited \in Client /\ LimitUsed(req'[r].limited)]_vars

\* docs/adr/0005:21, "immediate application-level revocation": whoever is let
\* through was an active member while the request was here, in the role that it
\* was handled in, and an administrator if the route is for administrators.
ServedWhileMember ==
    \A r \in Request :
        req[r].pc = "answered" /\ req[r].status = 200 /\ req[r].route # "login"
        => /\ req[r].role \in held[r]
           /\ req[r].route \in {"ingestion"} \cup Administration
                => "tenant_admin" \in held[r]

\* A founder who signs in, a deployment and an administrator who provisions a user
\* leave an account that is switched off as it is, with its membership: only an
\* operator brings it back.
SwitchedOffStaysOff ==
    [][\A u \in User : account[u] = "inactive" =>
         \/ account'[u] = account[u] /\ member'[u] = member[u]
         \/ \E a \in {"active", "inactive"} : SetAccount(u, a)
         \/ \E role \in Role, active \in BOOLEAN : SetMember(u, role, active)]_vars

\* docs/production-operations.md:19, "`tenant_admin` users manage existing IdP
\* identities through `/v1/users`": of the updates that reach the database, only
\* the one that would take the final administrator away is a conflict.
UpdatesTakeEffect ==
    [][\A r \in Request, u \in User, role \in Role, active \in BOOLEAN :
         Update(r, u, role, active) /\ req'[r].status = 409
         => ~ active /\ Administrators = {u}]_vars
=============================================================================
