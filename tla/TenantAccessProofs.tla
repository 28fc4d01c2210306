------------------------- MODULE TenantAccessProofs -------------------------
(***************************************************************************)
(* Theorems about TenantAccess, and the RateLimiter in it, for any         *)
(* clients, users, requests, limits and lifetimes.                         *)
(***************************************************************************)
EXTENDS TenantAccess, FiniteSetTheorems, WellFoundedInduction, TLAPS

\* The deque of a client: what is left of it has been popped for its age, it
\* never holds more than Limit times, and they are in order.
DequeInv(c) ==
    /\ first[c] \in 1..Len(passed[c]) + 1
    /\ Len(passed[c]) + 1 - first[c] <= Limit
    /\ \A i \in 1..Len(passed[c]) : passed[c][i] <= now
    /\ \A i, j \in 1..Len(passed[c]) : i <= j => passed[c][i] <= passed[c][j]
    /\ \A i \in 1..first[c] - 1 : Expired(passed[c][i])
    /\ \A i \in 1..Len(passed[c]) :
         i + Limit <= Len(passed[c]) => passed[c][i] + Window <= passed[c][i + Limit]

LimiterInv == LimiterTypeOK /\ \A c \in Client : DequeInv(c)

-----------------------------------------------------------------------------
(* The limiter.                                                            *)

\* One client's request is let pass.
LEMMA AllowStep ==
    ASSUME LimiterInv, NEW c \in Client, Allow(c), now' = now
    PROVE  LimiterInv'
<1> USE LimiterAssumption DEF LimiterInv, LimiterTypeOK
<1> DEFINE L == Len(passed[c])
<1>1. PICK k \in first[c]..L + 1 :
        /\ Pruned(c, k) /\ ~ Full(c, k)
        /\ first' = [first EXCEPT ![c] = k]
        /\ passed' = [passed EXCEPT ![c] = Append(@, now)]
  BY DEF Allow
<1>2. L \in Nat /\ first[c] \in Nat \ {0} /\ k \in Nat \ {0} /\ k <= L + 1 /\ DequeInv(c)
  OBVIOUS
<1>3. LimiterTypeOK'
  BY <1>1, <1>2
<1>4. /\ passed'[c] = Append(passed[c], now) /\ first'[c] = k
      /\ \A d \in Client \ {c} : passed'[d] = passed[d] /\ first'[d] = first[d]
  BY <1>1
<1>5. /\ Len(passed'[c]) = L + 1
      /\ \A i \in 1..L : passed'[c][i] = passed[c][i]
      /\ passed'[c][L + 1] = now
  BY <1>2, <1>4
<1>6. L + 1 - k < Limit
  BY <1>1, <1>2 DEF Full
<1>7. \A i \in 1..k - 1 : i \in 1..L /\ passed[c][i] + Window <= now
  <2> SUFFICES ASSUME NEW i \in 1..k - 1
               PROVE  i \in 1..L /\ passed[c][i] + Window <= now
    OBVIOUS
  <2>1. i \in 1..L
    BY <1>2
  <2>2. CASE i < first[c]
    BY <1>2, <2>1, <2>2 DEF DequeInv, Expired
  <2>3. CASE i >= first[c]
    BY <1>1, <1>2, <2>1, <2>3 DEF Pruned, Expired
  <2> QED BY <1>2, <2>1, <2>2, <2>3
<1>a. /\ \A i \in 1..L : passed[c][i] \in Nat /\ passed[c][i] <= now
      /\ now \in Nat /\ now' = now
      /\ \A i, j \in 1..L : i <= j => passed[c][i] <= passed[c][j]
      /\ \A i \in 1..L : i + Limit <= L => passed[c][i] + Window <= passed[c][i + Limit]
  BY <1>2 DEF DequeInv
<1>8. DequeInv(c)'
  <2> HIDE DEF LimiterInv, LimiterTypeOK, L
  <2>1. /\ first'[c] \in 1..Len(passed'[c]) + 1
        /\ Len(passed'[c]) + 1 - first'[c] <= Limit
    BY <1>2, <1>4, <1>5, <1>6
  <2>a. \A i \in 1..L + 1 : i \in 1..L \/ i = L + 1
    BY <1>2
  <2>2. \A i \in 1..Len(passed'[c]) : passed'[c][i] <= now'
    <3> SUFFICES ASSUME NEW i \in 1..L + 1 PROVE passed'[c][i] <= now
      BY <1>5, <1>a
    <3>1. CASE i \in 1..L
      BY <1>5, <1>a, <3>1
    <3>2. CASE i = L + 1
      BY <1>5, <1>a, <3>2
    <3> QED BY <2>a, <3>1, <3>2
  <2>3. ASSUME NEW i \in 1..Len(passed'[c]), NEW j \in 1..Len(passed'[c]), i <= j
        PROVE  passed'[c][i] <= passed'[c][j]
    <3>1. CASE j = L + 1
      BY <1>5, <1>a, <2>2, <3>1
    <3>2. CASE j # L + 1
      <4>1. i \in 1..L /\ j \in 1..L
        BY <1>2, <1>5, <2>3, <3>2
      <4> QED BY <1>5, <1>a, <2>3, <4>1
    <3> QED BY <3>1, <3>2
  <2>4. \A i \in 1..first'[c] - 1 : passed'[c][i] + Window <= now'
    BY <1>4, <1>5, <1>7, <1>a
  <2>5. ASSUME NEW i \in 1..Len(passed'[c]), i + Limit <= Len(passed'[c])
        PROVE  passed'[c][i] + Window <= passed'[c][i + Limit]
    <3>1. CASE i + Limit = L + 1
      <4>1. i \in 1..k - 1 /\ i \in 1..L
        BY <1>2, <1>6, <3>1
      <4> QED BY <1>5, <1>7, <3>1, <4>1
    <3>2. CASE i + Limit # L + 1
      <4>1. i \in 1..L /\ i + Limit \in 1..L /\ i + Limit <= L
        BY <1>2, <1>5, <2>5, <3>2
      <4> QED BY <1>5, <1>a, <4>1
    <3> QED BY <3>1, <3>2
  <2> QED BY <2>1, <2>2, <2>3, <2>4, <2>5 DEF DequeInv, Expired
<1>9. ASSUME NEW d \in Client \ {c} PROVE DequeInv(d)'
  BY <1>4 DEF DequeInv, Expired
<1> QED BY <1>3, <1>8, <1>9

\* One client's request is refused.
LEMMA RefuseStep ==
    ASSUME LimiterInv, NEW c \in Client, Refuse(c), now' = now
    PROVE  LimiterInv'
<1> USE LimiterAssumption DEF LimiterInv, LimiterTypeOK
<1> DEFINE L == Len(passed[c])
<1>1. PICK k \in first[c]..L + 1 :
        /\ Pruned(c, k) /\ Full(c, k)
        /\ first' = [first EXCEPT ![c] = k]
        /\ passed' = passed
  BY DEF Refuse
<1>2. L \in Nat /\ first[c] \in Nat \ {0} /\ k \in Nat \ {0} /\ k <= L + 1 /\ DequeInv(c)
  OBVIOUS
<1>3. LimiterTypeOK'
  BY <1>1, <1>2
<1>4. DequeInv(c)'
  <2>1. first'[c] = k
    BY <1>1
  <2>2. \A i \in 1..k - 1 : Expired(passed[c][i])
    <3> SUFFICES ASSUME NEW i \in 1..k - 1 PROVE Expired(passed[c][i])
      OBVIOUS
    <3>1. CASE i < first[c]
      BY <1>2, <3>1 DEF DequeInv
    <3>2. CASE i >= first[c]
      BY <1>1, <1>2, <3>2 DEF Pruned
    <3> QED BY <1>2, <3>1, <3>2
  <2>3. L + 1 - k <= Limit
    BY <1>1, <1>2 DEF DequeInv
  <2> QED BY <1>1, <1>2, <2>1, <2>2, <2>3 DEF DequeInv, Expired
<1>5. ASSUME NEW d \in Client \ {c} PROVE DequeInv(d)'
  BY <1>1 DEF DequeInv, Expired
<1> QED BY <1>3, <1>4, <1>5

\* Who is refused has used up the limit.
LEMMA RefuseUsed ==
    ASSUME LimiterInv, NEW c \in Client, Refuse(c)
    PROVE  LimitUsed(c)
<1> USE LimiterAssumption DEF LimiterInv, LimiterTypeOK
<1> DEFINE L == Len(passed[c])
<1>1. PICK k \in first[c]..L + 1 : Pruned(c, k) /\ Full(c, k)
  BY DEF Refuse
<1>2. L \in Nat /\ first[c] \in Nat \ {0} /\ k \in Nat \ {0} /\ k <= L + 1 /\ DequeInv(c)
  OBVIOUS
<1>3. L + 1 - k >= Limit
  BY <1>1 DEF Full
<1>4. L >= Limit /\ k \in 1..L /\ L + 1 - Limit \in 1..L /\ k <= L + 1 - Limit
  BY <1>2, <1>3
<1>5. ~ Expired(passed[c][k])
  BY <1>1, <1>4 DEF Pruned
<1>6. passed[c][k] <= passed[c][L + 1 - Limit]
  BY <1>2, <1>4 DEF DequeInv
<1>7. passed[c][k] \in Nat /\ passed[c][L + 1 - Limit] \in Nat
  BY <1>4
<1>8. ~ Expired(passed[c][L + 1 - Limit])
  BY <1>5, <1>6, <1>7 DEF Expired
<1> QED BY <1>4, <1>8 DEF LimitUsed

\* Time passes.
LEMMA TickStep ==
    ASSUME LimiterInv, now' = now + 1, UNCHANGED limiter
    PROVE  LimiterInv'
<1> USE LimiterAssumption DEF LimiterInv, LimiterTypeOK, limiter
<1>1. LimiterTypeOK'
  OBVIOUS
<1>2. ASSUME NEW c \in Client PROVE DequeInv(c)'
  BY DEF DequeInv, Expired
<1> QED BY <1>1, <1>2

\* An empty limiter.
LEMMA EmptyLimiter ==
    ASSUME passed = [c \in Client |-> <<>>], first = [c \in Client |-> 1], now \in Nat
    PROVE  LimiterInv
BY LimiterAssumption DEF LimiterInv, LimiterTypeOK, DequeInv

\* How each step moves the limiter.
LEMMA LimiterMoves ==
    [Next]_vars =>
        \/ UNCHANGED <<now, limiter>>
        \/ now' = now + 1 /\ UNCHANGED limiter
        \/ Restarted
        \/ \E c \in Client : (Allow(c) \/ Refuse(c)) /\ now' = now
<1> DEFINE Goal == \/ UNCHANGED <<now, limiter>>
                   \/ now' = now + 1 /\ UNCHANGED limiter
                   \/ Restarted
                   \/ \E c \in Client : (Allow(c) \/ Refuse(c)) /\ now' = now
<1>1. World => Goal
  BY DEF World, Tick, Deploy, Crash, SetAccount, SetMember
<1>2. ASSUME NEW r \in Request, Serve(r) PROVE Goal
  <2>1. ASSUME NEW c \in Client, NEW u \in User, NEW route \in Route,
               NEW t \in (0..now) \cup {None}, Arrive(r, c, u, route, t)
        PROVE  Goal
    BY <2>1 DEF Arrive
  <2>2. CASE Verify(r) \/ Resolve(r) \/ Fail(r) \/ Leave(r)
    BY <2>2 DEF Verify, Resolve, Fail, Leave
  <2>3. CASE Login(r) \/ Me(r) \/ Ingestion(r) \/ ListUsers(r)
    BY <2>3 DEF Login, Me, Ingestion, ListUsers
  <2>4. ASSUME NEW u \in User, NEW role \in Role, Provision(r, u, role) PROVE Goal
    BY <2>4 DEF Provision
  <2>5. ASSUME NEW u \in User, NEW role \in Role, NEW active \in BOOLEAN,
               Update(r, u, role, active)
        PROVE  Goal
    BY <2>5 DEF Update
  <2> QED BY <1>2, <2>1, <2>2, <2>3, <2>4, <2>5 DEF Serve
<1>3. UNCHANGED vars => Goal
  BY DEF vars
<1> QED BY <1>1, <1>2, <1>3 DEF Next

LEMMA LimiterStep == LimiterInv /\ [Next]_vars => LimiterInv'
<1> SUFFICES ASSUME LimiterInv, [Next]_vars PROVE LimiterInv'
  OBVIOUS
<1>1. CASE UNCHANGED <<now, limiter>>
  BY <1>1 DEF limiter, LimiterInv, LimiterTypeOK, DequeInv, Expired
<1>2. CASE now' = now + 1 /\ UNCHANGED limiter
  BY <1>2, TickStep
<1>3. CASE Restarted
  BY <1>3, LimiterAssumption
  DEF Restarted, LimiterInv, LimiterTypeOK, DequeInv
<1>4. ASSUME NEW c \in Client, Allow(c) \/ Refuse(c), now' = now PROVE LimiterInv'
  BY <1>4, AllowStep, RefuseStep
<1> QED BY <1>1, <1>2, <1>3, <1>4, LimiterMoves

-----------------------------------------------------------------------------
(* Requests.                                                               *)

RequestState ==
    [pc : {"idle", "arrived", "verified", "handling", "answered"},
     route : Route, user : User, token : Nat \cup {None},
     role : Role \cup {None}, status : Status, limited : Client \cup {None}]

\* What an answer makes of a request.
Answered(q, status) ==
    [IF status = 200 THEN q ELSE NoRequest
       EXCEPT !.pc = "answered", !.status = status]

LEMMA NoRequestType == NoRequest \in RequestState
BY AccessAssumption DEF NoRequest, RequestState, Route, Status

LEMMA AnsweredShape ==
    ASSUME NEW q \in RequestState, NEW status \in Status
    PROVE  /\ Answered(q, status) \in RequestState
           /\ Answered(q, status).pc = "answered"
           /\ Answered(q, status).status = status
           /\ status = 200 =>
                /\ Answered(q, status).route = q.route
                /\ Answered(q, status).user = q.user
                /\ Answered(q, status).role = q.role
<1> DEFINE b == IF status = 200 THEN q ELSE NoRequest
<1>1. b \in RequestState
  BY NoRequestType
<1>2. Answered(q, status) = [b EXCEPT !.pc = "answered", !.status = status]
  BY DEF Answered
<1>3. status = 200 => b = q
  OBVIOUS
<1> HIDE DEF b
<1>4. /\ Answered(q, status) \in RequestState
      /\ Answered(q, status).pc = "answered"
      /\ Answered(q, status).status = status
      /\ Answered(q, status).route = b.route
      /\ Answered(q, status).user = b.user
      /\ Answered(q, status).role = b.role
  BY <1>1, <1>2 DEF RequestState
<1> QED BY <1>3, <1>4

\* An answer moves one request.
LEMMA AnswerShape ==
    ASSUME TypeOK, NEW r \in Request, NEW status \in Status, AnswerWith(r, status)
    PROVE  /\ req' \in [Request -> RequestState]
           /\ req'[r] = Answered(req[r], status)
           /\ \A s \in Request \ {r} : req'[s] = req[s]
<1>1. req \in [Request -> RequestState]
  BY DEF TypeOK, RequestState
<1>2. req' = [req EXCEPT ![r] = Answered(req[r], status)]
  BY <1>1 DEF AnswerWith, Answered
<1>3. Answered(req[r], status) \in RequestState
  BY <1>1, AnsweredShape
<1> QED BY <1>1, <1>2, <1>3

\* An arrival moves one request.
LEMMA ArriveShape ==
    ASSUME TypeOK, NEW r \in Request, NEW c \in Client, NEW u \in User,
           NEW route \in Route, NEW t \in (0..now) \cup {None}, Arrive(r, c, u, route, t)
    PROVE  /\ req' \in [Request -> RequestState]
           /\ \/ req'[r].pc = "arrived" /\ req'[r].user = u
              \/ req'[r].pc = "answered" /\ req'[r].status = 413
              \/ /\ req'[r].pc = "answered" /\ req'[r].status = 429
                 /\ req'[r].limited = c /\ Refuse(c)
           /\ \A s \in Request \ {r} : req'[s] = req[s]
           /\ held' = [held EXCEPT ![r] = RoleOf(u)]
<1> DEFINE arrived == [NoRequest EXCEPT !.pc = "arrived", !.route = route,
                         !.user = u, !.token = t]
           limited(status) ==
             [arrived EXCEPT !.pc = "answered", !.status = status, !.limited = c]
           tooLarge(status) == [arrived EXCEPT !.pc = "answered", !.status = status]
<1>1. req \in [Request -> RequestState] /\ now \in Nat
  BY DEF TypeOK, LimiterTypeOK, RequestState
<1>2. arrived \in RequestState /\ arrived.pc = "arrived" /\ arrived.user = u
  <2>1. t \in Nat \cup {None}
    BY <1>1
  <2> QED BY <2>1, NoRequestType DEF RequestState
<1>3. \/ req' = [req EXCEPT ![r] = limited(429)] /\ Refuse(c)
      \/ req' = [req EXCEPT ![r] = tooLarge(413)]
      \/ req' = [req EXCEPT ![r] = arrived]
  BY DEF Arrive
<1> HIDE DEF arrived
<1>4. 413 \in Status /\ 429 \in Status
  BY DEF Status
<1>5. ASSUME NEW status \in Status
      PROVE  /\ limited(status) \in RequestState /\ limited(status).pc = "answered"
             /\ limited(status).status = status /\ limited(status).limited = c
             /\ tooLarge(status) \in RequestState /\ tooLarge(status).pc = "answered"
             /\ tooLarge(status).status = status
  BY <1>2 DEF RequestState
<1> HIDE DEF limited, tooLarge
<1> QED BY <1>1, <1>2, <1>3, <1>4, <1>5 DEF Arrive

\* The token is found valid.
LEMMA VerifyShape ==
    ASSUME TypeOK, NEW r \in Request, Verify(r)
    PROVE  /\ req' \in [Request -> RequestState]
           /\ \/ req'[r].pc = "verified" /\ req'[r].user = req[r].user
              \/ req'[r].pc = "answered" /\ req'[r].status = 401
           /\ \A s \in Request \ {r} : req'[s] = req[s]
<1>1. req \in [Request -> RequestState]
  BY DEF TypeOK, RequestState
<1>2. CASE AnswerWith(r, 401)
  <2>1. 401 \in Status
    BY DEF Status
  <2>2. req[r] \in RequestState
    BY <1>1
  <2> QED BY <1>2, <2>1, <2>2, AnswerShape, AnsweredShape
<1>3. CASE req' = [req EXCEPT ![r].pc = "verified"]
  BY <1>1, <1>3 DEF RequestState
<1> QED BY <1>2, <1>3 DEF Verify

\* The membership is resolved.
LEMMA ResolveShape ==
    ASSUME TypeOK, NEW r \in Request, Resolve(r)
    PROVE  /\ req' \in [Request -> RequestState]
           /\ \/ /\ req'[r].pc = "handling" /\ req'[r].user = req[r].user
                 /\ req'[r].role \in RoleOf(req[r].user)
              \/ req'[r].pc = "answered" /\ req'[r].status = 401
           /\ \A s \in Request \ {r} : req'[s] = req[s]
<1>1. req \in [Request -> RequestState]
  BY DEF TypeOK, RequestState
<1>2. CASE AnswerWith(r, 401)
  <2>1. 401 \in Status
    BY DEF Status
  <2>2. req[r] \in RequestState
    BY <1>1
  <2> QED BY <1>2, <2>1, <2>2, AnswerShape, AnsweredShape
<1>3. ASSUME NEW role \in Resolved(req[r].user),
             req' = [req EXCEPT ![r].pc = "handling", ![r].role = role]
      PROVE  /\ req' \in [Request -> RequestState]
             /\ req'[r].pc = "handling" /\ req'[r].user = req[r].user
             /\ req'[r].role = role /\ role \in RoleOf(req[r].user)
             /\ \A s \in Request \ {r} : req'[s] = req[s]
  <2>1. role \in RoleOf(req[r].user)
    BY DEF Resolved
  <2>2. req[r].user \in User
    BY <1>1 DEF RequestState
  <2>3. role \in Role
    BY <2>1, <2>2 DEF RoleOf, TypeOK
  <2> QED BY <1>1, <1>3, <2>1, <2>3 DEF RequestState
<1> QED BY <1>2, <1>3 DEF Resolve

\* How each step moves a request: on its way in, back, or to an answer.
Statused(r, routes) ==
    \E status \in Status :
        /\ AnswerWith(r, status)
        /\ status = 200 => Handling(r, routes)

\* A role is one of Role.
LEMMA RoleType ==
    ASSUME TypeOK, NEW u \in User PROVE RoleOf(u) \subseteq Role
BY DEF TypeOK, RoleOf

\* The accounts and memberships keep their types.
LEMMA IdentityStep ==
    TypeOK /\ [Next]_vars =>
        /\ account' \in [User -> {"absent", "active", "inactive"}]
        /\ member' \in [User -> [role : Role, active : BOOLEAN] \cup {None}]
        /\ mode' \in Mode /\ issued' \subseteq Nat
<1> DEFINE Goal == /\ account' \in [User -> {"absent", "active", "inactive"}]
                   /\ member' \in [User -> [role : Role, active : BOOLEAN] \cup {None}]
                   /\ mode' \in Mode /\ issued' \subseteq Nat
<1> SUFFICES ASSUME TypeOK, [Next]_vars PROVE Goal
  OBVIOUS
<1> USE AccessAssumption DEF TypeOK, LimiterTypeOK
<1>1. CASE UNCHANGED <<mode, identity, issued>>
  BY <1>1 DEF identity
<1>2. CASE EnsureFounder /\ mode' = mode /\ issued' \subseteq issued \cup {now}
  BY <1>2 DEF EnsureFounder
<1>3. ASSUME NEW u \in User, NEW a \in {"active", "inactive"}, SetAccount(u, a)
      PROVE  Goal
  BY <1>3 DEF SetAccount
<1>4. ASSUME NEW u \in User, NEW role \in Role, NEW active \in BOOLEAN,
             SetMember(u, role, active)
      PROVE  Goal
  BY <1>4 DEF SetMember
<1>5. CASE Deploy
  BY <1>1, <1>2, <1>5 DEF Deploy, Restarted
<1>6. CASE Tick \/ Crash
  BY <1>1, <1>6 DEF Tick, Crash, Restarted
<1>7. ASSUME NEW r \in Request, NEW c \in Client, NEW u \in User, NEW route \in Route,
             NEW t \in (0..now) \cup {None}, Arrive(r, c, u, route, t)
      PROVE  Goal
  BY <1>1, <1>7 DEF Arrive
<1>8. ASSUME NEW r \in Request, Verify(r) \/ Resolve(r) \/ Fail(r) \/ Leave(r)
      PROVE  Goal
  BY <1>1, <1>8 DEF Verify, Resolve, Fail, Leave
<1>9. ASSUME NEW r \in Request, Login(r) PROVE Goal
  BY <1>1, <1>2, <1>9 DEF Login
<1>10. ASSUME NEW r \in Request, Me(r) \/ Ingestion(r) \/ ListUsers(r) PROVE Goal
  BY <1>1, <1>10 DEF Me, Ingestion, ListUsers
<1>11. ASSUME NEW r \in Request, NEW u \in User, NEW role \in Role,
              Provision(r, u, role)
       PROVE  Goal
  <2>1. CASE UNCHANGED identity
    BY <1>1, <1>11, <2>1 DEF Provision
  <2>2. CASE /\ account' = [account EXCEPT ![u] = "active"]
             /\ member' = [member EXCEPT ![u] = [role |-> role, active |-> TRUE]]
    BY <1>11, <2>2 DEF Provision
  <2> QED BY <1>11, <2>1, <2>2 DEF Provision
<1>12. ASSUME NEW r \in Request, NEW u \in User, NEW role \in Role,
              NEW active \in BOOLEAN, Update(r, u, role, active)
       PROVE  Goal
  BY <1>12 DEF Update
<1>13. CASE UNCHANGED vars
  BY <1>1, <1>13 DEF vars
<1> HIDE DEF Goal, TypeOK
<1> QED
  BY <1>3, <1>4, <1>5, <1>6, <1>7, <1>8, <1>9, <1>10, <1>11, <1>12, <1>13
  DEF Next, World, Serve

-----------------------------------------------------------------------------
(* The roles that requests are served in.                                  *)

\* What a request here has had: while it is on its way in the role its user has,
\* from then on the one it was given; and on what it was answered.
ServedOn(q, roles) ==
    q.status = 200 /\ q.route # "login" =>
        /\ q.role \in roles
        /\ q.route \in {"ingestion"} \cup Administration => "tenant_admin" \in roles

RoleFits(r) ==
    /\ req[r].pc \in {"arrived", "verified", "handling"} =>
         RoleOf(req[r].user) \subseteq held[r]
    /\ req[r].pc = "handling" => req[r].role \in held[r]
    /\ req[r].pc = "answered" => ServedOn(req[r], held[r])

AInv == TypeOK /\ LimiterInv /\ \A r \in Request : RoleFits(r)

\* The roles of a request only grow while it is here.
LEMMA NotedGrows ==
    ASSUME NEW s \in Request, Noted, req[s].pc # "idle"
    PROVE  held'[s] = held[s] \cup RoleOf(req[s].user)'
BY DEF Noted

\* A request that does not move, whoever is switched off meanwhile.
LEMMA FitsKept ==
    ASSUME NEW s \in Request, RoleFits(s), req'[s] = req[s],
           Noted \/ (held'[s] = held[s] /\ UNCHANGED identity)
    PROVE  RoleFits(s)'
<1>1. CASE held'[s] = held[s] /\ UNCHANGED identity
  BY <1>1 DEF RoleFits, ServedOn, RoleOf, identity
<1>2. CASE Noted
  <2>1. CASE req[s].pc = "idle"
    BY <2>1 DEF RoleFits
  <2>2. CASE req[s].pc # "idle"
    <3>1. held'[s] = held[s] \cup RoleOf(req[s].user)'
      BY <1>2, <2>2, NotedGrows
    <3>2. ServedOn(req[s], held[s]) => ServedOn(req[s], held'[s])
      BY <3>1 DEF ServedOn
    <3> QED BY <3>1, <3>2 DEF RoleFits
  <2> QED BY <2>1, <2>2
<1> QED BY <1>1, <1>2

\* A request that is answered, with 200 only on roles it has had.
LEMMA FitsAnswered ==
    ASSUME TypeOK, NEW r \in Request, NEW status \in Status, AnswerWith(r, status),
           held[r] \subseteq held'[r],
           status = 200 /\ req[r].route # "login" =>
             /\ req[r].role \in held[r]
             /\ req[r].route \in {"ingestion"} \cup Administration =>
                  "tenant_admin" \in held[r]
    PROVE  RoleFits(r)'
<1>1. req[r] \in RequestState
  BY DEF TypeOK, RequestState
<1>2. req'[r] = Answered(req[r], status)
  BY AnswerShape
<1>3. /\ req'[r].pc = "answered" /\ req'[r].status = status
      /\ status = 200 => /\ req'[r].route = req[r].route
                         /\ req'[r].role = req[r].role
  BY <1>1, <1>2, AnsweredShape
<1>4. ServedOn(req'[r], held'[r])
  BY <1>3 DEF ServedOn
<1> QED BY <1>3, <1>4 DEF RoleFits

\* The answers of handlers, one by one.
LEMMA HandlerFits ==
    ASSUME AInv, NEW r \in Request,
           \/ Fail(r) \/ Me(r) \/ Ingestion(r) \/ ListUsers(r) \/ Login(r)
           \/ \E u \in User, role \in Role : Provision(r, u, role)
           \/ \E u \in User, role \in Role, active \in BOOLEAN :
                Update(r, u, role, active)
    PROVE  /\ req' \in [Request -> RequestState]
           /\ \A s \in Request \ {r} : req'[s] = req[s]
           /\ req'[r].pc = "answered" /\ req'[r].status # 429
           /\ Noted \/ (UNCHANGED held /\ UNCHANGED identity)
           /\ req[r].pc # "idle" /\ RoleFits(r)'
<1> USE DEF AInv
<1> DEFINE Grows == Noted \/ (UNCHANGED held /\ UNCHANGED identity)
           Earned(status) ==
             status = 200 /\ req[r].route # "login" =>
               /\ req[r].role \in held[r]
               /\ req[r].route \in {"ingestion"} \cup Administration =>
                    "tenant_admin" \in held[r]
           Answers == \E status \in Status \ {429} :
                        AnswerWith(r, status) /\ Earned(status)
<1>1. Status = {200, 401, 403, 404, 409, 413, 429, 500}
  BY DEF Status
<1>2. req[r].pc = "handling" => /\ req[r].role \in held[r]
                                /\ RoleOf(req[r].user) \subseteq held[r]
  BY DEF RoleFits
<1> DEFINE Goal == Answers /\ Grows /\ req[r].pc # "idle"
<1>3. ASSUME Fail(r) PROVE Goal
  <2>1. /\ AnswerWith(r, 500) \/ AnswerWith(r, 409)
        /\ Earned(500) /\ Earned(409) /\ Grows /\ req[r].pc # "idle"
    BY <1>3 DEF Fail
  <2> QED BY <1>1, <2>1
<1>4. ASSUME Me(r) PROVE Goal
  <2>1. AnswerWith(r, 200) /\ Earned(200) /\ Grows /\ req[r].pc # "idle"
    BY <1>2, <1>4 DEF Me, Handling, Administration
  <2> QED BY <1>1, <2>1
<1>5. ASSUME Ingestion(r) PROVE Goal
  <2>1. Grows /\ req[r].pc = "handling"
    BY <1>5 DEF Ingestion, Handling
  <2>2. CASE AdminScope(r)
    <3>1. AnswerWith(r, 200) /\ Earned(200)
      BY <1>2, <1>5, <2>1, <2>2 DEF Ingestion, AdminScope
    <3> QED BY <1>1, <2>1, <3>1
  <2>3. CASE ~ AdminScope(r)
    <3>1. AnswerWith(r, 403) /\ Earned(403)
      BY <1>5, <2>3 DEF Ingestion
    <3> QED BY <1>1, <2>1, <3>1
  <2> QED BY <2>2, <2>3
<1>6. ASSUME ListUsers(r) PROVE Goal
  <2>1. Grows /\ req[r].pc = "handling"
    BY <1>6 DEF ListUsers, Handling
  <2>2. CASE Administrator(req[r].user)
    <3>1. AnswerWith(r, 200) /\ Earned(200)
      BY <1>2, <1>6, <2>1, <2>2 DEF ListUsers, Administrator
    <3> QED BY <1>1, <2>1, <3>1
  <2>3. CASE ~ Administrator(req[r].user)
    <3>1. AnswerWith(r, 403) /\ Earned(403)
      BY <1>6, <2>3 DEF ListUsers
    <3> QED BY <1>1, <2>1, <3>1
  <2> QED BY <2>2, <2>3
<1>7. ASSUME Login(r) PROVE Goal
  <2>1. req[r].pc # "idle" /\ Earned(200) /\ Earned(401) /\ Earned(500)
    BY <1>7 DEF Login
  <2>2. Grows /\ (AnswerWith(r, 200) \/ AnswerWith(r, 401) \/ AnswerWith(r, 500))
    BY <1>7 DEF Login
  <2> QED BY <1>1, <2>1, <2>2
<1>8. ASSUME NEW u \in User, NEW role \in Role, Provision(r, u, role) PROVE Goal
  <2>1. Grows /\ req[r].pc = "handling"
    BY <1>8 DEF Provision, Handling
  <2>2. CASE Administrator(req[r].user)
    <3>1. Earned(200) /\ Earned(409)
      BY <1>2, <2>1, <2>2 DEF Administrator
    <3>2. AnswerWith(r, 200) \/ AnswerWith(r, 409)
      BY <1>8, <2>2 DEF Provision
    <3> QED BY <1>1, <2>1, <3>1, <3>2
  <2>3. CASE ~ Administrator(req[r].user)
    <3>1. AnswerWith(r, 403) /\ Earned(403)
      BY <1>8, <2>3 DEF Provision
    <3> QED BY <1>1, <2>1, <3>1
  <2> QED BY <2>2, <2>3
<1>9. ASSUME NEW u \in User, NEW role \in Role, NEW active \in BOOLEAN,
             Update(r, u, role, active)
      PROVE  Goal
  <2>1. Grows /\ req[r].pc = "handling"
    BY <1>9 DEF Update, Handling
  <2>2. CASE Administrator(req[r].user)
    <3>1. Earned(200) /\ Earned(404) /\ Earned(409)
      BY <1>2, <2>1, <2>2 DEF Administrator
    <3>2. AnswerWith(r, 200) \/ AnswerWith(r, 404) \/ AnswerWith(r, 409)
      BY <1>9, <2>2 DEF Update
    <3> QED BY <1>1, <2>1, <3>1, <3>2
  <2>3. CASE ~ Administrator(req[r].user)
    <3>1. AnswerWith(r, 403) /\ Earned(403)
      BY <1>9, <2>3 DEF Update
    <3> QED BY <1>1, <2>1, <3>1
  <2> QED BY <2>2, <2>3
<1>10. Goal
  <2> HIDE DEF Goal
  <2> QED BY <1>3, <1>4, <1>5, <1>6, <1>7, <1>8, <1>9
<1>11. PICK status \in Status \ {429} : AnswerWith(r, status) /\ Earned(status)
  BY <1>10
<1>12. /\ req' \in [Request -> RequestState]
       /\ req'[r] = Answered(req[r], status)
       /\ \A s \in Request \ {r} : req'[s] = req[s]
  BY <1>11, AnswerShape
<1>13. req[r] \in RequestState
  BY DEF TypeOK, RequestState
<1>14. req'[r].pc = "answered" /\ req'[r].status # 429
  BY <1>12, <1>13, AnsweredShape
<1>15. held[r] \subseteq held'[r]
  BY <1>10, NotedGrows
<1>16. RoleFits(r)'
  BY <1>11, <1>15, FitsAnswered
<1> QED BY <1>10, <1>12, <1>14, <1>16

\* The way in and out.
LEMMA EntryFits ==
    ASSUME AInv, NEW r \in Request,
           \/ Verify(r) \/ Resolve(r) \/ Leave(r)
           \/ \E c \in Client, u \in User, route \in Route, t \in (0..now) \cup {None} :
                Arrive(r, c, u, route, t)
    PROVE  /\ req' \in [Request -> RequestState]
           /\ held' \in [Request -> SUBSET Role]
           /\ \A s \in Request \ {r} : req'[s] = req[s] /\ held'[s] = held[s]
           /\ UNCHANGED identity
           /\ RoleFits(r)'
           /\ req[r].pc = "idle" /\ req'[r].pc = "answered" /\ req'[r].status = 429
                => \E c \in Client : req'[r].limited = c /\ Refuse(c)
<1> USE DEF AInv
<1>a. req \in [Request -> RequestState] /\ held \in [Request -> SUBSET Role]
  BY DEF TypeOK, RequestState
<1>1. CASE Verify(r)
  <2>1. UNCHANGED <<identity, held>> /\ req[r].pc = "arrived"
    BY <1>1 DEF Verify
  <2>2. RoleFits(r)'
    BY <1>1, <2>1, VerifyShape DEF RoleFits, ServedOn, RoleOf, identity
  <2> QED BY <1>1, <1>a, <2>1, <2>2, VerifyShape
<1>2. CASE Resolve(r)
  <2>1. UNCHANGED <<identity, held>> /\ req[r].pc = "verified"
    BY <1>2 DEF Resolve
  <2>2. RoleFits(r)'
    <3>1. RoleOf(req[r].user) \subseteq held[r]
      BY <2>1 DEF RoleFits
    <3>2. CASE req'[r].pc = "answered" /\ req'[r].status = 401
      BY <3>2 DEF RoleFits, ServedOn
    <3>3. CASE /\ req'[r].pc = "handling" /\ req'[r].user = req[r].user
               /\ req'[r].role \in RoleOf(req[r].user)
      BY <2>1, <3>1, <3>3 DEF RoleFits, RoleOf, identity
    <3> QED BY <1>2, <3>2, <3>3, ResolveShape
  <2> QED BY <1>2, <1>a, <2>1, <2>2, ResolveShape
<1>3. CASE Leave(r)
  <2>1. req[r].pc = "answered" /\ req' = [req EXCEPT ![r] = NoRequest]
        /\ held' = [held EXCEPT ![r] = {}] /\ UNCHANGED identity
    BY <1>3 DEF Leave
  <2>2. req'[r].pc = "idle"
    BY <1>a, <2>1 DEF NoRequest
  <2> HIDE DEF AInv
  <2> QED BY <1>a, <2>1, <2>2, NoRequestType DEF RoleFits
<1>4. ASSUME NEW c \in Client, NEW u \in User, NEW route \in Route,
             NEW t \in (0..now) \cup {None}, Arrive(r, c, u, route, t)
      PROVE  /\ req' \in [Request -> RequestState]
             /\ held' \in [Request -> SUBSET Role]
             /\ \A s \in Request \ {r} : req'[s] = req[s] /\ held'[s] = held[s]
             /\ UNCHANGED identity /\ req[r].pc = "idle"
             /\ RoleFits(r)'
             /\ req'[r].pc = "answered" => req'[r].status \in {413, 429}
             /\ req'[r].pc = "answered" /\ req'[r].status = 429
                  => req'[r].limited = c /\ Refuse(c)
             /\ req'[r].pc \in {"arrived", "answered"}
  <2>1. /\ req' \in [Request -> RequestState]
        /\ \/ req'[r].pc = "arrived" /\ req'[r].user = u
           \/ req'[r].pc = "answered" /\ req'[r].status = 413
           \/ /\ req'[r].pc = "answered" /\ req'[r].status = 429
              /\ req'[r].limited = c /\ Refuse(c)
        /\ \A s \in Request \ {r} : req'[s] = req[s]
        /\ held' = [held EXCEPT ![r] = RoleOf(u)]
    BY <1>4, ArriveShape
  <2>2. UNCHANGED identity /\ req[r].pc = "idle"
    BY <1>4 DEF Arrive
  <2>3. held' \in [Request -> SUBSET Role] /\ held'[r] = RoleOf(u)
        /\ \A s \in Request \ {r} : held'[s] = held[s]
    BY <1>a, <2>1, RoleType
  <2>4. RoleFits(r)'
    BY <2>1, <2>2, <2>3 DEF RoleFits, ServedOn, RoleOf, identity
  <2> QED BY <2>1, <2>2, <2>3, <2>4
<1> QED BY <1>1, <1>2, <1>3, <1>4

-----------------------------------------------------------------------------
(* The invariant.                                                          *)

\* What is noted about the requests are roles.
LEMMA NotedType ==
    ASSUME TypeOK, [Next]_vars, Noted, req' \in [Request -> RequestState]
    PROVE  held' \in [Request -> SUBSET Role]
<1>1. \A u \in User : RoleOf(u)' \subseteq Role
  BY IdentityStep DEF RoleOf
<1>2. \A r \in Request : RoleOf(req[r].user)' \subseteq Role
  BY <1>1 DEF RequestState
<1> QED BY <1>2 DEF Noted, TypeOK

\* A step of one request.
LEMMA ServeStep ==
    ASSUME AInv, [Next]_vars, NEW r \in Request, Serve(r)
    PROVE  /\ req' \in [Request -> RequestState]
           /\ held' \in [Request -> SUBSET Role]
           /\ \A s \in Request : RoleFits(s)'
           /\ \A s \in Request :
                req[s].pc = "idle" /\ req'[s].status = 429 /\ req'[s].pc = "answered"
                => \E c \in Client : req'[s].limited = c /\ Refuse(c)
<1>a. TypeOK /\ \A s \in Request : RoleFits(s)
  BY DEF AInv
<1>b. req \in [Request -> RequestState] /\ held \in [Request -> SUBSET Role]
  BY <1>a DEF TypeOK, RequestState
<1> DEFINE Handled == \/ Fail(r) \/ Me(r) \/ Ingestion(r) \/ ListUsers(r) \/ Login(r)
                      \/ \E u \in User, role \in Role : Provision(r, u, role)
                      \/ \E u \in User, role \in Role, active \in BOOLEAN :
                           Update(r, u, role, active)
           Entered == \/ Verify(r) \/ Resolve(r) \/ Leave(r)
                      \/ \E c \in Client, u \in User, route \in Route,
                            t \in (0..now) \cup {None} : Arrive(r, c, u, route, t)
<1>1. CASE Handled
  <2>1. /\ req' \in [Request -> RequestState]
        /\ \A s \in Request \ {r} : req'[s] = req[s]
        /\ req'[r].pc = "answered" /\ req'[r].status # 429
        /\ Noted \/ (UNCHANGED held /\ UNCHANGED identity)
        /\ req[r].pc # "idle" /\ RoleFits(r)'
    BY <1>1, HandlerFits
  <2>2. held' \in [Request -> SUBSET Role]
    BY <1>a, <1>b, <2>1, NotedType
  <2>3. \A s \in Request \ {r} : RoleFits(s)'
    BY <1>a, <2>1, FitsKept
  <2> QED BY <2>1, <2>2, <2>3
<1>2. CASE Entered
  <2>1. /\ req' \in [Request -> RequestState]
        /\ held' \in [Request -> SUBSET Role]
        /\ \A s \in Request \ {r} : req'[s] = req[s] /\ held'[s] = held[s]
        /\ UNCHANGED identity
        /\ RoleFits(r)'
        /\ req[r].pc = "idle" /\ req'[r].pc = "answered" /\ req'[r].status = 429
             => \E c \in Client : req'[r].limited = c /\ Refuse(c)
    BY <1>2, EntryFits
  <2>2. \A s \in Request \ {r} : RoleFits(s)'
    BY <1>a, <2>1, FitsKept
  <2> QED BY <2>1, <2>2
<1>3. Handled \/ Entered
  BY DEF Serve
<1> QED BY <1>1, <1>2, <1>3

\* Every step keeps the types and the roles, and refuses only a client whose deque
\* is full.
LEMMA AccessStep ==
    ASSUME AInv, [Next]_vars
    PROVE  /\ AInv'
           /\ \A s \in Request :
                req[s].pc = "idle" /\ req'[s].status = 429 /\ req'[s].pc = "answered"
                => \E c \in Client : req'[s].limited = c /\ Refuse(c)
<1> DEFINE Goal == /\ req' \in [Request -> RequestState]
                   /\ held' \in [Request -> SUBSET Role]
                   /\ \A s \in Request : RoleFits(s)'
                   /\ \A s \in Request :
                        req[s].pc = "idle" /\ req'[s].status = 429
                        /\ req'[s].pc = "answered"
                        => \E c \in Client : req'[s].limited = c /\ Refuse(c)
<1>a. /\ TypeOK /\ LimiterInv /\ \A s \in Request : RoleFits(s)
      /\ req \in [Request -> RequestState] /\ held \in [Request -> SUBSET Role]
  BY DEF AInv, TypeOK, RequestState
<1>1. ASSUME req' = req /\ (Noted \/ (UNCHANGED held /\ UNCHANGED identity))
      PROVE  Goal
  <2>1. held' \in [Request -> SUBSET Role]
    BY <1>1, <1>a, NotedType
  <2>2. \A s \in Request : RoleFits(s)'
    BY <1>1, <1>a, FitsKept
  <2> QED BY <1>1, <1>a, <2>1, <2>2
<1>2. ASSUME Restarted PROVE Goal
  <2>1. req' \in [Request -> RequestState]
    BY <1>2, NoRequestType DEF Restarted
  <2>2. held' \in [Request -> SUBSET Role]
    BY <1>2 DEF Restarted
  <2>3. \A s \in Request : req'[s].pc = "idle"
    BY <1>2 DEF Restarted, NoRequest
  <2> QED BY <2>1, <2>2, <2>3 DEF RoleFits
<1>3. ASSUME NEW u \in User, NEW a \in {"active", "inactive"}, SetAccount(u, a)
      PROVE  Goal
  BY <1>1, <1>3 DEF SetAccount
<1>4. ASSUME NEW u \in User, NEW role \in Role, NEW active \in BOOLEAN,
             SetMember(u, role, active)
      PROVE  Goal
  BY <1>1, <1>4 DEF SetMember
<1>5. ASSUME Tick PROVE Goal
  BY <1>1, <1>5 DEF Tick
<1>6. ASSUME Deploy \/ Crash PROVE Goal
  BY <1>2, <1>6 DEF Deploy, Crash
<1>7. ASSUME NEW r \in Request, Serve(r) PROVE Goal
  BY <1>7, ServeStep
<1>8. ASSUME UNCHANGED vars PROVE Goal
  BY <1>1, <1>8 DEF vars
<1>9. Goal
  <2> HIDE DEF Goal
  <2> QED BY <1>3, <1>4, <1>5, <1>6, <1>7, <1>8 DEF Next, World
<1>10. LimiterInv'
  BY <1>a, LimiterStep
<1>11. TypeOK'
  BY <1>a, <1>9, <1>10, IdentityStep DEF TypeOK, RequestState, LimiterInv
<1> QED BY <1>9, <1>10, <1>11 DEF AInv

LEMMA InitInv == Init => AInv
<1> SUFFICES ASSUME Init PROVE AInv
  OBVIOUS
<1>1. LimiterInv
  BY EmptyLimiter DEF Init, LimiterInit
<1>2. \A r \in Request : req[r] = NoRequest /\ NoRequest.pc = "idle"
  BY DEF Init, NoRequest
<1>3. TypeOK
  BY <1>1, NoRequestType DEF Init, TypeOK, LimiterInv, RequestState
<1> QED BY <1>1, <1>2, <1>3 DEF AInv, RoleFits

THEOREM Invariance == Spec => []AInv
<1>1. AInv /\ [Next]_vars => AInv'
  BY AccessStep
<1> QED BY <1>1, InitInv, PTL DEF Spec

\* Accounts, memberships, requests and the limiter have their types.
THEOREM TypeCorrect == Spec => []TypeOK
<1>1. AInv => TypeOK
  BY DEF AInv
<1> QED BY <1>1, Invariance, PTL

\* No client gets more than Limit requests in within any Window.
THEOREM RateBounded == Spec => []RateIsBounded
<1>1. AInv => RateIsBounded
  BY DEF AInv, LimiterInv, DequeInv, RateIsBounded, SlidingWindow
<1> QED BY <1>1, Invariance, PTL

\* Whoever is served was an active member in that role while the request was here.
THEOREM MembersServed == Spec => []ServedWhileMember
<1>1. AInv => ServedWhileMember
  BY DEF AInv, RoleFits, ServedOn, ServedWhileMember
<1> QED BY <1>1, Invariance, PTL

\* The client that is turned away has itself used up the limit of the last Window.
THEOREM LimitedForCause == Spec => LimitedOnlyWhenUsedUp
<1> DEFINE Cause == \A r \in Request :
         req[r].pc = "idle" /\ req'[r].pc = "answered" /\ req'[r].status = 429
         => req'[r].limited \in Client /\ LimitUsed(req'[r].limited)
<1>1. ASSUME NEW c \in Client, LimiterInv, Refuse(c) PROVE LimitUsed(c)
  BY <1>1, RefuseUsed
<1>2. AInv /\ [Next]_vars => [Cause]_vars
  BY <1>1, AccessStep DEF AInv
<1> QED BY <1>2, Invariance, PTL DEF Spec, LimitedOnlyWhenUsedUp

\* Nothing but an operator's SQL brings an account back that is switched off, or
\* changes its membership, whatever users there are and whoever asks.
THEOREM OffStaysOff == Spec => SwitchedOffStaysOff
<1> DEFINE Kept(u) == account'[u] = account[u] /\ member'[u] = member[u]
           Edited(u) ==
             \/ \E a \in {"active", "inactive"} : SetAccount(u, a)
             \/ \E role \in Role, active \in BOOLEAN : SetMember(u, role, active)
<1>1. ASSUME TypeOK, [Next]_vars, NEW u \in User, account[u] = "inactive"
      PROVE  Kept(u) \/ Edited(u)
  <2>1. ASSUME UNCHANGED identity PROVE Kept(u)
    BY <2>1 DEF identity
  <2>2. ASSUME FounderMatches, EnsureFounder PROVE Kept(u)
    BY <1>1, <2>2 DEF FounderMatches, EnsureFounder, TypeOK
  <2>3. ASSUME Deploy \/ Crash \/ Tick PROVE Kept(u)
    BY <2>1, <2>2, <2>3 DEF Deploy, Crash, Tick
  <2>4. ASSUME NEW v \in User, NEW a \in {"active", "inactive"}, SetAccount(v, a)
        PROVE  Kept(u) \/ Edited(u)
    BY <1>1, <2>4 DEF SetAccount, TypeOK
  <2>5. ASSUME NEW v \in User, NEW role \in Role, NEW active \in BOOLEAN,
               SetMember(v, role, active)
        PROVE  Kept(u) \/ Edited(u)
    BY <1>1, <2>5 DEF SetMember, TypeOK
  <2>6. ASSUME NEW r \in Request, NEW c \in Client, NEW v \in User, NEW route \in Route,
               NEW t \in (0..now) \cup {None}, Arrive(r, c, v, route, t)
        PROVE  Kept(u)
    BY <2>1, <2>6 DEF Arrive
  <2>7. ASSUME NEW r \in Request,
               \/ Verify(r) \/ Resolve(r) \/ Fail(r) \/ Leave(r)
               \/ Me(r) \/ Ingestion(r) \/ ListUsers(r)
        PROVE  Kept(u)
    BY <2>1, <2>7 DEF Verify, Resolve, Fail, Leave, Me, Ingestion, ListUsers
  <2>8. ASSUME NEW r \in Request, Login(r) PROVE Kept(u)
    BY <2>1, <2>2, <2>8 DEF Login
  <2>9. ASSUME NEW r \in Request, NEW v \in User, NEW role \in Role,
               Provision(r, v, role)
        PROVE  Kept(u)
    BY <2>1, <2>9 DEF Provision, Ambiguous
  <2>10. ASSUME NEW r \in Request, NEW v \in User, NEW role \in Role,
                NEW active \in BOOLEAN, Update(r, v, role, active)
         PROVE  Kept(u)
    BY <2>10 DEF Update, Ambiguous
  <2>11. ASSUME UNCHANGED vars PROVE Kept(u)
    BY <2>1, <2>11 DEF vars
  <2> HIDE DEF Kept, Edited
  <2> QED
    BY <1>1, <2>3, <2>4, <2>5, <2>6, <2>7, <2>8, <2>9, <2>10, <2>11
    DEF Next, World, Serve
<1>2. AInv /\ [Next]_vars =>
        [\A u \in User : account[u] = "inactive" =>
           \/ account'[u] = account[u] /\ member'[u] = member[u]
           \/ \E a \in {"active", "inactive"} : SetAccount(u, a)
           \/ \E role \in Role, active \in BOOLEAN : SetMember(u, role, active)]_vars
  BY <1>1 DEF AInv
<1> QED BY <1>2, Invariance, PTL DEF Spec, SwitchedOffStaysOff

-----------------------------------------------------------------------------
(* What allow() counts.                                                    *)

\* The requests of a client that were let pass in the last Window, however many
\* of them the deque still has.
Recent(c) == {i \in 1..Len(passed[c]) : ~ Expired(passed[c][i])}

\* A nonempty set of natural numbers has a least element.
LEMMA LeastElement ==
    ASSUME NEW T \in SUBSET Nat, T # {}
    PROVE  \E m \in T : \A n \in T : m <= n
<1>1. OpToRel(<, Nat) = {ss \in Nat \X Nat : ss[1] < ss[2]}
  BY DEF OpToRel
<1>2. PICK m \in T : \A n \in T : <<n, m>> \notin OpToRel(<, Nat)
  BY WFMin, NatLessThanWellFounded
<1>3. \A n \in T : ~ n < m
  BY <1>1, <1>2
<1> QED BY <1>3

\* Popping from the left ends somewhere.
LEMMA PruningEnds ==
    ASSUME LimiterInv, NEW c \in Client
    PROVE  \E k \in first[c]..Len(passed[c]) + 1 : Pruned(c, k)
<1> DEFINE L == Len(passed[c])
           Stops == {k \in first[c]..L + 1 : k = L + 1 \/ ~ Expired(passed[c][k])}
<1>1. L \in Nat /\ first[c] \in 1..L + 1
  BY DEF LimiterInv, LimiterTypeOK, DequeInv
<1>2. L + 1 \in Stops /\ Stops \in SUBSET Nat
  BY <1>1
<1>3. PICK k \in Stops : \A n \in Stops : k <= n
  BY <1>2, LeastElement
<1>4. k \in first[c]..L + 1 /\ (k = L + 1 \/ ~ Expired(passed[c][k]))
  BY <1>3
<1>5. k <= L => ~ Expired(passed[c][k])
  BY <1>1, <1>4
<1>6. ASSUME NEW i \in first[c]..k - 1 PROVE Expired(passed[c][i])
  <2>1. i \in first[c]..L + 1 /\ ~ (k <= i)
    BY <1>1, <1>4
  <2>2. i \notin Stops
    BY <1>3, <2>1
  <2> QED BY <2>1, <2>2
<1> QED BY <1>4, <1>5, <1>6 DEF Pruned

\* What is left then is what was let pass in the last Window.
LEMMA PrunedIsRecent ==
    ASSUME LimiterInv, NEW c \in Client, NEW k \in first[c]..Len(passed[c]) + 1,
           Pruned(c, k)
    PROVE  Recent(c) = k..Len(passed[c])
<1> USE LimiterAssumption DEF LimiterInv, LimiterTypeOK
<1> DEFINE L == Len(passed[c])
<1>1. L \in Nat /\ first[c] \in 1..L + 1 /\ k \in Nat \ {0} /\ k <= L + 1 /\ DequeInv(c)
  BY DEF DequeInv
<1>2. ASSUME NEW i \in 1..L, i < k PROVE Expired(passed[c][i])
  <2>1. CASE i < first[c]
    BY <1>1, <2>1 DEF DequeInv
  <2>2. CASE i >= first[c]
    BY <1>1, <1>2, <2>2 DEF Pruned
  <2> QED BY <1>1, <2>1, <2>2
<1>3. ASSUME NEW i \in 1..L, k <= i PROVE ~ Expired(passed[c][i])
  <2>1. k \in 1..L /\ ~ Expired(passed[c][k])
    BY <1>1, <1>3 DEF Pruned
  <2>2. passed[c][k] <= passed[c][i]
    BY <1>1, <1>3, <2>1 DEF DequeInv
  <2>3. passed[c][k] \in Nat /\ passed[c][i] \in Nat
    BY <2>1
  <2> QED BY <2>1, <2>2, <2>3 DEF Expired
<1>4. ASSUME NEW i \in 1..L PROVE i < k \/ k <= i
  BY <1>1
<1>5. \A i : i \in k..L <=> i \in 1..L /\ k <= i
  BY <1>1
<1>6. \A i \in 1..L : k <= i <=> ~ Expired(passed[c][i])
  BY <1>1, <1>2, <1>3, <1>4
<1> QED BY <1>5, <1>6 DEF Recent

\* The limiter always answers, and by the number of requests of the client in the
\* last Window: the popping ends, what it pops has no say any more, and what it
\* leaves is all that counts.
LimiterCountsTheWindow ==
    \A c \in Client :
        /\ \E k \in first[c]..Len(passed[c]) + 1 : Pruned(c, k)
        /\ \A k \in first[c]..Len(passed[c]) + 1 :
             Pruned(c, k) => (Full(c, k) <=> Cardinality(Recent(c)) >= Limit)

LEMMA FullWindow ==
    ASSUME LimiterInv, NEW c \in Client, NEW k \in first[c]..Len(passed[c]) + 1,
           Pruned(c, k)
    PROVE  Full(c, k) <=> Cardinality(Recent(c)) >= Limit
<1> DEFINE L == Len(passed[c])
<1>1. L \in Int /\ k \in Int /\ k <= L + 1
  BY DEF LimiterInv, LimiterTypeOK, DequeInv
<1>2. Cardinality(k..L) = L + 1 - k
  <2> HIDE DEF L
  <2> QED BY <1>1, FS_Interval
<1> QED BY <1>2, PrunedIsRecent DEF Full

\* The limiter decides every request by the requests of the last Window.
THEOREM LimiterExact == Spec => []LimiterCountsTheWindow
<1>1. AInv => LimiterCountsTheWindow
  BY PruningEnds, FullWindow DEF AInv, LimiterCountsTheWindow
<1> QED BY <1>1, Invariance, PTL
=============================================================================
