------------------------------ MODULE Accounts ------------------------------
(***************************************************************************)
(* Accounts, access tokens and the rate limiter: internal/auth, its        *)
(* repository internal/postgres/auth_repository.go, and the handlers and   *)
(* the limiter of internal/httpapi that stand before them.                 *)
(*                                                                         *)
(* A client has one request at a time.  The transaction of a registration  *)
(* goes statement by statement; the limiter is a step of its own, because  *)
(* it has its own lock and has answered before the transaction begins.     *)
(***************************************************************************)
EXTENDS Naturals, FiniteSets

CONSTANTS
    Clients,            \* addresses requests come from
    Emails, Passwords,
    ShortPassword,      \* a password registrations refuse
    Limit, Window,      \* rateLimitMaxRequests and rateLimitWindow
    TTL,                \* life of an access token
    MaxTime,            \* bound: the last instant of a behaviour
    Casts               \* sets of actors and of routes that they use; one
                        \* of the sets plays in a behaviour

ASSUME AccountsAssumption ==
    /\ Limit \in Nat \ {0} /\ Window \in Nat \ {0}
    /\ TTL \in Nat /\ MaxTime \in Nat
    /\ ShortPassword \in Passwords

VARIABLES
    cast,       \* the actors of this behaviour
    now,        \* the clock
    bucket,     \* the limiter's map, by client and route
    admitted,   \* history: requests let through, by client, route and instant
    account,    \* committed users and user_roles, by email
    request,    \* the request of each client
    token       \* the access token each client holds

accountVars == <<cast, now, bucket, admitted, account, request, token>>

Roles == {"CUSTOMER", "ADMIN"}
Routes == {"register", "login", "bootstrap-admin", "orders"}
Keys == Clients \X Routes
Time == 0 .. MaxTime

NoAccount == [role |-> "none", password |-> ShortPassword]
NoToken == [role |-> "none", expires |-> 0]
Account == [role : Roles \cup {"none"}, password : Passwords]
Token == [role : Roles \cup {"none"}, expires : Nat]
\* A key that is not in the map is a bucket without requests.
Bucket == [started : Time, requests : 0 .. Limit]
Request == [phase : {"idle", "lock", "check", "insert", "commit", "find"},
            route : Routes, email : Emails, password : Passwords,
            answer : {0, 200, 201, 400, 401, 403, 409, 429}]

AccountsTypeOK ==
    /\ cast \in Casts
    /\ now \in Time
    /\ bucket \in [Keys -> Bucket]
    /\ admitted \in [Keys -> [Time -> Nat]]
    /\ account \in [Emails -> Account]
    /\ request \in [Clients -> Request]
    /\ token \in [Clients -> Token]

EmptyMap == [key \in Keys |-> [started |-> 0, requests |-> 0]]
NoneAdmitted == [key \in Keys |-> [t \in Time |-> 0]]

\* A request that is over: what it was does not matter any more.
Answered(status) ==
    [phase |-> "idle", route |-> "login", email |-> CHOOSE e \in Emails : TRUE,
     password |-> ShortPassword, answer |-> status]

AccountsInit ==
    /\ cast \in Casts
    /\ now = 0
    /\ bucket = EmptyMap
    /\ admitted = NoneAdmitted
    /\ account = [e \in Emails |-> NoAccount]
    /\ request = [c \in Clients |-> Answered(0)]
    /\ token = [c \in Clients |-> NoToken]
----------------------------------------------------------------------------
(* The limiter.                                                            *)

\* Fault: the window ends one instant early.
WindowEnding(key) ==
    bucket[key].requests = 0 \/ now + 1 >= bucket[key].started + Window

WindowOver(key) ==
    bucket[key].requests = 0 \/ now >= bucket[key].started + Window

\* Fault: one request too many.
AllowedOneMore(key) == WindowOver(key) \/ bucket[key].requests <= Limit

Allowed(key) == WindowOver(key) \/ bucket[key].requests < Limit

\* Fault: a refused request starts the window again.
Restarted(key) ==
    CASE WindowOver(key) -> [started |-> now, requests |-> 1]
      [] ~WindowOver(key) /\ Allowed(key) ->
            [bucket[key] EXCEPT !.requests = @ + 1]
      [] OTHER -> [bucket[key] EXCEPT !.started = now]

\* The bucket after a request.
Counted(key) ==
    CASE WindowOver(key) -> [started |-> now, requests |-> 1]
      [] ~WindowOver(key) /\ Allowed(key) ->
            [bucket[key] EXCEPT !.requests = @ + 1]
      [] OTHER -> bucket[key]

Admit(key) ==
    /\ bucket' = [bucket EXCEPT ![key] = Counted(key)]
    /\ admitted' = IF Allowed(key) THEN [admitted EXCEPT ![key][now] = @ + 1]
                   ELSE admitted
----------------------------------------------------------------------------
(* Tokens.                                                                 *)

\* sign: the role is the account's when the token was issued.
Issued(role) == [role |-> role, expires |-> now + TTL]

\* requireRole: 0 lets the request pass.
RoleAnswer(c, role) ==
    CASE token[c].role = "none" \/ token[c].expires <= now -> 401
      [] token[c].role # "none" /\ token[c].expires > now
            /\ token[c].role # role -> 403
      [] OTHER -> 0
----------------------------------------------------------------------------
(* Requests.                                                               *)

Answer(c, status) == request' = [request EXCEPT ![c] = Answered(status)]
Goto(c, phase) == request' = [request EXCEPT ![c].phase = phase]

\* Where a request goes on that the limiter let through, and the answer if
\* it goes nowhere.  bootstrapToken: the header has the right token.  The
\* hold that an order makes is not part of this module.
Begun(route, password, bootstrapToken) ==
    CASE route = "register" /\ password # ShortPassword -> "insert"
      [] route = "bootstrap-admin" /\ bootstrapToken
            /\ password # ShortPassword -> "lock"
      [] route = "login" -> "find"
      [] OTHER -> "idle"
Refused(c, route, bootstrapToken) ==
    CASE route = "orders" -> IF RoleAnswer(c, "CUSTOMER") = 0 THEN 201
                             ELSE RoleAnswer(c, "CUSTOMER")
      [] route = "bootstrap-admin" /\ ~bootstrapToken -> 401
      [] OTHER -> 400

Send(c, route, email, password, bootstrapToken) ==
    /\ request[c].phase = "idle"
    /\ Admit(<<c, route>>)
    /\ LET phase == Begun(route, password, bootstrapToken) IN
       CASE ~Allowed(<<c, route>>) -> Answer(c, 429)
         [] Allowed(<<c, route>>) /\ phase = "idle" ->
               Answer(c, Refused(c, route, bootstrapToken))
         [] OTHER -> request' = [request EXCEPT ![c] =
                        [phase |-> phase, route |-> route, email |-> email,
                         password |-> password, answer |-> 0]]
    /\ UNCHANGED <<cast, now, account, token>>

\* Login: the role of the account goes into the token.
Login(c) ==
    LET found == account[request[c].email] IN
    /\ request[c].phase = "find"
    /\ IF found.role # "none" /\ found.password = request[c].password
       THEN /\ token' = [token EXCEPT ![c] = Issued(found.role)]
            /\ Answer(c, 200)
       ELSE Answer(c, 401) /\ UNCHANGED token
    /\ UNCHANGED <<cast, now, bucket, admitted, account>>

\* Fault: nobody waits for the lock.
LockFree(c) == TRUE

\* The advisory lock of CreateInitialAdmin is kept to the transaction's end.
LockAvailable(c) ==
    \A d \in Clients \ {c} :
        ~(request[d].route = "bootstrap-admin"
            /\ request[d].phase \in {"check", "insert", "commit"})

LockBootstrap(c) ==
    /\ request[c].phase = "lock"
    /\ LockAvailable(c)
    /\ Goto(c, "check")
    /\ UNCHANGED <<cast, now, bucket, admitted, account, token>>

CheckAdmin(c) ==
    /\ request[c].phase = "check"
    /\ IF \E e \in Emails : account[e].role = "ADMIN" THEN Answer(c, 409)
       ELSE Goto(c, "insert")
    /\ UNCHANGED <<cast, now, bucket, admitted, account, token>>

\* The unique index makes an insertion wait for one of the same email that
\* is not committed yet.
InsertUser(c) ==
    LET email == request[c].email IN
    /\ request[c].phase = "insert"
    /\ \A d \in Clients \ {c} :
          ~(request[d].phase = "commit" /\ request[d].email = email)
    /\ IF account[email].role # "none" THEN Answer(c, 409) ELSE Goto(c, "commit")
    /\ UNCHANGED <<cast, now, bucket, admitted, account, token>>

NewRole(c) == IF request[c].route = "bootstrap-admin" THEN "ADMIN" ELSE "CUSTOMER"

\* The commit, and the session that register returns.
CommitUser(c) ==
    /\ request[c].phase = "commit"
    /\ account' = [account EXCEPT ![request[c].email] =
                      [role |-> NewRole(c), password |-> request[c].password]]
    /\ token' = [token EXCEPT ![c] = Issued(NewRole(c))]
    /\ Answer(c, 201)
    /\ UNCHANGED <<cast, now, bucket, admitted>>

\* The client goes away, or a statement fails: the transaction rolls back.
Abandon(c) ==
    /\ request[c].phase # "idle"
    /\ Answer(c, 0)
    /\ UNCHANGED <<cast, now, bucket, admitted, account, token>>

\* The process starts again: the limiter's map is gone, and every request.
Restart ==
    /\ "restart" \in cast
    /\ bucket' = EmptyMap
    /\ admitted' = NoneAdmitted
    /\ request' = [c \in Clients |-> Answered(0)]
    /\ UNCHANGED <<cast, now, account, token>>

Tick ==
    /\ "clock" \in cast
    /\ now < MaxTime
    /\ now' = now + 1
    /\ UNCHANGED <<cast, bucket, admitted, account, request, token>>

Serve(c) ==
    \/ Login(c) \/ LockBootstrap(c) \/ CheckAdmin(c) \/ InsertUser(c)
    \/ CommitUser(c) \/ Abandon(c)
----------------------------------------------------------------------------
(* What has to hold.                                                       *)

\* However many bootstrap requests race, with one email or several, there is
\* one administrator: the check and the insertion are two statements, and
\* nothing in the tables forbids a second row with the role.
OneAdministrator ==
    \A e, f \in Emails :
        account[e].role = "ADMIN" /\ account[f].role = "ADMIN" => e = f

AdmittedFrom(key, first) ==
    {pair \in (Time \X (1 .. 2 * Limit)) :
        /\ first <= pair[1] /\ pair[1] < first + Window
        /\ pair[2] <= admitted[key][pair[1]]}

\* In no stretch of time as long as the window are 2 * Limit requests let
\* through: that much a limiter with fixed windows allows, and no more, as
\* long as the process lives.
AdmissionBound ==
    \A key \in Keys, first \in Time :
        Cardinality(AdmittedFrom(key, first)) < 2 * Limit

\* A client of whom nothing was let through for a whole window is not
\* refused, however often it was refused meanwhile.
NeverLockedOut ==
    \A key \in Keys :
        (\A t \in Time : now < t + Window => admitted[key][t] = 0) => Allowed(key)
=============================================================================
