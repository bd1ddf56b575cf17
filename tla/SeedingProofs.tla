--------------------------- MODULE SeedingProofs ---------------------------
(***************************************************************************)
(* Theorems about accounts and the rate limiter in the whole of Seeding,   *)
(* for any number of clients, runners and emails, any limit and window.    *)
(* Most steps of the seed command and all of the movie pages leave the     *)
(* accounts alone; the others are those of AccountNext.                    *)
(***************************************************************************)
EXTENDS Seeding, FiniteSetTheorems, TLAPS

USE AccountsAssumption, SeedingAssumption

Sent(c) ==
    \E route \in Routes, e \in Emails, p \in Passwords, known \in BOOLEAN :
        Send(c, route, e, p, known)

AccountNext ==
    \/ \E c \in Clients : Sent(c) \/ Serve(c)
    \/ Restart
    \/ Tick

LEMMA StepKinds ==
    ASSUME SeedingNext
    PROVE  AccountNext \/ UNCHANGED accountVars
<1>1. ASSUME NEW c \in Clients, Visit(c)  PROVE Sent(c)
  BY <1>1 DEF Visit, Sent
<1>2. ASSUME NEW r \in Runners, RunStep(r)  PROVE AccountNext \/ UNCHANGED accountVars
  <2>1. r \in Clients
    OBVIOUS
  <2>2. ASSUME NEW from, NEW route \in Routes, NEW to, AsksAccounts(r, from, route, to)
        PROVE  AccountNext
    <3>1. Send(r, route, AdminEmail, AdminPassword, TRUE)
      BY <2>2 DEF AsksAccounts
    <3>2. Sent(r)
      BY <3>1 DEF Sent
    <3> QED
      BY <2>1, <3>2 DEF AccountNext
  <2>3. CASE AsksAccounts(r, "bootstrap", "bootstrap-admin", "bootstrapping")
    BY <2>2, <2>3 DEF Routes
  <2>4. CASE AsksAccounts(r, "login", "login", "logging in")
    BY <2>2, <2>4 DEF Routes
  <2>5. CASE Start(r) \/ Bootstrapped(r) \/ LoggedIn(r)
    BY <2>5 DEF Start, Bootstrapped, LoggedIn
  <2>6. CASE ListMovies(r) \/ FetchMovies(r) \/ ListCinemas(r) \/ ListStudios(r)
    BY <2>6 DEF ListMovies, FetchMovies, ListCinemas, ListStudios
  <2>7. CASE SendRow(r) \/ RowsDone(r) \/ SendMovie(r) \/ MoviesDone(r)
    BY <2>7 DEF SendRow, RowsDone, SendMovie, MoviesDone
  <2>8. CASE Written(r) \/ RunFails(r)
    BY <2>8 DEF Written, RunFails
  <2> QED
    BY <1>2, <2>3, <2>4, <2>5, <2>6, <2>7, <2>8 DEF RunStep
<1>3. LateWrite => UNCHANGED accountVars
  BY DEF LateWrite
<1>4. Over => UNCHANGED accountVars
  BY DEF Over, seedingVars
<1> QED
  BY <1>1, <1>2, <1>3, <1>4 DEF SeedingNext, AccountNext

----------------------------------------------------------------------------
(* Types.                                                                  *)

LEMMA AnsweredType ==
    ASSUME NEW status \in {0, 200, 201, 400, 401, 403, 409, 429}
    PROVE  Answered(status) \in Request
BY DEF Answered, Request, Routes

LEMMA AdmitType ==
    ASSUME AccountsTypeOK, NEW key \in Keys, Admit(key)
    PROVE  /\ bucket' \in [Keys -> Bucket]
           /\ admitted' \in [Keys -> [Time -> Nat]]
<1> USE DEF AccountsTypeOK
<1>1. Counted(key) \in Bucket
  <2>1. bucket[key] \in Bucket
    OBVIOUS
  <2>2. CASE WindowOver(key)
    BY <2>2 DEF Counted, Bucket
  <2>3. CASE ~WindowOver(key) /\ Allowed(key)
    <3>1. bucket[key].requests < Limit /\ bucket[key].requests + 1 \in 0 .. Limit
      BY <2>1, <2>3 DEF Allowed, Bucket
    <3> QED
      BY <2>1, <2>3, <3>1 DEF Counted, Bucket
  <2>4. CASE ~WindowOver(key) /\ ~Allowed(key)
    BY <2>1, <2>4 DEF Counted
  <2> QED
    BY <2>2, <2>3, <2>4
<1>2. admitted[key] \in [Time -> Nat]
  OBVIOUS
<1>3. [admitted[key] EXCEPT ![now] = @ + 1] \in [Time -> Nat]
  BY <1>2
<1> QED
  BY <1>1, <1>3 DEF Admit

LEMMA SendType ==
    ASSUME AccountsTypeOK, NEW c \in Clients, NEW route \in Routes, NEW e \in Emails,
           NEW p \in Passwords, NEW known \in BOOLEAN, Send(c, route, e, p, known)
    PROVE  AccountsTypeOK'
<1>1. <<c, route>> \in Keys
  BY DEF Keys
<1>2. bucket' \in [Keys -> Bucket] /\ admitted' \in [Keys -> [Time -> Nat]]
  BY <1>1, AdmitType DEF Send
<1>3. RoleAnswer(c, "CUSTOMER") \in {0, 401, 403}
  BY DEF RoleAnswer
<1>4. Refused(c, route, known) \in {201, 400, 401, 403}
  BY <1>3 DEF Refused
<1>5. request' \in [Clients -> Request]
  <2>1. CASE Answer(c, 429)
    BY <2>1, AnsweredType DEF Answer, AccountsTypeOK
  <2>2. CASE Answer(c, Refused(c, route, known))
    BY <2>2, <1>4, AnsweredType DEF Answer, AccountsTypeOK
  <2>3. CASE request' = [request EXCEPT ![c] =
                        [phase |-> Begun(route, p, known), route |-> route,
                         email |-> e, password |-> p, answer |-> 0]]
    <3>1. Begun(route, p, known) \in {"idle", "lock", "insert", "find"}
      BY DEF Begun
    <3> QED
      BY <2>3, <3>1 DEF AccountsTypeOK, Request
  <2> QED
    BY <2>1, <2>2, <2>3 DEF Send
<1> QED
  BY <1>2, <1>5 DEF Send, AccountsTypeOK

LEMMA ServeType ==
    ASSUME AccountsTypeOK, NEW c \in Clients, Serve(c)
    PROVE  AccountsTypeOK'
<1> USE DEF AccountsTypeOK
<1>1. request[c] \in Request /\ account[request[c].email] \in Account
  BY DEF Request
<1>2. ASSUME NEW role \in Roles  PROVE Issued(role) \in Token
  BY DEF Issued, Token, Time
<1>3. CASE Login(c)
  <2> DEFINE found == account[request[c].email]
  <2>1. /\ \/ request' = [request EXCEPT ![c] = Answered(200)]
           \/ request' = [request EXCEPT ![c] = Answered(401)]
        /\ \/ found.role # "none" /\ token' = [token EXCEPT ![c] = Issued(found.role)]
           \/ token' = token
        /\ cast' = cast /\ now' = now /\ bucket' = bucket
        /\ admitted' = admitted /\ account' = account
    BY <1>3 DEF Login, Answer
  <2>2. request' \in [Clients -> Request]
    BY <2>1, AnsweredType
  <2>3. found.role # "none" => Issued(found.role) \in Token
    BY <1>1, <1>2 DEF Account
  <2> HIDE DEF found
  <2>4. token' \in [Clients -> Token]
    BY <2>1, <2>3
  <2> QED
    BY <2>1, <2>2, <2>4
<1>4. ASSUME NEW phase \in {"check", "insert", "commit"}, Goto(c, phase)
      PROVE  request' \in [Clients -> Request]
  BY <1>1, <1>4 DEF Goto, Request
<1>5. ASSUME Answer(c, 409)
      PROVE  request' \in [Clients -> Request]
  BY <1>5, AnsweredType DEF Answer
<1>6. CASE LockBootstrap(c) \/ CheckAdmin(c) \/ InsertUser(c)
  BY <1>4, <1>5, <1>6 DEF LockBootstrap, CheckAdmin, InsertUser
<1>7. CASE CommitUser(c)
  <2>1. NewRole(c) \in Roles
    BY DEF NewRole, Roles
  <2>2. [role |-> NewRole(c), password |-> request[c].password] \in Account
    BY <1>1, <2>1 DEF Request, Account
  <2> QED
    <3>1. request' \in [Clients -> Request]
      BY <1>7, AnsweredType DEF CommitUser, Answer
    <3>2. token' \in [Clients -> Token]
      BY <1>2, <1>7, <2>1 DEF CommitUser
    <3>3. account' \in [Emails -> Account]
      BY <1>1, <1>7, <2>2 DEF CommitUser, Request
    <3> QED
      BY <1>7, <3>1, <3>2, <3>3 DEF CommitUser
<1>8. CASE Abandon(c)
  BY <1>8, AnsweredType DEF Abandon, Answer
<1> QED
  BY <1>3, <1>4, <1>5, <1>6, <1>7, <1>8 DEF Serve

LEMMA EmptyType ==
    EmptyMap \in [Keys -> Bucket] /\ NoneAdmitted \in [Keys -> [Time -> Nat]]
BY DEF EmptyMap, NoneAdmitted, Bucket, Time

LEMMA AccountsStepType ==
    ASSUME AccountsTypeOK, AccountNext
    PROVE  AccountsTypeOK'
<1>1. ASSUME NEW c \in Clients, Sent(c)  PROVE AccountsTypeOK'
  BY <1>1, SendType DEF Sent
<1>2. CASE Restart
  BY <1>2, EmptyType, AnsweredType DEF Restart, AccountsTypeOK
<1>3. CASE Tick
  BY <1>3 DEF Tick, AccountsTypeOK, Time
<1> QED
  BY <1>1, <1>2, <1>3, ServeType DEF AccountNext

LEMMA AccountsInitType == SeedingInit => AccountsTypeOK
<1> SUFFICES ASSUME SeedingInit  PROVE AccountsTypeOK
  OBVIOUS
<1>1. NoAccount \in Account /\ NoToken \in Token
  BY DEF NoAccount, NoToken, Account, Token
<1> QED
  BY <1>1, EmptyType, AnsweredType DEF SeedingInit, AccountsInit, AccountsTypeOK, Time

\* Accounts, tokens, buckets and requests stay well-formed: no bucket counts
\* more requests than the limit, and no request is answered with a status the
\* handlers do not write.
THEOREM AccountsTypeCorrect == SeedingSpec => []AccountsTypeOK
<1>1. AccountsTypeOK /\ [SeedingNext]_seedingVars => AccountsTypeOK'
  <2> SUFFICES ASSUME AccountsTypeOK, [SeedingNext]_seedingVars
               PROVE  AccountsTypeOK'
    OBVIOUS
  <2>1. CASE UNCHANGED accountVars
    BY <2>1 DEF accountVars, AccountsTypeOK
  <2> QED
    BY <2>1, StepKinds, AccountsStepType DEF seedingVars
<1> QED
  BY <1>1, AccountsInitType, PTL DEF SeedingSpec

----------------------------------------------------------------------------
(* One administrator.                                                      *)

\* A bootstrap transaction holds the advisory lock.
HoldsLock(c) ==
    /\ request[c].route = "bootstrap-admin"
    /\ request[c].phase \in {"check", "insert", "commit"}

\* At most one transaction holds it, and once it has looked there is no
\* administrator until it ends.
BootstrapInv ==
    /\ AccountsTypeOK
    /\ \A c, d \in Clients : HoldsLock(c) /\ HoldsLock(d) => c = d
    /\ \A c \in Clients :
          HoldsLock(c) /\ request[c].phase # "check"
             => \A e \in Emails : account[e].role # "ADMIN"
    /\ OneAdministrator

\* A step that leaves the accounts alone and takes no bootstrap further.
LEMMA BootstrapFrame ==
    ASSUME BootstrapInv, AccountsTypeOK', UNCHANGED account,
           \A d \in Clients : HoldsLock(d)' => /\ HoldsLock(d)
                                               /\ request'[d].phase = request[d].phase
    PROVE  BootstrapInv'
BY DEF BootstrapInv, OneAdministrator

LEMMA SendBootstrap ==
    ASSUME BootstrapInv, NEW c \in Clients, Sent(c)
    PROVE  BootstrapInv'
<1>1. PICK route \in Routes, e \in Emails, p \in Passwords, known \in BOOLEAN :
        Send(c, route, e, p, known)
  BY DEF Sent
<1>2. AccountsTypeOK'
  BY <1>1, SendType DEF BootstrapInv
<1>3. UNCHANGED account
  BY <1>1 DEF Send
<1>4. \A d \in Clients \ {c} : request'[d] = request[d]
  BY <1>1 DEF Send, Answer, BootstrapInv, AccountsTypeOK
<1>5. ~HoldsLock(c)'
  <2>1. CASE request'[c].phase = "idle"
    BY <2>1 DEF HoldsLock
  <2>2. CASE request' = [request EXCEPT ![c] =
                        [phase |-> Begun(route, p, known), route |-> route,
                         email |-> e, password |-> p, answer |-> 0]]
    BY <2>2 DEF HoldsLock, Begun, BootstrapInv, AccountsTypeOK
  <2>3. ASSUME NEW status, Answer(c, status)  PROVE request'[c].phase = "idle"
    BY <2>3 DEF Answer, Answered, BootstrapInv, AccountsTypeOK
  <2> QED
    BY <1>1, <2>1, <2>2, <2>3 DEF Send
<1> QED
  BY <1>2, <1>3, <1>4, <1>5, BootstrapFrame DEF HoldsLock

LEMMA ServeBootstrap ==
    ASSUME BootstrapInv, NEW c \in Clients, Serve(c)
    PROVE  BootstrapInv'
<1>1. AccountsTypeOK' /\ AccountsTypeOK
  BY ServeType DEF BootstrapInv
<1>2. ASSUME NEW status, Answer(c, status), NEW d \in Clients, HoldsLock(d)'
      PROVE  HoldsLock(d) /\ request'[d] = request[d]
  BY <1>1, <1>2 DEF Answer, Answered, HoldsLock, AccountsTypeOK
<1>3. CASE Login(c) \/ Abandon(c)
  <2>1. PICK status : Answer(c, status)
    BY <1>3 DEF Login, Abandon
  <2> QED
    BY <1>1, <1>2, <1>3, <2>1, BootstrapFrame DEF Login, Abandon
<1>4. CASE LockBootstrap(c)
  <2>1. /\ \A d \in Clients \ {c} : ~HoldsLock(d) /\ request'[d] = request[d]
        /\ request'[c].phase = "check"
    BY <1>1, <1>4 DEF LockBootstrap, LockAvailable, Goto, HoldsLock, AccountsTypeOK
  <2> QED
    BY <1>1, <1>4, <2>1 DEF BootstrapInv, OneAdministrator, LockBootstrap, HoldsLock
<1>5. CASE CheckAdmin(c)
  <2>1. CASE Answer(c, 409)
    BY <1>1, <1>2, <1>5, <2>1, BootstrapFrame DEF CheckAdmin
  <2>2. CASE Goto(c, "insert") /\ \A e \in Emails : account[e].role # "ADMIN"
    <3>1. \A d \in Clients : HoldsLock(d)' => HoldsLock(d)
      BY <1>1, <1>5, <2>2 DEF CheckAdmin, Goto, HoldsLock, AccountsTypeOK
    <3> QED
      BY <1>1, <1>5, <2>2, <3>1 DEF BootstrapInv, OneAdministrator, CheckAdmin
  <2> QED
    BY <1>5, <2>1, <2>2 DEF CheckAdmin
<1>6. CASE InsertUser(c)
  <2>1. CASE Answer(c, 409)
    BY <1>1, <1>2, <1>6, <2>1, BootstrapFrame DEF InsertUser
  <2>2. CASE Goto(c, "commit")
    <3>1. \A d \in Clients : /\ HoldsLock(d)' => HoldsLock(d)
                             /\ d # c => request'[d] = request[d]
      BY <1>1, <1>6, <2>2 DEF InsertUser, Goto, HoldsLock, AccountsTypeOK
    <3>2. request[c].phase = "insert" /\ UNCHANGED account
      BY <1>6 DEF InsertUser
    <3> QED
      BY <1>1, <3>1, <3>2 DEF BootstrapInv, OneAdministrator
  <2> QED
    BY <1>6, <2>1, <2>2 DEF InsertUser
<1>7. CASE CommitUser(c)
  <2> DEFINE mine == request[c].email
  <2>1. /\ request[c].phase = "commit"
        /\ Answer(c, 201)
        /\ \A d \in Clients : HoldsLock(d)' => HoldsLock(d) /\ request'[d] = request[d]
    BY <1>2, <1>7 DEF CommitUser
  <2>2. mine \in Emails /\ \A e \in Emails : account'[e].role = IF e = mine THEN NewRole(c) ELSE account[e].role
    BY <1>1, <1>7 DEF CommitUser, AccountsTypeOK, Request
  <2>3. ~HoldsLock(c)'
    BY <1>1, <2>1 DEF Answer, Answered, HoldsLock, AccountsTypeOK
  <2>4. CASE request[c].route = "bootstrap-admin"
    <3>1. HoldsLock(c) /\ \A e \in Emails : account[e].role # "ADMIN"
      BY <2>1, <2>4 DEF HoldsLock, BootstrapInv
    <3>2. \A d \in Clients : ~HoldsLock(d)'
      BY <2>1, <2>3, <3>1 DEF BootstrapInv
    <3>3. OneAdministrator'
      BY <2>2, <3>1 DEF OneAdministrator
    <3> QED
      BY <1>1, <3>2, <3>3 DEF BootstrapInv
  <2>5. CASE request[c].route # "bootstrap-admin"
    <3>1. \A e \in Emails : account'[e].role = "ADMIN" => account[e].role = "ADMIN"
      BY <2>2, <2>5 DEF NewRole
    <3> QED
      BY <1>1, <2>1, <3>1 DEF BootstrapInv, OneAdministrator
  <2> QED
    BY <2>4, <2>5
<1> QED
  BY <1>3, <1>4, <1>5, <1>6, <1>7 DEF Serve

\* However many bootstrap requests race with each other, with registrations
\* and with seed commands, there is at most one administrator.
THEOREM OneAdministratorAlways == SeedingSpec => []OneAdministrator
<1>1. SeedingInit => BootstrapInv
  <2> SUFFICES ASSUME SeedingInit  PROVE BootstrapInv
    OBVIOUS
  <2>1. \A c \in Clients : ~HoldsLock(c)
    BY DEF SeedingInit, AccountsInit, HoldsLock, Answered
  <2>2. \A e \in Emails : account[e].role # "ADMIN"
    BY DEF SeedingInit, AccountsInit, NoAccount
  <2> QED
    BY <2>1, <2>2, AccountsInitType DEF BootstrapInv, OneAdministrator
<1>2. BootstrapInv /\ [SeedingNext]_seedingVars => BootstrapInv'
  <2> SUFFICES ASSUME BootstrapInv, [SeedingNext]_seedingVars
               PROVE  BootstrapInv'
    OBVIOUS
  <2>1. CASE UNCHANGED accountVars
    BY <2>1 DEF accountVars, BootstrapInv, AccountsTypeOK, OneAdministrator, HoldsLock
  <2>2. CASE AccountNext
    <3>1. CASE Restart
      <4>1. UNCHANGED account /\ \A d \in Clients : ~HoldsLock(d)'
        BY <3>1 DEF Restart, Answered, HoldsLock
      <4> QED
        BY <2>2, <4>1, AccountsStepType, BootstrapFrame DEF BootstrapInv
    <3>2. CASE Tick
      <4>1. UNCHANGED <<account, request>>
        BY <3>2 DEF Tick
      <4> QED
        BY <2>2, <4>1, AccountsStepType, BootstrapFrame DEF BootstrapInv, HoldsLock
    <3> QED
      BY <2>2, <3>1, <3>2, SendBootstrap, ServeBootstrap DEF AccountNext
  <2> QED
    BY <2>1, <2>2, StepKinds DEF seedingVars
<1>3. BootstrapInv => OneAdministrator
  BY DEF BootstrapInv
<1> QED
  BY <1>1, <1>2, <1>3, PTL DEF SeedingSpec

----------------------------------------------------------------------------
(* The limiter locks nobody out.                                           *)

\* A bucket in use was opened by a request that was let through, and not in
\* the future.
BucketsOpened ==
    \A key \in Keys :
        bucket[key].requests # 0 =>
            /\ bucket[key].started <= now
            /\ admitted[key][bucket[key].started] > 0

LEMMA AdmitOpens ==
    ASSUME AccountsTypeOK, BucketsOpened, NEW key \in Keys, Admit(key), UNCHANGED now
    PROVE  BucketsOpened'
<1> SUFFICES ASSUME NEW k \in Keys, bucket'[k].requests # 0
             PROVE  /\ bucket'[k].started <= now
                    /\ admitted'[k][bucket'[k].started] > 0
  BY DEF BucketsOpened
<1> USE DEF AccountsTypeOK
<1>1. /\ bucket[k] \in Bucket /\ admitted[k] \in [Time -> Nat] /\ now \in Time
      /\ now <= now
  BY DEF Time
<1>2. CASE k # key
  <2>1. bucket'[k] = bucket[k] /\ admitted'[k] = admitted[k]
    BY <1>2 DEF Admit
  <2> QED
    BY <2>1 DEF BucketsOpened
<1>3. CASE k = key
  <2>1. bucket'[k] = Counted(k)
    BY <1>3 DEF Admit
  <2>2. CASE WindowOver(k)
    <3>1. bucket'[k].started = now
      BY <2>1, <2>2 DEF Counted
    <3>2. admitted'[k] = [admitted[k] EXCEPT ![now] = @ + 1]
      BY <1>3, <2>2 DEF Admit, Allowed
    <3>3. admitted'[k][now] = admitted[k][now] + 1
      BY <1>1, <3>2
    <3> QED
      BY <1>1, <3>1, <3>3
  <2>3. CASE ~WindowOver(k)
    <3>1. bucket[k].requests # 0
      BY <2>3 DEF WindowOver
    <3>2. bucket'[k].started = bucket[k].started
      BY <1>1, <2>1, <2>3 DEF Counted, Bucket
    <3>3. admitted'[k] = admitted[k] \/ admitted'[k] = [admitted[k] EXCEPT ![now] = @ + 1]
      BY <1>3 DEF Admit
    <3>4. bucket[k].started \in Time
      BY <1>1 DEF Bucket
    <3> DEFINE first == bucket[k].started
    <3>5. admitted[k][first] \in Nat /\ admitted[k][first] > 0 /\ first <= now
      BY <1>1, <3>1, <3>4 DEF BucketsOpened
    <3>6. admitted'[k][first] = admitted[k][first] \/ admitted'[k][first] = admitted[k][first] + 1
      <4> HIDE DEF first
      <4> QED
        BY <1>1, <3>3, <3>4 DEF first
    <3> QED
      BY <3>2, <3>5, <3>6
  <2> QED
    BY <2>2, <2>3
<1> QED
  BY <1>2, <1>3

LEMMA StepOpens ==
    ASSUME AccountsTypeOK, BucketsOpened, AccountNext
    PROVE  BucketsOpened'
<1>1. ASSUME NEW c \in Clients, Sent(c)  PROVE BucketsOpened'
  BY <1>1, AdmitOpens DEF Sent, Send, Keys
<1>2. ASSUME NEW c \in Clients, Serve(c)  PROVE BucketsOpened'
  <2>1. UNCHANGED <<now, bucket, admitted>>
    BY <1>2 DEF Serve, Login, LockBootstrap, CheckAdmin, InsertUser, CommitUser, Abandon
  <2> QED
    BY <2>1 DEF BucketsOpened
<1>3. CASE Restart
  BY <1>3 DEF Restart, EmptyMap, BucketsOpened
<1>4. CASE Tick
  <2>1. UNCHANGED <<bucket, admitted>> /\ now' = now + 1
    BY <1>4 DEF Tick
  <2>2. \A key \in Keys : bucket[key].started \in Nat
    BY DEF AccountsTypeOK, Bucket, Time
  <2>3. now \in Nat
    BY DEF AccountsTypeOK, Time
  <2> QED
    BY <2>1, <2>2, <2>3 DEF BucketsOpened
<1> QED
  BY <1>1, <1>2, <1>3, <1>4 DEF AccountNext

\* A client of whom nothing was let through for a whole window is served.
THEOREM NobodyLockedOut == SeedingSpec => []NeverLockedOut
<1>1. SeedingInit => BucketsOpened
  BY DEF SeedingInit, AccountsInit, EmptyMap, BucketsOpened
<1>2. AccountsTypeOK /\ BucketsOpened /\ [SeedingNext]_seedingVars => BucketsOpened'
  <2> SUFFICES ASSUME AccountsTypeOK, BucketsOpened, [SeedingNext]_seedingVars
               PROVE  BucketsOpened'
    OBVIOUS
  <2>1. CASE UNCHANGED accountVars
    BY <2>1 DEF accountVars, BucketsOpened
  <2> QED
    BY <2>1, StepKinds, StepOpens DEF seedingVars
<1>3. AccountsTypeOK /\ BucketsOpened => NeverLockedOut
  <2> SUFFICES ASSUME AccountsTypeOK, BucketsOpened, NEW key \in Keys,
                      \A t \in Time : now < t + Window => admitted[key][t] = 0,
                      ~Allowed(key)
               PROVE  FALSE
    BY DEF NeverLockedOut
  <2> DEFINE first == bucket[key].started
  <2>1. first \in Time /\ first \in Nat /\ now \in Nat
    BY DEF AccountsTypeOK, Bucket, Time
  <2>2. bucket[key].requests # 0 /\ ~(now >= first + Window)
    BY DEF Allowed, WindowOver
  <2>3. now < first + Window
    BY <2>1, <2>2
  <2>4. admitted[key][first] = 0
    BY <2>1, <2>3
  <2> QED
    BY <2>2, <2>4 DEF BucketsOpened
<1> QED
  BY <1>1, <1>2, <1>3, AccountsTypeCorrect, PTL DEF SeedingSpec
----------------------------------------------------------------------------
(* The limiter's bound.                                                    *)

\* The requests that g, a row of admitted, counts at instants from..to-1, as
\* in AdmittedFrom.
In(g, from, to) ==
    {pair \in (Time \X (1 .. 2 * Limit)) :
        /\ from <= pair[1] /\ pair[1] < to
        /\ pair[2] <= g[pair[1]]}
Size(g, from, to) == Cardinality(In(g, from, to))

\* An instant after all others.
End == MaxTime + 1

LEMMA InFinite ==
    ASSUME NEW g, NEW from, NEW to
    PROVE  IsFiniteSet(In(g, from, to)) /\ Size(g, from, to) \in Nat
<1>1. IsFiniteSet(Time) /\ IsFiniteSet(1 .. 2 * Limit)
  BY FS_Interval DEF Time
<1>2. IsFiniteSet(Time \X (1 .. 2 * Limit))
  BY <1>1, FS_Product
<1>3. In(g, from, to) \in SUBSET (Time \X (1 .. 2 * Limit))
  BY DEF In
<1>4. IsFiniteSet(In(g, from, to))
  BY <1>2, <1>3, FS_Subset
<1> QED
  BY <1>4, FS_CardinalityType DEF Size

LEMMA SizeMonotone ==
    ASSUME NEW g, NEW h, NEW a, NEW b, NEW c, NEW d, In(g, a, b) \subseteq In(h, c, d)
    PROVE  Size(g, a, b) <= Size(h, c, d)
<1>1. In(g, a, b) \in SUBSET In(h, c, d)
  OBVIOUS
<1> QED
  BY <1>1, InFinite, FS_Subset DEF Size

\* A shorter stretch of time has no more requests.
LEMMA SizeWithin ==
    ASSUME NEW g, NEW a \in Nat, NEW b \in Nat, NEW c \in Nat, NEW d \in Nat, c <= a,
           b <= d \/ d = End
    PROVE  Size(g, a, b) <= Size(g, c, d)
<1>1. In(g, a, b) \subseteq In(g, c, d)
  BY DEF In, Time, End
<1> QED
  BY <1>1, SizeMonotone

LEMMA SizeSplit ==
    ASSUME NEW g, NEW a \in Nat, NEW m \in Nat, NEW b \in Nat
    PROVE  Size(g, a, b) <= Size(g, a, m) + Size(g, m, b)
<1> DEFINE S == In(g, a, m)
           T == In(g, m, b)
<1>1. In(g, a, b) \in SUBSET (S \cup T)
  BY DEF In, Time
<1>2. IsFiniteSet(S) /\ IsFiniteSet(T) /\ Cardinality(S) \in Nat /\ Cardinality(T) \in Nat
  BY InFinite DEF Size
<1>3. IsFiniteSet(S \cap T) /\ IsFiniteSet(S \cup T)
  BY <1>2, FS_Intersection, FS_Union
<1>4. Cardinality(S \cap T) \in Nat /\ Cardinality(S \cup T) \in Nat
  BY <1>3, FS_CardinalityType
<1>5. Cardinality(S \cup T) = Cardinality(S) + Cardinality(T) - Cardinality(S \cap T)
  BY <1>2, FS_Union
<1>6. Cardinality(In(g, a, b)) <= Cardinality(S \cup T) /\ Cardinality(In(g, a, b)) \in Nat
  BY <1>1, <1>3, FS_Subset, InFinite DEF Size
<1> HIDE DEF S, T
<1>7. Cardinality(In(g, a, b)) <= Cardinality(S) + Cardinality(T)
  BY <1>2, <1>4, <1>5, <1>6
<1> QED
  BY <1>7 DEF Size, S, T

\* One request more at the present instant counts once, in the stretches around
\* it, and adds nothing to the others.
LEMMA SizeIncrement ==
    ASSUME now \in Time, NEW g \in [Time -> Nat], NEW h, h = [g EXCEPT ![now] = @ + 1],
           NEW a \in Nat, NEW b \in Nat
    PROVE  Size(h, a, b) <= Size(g, a, b) + 1
<1>1. h[now] = g[now] + 1 /\ \A u \in Time : u # now => h[u] = g[u]
  OBVIOUS
<1>3. In(h, a, b) \in SUBSET (In(g, a, b) \cup {<<now, g[now] + 1>>})
  <2> SUFFICES ASSUME NEW u \in Time, NEW n \in 1 .. 2 * Limit,
                      a <= u, u < b, n <= h[u], <<u, n>> \notin In(g, a, b)
               PROVE  u = now /\ n = g[now] + 1
    BY DEF In
  <2>1. ~(n <= g[u])
    BY DEF In
  <2>2. u = now
    BY <1>1, <2>1
  <2>3. g[now] \in Nat
    OBVIOUS
  <2> QED
    BY <1>1, <2>1, <2>2, <2>3
<1>4. IsFiniteSet(In(g, a, b)) /\ Size(g, a, b) \in Nat /\ Size(h, a, b) \in Nat
  BY InFinite
<1>5. /\ IsFiniteSet(In(g, a, b) \cup {<<now, g[now] + 1>>})
      /\ \/ Cardinality(In(g, a, b) \cup {<<now, g[now] + 1>>}) = Size(g, a, b) + 1
         \/ Cardinality(In(g, a, b) \cup {<<now, g[now] + 1>>}) = Size(g, a, b)
  BY <1>4, FS_AddElement DEF Size
<1>6. Cardinality(In(h, a, b)) <= Cardinality(In(g, a, b) \cup {<<now, g[now] + 1>>})
  BY <1>3, <1>5, FS_Subset
<1>7. Size(h, a, b) <= Size(g, a, b) + 1
  BY <1>4, <1>5, <1>6 DEF Size
<1> QED
  BY <1>7

LEMMA SizeElsewhere ==
    ASSUME now \in Time, NEW g \in [Time -> Nat], NEW h, h = [g EXCEPT ![now] = @ + 1],
           NEW a \in Nat, NEW b \in Nat, now < a \/ b <= now
    PROVE  Size(h, a, b) <= Size(g, a, b)
<1>1. \A u \in Time : u # now => h[u] = g[u]
  OBVIOUS
<1>2. \A u \in Time : a <= u /\ u < b => h[u] = g[u]
  <2> SUFFICES ASSUME NEW u \in Time, a <= u, u < b PROVE u # now
    BY <1>1
  <2>1. u \in Nat /\ now \in Nat
    BY DEF Time
  <2> QED
    BY <2>1
<1>3. In(h, a, b) = In(g, a, b)
  BY <1>2 DEF In
<1>4. Size(g, a, b) \in Nat
  BY InFinite
<1> QED
  BY <1>3, <1>4 DEF Size

\* A stretch that begins later than a counted request has fewer.
LEMMA SizeWithout ==
    ASSUME NEW g \in [Time -> Nat], NEW s \in Time, g[s] > 0,
           NEW a \in Nat, NEW b \in Nat, s < a
    PROVE  Size(g, a, b) < Size(g, s, End)
<1> DEFINE S == In(g, s, End)
<1>1. <<s, 1>> \in S
  BY DEF In, Time, End
<1>2. In(g, a, b) \in SUBSET (S \ {<<s, 1>>})
  BY DEF In, Time, End
<1>3. IsFiniteSet(S) /\ Cardinality(S) \in Nat
  BY InFinite DEF Size
<1>4. IsFiniteSet(S \ {<<s, 1>>}) /\ Cardinality(S \ {<<s, 1>>}) = Cardinality(S) - 1
  BY <1>1, <1>3, FS_RemoveElement
<1>5. Cardinality(In(g, a, b)) <= Cardinality(S) - 1
  BY <1>2, <1>4, FS_Subset
<1>6. Cardinality(In(g, a, b)) \in Nat
  BY InFinite DEF Size
<1> QED
  BY <1>3, <1>5, <1>6 DEF Size

LEMMA SizeZero ==
    ASSUME NEW g \in [Time -> Nat], NEW a \in Nat, NEW b \in Nat,
           \A t \in Time : a <= t => g[t] = 0
    PROVE  Size(g, a, b) = 0
<1>1. In(g, a, b) = {}
  BY DEF In
<1> QED
  BY <1>1, FS_EmptySet DEF Size

\* What the limiter knows of a key of which it has let requests through: the
\* current window, its size, and what had been let through before it began in
\* stretches that reach into it.
Windowed(b, g) ==
    /\ b.started <= now
    /\ g[b.started] > 0
    /\ \A t \in Time : t >= b.started + Window => g[t] = 0
    /\ Size(g, b.started, End) <= b.requests
    /\ \A first \in Time : first <= b.started /\ b.started < first + Window
                              => Size(g, first, b.started) < Limit

Bounded(b, g) ==
    /\ \A t \in Time : t > now => g[t] = 0
    /\ IF b.requests = 0 THEN \A t \in Time : g[t] = 0 ELSE Windowed(b, g)
    /\ \A first \in Time : Size(g, first, first + Window) < 2 * Limit

BoundedKeys == \A key \in Keys : Bounded(bucket[key], admitted[key])

LEMMA NoneBounded ==
    ASSUME now \in Time, NEW b, b.requests = 0, NEW g \in [Time -> Nat],
           \A t \in Time : g[t] = 0
    PROVE  Bounded(b, g)
<1> SUFFICES ASSUME NEW first \in Time PROVE Size(g, first, first + Window) < 2 * Limit
  BY DEF Bounded
<1>1. Size(g, first, first + Window) = 0
  BY SizeZero DEF Time
<1> QED
  BY <1>1

\* A request that opens a window.
LEMMA OpeningBounded ==
    ASSUME now \in Time, NEW b \in Bucket, NEW g \in [Time -> Nat], Bounded(b, g),
           b.requests = 0 \/ now >= b.started + Window,
           NEW c, c = [started |-> now, requests |-> 1],
           NEW h, h = [g EXCEPT ![now] = @ + 1]
    PROVE  Bounded(c, h)
<1>1. /\ now \in Nat /\ Window \in Nat /\ Limit \in Nat /\ Limit > 0 /\ End \in Nat
      /\ Window > 0 /\ Time \subseteq Nat
      /\ c.started = now /\ c.requests = 1
  BY DEF Time, End
<1>2. /\ h[now] = g[now] + 1 /\ g[now] \in Nat
      /\ \A t \in Time : t # now => h[t] = g[t]
  OBVIOUS
<1>3. \A t \in Time : t >= now => g[t] = 0
  BY <1>1 DEF Bounded, Windowed, Bucket
<1>4. \A t \in Time : t > now => h[t] = 0
  BY <1>1, <1>2, <1>3
<1>5. \A t \in Time : t >= now + Window => h[t] = 0
  BY <1>1, <1>4
<1>6. Size(h, now, End) <= 1
  <2>1. Size(g, now, End) = 0
    BY <1>1, <1>3, SizeZero
  <2>2. Size(h, now, End) <= Size(g, now, End) + 1
    BY <1>1, SizeIncrement
  <2> QED
    BY <2>1, <2>2
<1>7. ASSUME NEW first \in Time, now < first + Window, NEW to \in Nat
      PROVE  Size(g, first, to) < Limit
  <2>1. CASE b.requests = 0
    <3>1. Size(g, first, to) = 0
      BY <1>1, <2>1, SizeZero DEF Bounded
    <3> QED
      BY <1>1, <3>1
  <2>2. CASE b.requests # 0
    <3>1. b.started \in Time /\ b.requests \in Nat /\ b.requests <= Limit
      BY <2>2 DEF Bucket
    <3>2. now >= b.started + Window /\ now < first + Window
      BY <1>7, <2>2
    <3>6. b.started \in Nat /\ first \in Nat
      BY <1>1, <3>1
    <3>7. b.started < first
      BY <1>1, <3>2, <3>6
    <3>3. g[b.started] > 0 /\ Size(g, b.started, End) <= b.requests
      BY <2>2 DEF Bounded, Windowed
    <3>4. Size(g, first, to) < Size(g, b.started, End)
      BY <3>1, <3>3, <3>6, <3>7, SizeWithout
    <3>5. Size(g, first, to) \in Nat /\ Size(g, b.started, End) \in Nat
      BY InFinite
    <3> QED
      BY <1>1, <3>1, <3>3, <3>4, <3>5
  <2> QED
    BY <2>1, <2>2
<1>8. ASSUME NEW first \in Time, first <= now, now < first + Window
      PROVE  Size(h, first, now) < Limit
  <2>1. Size(h, first, now) <= Size(g, first, now)
    <3>1. first \in Nat /\ now <= now
      BY <1>1
    <3> QED
      BY <1>1, <3>1, SizeElsewhere
  <2>2. Size(h, first, now) \in Nat /\ Size(g, first, now) \in Nat
    BY InFinite
  <2>3. Size(g, first, now) < Limit
    BY <1>1, <1>7, <1>8
  <2> QED
    BY <1>1, <2>1, <2>2, <2>3
<1>9. ASSUME NEW first \in Time
      PROVE  Size(h, first, first + Window) < 2 * Limit
  <2> DEFINE to == first + Window
  <2>1. to \in Nat /\ first \in Nat
    BY <1>1
  <2>2. /\ Size(h, first, to) <= Size(g, first, to) + 1
        /\ to <= now => Size(h, first, to) <= Size(g, first, to)
    BY <2>1, SizeIncrement, SizeElsewhere
  <2>3. Size(h, first, to) \in Nat /\ Size(g, first, to) \in Nat
    BY InFinite
  <2>4. now < to => Size(g, first, to) < Limit
    BY <1>7, <2>1
  <2>5. Size(g, first, to) < 2 * Limit
    BY DEF Bounded
  <2> HIDE DEF to
  <2>6. Size(h, first, to) < 2 * Limit
    BY <1>1, <2>1, <2>2, <2>3, <2>4, <2>5
  <2> QED
    BY <2>6 DEF to
<1>10. Windowed(c, h)
  <2>1. c.started <= now /\ h[c.started] > 0
    BY <1>1, <1>2
  <2> QED
    BY <1>1, <1>5, <1>6, <1>8, <2>1 DEF Windowed
<1>11. c.requests # 0
  BY <1>1
<1> QED
  BY <1>4, <1>9, <1>10, <1>11 DEF Bounded

\* A request that is counted in the window that is open.
LEMMA CountingBounded ==
    ASSUME now \in Time, NEW b \in Bucket, NEW g \in [Time -> Nat], Bounded(b, g),
           b.requests # 0, now < b.started + Window, b.requests < Limit,
           NEW c, c.started = b.started, c.requests = b.requests + 1,
           NEW h, h = [g EXCEPT ![now] = @ + 1]
    PROVE  Bounded(c, h)
<1> DEFINE s == b.started
<1>1. /\ now \in Nat /\ Window \in Nat /\ Limit \in Nat /\ Limit > 0 /\ End \in Nat
      /\ Window > 0 /\ Time \subseteq Nat
      /\ s \in Time /\ s \in Nat /\ b.requests \in Nat /\ now < s + Window
  BY DEF Time, End, Bucket
<1>2. Windowed(b, g)
  BY DEF Bounded
<1> HIDE DEF s
<1>3. /\ s <= now /\ g[s] > 0 /\ Size(g, s, End) <= b.requests
      /\ \A t \in Time : t >= s + Window => g[t] = 0
      /\ \A first \in Time : first <= s /\ s < first + Window => Size(g, first, s) < Limit
  BY <1>2 DEF Windowed, s
<1>4. /\ h[now] = g[now] + 1 /\ g[now] \in Nat
      /\ \A t \in Time : t # now => h[t] = g[t]
  OBVIOUS
<1>5. \A t \in Time : t > now => h[t] = 0
  BY <1>1, <1>4 DEF Bounded
<1>6. \A t \in Time : t >= s + Window => h[t] = 0
  BY <1>1, <1>3, <1>4
<1>7. h[s] > 0
  BY <1>1, <1>3, <1>4
<1>8. Size(h, s, End) <= b.requests + 1
  <2>1. Size(h, s, End) <= Size(g, s, End) + 1
    BY <1>1, SizeIncrement
  <2>2. Size(h, s, End) \in Nat /\ Size(g, s, End) \in Nat
    BY InFinite
  <2> QED
    BY <1>1, <1>3, <2>1, <2>2
<1>9. ASSUME NEW first \in Time, first <= s, s < first + Window
      PROVE  Size(h, first, s) < Limit
  <2>1. Size(h, first, s) <= Size(g, first, s)
    <3>1. first \in Nat
      BY <1>1
    <3> QED
      BY <1>1, <1>3, <3>1, SizeElsewhere
  <2>2. Size(h, first, s) \in Nat /\ Size(g, first, s) \in Nat
    BY InFinite
  <2>3. Size(g, first, s) < Limit
    BY <1>3, <1>9
  <2> QED
    BY <1>1, <2>1, <2>2, <2>3
<1>10. ASSUME NEW first \in Time
       PROVE  Size(h, first, first + Window) < 2 * Limit
  <2> DEFINE to == first + Window
  <2>1. to \in Nat /\ first \in Nat
    BY <1>1
  <2>2. \A x, y : Size(h, x, y) \in Nat /\ Size(g, x, y) \in Nat
    BY InFinite
  <2>3. Size(g, first, to) < 2 * Limit
    BY DEF Bounded
  <2>4. CASE to <= now
    <3>1. Size(h, first, to) <= Size(g, first, to)
      BY <2>1, <2>4, SizeElsewhere
    <3> QED
      <4>1. Size(h, first, to) \in Nat /\ Size(g, first, to) \in Nat
        BY <2>2
      <4> HIDE DEF to
      <4>2. Size(h, first, to) < 2 * Limit
        BY <1>1, <2>3, <3>1, <4>1
      <4> QED
        BY <4>2 DEF to
  <2>5. CASE first <= s /\ now < to
    <3>1. Size(h, first, to) <= Size(h, first, s) + Size(h, s, to)
      BY <1>1, <2>1, SizeSplit
    <3>2. Size(h, s, to) <= Size(h, s, End)
      BY <1>1, <2>1, SizeWithin
    <3>3. s < to
      BY <1>1, <1>3, <2>1, <2>5
    <3>4. Size(h, first, s) < Limit
      BY <1>9, <2>5, <3>3
    <3> HIDE DEF to
    <3>6. /\ Size(h, first, to) \in Nat /\ Size(h, first, s) \in Nat
          /\ Size(h, s, to) \in Nat /\ Size(h, s, End) \in Nat
      BY <2>2
    <3>7. Size(h, s, End) <= Limit
      BY <1>1, <1>8, <3>6
    <3>5. Size(h, first, to) < 2 * Limit
      BY <1>1, <3>1, <3>2, <3>4, <3>6, <3>7
    <3> QED
      BY <3>5 DEF to
  <2>6. CASE s < first
    <3>1. Size(h, first, to) <= Size(h, s, End)
      BY <1>1, <2>1, <2>6, SizeWithin
    <3> HIDE DEF to
    <3>3. Size(h, first, to) \in Nat /\ Size(h, s, End) \in Nat
      BY <2>2
    <3>4. Size(h, s, End) <= Limit
      BY <1>1, <1>8, <3>3
    <3>2. Size(h, first, to) < 2 * Limit
      BY <1>1, <3>1, <3>3, <3>4
    <3> QED
      BY <3>2 DEF to
  <2> HIDE DEF to
  <2>7. /\ first <= s \/ s < first
        /\ to <= now \/ now < to
    BY <1>1, <2>1
  <2> QED
    BY <2>4, <2>5, <2>6, <2>7
<1>11. Windowed(c, h)
  BY <1>3, <1>6, <1>7, <1>8, <1>9 DEF Windowed, s
<1>12. c.requests # 0
  BY <1>1
<1> QED
  BY <1>5, <1>10, <1>11, <1>12 DEF Bounded

LEMMA AdmitBounded ==
    ASSUME AccountsTypeOK, BoundedKeys, NEW key \in Keys, Admit(key), UNCHANGED now
    PROVE  BoundedKeys'
<1> SUFFICES ASSUME NEW k \in Keys PROVE Bounded(bucket[k], admitted[k])'
  BY DEF BoundedKeys
<1>1. /\ bucket[k] \in Bucket /\ admitted[k] \in [Time -> Nat] /\ now \in Time
      /\ now' = now /\ Bounded(bucket[k], admitted[k])
  BY DEF AccountsTypeOK, BoundedKeys
<1>2. ASSUME Bounded(bucket'[k], admitted'[k])
      PROVE  Bounded(bucket[k], admitted[k])'
  BY <1>1, <1>2 DEF Bounded, Windowed
<1>3. CASE k # key \/ ~Allowed(key)
  <2>1. bucket'[k] = bucket[k] /\ admitted'[k] = admitted[k]
    BY <1>1, <1>3 DEF Admit, AccountsTypeOK, Counted, Allowed
  <2> QED
    BY <1>1, <1>2, <2>1
<1>4. CASE k = key /\ WindowOver(k)
  <2>1. /\ bucket'[k] = [started |-> now, requests |-> 1]
        /\ admitted'[k] = [admitted[k] EXCEPT ![now] = @ + 1]
    BY <1>4 DEF Admit, AccountsTypeOK, Counted, Allowed
  <2> QED
    BY <1>1, <1>2, <1>4, <2>1, OpeningBounded DEF WindowOver
<1>5. CASE k = key /\ ~WindowOver(k) /\ Allowed(k)
  <2>1. /\ bucket'[k] = [bucket[k] EXCEPT !.requests = @ + 1]
        /\ admitted'[k] = [admitted[k] EXCEPT ![now] = @ + 1]
    BY <1>5 DEF Admit, AccountsTypeOK, Counted
  <2>2. /\ bucket'[k].started = bucket[k].started
        /\ bucket'[k].requests = bucket[k].requests + 1
    BY <1>1, <2>1 DEF Bucket
  <2>3. /\ bucket[k].requests # 0 /\ bucket[k].requests < Limit
        /\ now < bucket[k].started + Window
    BY <1>1, <1>5 DEF WindowOver, Allowed, Bucket, Time
  <2> QED
    BY <1>1, <1>2, <2>1, <2>2, <2>3, CountingBounded
<1> QED
  BY <1>3, <1>4, <1>5

LEMMA StepBounded ==
    ASSUME AccountsTypeOK, AccountsTypeOK', BoundedKeys, AccountNext
    PROVE  BoundedKeys'
<1>1. ASSUME NEW c \in Clients, Sent(c)  PROVE BoundedKeys'
  BY <1>1, AdmitBounded DEF Sent, Send, Keys
<1>2. ASSUME NEW c \in Clients, Serve(c)  PROVE BoundedKeys'
  <2>1. UNCHANGED <<now, bucket, admitted>>
    BY <1>2 DEF Serve, Login, LockBootstrap, CheckAdmin, InsertUser, CommitUser, Abandon
  <2> QED
    BY <2>1 DEF BoundedKeys, Bounded, Windowed
<1>3. CASE Restart
  <2>1. /\ now' = now /\ now \in Time
        /\ \A key \in Keys : bucket'[key] = [started |-> 0, requests |-> 0]
                             /\ admitted'[key] = [t \in Time |-> 0]
    BY <1>3 DEF Restart, EmptyMap, NoneAdmitted, AccountsTypeOK
  <2>2. \A key \in Keys : Bounded(bucket'[key], admitted'[key])
    BY <2>1, NoneBounded
  <2> QED
    BY <2>1, <2>2 DEF BoundedKeys, Bounded, Windowed
<1>4. CASE Tick
  <2>1. UNCHANGED <<bucket, admitted>> /\ now' = now + 1
    BY <1>4 DEF Tick
  <2>2. now \in Nat /\ Time \subseteq Nat
    BY DEF AccountsTypeOK, Time
  <2>3. \A key \in Keys : bucket[key].started \in Nat
    BY <2>2 DEF AccountsTypeOK, Bucket
  <2> QED
    BY <2>1, <2>2, <2>3 DEF BoundedKeys, Bounded, Windowed
<1> QED
  BY <1>1, <1>2, <1>3, <1>4 DEF AccountNext

\* In no stretch of time as long as the window are 2 * Limit requests of one
\* client let through to one route, for any limit and any window.
THEOREM AdmissionsAlwaysBounded == SeedingSpec => []AdmissionBound
<1>1. SeedingInit => BoundedKeys
  <2> SUFFICES ASSUME SeedingInit, NEW key \in Keys
               PROVE  Bounded(bucket[key], admitted[key])
    BY DEF BoundedKeys
  <2>1. /\ bucket[key] = [started |-> 0, requests |-> 0] /\ now \in Time
        /\ admitted[key] = [t \in Time |-> 0]
    BY DEF SeedingInit, AccountsInit, EmptyMap, NoneAdmitted, Time
  <2> QED
    BY <2>1, NoneBounded
<1>2. AccountsTypeOK /\ AccountsTypeOK' /\ BoundedKeys /\ [SeedingNext]_seedingVars
        => BoundedKeys'
  <2> SUFFICES ASSUME AccountsTypeOK, AccountsTypeOK', BoundedKeys,
                      [SeedingNext]_seedingVars
               PROVE  BoundedKeys'
    OBVIOUS
  <2>1. CASE UNCHANGED accountVars
    BY <2>1 DEF accountVars, BoundedKeys, Bounded, Windowed
  <2> QED
    BY <2>1, StepKinds, StepBounded DEF seedingVars
<1>3. BoundedKeys => AdmissionBound
  BY DEF BoundedKeys, Bounded, Size, In, AdmissionBound, AdmittedFrom
<1> QED
  BY <1>1, <1>2, <1>3, AccountsTypeCorrect, PTL DEF SeedingSpec
=============================================================================
