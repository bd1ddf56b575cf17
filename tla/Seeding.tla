------------------------------- MODULE Seeding -------------------------------
(***************************************************************************)
(* The seed command, internal/seed/seed.go: it makes itself administrator, *)
(* or logs in as one, loads what it lacks about the movies, and creates    *)
(* the cinemas, studios and movies that are missing, all over HTTP, while  *)
(* other clients register.  Requests fail, and so does the source of movie *)
(* data; a request that was given up may still have its effect, then or    *)
(* later.  Whoever starts the command starts it again when it has failed.  *)
(***************************************************************************)
EXTENDS MoviePages

CONSTANTS
    Runners,            \* clients that run the seed command
    AdminEmail, AdminPassword,
    Wanted,             \* pairs of a cinema's name and a studio's name
    CinemaIds,
    MaxStarts           \* bound: how many runs there are

WantedCinemas == {pair[1] : pair \in Wanted}
StudioNames == {pair[2] : pair \in Wanted}

ASSUME SeedingAssumption ==
    /\ Runners \subseteq Clients
    /\ AdminEmail \in Emails /\ AdminPassword \in Passwords \ {ShortPassword}
    /\ Wanted \subseteq WantedCinemas \X StudioNames
    /\ MaxStarts \in Nat

VARIABLES
    cinemas, studios,   \* the committed rows
    runner,             \* the run of each runner
    starts,             \* how many runs there have been
    late,               \* writes that nobody waits for any more
    overlapped          \* history: a run began before an earlier one was over

catalogueVars == <<cinemas, studios, runner, starts, late, overlapped>>
seedingVars == <<accountVars, pageVars, catalogueVars>>

CinemaRow == [id : CinemaIds, name : WantedCinemas]
StudioRow == [cinema : CinemaIds, name : StudioNames]
Write == ({"cinema"} \X CinemaRow) \cup ({"studio"} \X StudioRow)
         \cup ({"movie"} \X MovieRow)

Steps == {"bootstrap", "bootstrapping", "login", "logging in", "movies",
          "omdb", "cinemas", "studios", "create", "titles"}
Run == [step : Steps \cup {"off", "done", "failed"},
        cinemas : SUBSET CinemaRow, studios : SUBSET StudioRow,
        missing : SUBSET Titles, sent : SUBSET Write]

SeedingTypeOK ==
    /\ AccountsTypeOK
    /\ MoviePagesTypeOK
    /\ cinemas \subseteq CinemaRow
    /\ studios \subseteq StudioRow
    /\ runner \in [Runners -> Run]
    /\ starts \in 0 .. MaxStarts
    /\ late \subseteq Write
    /\ overlapped \in BOOLEAN

SeedingInit ==
    /\ AccountsInit
    /\ MoviePagesInit
    /\ cinemas = {} /\ studios = {}
    /\ runner = [r \in Runners |->
                    [step |-> "off", cinemas |-> {}, studios |-> {},
                     missing |-> {}, sent |-> {}]]
    /\ starts = 0
    /\ late = {}
    /\ overlapped = FALSE
----------------------------------------------------------------------------
(* A run, request by request.                                              *)

At(r, step) == runner[r].step = step /\ runner[r].sent = {}
Goes(r, step) == runner' = [runner EXCEPT ![r].step = step]
Fails(r) == runner' = [runner EXCEPT ![r] = [@ EXCEPT !.step = "failed", !.sent = {}]]
Running(r) == runner[r].step \in Steps
TablesUnchanged == UNCHANGED <<pageVars, cinemas, studios, starts, late, overlapped>>

Start(r) ==
    /\ r \in cast
    /\ ~Running(r)
    /\ starts < MaxStarts
    /\ request[r].phase = "idle"
    /\ starts' = starts + 1
    /\ runner' = [runner EXCEPT ![r] =
                     [step |-> "bootstrap", cinemas |-> {}, studios |-> {},
                      missing |-> {}, sent |-> {}]]
    /\ overlapped' = (overlapped \/ late # {} \/ \E q \in Runners : Running(q))
    /\ UNCHANGED <<accountVars, pageVars, cinemas, studios, late>>

\* The requests of bootstrapAdmin and login.
AsksAccounts(r, from, route, to) ==
    /\ At(r, from)
    /\ Send(r, route, AdminEmail, AdminPassword, TRUE)
    /\ Goes(r, to)
    /\ TablesUnchanged

\* A conflict is as good as a creation: the administrator exists, or the
\* email does, whatever its role.
Bootstrapped(r) ==
    /\ At(r, "bootstrapping")
    /\ request[r].phase = "idle"
    /\ IF request[r].answer \in {201, 409} THEN Goes(r, "login") ELSE Fails(r)
    /\ UNCHANGED accountVars /\ TablesUnchanged

LoggedIn(r) ==
    /\ At(r, "logging in")
    /\ request[r].phase = "idle"
    /\ IF request[r].answer = 200 /\ token[r].role = "ADMIN"
       THEN Goes(r, "movies") ELSE Fails(r)
    /\ UNCHANGED accountVars /\ TablesUnchanged

MayAdminister(r) == RoleAnswer(r, "ADMIN") = 0

\* The lists, as committed when they are read.
ListMovies(r) ==
    /\ At(r, "movies")
    /\ MayAdminister(r)
    /\ runner' = [runner EXCEPT ![r] = [@ EXCEPT
                     !.step = "omdb",
                     !.missing = Titles \ {m.title : m \in movies}]]
    /\ UNCHANGED accountVars /\ TablesUnchanged

\* Every missing movie is fetched, or the run fails; a movie comes with the
\* title it was asked for.
FetchMovies(r) ==
    /\ At(r, "omdb")
    /\ Goes(r, "cinemas")
    /\ UNCHANGED accountVars /\ TablesUnchanged

\* findCinema takes the first of several cinemas with a name.
ListCinemas(r) ==
    /\ At(r, "cinemas")
    /\ MayAdminister(r)
    /\ \E found \in SUBSET cinemas :
          /\ {row.name : row \in found} = {row.name : row \in cinemas}
          /\ \A a, b \in found : a.name = b.name => a = b
          /\ runner' = [runner EXCEPT ![r] =
                           [@ EXCEPT !.step = "studios", !.cinemas = found]]
    /\ UNCHANGED accountVars /\ TablesUnchanged

ListStudios(r) ==
    /\ At(r, "studios")
    /\ MayAdminister(r)
    /\ runner' = [runner EXCEPT ![r] =
                     [@ EXCEPT !.step = "create", !.studios = studios]]
    /\ UNCHANGED accountVars /\ TablesUnchanged

\* The cinemas and studios the run has neither found nor created.
LackedCinemas(r) ==
    {name \in WantedCinemas : \A known \in runner[r].cinemas : known.name # name}

\* Fault: a studio of that name in any cinema will do.
LackedAnywhere(r) ==
    {s \in StudioRow :
        /\ \A known \in runner[r].studios : known.name # s.name
        /\ \E known \in runner[r].cinemas :
              known.id = s.cinema /\ <<known.name, s.name>> \in Wanted}

LackedStudios(r) ==
    {s \in StudioRow \ runner[r].studios :
        \E known \in runner[r].cinemas :
            known.id = s.cinema /\ <<known.name, s.name>> \in Wanted}

FreeCinemaId(id) ==
    /\ \A row \in cinemas : row.id # id
    /\ \A w \in late \cup UNION {runner[q].sent : q \in Runners} :
          w[1] = "cinema" => w[2].id # id

\* The next missing row (in any order) is sent; the server begins its
\* transaction.
SendRow(r) ==
    /\ At(r, "create")
    /\ MayAdminister(r)
    /\ \/ \E name \in LackedCinemas(r), id \in CinemaIds :
             /\ FreeCinemaId(id)
             /\ runner' = [runner EXCEPT
                   ![r].sent = {<<"cinema", [id |-> id, name |-> name]>>}]
       \/ \E s \in LackedStudios(r) :
             runner' = [runner EXCEPT ![r].sent = {<<"studio", s>>}]
    /\ UNCHANGED <<accountVars, pageVars, cinemas, studios, starts, late, overlapped>>

RowsDone(r) ==
    /\ At(r, "create")
    /\ LackedCinemas(r) = {} /\ LackedStudios(r) = {}
    /\ Goes(r, "titles")
    /\ UNCHANGED accountVars /\ TablesUnchanged

SendMovie(r) ==
    /\ At(r, "titles")
    /\ MayAdminister(r)
    /\ \E id \in MovieIds, title \in runner[r].missing :
          LET row == [id |-> id, created |-> now, title |-> title] IN
          /\ BeginMovie(row)
          /\ runner' = [runner EXCEPT ![r].sent = {<<"movie", row>>}]
    /\ UNCHANGED <<accountVars, movies, reader, cinemas, studios, starts, late, overlapped>>

MoviesDone(r) ==
    /\ At(r, "titles")
    /\ runner[r].missing = {}
    /\ Goes(r, "done")
    /\ UNCHANGED accountVars /\ TablesUnchanged

\* The transaction of a write commits.
Commits(w) ==
    /\ CASE w[1] = "cinema" -> cinemas' = cinemas \cup {w[2]}
                               /\ UNCHANGED <<studios, movies, inserting>>
         [] w[1] = "studio" -> studios' = studios \cup {w[2]}
                               /\ UNCHANGED <<cinemas, movies, inserting>>
         [] w[1] = "movie" -> CommitMovie(w[2]) /\ UNCHANGED <<cinemas, studios>>
    /\ UNCHANGED reader

\* UNIQUE (cinema_id, name).
Violates(w) == w[1] = "studio" /\ w[2] \in studios

\* The row of a write of one kind.
RowOf(w, kind) == IF w[1] = kind THEN {w[2]} ELSE {}

\* Fault: a row that was created is not added to the list.
WrittenUnlisted(r) ==
    /\ \E w \in runner[r].sent :
          /\ ~Violates(w)
          /\ Commits(w)
          /\ runner' = [runner EXCEPT ![r] = [@ EXCEPT
                !.sent = {},
                !.missing = runner[r].missing \ {m.title : m \in RowOf(w, "movie")}]]
    /\ UNCHANGED <<accountVars, starts, late, overlapped>>

Written(r) ==
    /\ \E w \in runner[r].sent :
          /\ ~Violates(w)
          /\ Commits(w)
          /\ runner' = [runner EXCEPT ![r] = [@ EXCEPT
                !.sent = {},
                !.cinemas = runner[r].cinemas \cup RowOf(w, "cinema"),
                !.studios = runner[r].studios \cup RowOf(w, "studio"),
                !.missing = runner[r].missing \ {m.title : m \in RowOf(w, "movie")}]]
    /\ UNCHANGED <<accountVars, starts, late, overlapped>>

\* An error answer, a timeout of the client, an interrupt, a failing movie
\* source: the run is over.  What it has sent may be lost, or still commit.
RunFails(r) ==
    /\ Running(r)
    /\ Fails(r)
    /\ late' \in {late, late \cup runner[r].sent}
    /\ inserting' = IF late' = late
                    THEN {m \in inserting : <<"movie", m>> \notin runner[r].sent}
                    ELSE inserting
    /\ UNCHANGED <<accountVars, movies, reader, cinemas, studios, starts, overlapped>>

LateWrite ==
    \E w \in late :
        /\ late' = late \ {w}
        /\ IF Violates(w) THEN UNCHANGED <<pageVars, cinemas, studios>>
           ELSE Commits(w)
        /\ UNCHANGED <<accountVars, runner, starts, overlapped>>

RunStep(r) ==
    \/ Start(r)
    \/ AsksAccounts(r, "bootstrap", "bootstrap-admin", "bootstrapping")
    \/ Bootstrapped(r)
    \/ AsksAccounts(r, "login", "login", "logging in")
    \/ LoggedIn(r)
    \/ ListMovies(r) \/ FetchMovies(r) \/ ListCinemas(r) \/ ListStudios(r)
    \/ SendRow(r) \/ RowsDone(r) \/ SendMovie(r) \/ MoviesDone(r)
    \/ Written(r) \/ RunFails(r)
----------------------------------------------------------------------------
\* A client that is no runner sends what it likes to the routes of the cast.
Visit(c) ==
    /\ c \in cast \ Runners
    /\ \E route \in Routes \cap cast, e \in Emails, p \in Passwords, known \in BOOLEAN :
          Send(c, route, e, p, known)

\* Everybody may have stopped.
Over ==
    /\ \A c \in Clients : request[c].phase = "idle"
    /\ \A r \in Runners : ~Running(r)
    /\ late = {}
    /\ UNCHANGED seedingVars

SeedingNext ==
    \/ /\ \/ \E c \in Clients : Visit(c) \/ Serve(c)
          \/ Restart \/ Tick
       /\ UNCHANGED <<pageVars, catalogueVars>>
    \/ (EditorAdds \/ EditorRemoves \/ ReadPage)
       /\ UNCHANGED <<accountVars, catalogueVars>>
    \/ \E r \in Runners : RunStep(r)
    \/ LateWrite
    \/ Over

SeedingSpec == SeedingInit /\ [][SeedingNext]_seedingVars
----------------------------------------------------------------------------
(* What the command promises.                                              *)

\* A run that ends well, where nobody removes rows, leaves every cinema with
\* its studios, and every movie.
SeedComplete ==
    \A r \in Runners : runner[r].step = "done" /\ "editor" \notin cast =>
        /\ \A pair \in Wanted : \E c \in cinemas :
              /\ c.name = pair[1]
              /\ [cinema |-> c.id, name |-> pair[2]] \in studios
        /\ Titles \subseteq {m.title : m \in movies}

\* The command can be started again, after success or failure, and adds
\* nothing twice, unless runs overlapped or a request of a failed run was
\* still under way.
NothingTwice ==
    ~overlapped =>
        /\ \A a, b \in cinemas : a.name = b.name => a = b
        /\ \A a, b \in movies : a.title = b.title /\ a.title \in Titles
                                  => a = b \/ {a, b} \subseteq FirstMovies
=============================================================================
