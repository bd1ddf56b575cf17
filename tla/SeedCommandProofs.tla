-------------------------- MODULE SeedCommandProofs --------------------------
(***************************************************************************)
(* Theorems about the seed command, for any number of runners and of other *)
(* clients, any cinemas, studios and titles, any number of runs, with      *)
(* failures, late writes and editors.  The invariants say what a run knows *)
(* about the tables, and what the writes that are under way will do.       *)
(***************************************************************************)
EXTENDS SeedingProofs

USE AccountsAssumption, MoviePagesAssumption, SeedingAssumption

----------------------------------------------------------------------------
(* Types.                                                                  *)

LEMMA WriteKinds ==
    ASSUME NEW w \in Write
    PROVE  /\ w[1] \in {"cinema", "studio", "movie"}
           /\ w[1] = "cinema" => w[2] \in CinemaRow
           /\ w[1] = "studio" => w[2] \in StudioRow
           /\ w[1] = "movie" => w[2] \in MovieRow
BY DEF Write

\* What the commit of a write does to the tables.
LEMMA CommitEffect ==
    ASSUME NEW w \in Write, Commits(w)
    PROVE  /\ cinemas' = IF w[1] = "cinema" THEN cinemas \cup {w[2]} ELSE cinemas
           /\ studios' = IF w[1] = "studio" THEN studios \cup {w[2]} ELSE studios
           /\ movies' = IF w[1] = "movie" THEN movies \cup {w[2]} ELSE movies
           /\ inserting' = IF w[1] = "movie" THEN inserting \ {w[2]} ELSE inserting
           /\ w[1] = "movie" => w[2] \in inserting
           /\ reader' = reader
<1>1. CASE w[1] = "cinema"
  BY <1>1 DEF Commits
<1>2. CASE w[1] = "studio"
  BY <1>2 DEF Commits
<1>3. CASE w[1] = "movie"
  BY <1>3 DEF Commits, CommitMovie
<1> QED
  BY <1>1, <1>2, <1>3, WriteKinds

LEMMA CommitType ==
    ASSUME SeedingTypeOK, NEW w \in Write, Commits(w)
    PROVE  /\ cinemas' \subseteq CinemaRow
           /\ studios' \subseteq StudioRow
           /\ MoviePagesTypeOK'
<1>1. /\ cinemas \subseteq CinemaRow /\ studios \subseteq StudioRow
      /\ movies \subseteq MovieRow /\ inserting \subseteq MovieRow /\ reader \in Reader
  BY DEF SeedingTypeOK, MoviePagesTypeOK
<1>2. cinemas' \subseteq CinemaRow
  BY <1>1, CommitEffect, WriteKinds
<1>3. studios' \subseteq StudioRow
  BY <1>1, CommitEffect, WriteKinds
<1>4. movies' \subseteq MovieRow /\ inserting' \subseteq MovieRow /\ reader' \in Reader
  BY <1>1, CommitEffect, WriteKinds
<1> QED
  BY <1>2, <1>3, <1>4 DEF MoviePagesTypeOK

LEMMA PagesType ==
    ASSUME SeedingTypeOK, EditorAdds \/ EditorRemoves \/ ReadPage
    PROVE  MoviePagesTypeOK'
<1>1. /\ movies \subseteq MovieRow /\ inserting \subseteq MovieRow /\ reader \in Reader
      /\ now \in Time
  BY DEF SeedingTypeOK, MoviePagesTypeOK, AccountsTypeOK
<1>2. CASE EditorAdds
  <2>1. ASSUME NEW id \in MovieIds
        PROVE  [id |-> id, created |-> now, title |-> OtherTitle] \in MovieRow
    BY <1>1 DEF MovieRow
  <2>2. movies' \subseteq MovieRow /\ inserting' \subseteq MovieRow /\ reader' = reader
    BY <1>1, <1>2, <2>1 DEF EditorAdds, BeginMovie, CommitMovie
  <2> QED
    BY <1>1, <2>2 DEF MoviePagesTypeOK
<1>3. CASE EditorRemoves
  <2>1. movies' \subseteq MovieRow /\ inserting' = inserting
    BY <1>1, <1>3 DEF EditorRemoves
  <2>2. PICK row \in movies : reader' = [reader EXCEPT !.base = @ \ {row}]
    BY <1>3 DEF EditorRemoves
  <2>3. reader' \in Reader
    BY <1>1, <2>2 DEF Reader
  <2> QED
    BY <1>1, <2>1, <2>3 DEF MoviePagesTypeOK
<1>4. CASE ReadPage
  <2>1. movies' = movies /\ inserting' = inserting
    BY <1>4 DEF ReadPage
  <2>2. Page \subseteq movies /\ NextCursor \subseteq movies
    BY DEF Page, Queried, FirstOf, FromCursor, NextCursor, LastOf
  <2>3. /\ reader.base \subseteq MovieRow /\ reader.seen \subseteq MovieRow
    BY <1>1 DEF Reader
  <2>4. PICK mode \in {"done", "reading"}, last \in SUBSET MovieRow,
             base \in SUBSET MovieRow, seen \in SUBSET MovieRow, again \in BOOLEAN :
          reader' = [mode |-> mode, last |-> last, base |-> base, seen |-> seen,
                     again |-> again]
    <3> DEFINE mode == IF Cardinality(Queried) <= PageSize THEN "done" ELSE "reading"
               base == IF reader.mode = "off" THEN movies ELSE reader.base
               again == reader.again \/ reader.seen \cap Page # {}
    <3>1. reader' = [mode |-> mode, last |-> NextCursor, base |-> base,
                     seen |-> reader.seen \cup Page, again |-> again]
      BY <1>4 DEF ReadPage
    <3>2. mode \in {"done", "reading"} /\ base \in SUBSET MovieRow
      BY <1>1, <2>3
    <3>3. again \in BOOLEAN
      BY <1>1 DEF Reader
    <3>4. NextCursor \in SUBSET MovieRow /\ reader.seen \cup Page \in SUBSET MovieRow
      BY <1>1, <2>2, <2>3
    <3> HIDE DEF mode, base, again
    <3> QED
      BY <3>1, <3>2, <3>3, <3>4
  <2>5. reader' \in Reader
    BY <2>4 DEF Reader
  <2> QED
    BY <1>1, <2>1, <2>5 DEF MoviePagesTypeOK
<1> QED
  BY <1>2, <1>3, <1>4

\* A run that goes on, or fails, keeps what it knows.
LEMMA GoesType ==
    ASSUME runner \in [Runners -> Run], NEW r \in Runners
    PROVE  /\ \A step \in Steps \cup {"off", "done", "failed"} :
                 Goes(r, step) => runner' \in [Runners -> Run]
           /\ Fails(r) => runner' \in [Runners -> Run]
<1>1. runner[r] \in Run
  OBVIOUS
<1>2. ASSUME NEW step \in Steps \cup {"off", "done", "failed"}, Goes(r, step)
      PROVE  runner' \in [Runners -> Run]
  BY <1>1, <1>2 DEF Goes, Run
<1>3. ASSUME Fails(r)
      PROVE  runner' \in [Runners -> Run]
  BY <1>1, <1>3 DEF Fails, Run
<1> QED
  BY <1>2, <1>3

LEMMA RunnerType ==
    ASSUME SeedingTypeOK, NEW r \in Runners, RunStep(r)
    PROVE  runner' \in [Runners -> Run]
<1>1. /\ runner \in [Runners -> Run] /\ runner[r] \in Run
      /\ cinemas \subseteq CinemaRow /\ studios \subseteq StudioRow
      /\ movies \subseteq MovieRow /\ now \in Time
  BY DEF SeedingTypeOK, MoviePagesTypeOK, AccountsTypeOK
<1>2. CASE Start(r)
  <2>1. [step |-> "bootstrap", cinemas |-> {}, studios |-> {}, missing |-> {},
         sent |-> {}] \in Run
    BY DEF Run, Steps
  <2> QED
    BY <1>1, <1>2, <2>1 DEF Start
<1>3. CASE \/ AsksAccounts(r, "bootstrap", "bootstrap-admin", "bootstrapping")
           \/ AsksAccounts(r, "login", "login", "logging in")
  BY <1>1, <1>3, GoesType DEF AsksAccounts, Steps
<1>4. CASE Bootstrapped(r) \/ LoggedIn(r)
  <2>1. Goes(r, "login") \/ Goes(r, "movies") \/ Fails(r)
    BY <1>4 DEF Bootstrapped, LoggedIn
  <2> QED
    BY <1>1, <2>1, GoesType DEF Steps
<1>5. CASE FetchMovies(r) \/ RowsDone(r) \/ MoviesDone(r) \/ RunFails(r)
  BY <1>1, <1>5, GoesType DEF FetchMovies, RowsDone, MoviesDone, RunFails, Steps
<1>6. CASE ListMovies(r)
  <2>1. Titles \ {m.title : m \in movies} \in SUBSET Titles
    OBVIOUS
  <2> QED
    BY <1>1, <1>6, <2>1 DEF ListMovies, Run, Steps
<1>7. CASE ListCinemas(r)
  <2>1. PICK found \in SUBSET cinemas :
          runner' = [runner EXCEPT ![r] = [@ EXCEPT !.step = "studios", !.cinemas = found]]
    BY <1>7 DEF ListCinemas
  <2>2. found \in SUBSET CinemaRow
    BY <1>1
  <2> QED
    BY <1>1, <2>1, <2>2 DEF Run, Steps
<1>8. CASE ListStudios(r)
  BY <1>1, <1>8 DEF ListStudios, Run, Steps
<1>9. CASE SendRow(r)
  <2>1. ASSUME NEW name \in LackedCinemas(r), NEW id \in CinemaIds
        PROVE  {<<"cinema", [id |-> id, name |-> name]>>} \in SUBSET Write
    BY DEF LackedCinemas, CinemaRow, Write
  <2>2. ASSUME NEW s \in LackedStudios(r)
        PROVE  {<<"studio", s>>} \in SUBSET Write
    BY DEF LackedStudios, Write
  <2>3. PICK sent \in SUBSET Write : runner' = [runner EXCEPT ![r].sent = sent]
    BY <1>9, <2>1, <2>2 DEF SendRow
  <2> QED
    BY <1>1, <2>3 DEF Run
<1>10. CASE SendMovie(r)
  <2>1. ASSUME NEW id \in MovieIds, NEW title \in runner[r].missing
        PROVE  {<<"movie", [id |-> id, created |-> now, title |-> title]>>} \in SUBSET Write
    <3>1. title \in Titles
      BY <1>1 DEF Run
    <3>2. [id |-> id, created |-> now, title |-> title] \in MovieRow
      BY <1>1, <3>1 DEF MovieRow
    <3> QED
      BY <3>2 DEF Write
  <2>2. PICK sent \in SUBSET Write : runner' = [runner EXCEPT ![r].sent = sent]
    BY <1>10, <2>1 DEF SendMovie
  <2> QED
    BY <1>1, <2>2 DEF Run
<1>11. CASE Written(r)
  <2>1. PICK w \in runner[r].sent :
          runner' = [runner EXCEPT ![r] = [@ EXCEPT
                !.sent = {},
                !.cinemas = runner[r].cinemas \cup RowOf(w, "cinema"),
                !.studios = runner[r].studios \cup RowOf(w, "studio"),
                !.missing = runner[r].missing \ {m.title : m \in RowOf(w, "movie")}]]
    BY <1>11 DEF Written
  <2>2. w \in Write
    BY <1>1 DEF Run
  <2>3. RowOf(w, "cinema") \subseteq CinemaRow /\ RowOf(w, "studio") \subseteq StudioRow
    BY <2>2, WriteKinds DEF RowOf
  <2> QED
    BY <1>1, <2>1, <2>3 DEF Run
<1> QED
  BY <1>2, <1>3, <1>4, <1>5, <1>6, <1>7, <1>8, <1>9, <1>10, <1>11 DEF RunStep

LEMMA TablesType ==
    ASSUME SeedingTypeOK, NEW r \in Runners, RunStep(r)
    PROVE  /\ MoviePagesTypeOK'
           /\ cinemas' \subseteq CinemaRow /\ studios' \subseteq StudioRow
           /\ starts' \in 0 .. MaxStarts /\ late' \subseteq Write
           /\ overlapped' \in BOOLEAN
<1>1. /\ MoviePagesTypeOK /\ now \in Time /\ runner[r] \in Run
      /\ cinemas \subseteq CinemaRow /\ studios \subseteq StudioRow
      /\ starts \in 0 .. MaxStarts /\ late \subseteq Write /\ overlapped \in BOOLEAN
  BY DEF SeedingTypeOK, AccountsTypeOK
<1>2. CASE UNCHANGED <<pageVars, cinemas, studios, starts, late, overlapped>>
  BY <1>1, <1>2 DEF pageVars, MoviePagesTypeOK
<1>3. CASE Start(r)
  <2>1. UNCHANGED <<pageVars, cinemas, studios, late>> /\ starts' = starts + 1
        /\ starts < MaxStarts
    BY <1>3 DEF Start
  <2>2. overlapped' \in BOOLEAN
    BY <1>3 DEF Start
  <2> QED
    <3>1. starts' \in 0 .. MaxStarts
      BY <1>1, <2>1
    <3>2. MoviePagesTypeOK'
      BY <1>1, <2>1 DEF pageVars, MoviePagesTypeOK
    <3> QED
      BY <1>1, <2>1, <2>2, <3>1, <3>2
<1>4. CASE SendMovie(r)
  <2>1. PICK id \in MovieIds, title \in runner[r].missing :
          inserting' = inserting \cup {[id |-> id, created |-> now, title |-> title]}
    BY <1>4 DEF SendMovie, BeginMovie
  <2>2. title \in Titles
    BY <1>1 DEF Run
  <2>3. [id |-> id, created |-> now, title |-> title] \in MovieRow
    BY <1>1, <2>2 DEF MovieRow
  <2> QED
    BY <1>1, <1>4, <2>1, <2>3 DEF SendMovie, MoviePagesTypeOK
<1>5. CASE Written(r)
  <2>1. PICK w \in runner[r].sent : Commits(w)
    BY <1>5 DEF Written
  <2>2. w \in Write
    BY <1>1 DEF Run
  <2> QED
    BY <1>1, <1>5, <2>1, <2>2, CommitType DEF Written
<1>6. CASE RunFails(r)
  <2>1. UNCHANGED <<movies, reader, cinemas, studios, starts, overlapped>>
        /\ inserting' \subseteq inserting
    BY <1>6 DEF RunFails
  <2>2. late' \subseteq Write
    BY <1>1, <1>6 DEF RunFails, Run
  <2> QED
    BY <1>1, <2>1, <2>2 DEF MoviePagesTypeOK
<1>7. CASE \/ AsksAccounts(r, "bootstrap", "bootstrap-admin", "bootstrapping")
           \/ AsksAccounts(r, "login", "login", "logging in")
           \/ Bootstrapped(r) \/ LoggedIn(r)
           \/ ListMovies(r) \/ FetchMovies(r) \/ ListCinemas(r) \/ ListStudios(r)
           \/ SendRow(r) \/ RowsDone(r) \/ MoviesDone(r)
  BY <1>2, <1>7 DEF AsksAccounts, Bootstrapped, LoggedIn, ListMovies, FetchMovies,
     ListCinemas, ListStudios, SendRow, RowsDone, MoviesDone, TablesUnchanged
<1> QED
  BY <1>3, <1>4, <1>5, <1>6, <1>7 DEF RunStep

LEMMA LateType ==
    ASSUME SeedingTypeOK, LateWrite
    PROVE  /\ MoviePagesTypeOK'
           /\ cinemas' \subseteq CinemaRow /\ studios' \subseteq StudioRow
           /\ runner' = runner /\ starts' = starts /\ late' \subseteq Write
           /\ overlapped' = overlapped
<1>1. /\ MoviePagesTypeOK /\ cinemas \subseteq CinemaRow /\ studios \subseteq StudioRow
      /\ late \subseteq Write
  BY DEF SeedingTypeOK
<1>2. PICK w \in late : /\ late' = late \ {w}
                        /\ IF Violates(w) THEN UNCHANGED <<pageVars, cinemas, studios>>
                           ELSE Commits(w)
                        /\ UNCHANGED <<accountVars, runner, starts, overlapped>>
  BY DEF LateWrite
<1>3. CASE UNCHANGED <<pageVars, cinemas, studios>>
  BY <1>1, <1>2, <1>3 DEF pageVars, MoviePagesTypeOK
<1>4. CASE Commits(w)
  BY <1>1, <1>2, <1>4, CommitType
<1> QED
  BY <1>2, <1>3, <1>4

\* Accounts, movies, cinemas, studios and runs stay well-formed: a run knows
\* and sends only rows of its lists, and a studio that is written has the id
\* of a cinema.
THEOREM SeedingTypeCorrect == SeedingSpec => []SeedingTypeOK
<1>1. SeedingInit => SeedingTypeOK
  <2> SUFFICES ASSUME SeedingInit  PROVE SeedingTypeOK
    OBVIOUS
  <2>1. MoviePagesTypeOK
    <3>1. FirstMovies \subseteq MovieRow
      <4>1. 0 \in Time
        BY DEF Time
      <4>2. FirstMovies \subseteq [id : MovieIds, created : {0},
                                  title : Titles \cup {OtherTitle}]
        OBVIOUS
      <4> QED
        BY <4>1, <4>2 DEF MovieRow
    <3>2. reader \in Reader
      BY DEF SeedingInit, MoviePagesInit, Reader
    <3> QED
      BY <3>1, <3>2 DEF SeedingInit, MoviePagesInit, MoviePagesTypeOK
  <2>2. runner \in [Runners -> Run]
    <3>1. [step |-> "off", cinemas |-> {}, studios |-> {}, missing |-> {}, sent |-> {}]
             \in Run
      BY DEF Run
    <3> QED
      BY <3>1 DEF SeedingInit
  <2>3. /\ cinemas \subseteq CinemaRow /\ studios \subseteq StudioRow
        /\ late \subseteq Write /\ starts \in 0 .. MaxStarts
    BY DEF SeedingInit
  <2>4. overlapped \in BOOLEAN
    BY DEF SeedingInit
  <2> QED
    BY <2>1, <2>2, <2>3, <2>4, AccountsInitType DEF SeedingTypeOK
<1>2. SeedingTypeOK /\ AccountsTypeOK' /\ [SeedingNext]_seedingVars => SeedingTypeOK'
  <2> SUFFICES ASSUME SeedingTypeOK, AccountsTypeOK', [SeedingNext]_seedingVars
               PROVE  SeedingTypeOK'
    OBVIOUS
  <2>1. CASE UNCHANGED <<pageVars, catalogueVars>>
    BY <2>1 DEF pageVars, catalogueVars, SeedingTypeOK, MoviePagesTypeOK
  <2>2. CASE (EditorAdds \/ EditorRemoves \/ ReadPage) /\ UNCHANGED catalogueVars
    BY <2>2, PagesType DEF catalogueVars, SeedingTypeOK
  <2>3. ASSUME NEW r \in Runners, RunStep(r)
        PROVE  SeedingTypeOK'
    BY <2>3, RunnerType, TablesType DEF SeedingTypeOK
  <2>4. CASE LateWrite
    BY <2>4, LateType DEF SeedingTypeOK
  <2> QED
    BY <2>1, <2>2, <2>3, <2>4 DEF SeedingNext, Over, seedingVars
<1> QED
  BY <1>1, <1>2, AccountsTypeCorrect, PTL DEF SeedingSpec

----------------------------------------------------------------------------
(* A run that is done.                                                     *)

Listed == {"omdb", "cinemas", "studios", "create", "titles", "done"}

RowsKnown(r) ==
    \A pair \in Wanted : \E c \in runner[r].cinemas :
        /\ c.name = pair[1]
        /\ [cinema |-> c.id, name |-> pair[2]] \in runner[r].studios

\* What a run has found or created is in the tables; it goes on to the movies
\* when it knows all that is wanted; and where no editor removes movies, a
\* title that it does not miss is there.
Informed(r) ==
    /\ runner[r].cinemas \subseteq cinemas
    /\ runner[r].studios \subseteq studios
    /\ runner[r].step \in {"titles", "done"} => RowsKnown(r)
    /\ runner[r].step = "done" => runner[r].missing = {}
    /\ "editor" \notin cast /\ runner[r].step \in Listed =>
          Titles \subseteq runner[r].missing \cup {m.title : m \in movies}

CompleteInv == SeedingTypeOK /\ \A r \in Runners : Informed(r)

\* Nothing that a run has found goes away.
TablesGrow ==
    /\ cast' = cast
    /\ cinemas \subseteq cinemas'
    /\ studios \subseteq studios'
    /\ "editor" \notin cast => movies \subseteq movies'

LEMMA InformedFrame ==
    ASSUME NEW r \in Runners, Informed(r), TablesGrow, runner'[r] = runner[r]
    PROVE  Informed(r)'
<1>1. /\ runner[r].cinemas \subseteq cinemas' /\ runner[r].studios \subseteq studios'
      /\ "editor" \notin cast => {m.title : m \in movies} \subseteq {m.title : m \in movies'}
  BY DEF Informed, TablesGrow
<1> QED
  BY <1>1 DEF Informed, TablesGrow, RowsKnown

\* A step of a run is about itself.
LEMMA OthersStay ==
    ASSUME SeedingTypeOK, NEW r \in Runners, RunStep(r)
    PROVE  \A q \in Runners \ {r} : runner'[q] = runner[q]
<1>1. runner \in [Runners -> Run]
  BY DEF SeedingTypeOK
<1>2. ASSUME NEW x, runner' = [runner EXCEPT ![r] = x]
      PROVE  \A q \in Runners \ {r} : runner'[q] = runner[q]
  BY <1>1, <1>2
<1>3. ASSUME NEW step, Goes(r, step)
      PROVE  \A q \in Runners \ {r} : runner'[q] = runner[q]
  BY <1>1, <1>3 DEF Goes
<1>4. ASSUME NEW sent, runner' = [runner EXCEPT ![r].sent = sent]
      PROVE  \A q \in Runners \ {r} : runner'[q] = runner[q]
  BY <1>1, <1>4
<1>5. CASE Start(r) \/ ListMovies(r) \/ ListCinemas(r) \/ ListStudios(r) \/ Written(r)
           \/ RunFails(r)
  BY <1>2, <1>5 DEF Start, ListMovies, ListCinemas, ListStudios, Written, RunFails, Fails
<1>6. CASE Bootstrapped(r) \/ LoggedIn(r)
  BY <1>2, <1>3, <1>6 DEF Bootstrapped, LoggedIn, Fails
<1>7. CASE \/ AsksAccounts(r, "bootstrap", "bootstrap-admin", "bootstrapping")
           \/ AsksAccounts(r, "login", "login", "logging in")
           \/ FetchMovies(r) \/ RowsDone(r) \/ MoviesDone(r)
  BY <1>3, <1>7 DEF AsksAccounts, FetchMovies, RowsDone, MoviesDone
<1>8. CASE SendRow(r) \/ SendMovie(r)
  BY <1>4, <1>8 DEF SendRow, SendMovie
<1> QED
  BY <1>5, <1>6, <1>7, <1>8 DEF RunStep

LEMMA CastStays ==
    ASSUME SeedingNext
    PROVE  cast' = cast
<1>1. ASSUME AccountNext  PROVE cast' = cast
  <2>1. ASSUME NEW c \in Clients, Sent(c)  PROVE cast' = cast
    BY <2>1 DEF Sent, Send
  <2>2. ASSUME NEW c \in Clients, Serve(c)  PROVE cast' = cast
    <3>1. CASE Login(c)
      BY <3>1 DEF Login
    <3>2. CASE LockBootstrap(c) \/ CheckAdmin(c) \/ InsertUser(c)
      BY <3>2 DEF LockBootstrap, CheckAdmin, InsertUser
    <3>3. CASE CommitUser(c)
      BY <3>3 DEF CommitUser
    <3>4. CASE Abandon(c)
      BY <3>4 DEF Abandon
    <3> QED
      BY <2>2, <3>1, <3>2, <3>3, <3>4 DEF Serve
  <2>3. CASE Restart \/ Tick
    BY <2>3 DEF Restart, Tick
  <2> QED
    BY <1>1, <2>1, <2>2, <2>3 DEF AccountNext
<1> QED
  BY <1>1, StepKinds DEF accountVars

LEMMA StepGrows ==
    ASSUME SeedingTypeOK, SeedingNext
    PROVE  TablesGrow
<1>1. CASE UNCHANGED <<pageVars, catalogueVars>>
  BY <1>1, CastStays DEF pageVars, catalogueVars, TablesGrow
<1>2. CASE (EditorAdds \/ EditorRemoves \/ ReadPage) /\ UNCHANGED catalogueVars
  BY <1>2, CastStays
     DEF EditorAdds, EditorRemoves, ReadPage, CommitMovie, catalogueVars, TablesGrow
<1>3. ASSUME NEW w \in Write, Commits(w)
      PROVE  TablesGrow
  BY <1>3, CommitEffect, CastStays DEF TablesGrow
<1>4. ASSUME NEW r \in Runners, RunStep(r)
      PROVE  TablesGrow
  <2>1. CASE Written(r)
    <3>1. runner[r].sent \subseteq Write
      BY DEF SeedingTypeOK, Run
    <3> QED
      BY <1>3, <2>1, <3>1 DEF Written
  <2>2. CASE UNCHANGED <<movies, cinemas, studios>>
    BY <2>2, CastStays DEF TablesGrow
  <2>3. Written(r) \/ UNCHANGED <<movies, cinemas, studios>>
    BY <1>4 DEF RunStep, Start, AsksAccounts, Bootstrapped, LoggedIn, ListMovies,
       FetchMovies, ListCinemas, ListStudios, SendRow, RowsDone, SendMovie, MoviesDone,
       RunFails, TablesUnchanged, pageVars
  <2> QED
    BY <2>1, <2>2, <2>3
<1>5. CASE LateWrite
  <2>1. late \subseteq Write
    BY DEF SeedingTypeOK
  <2> QED
    BY <1>1, <1>3, <1>5, <2>1, CastStays DEF LateWrite, pageVars, TablesGrow
<1> QED
  BY <1>1, <1>2, <1>4, <1>5 DEF SeedingNext, Over, seedingVars

LEMMA RunInformed ==
    ASSUME CompleteInv, NEW r \in Runners, RunStep(r), TablesGrow
    PROVE  Informed(r)'
<1>1. /\ runner \in [Runners -> Run] /\ runner[r] \in Run /\ Informed(r)
      /\ cinemas \subseteq CinemaRow
  BY DEF CompleteInv, SeedingTypeOK
<1>2. {m.title : m \in movies} \subseteq {m.title : m \in movies'} \/ "editor" \in cast
  BY DEF TablesGrow
\* A run that only goes to another step.
<1>3. ASSUME NEW step, Goes(r, step), step = "done" => runner[r].missing = {},
             step \in {"titles", "done"} => RowsKnown(r),
             step \in Listed => runner[r].step \in Listed
      PROVE  Informed(r)'
  <2>1. /\ runner'[r].step = step
        /\ runner'[r].cinemas = runner[r].cinemas
        /\ runner'[r].studios = runner[r].studios
        /\ runner'[r].missing = runner[r].missing
    BY <1>1, <1>3 DEF Goes, Run
  <2> QED
    BY <1>1, <1>2, <1>3, <2>1 DEF Informed, RowsKnown, TablesGrow
<1>4. ASSUME Fails(r)
      PROVE  Informed(r)'
  <2>1. /\ runner'[r].step = "failed"
        /\ runner'[r].cinemas = runner[r].cinemas
        /\ runner'[r].studios = runner[r].studios
    BY <1>1, <1>4 DEF Fails, Run
  <2> QED
    BY <1>1, <2>1 DEF Informed, Listed, TablesGrow
<1>5. CASE Start(r)
  <2>1. runner'[r] = [step |-> "bootstrap", cinemas |-> {}, studios |-> {},
                      missing |-> {}, sent |-> {}]
    BY <1>1, <1>5 DEF Start
  <2> QED
    BY <2>1 DEF Informed, Listed
<1>6. CASE \/ AsksAccounts(r, "bootstrap", "bootstrap-admin", "bootstrapping")
           \/ AsksAccounts(r, "login", "login", "logging in")
           \/ Bootstrapped(r) \/ LoggedIn(r)
  BY <1>3, <1>4, <1>6 DEF AsksAccounts, Bootstrapped, LoggedIn, Listed
<1>7. CASE ListMovies(r)
  <2>1. /\ runner'[r].step = "omdb"
        /\ runner'[r].cinemas = runner[r].cinemas
        /\ runner'[r].studios = runner[r].studios
        /\ runner'[r].missing = Titles \ {m.title : m \in movies}
    BY <1>1, <1>7 DEF ListMovies, Run
  <2>2. Titles \subseteq runner'[r].missing \cup {m.title : m \in movies}
    BY <2>1
  <2> QED
    BY <1>1, <1>2, <2>1, <2>2 DEF Informed, TablesGrow
<1>8. CASE FetchMovies(r)
  BY <1>3, <1>8 DEF FetchMovies, At, Listed
<1>9. CASE ListCinemas(r)
  <2>1. PICK found \in SUBSET cinemas :
          runner' = [runner EXCEPT ![r] = [@ EXCEPT !.step = "studios", !.cinemas = found]]
    BY <1>9 DEF ListCinemas
  <2>2. /\ runner'[r].step = "studios"
        /\ runner'[r].cinemas \subseteq cinemas
        /\ runner'[r].studios = runner[r].studios
        /\ runner'[r].missing = runner[r].missing
    BY <1>1, <2>1 DEF Run
  <2>3. runner[r].step \in Listed
    BY <1>9 DEF ListCinemas, At, Listed
  <2> QED
    BY <1>1, <1>2, <2>2, <2>3 DEF Informed, TablesGrow
<1>10. CASE ListStudios(r)
  <2>1. /\ runner'[r].step = "create"
        /\ runner'[r].cinemas = runner[r].cinemas
        /\ runner'[r].studios = studios
        /\ runner'[r].missing = runner[r].missing
        /\ runner[r].step \in Listed
    BY <1>1, <1>10 DEF ListStudios, Run, At, Listed
  <2> QED
    BY <1>1, <1>2, <2>1 DEF Informed, TablesGrow
<1>11. CASE SendRow(r) \/ SendMovie(r)
  <2>1. PICK sent : runner' = [runner EXCEPT ![r].sent = sent]
    BY <1>11 DEF SendRow, SendMovie
  <2>2. /\ runner'[r].step = runner[r].step
        /\ runner'[r].cinemas = runner[r].cinemas
        /\ runner'[r].studios = runner[r].studios
        /\ runner'[r].missing = runner[r].missing
    BY <1>1, <2>1 DEF Run
  <2> QED
    BY <1>1, <1>2, <2>2 DEF Informed, TablesGrow, RowsKnown
<1>12. CASE RowsDone(r)
  <2>1. RowsKnown(r)
    <3> SUFFICES ASSUME NEW pair \in Wanted
                 PROVE  \E c \in runner[r].cinemas :
                           /\ c.name = pair[1]
                           /\ [cinema |-> c.id, name |-> pair[2]] \in runner[r].studios
      BY DEF RowsKnown
    <3>1. pair[1] \in WantedCinemas /\ pair[2] \in StudioNames /\ pair = <<pair[1], pair[2]>>
      OBVIOUS
    <3>2. PICK c \in runner[r].cinemas : c.name = pair[1]
      BY <1>12, <3>1 DEF RowsDone, LackedCinemas
    <3>3. c \in CinemaRow
      BY <1>1 DEF Run
    <3> DEFINE s == [cinema |-> c.id, name |-> pair[2]]
    <3>4. s \in StudioRow /\ s.cinema = c.id /\ s.name = pair[2]
      BY <3>1, <3>3 DEF StudioRow, CinemaRow
    <3>5. <<c.name, s.name>> \in Wanted
      BY <3>1, <3>2, <3>4
    <3> HIDE DEF s
    <3>6. s \in runner[r].studios
      BY <1>12, <3>4, <3>5 DEF RowsDone, LackedStudios
    <3> QED
      BY <3>2, <3>6 DEF s
  <2> QED
    BY <1>3, <1>12, <2>1 DEF RowsDone, At, Listed
<1>13. CASE MoviesDone(r)
  BY <1>1, <1>3, <1>13 DEF MoviesDone, At, Listed, Informed
<1>14. CASE Written(r)
  <2>1. PICK w \in runner[r].sent :
          /\ Commits(w)
          /\ runner' = [runner EXCEPT ![r] = [@ EXCEPT
                !.sent = {},
                !.cinemas = runner[r].cinemas \cup RowOf(w, "cinema"),
                !.studios = runner[r].studios \cup RowOf(w, "studio"),
                !.missing = runner[r].missing \ {m.title : m \in RowOf(w, "movie")}]]
    BY <1>14 DEF Written
  <2>2. w \in Write
    BY <1>1 DEF Run
  <2>3. /\ runner'[r].step = runner[r].step
        /\ runner'[r].cinemas = runner[r].cinemas \cup RowOf(w, "cinema")
        /\ runner'[r].studios = runner[r].studios \cup RowOf(w, "studio")
        /\ runner'[r].missing = runner[r].missing \ {m.title : m \in RowOf(w, "movie")}
    BY <1>1, <2>1 DEF Run
  <2>4. /\ RowOf(w, "cinema") \subseteq cinemas'
        /\ RowOf(w, "studio") \subseteq studios'
        /\ RowOf(w, "movie") \subseteq movies'
    BY <2>1, <2>2, CommitEffect DEF RowOf
  <2>5. /\ runner'[r].cinemas \subseteq cinemas' /\ runner'[r].studios \subseteq studios'
    BY <1>1, <2>3, <2>4 DEF Informed, TablesGrow
  <2>6. RowsKnown(r) => RowsKnown(r)'
    BY <2>3 DEF RowsKnown
  <2>7. "editor" \notin cast /\ runner[r].step \in Listed =>
            Titles \subseteq runner'[r].missing \cup {m.title : m \in movies'}
    BY <1>1, <1>2, <2>3, <2>4 DEF Informed
  <2>8. runner[r].step = "done" => runner'[r].missing = {}
    BY <1>1, <2>3 DEF Informed
  <2> QED
    BY <1>1, <2>3, <2>5, <2>6, <2>7, <2>8 DEF Informed, TablesGrow
<1>15. CASE RunFails(r)
  BY <1>4, <1>15 DEF RunFails
<1> QED
  BY <1>5, <1>6, <1>7, <1>8, <1>9, <1>10, <1>11, <1>12, <1>13, <1>14, <1>15 DEF RunStep

\* A run that ends well where nobody removes rows leaves everything that is
\* wanted, whatever failed before, was written late, or ran beside it.
THEOREM DoneMeansComplete == SeedingSpec => []SeedComplete
<1>1. SeedingInit => \A r \in Runners : Informed(r)
  BY DEF SeedingInit, Informed, Listed
<1>2. SeedingTypeOK /\ SeedingTypeOK' /\ (\A r \in Runners : Informed(r))
         /\ [SeedingNext]_seedingVars => (\A r \in Runners : Informed(r))'
  <2> SUFFICES ASSUME SeedingTypeOK, \A r \in Runners : Informed(r),
                      [SeedingNext]_seedingVars, NEW r \in Runners
               PROVE  Informed(r)'
    OBVIOUS
  <2>1. TablesGrow
    BY StepGrows DEF seedingVars, accountVars, pageVars, catalogueVars, TablesGrow
  <2>2. CASE runner'[r] = runner[r]
    BY <2>1, <2>2, InformedFrame
  <2>3. CASE RunStep(r)
    BY <2>1, <2>3, RunInformed DEF CompleteInv
  <2>4. ASSUME NEW q \in Runners, RunStep(q)
        PROVE  Informed(r)'
    BY <2>2, <2>3, <2>4, OthersStay
  <2>5. (\E q \in Runners : RunStep(q)) \/ UNCHANGED runner
    BY DEF SeedingNext, seedingVars, catalogueVars, LateWrite, Over
  <2> QED
    BY <2>2, <2>4, <2>5
<1>3. (\A r \in Runners : Informed(r)) => SeedComplete
  <2> SUFFICES ASSUME \A r \in Runners : Informed(r), NEW r \in Runners,
                      runner[r].step = "done", "editor" \notin cast
               PROVE  /\ \A pair \in Wanted : \E c \in cinemas :
                            /\ c.name = pair[1]
                            /\ [cinema |-> c.id, name |-> pair[2]] \in studios
                      /\ Titles \subseteq {m.title : m \in movies}
    BY DEF SeedComplete
  <2>1. Informed(r)
    OBVIOUS
  <2> QED
    BY <2>1 DEF Informed, RowsKnown, Listed
<1> QED
  BY <1>1, <1>2, <1>3, SeedingTypeCorrect, PTL DEF SeedingSpec

----------------------------------------------------------------------------
(* Nothing twice.                                                          *)

\* A run has a write under way only while it creates rows, one at a time.
Sending(r) ==
    /\ runner[r].sent # {} => runner[r].step \in {"create", "titles"}
    /\ \A v, w \in runner[r].sent : v = w

\* A write that does not add what is there already.
AddsNew(w) ==
    /\ w[1] = "cinema" => \A row \in cinemas : row.name # w[2].name
    /\ w[1] = "movie" => /\ w[2].title \in Titles
                         /\ \A m \in movies : m.title # w[2].title

\* A run that does not overlook a row that is there: a movie never, a cinema
\* from the time when it has read the list.
Attentive(r) ==
    /\ Running(r) => \A m \in movies : m.title \notin runner[r].missing
    /\ runner[r].step \in {"studios", "create"} =>
          \A row \in cinemas : \E known \in runner[r].cinemas : known.name = row.name
    /\ \A w \in runner[r].sent : AddsNew(w)

\* One run at a time, and none beside a late write, of which there is one.
OneWriter ==
    /\ \A q, r \in Runners : Running(q) /\ Running(r) => q = r
    /\ \A r \in Runners : Running(r) => late = {}
    /\ \A v, w \in late : v = w

Unrepeated ==
    /\ \A a, b \in cinemas : a.name = b.name => a = b
    /\ \A a, b \in movies : a.title = b.title /\ a.title \in Titles
                               => a = b \/ {a, b} \subseteq FirstMovies

Alone ==
    /\ OneWriter
    /\ \A r \in Runners : Attentive(r)
    /\ \A w \in late : AddsNew(w)
    /\ Unrepeated

TwiceInv ==
    /\ \A r \in Runners : Sending(r)
    /\ ~overlapped => Alone

LEMMA StartedAlone ==
    ASSUME SeedingTypeOK, TwiceInv, NEW r \in Runners, Start(r)
    PROVE  TwiceInv'
<1>1. runner \in [Runners -> Run]
  BY DEF SeedingTypeOK
<1>2. /\ runner'[r] = [step |-> "bootstrap", cinemas |-> {}, studios |-> {},
                       missing |-> {}, sent |-> {}]
      /\ \A q \in Runners \ {r} : runner'[q] = runner[q]
      /\ UNCHANGED <<cinemas, movies, late>>
      /\ ~overlapped' => ~overlapped /\ late = {} /\ \A q \in Runners : ~Running(q)
  BY <1>1 DEF Start, pageVars
<1>3. \A q \in Runners : Sending(q)'
  BY <1>2 DEF TwiceInv, Sending
<1>4. ASSUME ~overlapped'
      PROVE  Alone'
  <2>1. /\ \A q \in Runners : ~Running(q) /\ runner[q].sent = {}
        /\ late = {} /\ Unrepeated
    BY <1>2, <1>4 DEF TwiceInv, Sending, Alone, Running, Steps
  <2>2. \A q \in Runners \ {r} : ~Running(q)' /\ runner'[q].sent = {}
    BY <1>2, <2>1 DEF Running
  <2>3. OneWriter'
    BY <1>2, <2>1, <2>2 DEF OneWriter
  <2>4. \A q \in Runners : Attentive(q)'
    <3>1. ASSUME NEW q \in Runners \ {r}
          PROVE  Attentive(q)'
      BY <2>2 DEF Attentive, Running, Steps
    <3>2. /\ runner'[r].step = "bootstrap" /\ runner'[r].missing = {}
          /\ runner'[r].sent = {}
      BY <1>2
    <3>3. Attentive(r)'
      BY <3>2 DEF Attentive
    <3> QED
      BY <3>1, <3>3
  <2>5. Unrepeated'
    BY <1>2, <2>1 DEF Unrepeated
  <2> QED
    BY <1>2, <2>1, <2>3, <2>4, <2>5 DEF Alone
<1> QED
  BY <1>3, <1>4 DEF TwiceInv

\* The step of a run that is under way: nobody else is.
Undisturbed(r) ==
    /\ late = {}
    /\ \A q \in Runners \ {r} : ~Running(q) /\ runner[q].sent = {}

LEMMA RunnersAlone ==
    ASSUME TwiceInv, ~overlapped, NEW r \in Runners, Running(r)
    PROVE  Undisturbed(r)
BY DEF TwiceInv, Alone, OneWriter, Sending, Running, Steps, Undisturbed

\* A run's step that leaves tables and late writes alone.
LEMMA QuietStep ==
    ASSUME TwiceInv, NEW r \in Runners, Running(r), Sending(r)',
           \A q \in Runners \ {r} : runner'[q] = runner[q],
           UNCHANGED <<cinemas, movies, late, overlapped>>,
           ~overlapped => Attentive(r)'
    PROVE  TwiceInv'
<1>1. \A q \in Runners : Sending(q)'
  BY DEF TwiceInv, Sending
<1>2. ASSUME ~overlapped
      PROVE  Alone'
  <2>1. /\ Undisturbed(r) /\ Alone
    BY <1>2, RunnersAlone DEF TwiceInv
  <2>2. OneWriter'
    BY <2>1 DEF Undisturbed, OneWriter, Running
  <2>3. \A q \in Runners : Attentive(q)'
    <3>1. ASSUME NEW q \in Runners \ {r}
          PROVE  Attentive(q)'
      BY <2>1 DEF Undisturbed, Attentive, Running, Steps
    <3> QED
      BY <1>2, <3>1
  <2>4. Unrepeated' /\ late' = {}
    BY <2>1 DEF Alone, Unrepeated, Undisturbed
  <2> QED
    BY <2>2, <2>3, <2>4 DEF Alone
<1> QED
  BY <1>1, <1>2 DEF TwiceInv

LEMMA QuietSteps ==
    ASSUME SeedingTypeOK, TwiceInv, NEW r \in Runners,
           \/ AsksAccounts(r, "bootstrap", "bootstrap-admin", "bootstrapping")
           \/ AsksAccounts(r, "login", "login", "logging in")
           \/ Bootstrapped(r) \/ LoggedIn(r)
           \/ ListMovies(r) \/ FetchMovies(r) \/ ListCinemas(r) \/ ListStudios(r)
           \/ RowsDone(r) \/ MoviesDone(r)
    PROVE  TwiceInv'
<1>1. /\ runner \in [Runners -> Run] /\ runner[r] \in Run
  BY DEF SeedingTypeOK
<1>2. runner[r].sent = {} /\ Running(r) /\ UNCHANGED <<cinemas, movies, late, overlapped>>
  BY DEF AsksAccounts, Bootstrapped, LoggedIn, ListMovies, FetchMovies, ListCinemas,
     ListStudios, RowsDone, MoviesDone, At, TablesUnchanged, pageVars, Running, Steps
<1>3. \A q \in Runners \ {r} : runner'[q] = runner[q]
  BY OthersStay DEF RunStep
<1>4. ~overlapped => Attentive(r)
  BY DEF TwiceInv, Alone
<1>5. ASSUME NEW step, Goes(r, step), step # "studios",
             step = "create" => runner[r].step = "studios"
      PROVE  TwiceInv'
  <2>1. /\ runner'[r].step = step /\ runner'[r].sent = {}
        /\ runner'[r].cinemas = runner[r].cinemas
        /\ runner'[r].missing = runner[r].missing
    BY <1>1, <1>2, <1>5 DEF Goes, Run
  <2>2. ~overlapped => Attentive(r)'
    BY <1>2, <1>4, <1>5, <2>1 DEF Attentive
  <2>3. Sending(r)'
    BY <2>1 DEF Sending
  <2> QED
    BY <1>2, <1>3, <2>2, <2>3, QuietStep
<1>6. ASSUME Fails(r)
      PROVE  TwiceInv'
  <2>1. runner'[r].step = "failed" /\ runner'[r].sent = {}
    BY <1>1, <1>6 DEF Fails, Run
  <2>2. Attentive(r)' /\ Sending(r)'
    BY <2>1 DEF Attentive, Sending, Running, Steps
  <2> QED
    BY <1>2, <1>3, <2>2, QuietStep
<1>7. CASE ListMovies(r)
  <2>1. /\ runner'[r].step = "omdb" /\ runner'[r].sent = {}
        /\ runner'[r].missing = Titles \ {m.title : m \in movies}
    BY <1>1, <1>2, <1>7 DEF ListMovies, Run
  <2>2. Attentive(r)' /\ Sending(r)'
    BY <1>2, <2>1 DEF Attentive, Sending
  <2> QED
    BY <1>2, <1>3, <2>2, QuietStep
<1>8. CASE ListCinemas(r)
  <2>1. PICK found \in SUBSET cinemas :
          /\ {row.name : row \in found} = {row.name : row \in cinemas}
          /\ runner' = [runner EXCEPT ![r] = [@ EXCEPT !.step = "studios", !.cinemas = found]]
    BY <1>8 DEF ListCinemas
  <2>2. /\ runner'[r].step = "studios" /\ runner'[r].sent = {}
        /\ runner'[r].cinemas = found
        /\ runner'[r].missing = runner[r].missing
    BY <1>1, <1>2, <2>1 DEF Run
  <2>3. \A row \in cinemas : \E known \in found : known.name = row.name
    <3> SUFFICES ASSUME NEW row \in cinemas PROVE \E known \in found : known.name = row.name
      OBVIOUS
    <3>1. row.name \in {known.name : known \in found}
      BY <2>1
    <3> QED
      BY <3>1
  <2>4. ~overlapped => Attentive(r)'
    BY <1>2, <1>4, <2>2, <2>3 DEF Attentive
  <2>5. Sending(r)'
    BY <2>2 DEF Sending
  <2> QED
    BY <1>2, <1>3, <2>4, <2>5, QuietStep
<1>9. CASE ListStudios(r)
  <2>1. /\ runner'[r].step = "create" /\ runner'[r].sent = {}
        /\ runner'[r].cinemas = runner[r].cinemas
        /\ runner'[r].missing = runner[r].missing
        /\ runner[r].step = "studios"
    BY <1>1, <1>2, <1>9 DEF ListStudios, Run, At
  <2>2. ~overlapped => Attentive(r)'
    BY <1>2, <1>4, <2>1 DEF Attentive
  <2>3. Sending(r)'
    BY <2>1 DEF Sending
  <2> QED
    BY <1>2, <1>3, <2>2, <2>3, QuietStep
<1>10. CASE \/ AsksAccounts(r, "bootstrap", "bootstrap-admin", "bootstrapping")
            \/ AsksAccounts(r, "login", "login", "logging in")
            \/ Bootstrapped(r) \/ LoggedIn(r) \/ RowsDone(r) \/ MoviesDone(r)
  BY <1>5, <1>6, <1>10 DEF AsksAccounts, Bootstrapped, LoggedIn, RowsDone, MoviesDone
<1>11. CASE FetchMovies(r)
  <2>1. /\ runner'[r].step = "cinemas" /\ runner'[r].sent = {}
        /\ runner'[r].missing = runner[r].missing
    BY <1>1, <1>2, <1>11 DEF FetchMovies, Goes, Run
  <2>2. ~overlapped => Attentive(r)'
    BY <1>2, <1>4, <2>1 DEF Attentive
  <2>3. Sending(r)'
    BY <2>1 DEF Sending
  <2> QED
    BY <1>2, <1>3, <2>2, <2>3, QuietStep
<1> QED
  BY <1>7, <1>8, <1>9, <1>10, <1>11

LEMMA SendingAlone ==
    ASSUME SeedingTypeOK, TwiceInv, NEW r \in Runners, SendRow(r) \/ SendMovie(r)
    PROVE  TwiceInv'
<1>1. /\ runner \in [Runners -> Run] /\ runner[r] \in Run
  BY DEF SeedingTypeOK
<1>2. /\ runner[r].step \in {"create", "titles"} /\ Running(r)
      /\ UNCHANGED <<cinemas, movies, late, overlapped>>
  BY DEF SendRow, SendMovie, At, pageVars, Running, Steps
<1>3. \A q \in Runners \ {r} : runner'[q] = runner[q]
  BY OthersStay DEF RunStep
<1>4. ASSUME NEW w, runner' = [runner EXCEPT ![r].sent = {w}], ~overlapped => AddsNew(w)
      PROVE  TwiceInv'
  <2>1. /\ runner'[r].step = runner[r].step /\ runner'[r].sent = {w}
        /\ runner'[r].cinemas = runner[r].cinemas
        /\ runner'[r].missing = runner[r].missing
    BY <1>1, <1>4 DEF Run
  <2>2. ~overlapped => Attentive(r)'
    <3>1. AddsNew(w) => AddsNew(w)'
      BY <1>2 DEF AddsNew
    <3>2. ~overlapped => Attentive(r)
      BY DEF TwiceInv, Alone
    <3> QED
      BY <1>2, <1>4, <2>1, <3>1, <3>2 DEF Attentive, Running
  <2>3. Sending(r)'
    BY <1>2, <2>1 DEF Sending
  <2> QED
    BY <1>2, <1>3, <2>2, <2>3, QuietStep
<1>5. CASE SendRow(r)
  <2>1. ASSUME NEW name \in LackedCinemas(r), NEW id, ~overlapped
        PROVE  AddsNew(<<"cinema", [id |-> id, name |-> name]>>)
    <3>1. \A row \in cinemas : \E known \in runner[r].cinemas : known.name = row.name
      BY <1>5, <2>1 DEF SendRow, At, TwiceInv, Alone, Attentive
    <3>2. \A row \in cinemas : row.name # name
      BY <3>1 DEF LackedCinemas
    <3> QED
      BY <3>2 DEF AddsNew
  <2>2. ASSUME NEW s
        PROVE  AddsNew(<<"studio", s>>)
    BY DEF AddsNew
  <2> QED
    BY <1>4, <1>5, <2>1, <2>2 DEF SendRow
<1>6. CASE SendMovie(r)
  <2>1. ASSUME NEW id, NEW title \in runner[r].missing, ~overlapped
        PROVE  AddsNew(<<"movie", [id |-> id, created |-> now, title |-> title]>>)
    <3>1. title \in Titles
      BY <1>1 DEF Run
    <3>2. \A m \in movies : m.title # title
      BY <1>2, <2>1 DEF TwiceInv, Alone, Attentive
    <3> QED
      BY <3>1, <3>2 DEF AddsNew
  <2> QED
    BY <1>4, <1>6, <2>1 DEF SendMovie
<1> QED
  BY <1>5, <1>6

\* What a commit that adds nothing twice does to the tables.
LEMMA NewCommit ==
    ASSUME NEW w \in Write, Commits(w), AddsNew(w), Unrepeated
    PROVE  Unrepeated'
<1>1. CASE w[1] = "cinema"
  <2>1. cinemas' = cinemas \cup {w[2]} /\ movies' = movies
    BY <1>1, CommitEffect
  <2>2. \A a, b \in cinemas' : a.name = b.name => a = b
    BY <1>1, <2>1 DEF AddsNew, Unrepeated
  <2> QED
    BY <2>1, <2>2 DEF Unrepeated
<1>2. CASE w[1] = "movie"
  <2>1. movies' = movies \cup {w[2]} /\ cinemas' = cinemas
    BY <1>2, CommitEffect
  <2>2. \A a, b \in movies' : a.title = b.title /\ a.title \in Titles
                                 => a = b \/ {a, b} \subseteq FirstMovies
    BY <1>2, <2>1 DEF AddsNew, Unrepeated
  <2> QED
    BY <2>1, <2>2 DEF Unrepeated
<1>3. CASE w[1] = "studio"
  BY <1>3, CommitEffect DEF Unrepeated
<1> QED
  BY <1>1, <1>2, <1>3, WriteKinds

LEMMA WrittenAlone ==
    ASSUME SeedingTypeOK, TwiceInv, NEW r \in Runners, Written(r)
    PROVE  TwiceInv'
<1>1. /\ runner \in [Runners -> Run] /\ runner[r] \in Run
  BY DEF SeedingTypeOK
<1>2. PICK w \in runner[r].sent :
        /\ Commits(w)
        /\ runner' = [runner EXCEPT ![r] = [@ EXCEPT
              !.sent = {},
              !.cinemas = runner[r].cinemas \cup RowOf(w, "cinema"),
              !.studios = runner[r].studios \cup RowOf(w, "studio"),
              !.missing = runner[r].missing \ {m.title : m \in RowOf(w, "movie")}]]
  BY DEF Written
<1>3. /\ runner'[r].step = runner[r].step /\ runner'[r].sent = {}
      /\ runner'[r].cinemas = runner[r].cinemas \cup RowOf(w, "cinema")
      /\ runner'[r].missing = runner[r].missing \ {m.title : m \in RowOf(w, "movie")}
  BY <1>1, <1>2 DEF Run
<1>4. \A q \in Runners \ {r} : runner'[q] = runner[q]
  BY OthersStay DEF RunStep
<1>5. UNCHANGED <<late, overlapped>> /\ w \in Write
  BY <1>1 DEF Written, Run
<1>6. \A q \in Runners : Sending(q)'
  BY <1>3, <1>4 DEF TwiceInv, Sending
<1>7. ASSUME ~overlapped
      PROVE  Alone'
  <2>1. Alone /\ Running(r)
    BY <1>2, <1>7 DEF TwiceInv, Sending, Running, Steps
  <2>2. Undisturbed(r) /\ Attentive(r) /\ AddsNew(w)
    BY <1>2, <1>7, <2>1, RunnersAlone DEF Alone, Attentive
  <2>3. \A q \in Runners \ {r} : ~Running(q)' /\ runner'[q].sent = {}
    BY <1>4, <2>2 DEF Undisturbed, Running
  <2>4. late' = {}
    BY <1>5, <2>2 DEF Undisturbed
  <2>5. OneWriter'
    BY <2>3, <2>4 DEF OneWriter
  <2>6. Unrepeated'
    BY <1>2, <1>5, <2>1, <2>2, NewCommit DEF Alone
  <2>7. \A m \in movies' : m.title \notin runner'[r].missing
    <3>1. movies' \subseteq movies \cup RowOf(w, "movie")
      BY <1>2, <1>5, CommitEffect DEF RowOf
    <3>2. \A m \in movies : m.title \notin runner[r].missing
      BY <2>1, <2>2 DEF Attentive
    <3> QED
      BY <1>3, <3>1, <3>2
  <2>8. runner[r].step \in {"studios", "create"} =>
           \A row \in cinemas' : \E known \in runner'[r].cinemas : known.name = row.name
    <3>1. cinemas' \subseteq cinemas \cup RowOf(w, "cinema")
      BY <1>2, <1>5, CommitEffect DEF RowOf
    <3> QED
      BY <1>3, <2>2, <3>1 DEF Attentive
  <2>9. Attentive(r)'
    BY <1>3, <2>7, <2>8 DEF Attentive
  <2>10. ASSUME NEW q \in Runners \ {r}
         PROVE  Attentive(q)'
    BY <2>3 DEF Attentive, Running, Steps
  <2> QED
    BY <2>4, <2>5, <2>6, <2>9, <2>10 DEF Alone
<1> QED
  BY <1>5, <1>6, <1>7 DEF TwiceInv

LEMMA FailedAlone ==
    ASSUME SeedingTypeOK, TwiceInv, NEW r \in Runners, RunFails(r)
    PROVE  TwiceInv'
<1>1. /\ runner \in [Runners -> Run] /\ runner[r] \in Run
  BY DEF SeedingTypeOK
<1>2. /\ runner'[r].step = "failed" /\ runner'[r].sent = {}
      /\ \A q \in Runners \ {r} : runner'[q] = runner[q]
      /\ Running(r)
      /\ UNCHANGED <<cinemas, movies, overlapped>>
      /\ late' \subseteq late \cup runner[r].sent
  BY <1>1 DEF RunFails, Fails, Run
<1>3. \A q \in Runners : Sending(q)'
  BY <1>2 DEF TwiceInv, Sending
<1>4. ASSUME ~overlapped
      PROVE  Alone'
  <2>1. Alone /\ Undisturbed(r)
    BY <1>2, <1>4, RunnersAlone DEF TwiceInv
  <2>2. late' \subseteq runner[r].sent
    BY <1>2, <2>1 DEF Undisturbed
  <2>3. \A q \in Runners : ~Running(q)' /\ runner'[q].sent = {}
    BY <1>2, <2>1 DEF Undisturbed, Running, Steps
  <2>4. OneWriter'
    BY <2>2, <2>3 DEF OneWriter, TwiceInv, Sending
  <2>5. \A q \in Runners : Attentive(q)'
    BY <2>3 DEF Attentive, Running, Steps
  <2>6. \A w \in late' : AddsNew(w)'
    BY <1>2, <2>1, <2>2 DEF Alone, Attentive, AddsNew
  <2>7. Unrepeated'
    BY <1>2, <2>1 DEF Alone, Unrepeated
  <2> QED
    BY <2>4, <2>5, <2>6, <2>7 DEF Alone
<1> QED
  BY <1>2, <1>3, <1>4 DEF TwiceInv

LEMMA LateAlone ==
    ASSUME SeedingTypeOK, TwiceInv, LateWrite
    PROVE  TwiceInv'
<1>1. PICK w \in late : /\ late' = late \ {w}
                        /\ IF Violates(w) THEN UNCHANGED <<pageVars, cinemas, studios>>
                           ELSE Commits(w)
                        /\ UNCHANGED <<accountVars, runner, starts, overlapped>>
  BY DEF LateWrite
<1>2. w \in Write
  BY DEF SeedingTypeOK
<1>3. \A q \in Runners : Sending(q)'
  BY <1>1 DEF TwiceInv, Sending
<1>4. ASSUME ~overlapped
      PROVE  Alone'
  <2>1. Alone
    BY <1>4 DEF TwiceInv
  <2>2. late' = {} /\ AddsNew(w)
    BY <1>1, <2>1 DEF Alone, OneWriter
  <2>3. \A q \in Runners : ~Running(q) /\ runner[q].sent = {}
    BY <2>1 DEF Alone, OneWriter, TwiceInv, Sending, Running, Steps
  <2>4. \A q \in Runners : ~Running(q)' /\ runner'[q].sent = {}
    BY <1>1, <2>3 DEF Running
  <2>5. OneWriter' /\ \A q \in Runners : Attentive(q)'
    BY <2>2, <2>4 DEF OneWriter, Attentive, Running, Steps
  <2>6. Unrepeated'
    BY <1>1, <1>2, <2>1, <2>2, NewCommit DEF Alone, Unrepeated, pageVars
  <2> QED
    BY <2>2, <2>5, <2>6 DEF Alone
<1> QED
  BY <1>1, <1>3, <1>4 DEF TwiceInv

\* An editor's movies are none of the wanted.
LEMMA EditedAlone ==
    ASSUME SeedingTypeOK, TwiceInv, UNCHANGED catalogueVars,
           \A m \in movies' : m \in movies \/ m.title \notin Titles
    PROVE  TwiceInv'
<1>1. /\ UNCHANGED <<cinemas, runner, late, overlapped>> /\ runner \in [Runners -> Run]
  BY DEF SeedingTypeOK, catalogueVars
<1>2. \A q \in Runners : Sending(q)'
  BY <1>1 DEF TwiceInv, Sending
<1>3. ASSUME Alone
      PROVE  Alone'
  <2>1. \A w : AddsNew(w) => AddsNew(w)'
    BY <1>1 DEF AddsNew
  <2>2. OneWriter'
    BY <1>1, <1>3 DEF Alone, OneWriter, Running
  <2>3. \A q \in Runners : Attentive(q)'
    <3> SUFFICES ASSUME NEW q \in Runners PROVE Attentive(q)'
      OBVIOUS
    <3>1. Attentive(q) /\ runner[q].missing \subseteq Titles
      BY <1>1, <1>3 DEF Alone, Run
    <3> QED
      BY <1>1, <2>1, <3>1 DEF Attentive, Running
  <2>4. Unrepeated'
    BY <1>1, <1>3 DEF Alone, Unrepeated
  <2>5. \A w \in late' : AddsNew(w)'
    BY <1>1, <1>3, <2>1 DEF Alone
  <2> QED
    BY <2>2, <2>3, <2>4, <2>5 DEF Alone
<1> QED
  BY <1>1, <1>2, <1>3 DEF TwiceInv

\* However often the command is started, and wherever it failed, no cinema and
\* no movie is added a second time, unless runs overlapped or a late write did.
THEOREM NothingTwiceEver == SeedingSpec => []NothingTwice
<1>1. SeedingInit => TwiceInv
  <2> SUFFICES ASSUME SeedingInit  PROVE TwiceInv
    OBVIOUS
  <2>1. /\ \A r \in Runners : ~Running(r) /\ runner[r].sent = {} /\ runner[r].step = "off"
        /\ cinemas = {} /\ late = {} /\ movies = FirstMovies
    BY DEF SeedingInit, MoviePagesInit, Running, Steps
  <2> QED
    BY <2>1 DEF TwiceInv, Sending, Alone, OneWriter, Attentive, Unrepeated
<1>2. SeedingTypeOK /\ TwiceInv /\ [SeedingNext]_seedingVars => TwiceInv'
  <2> SUFFICES ASSUME SeedingTypeOK, TwiceInv, [SeedingNext]_seedingVars
               PROVE  TwiceInv'
    OBVIOUS
  <2>1. CASE UNCHANGED <<pageVars, catalogueVars>>
    BY <2>1, EditedAlone DEF pageVars
  <2>2. CASE (EditorAdds \/ EditorRemoves \/ ReadPage) /\ UNCHANGED catalogueVars
    <3>1. \A m \in movies' : m \in movies \/ m.title \notin Titles
      BY <2>2 DEF EditorAdds, EditorRemoves, ReadPage, CommitMovie
    <3> QED
      BY <2>2, <3>1, EditedAlone
  <2>3. ASSUME NEW r \in Runners, RunStep(r)
        PROVE  TwiceInv'
    BY <2>3, StartedAlone, QuietSteps, SendingAlone, WrittenAlone, FailedAlone DEF RunStep
  <2>4. CASE LateWrite
    BY <2>4, LateAlone
  <2> QED
    BY <2>1, <2>2, <2>3, <2>4 DEF SeedingNext, Over, seedingVars
<1>3. TwiceInv => NothingTwice
  BY DEF TwiceInv, Alone, Unrepeated, NothingTwice
<1> QED
  BY <1>1, <1>2, <1>3, SeedingTypeCorrect, PTL DEF SeedingSpec
=============================================================================
