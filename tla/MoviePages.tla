----------------------------- MODULE MoviePages -----------------------------
(***************************************************************************)
(* The public list of movies, page by page: ListMovies of internal/catalog *)
(* and of internal/postgres/movies_repository.go, while administrators add *)
(* and remove movies.  A page ends at a cursor, the creation time and id   *)
(* of its last movie; the next page begins after it.                       *)
(***************************************************************************)
EXTENDS Accounts

CONSTANTS
    Titles,         \* titles the seed command wants
    OtherTitle,     \* any other title
    MovieIds, PageSize,
    FirstMovies     \* the movies at the start

ASSUME MoviePagesAssumption ==
    /\ MovieIds \subseteq Nat
    /\ PageSize \in Nat \ {0}
    /\ OtherTitle \notin Titles
    /\ FirstMovies \subseteq [id : MovieIds, created : {0},
                              title : Titles \cup {OtherTitle}]
    /\ IsFiniteSet(FirstMovies)
    /\ \A a, b \in FirstMovies : a.id = b.id => a = b     \* PRIMARY KEY

VARIABLES
    movies,     \* the committed rows of movies
    inserting,  \* rows of transactions that have not committed yet
    reader      \* a visitor who reads page after page

pageVars == <<movies, inserting, reader>>

MovieRow == [id : MovieIds, created : Time, title : Titles \cup {OtherTitle}]

\* last: the cursor; base: the movies that were there all the time since the
\* first page; seen: what was shown; again: something was shown twice.
Reader == [mode : {"off", "reading", "done"}, last : SUBSET MovieRow,
           base : SUBSET MovieRow, seen : SUBSET MovieRow, again : BOOLEAN]

MoviePagesTypeOK ==
    /\ movies \subseteq MovieRow
    /\ inserting \subseteq MovieRow
    /\ reader \in Reader

MoviePagesInit ==
    /\ movies = FirstMovies
    /\ inserting = {}
    /\ reader = [mode |-> "off", last |-> {}, base |-> {}, seen |-> {},
                 again |-> FALSE]
----------------------------------------------------------------------------
(* The rows.                                                               *)

FreeId(id) == \A m \in movies \cup inserting : m.id # id

\* created_at is the time the transaction begins, ids are in no order.
BeginMovie(row) ==
    /\ FreeId(row.id)
    /\ row.created = now
    /\ inserting' = inserting \cup {row}

CommitMovie(row) ==
    /\ row \in inserting
    /\ inserting' = inserting \ {row}
    /\ movies' = movies \cup {row}

\* An administrator who is no runner adds or removes a movie.
EditorAdds ==
    /\ "editor" \in cast
    /\ \/ /\ \E id \in MovieIds :
                BeginMovie([id |-> id, created |-> now, title |-> OtherTitle])
          /\ UNCHANGED movies
       \/ \E row \in inserting : row.title = OtherTitle /\ CommitMovie(row)
    /\ UNCHANGED reader

EditorRemoves ==
    /\ "editor" \in cast
    /\ \E row \in movies :
          /\ movies' = movies \ {row}
          /\ reader' = [reader EXCEPT !.base = @ \ {row}]
    /\ UNCHANGED inserting
----------------------------------------------------------------------------
(* The pages.                                                              *)

\* ORDER BY created_at DESC, id DESC.
Before(a, b) == a.created > b.created \/ (a.created = b.created /\ a.id > b.id)

\* Fault: the time alone says where the next page begins.
NewerOnly(a, b) == a.created > b.created

\* WHERE (created_at, id) < (cursor).
AfterCursor(a, b) == Before(a, b)

FromCursor == {m \in movies : \A cursor \in reader.last : AfterCursor(cursor, m)}

\* LIMIT n.
FirstOf(rows, n) == {m \in rows : Cardinality({o \in rows : Before(o, m)}) < n}

\* The service asks for one movie more than the page has.
Queried == FirstOf(FromCursor, PageSize + 1)
Page == FirstOf(Queried, PageSize)
LastOf(rows) == {m \in rows : \A o \in rows \ {m} : Before(o, m)}

NextCursor == LastOf(Page)

ReadPage ==
    /\ "reader" \in cast
    /\ reader.mode # "done"
    /\ reader' = [mode |-> IF Cardinality(Queried) <= PageSize THEN "done"
                           ELSE "reading",
                  last |-> NextCursor,
                  base |-> IF reader.mode = "off" THEN movies ELSE reader.base,
                  seen |-> reader.seen \cup Page,
                  again |-> reader.again \/ reader.seen \cap Page # {}]
    /\ UNCHANGED <<movies, inserting>>
----------------------------------------------------------------------------
\* Whoever reads to the last page has seen every movie that was there all
\* the time, and none of them twice, whatever was added or removed meanwhile
\* and however many movies share a creation time.
PagesComplete ==
    /\ ~reader.again
    /\ reader.mode = "done" => reader.base \subseteq reader.seen
=============================================================================
