--------------------------- MODULE MoviePagesProofs ---------------------------
(***************************************************************************)
(* Theorems about the pages of movies, for any number of movies, any page  *)
(* size, and any editors and seed commands that change the movies between  *)
(* two pages.  First the order of the rows and the beginnings of a list,   *)
(* then the pages, then the visitor.                                       *)
(***************************************************************************)
EXTENDS SeedCommandProofs

USE AccountsAssumption, MoviePagesAssumption, SeedingAssumption

----------------------------------------------------------------------------
(* The order of the rows.                                                  *)

LEMMA BeforeOrder ==
    /\ \A a \in MovieRow : ~Before(a, a)
    /\ \A a, b \in MovieRow : ~(Before(a, b) /\ Before(b, a))
    /\ \A a, b, c \in MovieRow : Before(a, b) /\ Before(b, c) => Before(a, c)
    /\ \A a, b \in MovieRow : a.id # b.id => Before(a, b) \/ Before(b, a)
<1>1. \A a \in MovieRow : a.id \in Nat /\ a.created \in Nat
  <2> SUFFICES ASSUME NEW a \in MovieRow  PROVE a.id \in Nat /\ a.created \in Nat
    OBVIOUS
  <2>1. a.id \in MovieIds /\ a.created \in Time
    BY DEF MovieRow
  <2>2. a.id \in Nat
    BY <2>1
  <2>3. a.created \in Nat
    BY <2>1 DEF Time
  <2> QED
    BY <2>2, <2>3
<1> QED
  BY <1>1 DEF Before

\* Among finite sets one is smallest.
LEMMA SmallestSet ==
    ASSUME NEW S, IsFiniteSet(S), NEW F, F \subseteq SUBSET S, F # {}
    PROVE  \E T \in F : \A U \in F : U \subseteq T => U = T
<1>1. IsWellFoundedOn(StrictSubsetOrdering(S), SUBSET S)
  BY FS_StrictSubsetOrderingWellFounded, FS_FiniteSubsetsOfFinite
<1>2. PICK T \in F : \A U \in F : ~(<<U, T>> \in StrictSubsetOrdering(S))
  BY <1>1, WFMin
<1>3. ASSUME NEW U \in F, U \subseteq T
      PROVE  U = T
  BY <1>2, <1>3 DEF StrictSubsetOrdering
<1> QED
  BY <1>3

Earlier(rows, m) == {o \in rows : Before(o, m)}
Later(rows, m) == {o \in rows : Before(m, o)}

LEMMA FirstExists ==
    ASSUME NEW X, X \subseteq MovieRow, IsFiniteSet(X), X # {}
    PROVE  \E m \in X : Earlier(X, m) = {}
<1> DEFINE F == {Earlier(X, m) : m \in X}
<1>1. F \subseteq SUBSET X /\ F # {}
  <2>1. \A m \in X : Earlier(X, m) \in SUBSET X
    BY DEF Earlier
  <2>2. F \subseteq SUBSET X
    BY <2>1
  <2>3. PICK m : m \in X
    OBVIOUS
  <2>4. Earlier(X, m) \in F
    BY <2>3
  <2> QED
    BY <2>2, <2>4
<1>2. PICK T \in F : \A U \in F : U \subseteq T => U = T
  <2> HIDE DEF F
  <2> QED
    BY <1>1, SmallestSet
<1>3. PICK m \in X : T = Earlier(X, m)
  OBVIOUS
<1>4. ASSUME NEW o \in Earlier(X, m)
      PROVE  FALSE
  <2>1. o \in X /\ Before(o, m)
    BY DEF Earlier
  <2>2. Earlier(X, o) \subseteq Earlier(X, m)
    BY <2>1, BeforeOrder DEF Earlier
  <2>3. Earlier(X, o) = Earlier(X, m)
    BY <1>2, <1>3, <2>1, <2>2
  <2>4. o \notin Earlier(X, o)
    BY <2>1, BeforeOrder DEF Earlier
  <2> QED
    BY <2>3, <2>4
<1> QED
  BY <1>4

LEMMA LastExists ==
    ASSUME NEW X, X \subseteq MovieRow, IsFiniteSet(X), X # {}
    PROVE  \E m \in X : Later(X, m) = {}
<1> DEFINE F == {Later(X, m) : m \in X}
<1>1. F \subseteq SUBSET X /\ F # {}
  <2>1. \A m \in X : Later(X, m) \in SUBSET X
    BY DEF Later
  <2>2. F \subseteq SUBSET X
    BY <2>1
  <2>3. PICK m : m \in X
    OBVIOUS
  <2>4. Later(X, m) \in F
    BY <2>3
  <2> QED
    BY <2>2, <2>4
<1>2. PICK T \in F : \A U \in F : U \subseteq T => U = T
  <2> HIDE DEF F
  <2> QED
    BY <1>1, SmallestSet
<1>3. PICK m \in X : T = Later(X, m)
  OBVIOUS
<1>4. ASSUME NEW o \in Later(X, m)
      PROVE  FALSE
  <2>1. o \in X /\ Before(m, o)
    BY DEF Later
  <2>2. Later(X, o) \subseteq Later(X, m)
    BY <2>1, BeforeOrder DEF Later
  <2>3. Later(X, o) = Later(X, m)
    BY <1>2, <1>3, <2>1, <2>2
  <2>4. o \notin Later(X, o)
    BY <2>1, BeforeOrder DEF Later
  <2> QED
    BY <2>3, <2>4
<1> QED
  BY <1>4

----------------------------------------------------------------------------
(* The beginning of a list, and its last row.                              *)

LEMMA FirstOfRows ==
    ASSUME NEW X, NEW n
    PROVE  /\ FirstOf(X, n) \subseteq X
           /\ \A m \in X : m \in FirstOf(X, n) <=> Cardinality(Earlier(X, m)) < n
BY DEF FirstOf, Earlier

LEMMA EarlierFinite ==
    ASSUME NEW X, IsFiniteSet(X), NEW m
    PROVE  IsFiniteSet(Earlier(X, m)) /\ Cardinality(Earlier(X, m)) \in Nat
<1>1. Earlier(X, m) \in SUBSET X
  BY DEF Earlier
<1>2. IsFiniteSet(Earlier(X, m))
  BY <1>1, FS_Subset
<1> QED
  BY <1>2, FS_CardinalityType

\* Whatever comes before a row of the beginning belongs to it.
LEMMA FirstOfClosed ==
    ASSUME NEW X, X \subseteq MovieRow, IsFiniteSet(X), NEW n \in Nat,
           NEW o \in FirstOf(X, n), NEW m \in X, Before(m, o)
    PROVE  m \in FirstOf(X, n)
<1>1. o \in X /\ Cardinality(Earlier(X, o)) < n
  BY FirstOfRows
<1>2. Earlier(X, m) \in SUBSET Earlier(X, o)
  BY <1>1, BeforeOrder DEF Earlier
<1>3. /\ IsFiniteSet(Earlier(X, o)) /\ Cardinality(Earlier(X, o)) \in Nat
      /\ Cardinality(Earlier(X, m)) \in Nat
  BY EarlierFinite
<1>4. Cardinality(Earlier(X, m)) <= Cardinality(Earlier(X, o))
  BY <1>2, <1>3, FS_Subset
<1>5. Cardinality(Earlier(X, m)) < n
  BY <1>1, <1>3, <1>4
<1> QED
  BY <1>5, FirstOfRows

\* A beginning that leaves rows out is full.
LEMMA FirstOfFull ==
    ASSUME NEW X, X \subseteq MovieRow, IsFiniteSet(X), NEW n \in Nat,
           NEW m \in X, m \notin FirstOf(X, n)
    PROVE  n <= Cardinality(FirstOf(X, n))
<1> DEFINE Y == X \ FirstOf(X, n)
<1>1. Y \in SUBSET X /\ Y # {} /\ Y \subseteq MovieRow /\ FirstOf(X, n) \in SUBSET X
  BY FirstOfRows
<1>2. IsFiniteSet(Y) /\ IsFiniteSet(FirstOf(X, n))
  BY <1>1, FS_Subset
<1>3. PICK first \in Y : Earlier(Y, first) = {}
  <2> HIDE DEF Y
  <2> QED
    BY <1>1, <1>2, FirstExists
<1>4. Earlier(X, first) \in SUBSET FirstOf(X, n)
  BY <1>3 DEF Earlier
<1>5. ~(Cardinality(Earlier(X, first)) < n)
  BY <1>3, FirstOfRows
<1>6. Cardinality(Earlier(X, first)) <= Cardinality(FirstOf(X, n))
  BY <1>2, <1>4, FS_Subset
<1>7. Cardinality(Earlier(X, first)) \in Nat /\ Cardinality(FirstOf(X, n)) \in Nat
  BY <1>2, EarlierFinite, FS_CardinalityType
<1> QED
  BY <1>5, <1>6, <1>7

LEMMA FirstOfSome ==
    ASSUME NEW X, X \subseteq MovieRow, IsFiniteSet(X), X # {}, NEW n \in Nat, n > 0
    PROVE  FirstOf(X, n) # {}
<1>1. PICK m \in X : Earlier(X, m) = {}
  BY FirstExists
<1>2. Cardinality(Earlier(X, m)) < n
  BY <1>1, FS_EmptySet
<1> QED
  BY <1>2, FirstOfRows

\* Rows whose ids differ have one last row.
LEMMA LastOfOne ==
    ASSUME NEW X, X \subseteq MovieRow, IsFiniteSet(X), X # {},
           \A a, b \in X : a.id = b.id => a = b
    PROVE  \E l \in X : LastOf(X) = {l} /\ \A m \in X : m = l \/ Before(m, l)
<1>1. PICK l \in X : Later(X, l) = {}
  BY LastExists
<1>2. \A m \in X : m = l \/ Before(m, l)
  BY <1>1, BeforeOrder DEF Later
<1>3. l \in LastOf(X)
  BY <1>2 DEF LastOf
<1>4. ASSUME NEW k \in LastOf(X)
      PROVE  k = l
  <2>1. k \in X /\ (l # k => Before(l, k))
    BY DEF LastOf
  <2> QED
    BY <1>2, <2>1, BeforeOrder
<1>5. LastOf(X) = {l}
  BY <1>3, <1>4
<1> QED
  BY <1>2, <1>5

----------------------------------------------------------------------------
(* A page.                                                                 *)

\* The ids are unique, those of rows that are not committed too.
IdsUnique == \A a, b \in movies \cup inserting : a.id = b.id => a = b

TableOK == movies \subseteq MovieRow /\ IsFiniteSet(movies) /\ IdsUnique

LEMMA PageParts ==
    ASSUME TableOK
    PROVE  /\ FromCursor \subseteq MovieRow /\ IsFiniteSet(FromCursor)
           /\ Queried \subseteq FromCursor /\ IsFiniteSet(Queried)
           /\ Page \subseteq Queried /\ IsFiniteSet(Page)
           /\ Cardinality(Queried) \in Nat /\ Cardinality(Page) \in Nat
<1>1. /\ FromCursor \in SUBSET movies
      /\ Queried \in SUBSET FromCursor /\ Page \in SUBSET Queried
  BY FirstOfRows DEF FromCursor, Queried, Page
<1>2. IsFiniteSet(FromCursor)
  BY <1>1, FS_Subset DEF TableOK
<1>3. IsFiniteSet(Queried)
  BY <1>1, <1>2, FS_Subset
<1>4. IsFiniteSet(Page)
  BY <1>1, <1>3, FS_Subset
<1> QED
  BY <1>1, <1>2, <1>3, <1>4, FS_CardinalityType DEF TableOK

\* The last page has all that is left.
LEMMA LastPage ==
    ASSUME TableOK, Cardinality(Queried) <= PageSize
    PROVE  FromCursor \subseteq Page
<1> SUFFICES ASSUME NEW m \in FromCursor, m \notin Page  PROVE FALSE
  OBVIOUS
<1>1. m \in Queried
  <2>1. PageSize + 1 \in Nat /\ PageSize \in Nat
    OBVIOUS
  <2>2. m \notin Queried => PageSize + 1 <= Cardinality(Queried)
    BY <2>1, PageParts, FirstOfFull DEF Queried
  <2> QED
    BY <2>1, <2>2, PageParts
<1>2. PageSize <= Cardinality(Page)
  BY <1>1, PageParts, FirstOfFull DEF Page
<1>3. Page \in SUBSET (Queried \ {m})
  BY PageParts
<1>4. IsFiniteSet(Queried \ {m}) /\ Cardinality(Queried \ {m}) = Cardinality(Queried) - 1
  BY <1>1, PageParts, FS_RemoveElement
<1>5. Cardinality(Page) <= Cardinality(Queried) - 1
  BY <1>3, <1>4, FS_Subset
<1>6. Cardinality(Queried) \in Nat /\ Cardinality(Page) \in Nat
  BY PageParts
<1> QED
  BY <1>2, <1>5, <1>6

\* Another page ends at its last row, and what it leaves comes after that.
LEMMA AnotherPage ==
    ASSUME TableOK, ~(Cardinality(Queried) <= PageSize)
    PROVE  \E l \in Page : /\ NextCursor = {l}
                           /\ \A m \in Page : m = l \/ Before(m, l)
                           /\ \A m \in FromCursor : m \in Page \/ Before(l, m)
<1>1. Queried # {}
  <2>1. Queried = {} => Cardinality(Queried) = 0
    BY FS_EmptySet
  <2> QED
    BY <2>1
<1>2. PageSize \in Nat /\ PageSize > 0 /\ PageSize + 1 \in Nat
  OBVIOUS
<1>3. Queried \subseteq MovieRow /\ Page \subseteq MovieRow /\ FromCursor \subseteq movies
  BY PageParts DEF FromCursor
<1>4. Page # {}
  BY <1>1, <1>2, <1>3, PageParts, FirstOfSome DEF Page
<1>5. \A a, b \in FromCursor : a.id = b.id => a = b
  BY <1>3 DEF TableOK, IdsUnique
<1>6. PICK l \in Page : LastOf(Page) = {l} /\ \A m \in Page : m = l \/ Before(m, l)
  <2>1. \A a, b \in Page : a.id = b.id => a = b
    BY <1>5, PageParts
  <2> QED
    BY <1>3, <1>4, <2>1, PageParts, LastOfOne
<1>7. ASSUME NEW m \in FromCursor, m \notin Page
      PROVE  Before(l, m)
  <2>1. l \in Queried /\ l \in FromCursor /\ m # l
    BY <1>7, PageParts
  <2>2. ASSUME Before(m, l)
        PROVE  FALSE
    <3>1. m \in Queried
      BY <1>2, <2>1, <2>2, PageParts, FirstOfClosed DEF Queried
    <3>2. m \in Page
      BY <1>2, <1>3, <2>2, <3>1, PageParts, FirstOfClosed DEF Page
    <3> QED
      BY <1>7, <3>2
  <2>3. m.id # l.id /\ m \in MovieRow /\ l \in MovieRow
    BY <1>5, <2>1, PageParts
  <2> QED
    BY <2>2, <2>3, BeforeOrder
<1> QED
  BY <1>6, <1>7 DEF NextCursor

----------------------------------------------------------------------------
(* The visitor.                                                            *)

\* Where a visitor is who has not read to the end: what was seen is not after
\* the cursor, and what was there all the time and was not seen is after it.
AtCursor(c) ==
    /\ reader.last = {c}
    /\ \A m \in reader.seen : m = c \/ Before(m, c)
    /\ \A m \in reader.base : m \in reader.seen \/ Before(c, m)

VisitorInv ==
    /\ ~reader.again
    /\ reader.base \subseteq movies
    /\ reader.mode = "off" => reader.last = {} /\ reader.seen = {}
    /\ reader.mode = "reading" => \E c \in MovieRow : AtCursor(c)
    /\ reader.mode = "done" => reader.base \subseteq reader.seen

PagesInv == TableOK /\ VisitorInv

LEMMA ReadsOn ==
    ASSUME MoviePagesTypeOK, PagesInv, ReadPage
    PROVE  PagesInv'
<1>1. /\ movies' = movies /\ inserting' = inserting /\ TableOK'
  BY DEF ReadPage, PagesInv, TableOK, IdsUnique
<1>2. /\ reader.mode \in {"off", "reading"} /\ ~reader.again
      /\ reader.seen \subseteq MovieRow /\ reader.base \subseteq movies
      /\ movies \subseteq MovieRow /\ TableOK /\ Page \subseteq FromCursor
      /\ FromCursor \subseteq movies
  BY PageParts DEF MoviePagesTypeOK, Reader, ReadPage, PagesInv, VisitorInv, FromCursor
<1>3. /\ reader'.mode = IF Cardinality(Queried) <= PageSize THEN "done" ELSE "reading"
      /\ reader'.last = NextCursor
      /\ reader'.base = IF reader.mode = "off" THEN movies ELSE reader.base
      /\ reader'.seen = reader.seen \cup Page
  BY DEF ReadPage
<1>4. reader'.again <=> reader.again \/ reader.seen \cap Page # {}
  BY DEF ReadPage
\* What was seen comes before what is read now, and the rest is still to come.
<1>5. /\ \A m \in reader.seen, o \in FromCursor : Before(m, o)
      /\ \A m \in reader'.base : m \in reader.seen \/ m \in FromCursor
  <2>1. CASE reader.mode = "off"
    <3>1. reader.last = {} /\ reader.seen = {} /\ reader'.base = movies
      BY <1>3, <2>1 DEF PagesInv, VisitorInv
    <3>2. FromCursor = movies
      BY <3>1 DEF FromCursor
    <3> QED
      BY <3>1, <3>2
  <2>2. CASE reader.mode = "reading"
    <3>1. PICK c \in MovieRow : AtCursor(c)
      BY <2>2 DEF PagesInv, VisitorInv
    <3>2. \A o \in movies : o \in FromCursor <=> Before(c, o)
      BY <3>1 DEF AtCursor, FromCursor, AfterCursor
    <3>3. reader'.base = reader.base
      BY <1>3, <2>2
    <3>4. ASSUME NEW m \in reader.seen, NEW o \in FromCursor
          PROVE  Before(m, o)
      <4>1. Before(c, o) /\ (m = c \/ Before(m, c))
        BY <1>2, <3>1, <3>2 DEF AtCursor
      <4>2. m \in MovieRow /\ o \in MovieRow
        BY <1>2
      <4> QED
        BY <4>1, <4>2, BeforeOrder
    <3>5. ASSUME NEW m \in reader.base
          PROVE  m \in reader.seen \/ m \in FromCursor
      BY <1>2, <3>1, <3>2 DEF AtCursor
    <3> QED
      BY <3>3, <3>4, <3>5
  <2> QED
    BY <1>2, <2>1, <2>2
<1>6. ~reader'.again
  <2>1. reader.seen \cap Page = {}
    BY <1>2, <1>5, BeforeOrder
  <2> QED
    BY <1>2, <1>4, <2>1
<1>7. reader'.base \subseteq movies'
  BY <1>1, <1>2, <1>3
<1>8. CASE Cardinality(Queried) <= PageSize
  <2>1. reader'.mode = "done"
    BY <1>3, <1>8
  <2>2. reader'.base \subseteq reader'.seen
    BY <1>2, <1>3, <1>5, <1>8, LastPage
  <2> QED
    BY <1>1, <1>6, <1>7, <2>1, <2>2 DEF PagesInv, VisitorInv
<1>9. CASE ~(Cardinality(Queried) <= PageSize)
  <2>1. reader'.mode = "reading"
    BY <1>3, <1>9
  <2>2. PICK l \in Page : /\ NextCursor = {l}
                          /\ \A m \in Page : m = l \/ Before(m, l)
                          /\ \A m \in FromCursor : m \in Page \/ Before(l, m)
    BY <1>2, <1>9, AnotherPage
  <2>3. \A m \in reader'.seen : m = l \/ Before(m, l)
    BY <1>2, <1>3, <1>5, <2>2
  <2>4. \A m \in reader'.base : m \in reader'.seen \/ Before(l, m)
    BY <1>3, <1>5, <2>2
  <2>5. l \in MovieRow /\ AtCursor(l)'
    BY <1>2, <1>3, <2>2, <2>3, <2>4 DEF AtCursor
  <2> QED
    BY <1>1, <1>6, <1>7, <2>1, <2>5 DEF PagesInv, VisitorInv
<1> QED
  BY <1>8, <1>9

\* A row that begins has an id of its own, and one that commits keeps it.
LEMMA BeginUnique ==
    ASSUME IdsUnique, NEW row, BeginMovie(row), movies' = movies
    PROVE  IdsUnique'
BY DEF IdsUnique, BeginMovie, FreeId

LEMMA CommitUnique ==
    ASSUME TableOK, NEW row \in MovieRow, CommitMovie(row)
    PROVE  TableOK'
<1>1. movies' \cup inserting' = movies \cup inserting
  BY DEF CommitMovie
<1>2. IdsUnique'
  BY <1>1 DEF TableOK, IdsUnique
<1>3. IsFiniteSet(movies')
  BY FS_AddElement DEF TableOK, CommitMovie
<1> QED
  BY <1>2, <1>3 DEF TableOK, CommitMovie

\* Rows come, and rows of failed transactions go; the visitor has nothing to
\* do with them.
LEMMA VisitorStays ==
    ASSUME VisitorInv, reader' = reader, movies \subseteq movies'
    PROVE  VisitorInv'
BY DEF VisitorInv, AtCursor

LEMMA RemovedPages ==
    ASSUME MoviePagesTypeOK, PagesInv, EditorRemoves
    PROVE  PagesInv'
<1>1. PICK row \in movies : /\ movies' = movies \ {row}
                            /\ reader' = [reader EXCEPT !.base = @ \ {row}]
                            /\ inserting' = inserting
  BY DEF EditorRemoves
<1>2. /\ reader'.mode = reader.mode /\ reader'.last = reader.last
      /\ reader'.seen = reader.seen /\ reader'.again = reader.again
      /\ reader'.base = reader.base \ {row}
  BY <1>1 DEF MoviePagesTypeOK, Reader
<1>3. TableOK'
  <2>1. IsFiniteSet(movies')
    BY <1>1, FS_RemoveElement DEF PagesInv, TableOK
  <2> QED
    BY <1>1, <2>1 DEF PagesInv, TableOK, IdsUnique
<1>4. VisitorInv'
  <2>1. \A c : AtCursor(c) => AtCursor(c)'
    BY <1>2 DEF AtCursor
  <2> QED
    BY <1>1, <1>2, <2>1 DEF PagesInv, VisitorInv
<1> QED
  BY <1>3, <1>4 DEF PagesInv

LEMMA AddedPages ==
    ASSUME SeedingTypeOK, PagesInv, EditorAdds
    PROVE  PagesInv'
<1>1. reader' = reader /\ movies \subseteq movies'
  BY DEF EditorAdds, CommitMovie
<1>2. TableOK'
  <2>1. ASSUME NEW row, BeginMovie(row), movies' = movies
        PROVE  TableOK'
    BY <2>1, BeginUnique DEF PagesInv, TableOK
  <2>2. ASSUME NEW row \in inserting, CommitMovie(row)
        PROVE  TableOK'
    <3>1. row \in MovieRow
      BY DEF SeedingTypeOK, MoviePagesTypeOK
    <3> QED
      BY <2>2, <3>1, CommitUnique DEF PagesInv
  <2> QED
    BY <2>1, <2>2 DEF EditorAdds
<1> QED
  BY <1>1, <1>2, VisitorStays DEF PagesInv

LEMMA CommandPages ==
    ASSUME SeedingTypeOK, PagesInv, (\E r \in Runners : RunStep(r)) \/ LateWrite
    PROVE  PagesInv'
<1>1. ASSUME UNCHANGED pageVars
      PROVE  PagesInv'
  BY <1>1, VisitorStays DEF pageVars, PagesInv, TableOK, IdsUnique
<1>2. ASSUME NEW w \in Write, Commits(w)
      PROVE  PagesInv'
  <2>1. reader' = reader /\ movies \subseteq movies'
    BY <1>2, CommitEffect
  <2>2. TableOK'
    <3>1. CASE w[1] = "movie"
      BY <1>2, <3>1, WriteKinds, CommitUnique DEF Commits, PagesInv
    <3>2. CASE w[1] # "movie"
      BY <1>2, <3>2, CommitEffect DEF PagesInv, TableOK, IdsUnique
    <3> QED
      BY <3>1, <3>2
  <2> QED
    BY <2>1, <2>2, VisitorStays DEF PagesInv
<1>3. ASSUME NEW r \in Runners, RunStep(r)
      PROVE  PagesInv'
  <2>1. CASE Written(r)
    <3>1. runner[r].sent \subseteq Write
      BY DEF SeedingTypeOK, Run
    <3> QED
      BY <1>2, <2>1, <3>1 DEF Written
  <2>2. CASE SendMovie(r)
    <3>1. UNCHANGED <<movies, reader>> /\ \E row : BeginMovie(row)
      BY <2>2 DEF SendMovie
    <3>2. TableOK'
      BY <3>1, BeginUnique DEF PagesInv, TableOK
    <3> QED
      BY <3>1, <3>2, VisitorStays DEF PagesInv
  <2>3. CASE RunFails(r)
    <3>1. UNCHANGED <<movies, reader>> /\ inserting' \subseteq inserting
      BY <2>3 DEF RunFails
    <3>2. TableOK'
      BY <3>1 DEF PagesInv, TableOK, IdsUnique
    <3> QED
      BY <3>1, <3>2, VisitorStays DEF PagesInv
  <2>4. Written(r) \/ SendMovie(r) \/ RunFails(r) \/ UNCHANGED pageVars
    BY <1>3 DEF RunStep, Start, AsksAccounts, Bootstrapped, LoggedIn, ListMovies,
       FetchMovies, ListCinemas, ListStudios, SendRow, RowsDone, MoviesDone,
       TablesUnchanged
  <2> QED
    BY <1>1, <2>1, <2>2, <2>3, <2>4
<1>4. CASE LateWrite
  <2>1. late \subseteq Write
    BY DEF SeedingTypeOK
  <2> QED
    BY <1>1, <1>2, <1>4, <2>1 DEF LateWrite
<1> QED
  BY <1>3, <1>4

\* Whoever reads to the last page has seen every movie that was there all the
\* time, and none of them twice, whatever was added or removed meanwhile,
\* however many movies share a creation time, and for every page size.
THEOREM PagesAlwaysComplete == SeedingSpec => []PagesComplete
<1>1. SeedingInit => PagesInv
  <2> SUFFICES ASSUME SeedingInit  PROVE PagesInv
    OBVIOUS
  <2>1. /\ movies = FirstMovies /\ inserting = {} /\ reader.mode = "off"
        /\ reader.last = {} /\ reader.seen = {} /\ reader.base = {}
    BY DEF SeedingInit, MoviePagesInit
  <2>2. ~reader.again
    BY DEF SeedingInit, MoviePagesInit
  <2>3. FirstMovies \subseteq MovieRow
    <3>1. 0 \in Time
      BY DEF Time
    <3>2. FirstMovies \subseteq [id : MovieIds, created : {0},
                                title : Titles \cup {OtherTitle}]
      OBVIOUS
    <3> QED
      BY <3>1, <3>2 DEF MovieRow
  <2>4. TableOK
    BY <2>1, <2>3 DEF TableOK, IdsUnique
  <2> QED
    BY <2>1, <2>2, <2>4 DEF PagesInv, VisitorInv
<1>2. SeedingTypeOK /\ PagesInv /\ [SeedingNext]_seedingVars => PagesInv'
  <2> SUFFICES ASSUME SeedingTypeOK, PagesInv, [SeedingNext]_seedingVars
               PROVE  PagesInv'
    OBVIOUS
  <2>1. CASE UNCHANGED pageVars
    BY <2>1, VisitorStays DEF pageVars, PagesInv, TableOK, IdsUnique
  <2>2. CASE EditorAdds \/ EditorRemoves \/ ReadPage
    BY <2>2, AddedPages, RemovedPages, ReadsOn DEF SeedingTypeOK
  <2> QED
    BY <2>1, <2>2, CommandPages DEF SeedingNext, Over, seedingVars
<1>3. PagesInv => PagesComplete
  BY DEF PagesInv, VisitorInv, PagesComplete
<1> QED
  BY <1>1, <1>2, <1>3, SeedingTypeCorrect, PTL DEF SeedingSpec
=============================================================================
