----------------------------- MODULE Scheduling -----------------------------
(***************************************************************************)
(* Cinemas, studios, seat layouts, movies and showtimes: the transactions  *)
(* of internal/postgres/admin_repository.go, with the advisory lock that   *)
(* the triggers of migration 000006 take on a studio's layout, beside the  *)
(* seat holds and releases of booking_repository.go.                       *)
(*                                                                         *)
(* A transaction (READ COMMITTED) goes through phases, one per statement   *)
(* that may have to wait: in a phase it takes the locks of the statement,  *)
(* and the phase ends with the statement's checks, which see what others   *)
(* have committed.  The checks of keys and references are phases too, for  *)
(* they wait for whoever is writing the row that they look for.  Its own   *)
(* writes become visible when it commits, and the locks are kept until     *)
(* then.  The audit event of an administrator's call is inserted by the    *)
(* same transaction and is not modelled.                                   *)
(***************************************************************************)
EXTENDS AdminApi, FiniteSets

CONSTANTS
    Calls,          \* requests being served, each once
    Requests,       \* the requests administrators and customers may send
    Tables,         \* the committed tables at the start
    NoCinema        \* cinema of a studio that is not there

\* Customers' calls, reduced to the seat rows of a showtime they lock; a hold
\* of no seat is refused.
BookingRequest == [op : {"CreateHold", "ReleaseHold"}, showtime : Showtimes,
                   seats : (SUBSET Seats) \ {{}}]

\* No row has studio 0: it marks a row that is not there.
NoStudio == 0
SeatRow == [studio : Studios \cup {NoStudio}, place : Places]
ShowtimeRow == [studio : Studios \cup {NoStudio}, movie : Movies,
                starts : Nat, ends : Nat, price : Price]

\* The rows of showtime_seats of one showtime; they get a new version, and
\* new ids, whenever they are deleted and materialized again.
Inventory == [version : Nat, price : Price, seats : SUBSET Seats]

TableSet ==
    [cinemas : SUBSET Cinemas,
     studio : [Studios -> Cinemas \cup {NoCinema}],
     name : [Studios -> Names],
     movies : SUBSET Movies,
     seat : [Seats -> SeatRow],
     showtime : [Showtimes -> ShowtimeRow],
     inventory : [Showtimes -> Inventory],
     items : SUBSET (Showtimes \X Seats)]       \* order_items, of any order

Layout(tables, st) == {s \in Seats : tables.seat[s].studio = st}
ShowtimesIn(tables, studios) ==
    {w \in Showtimes : tables.showtime[w].studio \in studios}
Overlap(a, b) == a.starts < b.ends /\ b.starts < a.ends

ASSUME IdsAssumption ==
    /\ Studios \subseteq Nat \ {NoStudio}
    /\ Seats \subseteq Nat
    /\ NoCinema \notin Cinemas
ASSUME RequestsAssumption ==
    /\ Requests # {}
    /\ Requests \subseteq AdminRequest \cup BookingRequest
----------------------------------------------------------------------------
(* What makes tables sound.                                                *)

InventoryMatches(tables) ==
    \A w \in Showtimes :
        LET show == tables.showtime[w]
            stock == tables.inventory[w]
        IN  IF show.studio = NoStudio THEN stock.seats = {}
            ELSE /\ stock.seats = Layout(tables, show.studio)
                 /\ stock.price = show.price

NoneOverlap(tables) ==
    \A v, w \in ShowtimesIn(tables, Studios) :
        v # w /\ tables.showtime[v].studio = tables.showtime[w].studio
            => ~Overlap(tables.showtime[v], tables.showtime[w])

AllReferenced(tables) ==
    /\ \A st \in Studios : tables.studio[st] \in tables.cinemas \cup {NoCinema}
    /\ \A s \in Seats : tables.seat[s].studio # NoStudio
                            => tables.studio[tables.seat[s].studio] # NoCinema
    /\ \A w \in ShowtimesIn(tables, Studios) :
          /\ tables.studio[tables.showtime[w].studio] # NoCinema
          /\ tables.showtime[w].movie \in tables.movies

ASSUME TablesAssumption ==
    /\ Tables \in TableSet
    /\ InventoryMatches(Tables)
    /\ NoneOverlap(Tables)
    /\ AllReferenced(Tables)
    /\ \A item \in Tables.items : item[2] \in Tables.inventory[item[1]].seats
----------------------------------------------------------------------------

VARIABLES
    db,         \* the committed tables
    call,       \* the calls: phase, request, what they have read, answer
    held        \* the locks of each call's transaction

schedulingVars == <<db, call, held>>

Phases == {"read", "map", "refs", "insert", "row", "entry", "layout", "slot",
           "parents", "seats", "copy", "show", "children"}
CallPhases == Phases \cup {"idle", "done"}
Answers == {0, 200, 400, 401, 403, 404, 409, 500}

\* What a call has read: rows of the inventory, with the version and the price
\* they had.
Call == [phase : CallPhases, req : Requests, version : Nat, rows : SUBSET Seats,
         price : Price, answer : Answers]

\* Row locks by strength: FOR KEY SHARE of a foreign key check, that of a
\* look at a row which waits for every writer of it, the lock of an update
\* that changes no key, and that of a deletion, of an update of key columns
\* or of SELECT FOR UPDATE.  Advisory locks and new index entries are
\* exclusive.
Modes == {"key share", "share", "no key update", "update"}
Shared == {"key share", "share"}
Compatible(m, n) ==
    {m, n} \subseteq Shared \/ {m, n} = {"key share", "no key update"}

Resources == ({"layout"} \X (Studios \cup {NoStudio}))
             \cup ({"studio"} \X Studios) \cup ({"seat"} \X Seats)
             \cup ({"name"} \X (Cinemas \X Names))
             \cup ({"cinema"} \X Cinemas) \cup ({"movie"} \X Movies)
             \cup ({"showtime"} \X Showtimes)
             \cup ({"inventory"} \X (Showtimes \X Seats))
Locks == [on : Resources, mode : Modes]

SchedulingTypeOK ==
    /\ db \in TableSet
    /\ call \in [Calls -> Call]
    /\ held \in [Calls -> SUBSET Locks]

Unread == [whole |-> 0, fraction |-> 0]

SchedulingInit ==
    /\ db = Tables
    /\ call = [c \in Calls |-> [phase |-> "idle", version |-> 0, rows |-> {},
                               price |-> Unread, answer |-> 0,
                               req |-> CHOOSE r \in Requests : TRUE]]
    /\ held = [c \in Calls |-> {}]
----------------------------------------------------------------------------
(* Locks.                                                                  *)

Running(c) == call[c].phase \in Phases

RowLock(kind, ids, mode) == {[on |-> <<kind, id>>, mode |-> mode] : id \in ids}

\* Fault: an update locks only the layout it leaves.
OldLayouts(c) ==
    LET r == call[c].req IN
    CASE r.op \in {"CreateSeat", "CreateShowtime"} -> {r.studio}
      [] r.op \in {"UpdateSeat", "DeleteSeat"} -> {db.seat[r.seat].studio}
      [] r.op = "UpdateShowtime" -> {db.showtime[r.showtime].studio}
      [] OTHER -> {}

\* The studios whose layout the triggers lock: the row's old and new one.
Layouts(c) ==
    LET r == call[c].req IN
    CASE r.op \in {"CreateSeat", "CreateShowtime"} -> {r.studio}
      [] r.op = "UpdateSeat" -> {db.seat[r.seat].studio, r.studio}
      [] r.op = "DeleteSeat" -> {db.seat[r.seat].studio}
      [] r.op = "UpdateShowtime" -> {db.showtime[r.showtime].studio, r.studio}
      [] OTHER -> {}

KeepsKey(r) == db.studio[r.studio] = r.cinema /\ db.name[r.studio] = r.name

\* The row that an UPDATE or DELETE of one row locks first.  An update of a
\* seat always takes the lock of a key change, for its trigger runs first.
RowOf(c) ==
    LET r == call[c].req IN
    CASE r.op = "UpdateCinema" -> RowLock("cinema", {r.cinema}, "no key update")
      [] r.op = "DeleteCinema" -> RowLock("cinema", {r.cinema}, "update")
      [] r.op = "UpdateStudio" ->
            RowLock("studio", {r.studio},
                    IF KeepsKey(r) THEN "no key update" ELSE "update")
      [] r.op = "DeleteStudio" -> RowLock("studio", {r.studio}, "update")
      [] r.op = "UpdateMovie" -> RowLock("movie", {r.movie}, "no key update")
      [] r.op = "DeleteMovie" -> RowLock("movie", {r.movie}, "update")
      [] r.op \in {"UpdateSeat", "DeleteSeat"} ->
            RowLock("seat", {r.seat}, "update")
      [] r.op = "UpdateShowtime" ->
            RowLock("showtime", {r.showtime}, "no key update")
      [] r.op = "DeleteShowtime" -> RowLock("showtime", {r.showtime}, "update")
      [] OTHER -> {}

\* UNIQUE (cinema_id, name): a committed studio of the name is looked at once
\* nobody is writing it; where there is none, the new entry is kept until the
\* end, and the next studio of the name waits for it.
Namesakes(r) == {st \in Studios \ {r.studio} :
                    db.studio[st] = r.cinema /\ db.name[st] = r.name}
EntryOf(c) ==
    LET r == call[c].req IN
    CASE KeepsKey(r) -> {}
      [] ~KeepsKey(r) /\ Namesakes(r) # {} ->
            RowLock("studio", Namesakes(r), "share")
      [] OTHER -> RowLock("name", {<<r.cinema, r.name>>}, "update")

\* The exclusion constraint waits for the deletion of a showtime in the way
\* (its writers hold the layout lock, which has been waited for).
SlotOf(c) ==
    LET r == call[c].req IN
    RowLock("showtime",
            {w \in ShowtimesIn(db, {r.studio}) \ {r.showtime} :
                Overlap(db.showtime[w], r)},
            "key share")

\* The inventory materialized after DELETE FROM showtime_seats began.
Kept(c) ==
    LET stock == db.inventory[call[c].req.showtime] IN
    IF stock.version = call[c].version THEN {} ELSE stock.seats

\* The rows that refer to a deleted row: the foreign keys' triggers look for
\* one of them FOR KEY SHARE.
ChildrenOf(c) ==
    LET r == call[c].req IN
    CASE r.op = "DeleteCinema" ->
            RowLock("studio", {st \in Studios : db.studio[st] = r.cinema},
                    "key share")
      [] r.op = "DeleteStudio" ->
            RowLock("seat", Layout(db, r.studio), "key share")
            \cup RowLock("showtime", ShowtimesIn(db, {r.studio}), "key share")
      [] r.op = "DeleteMovie" ->
            RowLock("showtime", {w \in ShowtimesIn(db, Studios) :
                                    db.showtime[w].movie = r.movie},
                    "key share")
      [] r.op = "DeleteShowtime" ->
            RowLock("inventory", {r.showtime} \X Kept(c), "key share")
      [] OTHER -> {}

\* Fault: the foreign keys look at the rows without locking them.
UnlockedParents(c) == {}

\* The rows that the foreign keys of a new or changed column share.  (An
\* unchanged movie is shared here too: nobody can delete it meanwhile.)
ParentsOf(c) ==
    LET r == call[c].req IN
    CASE r.op \in {"CreateStudio", "UpdateStudio"} ->
            RowLock("cinema", {r.cinema} \ {db.studio[r.studio]}, "key share")
      [] r.op \in {"CreateSeat", "UpdateSeat"} ->
            RowLock("studio", {r.studio} \ {db.seat[r.seat].studio}, "key share")
      [] r.op \in {"CreateShowtime", "UpdateShowtime"} ->
            RowLock("studio", {r.studio} \ {db.showtime[r.showtime].studio},
                    "key share")
            \cup RowLock("movie", {r.movie}, "key share")
      [] r.op = "CreateHold" -> RowLock("showtime", {r.showtime}, "key share")
      [] OTHER -> {}

\* Fault: only holds and releases lock the rows they have found.
CustomerSeatRows(c) ==
    LET r == call[c].req IN
    IF r.op \in AdminOps THEN {}
    ELSE RowLock("inventory",
                 {r.showtime} \X (call[c].rows
                                     \cap db.inventory[r.showtime].seats),
                 "update")

\* The rows of showtime_seats that are still those the statement has found.
SeatRowsOf(c) ==
    LET w == call[c].req.showtime
        mode == IF call[c].req.op = "ReleaseHold" THEN "no key update"
                ELSE "update"
    IN  IF db.inventory[w].version = call[c].version
        THEN RowLock("inventory", {w} \X (call[c].rows \cap db.inventory[w].seats),
                     mode)
        ELSE {}

\* A check that looks for a row has come upon one: the first it could lock.
CameUpon(c) == \E lock \in held[c] : lock.mode \in Shared

LookedFor(c) ==
    CASE call[c].req.op \in {"CreateStudio", "UpdateStudio"} -> EntryOf(c)
      [] call[c].req.op \in {"CreateShowtime", "UpdateShowtime"} -> SlotOf(c)
      [] OTHER -> ChildrenOf(c)

Wanted(c) ==
    CASE call[c].phase \in {"row", "show"} -> RowOf(c)
      [] call[c].phase \in {"entry", "slot", "children"} ->
            IF CameUpon(c) THEN {} ELSE LookedFor(c)
      [] call[c].phase = "layout" -> RowLock("layout", Layouts(c), "update")
      [] call[c].phase = "parents" -> ParentsOf(c)
      [] call[c].phase = "seats" -> SeatRowsOf(c)
      [] call[c].phase = "copy" -> RowLock("seat", call[c].rows, "key share")
      [] OTHER -> {}

Missing(c) == Wanted(c) \ held[c]

\* Fault: the seats of a hold are locked in any order.
OrderedLayoutsOnly(c, lock) ==
    lock.on[1] = "layout" =>
        \A other \in Missing(c) : lock.on[2] <= other.on[2]

\* Fault: two layouts are locked in any order.
OrderedHoldsOnly(c, lock) ==
    call[c].phase = "seats" /\ call[c].req.op = "CreateHold" =>
        \A other \in Missing(c) : lock.on[2][2] <= other.on[2][2]

\* lock_studio_layout locks two studios, and CreateHold its seats, by id;
\* DELETE, UPDATE and foreign keys visit rows in no particular order.
InOrder(c, lock) ==
    \A other \in Missing(c) :
        /\ lock.on[1] = "layout" => lock.on[2] <= other.on[2]
        /\ call[c].phase = "seats" /\ call[c].req.op = "CreateHold"
              => lock.on[2][2] <= other.on[2][2]

Conflict(c, d, lock) ==
    c # d /\ \E other \in held[d] :
                other.on = lock.on /\ ~Compatible(lock.mode, other.mode)

Acquire(c) ==
    \E lock \in Missing(c) :
        /\ InOrder(c, lock)
        /\ \A d \in Calls : ~Conflict(c, d, lock)
        /\ held' = [held EXCEPT ![c] = @ \cup {lock}]
        /\ UNCHANGED <<db, call>>

\* The calls that c may be waiting for, and the rings of waiting calls.
Blockers(c) ==
    {d \in Calls : \E lock \in Missing(c) : InOrder(c, lock) /\ Conflict(c, d, lock)}
AllBlocked(calls) == \A c \in calls : Blockers(c) \cap calls # {}
Rings == {ring \in SUBSET Calls :
            /\ ring # {}
            /\ AllBlocked(ring)
            /\ \A part \in SUBSET ring : part # {} /\ AllBlocked(part) => part = ring}
----------------------------------------------------------------------------
(* Steps common to the transactions.                                       *)

At(c, op, phase) ==
    /\ call[c].phase = phase
    /\ call[c].req.op = op
    /\ Missing(c) = {}

Enter(c, phase) ==
    /\ call' = [call EXCEPT ![c] = [@ EXCEPT !.phase = phase]]
    /\ UNCHANGED <<db, held>>

\* The showtime_seats a statement finds when it starts: all of a showtime.
EnterSeats(c) ==
    LET stock == db.inventory[call[c].req.showtime] IN
    /\ call' = [call EXCEPT ![c] = [@ EXCEPT !.phase = "seats", !.rows = stock.seats,
                                            !.version = stock.version]]
    /\ UNCHANGED <<db, held>>

\* Rollback, or commit, and the answer; both release the locks.
Finish(c, status) ==
    /\ call' = [call EXCEPT ![c] = [@ EXCEPT !.phase = "done", !.answer = status]]
    /\ held' = [held EXCEPT ![c] = {}]

Fail(c, status) == Finish(c, status) /\ UNCHANGED db
Commit(c, tables) == Finish(c, 200) /\ db' = tables
----------------------------------------------------------------------------
(* A request arrives.                                                      *)

FirstPhase(op) ==
    CASE op \in {"CreateCinema", "CreateMovie"} -> "insert"
      [] op = "CreateStudio" -> "entry"
      [] op = "CreateSeat" -> "layout"
      [] op \in {"CreateShowtime", "UpdateShowtime"} -> "refs"
      [] op \in {"DeleteShowtime", "ReleaseHold"} -> "seats"
      [] op \in Reads \cup {"CreateHold"} -> "read"
      [] OTHER -> "row"

Creates == {"CreateCinema", "CreateStudio", "CreateMovie", "CreateSeat",
            "CreateShowtime"}
KeyOf(r) == CASE r.op \in CinemaOps -> r.cinema
              [] r.op \in StudioOps -> r.studio
              [] r.op \in MovieOps -> r.movie
              [] r.op \in SeatOps -> r.seat
              [] r.op \in ShowtimeOps -> r.showtime
Present(r) == CASE r.op \in CinemaOps -> r.cinema \in db.cinemas
                [] r.op \in StudioOps -> db.studio[r.studio] # NoCinema
                [] r.op \in MovieOps -> r.movie \in db.movies
                [] r.op \in SeatOps -> db.seat[r.seat].studio # NoStudio
                [] r.op \in ShowtimeOps ->
                      db.showtime[r.showtime].studio # NoStudio

\* newCinemaID: a created row gets an id that nobody else has.
NewId(r) ==
    /\ ~Present(r)
    /\ \A d \in Calls : call[d].phase # "idle" /\ call[d].req.op = r.op
                            => KeyOf(call[d].req) # KeyOf(r)

\* The rows of a showtime that its first statement works on.
FirstRows(r) ==
    CASE r.op = "DeleteShowtime" -> db.inventory[r.showtime].seats
      [] r.op = "ReleaseHold" -> r.seats
      [] OTHER -> {}
FirstVersion(r) ==
    IF r.op \in {"DeleteShowtime", "ReleaseHold"}
    THEN db.inventory[r.showtime].version ELSE 0

\* What is refused has begun no transaction.
Receive(c) ==
    /\ call[c].phase = "idle"
    /\ \E r \in Requests :
          /\ r.op \in Creates => NewId(r)
          /\ r.op = "ReleaseHold" => {r.showtime} \X r.seats \subseteq db.items
          /\ LET refused == r.op \in AdminOps /\ Refusal(r) # 0 IN
             call' = [call EXCEPT ![c] = [@ EXCEPT
                !.req = r,
                !.phase = IF refused THEN "done" ELSE FirstPhase(r.op),
                !.answer = IF refused THEN Refusal(r) ELSE 0,
                !.version = IF refused THEN 0 ELSE FirstVersion(r),
                !.rows = IF refused THEN {} ELSE FirstRows(r)]]
    /\ UNCHANGED <<db, held>>

\* A list, or one cinema: nothing is locked or changed.
Read(c) ==
    LET r == call[c].req IN
    /\ call[c].phase = "read"
    /\ r.op \in Reads
    /\ IF r.op = "FindCinema" /\ r.cinema \notin db.cinemas
       THEN Fail(c, CinemaStatus("CinemaNotFound"))
       ELSE Fail(c, 200)
----------------------------------------------------------------------------
(* Cinemas, studios and movies.                                            *)

CreateCinema(c) ==
    /\ At(c, "CreateCinema", "insert")
    /\ Commit(c, [db EXCEPT !.cinemas = @ \cup {call[c].req.cinema}])

\* The columns of the row do not matter here.
UpdateCinema(c) ==
    /\ At(c, "UpdateCinema", "row")
    /\ IF call[c].req.cinema \in db.cinemas THEN Commit(c, db)
       ELSE Fail(c, CinemaStatus("CinemaNotFound"))

\* A studio of the cinema violates its foreign key.
DeleteCinema(c) ==
    LET cinema == call[c].req.cinema IN
    \/ /\ At(c, "DeleteCinema", "row")
       /\ IF cinema \in db.cinemas THEN Enter(c, "children")
          ELSE Fail(c, CinemaStatus("CinemaNotFound"))
    \/ /\ At(c, "DeleteCinema", "children")
       /\ IF CameUpon(c) THEN Fail(c, CinemaStatus("foreign key"))
          ELSE Commit(c, [db EXCEPT !.cinemas = @ \ {cinema}])

EntryWritten(c) ==
    IF CameUpon(c) THEN Fail(c, StudioStatus("unique")) ELSE Enter(c, "parents")

StudioWritten(c) ==
    LET r == call[c].req IN
    IF r.cinema \in db.cinemas
    THEN Commit(c, [db EXCEPT !.studio[r.studio] = r.cinema,
                              !.name[r.studio] = r.name])
    ELSE Fail(c, StudioStatus("foreign key"))

CreateStudio(c) ==
    \/ At(c, "CreateStudio", "entry") /\ EntryWritten(c)
    \/ At(c, "CreateStudio", "parents") /\ StudioWritten(c)

UpdateStudio(c) ==
    \/ /\ At(c, "UpdateStudio", "row")
       /\ IF Present(call[c].req) THEN Enter(c, "entry")
          ELSE Fail(c, StudioStatus("StudioNotFound"))
    \/ At(c, "UpdateStudio", "entry") /\ EntryWritten(c)
    \/ At(c, "UpdateStudio", "parents") /\ StudioWritten(c)

\* So does a seat or a showtime of the studio.
DeleteStudio(c) ==
    \/ /\ At(c, "DeleteStudio", "row")
       /\ IF Present(call[c].req) THEN Enter(c, "children")
          ELSE Fail(c, StudioStatus("StudioNotFound"))
    \/ /\ At(c, "DeleteStudio", "children")
       /\ IF CameUpon(c) THEN Fail(c, StudioStatus("foreign key"))
          ELSE Commit(c, [db EXCEPT !.studio[call[c].req.studio] = NoCinema])

CreateMovie(c) ==
    /\ At(c, "CreateMovie", "insert")
    /\ Commit(c, [db EXCEPT !.movies = @ \cup {call[c].req.movie}])

UpdateMovie(c) ==
    /\ At(c, "UpdateMovie", "row")
    /\ IF call[c].req.movie \in db.movies THEN Commit(c, db)
       ELSE Fail(c, MovieStatus("MovieNotFound"))

DeleteMovie(c) ==
    LET movie == call[c].req.movie IN
    \/ /\ At(c, "DeleteMovie", "row")
       /\ IF movie \in db.movies THEN Enter(c, "children")
          ELSE Fail(c, MovieStatus("MovieNotFound"))
    \/ /\ At(c, "DeleteMovie", "children")
       /\ IF CameUpon(c) THEN Fail(c, MovieStatus("foreign key"))
          ELSE Commit(c, [db EXCEPT !.movies = @ \ {movie}])
----------------------------------------------------------------------------
(* Seats: the trigger rejects a change of a layout that a showtime uses.   *)

Frozen(studios) == ShowtimesIn(db, studios) # {}

\* UNIQUE (studio_id, row_label, seat_number).
Taken(r) == \E s \in Seats \ {r.seat} :
               db.seat[s] = [studio |-> r.studio, place |-> r.place]

\* The trigger and the unique key, once the layouts are locked.
LayoutWritten(c) ==
    CASE Frozen(Layouts(c)) -> Fail(c, SeatStatus("SeatLayoutInUse"))
      [] ~Frozen(Layouts(c)) /\ Taken(call[c].req) ->
            Fail(c, SeatStatus("SeatAlreadyExists"))
      [] OTHER -> Enter(c, "parents")

SeatWritten(c) ==
    LET r == call[c].req IN
    IF db.studio[r.studio] = NoCinema THEN Fail(c, SeatStatus("StudioNotFound"))
    ELSE Commit(c, [db EXCEPT
                        !.seat[r.seat] = [studio |-> r.studio, place |-> r.place]])

CreateSeat(c) ==
    \/ At(c, "CreateSeat", "layout") /\ LayoutWritten(c)
    \/ At(c, "CreateSeat", "parents") /\ SeatWritten(c)

\* A row that would not change skips the lock and the check.
UpdateSeat(c) ==
    LET r == call[c].req
        old == db.seat[r.seat]
    IN
    \/ /\ At(c, "UpdateSeat", "row")
       /\ CASE old.studio = NoStudio -> Fail(c, SeatStatus("SeatNotFound"))
            [] old = [studio |-> r.studio, place |-> r.place] -> Commit(c, db)
            [] OTHER -> Enter(c, "layout")
    \/ At(c, "UpdateSeat", "layout") /\ LayoutWritten(c)
    \/ At(c, "UpdateSeat", "parents") /\ SeatWritten(c)

DeleteSeat(c) ==
    LET s == call[c].req.seat IN
    \/ /\ At(c, "DeleteSeat", "row")
       /\ IF db.seat[s].studio = NoStudio THEN Fail(c, SeatStatus("SeatNotFound"))
          ELSE Enter(c, "layout")
    \/ /\ At(c, "DeleteSeat", "layout")
       /\ CASE Frozen(Layouts(c)) -> Fail(c, SeatStatus("SeatLayoutInUse"))
            [] /\ ~Frozen(Layouts(c))
               /\ \E w \in Showtimes : s \in db.inventory[w].seats ->
                  Fail(c, SeatStatus("foreign key"))
            [] OTHER -> Commit(c, [db EXCEPT !.seat[s].studio = NoStudio])
----------------------------------------------------------------------------
(* Showtimes.                                                              *)

\* ensureShowtimeReferences, and a price the column cannot hold.
ReferencesRead(c, next) ==
    LET r == call[c].req IN
    CASE r.movie \notin db.movies -> Fail(c, ShowtimeStatus("MovieNotFound"))
      [] r.movie \in db.movies /\ db.studio[r.studio] = NoCinema ->
            Fail(c, ShowtimeStatus("StudioNotFound"))
      [] OTHER -> IF FitsColumn(r.price) THEN Enter(c, next)
                  ELSE Fail(c, ShowtimeStatus("numeric overflow"))

\* Fault: a showtime that moves is not compared with the others.
MovedAnyway(c) ==
    IF call[c].req.op = "CreateShowtime" /\ CameUpon(c)
    THEN Fail(c, ShowtimeStatus("ShowtimeOverlap"))
    ELSE Enter(c, "parents")

\* The exclusion constraint has looked for a showtime in the way.
SlotWritten(c) ==
    IF CameUpon(c) THEN Fail(c, ShowtimeStatus("ShowtimeOverlap"))
    ELSE Enter(c, "parents")

ParentsGone(r) == db.studio[r.studio] = NoCinema \/ r.movie \notin db.movies

\* materializeShowtimeSeats: INSERT ... SELECT of the studio's seats.
EnterCopy(c) ==
    /\ call' = [call EXCEPT ![c] = [@ EXCEPT !.phase = "copy",
                                            !.rows = Layout(db, call[c].req.studio)]]
    /\ UNCHANGED <<db, held>>

\* Fault: the rows that stay are updated in place and keep their ids.
UpdatedInPlace(c) ==
    LET r == call[c].req
        w == r.showtime
    IN  Commit(c, [db EXCEPT
            !.showtime[w] = [studio |-> r.studio, movie |-> r.movie,
                             starts |-> r.starts, ends |-> r.ends,
                             price |-> r.price],
            !.inventory[w] = [version |-> @.version, price |-> r.price,
                              seats |-> call[c].rows]])

ShowtimeWritten(c) ==
    LET r == call[c].req
        w == r.showtime
    IN  Commit(c, [db EXCEPT
            !.showtime[w] = [studio |-> r.studio, movie |-> r.movie,
                             starts |-> r.starts, ends |-> r.ends,
                             price |-> r.price],
            !.inventory[w] = [version |-> @.version + 1, price |-> r.price,
                              seats |-> call[c].rows]])

CreateShowtime(c) ==
    \/ At(c, "CreateShowtime", "refs") /\ ReferencesRead(c, "layout")
    \/ At(c, "CreateShowtime", "layout") /\ Enter(c, "slot")
    \/ At(c, "CreateShowtime", "slot") /\ SlotWritten(c)
    \/ /\ At(c, "CreateShowtime", "parents")
       /\ IF ParentsGone(call[c].req) THEN Fail(c, ShowtimeStatus("foreign key"))
          ELSE EnterCopy(c)
    \/ At(c, "CreateShowtime", "copy") /\ ShowtimeWritten(c)

\* order_items keep the seats they name.
Ordered(c) == ({call[c].req.showtime} \X call[c].rows) \cap db.items # {}

UpdateShowtime(c) ==
    \/ At(c, "UpdateShowtime", "refs") /\ ReferencesRead(c, "row")
    \/ /\ At(c, "UpdateShowtime", "row")
       /\ IF Present(call[c].req) THEN Enter(c, "layout")
          ELSE Fail(c, ShowtimeStatus("ShowtimeNotFound"))
    \/ At(c, "UpdateShowtime", "layout") /\ Enter(c, "slot")
    \/ At(c, "UpdateShowtime", "slot") /\ SlotWritten(c)
    \/ /\ At(c, "UpdateShowtime", "parents")
       /\ IF ParentsGone(call[c].req) THEN Fail(c, ShowtimeStatus("foreign key"))
          ELSE EnterSeats(c)
    \/ /\ At(c, "UpdateShowtime", "seats")
       /\ IF Ordered(c) THEN Fail(c, ShowtimeStatus("ShowtimeInUse"))
          ELSE EnterCopy(c)
    \/ At(c, "UpdateShowtime", "copy") /\ ShowtimeWritten(c)

\* Rows materialized after the first statement began are not deleted by it:
\* then the second statement violates their foreign key.
DeleteShowtime(c) ==
    LET w == call[c].req.showtime IN
    \/ /\ At(c, "DeleteShowtime", "seats")
       /\ IF Kept(c) = {} /\ Ordered(c)
          THEN Fail(c, ShowtimeStatus("ShowtimeInUse"))
          ELSE Enter(c, "show")
    \/ /\ At(c, "DeleteShowtime", "show")
       /\ IF Present(call[c].req) THEN Enter(c, "children")
          ELSE Fail(c, ShowtimeStatus("ShowtimeNotFound"))
    \/ /\ At(c, "DeleteShowtime", "children")
       /\ IF CameUpon(c) THEN Fail(c, ShowtimeStatus("ShowtimeInUse"))
          ELSE Commit(c, [db EXCEPT !.showtime[w].studio = NoStudio,
                                    !.inventory[w].seats = {}])
----------------------------------------------------------------------------
(* The booking repository's transactions on the same rows, in outline.     *)

\* A customer reads the seat map of a showtime, if it exists, and asks for
\* seats by the ids it shows.  Seats of an order item may be free again, if
\* the hold has expired or was released.
ReadMap(c) ==
    LET w == call[c].req.showtime
        stock == db.inventory[w]
    IN
    \/ /\ At(c, "CreateHold", "read")
       /\ IF db.showtime[w].studio = NoStudio THEN Fail(c, 404)
          ELSE Enter(c, "map")
    \/ /\ At(c, "CreateHold", "map")
       /\ IF call[c].req.seats \subseteq stock.seats
          THEN /\ call' = [call EXCEPT ![c] = [@ EXCEPT
                              !.phase = "seats", !.rows = call[c].req.seats,
                              !.version = stock.version, !.price = stock.price]]
               /\ UNCHANGED <<db, held>>
          ELSE Fail(c, 200)

CreateHold(c) ==
    LET w == call[c].req.showtime
        wanted == {w} \X call[c].req.seats
    IN
    \/ /\ At(c, "CreateHold", "seats")
       /\ \/ /\ db.inventory[w].version = call[c].version
             /\ call[c].req.seats \subseteq db.inventory[w].seats
             /\ Enter(c, "parents")
          \/ /\ \/ db.inventory[w].version # call[c].version
                \/ ~(call[c].req.seats \subseteq db.inventory[w].seats)
                \/ wanted \cap db.items # {}
             /\ Fail(c, 409)
    \/ /\ At(c, "CreateHold", "parents")
       /\ Commit(c, [db EXCEPT !.items = @ \cup wanted])

\* CancelOrder and ExpirePendingHolds; the item rows stay.  It stands for every
\* update of the seats of an order, the webhook's sale and late release too.
ReleaseHold(c) == At(c, "ReleaseHold", "seats") /\ Commit(c, db)
----------------------------------------------------------------------------
(* A deadlock is broken by the database after a second; a client that      *)
(* goes away cancels the context, and with it the transaction.             *)

Deadlock(c) == (\E ring \in Rings : c \in ring) /\ Fail(c, 500)
Cancelled(c) == Running(c) /\ Fail(c, 0)

Step(c) ==
    \/ Acquire(c)
    \/ CreateCinema(c) \/ UpdateCinema(c) \/ DeleteCinema(c)
    \/ CreateStudio(c) \/ UpdateStudio(c) \/ DeleteStudio(c)
    \/ CreateMovie(c) \/ UpdateMovie(c) \/ DeleteMovie(c)
    \/ CreateSeat(c) \/ UpdateSeat(c) \/ DeleteSeat(c)
    \/ CreateShowtime(c) \/ UpdateShowtime(c) \/ DeleteShowtime(c)
    \/ Read(c) \/ ReadMap(c) \/ CreateHold(c) \/ ReleaseHold(c) \/ Deadlock(c)

Finished ==
    /\ \A c \in Calls : call[c].phase = "done"
    /\ UNCHANGED schedulingVars

SchedulingNext ==
    \/ \E c \in Calls : Receive(c) \/ Step(c) \/ Cancelled(c)
    \/ Finished

SchedulingSpec == SchedulingInit /\ [][SchedulingNext]_schedulingVars
----------------------------------------------------------------------------
(* What the administrators and the customers rely on.                      *)

\* The rows of showtime_seats are the seats of the showtime's studio, at the
\* showtime's price: the layout check of the trigger and the copy of
\* materializeShowtimeSeats are two statements, and only the advisory lock
\* keeps a change of the layout from falling between them.
InventoryMatchesLayout == InventoryMatches(db)

\* Two showtimes of a studio never overlap, however creations and moves race.
NoOverlap == NoneOverlap(db)

\* Every reference of a committed row leads to a committed row: a delete that
\* races a create or a move of a child waits for it, or makes it fail.
ReferencesHold == AllReferenced(db)

\* A screening for which seats were ordered keeps its studio, movie, time and
\* price, and all its seats: an update or a deletion that has passed its
\* check cannot undercut a hold that commits meanwhile.
OrderedScreeningsKept ==
    [][\A item \in db.items :
          /\ item \in db'.items
          /\ db'.showtime[item[1]] = db.showtime[item[1]]
          /\ db'.inventory[item[1]] = db.inventory[item[1]]]_schedulingVars

\* Whoever gets seats that a seat map showed gets them at the price it showed,
\* for a change of the price gives every row of the showtime a new id.
PriceAsShown ==
    \A c \in Calls :
        call[c].req.op = "CreateHold" /\ call[c].phase = "parents"
            => db.inventory[call[c].req.showtime].price = call[c].price

\* Deadlocks have few causes: in every ring of waiting calls somebody locks
\* against the order of the others.  That is an update or a deletion of a seat
\* that has its row and waits for the layout, an update or a deletion of a
\* showtime that waits for its inventory, the update of a seat hold's rows, or
\* an update of a studio.  Without these no creations, catalogue deletions,
\* moves of seats and showtimes and holds wait for each other for ever.
DeadlockCauses ==
    \A ring \in Rings : \E c \in ring :
        \/ call[c].req.op \in {"UpdateStudio", "DeleteSeat", "DeleteShowtime",
                               "ReleaseHold"}
        \/ call[c].req.op = "UpdateSeat" /\ call[c].phase = "layout"
        \/ call[c].req.op = "UpdateShowtime" /\ call[c].phase = "seats"

\* The layout locks alone are never to blame: a ring has somebody in it who
\* waits for a row, or for a studio's name.
LayoutsNeverDeadlock ==
    \A ring \in Rings : \E c \in ring : call[c].phase # "layout"

\* A customer's hold is drawn into a deadlock only by somebody who changes,
\* deletes or releases seats of the very showtime that it is for: not by other
\* holds, nor by what happens to other showtimes, studios and movies.
HoldDeadlocks ==
    \A ring \in Rings : \A h \in ring :
        call[h].req.op = "CreateHold" =>
            \E c \in ring :
                /\ call[c].req.op \in {"UpdateShowtime", "DeleteShowtime",
                                       "ReleaseHold"}
                /\ call[c].req.showtime = call[h].req.showtime
=============================================================================
