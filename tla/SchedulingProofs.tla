-------------------------- MODULE SchedulingProofs --------------------------
(***************************************************************************)
(* Theorems about the scheduling transactions, for any number of calls,    *)
(* studios, seats, movies and showtimes.                                   *)
(*                                                                         *)
(* A step of a call either leaves the committed tables alone, and with     *)
(* them every other call, or is one of a few commits.  The invariant says, *)
(* for each kind of transaction, which locks it has in each phase and what *)
(* its checks have established; a commit of another call cannot undo that, *)
(* because it would need a lock that conflicts.                            *)
(*                                                                         *)
(* The last part adds to the invariant all the locks a call may have.  In  *)
(* a ring without the causes that DeadlockCauses names, a call that waits  *)
(* for somebody's row leads to a deletion, the deletion to what it looks   *)
(* for, and so on until nobody is left; what remains are layouts and the   *)
(* seats of holds, which are locked smallest first.                        *)
(***************************************************************************)
EXTENDS Scheduling, TLAPS

USE IdsAssumption

----------------------------------------------------------------------------
(* Types.                                                                  *)

LEMMA StatusTypes ==
    /\ \A e : CinemaStatus(e) \in Answers
    /\ \A e : StudioStatus(e) \in Answers
    /\ \A e : MovieStatus(e) \in Answers
    /\ \A e : SeatStatus(e) \in Answers
    /\ \A e : ShowtimeStatus(e) \in Answers
<1>1. \A e : SeatStatus(e) \in Answers
  BY DEF SeatStatus, Answers
<1>2. \A e : ShowtimeStatus(e) \in Answers
  BY DEF ShowtimeStatus, Answers
<1> QED
  BY <1>1, <1>2 DEF CinemaStatus, StudioStatus, MovieStatus, Answers

LEMMA RequestTypes ==
    ASSUME NEW r \in Requests
    PROVE  /\ r.op \in AdminOps \/ r.op \in {"CreateHold", "ReleaseHold"}
           /\ r.op \in AdminOps => r.caller \in Callers
           /\ r.op \in CinemaOps => r.cinema \in Cinemas
           /\ r.op \in StudioOps =>
                 r.studio \in Studios /\ r.cinema \in Cinemas /\ r.name \in Names
           /\ r.op \in MovieOps => r.movie \in Movies
           /\ r.op \in SeatOps =>
                 r.seat \in Seats /\ r.studio \in Studios /\ r.place \in Places
           /\ r.op \in ShowtimeOps =>
                 /\ r.showtime \in Showtimes /\ r.studio \in Studios
                 /\ r.movie \in Movies /\ r.starts \in Nat /\ r.ends \in Nat
                 /\ r.price \in Price
           /\ r.op \in {"CreateHold", "ReleaseHold"} =>
                 /\ r.showtime \in Showtimes
                 /\ r.seats \in (SUBSET Seats) \ {{}}
<1>1. r \in CinemaRequest \/ r \in StudioRequest \/ r \in MovieRequest
      \/ r \in SeatRequest \/ r \in ShowtimeRequest \/ r \in BookingRequest
  BY RequestsAssumption DEF AdminRequest
<1> USE DEF CinemaOps, StudioOps, MovieOps, SeatOps, ShowtimeOps, AdminOps
<1>2. CASE r \in CinemaRequest
  BY <1>2 DEF CinemaRequest
<1>3. CASE r \in StudioRequest
  BY <1>3 DEF StudioRequest
<1>4. CASE r \in MovieRequest
  BY <1>4 DEF MovieRequest
<1>5. CASE r \in SeatRequest
  BY <1>5 DEF SeatRequest
<1>6. CASE r \in ShowtimeRequest
  BY <1>6 DEF ShowtimeRequest
<1>7. CASE r \in BookingRequest
  BY <1>7 DEF BookingRequest
<1> QED
  BY <1>1, <1>2, <1>3, <1>4, <1>5, <1>6, <1>7

LEMMA RefusalType ==
    ASSUME NEW r \in Requests, r.op \in AdminOps
    PROVE  Refusal(r) \in Answers
<1>1. r.caller \in Callers
  BY RequestTypes
<1>2. RoleRefusal(r) \in {0, 401, 403}
  BY <1>1 DEF RoleRefusal, Callers
<1>3. CinemaRefusal(r) \in {0, 400}
  BY DEF CinemaRefusal
<1>4. StudioRefusal(r) \in {0, 400, 500}
  BY DEF StudioRefusal
<1>5. SeatRefusal(r) \in {0, 400}
  BY DEF SeatRefusal
<1>6. MovieRefusal(r) \in {0, 400}
  BY DEF MovieRefusal
<1>7. ShowtimeRefusal(r) \in {0, 400}
  BY DEF ShowtimeRefusal
<1>8. Refusal(r) \in {0, 400, 401, 403, 500}
  BY <1>2, <1>3, <1>4, <1>5, <1>6, <1>7 DEF Refusal, AdminOps
<1> QED
  BY <1>8 DEF Answers
----------------------------------------------------------------------------
(* The invariant.                                                          *)

Lock(kind, id, mode) == [on |-> <<kind, id>>, mode |-> mode]
StockLocks(w, seats) == {Lock("inventory", <<w, s>>, "update") : s \in seats}

\* The layout is locked, and no showtime uses it.
Settled(t, locks, st) ==
    /\ Lock("layout", st, "update") \in locks
    /\ ShowtimesIn(t, {st}) = {}

\* What the locks and the checks of a call k have established in tables t:
\* of a creation, a change ...
CreatingSeat(t, k, locks) ==
    k.req.op = "CreateSeat" /\ k.phase \in Phases =>
        /\ t.seat[k.req.seat].studio = NoStudio
        /\ k.phase = "parents" => Settled(t, locks, k.req.studio)

UpdatingSeat(t, k, locks) ==
    k.req.op = "UpdateSeat" /\ k.phase \in {"layout", "parents"} =>
        /\ Lock("seat", k.req.seat, "update") \in locks
        /\ t.seat[k.req.seat].studio # NoStudio
        /\ k.phase = "parents" =>
              /\ Settled(t, locks, k.req.studio)
              /\ Settled(t, locks, t.seat[k.req.seat].studio)

\* ... and a deletion of a seat,
DeletingSeat(t, k, locks) ==
    k.req.op = "DeleteSeat" /\ k.phase = "layout" =>
        /\ Lock("seat", k.req.seat, "update") \in locks
        /\ t.seat[k.req.seat].studio # NoStudio

\* of a showtime's slot, its parents and the seats copied for it,
PlacingShowtime(t, k, locks) ==
    k.req.op \in {"CreateShowtime", "UpdateShowtime"} =>
        /\ k.phase \in {"slot", "parents", "seats", "copy"} =>
              Lock("layout", k.req.studio, "update") \in locks
        /\ k.phase \in {"parents", "seats", "copy"} =>
              \A v \in ShowtimesIn(t, {k.req.studio}) \ {k.req.showtime} :
                 ~Overlap(t.showtime[v], k.req)
        /\ k.phase \in {"seats", "copy"} =>
              /\ t.studio[k.req.studio] # NoCinema
              /\ k.req.movie \in t.movies
              /\ Lock("movie", k.req.movie, "key share") \in locks
              /\ \/ Lock("studio", k.req.studio, "key share") \in locks
                 \/ t.showtime[k.req.showtime].studio = k.req.studio
        /\ k.phase = "copy" => k.rows = Layout(t, k.req.studio)

\* of the showtime itself and what was sold of it,
CreatingShowtime(t, k, locks) ==
    k.req.op = "CreateShowtime" /\ k.phase \in Phases =>
        t.showtime[k.req.showtime].studio = NoStudio

Unsold(t, w) == \A item \in t.items : item[1] # w

UpdatingShowtime(t, k, locks) ==
    LET w == k.req.showtime IN
    k.req.op = "UpdateShowtime" =>
        /\ k.phase \in {"layout", "slot", "parents", "seats", "copy"} =>
              /\ Lock("showtime", w, "no key update") \in locks
              /\ t.showtime[w].studio # NoStudio
        /\ k.phase = "seats" => /\ k.version = t.inventory[w].version
                                /\ k.rows = t.inventory[w].seats
        /\ k.phase = "copy" => /\ StockLocks(w, t.inventory[w].seats) \subseteq locks
                               /\ Unsold(t, w)

DeletingShowtime(t, k, locks) ==
    LET w == k.req.showtime
        stock == t.inventory[w]
    IN
    k.req.op = "DeleteShowtime" /\ k.phase \in {"seats", "show", "children"} =>
        /\ k.version <= stock.version
        /\ k.version = stock.version =>
              /\ stock.seats \subseteq k.rows
              /\ k.phase # "seats" => /\ StockLocks(w, stock.seats) \subseteq locks
                                      /\ Unsold(t, w)
        /\ k.phase = "children" => /\ Lock("showtime", w, "update") \in locks
                                   /\ t.showtime[w].studio # NoStudio

\* and of a hold.
Holding(t, k, locks) ==
    LET w == k.req.showtime
        stock == t.inventory[w]
    IN
    k.req.op = "CreateHold" =>
        /\ k.phase = "seats" =>
              /\ k.rows = k.req.seats
              /\ k.version <= stock.version
              /\ k.version = stock.version => k.price = stock.price
        /\ k.phase = "parents" =>
              /\ k.req.seats \subseteq stock.seats
              /\ k.price = stock.price
              /\ StockLocks(w, k.req.seats) \subseteq locks

\* A studio or a movie is locked before the rows that refer to it are looked
\* for.
DeletingParent(k, locks) ==
    k.phase = "children" =>
        /\ k.req.op = "DeleteStudio" => Lock("studio", k.req.studio, "update") \in locks
        /\ k.req.op = "DeleteMovie" => Lock("movie", k.req.movie, "update") \in locks

OnStock(k) ==
    k.phase = "seats" =>
        k.req.op \in {"UpdateShowtime", "DeleteShowtime", "CreateHold", "ReleaseHold"}

Established(t, k, locks) ==
    /\ OnStock(k)
    /\ DeletingParent(k, locks)
    /\ CreatingSeat(t, k, locks)
    /\ UpdatingSeat(t, k, locks)
    /\ DeletingSeat(t, k, locks)
    /\ PlacingShowtime(t, k, locks)
    /\ CreatingShowtime(t, k, locks)
    /\ UpdatingShowtime(t, k, locks)
    /\ DeletingShowtime(t, k, locks)
    /\ Holding(t, k, locks)

\* No two calls have conflicting locks ...
Exclusion ==
    \A c, d \in Calls : c # d =>
        \A l \in held[c], m \in held[d] : l.on = m.on => Compatible(l.mode, m.mode)

\* ... or the same new id.
NewIds ==
    \A c, d \in Calls :
        /\ c # d /\ call[c].phase # "idle" /\ call[d].phase # "idle"
        /\ call[c].req.op = call[d].req.op
        => /\ call[c].req.op = "CreateSeat" => call[c].req.seat # call[d].req.seat
           /\ call[c].req.op = "CreateShowtime" =>
                 call[c].req.showtime # call[d].req.showtime

SoldFromStock(t) == \A item \in t.items : item[2] \in t.inventory[item[1]].seats

Sound(t) ==
    /\ InventoryMatches(t)
    /\ NoneOverlap(t)
    /\ AllReferenced(t)
    /\ SoldFromStock(t)

SchedulingInv ==
    /\ SchedulingTypeOK
    /\ Exclusion
    /\ NewIds
    /\ \A c \in Calls : Established(db, call[c], held[c])
    /\ Sound(db)

----------------------------------------------------------------------------
(* Steps that leave the tables alone.                                      *)

LEMMA LocksGrow ==
    ASSUME NEW t, NEW k, NEW locks, NEW more, locks \subseteq more,
           Established(t, k, locks)
    PROVE  Established(t, k, more)
<1>1. CreatingSeat(t, k, more) /\ UpdatingSeat(t, k, more) /\ DeletingSeat(t, k, more)
  BY DEF Established, CreatingSeat, UpdatingSeat, DeletingSeat, Settled
<1>2. PlacingShowtime(t, k, more) /\ CreatingShowtime(t, k, more)
  BY DEF Established, PlacingShowtime, CreatingShowtime
<1>3. UpdatingShowtime(t, k, more) /\ DeletingShowtime(t, k, more) /\ Holding(t, k, more)
  BY DEF Established, UpdatingShowtime, DeletingShowtime, Holding
<1> QED
  BY <1>1, <1>2, <1>3 DEF Established, OnStock, DeletingParent

LEMMA AtRest ==
    ASSUME NEW t, NEW k, NEW locks, k.phase \in {"idle", "done"}
    PROVE  Established(t, k, locks)
BY DEF Established, OnStock, DeletingParent, Phases, CreatingSeat, UpdatingSeat,
       DeletingSeat, PlacingShowtime, CreatingShowtime, UpdatingShowtime,
       DeletingShowtime, Holding

\* A call that goes on, with the same request.
LEMMA Moves ==
    ASSUME SchedulingInv, NEW c \in Calls, NEW k \in Call,
           k.req = call[c].req, call[c].phase # "idle",
           call' = [call EXCEPT ![c] = k], UNCHANGED <<db, held>>,
           Established(db, k, held[c])
    PROVE  SchedulingInv'
<1>1. SchedulingTypeOK'
  BY DEF SchedulingInv, SchedulingTypeOK
<1>2. \A d \in Calls : call'[d] = IF d = c THEN k ELSE call[d]
  BY DEF SchedulingInv, SchedulingTypeOK
<1>3. Exclusion'
  BY DEF SchedulingInv, Exclusion
<1>4. NewIds'
  BY <1>2 DEF SchedulingInv, NewIds
<1>5. \A d \in Calls : Established(db, call[d], held[d])'
  BY <1>2 DEF SchedulingInv
<1>6. Sound(db)'
  BY DEF SchedulingInv
<1> QED
  BY <1>1, <1>3, <1>4, <1>5, <1>6 DEF SchedulingInv

\* The end of a call, whatever became of the tables.
LEMMA Ends ==
    ASSUME SchedulingInv, NEW c \in Calls, call[c].phase # "idle",
           NEW status \in Answers, Finish(c, status),
           db' \in TableSet, Sound(db'),
           \A d \in Calls \ {c} : Established(db', call[d], held[d])
    PROVE  SchedulingInv'
<1>1. SchedulingTypeOK'
  <2>1. [call[c] EXCEPT !.phase = "done", !.answer = status] \in Call
    BY DEF SchedulingInv, SchedulingTypeOK, Call, CallPhases
  <2> QED
    BY <2>1 DEF SchedulingInv, SchedulingTypeOK, Finish
<1>2. \A d \in Calls \ {c} : call'[d] = call[d] /\ held'[d] = held[d]
  BY DEF SchedulingInv, SchedulingTypeOK, Finish
<1>3. call'[c].phase = "done" /\ call'[c].req = call[c].req /\ held'[c] = {}
  BY DEF SchedulingInv, SchedulingTypeOK, Finish, Call
<1>4. Exclusion'
  BY <1>2, <1>3 DEF SchedulingInv, Exclusion
<1>5. NewIds'
  BY <1>2, <1>3 DEF SchedulingInv, NewIds
<1>6. \A d \in Calls : Established(db, call[d], held[d])'
  BY <1>2, <1>3, AtRest
<1> QED
  BY <1>1, <1>4, <1>5, <1>6 DEF SchedulingInv

LEMMA Fails ==
    ASSUME SchedulingInv, NEW c \in Calls, call[c].phase # "idle",
           NEW status \in Answers, Fail(c, status)
    PROVE  SchedulingInv'
BY Ends DEF Fail, SchedulingInv, SchedulingTypeOK

----------------------------------------------------------------------------
(* Commits, and what they cannot undo.                                     *)

LEMMA OneHolder ==
    ASSUME Exclusion, NEW c \in Calls, NEW d \in Calls, c # d, NEW kind, NEW id,
           NEW m, NEW n, Lock(kind, id, m) \in held[c], Lock(kind, id, n) \in held[d]
    PROVE  /\ m \in Shared \/ n \in Shared
           /\ "update" \notin {m, n}
<1>1. Lock(kind, id, m).on = Lock(kind, id, n).on
  BY DEF Lock
<1>2. Compatible(Lock(kind, id, m).mode, Lock(kind, id, n).mode)
  BY <1>1 DEF Exclusion
<1> QED
  BY <1>2 DEF Lock, Compatible, Shared

\* Of cinemas, studios and movies, none that a showtime being written needs.
LEMMA ParentsCommit ==
    ASSUME SchedulingInv, NEW c \in Calls, call[c].phase # "idle", Finish(c, 200),
           db' \in TableSet, AllReferenced(db'),
           db'.seat = db.seat, db'.showtime = db.showtime,
           db'.inventory = db.inventory, db'.items = db.items,
           \A d \in Calls \ {c} :
              /\ call[d].req.op \in {"CreateShowtime", "UpdateShowtime"}
              /\ call[d].phase \in {"seats", "copy"}
              => /\ db'.studio[call[d].req.studio] # NoCinema
                 /\ call[d].req.movie \in db'.movies
    PROVE  SchedulingInv'
<1>1. \A st : Layout(db', st) = Layout(db, st)
  BY DEF Layout
<1>2. \A sts : ShowtimesIn(db', sts) = ShowtimesIn(db, sts)
  BY DEF ShowtimesIn
<1>3. Sound(db')
  BY <1>1, <1>2 DEF SchedulingInv, Sound, InventoryMatches, NoneOverlap, SoldFromStock
<1>4. ASSUME NEW d \in Calls \ {c}
      PROVE  Established(db', call[d], held[d])
  <2> DEFINE k == call[d]
             locks == held[d]
  <2>1. Established(db, k, locks)
    BY DEF SchedulingInv
  <2> HIDE DEF k, locks
  <2>2. CreatingSeat(db', k, locks) /\ UpdatingSeat(db', k, locks)
        /\ DeletingSeat(db', k, locks)
    BY <1>2, <2>1 DEF Established, CreatingSeat, UpdatingSeat, DeletingSeat, Settled
  <2>3. PlacingShowtime(db', k, locks)
    BY <1>1, <1>2, <2>1 DEF Established, PlacingShowtime, k
  <2>4. CreatingShowtime(db', k, locks) /\ UpdatingShowtime(db', k, locks)
        /\ DeletingShowtime(db', k, locks) /\ Holding(db', k, locks)
    BY <2>1 DEF Established, CreatingShowtime, UpdatingShowtime, DeletingShowtime,
                Holding, Unsold
  <2> QED
    BY <2>1, <2>2, <2>3, <2>4 DEF Established, k, locks
<1> QED
  BY <1>3, <1>4, Ends DEF Answers

\* Of a seat that nobody else is writing, in layouts no showtime uses.
LEMMA SeatCommit ==
    ASSUME SchedulingInv, NEW c \in Calls, call[c].phase # "idle", Finish(c, 200),
           NEW s \in Seats, NEW row \in SeatRow, db' \in TableSet,
           db'.seat = [db.seat EXCEPT ![s] = row],
           db'.cinemas = db.cinemas, db'.studio = db.studio,
           db'.movies = db.movies, db'.showtime = db.showtime,
           db'.inventory = db.inventory, db'.items = db.items,
           row.studio # NoStudio => /\ Settled(db, held[c], row.studio)
                                    /\ db.studio[row.studio] # NoCinema,
           db.seat[s].studio # NoStudio => Settled(db, held[c], db.seat[s].studio),
           \/ /\ db.seat[s].studio # NoStudio
              /\ Lock("seat", s, "update") \in held[c]
           \/ /\ db.seat[s].studio = NoStudio
              /\ call[c].req.op = "CreateSeat" /\ call[c].req.seat = s
    PROVE  SchedulingInv'
<1> DEFINE touched == {row.studio, db.seat[s].studio} \ {NoStudio}
<1>1. db \in TableSet /\ NoStudio \notin Studios
  BY DEF SchedulingInv, SchedulingTypeOK
<1>2. \A st \in Studios \ touched : Layout(db', st) = Layout(db, st)
  BY <1>1 DEF Layout, TableSet, SeatRow
<1>3. \A sts : ShowtimesIn(db', sts) = ShowtimesIn(db, sts)
  BY DEF ShowtimesIn
<1>4. \A st \in touched : Settled(db, held[c], st)
  OBVIOUS
<1> HIDE DEF touched
<1>5. Sound(db')
  <2>1. InventoryMatches(db')
    <3>1. ASSUME NEW w \in Showtimes, db.showtime[w].studio # NoStudio
          PROVE  Layout(db', db.showtime[w].studio) = Layout(db, db.showtime[w].studio)
      <4>1. db.showtime[w].studio \in Studios
        BY <1>1, <3>1 DEF TableSet, ShowtimeRow
      <4>2. db.showtime[w].studio \notin touched
        BY <1>4 DEF Settled, ShowtimesIn
      <4> QED
        BY <1>2, <4>1, <4>2
    <3> QED
      BY <3>1 DEF SchedulingInv, Sound, InventoryMatches
  <2>2. NoneOverlap(db') /\ SoldFromStock(db')
    BY <1>3 DEF SchedulingInv, Sound, NoneOverlap, SoldFromStock
  <2>3. AllReferenced(db')
    BY <1>1, <1>3 DEF SchedulingInv, Sound, AllReferenced, TableSet
  <2> QED
    BY <2>1, <2>2, <2>3 DEF Sound
<1>6. ASSUME NEW d \in Calls \ {c}
      PROVE  Established(db', call[d], held[d])
  <2> DEFINE k == call[d]
             locks == held[d]
  <2>1. Established(db, k, locks)
    BY DEF SchedulingInv
  <2>2. Exclusion /\ NewIds
    BY DEF SchedulingInv
  <2>3. \A st \in touched : Lock("layout", st, "update") \notin locks
    BY <1>4, <2>2, OneHolder DEF Settled
  <2>4. Lock("seat", s, "update") \in locks => db.seat[s].studio = NoStudio
    BY <2>2, OneHolder
  <2>5. k.req.op = "CreateSeat" /\ k.phase \in Phases => k.req.seat # s
    BY <2>1, <2>2 DEF Established, CreatingSeat, NewIds, Phases
  <2>6. k.req \in Requests
    BY DEF SchedulingInv, SchedulingTypeOK, Call
  <2> HIDE DEF k, locks
  <2>7. CreatingSeat(db', k, locks)
    <3>1. k.req.op = "CreateSeat" => k.req.seat \in Seats
      BY <2>6, RequestTypes DEF SeatOps
    <3> QED
      BY <1>1, <1>3, <2>1, <2>5, <3>1 DEF Established, CreatingSeat, Settled, TableSet
  <2>8. UpdatingSeat(db', k, locks) /\ DeletingSeat(db', k, locks)
    <3>1. k.req.op \in {"UpdateSeat", "DeleteSeat"} => k.req.seat \in Seats
      BY <2>6, RequestTypes DEF SeatOps
    <3>2. db.seat \in [Seats -> SeatRow]
      BY <1>1 DEF TableSet
    <3>3. UpdatingSeat(db', k, locks)
      BY <1>3, <2>1, <2>4, <3>1, <3>2 DEF Established, UpdatingSeat, Settled
    <3>4. DeletingSeat(db', k, locks)
      BY <2>1, <2>4, <3>1, <3>2 DEF Established, DeletingSeat
    <3> QED
      BY <3>3, <3>4
  <2>9. PlacingShowtime(db', k, locks)
    <3>1. k.req.op \in {"CreateShowtime", "UpdateShowtime"} => k.req.studio \in Studios
      BY <2>6, RequestTypes DEF ShowtimeOps
    <3> QED
      BY <1>2, <1>3, <2>1, <2>3, <3>1 DEF Established, PlacingShowtime
  <2>10. CreatingShowtime(db', k, locks) /\ UpdatingShowtime(db', k, locks)
         /\ DeletingShowtime(db', k, locks) /\ Holding(db', k, locks)
    BY <2>1 DEF Established, CreatingShowtime, UpdatingShowtime, DeletingShowtime,
                Holding, Unsold
  <2> QED
    BY <2>1, <2>7, <2>8, <2>9, <2>10 DEF Established, k, locks
<1> QED
  BY <1>5, <1>6, Ends DEF Answers

\* Of a hold, on seats that are locked and still those of the showtime.
LEMMA HoldCommit ==
    ASSUME SchedulingInv, NEW c \in Calls, call[c].phase = "parents", Finish(c, 200),
           call[c].req.op = "CreateHold", db' \in TableSet,
           db'.items = db.items \cup ({call[c].req.showtime} \X call[c].req.seats),
           db'.cinemas = db.cinemas, db'.studio = db.studio,
           db'.movies = db.movies, db'.seat = db.seat,
           db'.showtime = db.showtime, db'.inventory = db.inventory
    PROVE  SchedulingInv'
<1> DEFINE w == call[c].req.showtime
           seats == call[c].req.seats
<1>1. \A st : Layout(db', st) = Layout(db, st)
  BY DEF Layout
<1>2. \A sts : ShowtimesIn(db', sts) = ShowtimesIn(db, sts)
  BY DEF ShowtimesIn
<1>3. /\ seats \subseteq db.inventory[w].seats
      /\ StockLocks(w, seats) \subseteq held[c]
  BY DEF SchedulingInv, Established, Holding
<1>4. seats # {}
  <2>1. call[c].req \in Requests
    BY DEF SchedulingInv, SchedulingTypeOK, Call
  <2> QED
    BY <2>1, RequestTypes
<1> HIDE DEF w, seats
<1>5. Sound(db')
  <2>1. SoldFromStock(db')
    BY <1>3 DEF SchedulingInv, Sound, SoldFromStock, w, seats
  <2> QED
    BY <1>1, <1>2, <2>1 DEF SchedulingInv, Sound, InventoryMatches, NoneOverlap, AllReferenced
<1>6. ASSUME NEW d \in Calls \ {c}
      PROVE  Established(db', call[d], held[d])
  <2> DEFINE k == call[d]
             locks == held[d]
  <2>1. Established(db, k, locks)
    BY DEF SchedulingInv
  <2>2. ~(StockLocks(w, db.inventory[w].seats) \subseteq locks)
    <3>1. PICK s \in seats : TRUE
      BY <1>4
    <3>2. Lock("inventory", <<w, s>>, "update") \in held[c]
      BY <1>3 DEF StockLocks
    <3>3. StockLocks(w, db.inventory[w].seats) \subseteq locks
             => Lock("inventory", <<w, s>>, "update") \in locks
      BY <1>3 DEF StockLocks
    <3> QED
      BY <3>2, <3>3, OneHolder DEF SchedulingInv
  <2>3. \A v : Unsold(db, v) /\ v # w => Unsold(db', v)
    BY DEF Unsold, w
  <2> HIDE DEF k, locks
  <2>4. CreatingSeat(db', k, locks) /\ UpdatingSeat(db', k, locks)
        /\ DeletingSeat(db', k, locks)
    BY <1>2, <2>1 DEF Established, CreatingSeat, UpdatingSeat, DeletingSeat, Settled
  <2>5. PlacingShowtime(db', k, locks)
    BY <1>1, <1>2, <2>1 DEF Established, PlacingShowtime
  <2>6. CreatingShowtime(db', k, locks) /\ Holding(db', k, locks)
    BY <2>1 DEF Established, CreatingShowtime, Holding
  <2>7. UpdatingShowtime(db', k, locks) /\ DeletingShowtime(db', k, locks)
    BY <2>1, <2>2, <2>3 DEF Established, UpdatingShowtime, DeletingShowtime
  <2> QED
    BY <2>1, <2>4, <2>5, <2>6, <2>7 DEF Established, k, locks
<1> QED
  BY <1>5, <1>6, Ends DEF Answers

\* Of an unsold showtime that nobody else is writing, with all its seats locked.
ShowtimeReplaced(w, row, stock) ==
    /\ db'.showtime = [db.showtime EXCEPT ![w] = row]
    /\ db'.inventory = [db.inventory EXCEPT ![w] = stock]
    /\ db'.cinemas = db.cinemas /\ db'.studio = db.studio
    /\ db'.movies = db.movies /\ db'.seat = db.seat /\ db'.items = db.items

SoleWriter(c, w) ==
    /\ \/ /\ db.showtime[w].studio = NoStudio
          /\ call[c].req.op = "CreateShowtime" /\ call[c].req.showtime = w
       \/ /\ db.showtime[w].studio # NoStudio
          /\ \E mode \in {"no key update", "update"} :
                Lock("showtime", w, mode) \in held[c]
    /\ StockLocks(w, db.inventory[w].seats) \subseteq held[c]
    /\ Unsold(db, w)

Replaceable(c, w, row, stock) ==
    IF row.studio = NoStudio
    THEN stock = [db.inventory[w] EXCEPT !.seats = {}]
    ELSE /\ Lock("layout", row.studio, "update") \in held[c]
         /\ \A v \in ShowtimesIn(db, {row.studio}) \ {w} :
               ~Overlap(db.showtime[v], row)
         /\ db.studio[row.studio] # NoCinema
         /\ row.movie \in db.movies
         /\ stock.seats = Layout(db, row.studio)
         /\ stock.price = row.price
         /\ stock.version > db.inventory[w].version

LEMMA ShowtimeCommit ==
    ASSUME SchedulingInv, NEW c \in Calls, call[c].phase # "idle", Finish(c, 200),
           NEW w \in Showtimes, NEW row \in ShowtimeRow, NEW stock \in Inventory,
           db' \in TableSet, ShowtimeReplaced(w, row, stock),
           SoleWriter(c, w), Replaceable(c, w, row, stock)
    PROVE  SchedulingInv'
<1>1. /\ db \in TableSet
      /\ db.showtime \in [Showtimes -> ShowtimeRow]
      /\ db.inventory \in [Showtimes -> Inventory]
      /\ NoStudio \notin Studios
  BY DEF SchedulingInv, SchedulingTypeOK, TableSet
<1>2. /\ db'.cinemas = db.cinemas /\ db'.studio = db.studio
      /\ db'.movies = db.movies /\ db'.seat = db.seat /\ db'.items = db.items
  BY DEF ShowtimeReplaced
<1>3. row.studio # NoStudio =>
         /\ \A v \in ShowtimesIn(db, {row.studio}) \ {w} :
               ~Overlap(db.showtime[v], row)
         /\ db.studio[row.studio] # NoCinema
         /\ row.movie \in db.movies
         /\ stock.seats = Layout(db, row.studio)
         /\ stock.price = row.price
         /\ stock.version > db.inventory[w].version
  BY DEF Replaceable
<1>4. row.studio = NoStudio =>
         /\ stock.seats = {}
         /\ stock.version = db.inventory[w].version
         /\ stock.price = db.inventory[w].price
  BY <1>1 DEF Replaceable, Inventory
<1>5. db.inventory[w].version \in Nat /\ stock.version \in Nat
  BY <1>1 DEF Inventory
<1>6. \A st : Layout(db', st) = Layout(db, st)
  BY <1>2 DEF Layout
<1>7. \A sts : ShowtimesIn(db', sts) \ {w} = ShowtimesIn(db, sts) \ {w}
  BY <1>1 DEF ShowtimesIn, ShowtimeReplaced
<1>8. \A v \in Showtimes \ {w} : /\ db'.showtime[v] = db.showtime[v]
                                /\ db'.inventory[v] = db.inventory[v]
  BY <1>1 DEF ShowtimeReplaced
<1>9. db'.showtime[w] = row /\ db'.inventory[w] = stock
  BY <1>1 DEF ShowtimeReplaced
<1>10. Sound(db')
  <2>1. InventoryMatches(db')
    <3>1. ASSUME NEW v \in Showtimes \ {w}
          PROVE  IF db'.showtime[v].studio = NoStudio THEN db'.inventory[v].seats = {}
                 ELSE /\ db'.inventory[v].seats = Layout(db', db'.showtime[v].studio)
                      /\ db'.inventory[v].price = db'.showtime[v].price
      BY <1>6, <1>8 DEF SchedulingInv, Sound, InventoryMatches
    <3>2. IF row.studio = NoStudio THEN stock.seats = {}
          ELSE stock.seats = Layout(db', row.studio) /\ stock.price = row.price
      BY <1>6, <1>3, <1>4
    <3> QED
      BY <1>9, <3>1, <3>2 DEF InventoryMatches
  <2>2. NoneOverlap(db')
    <3>1. ASSUME NEW v \in ShowtimesIn(db', Studios) \ {w},
                 db'.showtime[v].studio = row.studio
          PROVE  ~Overlap(db'.showtime[v], row) /\ ~Overlap(row, db'.showtime[v])
      <4>1. v \in ShowtimesIn(db, {row.studio}) /\ row.studio # NoStudio
        BY <1>1, <1>8, <3>1 DEF ShowtimesIn
      <4> QED
        BY <1>8, <1>3, <4>1 DEF Overlap, ShowtimesIn
    <3>2. ASSUME NEW v \in ShowtimesIn(db', Studios) \ {w},
                 NEW u \in ShowtimesIn(db', Studios) \ {w}, v # u,
                 db'.showtime[v].studio = db'.showtime[u].studio
          PROVE  ~Overlap(db'.showtime[v], db'.showtime[u])
      <4>1. v \in ShowtimesIn(db, Studios) /\ u \in ShowtimesIn(db, Studios)
        BY <1>7
      <4> QED
        BY <1>8, <3>2, <4>1 DEF SchedulingInv, Sound, NoneOverlap, ShowtimesIn
    <3> QED
      BY <1>9, <3>1, <3>2 DEF NoneOverlap
  <2>3. AllReferenced(db')
    <3>1. ASSUME NEW v \in ShowtimesIn(db', Studios)
          PROVE  /\ db.studio[db'.showtime[v].studio] # NoCinema
                 /\ db'.showtime[v].movie \in db.movies
      <4>1. CASE v = w
        BY <1>1, <1>9, <1>3, <3>1, <4>1 DEF ShowtimesIn
      <4>2. CASE v # w
        <5>1. v \in ShowtimesIn(db, Studios) /\ db'.showtime[v] = db.showtime[v]
          BY <1>7, <1>8, <3>1, <4>2 DEF ShowtimesIn
        <5> QED
          BY <5>1 DEF SchedulingInv, Sound, AllReferenced
      <4> QED
        BY <4>1, <4>2
    <3> QED
      BY <1>2, <3>1 DEF SchedulingInv, Sound, AllReferenced
  <2>4. SoldFromStock(db')
    <3>1. \A item \in db.items : item[1] \in Showtimes
      BY <1>1 DEF TableSet
    <3> QED
      BY <1>8, <1>2, <3>1 DEF SchedulingInv, Sound, SoldFromStock, SoleWriter, Unsold
  <2> QED
    BY <2>1, <2>2, <2>3, <2>4 DEF Sound
<1>11. ASSUME NEW d \in Calls \ {c}
      PROVE  Established(db', call[d], held[d])
  <2> DEFINE k == call[d]
             locks == held[d]
  <2>1. Established(db, k, locks)
    BY DEF SchedulingInv
  <2>2. Exclusion /\ NewIds
    BY DEF SchedulingInv
  <2>3. row.studio # NoStudio => Lock("layout", row.studio, "update") \notin locks
    BY <2>2, OneHolder DEF Replaceable
  <2>4. Lock("showtime", w, "no key update") \in locks
           => db.showtime[w].studio = NoStudio
    <3>1. ASSUME NEW mode \in {"no key update", "update"},
                 Lock("showtime", w, mode) \in held[c]
          PROVE  Lock("showtime", w, "no key update") \notin locks
      BY <2>2, <3>1, OneHolder DEF Shared
    <3> QED
      BY <3>1 DEF SoleWriter
  <2>5. Lock("showtime", w, "update") \in locks => db.showtime[w].studio = NoStudio
    BY <2>2, OneHolder DEF SoleWriter
  <2>6. k.req.op = "CreateShowtime" /\ k.phase \in Phases => k.req.showtime # w
    <3>1. CASE db.showtime[w].studio # NoStudio
      BY <2>1, <3>1 DEF Established, CreatingShowtime
    <3>2. CASE call[c].req.op = "CreateShowtime" /\ call[c].req.showtime = w
      BY <2>2, <3>2 DEF NewIds, Phases
    <3> QED
      BY <3>1, <3>2 DEF SoleWriter
  <2>7. ASSUME NEW s \in db.inventory[w].seats
        PROVE  Lock("inventory", <<w, s>>, "update") \notin locks
    <3>1. Lock("inventory", <<w, s>>, "update") \in held[c]
      BY DEF StockLocks, SoleWriter
    <3> QED
      BY <2>2, <3>1, OneHolder
  <2>8. k.req \in Requests
    BY DEF SchedulingInv, SchedulingTypeOK, Call
  <2>9. /\ k.req.op \in {"CreateShowtime", "UpdateShowtime"} =>
              k.req.studio \in Studios /\ k.req.showtime \in Showtimes
        /\ k.req.op = "DeleteShowtime" => k.req.showtime \in Showtimes
        /\ k.req.op = "CreateHold" => /\ k.req.showtime \in Showtimes
                                      /\ k.req.seats # {}
    BY <2>8, RequestTypes DEF ShowtimeOps
  <2>10. k.version \in Nat
    BY DEF SchedulingInv, SchedulingTypeOK, Call
  <2> HIDE DEF k, locks
  <2>11. CreatingSeat(db', k, locks) /\ UpdatingSeat(db', k, locks)
         /\ DeletingSeat(db', k, locks)
    <3>1. ASSUME NEW st, st # NoStudio, Settled(db, locks, st)
          PROVE  Settled(db', locks, st)
      <4>1. st # row.studio
        BY <2>3, <3>1 DEF Settled
      <4>2. w \notin ShowtimesIn(db', {st})
        BY <1>9, <4>1 DEF ShowtimesIn
      <4> QED
        BY <1>7, <3>1, <4>2 DEF Settled
    <3>2. k.req.op \in {"CreateSeat", "UpdateSeat"} => k.req.studio \in Studios
      BY <2>8, RequestTypes DEF SeatOps
    <3> QED
      BY <1>1, <1>2, <2>1, <3>1, <3>2
      DEF Established, CreatingSeat, UpdatingSeat, DeletingSeat
  <2>12. CreatingShowtime(db', k, locks)
    BY <1>8, <2>1, <2>6, <2>9 DEF Established, CreatingShowtime
  <2>13. UpdatingShowtime(db', k, locks)
    BY <1>8, <1>2, <2>1, <2>4, <2>9 DEF Established, UpdatingShowtime, Unsold
  <2>14. DeletingShowtime(db', k, locks)
    <3>1. CASE k.req.op = "DeleteShowtime" /\ k.req.showtime = w
      <4>1. k.phase \in {"seats", "show", "children"} =>
               k.version <= db.inventory[w].version
        BY <2>1, <3>1 DEF Established, DeletingShowtime
      <4>2. k.phase # "children"
        BY <2>1, <2>5, <3>1 DEF Established, DeletingShowtime
      <4>3. CASE row.studio = NoStudio
        <5>1. Unsold(db', w) /\ StockLocks(w, stock.seats) \subseteq locks
          BY <1>2, <1>4, <4>3 DEF SoleWriter, Unsold, StockLocks
        <5> QED
          BY <1>9, <1>4, <3>1, <4>1, <4>2, <4>3, <5>1 DEF DeletingShowtime
      <4>4. CASE row.studio # NoStudio
        <5>1. k.phase \in {"seats", "show"} => k.version < stock.version
          BY <1>3, <1>5, <2>10, <4>1, <4>4
        <5> QED
          BY <1>9, <1>5, <2>10, <3>1, <4>2, <5>1 DEF DeletingShowtime
      <4> QED
        BY <4>3, <4>4
    <3>2. CASE k.req.op = "DeleteShowtime" /\ k.req.showtime # w
      BY <1>8, <1>2, <2>1, <2>9, <3>2 DEF Established, DeletingShowtime, Unsold
    <3> QED
      BY <3>1, <3>2 DEF DeletingShowtime
  <2>15. Holding(db', k, locks)
    <3>1. CASE k.req.op = "CreateHold" /\ k.req.showtime = w
      <4>1. k.phase # "parents"
        <5>1. SUFFICES ASSUME k.phase = "parents"
                       PROVE  FALSE
          OBVIOUS
        <5>2. PICK s \in k.req.seats : TRUE
          BY <2>9, <3>1
        <5>3. s \in db.inventory[w].seats /\ Lock("inventory", <<w, s>>, "update") \in locks
          BY <2>1, <3>1, <5>1 DEF Established, Holding, StockLocks
        <5> QED
          BY <2>7, <5>3
      <4>2. k.phase = "seats" =>
               /\ k.rows = k.req.seats
               /\ k.version <= db.inventory[w].version
               /\ k.version = db.inventory[w].version => k.price = db.inventory[w].price
        BY <2>1, <3>1 DEF Established, Holding
      <4>3. k.phase = "seats" =>
               /\ k.version <= stock.version
               /\ k.version = stock.version => k.price = stock.price
        BY <1>3, <1>4, <1>5, <2>10, <4>2
      <4> QED
        BY <1>9, <3>1, <4>1, <4>2, <4>3 DEF Holding
    <3>2. CASE k.req.op = "CreateHold" /\ k.req.showtime # w
      BY <1>8, <2>1, <2>9, <3>2 DEF Established, Holding
    <3> QED
      BY <3>1, <3>2 DEF Holding
  <2>16. PlacingShowtime(db', k, locks)
    <3>1. CASE k.req.op \notin {"CreateShowtime", "UpdateShowtime"}
      BY <3>1 DEF PlacingShowtime
    <3>2. CASE k.req.op \in {"CreateShowtime", "UpdateShowtime"}
      <4>1. k.phase \in {"parents", "seats", "copy"} =>
               w \notin ShowtimesIn(db', {k.req.studio})
        BY <1>9, <2>1, <2>3, <2>9, <3>2, <1>1 DEF Established, PlacingShowtime, ShowtimesIn
      <4>2. k.phase \in {"parents", "seats", "copy"} =>
               \A v \in ShowtimesIn(db', {k.req.studio}) \ {k.req.showtime} :
                  ~Overlap(db'.showtime[v], k.req)
        BY <1>7, <1>8, <2>1, <3>2, <4>1 DEF Established, PlacingShowtime, ShowtimesIn
      <4>3. k.phase \in {"seats", "copy"} =>
               \/ Lock("studio", k.req.studio, "key share") \in locks
               \/ db'.showtime[k.req.showtime].studio = k.req.studio
        BY <1>1, <1>8, <2>1, <2>4, <2>6, <2>9, <3>2
        DEF Established, PlacingShowtime, UpdatingShowtime, CreatingShowtime, Phases
      <4> QED
        BY <1>6, <1>2, <2>1, <3>2, <4>2, <4>3 DEF Established, PlacingShowtime
    <3> QED
      BY <3>1, <3>2
  <2> QED
    BY <2>1, <2>11, <2>12, <2>13, <2>14, <2>15, <2>16 DEF Established, k, locks
<1> QED
  BY <1>10, <1>11, Ends DEF Answers

----------------------------------------------------------------------------
(* A lock more, and a call more.                                           *)

LEMMA OpKinds ==
    /\ \A op \in SeatOps : op \notin CinemaOps \cup StudioOps \cup MovieOps
    /\ \A op \in ShowtimeOps : op \notin CinemaOps \cup StudioOps \cup MovieOps \cup SeatOps
BY DEF CinemaOps, StudioOps, MovieOps, SeatOps, ShowtimeOps

LEMMA Keys ==
    ASSUME NEW r
    PROVE  /\ r.op \in SeatOps =>
                 KeyOf(r) = r.seat /\ Present(r) = (db.seat[r.seat].studio # NoStudio)
           /\ r.op \in ShowtimeOps =>
                 /\ KeyOf(r) = r.showtime
                 /\ Present(r) = (db.showtime[r.showtime].studio # NoStudio)
BY OpKinds DEF KeyOf, Present

LEMMA RowLockTypes ==
    ASSUME NEW mode \in Modes
    PROVE  /\ \A ids \in SUBSET (Studios \cup {NoStudio}) :
                 RowLock("layout", ids, mode) \subseteq Locks
           /\ \A ids \in SUBSET Studios : RowLock("studio", ids, mode) \subseteq Locks
           /\ \A ids \in SUBSET Seats : RowLock("seat", ids, mode) \subseteq Locks
           /\ \A ids \in SUBSET Cinemas : RowLock("cinema", ids, mode) \subseteq Locks
           /\ \A ids \in SUBSET (Cinemas \X Names) :
                 RowLock("name", ids, mode) \subseteq Locks
           /\ \A ids \in SUBSET Movies : RowLock("movie", ids, mode) \subseteq Locks
           /\ \A ids \in SUBSET Showtimes : RowLock("showtime", ids, mode) \subseteq Locks
           /\ \A ids \in SUBSET (Showtimes \X Seats) :
                 RowLock("inventory", ids, mode) \subseteq Locks
<1>1. ASSUME NEW kind, NEW ids, {kind} \X ids \subseteq Resources
      PROVE  RowLock(kind, ids, mode) \subseteq Locks
  <2>1. \A id \in ids : <<kind, id>> \in Resources
    BY <1>1
  <2> QED
    BY <2>1 DEF RowLock, Locks
<1>2. ASSUME NEW kind, NEW set, {kind} \X set \subseteq Resources
      PROVE  \A ids \in SUBSET set : RowLock(kind, ids, mode) \subseteq Locks
  BY <1>1, <1>2
<1> QED
  BY <1>2 DEF Resources

LEMMA WantedTypes ==
    ASSUME SchedulingTypeOK, NEW c \in Calls, OnStock(call[c])
    PROVE  Wanted(c) \subseteq Locks
<1> DEFINE r == call[c].req
<1>1. r \in Requests /\ call[c].rows \subseteq Seats
  BY DEF SchedulingTypeOK, Call
<1>2. {"key share", "share", "no key update", "update"} \subseteq Modes
  BY DEF Modes
<1>3. /\ db.seat \in [Seats -> SeatRow]
      /\ db.showtime \in [Showtimes -> ShowtimeRow]
      /\ db.inventory \in [Showtimes -> Inventory]
  BY DEF SchedulingTypeOK, TableSet
<1>4. /\ r.op \in SeatOps => db.seat[r.seat].studio \in Studios \cup {NoStudio}
      /\ r.op \in ShowtimeOps => db.showtime[r.showtime].studio \in Studios \cup {NoStudio}
  BY <1>1, <1>3, RequestTypes DEF SeatRow, ShowtimeRow
<1> HIDE DEF r
<1>5. RowOf(c) \subseteq Locks
  BY <1>1, <1>2, RowLockTypes, RequestTypes
  DEF RowOf, r, CinemaOps, StudioOps, MovieOps, SeatOps, ShowtimeOps
<1>6. RowLock("layout", Layouts(c), "update") \subseteq Locks
  <2>1. r.op \in {"CreateSeat", "CreateShowtime", "UpdateSeat", "UpdateShowtime"}
           => r.studio \in Studios
    BY <1>1, RequestTypes DEF SeatOps, ShowtimeOps
  <2>2. /\ r.op \in {"UpdateSeat", "DeleteSeat"} =>
              db.seat[r.seat].studio \in Studios \cup {NoStudio}
        /\ r.op = "UpdateShowtime" =>
              db.showtime[r.showtime].studio \in Studios \cup {NoStudio}
    BY <1>4 DEF SeatOps, ShowtimeOps
  <2>3. Layouts(c) \in SUBSET (Studios \cup {NoStudio})
    BY <2>1, <2>2 DEF Layouts, r
  <2> QED
    BY <1>2, <2>3, RowLockTypes
<1>7. ParentsOf(c) \subseteq Locks
  BY <1>1, <1>2, RowLockTypes, RequestTypes
  DEF ParentsOf, r, CinemaOps, StudioOps, MovieOps, SeatOps, ShowtimeOps
<1>8. CASE call[c].phase = "seats"
  <2>1. r.showtime \in Showtimes
    BY <1>1, <1>8, RequestTypes DEF OnStock, r, ShowtimeOps
  <2>2. {r.showtime} \X (call[c].rows \cap db.inventory[r.showtime].seats)
           \in SUBSET (Showtimes \X Seats)
    BY <1>1, <2>1
  <2>3. SeatRowsOf(c) \subseteq Locks
    BY <1>2, <2>2, RowLockTypes DEF SeatRowsOf, r
  <2> QED
    BY <1>8, <2>3 DEF Wanted
<1>9. RowLock("seat", call[c].rows, "key share") \subseteq Locks
  BY <1>1, <1>2, RowLockTypes
<1>10. LookedFor(c) \subseteq Locks
  <2>1. CASE r.op \in {"CreateStudio", "UpdateStudio"}
    <3>1. r.cinema \in Cinemas /\ r.name \in Names
      BY <1>1, <2>1, RequestTypes DEF StudioOps
    <3>2. /\ Namesakes(r) \in SUBSET Studios
          /\ {<<r.cinema, r.name>>} \in SUBSET (Cinemas \X Names)
      BY <3>1 DEF Namesakes
    <3>3. RowLock("studio", Namesakes(r), "share") \subseteq Locks
      BY <1>2, <3>2, RowLockTypes
    <3>4. RowLock("name", {<<r.cinema, r.name>>}, "update") \subseteq Locks
      BY <1>2, <3>2, RowLockTypes
    <3> QED
      BY <2>1, <3>3, <3>4 DEF LookedFor, EntryOf, r
  <2>2. SlotOf(c) \subseteq Locks
    BY <1>2, RowLockTypes DEF SlotOf, ShowtimesIn
  <2>3. ChildrenOf(c) \subseteq Locks
    <3>1. /\ RowLock("studio", {st \in Studios : db.studio[st] = r.cinema}, "key share")
                \subseteq Locks
          /\ RowLock("seat", Layout(db, r.studio), "key share") \subseteq Locks
          /\ RowLock("showtime", ShowtimesIn(db, {r.studio}), "key share") \subseteq Locks
          /\ RowLock("showtime", {w \in ShowtimesIn(db, Studios) :
                                      db.showtime[w].movie = r.movie}, "key share")
                \subseteq Locks
      BY <1>2, RowLockTypes DEF Layout, ShowtimesIn
    <3>2. r.op = "DeleteShowtime" =>
             RowLock("inventory", {r.showtime} \X Kept(c), "key share") \subseteq Locks
      <4>1. SUFFICES ASSUME r.op = "DeleteShowtime"
                     PROVE  {r.showtime} \X Kept(c) \in SUBSET (Showtimes \X Seats)
        BY <1>2, RowLockTypes
      <4>2. r.showtime \in Showtimes
        BY <1>1, <4>1, RequestTypes DEF ShowtimeOps
      <4> QED
        BY <1>3, <4>2 DEF Kept, Inventory, r
    <3> QED
      BY <3>1, <3>2 DEF ChildrenOf, r
  <2> QED
    BY <2>1, <2>2, <2>3 DEF LookedFor, r
<1> QED
  BY <1>5, <1>6, <1>7, <1>8, <1>9, <1>10 DEF Wanted

LEMMA AcquireKeeps ==
    ASSUME SchedulingInv, NEW c \in Calls, Acquire(c)
    PROVE  SchedulingInv'
<1>1. PICK lock \in Missing(c) :
         /\ \A d \in Calls : ~Conflict(c, d, lock)
         /\ held' = [held EXCEPT ![c] = @ \cup {lock}]
         /\ UNCHANGED <<db, call>>
  BY DEF Acquire
<1>2. lock \in Locks
  BY WantedTypes DEF Missing, SchedulingInv, Established
<1>3. SchedulingTypeOK'
  BY <1>1, <1>2 DEF SchedulingInv, SchedulingTypeOK
<1>4. \A d \in Calls : held'[d] = IF d = c THEN held[d] \cup {lock} ELSE held[d]
  BY <1>1 DEF SchedulingInv, SchedulingTypeOK
<1>5. Exclusion'
  <2>1. \A d \in Calls \ {c} : \A m \in held[d] :
           lock.on = m.on => Compatible(lock.mode, m.mode) /\ Compatible(m.mode, lock.mode)
    BY <1>1 DEF Conflict, Compatible
  <2> QED
    BY <1>4, <2>1 DEF SchedulingInv, Exclusion
<1>6. \A d \in Calls : Established(db, call[d], held[d])'
  BY <1>1, <1>4, LocksGrow DEF SchedulingInv
<1> QED
  BY <1>1, <1>3, <1>5, <1>6 DEF SchedulingInv, NewIds

LEMMA FirstPhases ==
    ASSUME NEW op
    PROVE  /\ FirstPhase(op) \in CallPhases
           /\ op = "CreateSeat" => FirstPhase(op) = "layout"
           /\ op \in {"CreateShowtime", "UpdateShowtime"} => FirstPhase(op) = "refs"
           /\ FirstPhase(op) = "seats" => op \in {"DeleteShowtime", "ReleaseHold"}
           /\ op = "DeleteShowtime" => FirstPhase(op) = "seats"
           /\ op \in {"UpdateSeat", "DeleteSeat"} => FirstPhase(op) = "row"
           /\ op = "CreateHold" => FirstPhase(op) = "read"
           /\ FirstPhase(op) # "children"
<1> USE DEF FirstPhase, Reads
<1>1. FirstPhase(op) \in {"insert", "entry", "layout", "refs", "seats", "read", "row"}
  OBVIOUS
<1>2. op = "CreateSeat" => FirstPhase(op) = "layout"
  OBVIOUS
<1>3. op = "CreateShowtime" => FirstPhase(op) = "refs"
  OBVIOUS
<1>4. op = "UpdateShowtime" => FirstPhase(op) = "refs"
  OBVIOUS
<1>5. FirstPhase(op) = "seats" => op \in {"DeleteShowtime", "ReleaseHold"}
  OBVIOUS
<1>6. op = "DeleteShowtime" => FirstPhase(op) = "seats"
  OBVIOUS
<1>7. op = "UpdateSeat" => FirstPhase(op) = "row"
  OBVIOUS
<1>8. op = "DeleteSeat" => FirstPhase(op) = "row"
  OBVIOUS
<1>9. op = "CreateHold" => FirstPhase(op) = "read"
  OBVIOUS
<1> HIDE DEF FirstPhase, Reads
<1> QED
  BY <1>1, <1>2, <1>3, <1>4, <1>5, <1>6, <1>7, <1>8, <1>9 DEF CallPhases, Phases

LEMMA ReceiveKeeps ==
    ASSUME SchedulingInv, NEW c \in Calls, Receive(c)
    PROVE  SchedulingInv'
<1>1. PICK r \in Requests :
         /\ r.op \in Creates => NewId(r)
         /\ LET refused == r.op \in AdminOps /\ Refusal(r) # 0 IN
            call' = [call EXCEPT ![c] = [@ EXCEPT
                !.req = r,
                !.phase = IF refused THEN "done" ELSE FirstPhase(r.op),
                !.answer = IF refused THEN Refusal(r) ELSE 0,
                !.version = IF refused THEN 0 ELSE FirstVersion(r),
                !.rows = IF refused THEN {} ELSE FirstRows(r)]]
  BY DEF Receive
<1> DEFINE refused == r.op \in AdminOps /\ Refusal(r) # 0
           k == [call[c] EXCEPT !.req = r,
                    !.phase = IF refused THEN "done" ELSE FirstPhase(r.op),
                    !.answer = IF refused THEN Refusal(r) ELSE 0,
                    !.version = IF refused THEN 0 ELSE FirstVersion(r),
                    !.rows = IF refused THEN {} ELSE FirstRows(r)]
<1>2. UNCHANGED <<db, held>> /\ call[c].phase = "idle"
  BY DEF Receive
<1>3. db.inventory \in [Showtimes -> Inventory]
  BY DEF SchedulingInv, SchedulingTypeOK, TableSet
<1>4. FirstVersion(r) \in Nat
  BY <1>3, RequestTypes DEF FirstVersion, Inventory, ShowtimeOps
<1>5. FirstRows(r) \in SUBSET Seats
  BY <1>3, RequestTypes DEF FirstRows, Inventory, ShowtimeOps
<1>6. k \in Call /\ k.req = r /\ k.phase = (IF refused THEN "done" ELSE FirstPhase(r.op))
      /\ (~refused => k.version = FirstVersion(r) /\ k.rows = FirstRows(r))
  <2>1. (IF refused THEN "done" ELSE FirstPhase(r.op)) \in CallPhases
    BY FirstPhases DEF CallPhases
  <2>2. (IF refused THEN Refusal(r) ELSE 0) \in Answers
    BY RefusalType DEF Answers
  <2>3. (IF refused THEN 0 ELSE FirstVersion(r)) \in Nat
    BY <1>4
  <2>4. (IF refused THEN {} ELSE FirstRows(r)) \in SUBSET Seats
    BY <1>5
  <2>5. call[c] \in Call
    BY DEF SchedulingInv, SchedulingTypeOK
  <2> HIDE DEF refused
  <2> QED
    BY <2>1, <2>2, <2>3, <2>4, <2>5 DEF Call
<1>7. call' = [call EXCEPT ![c] = k]
  BY <1>1
<1> HIDE DEF k, refused
<1>8. SchedulingTypeOK'
  BY <1>2, <1>6, <1>7 DEF SchedulingInv, SchedulingTypeOK
<1>9. \A d \in Calls : call'[d] = IF d = c THEN k ELSE call[d]
  BY <1>7 DEF SchedulingInv, SchedulingTypeOK
<1>10. NewIds'
  <2>1. ASSUME NEW d \in Calls \ {c}, call[d].phase # "idle", call[d].req.op = r.op
        PROVE  /\ r.op = "CreateSeat" => r.seat # call[d].req.seat
               /\ r.op = "CreateShowtime" => r.showtime # call[d].req.showtime
    <3>1. r.op \in {"CreateSeat", "CreateShowtime"} => KeyOf(call[d].req) # KeyOf(r)
      BY <1>1, <2>1 DEF Creates, NewId
    <3>2. r.op = "CreateSeat" => KeyOf(call[d].req) = call[d].req.seat /\ KeyOf(r) = r.seat
      BY <2>1, Keys DEF SeatOps
    <3>3. r.op = "CreateShowtime" => /\ KeyOf(call[d].req) = call[d].req.showtime
                                     /\ KeyOf(r) = r.showtime
      BY <2>1, Keys DEF ShowtimeOps
    <3> QED
      BY <3>1, <3>2, <3>3
  <2> QED
    BY <1>6, <1>9, <2>1 DEF SchedulingInv, NewIds
<1>11. Established(db, k, held[c])
  <2>1. DeletingParent(k, held[c])
    BY <1>6, FirstPhases DEF DeletingParent
  <2>2. CASE refused
    BY <1>6, <2>2, AtRest
  <2>3. CASE ~refused /\ r.op = "CreateSeat"
    <3>1. db.seat[r.seat].studio = NoStudio
      BY <1>1, <2>3, Keys DEF Creates, NewId, SeatOps
    <3>2. k.phase = "layout"
      BY <1>6, <2>3, FirstPhases
    <3> QED
      BY <1>6, <2>1, <2>3, <3>1, <3>2
      DEF Established, OnStock, CreatingSeat, UpdatingSeat, DeletingSeat, PlacingShowtime,
          CreatingShowtime, UpdatingShowtime, DeletingShowtime, Holding
  <2>4. CASE ~refused /\ r.op = "CreateShowtime"
    <3>1. db.showtime[r.showtime].studio = NoStudio
      BY <1>1, <2>4, Keys DEF Creates, NewId, ShowtimeOps
    <3>2. k.phase = "refs"
      BY <1>6, <2>4, FirstPhases
    <3> QED
      BY <1>6, <2>1, <2>4, <3>1, <3>2
      DEF Established, OnStock, CreatingSeat, UpdatingSeat, DeletingSeat, PlacingShowtime,
          CreatingShowtime, UpdatingShowtime, DeletingShowtime, Holding
  <2>5. CASE ~refused /\ r.op = "DeleteShowtime"
    <3>1. /\ k.version = db.inventory[r.showtime].version
          /\ k.rows = db.inventory[r.showtime].seats
          /\ k.phase = "seats"
      BY <1>6, <2>5, FirstPhases DEF FirstVersion, FirstRows
    <3>2. k.version \in Nat
      BY <1>6 DEF Call
    <3> QED
      BY <1>6, <2>1, <2>5, <3>1, <3>2
      DEF Established, OnStock, CreatingSeat, UpdatingSeat, DeletingSeat, PlacingShowtime,
          CreatingShowtime, UpdatingShowtime, DeletingShowtime, Holding
  <2>6. CASE ~refused /\ r.op \in {"UpdateSeat", "DeleteSeat", "UpdateShowtime", "CreateHold"}
    <3>1. k.phase \in {"row", "refs", "read"}
      BY <1>6, <2>6, FirstPhases
    <3> QED
      BY <1>6, <2>1, <2>6, <3>1
      DEF Established, OnStock, CreatingSeat, UpdatingSeat, DeletingSeat, PlacingShowtime,
          CreatingShowtime, UpdatingShowtime, DeletingShowtime, Holding
  <2>7. CASE r.op \notin {"CreateSeat", "UpdateSeat", "DeleteSeat", "CreateShowtime",
                          "UpdateShowtime", "DeleteShowtime", "CreateHold"}
    <3>1. OnStock(k)
      BY <1>6, <2>7, FirstPhases DEF OnStock
    <3> QED
      BY <1>6, <2>1, <2>7, <3>1
      DEF Established, CreatingSeat, UpdatingSeat, DeletingSeat, PlacingShowtime,
          CreatingShowtime, UpdatingShowtime, DeletingShowtime, Holding
  <2> QED
    BY <2>2, <2>3, <2>4, <2>5, <2>6, <2>7
<1>12. \A d \in Calls : Established(db, call[d], held[d])'
  BY <1>2, <1>9, <1>11 DEF SchedulingInv
<1> QED
  BY <1>2, <1>8, <1>10, <1>12 DEF SchedulingInv, Exclusion

----------------------------------------------------------------------------
(* What a phase has locked when it ends.                                   *)

LEMMA RowLocked ==
    ASSUME NEW c, NEW op, NEW phase \in {"row", "show"}, At(c, op, phase)
    PROVE  /\ op = "DeleteStudio" =>
                 Lock("studio", call[c].req.studio, "update") \in held[c]
           /\ op = "DeleteMovie" =>
                 Lock("movie", call[c].req.movie, "update") \in held[c]
           /\ op \in {"UpdateSeat", "DeleteSeat"} =>
                 Lock("seat", call[c].req.seat, "update") \in held[c]
           /\ op = "UpdateShowtime" =>
                 Lock("showtime", call[c].req.showtime, "no key update") \in held[c]
           /\ op = "DeleteShowtime" =>
                 Lock("showtime", call[c].req.showtime, "update") \in held[c]
<1> DEFINE r == call[c].req
<1>1. Wanted(c) \subseteq held[c] /\ r.op = op
  BY DEF At, Missing
<1>2. Wanted(c) = RowOf(c)
  BY DEF At, Wanted
<1>3. \A kind, id, mode : Lock(kind, id, mode) \in RowLock(kind, {id}, mode)
  BY DEF RowLock, Lock
<1> HIDE DEF r
<1>4. /\ op = "DeleteStudio" => RowOf(c) = RowLock("studio", {r.studio}, "update")
      /\ op = "DeleteMovie" => RowOf(c) = RowLock("movie", {r.movie}, "update")
  BY <1>1 DEF RowOf, r
<1>5. /\ op = "UpdateSeat" => RowOf(c) = RowLock("seat", {r.seat}, "update")
      /\ op = "DeleteSeat" => RowOf(c) = RowLock("seat", {r.seat}, "update")
  BY <1>1 DEF RowOf, r
<1>6. /\ op = "UpdateShowtime" =>
            RowOf(c) = RowLock("showtime", {r.showtime}, "no key update")
      /\ op = "DeleteShowtime" => RowOf(c) = RowLock("showtime", {r.showtime}, "update")
  BY <1>1 DEF RowOf, r
<1>7. \A kind, id, mode : RowOf(c) = RowLock(kind, {id}, mode)
                              => Lock(kind, id, mode) \in held[c]
  BY <1>1, <1>2, <1>3
<1>8. /\ op = "DeleteStudio" => Lock("studio", r.studio, "update") \in held[c]
      /\ op = "DeleteMovie" => Lock("movie", r.movie, "update") \in held[c]
  BY <1>4, <1>7
<1>9. op \in {"UpdateSeat", "DeleteSeat"} => Lock("seat", r.seat, "update") \in held[c]
  BY <1>5, <1>7
<1>10. /\ op = "UpdateShowtime" =>
             Lock("showtime", r.showtime, "no key update") \in held[c]
       /\ op = "DeleteShowtime" => Lock("showtime", r.showtime, "update") \in held[c]
  BY <1>6, <1>7
<1> QED
  BY <1>8, <1>9, <1>10 DEF r

\* A check that has come upon nothing has locked all it looked for; so there
\* are no rows that it could only have shared.
NoneShared(c) == \A l \in LookedFor(c) : l.mode # "key share"

LEMMA NothingFound ==
    ASSUME NEW c, call[c].phase \in {"entry", "slot", "children"}, Missing(c) = {},
           ~CameUpon(c)
    PROVE  NoneShared(c)
BY DEF Wanted, Missing, CameUpon, Shared, NoneShared

LEMMA NoRows ==
    ASSUME NEW c, NEW kind, NEW ids,
           RowLock(kind, ids, "key share") \subseteq LookedFor(c),
           NoneShared(c)
    PROVE  ids = {}
<1>1. ASSUME NEW id \in ids
      PROVE  FALSE
  <2>1. Lock(kind, id, "key share") \in LookedFor(c)
    BY DEF RowLock, Lock
  <2> QED
    BY <2>1 DEF NoneShared, Lock
<1> QED
  BY <1>1

LEMMA NoneKept ==
    ASSUME NEW c, call[c].req.op = "DeleteShowtime", NoneShared(c)
    PROVE  Kept(c) = {}
<1> DEFINE w == call[c].req.showtime
<1>1. LookedFor(c) = RowLock("inventory", {w} \X Kept(c), "key share")
  BY DEF LookedFor, ChildrenOf
<1>2. ASSUME NEW s \in Kept(c)
      PROVE  FALSE
  <2>1. Lock("inventory", <<w, s>>, "key share") \in LookedFor(c)
    BY <1>1 DEF RowLock, Lock
  <2> QED
    BY <2>1 DEF NoneShared, Lock
<1> QED
  BY <1>2

LEMMA LayoutLocked ==
    ASSUME NEW c, NEW op, At(c, op, "layout")
    PROVE  \A st \in Layouts(c) : Lock("layout", st, "update") \in held[c]
<1>1. Wanted(c) = RowLock("layout", Layouts(c), "update") /\ Wanted(c) \subseteq held[c]
  BY DEF At, Wanted, Missing
<1> QED
  BY <1>1 DEF RowLock, Lock

LEMMA LayoutsOf ==
    ASSUME NEW c
    PROVE  LET r == call[c].req IN
           /\ r.op \in {"CreateSeat", "CreateShowtime"} => Layouts(c) = {r.studio}
           /\ r.op = "UpdateSeat" => Layouts(c) = {db.seat[r.seat].studio, r.studio}
           /\ r.op = "DeleteSeat" => Layouts(c) = {db.seat[r.seat].studio}
           /\ r.op = "UpdateShowtime" =>
                 Layouts(c) = {db.showtime[r.showtime].studio, r.studio}
<1> DEFINE r == call[c].req
<1>1. r.op = "CreateSeat" => Layouts(c) = {r.studio}
  BY DEF Layouts
<1>2. r.op = "CreateShowtime" => Layouts(c) = {r.studio}
  BY DEF Layouts
<1>3. r.op = "UpdateSeat" => Layouts(c) = {db.seat[r.seat].studio, r.studio}
  BY DEF Layouts
<1>4. r.op = "DeleteSeat" => Layouts(c) = {db.seat[r.seat].studio}
  BY DEF Layouts
<1>5. r.op = "UpdateShowtime" => Layouts(c) = {db.showtime[r.showtime].studio, r.studio}
  BY DEF Layouts
<1> QED
  BY <1>1, <1>2, <1>3, <1>4, <1>5

LEMMA ParentsLocked ==
    ASSUME NEW c, NEW op \in {"CreateShowtime", "UpdateShowtime"}, At(c, op, "parents")
    PROVE  LET r == call[c].req IN
           /\ Lock("movie", r.movie, "key share") \in held[c]
           /\ \/ Lock("studio", r.studio, "key share") \in held[c]
              \/ db.showtime[r.showtime].studio = r.studio
<1> DEFINE r == call[c].req
<1>1. Wanted(c) \subseteq held[c] /\ r.op = op
  BY DEF At, Missing
<1>2. Wanted(c) = ParentsOf(c)
  BY DEF At, Wanted
<1>3. ParentsOf(c) = RowLock("studio", {r.studio} \ {db.showtime[r.showtime].studio},
                             "key share")
                     \cup RowLock("movie", {r.movie}, "key share")
  <2>1. CASE r.op = "CreateShowtime"
    BY <2>1 DEF ParentsOf
  <2>2. CASE r.op = "UpdateShowtime"
    BY <2>2 DEF ParentsOf
  <2> QED
    BY <1>1, <2>1, <2>2
<1> QED
  BY <1>1, <1>2, <1>3 DEF RowLock, Lock

LEMMA SeatsLocked ==
    ASSUME NEW c, NEW op, At(c, op, "seats"), op # "ReleaseHold",
           db.inventory[call[c].req.showtime].version = call[c].version
    PROVE  LET w == call[c].req.showtime IN
           StockLocks(w, call[c].rows \cap db.inventory[w].seats) \subseteq held[c]
<1>1. Wanted(c) = SeatRowsOf(c) /\ Wanted(c) \subseteq held[c] /\ call[c].req.op = op
  BY DEF At, Wanted, Missing
<1> QED
  BY <1>1 DEF SeatRowsOf, RowLock, StockLocks, Lock

LEMMA EnterKeeps ==
    ASSUME SchedulingInv, NEW c \in Calls, call[c].phase \in Phases,
           NEW phase \in Phases, Enter(c, phase),
           \A k \in Call :
              k.phase = phase /\ k.req = call[c].req /\ k.version = call[c].version
              /\ k.rows = call[c].rows /\ k.price = call[c].price
              => Established(db, k, held[c])
    PROVE  SchedulingInv'
<1> DEFINE k == [call[c] EXCEPT !.phase = phase]
<1>1. call[c] \in Call /\ phase \in CallPhases /\ call[c].phase # "idle"
  BY DEF SchedulingInv, SchedulingTypeOK, CallPhases, Phases
<1>2. /\ k \in Call /\ k.phase = phase /\ k.req = call[c].req
      /\ k.version = call[c].version /\ k.rows = call[c].rows
      /\ k.price = call[c].price
  BY <1>1 DEF Call
<1>3. call' = [call EXCEPT ![c] = k] /\ UNCHANGED <<db, held>>
  BY DEF Enter
<1> HIDE DEF k
<1> QED
  BY <1>1, <1>2, <1>3, Moves

----------------------------------------------------------------------------
(* Cinemas, studios and movies.                                            *)

LEMMA CinemasKeep ==
    ASSUME SchedulingInv, NEW c \in Calls, CreateCinema(c) \/ UpdateCinema(c) \/ DeleteCinema(c)
    PROVE  SchedulingInv'
<1> DEFINE r == call[c].req
<1>1. call[c].phase # "idle" /\ r.op \in CinemaOps
  BY DEF CreateCinema, UpdateCinema, DeleteCinema, At, CinemaOps
<1>2. r \in Requests /\ db \in TableSet
  BY DEF SchedulingInv, SchedulingTypeOK, Call
<1>3. r.cinema \in Cinemas
  BY <1>1, <1>2, RequestTypes
<1>4. ASSUME NEW status \in Answers, Fail(c, status)
      PROVE  SchedulingInv'
  BY <1>1, <1>4, Fails
<1>5. ASSUME NEW set \in SUBSET Cinemas, Commit(c, [db EXCEPT !.cinemas = set]),
             \A st \in Studios : db.studio[st] \in set \cup {NoCinema}
      PROVE  SchedulingInv'
  <2>1. /\ db' \in TableSet /\ db'.cinemas = set /\ db'.studio = db.studio
        /\ db'.movies = db.movies /\ db'.seat = db.seat /\ db'.showtime = db.showtime
        /\ db'.inventory = db.inventory /\ db'.items = db.items
    BY <1>2, <1>5 DEF Commit, TableSet
  <2>2. AllReferenced(db')
    BY <1>5, <2>1 DEF SchedulingInv, Sound, AllReferenced, ShowtimesIn
  <2>3. \A d \in Calls \ {c} :
           /\ call[d].req.op \in {"CreateShowtime", "UpdateShowtime"}
           /\ call[d].phase \in {"seats", "copy"}
           => /\ db'.studio[call[d].req.studio] # NoCinema
              /\ call[d].req.movie \in db'.movies
    BY <2>1 DEF SchedulingInv, Established, PlacingShowtime
  <2> QED
    BY <1>1, <1>5, <2>1, <2>2, <2>3, ParentsCommit DEF Commit
<1>6. \A st \in Studios : db.studio[st] \in db.cinemas \cup {NoCinema}
  BY DEF SchedulingInv, Sound, AllReferenced
<1>7. db.cinemas \subseteq Cinemas
  BY <1>2 DEF TableSet
<1>8. CASE CreateCinema(c)
  BY <1>3, <1>5, <1>6, <1>7, <1>8 DEF CreateCinema
<1>9. CASE UpdateCinema(c)
  <2>1. Commit(c, db) => Fail(c, 200)
    BY DEF Commit, Fail
  <2> QED
    BY <1>4, <1>9, <2>1, StatusTypes DEF UpdateCinema, Answers
<1>10. CASE DeleteCinema(c)
  <2>1. CASE \E error : Fail(c, CinemaStatus(error))
    BY <1>4, <2>1, StatusTypes
  <2>2. CASE r.op = "DeleteCinema" /\ call[c].phase \in Phases /\ Enter(c, "children")
    <3>1. \A k \in Call : k.phase = "children" /\ k.req = r => Established(db, k, held[c])
      BY <2>2
      DEF Established, OnStock, DeletingParent, CreatingSeat, UpdatingSeat, DeletingSeat,
          PlacingShowtime, CreatingShowtime, UpdatingShowtime, DeletingShowtime, Holding
    <3> QED
      BY <2>2, <3>1, EnterKeeps DEF Phases
  <2>3. CASE /\ At(c, "DeleteCinema", "children") /\ ~CameUpon(c)
             /\ Commit(c, [db EXCEPT !.cinemas = db.cinemas \ {r.cinema}])
    <3> DEFINE studios == {st \in Studios : db.studio[st] = r.cinema}
    <3>1. r.op = "DeleteCinema" /\ call[c].phase = "children"
      BY <2>3 DEF At
    <3>2. RowLock("studio", studios, "key share") \subseteq LookedFor(c)
      BY <3>1 DEF LookedFor, ChildrenOf
    <3>3. studios = {}
      <4> HIDE DEF studios
      <4>1. ~CameUpon(c) /\ call[c].phase \in {"entry", "slot", "children"} /\ Missing(c) = {}
        BY <2>3 DEF At
      <4>2. NoneShared(c)
        BY <4>1, NothingFound
      <4> QED
        BY <3>2, <4>2, NoRows
    <3> QED
      BY <1>5, <1>6, <1>7, <2>3, <3>3
  <2> QED
    BY <1>10, <2>1, <2>2, <2>3 DEF DeleteCinema, At, Phases
<1> QED
  BY <1>8, <1>9, <1>10

LEMMA NoneBeside ==
    ASSUME Exclusion, NEW c \in Calls, NEW d \in Calls, c # d, NEW kind, NEW id,
           Lock(kind, id, "update") \in held[c], NEW mode
    PROVE  Lock(kind, id, mode) \notin held[d]
BY OneHolder

\* The studios that have seats or showtimes keep their rows.
LEMMA StudioReferences ==
    ASSUME db \in TableSet, AllReferenced(db),
           db'.cinemas = db.cinemas, db'.movies = db.movies, db'.seat = db.seat,
           db'.showtime = db.showtime,
           \A st \in Studios : db'.studio[st] \in db.cinemas \cup {NoCinema},
           \A st \in Studios :
              /\ db.studio[st] # NoCinema
              /\ Layout(db, st) # {} \/ ShowtimesIn(db, {st}) # {}
              => db'.studio[st] # NoCinema
    PROVE  AllReferenced(db')
<1>1. ASSUME NEW s \in Seats, db.seat[s].studio # NoStudio
      PROVE  db'.studio[db.seat[s].studio] # NoCinema
  <2>1. db.seat[s].studio \in Studios
    BY <1>1 DEF TableSet, SeatRow
  <2>2. db.studio[db.seat[s].studio] # NoCinema /\ s \in Layout(db, db.seat[s].studio)
    BY <1>1 DEF AllReferenced, Layout
  <2> QED
    BY <2>1, <2>2
<1>2. ASSUME NEW w \in ShowtimesIn(db, Studios)
      PROVE  db'.studio[db.showtime[w].studio] # NoCinema
  <2>1. db.showtime[w].studio \in Studios /\ w \in ShowtimesIn(db, {db.showtime[w].studio})
    BY DEF ShowtimesIn
  <2>2. db.studio[db.showtime[w].studio] # NoCinema
    BY DEF AllReferenced
  <2> QED
    BY <2>1, <2>2
<1>3. ShowtimesIn(db', Studios) = ShowtimesIn(db, Studios)
  BY DEF ShowtimesIn
<1> QED
  BY <1>1, <1>2, <1>3 DEF AllReferenced

LEMMA StudiosKeep ==
    ASSUME SchedulingInv, NEW c \in Calls, CreateStudio(c) \/ UpdateStudio(c) \/ DeleteStudio(c)
    PROVE  SchedulingInv'
<1> DEFINE r == call[c].req
<1>1. call[c].phase \in Phases /\ call[c].phase # "idle" /\ r.op \in StudioOps
  BY DEF CreateStudio, UpdateStudio, DeleteStudio, At, StudioOps, Phases
<1>2. r \in Requests /\ db \in TableSet
  BY DEF SchedulingInv, SchedulingTypeOK, Call
<1>3. r.studio \in Studios /\ r.cinema \in Cinemas
  BY <1>1, <1>2, RequestTypes
<1>4. ASSUME NEW status \in Answers, Fail(c, status)
      PROVE  SchedulingInv'
  BY <1>1, <1>4, Fails
<1>5. AllReferenced(db)
  BY DEF SchedulingInv, Sound
<1>6. ASSUME NEW cinema \in Cinemas \cup {NoCinema},
             \/ Commit(c, [db EXCEPT !.studio[r.studio] = cinema])
             \/ Commit(c, [db EXCEPT !.studio[r.studio] = cinema,
                                     !.name[r.studio] = r.name])
      PROVE  /\ db' \in TableSet /\ db'.studio = [db.studio EXCEPT ![r.studio] = cinema]
             /\ db'.cinemas = db.cinemas /\ db'.movies = db.movies
             /\ db'.seat = db.seat /\ db'.showtime = db.showtime
             /\ db'.inventory = db.inventory /\ db'.items = db.items
             /\ Finish(c, 200)
  <2>1. r.name \in Names
    BY <1>1, <1>2, RequestTypes
  <2>2. CASE Commit(c, [db EXCEPT !.studio[r.studio] = cinema])
    BY <1>2, <1>3, <2>2 DEF Commit, TableSet
  <2>3. CASE Commit(c, [db EXCEPT !.studio[r.studio] = cinema,
                                  !.name[r.studio] = r.name])
    BY <1>2, <1>3, <2>1, <2>3 DEF Commit, TableSet
  <2> QED
    BY <1>6, <2>2, <2>3
<1>7. db.studio \in [Studios -> Cinemas \cup {NoCinema}]
  BY <1>2 DEF TableSet
<1>8. ASSUME NEW d \in Calls, call[d].req.op \in {"CreateShowtime", "UpdateShowtime"},
             call[d].phase \in {"seats", "copy"}
      PROVE  /\ call[d].req.studio \in Studios
             /\ db.studio[call[d].req.studio] # NoCinema
             /\ call[d].req.movie \in db.movies
             /\ \/ Lock("studio", call[d].req.studio, "key share") \in held[d]
                \/ db.showtime[call[d].req.showtime].studio = call[d].req.studio
             /\ call[d].req.showtime \in Showtimes
  <2>1. call[d].req \in Requests
    BY DEF SchedulingInv, SchedulingTypeOK, Call
  <2> QED
    BY <1>8, <2>1, RequestTypes DEF SchedulingInv, Established, PlacingShowtime, ShowtimeOps
<1>9. ASSUME StudioWritten(c)
      PROVE  SchedulingInv'
  <2>1. CASE r.cinema \in db.cinemas
             /\ Commit(c, [db EXCEPT !.studio[r.studio] = r.cinema,
                                     !.name[r.studio] = r.name])
    <3>1. r.cinema # NoCinema
      BY <1>3
    <3>2. /\ db' \in TableSet /\ Finish(c, 200)
          /\ db'.studio = [db.studio EXCEPT ![r.studio] = r.cinema]
          /\ db'.cinemas = db.cinemas /\ db'.movies = db.movies
          /\ db'.seat = db.seat /\ db'.showtime = db.showtime
          /\ db'.inventory = db.inventory /\ db'.items = db.items
      BY <1>3, <1>6, <2>1
    <3>3. \A st \in Studios :
             db'.studio[st] = IF st = r.studio THEN r.cinema ELSE db.studio[st]
      BY <1>7, <3>2
    <3>4. AllReferenced(db')
      <4>1. \A st \in Studios : db'.studio[st] \in db.cinemas \cup {NoCinema}
        BY <1>5, <2>1, <3>3 DEF AllReferenced
      <4>2. \A st \in Studios : db.studio[st] # NoCinema => db'.studio[st] # NoCinema
        BY <3>1, <3>3
      <4> QED
        BY <1>2, <1>5, <3>2, <4>1, <4>2, StudioReferences
    <3>5. \A d \in Calls \ {c} :
             /\ call[d].req.op \in {"CreateShowtime", "UpdateShowtime"}
             /\ call[d].phase \in {"seats", "copy"}
             => /\ db'.studio[call[d].req.studio] # NoCinema
                /\ call[d].req.movie \in db'.movies
      BY <1>8, <3>1, <3>2, <3>3
    <3> QED
      BY <1>1, <3>2, <3>4, <3>5, ParentsCommit
  <2>2. CASE Fail(c, StudioStatus("foreign key"))
    BY <1>4, <2>2, StatusTypes
  <2> QED
    BY <1>9, <2>1, <2>2 DEF StudioWritten
<1>10. ASSUME NEW phase \in {"entry", "parents", "children"}, Enter(c, phase),
             r.op = "DeleteStudio" =>
                Lock("studio", r.studio, "update") \in held[c]
      PROVE  SchedulingInv'
  <2>1. r.op \in {"CreateStudio", "UpdateStudio", "DeleteStudio"}
    BY DEF CreateStudio, UpdateStudio, DeleteStudio, At
  <2>2. \A k \in Call : k.phase = phase /\ k.req = r => DeletingParent(k, held[c])
    BY <1>10, <2>1 DEF DeletingParent
  <2>3. \A k \in Call : k.phase = phase /\ k.req = r => Established(db, k, held[c])
    BY <2>1, <2>2
    DEF Established, OnStock, CreatingSeat, UpdatingSeat, DeletingSeat,
        PlacingShowtime, CreatingShowtime, UpdatingShowtime, DeletingShowtime, Holding
  <2> QED
    BY <1>1, <1>10, <2>3, EnterKeeps DEF Phases
<1>11. ASSUME EntryWritten(c), r.op # "DeleteStudio"
      PROVE  SchedulingInv'
  BY <1>4, <1>10, <1>11, StatusTypes DEF EntryWritten
<1>12. CASE CreateStudio(c)
  BY <1>9, <1>12, <1>11 DEF CreateStudio, At
<1>13. CASE UpdateStudio(c)
  BY <1>4, <1>9, <1>13, <1>10, <1>11, StatusTypes DEF UpdateStudio, At
<1>14. CASE DeleteStudio(c)
  <2>1. CASE \E error : Fail(c, StudioStatus(error))
    BY <1>4, <2>1, StatusTypes
  <2>2. CASE At(c, "DeleteStudio", "row") /\ Enter(c, "children")
    BY <1>10, <2>2, RowLocked
  <2>3. CASE /\ At(c, "DeleteStudio", "children") /\ ~CameUpon(c)
             /\ Commit(c, [db EXCEPT !.studio[r.studio] = NoCinema])
    <3>1. r.op = "DeleteStudio" /\ call[c].phase = "children"
      BY <2>3 DEF At
    <3>2. LookedFor(c) = RowLock("seat", Layout(db, r.studio), "key share")
                         \cup RowLock("showtime", ShowtimesIn(db, {r.studio}), "key share")
      BY <3>1 DEF LookedFor, ChildrenOf
    <3>3. Layout(db, r.studio) = {} /\ ShowtimesIn(db, {r.studio}) = {}
      <4>1. /\ RowLock("seat", Layout(db, r.studio), "key share") \subseteq LookedFor(c)
            /\ RowLock("showtime", ShowtimesIn(db, {r.studio}), "key share")
                  \subseteq LookedFor(c)
        BY <3>2
      <4>2. ~CameUpon(c) /\ call[c].phase \in {"entry", "slot", "children"} /\ Missing(c) = {}
        BY <2>3 DEF At
      <4>3. NoneShared(c)
        BY <4>2, NothingFound
      <4> QED
        BY <4>1, <4>3, NoRows
    <3>4. Commit(c, [db EXCEPT !.studio[r.studio] = NoCinema])
      BY <2>3
    <3>5. /\ db' \in TableSet /\ Finish(c, 200)
          /\ db'.studio = [db.studio EXCEPT ![r.studio] = NoCinema]
          /\ db'.cinemas = db.cinemas /\ db'.movies = db.movies
          /\ db'.seat = db.seat /\ db'.showtime = db.showtime
          /\ db'.inventory = db.inventory /\ db'.items = db.items
      BY <1>6, <3>4
    <3>6. AllReferenced(db')
      <4>1. \A st \in Studios : db'.studio[st] \in db.cinemas \cup {NoCinema}
        BY <1>5, <1>7, <3>5 DEF AllReferenced
      <4>2. \A st \in Studios \ {r.studio} : db'.studio[st] = db.studio[st]
        BY <1>7, <3>5
      <4> QED
        BY <1>2, <1>5, <3>5, <3>3, <4>1, <4>2, StudioReferences
    <3>7. ASSUME NEW d \in Calls \ {c},
                 call[d].req.op \in {"CreateShowtime", "UpdateShowtime"},
                 call[d].phase \in {"seats", "copy"}
          PROVE  /\ db'.studio[call[d].req.studio] # NoCinema
                 /\ call[d].req.movie \in db'.movies
      <4>1. Lock("studio", r.studio, "update") \in held[c]
        BY <3>1 DEF SchedulingInv, Established, DeletingParent
      <4>2. call[d].req.studio # r.studio
        <5>1. Lock("studio", r.studio, "key share") \notin held[d]
          BY <4>1, NoneBeside DEF SchedulingInv
        <5>2. \A w \in Showtimes : db.showtime[w].studio # r.studio
          BY <3>3 DEF ShowtimesIn
        <5> QED
          BY <1>8, <3>7, <5>1, <5>2
      <4> QED
        BY <1>7, <1>8, <3>5, <3>7, <4>2
    <3> QED
      BY <1>1, <3>5, <3>6, <3>7, ParentsCommit
  <2> QED
    BY <1>14, <2>1, <2>2, <2>3 DEF DeleteStudio
<1> QED
  BY <1>12, <1>13, <1>14

LEMMA MoviesKeep ==
    ASSUME SchedulingInv, NEW c \in Calls, CreateMovie(c) \/ UpdateMovie(c) \/ DeleteMovie(c)
    PROVE  SchedulingInv'
<1> DEFINE r == call[c].req
<1>1. call[c].phase # "idle" /\ r.op \in MovieOps
  BY DEF CreateMovie, UpdateMovie, DeleteMovie, At, MovieOps
<1>2. r \in Requests /\ db \in TableSet
  BY DEF SchedulingInv, SchedulingTypeOK, Call
<1>3. r.movie \in Movies
  BY <1>1, <1>2, RequestTypes
<1>4. ASSUME NEW status \in Answers, Fail(c, status)
      PROVE  SchedulingInv'
  BY <1>1, <1>4, Fails
<1>5. AllReferenced(db) /\ db.movies \subseteq Movies
  BY <1>2 DEF SchedulingInv, Sound, TableSet
<1>6. ASSUME NEW set \in SUBSET Movies, Commit(c, [db EXCEPT !.movies = set]),
             \A w \in ShowtimesIn(db, Studios) : db.showtime[w].movie \in set,
             \A d \in Calls \ {c} :
                /\ call[d].req.op \in {"CreateShowtime", "UpdateShowtime"}
                /\ call[d].phase \in {"seats", "copy"}
                => call[d].req.movie \in set
      PROVE  SchedulingInv'
  <2>1. /\ db' \in TableSet /\ db'.movies = set /\ db'.studio = db.studio
        /\ db'.cinemas = db.cinemas /\ db'.seat = db.seat /\ db'.showtime = db.showtime
        /\ db'.inventory = db.inventory /\ db'.items = db.items
    BY <1>2, <1>6 DEF Commit, TableSet
  <2>2. AllReferenced(db')
    BY <1>5, <1>6, <2>1 DEF AllReferenced, ShowtimesIn
  <2>3. \A d \in Calls \ {c} :
           /\ call[d].req.op \in {"CreateShowtime", "UpdateShowtime"}
           /\ call[d].phase \in {"seats", "copy"}
           => /\ db'.studio[call[d].req.studio] # NoCinema
              /\ call[d].req.movie \in db'.movies
    BY <1>6, <2>1 DEF SchedulingInv, Established, PlacingShowtime
  <2> QED
    BY <1>1, <1>6, <2>1, <2>2, <2>3, ParentsCommit DEF Commit
<1>7. \A d \in Calls \ {c} :
         /\ call[d].req.op \in {"CreateShowtime", "UpdateShowtime"}
         /\ call[d].phase \in {"seats", "copy"}
         => /\ call[d].req.movie \in db.movies
            /\ Lock("movie", call[d].req.movie, "key share") \in held[d]
  BY DEF SchedulingInv, Established, PlacingShowtime
<1>8. CASE CreateMovie(c)
  <2>1. Commit(c, [db EXCEPT !.movies = db.movies \cup {r.movie}])
    BY <1>8 DEF CreateMovie
  <2>2. \A w \in ShowtimesIn(db, Studios) : db.showtime[w].movie \in db.movies
    BY <1>5 DEF AllReferenced
  <2> QED
    BY <1>3, <1>5, <1>6, <1>7, <2>1, <2>2
<1>9. CASE UpdateMovie(c)
  <2>1. Commit(c, db) => Fail(c, 200)
    BY DEF Commit, Fail
  <2> QED
    BY <1>4, <1>9, <2>1, StatusTypes DEF UpdateMovie, Answers
<1>10. CASE DeleteMovie(c)
  <2>1. CASE \E error : Fail(c, MovieStatus(error))
    BY <1>4, <2>1, StatusTypes
  <2>2. CASE At(c, "DeleteMovie", "row") /\ Enter(c, "children")
    <3>1. /\ r.op = "DeleteMovie" /\ call[c].phase \in Phases
          /\ Lock("movie", r.movie, "update") \in held[c]
      BY <2>2, RowLocked DEF At, Phases
    <3>2. \A k \in Call : k.phase = "children" /\ k.req = r => DeletingParent(k, held[c])
      BY <3>1 DEF DeletingParent
    <3>3. \A k \in Call : k.phase = "children" /\ k.req = r => Established(db, k, held[c])
      BY <3>1, <3>2
      DEF Established, OnStock, CreatingSeat, UpdatingSeat, DeletingSeat,
          PlacingShowtime, CreatingShowtime, UpdatingShowtime, DeletingShowtime, Holding
    <3> QED
      BY <2>2, <3>1, <3>3, EnterKeeps DEF Phases
  <2>3. CASE /\ At(c, "DeleteMovie", "children") /\ ~CameUpon(c)
             /\ Commit(c, [db EXCEPT !.movies = db.movies \ {r.movie}])
    <3> DEFINE shows == {w \in ShowtimesIn(db, Studios) : db.showtime[w].movie = r.movie}
    <3>1. r.op = "DeleteMovie" /\ call[c].phase = "children"
      BY <2>3 DEF At
    <3>2. RowLock("showtime", shows, "key share") \subseteq LookedFor(c)
      BY <3>1 DEF LookedFor, ChildrenOf
    <3>3. shows = {}
      <4> HIDE DEF shows
      <4>1. ~CameUpon(c) /\ call[c].phase \in {"entry", "slot", "children"} /\ Missing(c) = {}
        BY <2>3 DEF At
      <4>2. NoneShared(c)
        BY <4>1, NothingFound
      <4> QED
        BY <3>2, <4>2, NoRows
    <3>4. Commit(c, [db EXCEPT !.movies = db.movies \ {r.movie}])
      BY <2>3
    <3>5. Lock("movie", r.movie, "update") \in held[c]
      BY <3>1 DEF SchedulingInv, Established, DeletingParent
    <3>6. ASSUME NEW d \in Calls \ {c},
                 call[d].req.op \in {"CreateShowtime", "UpdateShowtime"},
                 call[d].phase \in {"seats", "copy"}
          PROVE  call[d].req.movie # r.movie
      <4>1. Lock("movie", call[d].req.movie, "key share") \in held[d]
        BY <1>7, <3>6
      <4>2. Lock("movie", r.movie, "key share") \notin held[d]
        BY <3>5, NoneBeside DEF SchedulingInv
      <4> QED
        BY <4>1, <4>2
    <3>7. \A w \in ShowtimesIn(db, Studios) :
             db.showtime[w].movie \in db.movies \ {r.movie}
      BY <1>5, <3>3 DEF AllReferenced
    <3> QED
      BY <1>5, <1>6, <1>7, <3>4, <3>6, <3>7
  <2> QED
    BY <1>10, <2>1, <2>2, <2>3 DEF DeleteMovie
<1> QED
  BY <1>8, <1>9, <1>10

----------------------------------------------------------------------------
(* Seats.                                                                  *)

LEMMA EstablishedFor ==
    ASSUME NEW t, NEW k, NEW locks
    PROVE  /\ k.req.op = "CreateSeat" /\ k.phase # "seats" /\ CreatingSeat(t, k, locks)
                 => Established(t, k, locks)
           /\ k.req.op = "UpdateSeat" /\ k.phase # "seats" /\ UpdatingSeat(t, k, locks)
                 => Established(t, k, locks)
           /\ k.req.op = "DeleteSeat" /\ k.phase # "seats" /\ DeletingSeat(t, k, locks)
                 => Established(t, k, locks)
           /\ k.req.op = "CreateShowtime" /\ k.phase # "seats"
              /\ PlacingShowtime(t, k, locks) /\ CreatingShowtime(t, k, locks)
                 => Established(t, k, locks)
           /\ k.req.op = "UpdateShowtime"
              /\ PlacingShowtime(t, k, locks) /\ UpdatingShowtime(t, k, locks)
                 => Established(t, k, locks)
           /\ k.req.op = "DeleteShowtime" /\ DeletingShowtime(t, k, locks)
                 => Established(t, k, locks)
           /\ k.req.op = "CreateHold" /\ Holding(t, k, locks)
                 => Established(t, k, locks)
<1> USE DEF Established, OnStock, DeletingParent
<1>1. k.req.op = "CreateSeat" =>
         /\ UpdatingSeat(t, k, locks) /\ DeletingSeat(t, k, locks)
         /\ PlacingShowtime(t, k, locks) /\ CreatingShowtime(t, k, locks)
         /\ UpdatingShowtime(t, k, locks) /\ DeletingShowtime(t, k, locks)
         /\ Holding(t, k, locks)
  BY DEF UpdatingSeat, DeletingSeat, PlacingShowtime, CreatingShowtime, UpdatingShowtime,
         DeletingShowtime, Holding
<1>2. k.req.op = "UpdateSeat" =>
         /\ CreatingSeat(t, k, locks) /\ DeletingSeat(t, k, locks)
         /\ PlacingShowtime(t, k, locks) /\ CreatingShowtime(t, k, locks)
         /\ UpdatingShowtime(t, k, locks) /\ DeletingShowtime(t, k, locks)
         /\ Holding(t, k, locks)
  BY DEF CreatingSeat, DeletingSeat, PlacingShowtime, CreatingShowtime, UpdatingShowtime,
         DeletingShowtime, Holding
<1>3. k.req.op = "DeleteSeat" =>
         /\ CreatingSeat(t, k, locks) /\ UpdatingSeat(t, k, locks)
         /\ PlacingShowtime(t, k, locks) /\ CreatingShowtime(t, k, locks)
         /\ UpdatingShowtime(t, k, locks) /\ DeletingShowtime(t, k, locks)
         /\ Holding(t, k, locks)
  BY DEF CreatingSeat, UpdatingSeat, PlacingShowtime, CreatingShowtime, UpdatingShowtime,
         DeletingShowtime, Holding
<1>4. k.req.op \in {"CreateShowtime", "UpdateShowtime", "DeleteShowtime", "CreateHold"} =>
         CreatingSeat(t, k, locks) /\ UpdatingSeat(t, k, locks) /\ DeletingSeat(t, k, locks)
  BY DEF CreatingSeat, UpdatingSeat, DeletingSeat
<1>5. /\ k.req.op # "CreateShowtime" => CreatingShowtime(t, k, locks)
      /\ k.req.op # "UpdateShowtime" => UpdatingShowtime(t, k, locks)
      /\ k.req.op # "DeleteShowtime" => DeletingShowtime(t, k, locks)
      /\ k.req.op # "CreateHold" => Holding(t, k, locks)
  BY DEF CreatingShowtime, UpdatingShowtime, DeletingShowtime, Holding
<1>6. k.req.op \in {"DeleteShowtime", "CreateHold"} => PlacingShowtime(t, k, locks)
  BY DEF PlacingShowtime
<1> QED
  BY <1>1, <1>2, <1>3, <1>4, <1>5, <1>6

LEMMA LayoutWrittenKeeps ==
    ASSUME SchedulingInv, NEW c \in Calls, NEW op \in {"CreateSeat", "UpdateSeat"},
           At(c, op, "layout"), LayoutWritten(c)
    PROVE  SchedulingInv'
<1> DEFINE r == call[c].req
<1>1. /\ call[c].phase = "layout" /\ call[c].phase \in Phases /\ call[c].phase # "idle"
      /\ r.op = op /\ Established(db, call[c], held[c])
  BY DEF At, Phases, SchedulingInv
<1>2. CASE Frozen(Layouts(c)) \/ Taken(r)
  <2>1. Fail(c, SeatStatus("SeatLayoutInUse")) \/ Fail(c, SeatStatus("SeatAlreadyExists"))
    <3>1. CASE Frozen(Layouts(c))
      BY <3>1 DEF LayoutWritten
    <3>2. CASE ~Frozen(Layouts(c)) /\ Taken(r)
      BY <3>2 DEF LayoutWritten
    <3> QED
      BY <1>2, <3>1, <3>2
  <2> QED
    BY <1>1, <2>1, Fails, StatusTypes
<1>3. CASE ~Frozen(Layouts(c)) /\ ~Taken(r)
  <2>1. Enter(c, "parents")
    BY <1>3 DEF LayoutWritten
  <2>2. \A st \in Layouts(c) : Settled(db, held[c], st)
    BY <1>3, LayoutLocked DEF Settled, Frozen, ShowtimesIn
  <2>3. ASSUME NEW k \in Call, k.phase = "parents", k.req = r
        PROVE  Established(db, k, held[c])
    <3>1. CASE op = "CreateSeat"
      <4>1. Settled(db, held[c], r.studio)
        BY <1>1, <2>2, <3>1, LayoutsOf
      <4>2. CreatingSeat(db, k, held[c])
        BY <1>1, <2>3, <3>1, <4>1 DEF Established, CreatingSeat
      <4> QED
        BY <1>1, <2>3, <3>1, <4>2, EstablishedFor
    <3>2. CASE op = "UpdateSeat"
      <4>1. Settled(db, held[c], r.studio) /\ Settled(db, held[c], db.seat[r.seat].studio)
        BY <1>1, <2>2, <3>2, LayoutsOf
      <4>2. UpdatingSeat(db, k, held[c])
        BY <1>1, <2>3, <3>2, <4>1 DEF Established, UpdatingSeat
      <4> QED
        BY <1>1, <2>3, <3>2, <4>2, EstablishedFor
    <3> QED
      BY <3>1, <3>2
  <2> QED
    BY <1>1, <2>1, <2>3, EnterKeeps DEF Phases
<1> QED
  BY <1>2, <1>3

LEMMA SeatWrittenKeeps ==
    ASSUME SchedulingInv, NEW c \in Calls, NEW op \in {"CreateSeat", "UpdateSeat"},
           At(c, op, "parents"), SeatWritten(c)
    PROVE  SchedulingInv'
<1> DEFINE r == call[c].req
           row == [studio |-> r.studio, place |-> r.place]
<1>1. /\ call[c].phase = "parents" /\ call[c].phase \in Phases /\ call[c].phase # "idle"
      /\ r.op = op /\ Established(db, call[c], held[c])
  BY DEF At, Phases, SchedulingInv
<1>2. r \in Requests /\ db \in TableSet
  BY DEF SchedulingInv, SchedulingTypeOK, Call
<1>3. r.seat \in Seats /\ r.studio \in Studios /\ r.place \in Places
  BY <1>1, <1>2, RequestTypes DEF SeatOps
<1>4. CASE db.studio[r.studio] = NoCinema
  BY <1>1, <1>4, Fails, StatusTypes DEF SeatWritten
<1>5. CASE db.studio[r.studio] # NoCinema
  <2>1. Commit(c, [db EXCEPT !.seat[r.seat] = row])
    BY <1>5 DEF SeatWritten
  <2>2. row \in SeatRow /\ row.studio = r.studio
    BY <1>3 DEF SeatRow
  <2> HIDE DEF row
  <2>3. /\ db' \in TableSet /\ db'.seat = [db.seat EXCEPT ![r.seat] = row]
        /\ db'.cinemas = db.cinemas /\ db'.studio = db.studio
        /\ db'.movies = db.movies /\ db'.showtime = db.showtime
        /\ db'.inventory = db.inventory /\ db'.items = db.items
        /\ Finish(c, 200)
    BY <1>2, <1>3, <2>1, <2>2 DEF Commit, TableSet
  <2>4. /\ Settled(db, held[c], row.studio)
        /\ \/ /\ op = "CreateSeat" /\ db.seat[r.seat].studio = NoStudio
           \/ /\ db.seat[r.seat].studio # NoStudio
              /\ Settled(db, held[c], db.seat[r.seat].studio)
              /\ Lock("seat", r.seat, "update") \in held[c]
    BY <1>1, <2>2 DEF Established, CreatingSeat, UpdatingSeat
  <2> QED
    BY <1>1, <1>3, <1>5, <2>2, <2>3, <2>4, SeatCommit
<1> QED
  BY <1>4, <1>5

LEMMA SeatsKeep ==
    ASSUME SchedulingInv, NEW c \in Calls, CreateSeat(c) \/ UpdateSeat(c) \/ DeleteSeat(c)
    PROVE  SchedulingInv'
<1> DEFINE r == call[c].req
           old == db.seat[r.seat]
<1>1. call[c].phase \in Phases /\ call[c].phase # "idle" /\ r.op \in SeatOps
  BY DEF CreateSeat, UpdateSeat, DeleteSeat, At, SeatOps, Phases
<1>2. r \in Requests /\ db \in TableSet /\ Established(db, call[c], held[c])
  BY DEF SchedulingInv, SchedulingTypeOK, Call
<1>3. r.seat \in Seats
  BY <1>1, <1>2, RequestTypes
<1>4. ASSUME NEW status \in Answers, Fail(c, status)
      PROVE  SchedulingInv'
  BY <1>1, <1>4, Fails
<1>5. CASE CreateSeat(c)
  BY <1>5, LayoutWrittenKeeps, SeatWrittenKeeps DEF CreateSeat
<1>6. ASSUME NEW op \in {"UpdateSeat", "DeleteSeat"}, At(c, op, "row"),
             old.studio # NoStudio, Enter(c, "layout")
      PROVE  SchedulingInv'
  <2>1. Lock("seat", r.seat, "update") \in held[c] /\ r.op = op
    BY <1>6, RowLocked DEF At
  <2>2. ASSUME NEW k \in Call, k.phase = "layout", k.req = r
        PROVE  Established(db, k, held[c])
    <3>1. UpdatingSeat(db, k, held[c]) /\ DeletingSeat(db, k, held[c])
      BY <1>6, <2>1, <2>2 DEF UpdatingSeat, DeletingSeat
    <3> QED
      BY <2>1, <2>2, <3>1, EstablishedFor
  <2> QED
    BY <1>1, <1>6, <2>2, EnterKeeps DEF Phases
<1>7. CASE UpdateSeat(c)
  <2>1. CASE At(c, "UpdateSeat", "row")
    <3> DEFINE same == old = [studio |-> r.studio, place |-> r.place]
    <3>1. r.studio # NoStudio
      BY <1>1, <1>2, RequestTypes
    <3>2. CASE old.studio = NoStudio
      <4>1. ~same
        BY <3>1, <3>2
      <4>2. Fail(c, SeatStatus("SeatNotFound"))
        BY <1>7, <2>1, <3>2, <4>1 DEF UpdateSeat, At
      <4> QED
        BY <1>4, <4>2, StatusTypes
    <3>3. CASE old.studio # NoStudio /\ same
      <4>1. Commit(c, db)
        BY <1>7, <2>1, <3>3 DEF UpdateSeat, At
      <4> QED
        BY <1>4, <4>1 DEF Commit, Fail, Answers
    <3>4. CASE old.studio # NoStudio /\ ~same
      <4>1. Enter(c, "layout")
        BY <1>7, <2>1, <3>4 DEF UpdateSeat, At
      <4> QED
        BY <1>6, <2>1, <3>4, <4>1
    <3> QED
      BY <3>2, <3>3, <3>4
  <2> QED
    BY <1>7, <2>1, LayoutWrittenKeeps, SeatWrittenKeeps DEF UpdateSeat
<1>8. CASE DeleteSeat(c)
  <2>1. CASE At(c, "DeleteSeat", "row")
    <3>1. CASE old.studio = NoStudio
      BY <1>4, <1>8, <2>1, <3>1, StatusTypes DEF DeleteSeat, At
    <3>2. CASE old.studio # NoStudio
      BY <1>6, <1>8, <2>1, <3>2 DEF DeleteSeat, At
    <3> QED
      BY <3>1, <3>2
  <2>2. CASE At(c, "DeleteSeat", "layout")
    <3> DEFINE copied == \E w \in Showtimes : r.seat \in db.inventory[w].seats
    <3>1. CASE Frozen(Layouts(c)) \/ copied
      <4>1. Fail(c, SeatStatus("SeatLayoutInUse")) \/ Fail(c, SeatStatus("foreign key"))
        <5>1. CASE Frozen(Layouts(c))
          BY <1>8, <2>2, <5>1 DEF DeleteSeat, At
        <5>2. CASE ~Frozen(Layouts(c)) /\ copied
          BY <1>8, <2>2, <5>2 DEF DeleteSeat, At
        <5> QED
          BY <3>1, <5>1, <5>2
      <4> QED
        BY <1>4, <4>1, StatusTypes
    <3>2. CASE ~Frozen(Layouts(c)) /\ ~copied
      <4>1. Commit(c, [db EXCEPT !.seat[r.seat].studio = NoStudio])
        BY <1>8, <2>2, <3>2 DEF DeleteSeat, At
      <4> DEFINE row == [studio |-> NoStudio, place |-> old.place]
      <4>2. row \in SeatRow /\ row.studio = NoStudio
        BY <1>2, <1>3 DEF TableSet, SeatRow
      <4>3. [db EXCEPT !.seat[r.seat].studio = NoStudio] = [db EXCEPT !.seat[r.seat] = row]
        <5>1. old \in SeatRow
          BY <1>2, <1>3 DEF TableSet
        <5>2. [old EXCEPT !.studio = NoStudio] = row
          BY <5>1 DEF SeatRow
        <5> QED
          BY <5>2
      <4> HIDE DEF row
      <4>4. /\ db' \in TableSet /\ db'.seat = [db.seat EXCEPT ![r.seat] = row]
            /\ db'.cinemas = db.cinemas /\ db'.studio = db.studio
            /\ db'.movies = db.movies /\ db'.showtime = db.showtime
            /\ db'.inventory = db.inventory /\ db'.items = db.items
            /\ Finish(c, 200)
        BY <1>2, <1>3, <4>1, <4>2, <4>3 DEF Commit, TableSet
      <4>5. old.studio # NoStudio /\ Lock("seat", r.seat, "update") \in held[c]
        BY <1>2, <2>2 DEF At, Established, DeletingSeat
      <4>6. Settled(db, held[c], old.studio)
        BY <2>2, <3>2, LayoutLocked, LayoutsOf DEF At, Settled, Frozen
      <4> QED
        BY <1>1, <1>3, <4>2, <4>4, <4>5, <4>6, SeatCommit
    <3> QED
      BY <3>1, <3>2
  <2> QED
    BY <1>8, <2>1, <2>2 DEF DeleteSeat
<1> QED
  BY <1>5, <1>7, <1>8

----------------------------------------------------------------------------
(* Showtimes.                                                              *)

LEMMA ReferencesReadKeeps ==
    ASSUME SchedulingInv, NEW c \in Calls, NEW op \in {"CreateShowtime", "UpdateShowtime"},
           At(c, op, "refs"), NEW next \in {"layout", "row"}, ReferencesRead(c, next),
           op = "UpdateShowtime" => next = "row"
    PROVE  SchedulingInv'
<1> DEFINE r == call[c].req
<1>1. /\ call[c].phase = "refs" /\ call[c].phase \in Phases /\ call[c].phase # "idle"
      /\ next \in Phases /\ r.op = op /\ Established(db, call[c], held[c])
  BY DEF At, Phases, SchedulingInv
<1>2. \/ Enter(c, next)
      \/ \E e : Fail(c, ShowtimeStatus(e))
  <2>1. CASE r.movie \notin db.movies
    BY <2>1 DEF ReferencesRead
  <2>2. CASE r.movie \in db.movies /\ db.studio[r.studio] = NoCinema
    BY <2>2 DEF ReferencesRead
  <2>3. CASE r.movie \in db.movies /\ db.studio[r.studio] # NoCinema
    BY <2>3 DEF ReferencesRead
  <2> QED
    BY <2>1, <2>2, <2>3
<1>3. CASE Enter(c, next)
  <2>1. ASSUME NEW k \in Call, k.phase = next, k.req = r
        PROVE  Established(db, k, held[c])
    <3>1. PlacingShowtime(db, k, held[c])
      BY <2>1 DEF PlacingShowtime
    <3>2. op = "UpdateShowtime" => UpdatingShowtime(db, k, held[c])
      BY <2>1 DEF UpdatingShowtime
    <3>3. op = "CreateShowtime" => CreatingShowtime(db, k, held[c])
      BY <1>1, <2>1 DEF Established, CreatingShowtime
    <3> QED
      BY <1>1, <2>1, <3>1, <3>2, <3>3, EstablishedFor
  <2> QED
    BY <1>1, <1>3, <2>1, EnterKeeps
<1> QED
  BY <1>1, <1>2, <1>3, Fails, StatusTypes

\* The layout that the slot is looked for in has been locked.
LEMMA LayoutKeeps ==
    ASSUME SchedulingInv, NEW c \in Calls, NEW op \in {"CreateShowtime", "UpdateShowtime"},
           At(c, op, "layout"), Enter(c, "slot")
    PROVE  SchedulingInv'
<1> DEFINE r == call[c].req
<1>1. /\ call[c].phase = "layout" /\ call[c].phase \in Phases /\ call[c].phase # "idle"
      /\ r.op = op /\ Established(db, call[c], held[c])
  BY DEF At, Phases, SchedulingInv
<1>2. Lock("layout", r.studio, "update") \in held[c]
  BY <1>1, LayoutLocked, LayoutsOf
<1>3. ASSUME NEW k \in Call, k.phase = "slot", k.req = r
      PROVE  Established(db, k, held[c])
  <2>1. PlacingShowtime(db, k, held[c])
    BY <1>2, <1>3 DEF PlacingShowtime
  <2>2. op = "UpdateShowtime" => UpdatingShowtime(db, k, held[c])
    BY <1>1, <1>3 DEF Established, UpdatingShowtime
  <2>3. op = "CreateShowtime" => CreatingShowtime(db, k, held[c])
    BY <1>1, <1>3 DEF Established, CreatingShowtime
  <2> QED
    BY <1>1, <1>3, <2>1, <2>2, <2>3, EstablishedFor
<1> QED
  BY <1>1, <1>3, EnterKeeps DEF Phases

LEMMA SlotWrittenKeeps ==
    ASSUME SchedulingInv, NEW c \in Calls, NEW op \in {"CreateShowtime", "UpdateShowtime"},
           At(c, op, "slot"), SlotWritten(c)
    PROVE  SchedulingInv'
<1> DEFINE r == call[c].req
           inTheWay == {w \in ShowtimesIn(db, {r.studio}) \ {r.showtime} :
                           Overlap(db.showtime[w], r)}
<1>1. /\ call[c].phase = "slot" /\ call[c].phase \in Phases /\ call[c].phase # "idle"
      /\ r.op = op /\ Established(db, call[c], held[c])
  BY DEF At, Phases, SchedulingInv
<1>2. CASE CameUpon(c)
  BY <1>1, <1>2, Fails, StatusTypes DEF SlotWritten
<1>3. CASE ~CameUpon(c)
  <2>1. Enter(c, "parents")
    BY <1>3 DEF SlotWritten
  <2>2. Lock("layout", r.studio, "update") \in held[c]
    BY <1>1 DEF Established, PlacingShowtime
  <2>3. RowLock("showtime", inTheWay, "key share") \subseteq LookedFor(c)
    BY <1>1 DEF LookedFor, SlotOf
  <2>4. inTheWay = {}
    <3>1. call[c].phase \in {"entry", "slot", "children"} /\ Missing(c) = {}
      BY DEF At
    <3> HIDE DEF inTheWay
    <3>2. NoneShared(c)
      BY <1>3, <3>1, NothingFound
    <3> QED
      BY <2>3, <3>2, NoRows
  <2>5. ASSUME NEW k \in Call, k.phase = "parents", k.req = r
        PROVE  Established(db, k, held[c])
    <3>1. PlacingShowtime(db, k, held[c])
      BY <2>2, <2>4, <2>5 DEF PlacingShowtime
    <3>2. op = "UpdateShowtime" => UpdatingShowtime(db, k, held[c])
      BY <1>1, <2>5 DEF Established, UpdatingShowtime
    <3>3. op = "CreateShowtime" => CreatingShowtime(db, k, held[c])
      BY <1>1, <2>5 DEF Established, CreatingShowtime
    <3> QED
      BY <1>1, <2>5, <3>1, <3>2, <3>3, EstablishedFor
  <2> QED
    BY <1>1, <2>1, <2>5, EnterKeeps DEF Phases
<1> QED
  BY <1>2, <1>3

\* A call that goes on after its foreign keys were checked.
LEMMA Placed ==
    ASSUME SchedulingInv, NEW c \in Calls, NEW op \in {"CreateShowtime", "UpdateShowtime"},
           At(c, op, "parents"), ~ParentsGone(call[c].req),
           NEW k, k.req = call[c].req, k.phase \in {"seats", "copy"},
           k.phase = "copy" => k.rows = Layout(db, call[c].req.studio)
    PROVE  PlacingShowtime(db, k, held[c])
<1>1. Established(db, call[c], held[c]) /\ call[c].phase = "parents" /\ call[c].req.op = op
  BY DEF At, SchedulingInv
<1>2. /\ Lock("layout", k.req.studio, "update") \in held[c]
      /\ \A v \in ShowtimesIn(db, {k.req.studio}) \ {k.req.showtime} :
            ~Overlap(db.showtime[v], k.req)
  BY <1>1 DEF Established, PlacingShowtime
<1>3. /\ Lock("movie", k.req.movie, "key share") \in held[c]
      /\ \/ Lock("studio", k.req.studio, "key share") \in held[c]
         \/ db.showtime[k.req.showtime].studio = k.req.studio
  BY ParentsLocked
<1>4. db.studio[k.req.studio] # NoCinema /\ k.req.movie \in db.movies
  BY DEF ParentsGone
<1> QED
  BY <1>2, <1>3, <1>4 DEF PlacingShowtime

LEMMA CopyKeeps ==
    ASSUME SchedulingInv, NEW c \in Calls, call[c].phase \in Phases, EnterCopy(c),
           call[c].req.op \in {"CreateShowtime", "UpdateShowtime"},
           \A k \in Call :
              k.phase = "copy" /\ k.req = call[c].req /\ k.rows = Layout(db, k.req.studio)
              => Established(db, k, held[c])
    PROVE  SchedulingInv'
<1> DEFINE k == [call[c] EXCEPT !.phase = "copy", !.rows = Layout(db, call[c].req.studio)]
<1>1. call[c] \in Call /\ "copy" \in CallPhases /\ call[c].phase # "idle"
  BY DEF SchedulingInv, SchedulingTypeOK, CallPhases, Phases
<1>2. Layout(db, call[c].req.studio) \in SUBSET Seats
  BY DEF Layout
<1>3. k \in Call /\ k.phase = "copy" /\ k.req = call[c].req
      /\ k.rows = Layout(db, k.req.studio)
  BY <1>1, <1>2 DEF Call
<1>4. call' = [call EXCEPT ![c] = k] /\ UNCHANGED <<db, held>>
  BY DEF EnterCopy
<1> HIDE DEF k
<1> QED
  BY <1>1, <1>3, <1>4, Moves

\* Nothing was sold of the showtime that a call writes.
LEMMA WrittenUnsold ==
    ASSUME SchedulingInv, NEW c \in Calls, NEW op \in {"CreateShowtime", "UpdateShowtime"},
           At(c, op, "copy")
    PROVE  LET w == call[c].req.showtime IN
           /\ Unsold(db, w)
           /\ op = "CreateShowtime" => db.inventory[w].seats = {}
<1> DEFINE r == call[c].req
           w == r.showtime
<1>1. /\ call[c].phase = "copy" /\ call[c].phase \in Phases
      /\ r.op = op /\ Established(db, call[c], held[c])
  BY DEF At, Phases, SchedulingInv
<1>2. w \in Showtimes
  BY <1>1, RequestTypes DEF ShowtimeOps, SchedulingInv, SchedulingTypeOK, Call
<1>3. CASE op = "UpdateShowtime"
  BY <1>1, <1>3 DEF Established, UpdatingShowtime
<1>4. CASE op = "CreateShowtime"
  <2>1. db.showtime[w].studio = NoStudio
    BY <1>1, <1>4 DEF Established, CreatingShowtime
  <2>2. db.inventory[w].seats = {}
    BY <1>2, <2>1 DEF SchedulingInv, Sound, InventoryMatches
  <2> QED
    BY <2>2 DEF SchedulingInv, Sound, SoldFromStock, Unsold
<1> QED
  BY <1>3, <1>4

LEMMA ShowtimeWrittenKeeps ==
    ASSUME SchedulingInv, NEW c \in Calls, NEW op \in {"CreateShowtime", "UpdateShowtime"},
           At(c, op, "copy"), ShowtimeWritten(c)
    PROVE  SchedulingInv'
<1> DEFINE r == call[c].req
           w == r.showtime
           row == [studio |-> r.studio, movie |-> r.movie, starts |-> r.starts,
                   ends |-> r.ends, price |-> r.price]
           stock == [version |-> db.inventory[w].version + 1, price |-> r.price,
                     seats |-> call[c].rows]
<1>1. /\ call[c].phase = "copy" /\ call[c].phase \in Phases /\ call[c].phase # "idle"
      /\ r.op = op /\ Established(db, call[c], held[c])
  BY DEF At, Phases, SchedulingInv
<1>2. r \in Requests /\ db \in TableSet /\ call[c].rows \in SUBSET Seats
  BY DEF SchedulingInv, SchedulingTypeOK, Call
<1>3. /\ w \in Showtimes /\ r.studio \in Studios /\ r.movie \in Movies
      /\ r.starts \in Nat /\ r.ends \in Nat /\ r.price \in Price
  BY <1>1, <1>2, RequestTypes DEF ShowtimeOps
<1>4. db.inventory[w] \in Inventory /\ db.inventory[w].version \in Nat
  BY <1>2, <1>3 DEF TableSet, Inventory
<1>5. row \in ShowtimeRow /\ row.studio = r.studio /\ row.movie = r.movie
      /\ row.starts = r.starts /\ row.ends = r.ends /\ row.price = r.price
  BY <1>3 DEF ShowtimeRow
<1>6. stock \in Inventory /\ stock.seats = call[c].rows /\ stock.price = r.price
      /\ stock.version = db.inventory[w].version + 1
  BY <1>2, <1>3, <1>4 DEF Inventory
<1>7. Commit(c, [db EXCEPT !.showtime[w] = row, !.inventory[w] = stock])
  BY <1>2, <1>3 DEF ShowtimeWritten, TableSet
<1> HIDE DEF row, stock
<1>8. db' \in TableSet /\ ShowtimeReplaced(w, row, stock) /\ Finish(c, 200)
  BY <1>2, <1>3, <1>5, <1>6, <1>7 DEF Commit, ShowtimeReplaced, TableSet
<1>9. SoleWriter(c, w)
  <2>1. CASE op = "UpdateShowtime"
    BY <1>1, <2>1 DEF Established, UpdatingShowtime, SoleWriter
  <2>2. CASE op = "CreateShowtime"
    <3>1. db.showtime[w].studio = NoStudio
      BY <1>1, <2>2 DEF Established, CreatingShowtime
    <3>2. db.inventory[w].seats = {} /\ Unsold(db, w)
      BY <2>2, WrittenUnsold
    <3> QED
      BY <1>1, <2>2, <3>1, <3>2 DEF SoleWriter, StockLocks
  <2> QED
    BY <2>1, <2>2
<1>10. Replaceable(c, w, row, stock)
  <2>1. /\ Lock("layout", r.studio, "update") \in held[c]
        /\ \A v \in ShowtimesIn(db, {r.studio}) \ {w} : ~Overlap(db.showtime[v], r)
        /\ db.studio[r.studio] # NoCinema
        /\ r.movie \in db.movies
        /\ call[c].rows = Layout(db, r.studio)
    BY <1>1 DEF Established, PlacingShowtime
  <2>2. \A v : Overlap(db.showtime[v], r) = Overlap(db.showtime[v], row)
    BY <1>5 DEF Overlap
  <2>3. stock.version > db.inventory[w].version
    BY <1>4, <1>6
  <2>4. row.studio # NoStudio
    BY <1>3, <1>5
  <2> QED
    BY <1>5, <1>6, <2>1, <2>2, <2>3, <2>4 DEF Replaceable
<1> QED
  BY <1>1, <1>3, <1>5, <1>6, <1>8, <1>9, <1>10, ShowtimeCommit

LEMMA CreateShowtimeKeeps ==
    ASSUME SchedulingInv, NEW c \in Calls, CreateShowtime(c)
    PROVE  SchedulingInv'
<1>1. call[c].phase \in Phases /\ call[c].phase # "idle"
      /\ Established(db, call[c], held[c]) /\ call[c].req.op = "CreateShowtime"
  BY DEF CreateShowtime, At, Phases, SchedulingInv
<1>2. CASE At(c, "CreateShowtime", "parents")
  <2>1. CASE ParentsGone(call[c].req)
    BY <1>1, <1>2, <2>1, Fails, StatusTypes DEF CreateShowtime, At
  <2>2. CASE ~ParentsGone(call[c].req)
    <3>1. EnterCopy(c)
      BY <1>2, <2>2 DEF CreateShowtime, At
    <3>2. ASSUME NEW k \in Call, k.phase = "copy", k.req = call[c].req,
                 k.rows = Layout(db, k.req.studio)
          PROVE  Established(db, k, held[c])
      <4>1. PlacingShowtime(db, k, held[c])
        BY <1>2, <2>2, <3>2, Placed
      <4>2. CreatingShowtime(db, k, held[c])
        BY <1>1, <3>2 DEF Established, CreatingShowtime
      <4> QED
        BY <1>1, <3>2, <4>1, <4>2, EstablishedFor
    <3> QED
      BY <1>1, <3>1, <3>2, CopyKeeps
  <2> QED
    BY <2>1, <2>2
<1> QED
  BY <1>2, ReferencesReadKeeps, LayoutKeeps, SlotWrittenKeeps, ShowtimeWrittenKeeps
  DEF CreateShowtime

LEMMA UpdateShowtimeKeeps ==
    ASSUME SchedulingInv, NEW c \in Calls, UpdateShowtime(c)
    PROVE  SchedulingInv'
<1> DEFINE r == call[c].req
           w == r.showtime
<1>1. call[c].phase \in Phases /\ call[c].phase # "idle"
      /\ Established(db, call[c], held[c]) /\ r.op = "UpdateShowtime"
  BY DEF UpdateShowtime, At, Phases, SchedulingInv
<1>2. r \in Requests /\ db \in TableSet /\ call[c] \in Call
  BY DEF SchedulingInv, SchedulingTypeOK, Call
<1>3. w \in Showtimes
  BY <1>1, <1>2, RequestTypes DEF ShowtimeOps
<1>4. ASSUME NEW status \in Answers, Fail(c, status)
      PROVE  SchedulingInv'
  BY <1>1, <1>4, Fails
<1>5. CASE At(c, "UpdateShowtime", "row")
  <2>1. Present(r) = (db.showtime[w].studio # NoStudio)
    BY <1>1, Keys DEF ShowtimeOps
  <2>2. CASE Present(r)
    <3>1. Enter(c, "layout")
      BY <1>5, <2>2 DEF UpdateShowtime, At
    <3>2. Lock("showtime", w, "no key update") \in held[c]
      BY <1>5, RowLocked
    <3>3. ASSUME NEW k \in Call, k.phase = "layout", k.req = r
          PROVE  Established(db, k, held[c])
      <4>1. PlacingShowtime(db, k, held[c])
        BY <3>3 DEF PlacingShowtime
      <4>2. UpdatingShowtime(db, k, held[c])
        BY <2>1, <2>2, <3>2, <3>3 DEF UpdatingShowtime
      <4> QED
        BY <1>1, <3>3, <4>1, <4>2, EstablishedFor
    <3> QED
      BY <1>1, <3>1, <3>3, EnterKeeps DEF Phases
  <2>3. CASE ~Present(r)
    BY <1>4, <1>5, <2>3, StatusTypes DEF UpdateShowtime, At
  <2> QED
    BY <2>2, <2>3
<1>6. CASE At(c, "UpdateShowtime", "parents")
  <2>1. CASE ParentsGone(r)
    BY <1>4, <1>6, <2>1, StatusTypes DEF UpdateShowtime, At
  <2>2. CASE ~ParentsGone(r)
    <3> DEFINE k == [call[c] EXCEPT !.phase = "seats", !.rows = db.inventory[w].seats,
                                    !.version = db.inventory[w].version]
    <3>1. "seats" \in CallPhases /\ db.inventory[w].seats \in SUBSET Seats
          /\ db.inventory[w].version \in Nat
      BY <1>2, <1>3 DEF CallPhases, Phases, TableSet, Inventory
    <3>2. /\ k \in Call /\ k.phase = "seats" /\ k.req = r
          /\ k.rows = db.inventory[w].seats /\ k.version = db.inventory[w].version
      BY <1>2, <3>1 DEF Call
    <3>3. call' = [call EXCEPT ![c] = k] /\ UNCHANGED <<db, held>>
      BY <1>6, <2>2 DEF UpdateShowtime, At, EnterSeats
    <3> HIDE DEF k
    <3>4. PlacingShowtime(db, k, held[c])
      BY <1>6, <2>2, <3>2, Placed
    <3>5. UpdatingShowtime(db, k, held[c])
      BY <1>1, <1>6, <3>2 DEF Established, UpdatingShowtime, At
    <3>6. Established(db, k, held[c])
      BY <1>1, <3>2, <3>4, <3>5, EstablishedFor
    <3> QED
      BY <1>1, <3>2, <3>3, <3>6, Moves
  <2> QED
    BY <2>1, <2>2
<1>7. CASE At(c, "UpdateShowtime", "seats")
  <2>1. CASE Ordered(c)
    BY <1>4, <1>7, <2>1, StatusTypes DEF UpdateShowtime, At
  <2>2. CASE ~Ordered(c)
    <3>1. EnterCopy(c)
      BY <1>7, <2>2 DEF UpdateShowtime, At
    <3>2. /\ call[c].version = db.inventory[w].version
          /\ call[c].rows = db.inventory[w].seats
      BY <1>1, <1>7 DEF Established, UpdatingShowtime, At
    <3>3. StockLocks(w, db.inventory[w].seats) \subseteq held[c]
      <4>1. call[c].rows \cap db.inventory[w].seats = db.inventory[w].seats
        BY <3>2
      <4>2. StockLocks(w, call[c].rows \cap db.inventory[w].seats) \subseteq held[c]
        BY <1>7, <3>2, SeatsLocked
      <4> QED
        BY <4>1, <4>2
    <3>4. Unsold(db, w)
      BY <1>2, <2>2, <3>2
      DEF Ordered, Unsold, SchedulingInv, Sound, SoldFromStock, TableSet
    <3>5. ASSUME NEW k \in Call, k.phase = "copy", k.req = r,
                 k.rows = Layout(db, k.req.studio)
          PROVE  Established(db, k, held[c])
      <4>1. PlacingShowtime(db, k, held[c])
        BY <1>1, <1>7, <3>5 DEF Established, PlacingShowtime, At
      <4>2. UpdatingShowtime(db, k, held[c])
        BY <1>1, <1>7, <3>3, <3>4, <3>5 DEF Established, UpdatingShowtime, At
      <4> QED
        BY <1>1, <3>5, <4>1, <4>2, EstablishedFor
    <3> QED
      BY <1>1, <3>1, <3>5, CopyKeeps
  <2> QED
    BY <2>1, <2>2
<1> QED
  BY <1>5, <1>6, <1>7, ReferencesReadKeeps, LayoutKeeps, SlotWrittenKeeps,
     ShowtimeWrittenKeeps DEF UpdateShowtime

\* Nothing was sold of the showtime that a call deletes.
LEMMA DeletedUnsold ==
    ASSUME SchedulingInv, NEW c \in Calls, At(c, "DeleteShowtime", "children"), Kept(c) = {}
    PROVE  LET w == call[c].req.showtime
               inv == db.inventory[w]
           IN  StockLocks(w, inv.seats) \subseteq held[c] /\ Unsold(db, w)
<1> DEFINE w == call[c].req.showtime
           inv == db.inventory[w]
<1>1. Established(db, call[c], held[c])
  BY DEF SchedulingInv
<1>2. CASE inv.seats = {}
  BY <1>2 DEF SchedulingInv, Sound, SoldFromStock, StockLocks, Unsold
<1>3. CASE inv.version = call[c].version
  BY <1>1, <1>3 DEF Established, DeletingShowtime, At
<1> QED
  BY <1>2, <1>3 DEF Kept

LEMMA DeleteShowtimeKeeps ==
    ASSUME SchedulingInv, NEW c \in Calls, DeleteShowtime(c)
    PROVE  SchedulingInv'
<1> DEFINE r == call[c].req
           w == r.showtime
           inv == db.inventory[w]
<1>1. call[c].phase \in Phases /\ call[c].phase # "idle"
      /\ Established(db, call[c], held[c]) /\ r.op = "DeleteShowtime"
  BY DEF DeleteShowtime, At, Phases, SchedulingInv
<1>2. r \in Requests /\ db \in TableSet /\ call[c] \in Call
  BY DEF SchedulingInv, SchedulingTypeOK, Call
<1>3. w \in Showtimes /\ inv \in Inventory
  BY <1>1, <1>2, RequestTypes DEF ShowtimeOps, TableSet
<1>4. ASSUME NEW status \in Answers, Fail(c, status)
      PROVE  SchedulingInv'
  BY <1>1, <1>4, Fails
<1>5. \A item \in db.items : item[1] = w => item[2] \in inv.seats
  BY DEF SchedulingInv, Sound, SoldFromStock
<1>6. CASE At(c, "DeleteShowtime", "seats")
  <2>1. CASE Kept(c) = {} /\ Ordered(c)
    BY <1>4, <1>6, <2>1, StatusTypes DEF DeleteShowtime, At
  <2>2. CASE ~(Kept(c) = {} /\ Ordered(c))
    <3>1. Enter(c, "show")
      BY <1>6, <2>2 DEF DeleteShowtime, At
    <3>2. /\ call[c].version <= inv.version
          /\ call[c].version = inv.version => inv.seats \subseteq call[c].rows
      BY <1>1, <1>6 DEF Established, DeletingShowtime, At
    <3>3. call[c].version = inv.version => StockLocks(w, inv.seats) \subseteq held[c]
      <4>1. ASSUME call[c].version = inv.version
            PROVE  call[c].rows \cap inv.seats = inv.seats
        BY <3>2, <4>1
      <4>2. ASSUME call[c].version = inv.version
            PROVE  StockLocks(w, call[c].rows \cap inv.seats) \subseteq held[c]
        BY <1>6, <4>2, SeatsLocked
      <4> QED
        BY <4>1, <4>2
    <3>4. call[c].version = inv.version => Unsold(db, w)
      BY <1>2, <1>5, <2>2, <3>2 DEF Kept, Ordered, Unsold, TableSet
    <3>5. ASSUME NEW k \in Call, k.phase = "show", k.req = r,
                 k.version = call[c].version, k.rows = call[c].rows
          PROVE  Established(db, k, held[c])
      <4>1. DeletingShowtime(db, k, held[c])
        BY <3>2, <3>3, <3>4, <3>5 DEF DeletingShowtime
      <4> QED
        BY <1>1, <3>5, <4>1, EstablishedFor
    <3> QED
      BY <1>1, <3>1, <3>5, EnterKeeps DEF Phases
  <2> QED
    BY <2>1, <2>2
<1>7. CASE At(c, "DeleteShowtime", "show")
  <2>1. CASE ~Present(r)
    BY <1>4, <1>7, <2>1, StatusTypes DEF DeleteShowtime, At
  <2>2. CASE Present(r)
    <3>1. Enter(c, "children")
      BY <1>7, <2>2 DEF DeleteShowtime, At
    <3>2. Lock("showtime", w, "update") \in held[c] /\ db.showtime[w].studio # NoStudio
      BY <1>1, <1>7, <2>2, Keys, RowLocked DEF ShowtimeOps
    <3>3. ASSUME NEW k \in Call, k.phase = "children", k.req = r,
                 k.version = call[c].version, k.rows = call[c].rows
          PROVE  Established(db, k, held[c])
      <4>1. DeletingShowtime(db, k, held[c])
        BY <1>1, <1>7, <3>2, <3>3 DEF Established, DeletingShowtime, At
      <4> QED
        BY <1>1, <3>3, <4>1, EstablishedFor
    <3> QED
      BY <1>1, <3>1, <3>3, EnterKeeps DEF Phases
  <2> QED
    BY <2>1, <2>2
<1>8. CASE At(c, "DeleteShowtime", "children")
  <2>1. CASE CameUpon(c)
    BY <1>4, <1>8, <2>1, StatusTypes DEF DeleteShowtime, At
  <2>2. CASE ~CameUpon(c)
    <3>1. Kept(c) = {}
      <4>1. call[c].phase \in {"entry", "slot", "children"} /\ Missing(c) = {}
        BY <1>8 DEF At
      <4>2. NoneShared(c)
        BY <2>2, <4>1, NothingFound
      <4> QED
        BY <1>1, <4>2, NoneKept
    <3> DEFINE row == [db.showtime[w] EXCEPT !.studio = NoStudio]
               stock == [inv EXCEPT !.seats = {}]
    <3>2. Commit(c, [db EXCEPT !.showtime[w].studio = NoStudio, !.inventory[w].seats = {}])
      BY <1>8, <2>2 DEF DeleteShowtime, At
    <3>3. [db EXCEPT !.showtime[w].studio = NoStudio, !.inventory[w].seats = {}]
             = [db EXCEPT !.showtime[w] = row, !.inventory[w] = stock]
      BY <1>2, <1>3 DEF TableSet
    <3>4. row \in ShowtimeRow /\ row.studio = NoStudio
      <4>1. db.showtime[w] \in ShowtimeRow
        BY <1>2, <1>3 DEF TableSet
      <4> QED
        BY <4>1 DEF ShowtimeRow
    <3>5. stock \in Inventory
      BY <1>3 DEF Inventory
    <3>6. Replaceable(c, w, row, stock)
      BY <3>4 DEF Replaceable
    <3>7. Commit(c, [db EXCEPT !.showtime[w] = row, !.inventory[w] = stock])
      BY <3>2, <3>3
    <3> HIDE DEF row, stock
    <3>8. db' \in TableSet /\ ShowtimeReplaced(w, row, stock) /\ Finish(c, 200)
      BY <1>2, <1>3, <3>4, <3>5, <3>7 DEF Commit, ShowtimeReplaced, TableSet
    <3>9. SoleWriter(c, w)
      <4>1. db.showtime[w].studio # NoStudio /\ Lock("showtime", w, "update") \in held[c]
        BY <1>1, <1>8 DEF Established, DeletingShowtime, At
      <4>2. StockLocks(w, inv.seats) \subseteq held[c] /\ Unsold(db, w)
        BY <1>8, <3>1, DeletedUnsold
      <4> QED
        BY <4>1, <4>2 DEF SoleWriter
    <3> QED
      BY <1>1, <1>3, <3>4, <3>5, <3>6, <3>8, <3>9, ShowtimeCommit
  <2> QED
    BY <2>1, <2>2
<1> QED
  BY <1>6, <1>7, <1>8 DEF DeleteShowtime

----------------------------------------------------------------------------
(* Holds.                                                                  *)

LEMMA ReadMapKeeps ==
    ASSUME SchedulingInv, NEW c \in Calls, ReadMap(c)
    PROVE  SchedulingInv'
<1> DEFINE r == call[c].req
           w == r.showtime
           inv == db.inventory[w]
<1>1. call[c].phase \in Phases /\ call[c].phase # "idle" /\ r.op = "CreateHold"
  BY DEF ReadMap, At, Phases
<1>2. r \in Requests /\ db \in TableSet /\ call[c] \in Call
  BY DEF SchedulingInv, SchedulingTypeOK, Call
<1>3. w \in Showtimes /\ r.seats \in SUBSET Seats /\ inv \in Inventory
  BY <1>1, <1>2, RequestTypes DEF TableSet
<1>4. ASSUME NEW status \in Answers, Fail(c, status)
      PROVE  SchedulingInv'
  BY <1>1, <1>4, Fails
<1>5. CASE At(c, "CreateHold", "read")
  <2>1. CASE Enter(c, "map")
    <3>1. ASSUME NEW k \in Call, k.phase = "map", k.req = r
          PROVE  Established(db, k, held[c])
      <4>1. Holding(db, k, held[c])
        BY <3>1 DEF Holding
      <4> QED
        BY <1>1, <3>1, <4>1, EstablishedFor
    <3> QED
      BY <1>1, <2>1, <3>1, EnterKeeps DEF Phases
  <2>2. CASE Fail(c, 404)
    BY <1>4, <2>2 DEF Answers
  <2> QED
    BY <1>5, <2>1, <2>2 DEF ReadMap, At
<1>6. CASE At(c, "CreateHold", "map")
  <2>1. CASE r.seats \subseteq inv.seats
    <3> DEFINE k == [call[c] EXCEPT !.phase = "seats", !.rows = r.seats,
                                    !.version = inv.version, !.price = inv.price]
    <3>1. call' = [call EXCEPT ![c] = k] /\ UNCHANGED <<db, held>>
      BY <1>6, <2>1 DEF ReadMap, At
    <3>2. "seats" \in CallPhases /\ inv.version \in Nat /\ inv.price \in Price
      BY <1>3 DEF CallPhases, Phases, Inventory
    <3>3. /\ k \in Call /\ k.phase = "seats" /\ k.req = r /\ k.rows = r.seats
          /\ k.version = inv.version /\ k.price = inv.price
      BY <1>2, <1>3, <3>2 DEF Call
    <3> HIDE DEF k
    <3>4. Holding(db, k, held[c])
      BY <3>2, <3>3 DEF Holding
    <3>5. Established(db, k, held[c])
      BY <1>1, <3>3, <3>4, EstablishedFor
    <3> QED
      BY <1>1, <3>1, <3>3, <3>5, Moves
  <2>2. CASE ~(r.seats \subseteq inv.seats)
    BY <1>4, <1>6, <2>2 DEF ReadMap, At, Answers
  <2> QED
    BY <2>1, <2>2
<1> QED
  BY <1>5, <1>6 DEF ReadMap

LEMMA CreateHoldKeeps ==
    ASSUME SchedulingInv, NEW c \in Calls, CreateHold(c)
    PROVE  SchedulingInv'
<1> DEFINE r == call[c].req
           w == r.showtime
           inv == db.inventory[w]
<1>1. call[c].phase \in Phases /\ call[c].phase # "idle" /\ r.op = "CreateHold"
      /\ Established(db, call[c], held[c])
  BY DEF CreateHold, At, Phases, SchedulingInv
<1>2. r \in Requests /\ db \in TableSet
  BY DEF SchedulingInv, SchedulingTypeOK, Call
<1>3. w \in Showtimes /\ r.seats \in SUBSET Seats
  BY <1>1, <1>2, RequestTypes
<1>4. CASE At(c, "CreateHold", "seats")
  <2>1. CASE inv.version = call[c].version /\ r.seats \subseteq inv.seats /\ Enter(c, "parents")
    <3>1. call[c].rows = r.seats /\ call[c].price = inv.price
      BY <1>1, <1>4, <2>1 DEF Established, Holding, At
    <3>2. StockLocks(w, r.seats) \subseteq held[c]
      <4>1. call[c].rows \cap inv.seats = r.seats
        BY <2>1, <3>1
      <4>2. StockLocks(w, call[c].rows \cap inv.seats) \subseteq held[c]
        BY <1>4, <2>1, SeatsLocked
      <4> QED
        BY <4>1, <4>2
    <3>3. ASSUME NEW k \in Call, k.phase = "parents", k.req = r, k.price = call[c].price
          PROVE  Established(db, k, held[c])
      <4>1. Holding(db, k, held[c])
        BY <2>1, <3>1, <3>2, <3>3 DEF Holding
      <4> QED
        BY <1>1, <3>3, <4>1, EstablishedFor
    <3> QED
      BY <1>1, <2>1, <3>3, EnterKeeps DEF Phases
  <2>2. CASE Fail(c, 409)
    BY <1>1, <2>2, Fails DEF Answers
  <2> QED
    BY <1>4, <2>1, <2>2 DEF CreateHold, At
<1>5. CASE At(c, "CreateHold", "parents")
  <2>1. Commit(c, [db EXCEPT !.items = db.items \cup ({w} \X r.seats)])
    BY <1>5 DEF CreateHold, At
  <2>2. {w} \X r.seats \subseteq Showtimes \X Seats
    BY <1>3
  <2>3. /\ db' \in TableSet /\ db'.items = db.items \cup ({w} \X r.seats)
        /\ db'.cinemas = db.cinemas /\ db'.studio = db.studio
        /\ db'.movies = db.movies /\ db'.seat = db.seat
        /\ db'.showtime = db.showtime /\ db'.inventory = db.inventory
        /\ Finish(c, 200)
    BY <1>2, <2>1, <2>2 DEF Commit, TableSet
  <2> QED
    BY <1>1, <1>5, <2>3, HoldCommit DEF At
<1> QED
  BY <1>4, <1>5 DEF CreateHold

LEMMA OthersKeep ==
    ASSUME SchedulingInv, NEW c \in Calls,
           Read(c) \/ ReleaseHold(c) \/ Deadlock(c) \/ Cancelled(c)
    PROVE  SchedulingInv'
<1>1. ASSUME NEW status \in Answers, Fail(c, status), call[c].phase # "idle"
      PROVE  SchedulingInv'
  BY <1>1, Fails
<1>2. CASE Read(c)
  BY <1>1, <1>2, StatusTypes DEF Read, Answers
<1>3. CASE ReleaseHold(c)
  BY <1>1, <1>3 DEF ReleaseHold, At, Commit, Fail, Answers
<1>4. CASE Deadlock(c)
  <2>1. Blockers(c) # {}
    BY <1>4 DEF Deadlock, Rings, AllBlocked
  <2>2. Wanted(c) # {}
    BY <2>1 DEF Blockers, Missing
  <2>3. ASSUME call[c].phase = "idle"
        PROVE  Wanted(c) = {}
    BY <2>3 DEF Wanted
  <2>4. call[c].phase # "idle"
    BY <2>2, <2>3
  <2> QED
    BY <1>1, <1>4, <2>4 DEF Deadlock, Answers
<1>5. CASE Cancelled(c)
  BY <1>1, <1>5 DEF Cancelled, Running, Answers, Phases
<1> QED
  BY <1>2, <1>3, <1>4, <1>5

----------------------------------------------------------------------------
(* What was sold.                                                          *)

SoldKept ==
    \A item \in db.items :
        /\ item \in db'.items
        /\ db'.showtime[item[1]] = db.showtime[item[1]]
        /\ db'.inventory[item[1]] = db.inventory[item[1]]

LEMMA Untouched ==
    ASSUME db.items \subseteq db'.items,
           db'.showtime = db.showtime, db'.inventory = db.inventory
    PROVE  SoldKept
BY DEF SoldKept

LEMMA AdminSoldKept ==
    ASSUME SchedulingInv, NEW c \in Calls,
           \/ CreateCinema(c) \/ UpdateCinema(c) \/ DeleteCinema(c)
           \/ CreateStudio(c) \/ UpdateStudio(c) \/ DeleteStudio(c)
           \/ CreateMovie(c) \/ UpdateMovie(c) \/ DeleteMovie(c)
           \/ CreateSeat(c) \/ UpdateSeat(c) \/ DeleteSeat(c)
    PROVE  SoldKept
<1>1. db \in TableSet
  BY DEF SchedulingInv, SchedulingTypeOK
<1>2. ASSUME UNCHANGED db
      PROVE  SoldKept
  BY <1>2, Untouched
<1>3. ASSUME NEW v, db' = [db EXCEPT !.cinemas = v] \/ db' = [db EXCEPT !.movies = v]
                    \/ db' = [db EXCEPT !.studio = v] \/ db' = [db EXCEPT !.seat = v]
      PROVE  SoldKept
  BY <1>1, <1>3, Untouched DEF TableSet
<1> USE DEF Commit, Fail, Enter
<1>4. CASE CreateCinema(c) \/ UpdateCinema(c) \/ DeleteCinema(c)
  BY <1>2, <1>3, <1>4 DEF CreateCinema, UpdateCinema, DeleteCinema
<1>5. CASE CreateMovie(c) \/ UpdateMovie(c) \/ DeleteMovie(c)
  BY <1>2, <1>3, <1>5 DEF CreateMovie, UpdateMovie, DeleteMovie
<1>6. ASSUME EntryWritten(c) \/ StudioWritten(c)
      PROVE  SoldKept
  <2>1. ASSUME NEW v, NEW n, db' = [db EXCEPT !.studio = v, !.name = n]
        PROVE  SoldKept
    BY <1>1, <2>1, Untouched DEF TableSet
  <2> QED
    BY <1>2, <1>6, <2>1 DEF EntryWritten, StudioWritten
<1>7. CASE CreateStudio(c) \/ UpdateStudio(c) \/ DeleteStudio(c)
  BY <1>2, <1>3, <1>6, <1>7 DEF CreateStudio, UpdateStudio, DeleteStudio
<1>8. ASSUME LayoutWritten(c) \/ SeatWritten(c)
      PROVE  SoldKept
  BY <1>2, <1>3, <1>8 DEF LayoutWritten, SeatWritten
<1>9. CASE CreateSeat(c) \/ UpdateSeat(c) \/ DeleteSeat(c)
  BY <1>2, <1>3, <1>8, <1>9 DEF CreateSeat, UpdateSeat, DeleteSeat
<1> QED
  BY <1>4, <1>5, <1>7, <1>9

LEMMA ShowtimeSoldKept ==
    ASSUME SchedulingInv, NEW c \in Calls,
           CreateShowtime(c) \/ UpdateShowtime(c) \/ DeleteShowtime(c)
    PROVE  SoldKept
<1> DEFINE w == call[c].req.showtime
<1>1. db \in TableSet
  BY DEF SchedulingInv, SchedulingTypeOK
<1>2. ASSUME UNCHANGED db
      PROVE  SoldKept
  BY <1>2, Untouched
<1>3. ASSUME NEW row, NEW stock, Unsold(db, w),
             db' = [db EXCEPT !.showtime[w] = row, !.inventory[w] = stock]
      PROVE  SoldKept
  <2>1. /\ db'.items = db.items
        /\ db'.showtime = [db.showtime EXCEPT ![w] = row]
        /\ db'.inventory = [db.inventory EXCEPT ![w] = stock]
    BY <1>1, <1>3 DEF TableSet
  <2>2. \A item \in db.items : item[1] \in Showtimes /\ item[1] # w
    BY <1>1, <1>3 DEF TableSet, Unsold
  <2> QED
    BY <1>1, <2>1, <2>2 DEF SoldKept, TableSet
<1>4. ASSUME NEW op \in {"CreateShowtime", "UpdateShowtime"}, At(c, op, "copy"),
             ShowtimeWritten(c)
      PROVE  SoldKept
  <2>1. Unsold(db, w)
    BY <1>4, WrittenUnsold
  <2>2. \E row, stock : db' = [db EXCEPT !.showtime[w] = row, !.inventory[w] = stock]
    BY <1>4 DEF ShowtimeWritten, Commit
  <2> QED
    BY <1>3, <2>1, <2>2
<1>5. ASSUME At(c, "DeleteShowtime", "children"), DeleteShowtime(c), db' # db
      PROVE  SoldKept
  <2>1. ~CameUpon(c)
    BY <1>5 DEF DeleteShowtime, At, Fail
  <2>2. db' = [db EXCEPT !.showtime[w].studio = NoStudio, !.inventory[w].seats = {}]
    BY <1>5, <2>1 DEF DeleteShowtime, At, Commit
  <2>3. Unsold(db, w)
    <3>1. call[c].phase \in {"entry", "slot", "children"} /\ Missing(c) = {}
          /\ call[c].req.op = "DeleteShowtime"
      BY <1>5 DEF At
    <3>2. Kept(c) = {}
      BY <2>1, <3>1, NothingFound, NoneKept
    <3> QED
      BY <1>5, <3>2, DeletedUnsold
  <2>4. \E row, stock : db' = [db EXCEPT !.showtime[w] = row, !.inventory[w] = stock]
    BY <2>2
  <2> QED
    BY <1>3, <2>3, <2>4
<1>6. ASSUME NEW next, ReferencesRead(c, next) \/ SlotWritten(c) \/ EnterCopy(c)
                       \/ EnterSeats(c)
      PROVE  UNCHANGED db
  BY <1>6 DEF ReferencesRead, SlotWritten, EnterCopy, EnterSeats, Fail, Enter
<1>7. CASE CreateShowtime(c)
  BY <1>2, <1>4, <1>6, <1>7 DEF CreateShowtime, Fail, Enter
<1>8. CASE UpdateShowtime(c)
  BY <1>2, <1>4, <1>6, <1>8 DEF UpdateShowtime, Fail, Enter
<1>9. CASE DeleteShowtime(c)
  <2>1. CASE At(c, "DeleteShowtime", "children")
    BY <1>2, <1>5, <1>9, <2>1
  <2>2. CASE ~At(c, "DeleteShowtime", "children")
    BY <1>2, <1>9, <2>2 DEF DeleteShowtime, Fail, Enter
  <2> QED
    BY <2>1, <2>2
<1> QED
  BY <1>7, <1>8, <1>9

LEMMA CustomersSoldKept ==
    ASSUME SchedulingInv, NEW c \in Calls,
           Read(c) \/ ReadMap(c) \/ CreateHold(c) \/ ReleaseHold(c)
    PROVE  SoldKept
<1>1. db \in TableSet
  BY DEF SchedulingInv, SchedulingTypeOK
<1>2. ASSUME UNCHANGED db
      PROVE  SoldKept
  BY <1>2, Untouched
<1>3. ASSUME NEW more, db' = [db EXCEPT !.items = db.items \cup more]
      PROVE  SoldKept
  BY <1>1, <1>3, Untouched DEF TableSet
<1> QED
  BY <1>2, <1>3 DEF Read, ReadMap, CreateHold, ReleaseHold, Commit, Fail, Enter

LEMMA StepSoldKept ==
    ASSUME SchedulingInv, SchedulingNext
    PROVE  SoldKept
<1>1. ASSUME UNCHANGED db
      PROVE  SoldKept
  BY <1>1, Untouched
<1>2. CASE Finished
  BY <1>1, <1>2 DEF Finished, schedulingVars
<1>3. ASSUME NEW c \in Calls, Receive(c) \/ Acquire(c) \/ Deadlock(c) \/ Cancelled(c)
      PROVE  SoldKept
  BY <1>1, <1>3 DEF Receive, Acquire, Deadlock, Cancelled, Fail
<1>4. ASSUME NEW c \in Calls, Step(c)
      PROVE  SoldKept
  BY <1>3, <1>4, AdminSoldKept, ShowtimeSoldKept, CustomersSoldKept DEF Step
<1> QED
  BY <1>2, <1>3, <1>4 DEF SchedulingNext

----------------------------------------------------------------------------
(* The theorems.                                                           *)

LEMMA InvInit == SchedulingInit => SchedulingInv
<1> SUFFICES ASSUME SchedulingInit
             PROVE  SchedulingInv
  OBVIOUS
<1>1. Unread \in Price /\ 0 \in Answers /\ "idle" \in CallPhases
  BY DEF Unread, Price, Answers, CallPhases
<1>2. (CHOOSE r \in Requests : TRUE) \in Requests
  BY RequestsAssumption
<1>3. \A c \in Calls : call[c] \in Call /\ call[c].phase = "idle" /\ held[c] = {}
  BY <1>1, <1>2 DEF SchedulingInit, Call
<1>4. SchedulingTypeOK
  BY <1>3, TablesAssumption DEF SchedulingInit, SchedulingTypeOK
<1>5. Exclusion /\ NewIds
  BY <1>3 DEF Exclusion, NewIds
<1>6. \A c \in Calls : Established(db, call[c], held[c])
  BY <1>3, AtRest
<1>7. Sound(db)
  BY TablesAssumption DEF SchedulingInit, Sound, SoldFromStock
<1> QED
  BY <1>4, <1>5, <1>6, <1>7 DEF SchedulingInv

LEMMA InvNext == SchedulingInv /\ [SchedulingNext]_schedulingVars => SchedulingInv'
<1> SUFFICES ASSUME SchedulingInv, [SchedulingNext]_schedulingVars
             PROVE  SchedulingInv'
  OBVIOUS
<1>1. ASSUME UNCHANGED schedulingVars
      PROVE  SchedulingInv'
  BY <1>1 DEF schedulingVars, SchedulingInv, SchedulingTypeOK, Exclusion, NewIds
<1>2. CASE Finished
  BY <1>1, <1>2 DEF Finished
<1>3. ASSUME NEW c \in Calls, Receive(c)
      PROVE  SchedulingInv'
  BY <1>3, ReceiveKeeps
<1>4. ASSUME NEW c \in Calls, Step(c)
      PROVE  SchedulingInv'
  <2>1. CASE Acquire(c)
    BY <2>1, AcquireKeeps
  <2>2. CASE CreateCinema(c) \/ UpdateCinema(c) \/ DeleteCinema(c)
    BY <2>2, CinemasKeep
  <2>3. CASE CreateStudio(c) \/ UpdateStudio(c) \/ DeleteStudio(c)
    BY <2>3, StudiosKeep
  <2>4. CASE CreateMovie(c) \/ UpdateMovie(c) \/ DeleteMovie(c)
    BY <2>4, MoviesKeep
  <2>5. CASE CreateSeat(c) \/ UpdateSeat(c) \/ DeleteSeat(c)
    BY <2>5, SeatsKeep
  <2>6. CASE CreateShowtime(c)
    BY <2>6, CreateShowtimeKeeps
  <2>7. CASE UpdateShowtime(c)
    BY <2>7, UpdateShowtimeKeeps
  <2>8. CASE DeleteShowtime(c)
    BY <2>8, DeleteShowtimeKeeps
  <2>9. CASE ReadMap(c)
    BY <2>9, ReadMapKeeps
  <2>10. CASE CreateHold(c)
    BY <2>10, CreateHoldKeeps
  <2>11. CASE Read(c) \/ ReleaseHold(c) \/ Deadlock(c)
    BY <2>11, OthersKeep
  <2> QED
    BY <1>4, <2>1, <2>2, <2>3, <2>4, <2>5, <2>6, <2>7, <2>8, <2>9, <2>10, <2>11 DEF Step
<1>5. ASSUME NEW c \in Calls, Cancelled(c)
      PROVE  SchedulingInv'
  BY <1>5, OthersKeep
<1> QED
  BY <1>1, <1>2, <1>3, <1>4, <1>5 DEF SchedulingNext

\* What locks and checks have established for each transaction holds until it
\* commits, whatever the others do: the inductive invariant.
THEOREM SchedulingInvariant == SchedulingSpec => []SchedulingInv
BY InvInit, InvNext, PTL DEF SchedulingSpec

\* The tables, the calls and the locks always have their types.
THEOREM SchedulingTypeCorrect == SchedulingSpec => []SchedulingTypeOK
<1>1. SchedulingInv => SchedulingTypeOK
  BY DEF SchedulingInv
<1> QED
  BY <1>1, SchedulingInvariant, PTL

\* The seats for sale of every showtime are those of its studio's layout, at
\* the showtime's price, however changes of layouts and showtimes race.
THEOREM InventoryAlwaysMatches == SchedulingSpec => []InventoryMatchesLayout
<1>1. SchedulingInv => InventoryMatchesLayout
  BY DEF SchedulingInv, Sound, InventoryMatchesLayout
<1> QED
  BY <1>1, SchedulingInvariant, PTL

\* Two showtimes of one studio never overlap.
THEOREM NeverOverlap == SchedulingSpec => []NoOverlap
<1>1. SchedulingInv => NoOverlap
  BY DEF SchedulingInv, Sound, NoOverlap
<1> QED
  BY <1>1, SchedulingInvariant, PTL

\* Every reference of a committed row leads to a committed row: nobody deletes
\* the movie or the studio of a showtime that is being written, or the cinema
\* of a studio.
THEOREM ReferencesAlwaysHold == SchedulingSpec => []ReferencesHold
<1>1. SchedulingInv => ReferencesHold
  BY DEF SchedulingInv, Sound, ReferencesHold
<1> QED
  BY <1>1, SchedulingInvariant, PTL

\* A customer whose hold has got its seats pays what the seat map showed.
THEOREM PriceAlwaysAsShown == SchedulingSpec => []PriceAsShown
<1>1. SchedulingInv => PriceAsShown
  BY DEF SchedulingInv, Established, Holding, PriceAsShown
<1> QED
  BY <1>1, SchedulingInvariant, PTL

\* A screening for which seats were ordered is never moved, repriced or
\* deleted, and keeps all its seats.
THEOREM ScreeningsKept == SchedulingSpec => OrderedScreeningsKept
<1>1. SchedulingInv /\ [SchedulingNext]_schedulingVars
         => [SoldKept]_schedulingVars
  BY StepSoldKept
<1>2. SchedulingSpec => [][SoldKept]_schedulingVars
  BY <1>1, SchedulingInvariant, PTL DEF SchedulingSpec
<1> QED
  BY <1>2 DEF OrderedScreeningsKept, SoldKept

----------------------------------------------------------------------------
(* Deadlocks: which locks each call may have.                              *)

LayoutOps == {"CreateSeat", "UpdateSeat", "DeleteSeat", "CreateShowtime",
              "UpdateShowtime"}
StockOps == {"UpdateShowtime", "DeleteShowtime", "CreateHold", "ReleaseHold"}
Rows == {"cinema", "studio", "movie", "seat", "showtime"}

\* A call has its own row, a studio's name, layouts, the seats of its
\* showtime, and shared locks of any row.
Owned(c, l) ==
    LET r == call[c].req IN
    \/ r.op # "UpdateStudio" /\ l \in RowOf(c)
    \/ r.op = "UpdateStudio" /\ l.on = <<"studio", r.studio>>
    \/ /\ r.op \in {"CreateStudio", "UpdateStudio"}
       /\ l = Lock("name", <<r.cinema, r.name>>, "update")
    \/ /\ r.op \in LayoutOps
       /\ \E st \in Studios \cup {NoStudio} : l = Lock("layout", st, "update")
    \/ /\ r.op \in StockOps
       /\ \E s \in Seats, mode \in Modes :
             /\ l = Lock("inventory", <<r.showtime, s>>, mode)
             /\ mode = "key share" => r.op = "DeleteShowtime"
             /\ r.op = "CreateHold" => mode = "update"
    \/ l.mode \in Shared /\ l.on[1] \in Rows

\* A hold that waits has locked smaller seats only, ...
Rising(t, k, locks) ==
    LET w == k.req.showtime
        stock == t.inventory[w]
        seat(s) == Lock("inventory", <<w, s>>, "update")
    IN
    k.req.op = "CreateHold" /\ k.phase = "seats" /\ k.version = stock.version =>
        \A s \in k.rows \cap stock.seats, q \in Seats :
            seat(s) \notin locks /\ seat(q) \in locks => q <= s

\* ... and whoever waits for a layout has locked smaller ones only.
Climbing(c) ==
    call[c].phase = "layout" =>
        \A st \in Layouts(c), q \in Studios \cup {NoStudio} :
            /\ Lock("layout", st, "update") \notin held[c]
            /\ Lock("layout", q, "update") \in held[c]
            => q <= st

\* Who waits for its own row, or as a creation for its layout, has no other
\* lock.
Lone(c) ==
    LET r == call[c].req IN
    /\ call[c].phase = "row" /\ r.op # "UpdateStudio" => held[c] \subseteq RowOf(c)
    /\ call[c].phase = "layout" /\ r.op \in {"CreateSeat", "CreateShowtime"}
          => held[c] \subseteq {Lock("layout", r.studio, "update")}

Locking(c) ==
    /\ ~Running(c) \/ call[c].phase \in {"refs", "read", "map"} => held[c] = {}
    /\ call[c].phase = "copy" => call[c].req.op \in {"CreateShowtime", "UpdateShowtime"}
    /\ call[c].phase = "show" => call[c].req.op = "DeleteShowtime"
    /\ \A l \in held[c] : Owned(c, l)
    /\ Lone(c)
    /\ Rising(db, call[c], held[c])
    /\ Climbing(c)

LockingInv == SchedulingInv /\ \A c \in Calls : Locking(c)

----------------------------------------------------------------------------
(* A step ends a call, takes a lock, or goes on to another phase.          *)

\* What the locks kept in a later phase depend on.
Proceeds(op, from, to) ==
    /\ to \notin {"refs", "read", "insert"}
    /\ to = "row" => from = "refs"
    /\ to = "map" => from = "read"
    /\ to = "layout" => \/ from = "refs"
                        \/ from = "row" /\ op \in {"UpdateSeat", "DeleteSeat", "UpdateShowtime"}
    /\ to = "seats" => op = "UpdateShowtime" \/ from = "map"
    /\ to = "copy" => op \in {"CreateShowtime", "UpdateShowtime"}
    /\ to = "show" => op = "DeleteShowtime"

Goes(c) ==
    \E k \in Call :
        /\ k.req = call[c].req
        /\ k.phase \in Phases /\ call[c].phase \in Phases
        /\ Proceeds(k.req.op, call[c].phase, k.phase)
        /\ call' = [call EXCEPT ![c] = k]
        /\ UNCHANGED <<db, held>>

Stops(c) == \E status \in Answers : Finish(c, status)

LEMMA EnterGoes ==
    ASSUME SchedulingTypeOK, NEW c \in Calls, NEW phase \in Phases, Enter(c, phase),
           call[c].phase \in Phases,
           Proceeds(call[c].req.op, call[c].phase, phase)
    PROVE  Goes(c)
<1> DEFINE k == [call[c] EXCEPT !.phase = phase]
<1>1. k \in Call /\ k.req = call[c].req /\ k.phase = phase
  BY DEF SchedulingTypeOK, Call, CallPhases
<1>2. call' = [call EXCEPT ![c] = k] /\ UNCHANGED <<db, held>>
  BY DEF Enter
<1> HIDE DEF k
<1> QED
  BY <1>1, <1>2 DEF Goes

LEMMA SeatsGo ==
    ASSUME SchedulingTypeOK, NEW c \in Calls, EnterSeats(c),
           call[c].phase \in Phases, call[c].req.op = "UpdateShowtime"
    PROVE  Goes(c)
<1> DEFINE stock == db.inventory[call[c].req.showtime]
           k == [call[c] EXCEPT !.phase = "seats", !.rows = stock.seats,
                                !.version = stock.version]
<1>1. stock \in Inventory
  BY RequestTypes DEF SchedulingTypeOK, TableSet, Call, ShowtimeOps
<1>2. k \in Call /\ k.req = call[c].req /\ k.phase = "seats"
  BY <1>1 DEF SchedulingTypeOK, Call, CallPhases, Phases, Inventory
<1>3. call' = [call EXCEPT ![c] = k] /\ UNCHANGED <<db, held>>
  BY DEF EnterSeats
<1>4. Proceeds(k.req.op, call[c].phase, k.phase)
  BY <1>2 DEF Proceeds
<1> HIDE DEF k
<1> QED
  BY <1>2, <1>3, <1>4 DEF Goes, Phases

LEMMA CopyGoes ==
    ASSUME SchedulingTypeOK, NEW c \in Calls, EnterCopy(c), call[c].phase \in Phases,
           \/ call[c].req.op = "UpdateShowtime"
           \/ call[c].req.op = "CreateShowtime" /\ call[c].phase = "parents"
    PROVE  Goes(c)
<1> DEFINE k == [call[c] EXCEPT !.phase = "copy",
                                !.rows = Layout(db, call[c].req.studio)]
<1>1. k \in Call /\ k.req = call[c].req /\ k.phase = "copy"
  BY DEF SchedulingTypeOK, Call, CallPhases, Phases, Layout
<1>2. call' = [call EXCEPT ![c] = k] /\ UNCHANGED <<db, held>>
  BY DEF EnterCopy
<1>3. Proceeds(k.req.op, call[c].phase, k.phase)
  BY <1>1 DEF Proceeds
<1> HIDE DEF k
<1> QED
  BY <1>1, <1>2, <1>3 DEF Goes, Phases

LEMMA Shapes ==
    ASSUME SchedulingTypeOK, NEW c \in Calls, Step(c)
    PROVE  Acquire(c) \/ Stops(c) \/ Goes(c)
<1>1. ASSUME NEW status \in Answers, Fail(c, status)
      PROVE  Stops(c)
  BY <1>1 DEF Fail, Stops
<1>2. ASSUME NEW tables, Commit(c, tables)
      PROVE  Stops(c)
  BY <1>2 DEF Commit, Stops, Answers
<1>3. 404 \in Answers /\ 409 \in Answers /\ 500 \in Answers /\ 200 \in Answers
  BY DEF Answers
<1>4. CASE CreateCinema(c) \/ UpdateCinema(c) \/ DeleteCinema(c)
  <2>1. ASSUME At(c, "DeleteCinema", "row"), Enter(c, "children")
        PROVE  Goes(c)
    BY <2>1, EnterGoes DEF At, Proceeds, Phases
  <2> QED
    BY <1>1, <1>2, <1>4, <2>1, StatusTypes DEF CreateCinema, UpdateCinema, DeleteCinema
<1>5. CASE CreateMovie(c) \/ UpdateMovie(c) \/ DeleteMovie(c)
  <2>1. ASSUME At(c, "DeleteMovie", "row"), Enter(c, "children")
        PROVE  Goes(c)
    BY <2>1, EnterGoes DEF At, Proceeds, Phases
  <2> QED
    BY <1>1, <1>2, <1>5, <2>1, StatusTypes DEF CreateMovie, UpdateMovie, DeleteMovie
<1>6. ASSUME NEW op, At(c, op, "entry"), EntryWritten(c)
      PROVE  Stops(c) \/ Goes(c)
  <2>1. ASSUME Enter(c, "parents")
        PROVE  Goes(c)
    BY <1>6, <2>1, EnterGoes DEF At, Proceeds, Phases
  <2> QED
    BY <1>1, <1>6, <2>1, StatusTypes DEF EntryWritten
<1>7. ASSUME StudioWritten(c)
      PROVE  Stops(c)
  BY <1>1, <1>2, <1>7, StatusTypes DEF StudioWritten
<1>8. CASE CreateStudio(c)
  BY <1>6, <1>7, <1>8 DEF CreateStudio
<1>9. CASE UpdateStudio(c)
  <2>1. ASSUME At(c, "UpdateStudio", "row"), Enter(c, "entry")
        PROVE  Goes(c)
    BY <2>1, EnterGoes DEF At, Proceeds, Phases
  <2> QED
    BY <1>1, <1>6, <1>7, <1>9, <2>1, StatusTypes DEF UpdateStudio
<1>10. CASE DeleteStudio(c)
  <2>1. ASSUME At(c, "DeleteStudio", "row"), Enter(c, "children")
        PROVE  Goes(c)
    BY <2>1, EnterGoes DEF At, Proceeds, Phases
  <2> QED
    BY <1>1, <1>2, <1>10, <2>1, StatusTypes DEF DeleteStudio
<1>11. ASSUME LayoutWritten(c), NEW op \in {"CreateSeat", "UpdateSeat"}, At(c, op, "layout")
      PROVE  Stops(c) \/ Goes(c)
  <2>1. ASSUME Enter(c, "parents")
        PROVE  Goes(c)
    BY <1>11, <2>1, EnterGoes DEF At, Proceeds, Phases
  <2> QED
    BY <1>1, <1>11, <2>1, StatusTypes DEF LayoutWritten
<1>12. ASSUME SeatWritten(c)
       PROVE  Stops(c)
  BY <1>1, <1>2, <1>12, StatusTypes DEF SeatWritten
<1>13. CASE CreateSeat(c)
  BY <1>11, <1>12, <1>13 DEF CreateSeat
<1>14. CASE UpdateSeat(c)
  <2>1. ASSUME At(c, "UpdateSeat", "row"), Enter(c, "layout")
        PROVE  Goes(c)
    BY <2>1, EnterGoes DEF At, Proceeds, Phases
  <2>2. CASE At(c, "UpdateSeat", "layout") /\ LayoutWritten(c)
    BY <1>11, <2>2
  <2>3. CASE At(c, "UpdateSeat", "parents") /\ SeatWritten(c)
    BY <1>12, <2>3
  <2> QED
    BY <1>1, <1>2, <1>14, <2>1, <2>2, <2>3, StatusTypes DEF UpdateSeat
<1>15. CASE DeleteSeat(c)
  <2>1. ASSUME At(c, "DeleteSeat", "row"), Enter(c, "layout")
        PROVE  Goes(c)
    BY <2>1, EnterGoes DEF At, Proceeds, Phases
  <2> QED
    BY <1>1, <1>2, <1>15, <2>1, StatusTypes DEF DeleteSeat
<1>16. ASSUME NEW op, At(c, op, "slot"), SlotWritten(c)
       PROVE  Stops(c) \/ Goes(c)
  <2>1. ASSUME Enter(c, "parents")
        PROVE  Goes(c)
    BY <1>16, <2>1, EnterGoes DEF At, Proceeds, Phases
  <2> QED
    BY <1>1, <1>16, <2>1, StatusTypes DEF SlotWritten
<1>17. CASE CreateShowtime(c)
  <2>1. ASSUME At(c, "CreateShowtime", "refs"), Enter(c, "layout")
        PROVE  Goes(c)
    BY <2>1, EnterGoes DEF At, Proceeds, Phases
  <2>2. CASE At(c, "CreateShowtime", "refs") /\ ReferencesRead(c, "layout")
    BY <1>1, <2>1, <2>2, StatusTypes DEF ReferencesRead
  <2>3. CASE At(c, "CreateShowtime", "layout") /\ Enter(c, "slot")
    BY <2>3, EnterGoes DEF At, Proceeds, Phases
  <2>4. CASE At(c, "CreateShowtime", "slot") /\ SlotWritten(c)
    BY <1>16, <2>4
  <2>5. ASSUME At(c, "CreateShowtime", "parents"), EnterCopy(c)
        PROVE  Goes(c)
    BY <2>5, CopyGoes DEF At, Phases
  <2>6. CASE At(c, "CreateShowtime", "copy") /\ ShowtimeWritten(c)
    BY <1>2, <2>6 DEF ShowtimeWritten
  <2> QED
    BY <1>1, <1>17, <2>2, <2>3, <2>4, <2>5, <2>6, StatusTypes DEF CreateShowtime
<1>18. CASE UpdateShowtime(c)
  <2>1. ASSUME At(c, "UpdateShowtime", "refs"), Enter(c, "row")
        PROVE  Goes(c)
    BY <2>1, EnterGoes DEF At, Proceeds, Phases
  <2>2. CASE At(c, "UpdateShowtime", "refs") /\ ReferencesRead(c, "row")
    BY <1>1, <2>1, <2>2, StatusTypes DEF ReferencesRead
  <2>3. ASSUME At(c, "UpdateShowtime", "row"), Enter(c, "layout")
        PROVE  Goes(c)
    BY <2>3, EnterGoes DEF At, Proceeds, Phases
  <2>4. CASE At(c, "UpdateShowtime", "layout") /\ Enter(c, "slot")
    BY <2>4, EnterGoes DEF At, Proceeds, Phases
  <2>5. CASE At(c, "UpdateShowtime", "slot") /\ SlotWritten(c)
    BY <1>16, <2>5
  <2>6. ASSUME At(c, "UpdateShowtime", "parents"), EnterSeats(c)
        PROVE  Goes(c)
    BY <2>6, SeatsGo DEF At, Phases
  <2>7. ASSUME At(c, "UpdateShowtime", "seats"), EnterCopy(c)
        PROVE  Goes(c)
    BY <2>7, CopyGoes DEF At, Phases
  <2>8. CASE At(c, "UpdateShowtime", "copy") /\ ShowtimeWritten(c)
    BY <1>2, <2>8 DEF ShowtimeWritten
  <2> QED
    BY <1>1, <1>18, <2>2, <2>3, <2>4, <2>5, <2>6, <2>7, <2>8, StatusTypes
    DEF UpdateShowtime
<1>19. CASE DeleteShowtime(c)
  <2>1. ASSUME At(c, "DeleteShowtime", "seats"), Enter(c, "show")
        PROVE  Goes(c)
    BY <2>1, EnterGoes DEF At, Proceeds, Phases
  <2>2. ASSUME At(c, "DeleteShowtime", "show"), Enter(c, "children")
        PROVE  Goes(c)
    BY <2>2, EnterGoes DEF At, Proceeds, Phases
  <2> QED
    BY <1>1, <1>2, <1>19, <2>1, <2>2, StatusTypes DEF DeleteShowtime
<1>20. CASE Read(c) \/ ReleaseHold(c) \/ Deadlock(c)
  BY <1>1, <1>2, <1>3, <1>20, StatusTypes DEF Read, ReleaseHold, Deadlock
<1>21. CASE ReadMap(c)
  <2>1. ASSUME At(c, "CreateHold", "read"), Enter(c, "map")
        PROVE  Goes(c)
    BY <2>1, EnterGoes DEF At, Proceeds, Phases
  <2> DEFINE r == call[c].req
             stock == db.inventory[r.showtime]
             k == [call[c] EXCEPT !.phase = "seats", !.rows = r.seats,
                                  !.version = stock.version, !.price = stock.price]
  <2>2. ASSUME At(c, "CreateHold", "map"), UNCHANGED <<db, held>>,
               call' = [call EXCEPT ![c] = k]
        PROVE  Goes(c)
    <3>1. r \in Requests /\ r.op = "CreateHold"
      BY <2>2 DEF At, SchedulingTypeOK, Call
    <3>2. stock \in Inventory /\ r.seats \subseteq Seats
      BY <3>1, RequestTypes DEF SchedulingTypeOK, TableSet
    <3>3. k \in Call /\ k.req = r /\ k.phase = "seats"
      BY <3>2 DEF SchedulingTypeOK, Call, CallPhases, Phases, Inventory
    <3>4. call[c].phase = "map"
      BY <2>2 DEF At
    <3> HIDE DEF k
    <3>5. Proceeds(k.req.op, call[c].phase, k.phase)
      BY <3>1, <3>3, <3>4 DEF Proceeds
    <3>6. k.phase \in Phases /\ call[c].phase \in Phases
      BY <3>3, <3>4 DEF Phases
    <3> QED
      BY <2>2, <3>3, <3>5, <3>6 DEF Goes
  <2>3. ASSUME At(c, "CreateHold", "map"), UNCHANGED <<db, held>>,
               call' = [call EXCEPT ![c] = [@ EXCEPT
                          !.phase = "seats", !.rows = r.seats,
                          !.version = stock.version, !.price = stock.price]]
        PROVE  Goes(c)
    BY <2>2, <2>3
  <2> HIDE DEF k
  <2> QED
    BY <1>1, <1>3, <1>21, <2>1, <2>3 DEF ReadMap
<1>22. CASE CreateHold(c)
  <2>1. ASSUME At(c, "CreateHold", "seats"), Enter(c, "parents")
        PROVE  Goes(c)
    BY <2>1, EnterGoes DEF At, Proceeds, Phases
  <2> QED
    BY <1>1, <1>2, <1>3, <1>22, <2>1 DEF CreateHold
<1>23. CASE Acquire(c)
  BY <1>23
<1> QED
  BY <1>4, <1>5, <1>9, <1>13, <1>14, <1>15, <1>17, <1>18, <1>19, <1>20, <1>21, <1>22,
     <1>23, <1>8, <1>10 DEF Step

----------------------------------------------------------------------------
(* What a call that waits has read is not changed behind its back.         *)

\* The rows of a showtime only get a new version, or fewer.
Aging ==
    \A w \in Showtimes :
        LET old == db.inventory[w]
            new == db'.inventory[w]
        IN  \/ new.version > old.version
            \/ new.version = old.version /\ new.seats \subseteq old.seats

\* The row of a seat or a showtime changes only by a call that has locked it,
\* or when it is new.
OwnRows(c) ==
    /\ \A s \in Seats :
          \/ db'.seat[s] = db.seat[s]
          \/ db.seat[s].studio = NoStudio
          \/ Lock("seat", s, "update") \in held[c]
    /\ \A w \in Showtimes :
          \/ db'.showtime[w] = db.showtime[w]
          \/ db.showtime[w].studio = NoStudio
          \/ Lock("showtime", w, "update") \in held[c]
          \/ Lock("showtime", w, "no key update") \in held[c]

Careful(c) == Aging /\ OwnRows(c)

LEMMA SameRows ==
    ASSUME NEW c, db'.inventory = db.inventory, db'.seat = db.seat,
           db'.showtime = db.showtime
    PROVE  Careful(c)
BY DEF Careful, Aging, OwnRows

LEMMA AdminCareful ==
    ASSUME SchedulingInv, NEW c \in Calls,
           \/ CreateCinema(c) \/ UpdateCinema(c) \/ DeleteCinema(c)
           \/ CreateStudio(c) \/ UpdateStudio(c) \/ DeleteStudio(c)
           \/ CreateMovie(c) \/ UpdateMovie(c) \/ DeleteMovie(c)
    PROVE  Careful(c)
<1>1. db \in TableSet
  BY DEF SchedulingInv, SchedulingTypeOK
<1>2. ASSUME UNCHANGED db
      PROVE  Careful(c)
  BY <1>2, SameRows
<1>3. ASSUME NEW v, NEW n,
             \/ db' = [db EXCEPT !.cinemas = v] \/ db' = [db EXCEPT !.movies = v]
             \/ db' = [db EXCEPT !.studio = v] \/ db' = [db EXCEPT !.studio = v, !.name = n]
      PROVE  Careful(c)
  BY <1>1, <1>3, SameRows DEF TableSet
<1> USE DEF Commit, Fail, Enter
<1>4. CASE CreateCinema(c) \/ UpdateCinema(c) \/ DeleteCinema(c)
  BY <1>2, <1>3, <1>4 DEF CreateCinema, UpdateCinema, DeleteCinema
<1>5. CASE CreateMovie(c) \/ UpdateMovie(c) \/ DeleteMovie(c)
  BY <1>2, <1>3, <1>5 DEF CreateMovie, UpdateMovie, DeleteMovie
<1>6. ASSUME EntryWritten(c) \/ StudioWritten(c)
      PROVE  Careful(c)
  BY <1>2, <1>3, <1>6 DEF EntryWritten, StudioWritten
<1>7. CASE CreateStudio(c) \/ UpdateStudio(c) \/ DeleteStudio(c)
  BY <1>2, <1>3, <1>6, <1>7 DEF CreateStudio, UpdateStudio, DeleteStudio
<1> QED
  BY <1>4, <1>5, <1>7

LEMMA SeatsCareful ==
    ASSUME SchedulingInv, NEW c \in Calls, CreateSeat(c) \/ UpdateSeat(c) \/ DeleteSeat(c)
    PROVE  Careful(c)
<1> DEFINE s == call[c].req.seat
<1>1. db \in TableSet /\ Established(db, call[c], held[c])
  BY DEF SchedulingInv, SchedulingTypeOK
<1>2. ASSUME UNCHANGED db
      PROVE  Careful(c)
  BY <1>2, SameRows
<1>3. ASSUME NEW row, db' = [db EXCEPT !.seat[s] = row],
             db.seat[s].studio = NoStudio \/ Lock("seat", s, "update") \in held[c]
      PROVE  Careful(c)
  <2>1. db'.inventory = db.inventory /\ db'.showtime = db.showtime
        /\ db'.seat = [db.seat EXCEPT ![s] = row]
    BY <1>1, <1>3 DEF TableSet
  <2>2. \A q \in Seats : q # s => db'.seat[q] = db.seat[q]
    BY <1>1, <2>1 DEF TableSet
  <2> HIDE DEF s
  <2>3. Aging
    BY <2>1 DEF Aging
  <2> QED
    BY <1>3, <2>1, <2>2, <2>3 DEF Careful, OwnRows
<1>4. ASSUME LayoutWritten(c)
      PROVE  UNCHANGED db
  BY <1>4 DEF LayoutWritten, Fail, Enter
<1>5. ASSUME NEW op \in {"CreateSeat", "UpdateSeat"}, At(c, op, "parents"), SeatWritten(c)
      PROVE  Careful(c)
  <2>1. db.seat[s].studio = NoStudio \/ Lock("seat", s, "update") \in held[c]
    BY <1>1, <1>5 DEF Established, CreatingSeat, UpdatingSeat, At, Phases
  <2>2. UNCHANGED db \/ \E row : db' = [db EXCEPT !.seat[s] = row]
    BY <1>5 DEF SeatWritten, Fail, Commit
  <2> QED
    BY <1>2, <1>3, <2>1, <2>2
<1>6. ASSUME At(c, "DeleteSeat", "layout"), db' = [db EXCEPT !.seat[s].studio = NoStudio]
      PROVE  Careful(c)
  <2>1. Lock("seat", s, "update") \in held[c]
    BY <1>1, <1>6 DEF Established, DeletingSeat, At
  <2>2. \E row : db' = [db EXCEPT !.seat[s] = row]
    BY <1>6
  <2> QED
    BY <1>3, <2>1, <2>2
<1>7. CASE CreateSeat(c)
  BY <1>2, <1>4, <1>5, <1>7 DEF CreateSeat
<1>8. CASE UpdateSeat(c)
  BY <1>2, <1>4, <1>5, <1>8 DEF UpdateSeat, Fail, Commit, Enter
<1>9. CASE DeleteSeat(c)
  BY <1>2, <1>6, <1>9 DEF DeleteSeat, Fail, Commit, Enter
<1> QED
  BY <1>7, <1>8, <1>9

LEMMA ShowtimesCareful ==
    ASSUME SchedulingInv, NEW c \in Calls,
           CreateShowtime(c) \/ UpdateShowtime(c) \/ DeleteShowtime(c)
    PROVE  Careful(c)
<1> DEFINE w == call[c].req.showtime
           inv == db.inventory[w]
           Older(new) == \/ new.version > inv.version
                         \/ new.version = inv.version /\ new.seats = {}
           Mine == \/ db.showtime[w].studio = NoStudio
                   \/ Lock("showtime", w, "update") \in held[c]
                   \/ Lock("showtime", w, "no key update") \in held[c]
<1>1. /\ db \in TableSet /\ Established(db, call[c], held[c])
      /\ \A v \in Showtimes : db.inventory[v].version \in Nat
  BY DEF SchedulingInv, SchedulingTypeOK, TableSet, Inventory
<1>2. ASSUME UNCHANGED db
      PROVE  Careful(c)
  BY <1>2, SameRows
<1>3. ASSUME NEW row, NEW stock, Mine,
             Older(stock), db' = [db EXCEPT !.showtime[w] = row, !.inventory[w] = stock]
      PROVE  Careful(c)
  <2>1. /\ db'.inventory = [db.inventory EXCEPT ![w] = stock]
        /\ db'.showtime = [db.showtime EXCEPT ![w] = row]
        /\ db'.seat = db.seat
    BY <1>1, <1>3 DEF TableSet
  <2>2. DOMAIN db.inventory = Showtimes /\ DOMAIN db.showtime = Showtimes
    BY <1>1 DEF TableSet
  <2>3. \A v \in Showtimes :
           /\ db'.inventory[v] = IF v = w THEN stock ELSE db.inventory[v]
           /\ v # w => db'.showtime[v] = db.showtime[v]
    BY <2>1, <2>2
  <2> HIDE DEF w
  <2>4. Aging
    BY <1>3, <2>3 DEF Aging
  <2>5. OwnRows(c)
    BY <1>3, <2>1, <2>3 DEF OwnRows
  <2> QED
    BY <2>4, <2>5 DEF Careful
<1> HIDE DEF Older
<1>4. w \in Showtimes
  <2>1. call[c].req.op \in ShowtimeOps
    BY DEF CreateShowtime, UpdateShowtime, DeleteShowtime, At, ShowtimeOps
  <2> QED
    BY <2>1, RequestTypes DEF SchedulingInv, SchedulingTypeOK, Call
<1>5. ASSUME NEW op \in {"CreateShowtime", "UpdateShowtime"}, At(c, op, "copy"),
             ShowtimeWritten(c)
      PROVE  Careful(c)
  <2> DEFINE stock == [version |-> inv.version + 1, price |-> call[c].req.price,
                       seats |-> call[c].rows]
  <2>1. \E row : db' = [db EXCEPT !.showtime[w] = row, !.inventory[w] = stock]
    BY <1>5 DEF ShowtimeWritten, Commit
  <2>2. Older(stock)
    BY <1>1, <1>4 DEF Older
  <2>3. Mine
    BY <1>1, <1>5 DEF Established, CreatingShowtime, UpdatingShowtime, At, Phases
  <2> HIDE DEF stock, Mine
  <2> QED
    BY <1>3, <2>1, <2>2, <2>3
<1>6. ASSUME DeleteShowtime(c), db' # db
      PROVE  Careful(c)
  <2>1. /\ db' = [db EXCEPT !.showtime[w].studio = NoStudio, !.inventory[w].seats = {}]
        /\ At(c, "DeleteShowtime", "children")
    BY <1>6 DEF DeleteShowtime, Commit, Fail, Enter
  <2> DEFINE stock == [inv EXCEPT !.seats = {}]
  <2>2. \E row : db' = [db EXCEPT !.showtime[w] = row, !.inventory[w] = stock]
    BY <2>1
  <2>3. inv \in Inventory
    BY <1>1, <1>4 DEF TableSet
  <2>4. Older(stock)
    BY <2>3 DEF Inventory, Older
  <2>5. Mine
    BY <1>1, <2>1 DEF Established, DeletingShowtime, At
  <2> HIDE DEF stock, Mine
  <2> QED
    BY <1>3, <2>2, <2>4, <2>5
<1>7. ASSUME NEW next, ReferencesRead(c, next) \/ SlotWritten(c) \/ EnterCopy(c)
                       \/ EnterSeats(c)
      PROVE  UNCHANGED db
  BY <1>7 DEF ReferencesRead, SlotWritten, EnterCopy, EnterSeats, Fail, Enter
<1>8. CASE CreateShowtime(c)
  BY <1>2, <1>5, <1>7, <1>8 DEF CreateShowtime, Fail, Enter
<1>9. CASE UpdateShowtime(c)
  BY <1>2, <1>5, <1>7, <1>9 DEF UpdateShowtime, Fail, Enter
<1>10. CASE DeleteShowtime(c)
  BY <1>2, <1>6, <1>10
<1> QED
  BY <1>8, <1>9, <1>10

LEMMA StepCareful ==
    ASSUME SchedulingInv, NEW c \in Calls, Receive(c) \/ Step(c) \/ Cancelled(c)
    PROVE  Careful(c)
<1>1. db \in TableSet
  BY DEF SchedulingInv, SchedulingTypeOK
<1>2. ASSUME UNCHANGED db
      PROVE  Careful(c)
  BY <1>2, SameRows
<1>3. ASSUME NEW more, db' = [db EXCEPT !.items = db.items \cup more]
      PROVE  Careful(c)
  BY <1>1, <1>3, SameRows DEF TableSet
<1>4. CASE Receive(c) \/ Acquire(c) \/ Deadlock(c) \/ Cancelled(c)
  BY <1>2, <1>4 DEF Receive, Acquire, Deadlock, Cancelled, Fail
<1>5. CASE Read(c) \/ ReadMap(c) \/ CreateHold(c) \/ ReleaseHold(c)
  BY <1>2, <1>3, <1>5 DEF Read, ReadMap, CreateHold, ReleaseHold, Commit, Fail, Enter
<1> QED
  BY <1>4, <1>5, AdminCareful, SeatsCareful, ShowtimesCareful DEF Step

----------------------------------------------------------------------------
(* The locks a call has are those it may have.                             *)

LEMMA RowStill ==
    ASSUME NEW c, call'[c] = call[c], call[c].req.op # "UpdateStudio"
    PROVE  RowOf(c)' = RowOf(c)
BY DEF RowOf

LEMMA OwnedStill ==
    ASSUME NEW c, call'[c] = call[c]
    PROVE  \A l : Owned(c, l)' = Owned(c, l)
<1>1. CASE call[c].req.op = "UpdateStudio"
  BY <1>1 DEF Owned
<1>2. CASE call[c].req.op # "UpdateStudio"
  <2>1. RowOf(c)' = RowOf(c)
    BY <1>2, RowStill
  <2> QED
    BY <1>2, <2>1 DEF Owned
<1> QED
  BY <1>1, <1>2

LEMMA LayoutTypes ==
    ASSUME SchedulingTypeOK, NEW c \in Calls
    PROVE  /\ Layouts(c) \subseteq Studios \cup {NoStudio}
           /\ Layouts(c) # {} => call[c].req.op \in LayoutOps
<1> DEFINE r == call[c].req
<1>1. /\ r \in Requests
      /\ db.seat \in [Seats -> SeatRow] /\ db.showtime \in [Showtimes -> ShowtimeRow]
  BY DEF SchedulingTypeOK, Call, TableSet
<1>2. r.op \in {"CreateSeat", "CreateShowtime", "UpdateSeat", "UpdateShowtime"}
         => r.studio \in Studios
  BY <1>1, RequestTypes DEF SeatOps, ShowtimeOps
<1>3. /\ r.op \in {"UpdateSeat", "DeleteSeat"} =>
            db.seat[r.seat].studio \in Studios \cup {NoStudio}
      /\ r.op = "UpdateShowtime" =>
            db.showtime[r.showtime].studio \in Studios \cup {NoStudio}
  BY <1>1, RequestTypes DEF SeatRow, ShowtimeRow, SeatOps, ShowtimeOps
<1>4. Layouts(c) # {} => r.op \in LayoutOps
  BY DEF Layouts, LayoutOps
<1> QED
  BY <1>2, <1>3, <1>4, LayoutsOf DEF LayoutOps

LEMMA LockParts ==
    ASSUME NEW l, NEW kind, NEW mode,
           \/ \E id : l = Lock(kind, id, mode)
           \/ \E ids : l \in RowLock(kind, ids, mode)
    PROVE  l.on[1] = kind /\ l.mode = mode
<1>1. PICK id : l = Lock(kind, id, mode)
  BY DEF RowLock, Lock
<1> QED
  BY <1>1 DEF Lock

LEMMA WantedOwned ==
    ASSUME SchedulingInv, NEW c \in Calls, NEW l \in Wanted(c)
    PROVE  Owned(c, l)
<1> DEFINE r == call[c].req
           phase == call[c].phase
<1>1. SchedulingTypeOK /\ OnStock(call[c]) /\ call[c].rows \subseteq Seats
  BY DEF SchedulingInv, Established, SchedulingTypeOK, Call
<1>2. r \in Requests /\ db.inventory \in [Showtimes -> Inventory]
  BY <1>1 DEF SchedulingTypeOK, Call, TableSet
<1>3. ASSUME NEW kind \in Rows, NEW mode \in Shared, NEW ids, l \in RowLock(kind, ids, mode)
      PROVE  Owned(c, l)
  <2>1. l.on[1] = kind /\ l.mode = mode
    BY <1>3, LockParts
  <2> QED
    BY <1>3, <2>1 DEF Owned
<1>4. CASE phase \in {"row", "show"}
  <2>1. l \in RowOf(c)
    BY <1>4 DEF Wanted
  <2>2. ASSUME r.op = "UpdateStudio"
        PROVE  l.on = <<"studio", r.studio>>
    <3>1. \E mode : RowOf(c) = RowLock("studio", {r.studio}, mode)
      BY <2>2 DEF RowOf
    <3> QED
      BY <2>1, <3>1 DEF RowLock
  <2> QED
    BY <2>1, <2>2 DEF Owned
<1>5. CASE phase = "layout"
  <2>1. PICK st \in Layouts(c) : l = Lock("layout", st, "update")
    BY <1>5 DEF Wanted, RowLock, Lock
  <2>2. st \in Studios \cup {NoStudio} /\ r.op \in LayoutOps
    BY <1>1, <2>1, LayoutTypes
  <2> QED
    BY <2>1, <2>2 DEF Owned
<1>6. CASE phase = "parents"
  <2>1. l \in ParentsOf(c)
    BY <1>6 DEF Wanted
  <2>2. \E kind \in Rows : \E ids : l \in RowLock(kind, ids, "key share")
    <3>1. CASE r.op \in {"CreateStudio", "UpdateStudio"}
      BY <2>1, <3>1 DEF ParentsOf, Rows
    <3>2. CASE r.op \in {"CreateSeat", "UpdateSeat"}
      BY <2>1, <3>2 DEF ParentsOf, Rows
    <3>3. CASE r.op \in {"CreateShowtime", "UpdateShowtime"}
      BY <2>1, <3>3 DEF ParentsOf, Rows
    <3>4. CASE r.op = "CreateHold"
      BY <2>1, <3>4 DEF ParentsOf, Rows
    <3> QED
      BY <2>1, <3>1, <3>2, <3>3, <3>4 DEF ParentsOf
  <2> QED
    BY <1>3, <2>2 DEF Shared
<1>7. CASE phase = "seats"
  <2>1. l \in SeatRowsOf(c) /\ r.op \in StockOps
    BY <1>1, <1>7 DEF Wanted, OnStock, StockOps
  <2> DEFINE mode == IF r.op = "ReleaseHold" THEN "no key update" ELSE "update"
             found == call[c].rows \cap db.inventory[r.showtime].seats
  <2>2. l \in RowLock("inventory", {r.showtime} \X found, mode)
    BY <2>1 DEF SeatRowsOf
  <2>3. PICK id \in {r.showtime} \X found : l = Lock("inventory", id, mode)
    BY <2>2 DEF RowLock, Lock
  <2>4. id = <<r.showtime, id[2]>> /\ id[2] \in Seats
    BY <1>1
  <2>5. mode \in Modes /\ mode # "key share" /\ (r.op = "CreateHold" => mode = "update")
    BY DEF Modes
  <2> HIDE DEF mode
  <2> QED
    BY <2>1, <2>3, <2>4, <2>5 DEF Owned
<1>8. CASE phase = "copy"
  <2>1. l \in RowLock("seat", call[c].rows, "key share")
    BY <1>8 DEF Wanted
  <2> QED
    BY <1>3, <2>1 DEF Shared, Rows
<1>9. CASE phase \in {"entry", "slot", "children"}
  <2>1. l \in LookedFor(c)
    BY <1>9 DEF Wanted
  <2>2. CASE r.op \in {"CreateStudio", "UpdateStudio"}
    <3>1. \/ l \in RowLock("studio", Namesakes(r), "share")
          \/ l \in RowLock("name", {<<r.cinema, r.name>>}, "update")
      BY <2>1, <2>2 DEF LookedFor, EntryOf
    <3>2. CASE l \in RowLock("studio", Namesakes(r), "share")
      BY <1>3, <3>2 DEF Shared, Rows
    <3>3. CASE l \in RowLock("name", {<<r.cinema, r.name>>}, "update")
      <4>1. l = Lock("name", <<r.cinema, r.name>>, "update")
        BY <3>3 DEF RowLock, Lock
      <4> QED
        BY <2>2, <4>1 DEF Owned
    <3> QED
      BY <3>1, <3>2, <3>3
  <2>3. CASE r.op \in {"CreateShowtime", "UpdateShowtime"}
    <3>1. \E ids : l \in RowLock("showtime", ids, "key share")
      BY <2>1, <2>3 DEF LookedFor, SlotOf
    <3> QED
      BY <1>3, <3>1 DEF Shared, Rows
  <2>4. CASE r.op \in {"DeleteCinema", "DeleteStudio", "DeleteMovie"}
    <3>1. \E kind \in Rows : \E ids : l \in RowLock(kind, ids, "key share")
      BY <2>1, <2>4 DEF LookedFor, ChildrenOf, Rows
    <3> QED
      BY <1>3, <3>1 DEF Shared
  <2>5. CASE r.op = "DeleteShowtime"
    <3>1. LookedFor(c) = RowLock("inventory", {r.showtime} \X Kept(c), "key share")
      BY <2>5 DEF LookedFor, ChildrenOf
    <3>2. PICK id \in {r.showtime} \X Kept(c) : l = Lock("inventory", id, "key share")
      BY <2>1, <3>1 DEF RowLock, Lock
    <3>3. r.showtime \in Showtimes
      BY <1>2, <2>5, RequestTypes DEF ShowtimeOps
    <3>4. Kept(c) \subseteq Seats
      BY <1>2, <3>3 DEF Kept, Inventory
    <3>5. id = <<r.showtime, id[2]>> /\ id[2] \in Seats
      BY <3>4
    <3> QED
      BY <2>5, <3>2, <3>5 DEF Owned, StockOps, Modes
  <2> QED
    BY <2>1, <2>2, <2>3, <2>4, <2>5 DEF LookedFor, ChildrenOf
<1> QED
  BY <1>4, <1>5, <1>6, <1>7, <1>8, <1>9 DEF Wanted

LEMMA AcquireLone ==
    ASSUME SchedulingInv, NEW c \in Calls, Locking(c), NEW l \in Wanted(c),
           call'[c] = call[c], held'[c] = held[c] \cup {l}
    PROVE  Lone(c)'
<1> DEFINE r == call[c].req
<1>1. ASSUME call[c].phase = "row", r.op # "UpdateStudio"
      PROVE  held'[c] \subseteq RowOf(c)'
  <2>1. l \in RowOf(c) /\ held[c] \subseteq RowOf(c)
    BY <1>1 DEF Wanted, Locking, Lone
  <2> QED
    BY <1>1, <2>1, RowStill
<1>2. ASSUME call[c].phase = "layout", r.op \in {"CreateSeat", "CreateShowtime"}
      PROVE  held'[c] \subseteq {Lock("layout", r.studio, "update")}
  <2>1. Layouts(c) = {r.studio}
    BY <1>2, LayoutsOf
  <2>2. l = Lock("layout", r.studio, "update")
    BY <1>2, <2>1 DEF Wanted, RowLock, Lock
  <2> QED
    BY <1>2, <2>2 DEF Locking, Lone
<1> QED
  BY <1>1, <1>2 DEF Lone

LEMMA AcquireLocking ==
    ASSUME LockingInv, NEW c \in Calls, Acquire(c)
    PROVE  Locking(c)'
<1>1. PICK l \in Missing(c) :
         /\ InOrder(c, l)
         /\ held' = [held EXCEPT ![c] = @ \cup {l}]
         /\ UNCHANGED <<db, call>>
  BY DEF Acquire
<1>2. Locking(c) /\ SchedulingInv /\ l \in Wanted(c)
  BY <1>1 DEF LockingInv, Missing
<1>3. /\ Owned(c, l) /\ Running(c)
      /\ call[c].phase \notin {"refs", "read", "map"}
  BY <1>2, WantedOwned DEF Wanted, Running, Phases
<1>4. held'[c] = held[c] \cup {l}
  BY <1>1, <1>2 DEF SchedulingInv, SchedulingTypeOK
<1>5. \A m \in held'[c] : Owned(c, m)'
  BY <1>1, <1>2, <1>3, <1>4, OwnedStill DEF Locking
<1>6. Rising(db, call[c], held'[c])
  <2> DEFINE w == call[c].req.showtime
             stock == db.inventory[w]
             seat(s) == Lock("inventory", <<w, s>>, "update")
  <2> SUFFICES ASSUME call[c].req.op = "CreateHold", call[c].phase = "seats",
                      call[c].version = stock.version,
                      NEW s \in call[c].rows \cap stock.seats, NEW q \in Seats,
                      seat(s) \notin held'[c], seat(q) \in held'[c]
               PROVE  q <= s
    BY DEF Rising
  <2>1. seat(s) \notin held[c]
    BY <1>4
  <2>2. CASE seat(q) \in held[c]
    BY <1>2, <2>1, <2>2 DEF Locking, Rising
  <2>3. CASE seat(q) = l
    <3>1. Wanted(c) = SeatRowsOf(c)
      BY DEF Wanted
    <3>2. SeatRowsOf(c) = RowLock("inventory", {w} \X (call[c].rows \cap stock.seats),
                                  "update")
      BY DEF SeatRowsOf
    <3>3. seat(s) \in SeatRowsOf(c)
      BY <3>2 DEF RowLock, Lock
    <3>4. seat(s) \in Missing(c)
      BY <2>1, <3>1, <3>3 DEF Missing
    <3>5. l.on[2][2] <= seat(s).on[2][2]
      BY <1>1, <3>4 DEF InOrder
    <3> QED
      BY <2>3, <3>5 DEF Lock
  <2> QED
    BY <1>4, <2>2, <2>3
<1>7. Climbing(c)'
  <2> DEFINE layout(st) == Lock("layout", st, "update")
  <2>1. Layouts(c)' = Layouts(c)
    BY <1>1 DEF Layouts
  <2> SUFFICES ASSUME call[c].phase = "layout", NEW st \in Layouts(c),
                      NEW q \in Studios \cup {NoStudio},
                      layout(st) \notin held'[c], layout(q) \in held'[c]
               PROVE  q <= st
    BY <1>1, <2>1 DEF Climbing
  <2>2. layout(st) \notin held[c]
    BY <1>4
  <2>3. CASE layout(q) \in held[c]
    BY <1>2, <2>2, <2>3 DEF Locking, Climbing
  <2>4. CASE layout(q) = l
    <3>1. layout(st) \in Missing(c)
      BY <2>2 DEF Missing, Wanted, RowLock, Lock
    <3>2. l.on[1] = "layout" /\ l.on[2] = q /\ layout(st).on[2] = st
      BY <2>4 DEF Lock
    <3>3. l.on[2] <= layout(st).on[2]
      BY <1>1, <3>1, <3>2 DEF InOrder
    <3> QED
      BY <3>2, <3>3
  <2> QED
    BY <1>4, <2>3, <2>4
<1>8. Lone(c)'
  BY <1>1, <1>2, <1>4, AcquireLone
<1> QED
  BY <1>1, <1>2, <1>3, <1>5, <1>6, <1>7, <1>8 DEF Locking, Running

LEMMA GoesLocking ==
    ASSUME LockingInv, NEW c \in Calls, Goes(c)
    PROVE  Locking(c)'
<1>1. PICK k \in Call :
        /\ k.req = call[c].req
        /\ k.phase \in Phases /\ call[c].phase \in Phases
        /\ Proceeds(k.req.op, call[c].phase, k.phase)
        /\ call' = [call EXCEPT ![c] = k]
        /\ UNCHANGED <<db, held>>
  BY DEF Goes
<1>2. call'[c] = k /\ call'[c].req = call[c].req /\ held'[c] = held[c]
  BY <1>1 DEF LockingInv, SchedulingInv, SchedulingTypeOK
<1>3. Locking(c)
  BY DEF LockingInv
<1>4. Running(c)'
  BY <1>1, <1>2 DEF Running
<1>5. /\ k.phase = "copy" => k.req.op \in {"CreateShowtime", "UpdateShowtime"}
      /\ k.phase = "show" => k.req.op = "DeleteShowtime"
      /\ k.phase \in {"refs", "read", "map", "row"} => held[c] = {}
  BY <1>1, <1>3 DEF Proceeds, Locking
<1>6. RowOf(c)' = RowOf(c)
  BY <1>1, <1>2 DEF RowOf, KeepsKey
<1>7. \A l \in held[c] : Owned(c, l)'
  BY <1>2, <1>3, <1>6 DEF Owned, Locking
<1>8. Rising(db, k, held[c])
  <2>1. SUFFICES ASSUME k.req.op = "CreateHold", k.phase = "seats"
                 PROVE  held[c] = {}
    BY DEF Rising
  <2> QED
    BY <1>1, <1>3, <2>1 DEF Proceeds, Locking
<1>9. k.phase = "layout" =>
         \/ held[c] = {}
         \/ /\ k.req.op \notin {"CreateSeat", "CreateShowtime"}
            /\ \A q : Lock("layout", q, "update") \notin held[c]
  <2>1. SUFFICES ASSUME call[c].phase = "row",
                        k.req.op \in {"UpdateSeat", "DeleteSeat", "UpdateShowtime"}
                 PROVE  \A q : Lock("layout", q, "update") \notin held[c]
    BY <1>1, <1>3 DEF Proceeds, Locking
  <2>2. held[c] \subseteq RowOf(c)
    BY <1>1, <1>3, <2>1 DEF Locking, Lone
  <2>3. \E kind \in Rows : \E ids, mode : RowOf(c) = RowLock(kind, ids, mode)
    <3>1. CASE k.req.op \in {"UpdateSeat", "DeleteSeat"}
      BY <1>1, <3>1 DEF RowOf, Rows
    <3>2. CASE k.req.op = "UpdateShowtime"
      BY <1>1, <3>2 DEF RowOf, Rows
    <3> QED
      BY <2>1, <3>1, <3>2
  <2>4. \A l \in RowOf(c) : l.on[1] \in Rows
    BY <2>3, LockParts
  <2>5. \A q : Lock("layout", q, "update").on[1] \notin Rows
    BY DEF Lock, Rows
  <2> QED
    BY <2>2, <2>4, <2>5
<1>10. Climbing(c)'
  BY <1>2, <1>9 DEF Climbing
<1>11. Lone(c)'
  BY <1>2, <1>5, <1>9 DEF Lone
<1> QED
  BY <1>1, <1>2, <1>4, <1>5, <1>7, <1>8, <1>10, <1>11 DEF Locking

LEMMA StopsLocking ==
    ASSUME LockingInv, NEW c \in Calls, Stops(c)
    PROVE  Locking(c)'
<1>1. call'[c].phase = "done" /\ held'[c] = {}
  BY DEF LockingInv, SchedulingInv, SchedulingTypeOK, Stops, Finish, Call
<1> QED
  BY <1>1 DEF Locking, Lone, Rising, Climbing

\* What has been received has locked nothing yet.
LEMMA ReceiveLocking ==
    ASSUME LockingInv, NEW c \in Calls, Receive(c)
    PROVE  Locking(c)'
<1>1. call[c].phase = "idle" /\ Locking(c) /\ held' = held
  BY DEF Receive, LockingInv
<1>2. held'[c] = {}
  BY <1>1 DEF Locking, Running, Phases
<1>3. call'[c].phase \notin {"copy", "show"}
  <2>1. PICK r \in Requests :
           call'[c].phase \in {"done", FirstPhase(r.op)}
    BY DEF Receive, LockingInv, SchedulingInv, SchedulingTypeOK, Call
  <2>2. FirstPhase(r.op) \in {"insert", "entry", "layout", "refs", "seats", "read", "row"}
    BY DEF FirstPhase
  <2> QED
    BY <2>1, <2>2
<1> QED
  BY <1>2, <1>3 DEF Locking, Lone, Rising, Climbing

\* The layouts that a call waits for stay the same, for it has locked its row.
LEMMA LayoutsStill ==
    ASSUME SchedulingInv, NEW c \in Calls, NEW d \in Calls, c # d, OwnRows(c),
           call'[d] = call[d], call[d].phase = "layout"
    PROVE  Layouts(d)' = Layouts(d)
<1> DEFINE r == call[d].req
<1>1. Exclusion /\ Established(db, call[d], held[d]) /\ r \in Requests
  BY DEF SchedulingInv, SchedulingTypeOK, Call
<1>2. CASE r.op \in {"UpdateSeat", "DeleteSeat"}
  <2>1. /\ Lock("seat", r.seat, "update") \in held[d]
        /\ db.seat[r.seat].studio # NoStudio
    BY <1>1, <1>2 DEF Established, UpdatingSeat, DeletingSeat
  <2>2. r.seat \in Seats
    BY <1>1, <1>2, RequestTypes DEF SeatOps
  <2>3. Lock("seat", r.seat, "update") \notin held[c]
    BY <1>1, <2>1, OneHolder DEF Shared
  <2>4. db'.seat[r.seat] = db.seat[r.seat]
    BY <2>1, <2>2, <2>3 DEF OwnRows
  <2> QED
    BY <1>2, <2>4 DEF Layouts
<1>3. CASE r.op = "UpdateShowtime"
  <2>1. /\ Lock("showtime", r.showtime, "no key update") \in held[d]
        /\ db.showtime[r.showtime].studio # NoStudio
    BY <1>1, <1>3 DEF Established, UpdatingShowtime
  <2>2. r.showtime \in Showtimes
    BY <1>1, <1>3, RequestTypes DEF ShowtimeOps
  <2>3. Lock("showtime", r.showtime, "update") \notin held[c]
    BY <1>1, <2>1, OneHolder DEF Shared
  <2>4. ASSUME Lock("showtime", r.showtime, "no key update") \in held[c]
        PROVE  FALSE
    <3>1. "no key update" \in Shared
      BY <1>1, <2>1, <2>4, OneHolder
    <3> QED
      BY <3>1 DEF Shared
  <2>5. db'.showtime[r.showtime] = db.showtime[r.showtime]
    BY <2>1, <2>2, <2>3, <2>4 DEF OwnRows
  <2> QED
    BY <1>3, <2>5 DEF Layouts
<1>4. CASE r.op \notin {"UpdateSeat", "DeleteSeat", "UpdateShowtime"}
  BY <1>4 DEF Layouts
<1> QED
  BY <1>2, <1>3, <1>4

LEMMA OthersLocking ==
    ASSUME LockingInv, NEW c \in Calls, NEW d \in Calls, c # d, Careful(c),
           call'[d] = call[d], held'[d] = held[d]
    PROVE  Locking(d)'
<1> DEFINE k == call[d]
           w == k.req.showtime
<1>1. Locking(d) /\ Established(db, k, held[d]) /\ k \in Call /\ db \in TableSet
  BY DEF LockingInv, SchedulingInv, SchedulingTypeOK
<1>2. \A l \in held[d] : Owned(d, l)'
  BY <1>1, OwnedStill DEF Locking
<1>3. Rising(db', k, held[d])
  <2>1. SUFFICES ASSUME k.req.op = "CreateHold", k.phase = "seats"
                 PROVE  Rising(db', k, held[d])
    BY DEF Rising
  <2>2. w \in Showtimes
    BY <1>1, <2>1, RequestTypes DEF Call
  <2>3. /\ k.version <= db.inventory[w].version
        /\ k.version \in Nat /\ db.inventory[w].version \in Nat
    BY <1>1, <2>1, <2>2 DEF Established, Holding, Call, TableSet, Inventory
  <2> DEFINE old == db.inventory[w]
             new == db'.inventory[w]
  <2>4. \/ new.version > old.version
        \/ new.version = old.version /\ new.seats \subseteq old.seats
    BY <2>2 DEF Careful, Aging
  <2>5. CASE new.version > old.version
    <3>1. k.version # new.version
      BY <2>3, <2>5
    <3> QED
      BY <3>1 DEF Rising
  <2>6. CASE new.version = old.version /\ new.seats \subseteq old.seats
    BY <1>1, <2>6 DEF Locking, Rising
  <2> QED
    BY <2>4, <2>5, <2>6
<1>4. Climbing(d)'
  <2>1. call[d].phase = "layout" => Layouts(d)' = Layouts(d)
    BY LayoutsStill DEF LockingInv, Careful
  <2> QED
    BY <1>1, <2>1 DEF Locking, Climbing
<1>5. Lone(d)'
  BY <1>1, RowStill DEF Locking, Lone
<1> QED
  BY <1>1, <1>2, <1>3, <1>4, <1>5 DEF Locking, Running

LEMMA LockingNext ==
    LockingInv /\ [SchedulingNext]_schedulingVars => LockingInv'
<1> SUFFICES ASSUME LockingInv, [SchedulingNext]_schedulingVars
             PROVE  LockingInv'
  OBVIOUS
<1>1. SchedulingInv'
  BY InvNext DEF LockingInv
<1>2. ASSUME UNCHANGED schedulingVars, NEW d \in Calls
      PROVE  Locking(d)'
  <2>1. Locking(d) /\ Layouts(d)' = Layouts(d)
    BY <1>2 DEF schedulingVars, LockingInv, Layouts
  <2>2. \A l \in held[d] : Owned(d, l)'
    BY <1>2, <2>1, OwnedStill DEF schedulingVars, Locking
  <2>3. Lone(d)'
    BY <1>2, <2>1, RowStill DEF schedulingVars, Locking, Lone
  <2> QED
    BY <1>2, <2>1, <2>2, <2>3 DEF schedulingVars, Locking, Running, Climbing
<1>3. ASSUME NEW c \in Calls, Receive(c) \/ Step(c) \/ Cancelled(c), NEW d \in Calls
      PROVE  Locking(d)'
  <2>1. SchedulingTypeOK /\ SchedulingInv
    BY DEF LockingInv, SchedulingInv
  <2>2. Receive(c) \/ Acquire(c) \/ Stops(c) \/ Goes(c)
    BY <1>3, <2>1, Shapes DEF Cancelled, Fail, Stops, Answers
  <2>3. CASE d = c
    BY <2>2, <2>3, ReceiveLocking, AcquireLocking, StopsLocking, GoesLocking
  <2>4. CASE d # c
    <3>1. call'[d] = call[d]
      BY <2>1, <2>2, <2>4 DEF SchedulingTypeOK, Receive, Acquire, Stops, Finish, Goes
    <3>2. held'[d] = held[d]
      BY <2>1, <2>2, <2>4 DEF SchedulingTypeOK, Receive, Acquire, Stops, Finish, Goes
    <3>3. Careful(c)
      BY <1>3, <2>1, StepCareful
    <3> QED
      BY <2>4, <3>1, <3>2, <3>3, OthersLocking
  <2> QED
    BY <2>3, <2>4
<1> QED
  BY <1>1, <1>2, <1>3 DEF SchedulingNext, Finished, LockingInv

LEMMA LockingInit == SchedulingInit => LockingInv
<1> SUFFICES ASSUME SchedulingInit
             PROVE  LockingInv
  OBVIOUS
<1>1. \A c \in Calls : call[c].phase = "idle" /\ held[c] = {}
  BY DEF SchedulingInit
<1>2. \A c \in Calls : Locking(c)
  BY <1>1 DEF Locking, Lone, Rising, Climbing
<1> QED
  BY <1>2, InvInit DEF LockingInv


----------------------------------------------------------------------------
(* Who waits for whom.                                                     *)

\* Call c waits for a lock l, because d has m.
Waits(c, d, l, m) ==
    /\ c # d /\ l \in Missing(c) /\ InOrder(c, l)
    /\ m \in held[d] /\ m.on = l.on /\ ~Compatible(l.mode, m.mode)

LEMMA RingWaits ==
    ASSUME NEW ring \in Rings
    PROVE  /\ ring \subseteq Calls /\ ring # {}
           /\ \A c \in ring : \E d \in ring : \E l, m : Waits(c, d, l, m)
<1>1. ring \subseteq Calls /\ ring # {} /\ AllBlocked(ring)
  BY DEF Rings
<1> QED
  BY <1>1 DEF AllBlocked, Blockers, Conflict, Waits

\* A ring has no smaller part in which everybody waits for the others.
LEMMA ClosedPart ==
    ASSUME NEW ring \in Rings, NEW part \in SUBSET ring, part # {},
           \A c \in part, d \in ring : (\E l, m : Waits(c, d, l, m)) => d \in part
    PROVE  part = ring
<1>1. AllBlocked(part)
  <2>1. SUFFICES ASSUME NEW c \in part
                 PROVE  Blockers(c) \cap part # {}
    BY DEF AllBlocked
  <2>2. PICK d \in ring : \E l, m : Waits(c, d, l, m)
    BY RingWaits
  <2>3. d \in part /\ d \in Calls
    BY <2>2, RingWaits
  <2>4. d \in Blockers(c)
    BY <2>2, <2>3 DEF Waits, Blockers, Conflict
  <2> QED
    BY <2>3, <2>4
<1> QED
  BY <1>1 DEF Rings

\* Somebody waits for every member.
LEMMA WaitedFor ==
    ASSUME NEW ring \in Rings, NEW d \in ring
    PROVE  \E c \in ring : \E l, m : Waits(c, d, l, m)
<1> SUFFICES ASSUME \A c \in ring : ~\E l, m : Waits(c, d, l, m)
             PROVE  FALSE
  OBVIOUS
<1> DEFINE part == ring \ {d}
<1>1. PICK e \in ring : \E l, m : Waits(d, e, l, m)
  BY RingWaits
<1>2. e \in part
  BY <1>1
<1>3. \A c \in part, f \in ring : (\E l, m : Waits(c, f, l, m)) => f \in part
  OBVIOUS
<1>4. part \in SUBSET ring
  OBVIOUS
<1> HIDE DEF part
<1>5. part = ring
  BY <1>2, <1>3, <1>4, ClosedPart
<1> QED
  BY <1>5 DEF part

\* Nobody waits in a ring for somebody higher up.
LEMMA NoClimb ==
    ASSUME NEW ring \in Rings, NEW height,
           \A c \in ring : height[c] \in Nat,
           \A c, d \in ring : (\E l, m : Waits(c, d, l, m)) => height[c] < height[d]
    PROVE  FALSE
<1>1. PICK c \in ring : TRUE
  BY RingWaits
<1>2. PICK d \in ring : \E l, m : Waits(c, d, l, m)
  BY RingWaits
<1> DEFINE part == {e \in ring : height[c] < height[e]}
<1>3. part \in SUBSET ring /\ d \in part
  BY <1>2
<1>4. ASSUME NEW e \in part, NEW f \in ring, \E l, m : Waits(e, f, l, m)
      PROVE  f \in part
  <2>1. height[c] < height[e] /\ height[e] < height[f]
    BY <1>4
  <2>2. height[c] \in Nat /\ height[e] \in Nat /\ height[f] \in Nat
    BY <1>4
  <2> QED
    BY <2>1, <2>2
<1> HIDE DEF part
<1>5. part = ring
  BY <1>3, <1>4, ClosedPart
<1>6. height[c] < height[c] /\ height[c] \in Nat
  BY <1>5 DEF part
<1> QED
  BY <1>6

----------------------------------------------------------------------------
(* Whose locks they are.                                                   *)

\* An exclusive lock of a row is that of its writer.
Writer(d, m) ==
    LET r == call[d].req IN
    /\ m.on[1] = "cinema" => r.op = "DeleteCinema"
    /\ m.on[1] = "studio" =>
          r.op \in {"UpdateStudio", "DeleteStudio"} /\ m.on[2] = r.studio
    /\ m.on[1] = "movie" => r.op = "DeleteMovie"
    /\ m.on[1] = "seat" => r.op \in {"UpdateSeat", "DeleteSeat"} /\ m.on[2] = r.seat
    /\ m.on[1] = "showtime" => r.op = "DeleteShowtime" /\ m.on[2] = r.showtime

\* The row a call locks first is one of a table.
LEMMA OneRow ==
    ASSUME NEW c
    PROVE  \/ RowOf(c) = {}
           \/ \E kind \in Rows : \E id : \E mode \in Modes \ Shared :
                 RowOf(c) = RowLock(kind, {id}, mode)
<1> DEFINE r == call[c].req
<1>1. CASE r.op \in {"UpdateCinema", "DeleteCinema"}
  BY <1>1 DEF RowOf, Rows, Modes, Shared
<1>2. CASE r.op = "UpdateStudio"
  BY <1>2 DEF RowOf, Rows, Modes, Shared
<1>3. CASE r.op = "DeleteStudio"
  BY <1>3 DEF RowOf, Rows, Modes, Shared
<1>4. CASE r.op \in {"UpdateMovie", "DeleteMovie"}
  BY <1>4 DEF RowOf, Rows, Modes, Shared
<1>5. CASE r.op \in {"UpdateSeat", "DeleteSeat"}
  BY <1>5 DEF RowOf, Rows, Modes, Shared
<1>6. CASE r.op \in {"UpdateShowtime", "DeleteShowtime"}
  BY <1>6 DEF RowOf, Rows, Modes, Shared
<1>7. CASE r.op \notin {"UpdateCinema", "DeleteCinema", "UpdateStudio", "DeleteStudio",
                        "UpdateMovie", "DeleteMovie", "UpdateSeat", "DeleteSeat",
                        "UpdateShowtime", "DeleteShowtime"}
  BY <1>7 DEF RowOf
<1> QED
  BY <1>1, <1>2, <1>3, <1>4, <1>5, <1>6, <1>7

LEMMA Pair ==
    ASSUME NEW p, NEW x, NEW y, p = <<x, y>>
    PROVE  p[1] = x /\ p[2] = y
OBVIOUS

LEMMA RowWriter ==
    ASSUME NEW d, NEW m \in RowOf(d), m.mode = "update" \/ m.on[1] = "studio"
    PROVE  Writer(d, m)
<1> DEFINE r == call[d].req
<1>1. \A kind, id, mode : m \in RowLock(kind, {id}, mode) =>
         m.on[1] = kind /\ m.on[2] = id /\ m.mode = mode
  BY DEF RowLock
<1>2. CASE r.op = "UpdateCinema"
  BY <1>1, <1>2 DEF RowOf, Writer
<1>3. CASE r.op = "DeleteCinema"
  BY <1>1, <1>3 DEF RowOf, Writer
<1>4. CASE r.op = "UpdateStudio"
  <2>1. \E mode : RowOf(d) = RowLock("studio", {r.studio}, mode)
    BY <1>4 DEF RowOf
  <2> QED
    BY <1>1, <1>4, <2>1 DEF Writer
<1>5. CASE r.op = "DeleteStudio"
  <2>1. m \in RowLock("studio", {r.studio}, "update")
    BY <1>5 DEF RowOf
  <2>2. m.on[1] = "studio" /\ m.on[2] = r.studio /\ m.mode = "update"
    BY <1>1, <2>1
  <2> QED
    BY <1>5, <2>2 DEF Writer
<1>6. CASE r.op = "UpdateMovie"
  BY <1>1, <1>6 DEF RowOf, Writer
<1>7. CASE r.op = "DeleteMovie"
  <2>1. m \in RowLock("movie", {r.movie}, "update")
    BY <1>7 DEF RowOf
  <2>2. m.on[1] = "movie" /\ m.on[2] = r.movie /\ m.mode = "update"
    BY <1>1, <2>1
  <2> QED
    BY <1>7, <2>2 DEF Writer
<1>8. CASE r.op \in {"UpdateSeat", "DeleteSeat"}
  BY <1>1, <1>8 DEF RowOf, Writer
<1>9. CASE r.op = "UpdateShowtime"
  <2>1. m \in RowLock("showtime", {r.showtime}, "no key update")
    BY <1>9 DEF RowOf
  <2>2. m.on[1] = "showtime" /\ m.on[2] = r.showtime /\ m.mode = "no key update"
    BY <1>1, <2>1
  <2> QED
    BY <1>9, <2>2 DEF Writer
<1>10. CASE r.op = "DeleteShowtime"
  BY <1>1, <1>10 DEF RowOf, Writer
<1>11. CASE r.op \notin {"UpdateCinema", "DeleteCinema", "UpdateStudio", "DeleteStudio",
                         "UpdateMovie", "DeleteMovie", "UpdateSeat", "DeleteSeat",
                         "UpdateShowtime", "DeleteShowtime"}
  BY <1>11 DEF RowOf
<1> QED
  BY <1>2, <1>3, <1>4, <1>5, <1>6, <1>7, <1>8, <1>9, <1>10, <1>11

LEMMA Holders ==
    ASSUME LockingInv, NEW d \in Calls, NEW m \in held[d]
    PROVE  LET r == call[d].req IN
           /\ m.on[1] = "inventory" => r.op \in StockOps /\ m.on[2][1] = r.showtime
           /\ m.on[1] = "layout" => r.op \in LayoutOps
           /\ m.on[1] = "name" => /\ r.op \in {"CreateStudio", "UpdateStudio"}
                                  /\ m = Lock("name", <<r.cinema, r.name>>, "update")
           /\ m.on[1] \in Rows /\ m.mode \notin Shared =>
                 m \in RowOf(d) \/ (r.op = "UpdateStudio" /\ m.on = <<"studio", r.studio>>)
<1> DEFINE r == call[d].req
<1>1. Owned(d, m)
  BY DEF LockingInv, Locking
<1>2. CASE r.op # "UpdateStudio" /\ m \in RowOf(d)
  <2>1. PICK kind \in Rows : \E id : \E mode \in Modes \ Shared :
           RowOf(d) = RowLock(kind, {id}, mode)
    BY <1>2, OneRow
  <2>2. m.on[1] \in Rows
    BY <1>2, <2>1 DEF RowLock
  <2> QED
    BY <1>2, <2>2 DEF Rows
<1>3. CASE r.op = "UpdateStudio" /\ m.on = <<"studio", r.studio>>
  BY <1>3
<1>4. CASE /\ r.op \in {"CreateStudio", "UpdateStudio"}
           /\ m = Lock("name", <<r.cinema, r.name>>, "update")
  <2>1. m.on[1] = "name"
    BY <1>4 DEF Lock
  <2> QED
    BY <1>4, <2>1 DEF Rows
<1>5. CASE /\ r.op \in LayoutOps
           /\ \E st \in Studios \cup {NoStudio} : m = Lock("layout", st, "update")
  <2>1. m.on[1] = "layout"
    BY <1>5 DEF Lock
  <2> QED
    BY <1>5, <2>1 DEF Rows
<1>6. CASE /\ r.op \in StockOps
           /\ \E s \in Seats, mode \in Modes : m = Lock("inventory", <<r.showtime, s>>, mode)
  <2>1. m.on[1] = "inventory" /\ m.on[2][1] = r.showtime
    BY <1>6 DEF Lock
  <2> QED
    BY <1>6, <2>1 DEF Rows
<1>7. CASE m.mode \in Shared /\ m.on[1] \in Rows
  BY <1>7 DEF Rows
<1> QED
  BY <1>1, <1>2, <1>3, <1>4, <1>5, <1>6, <1>7 DEF Owned

\* The lock that a check takes of a row it looks for.
Look(l) ==
    /\ l.on[1] \in Rows
    /\ l.mode = "key share" \/ (l.mode = "share" /\ l.on[1] = "studio")

\* Who looks for a row waits for its writer.
LEMMA WaitsForWriter ==
    ASSUME LockingInv, NEW c, NEW d \in Calls, NEW l, NEW m, Waits(c, d, l, m),
           Look(l)
    PROVE  Writer(d, m) /\ m \in held[d] /\ m.on = l.on
<1>1. /\ m \in held[d] /\ m.on = l.on /\ m.mode \in Modes
      /\ ~Compatible(l.mode, m.mode)
  <2>1. held[d] \subseteq Locks
    BY DEF LockingInv, SchedulingInv, SchedulingTypeOK
  <2> QED
    BY <2>1 DEF Waits, Locks
<1>2. m.mode \notin Shared /\ (l.mode = "key share" => m.mode = "update")
  BY <1>1 DEF Compatible, Shared, Modes, Look
<1>3. m \in RowOf(d) \/ (call[d].req.op = "UpdateStudio"
                         /\ m.on = <<"studio", call[d].req.studio>>)
  BY <1>1, <1>2, Holders DEF Look
<1>4. CASE m \in RowOf(d)
  <2>1. m.mode = "update" \/ m.on[1] = "studio"
    BY <1>1, <1>2 DEF Look
  <2> QED
    BY <1>1, <1>4, <2>1, RowWriter
<1>5. CASE call[d].req.op = "UpdateStudio" /\ m.on = <<"studio", call[d].req.studio>>
  <2>1. m.on[1] = "studio" /\ m.on[2] = call[d].req.studio
    BY <1>5, Pair
  <2> QED
    BY <1>1, <1>5, <2>1 DEF Writer
<1> QED
  BY <1>3, <1>4, <1>5

----------------------------------------------------------------------------
(* Layouts and the seats of a hold are locked in order.                    *)

AtSeats(c) == call[c].req.op = "CreateHold" /\ call[c].phase = "seats"

LEMMA LayoutNumbers ==
    ASSUME LockingInv, NEW c \in Calls
    PROVE  Layouts(c) \subseteq Nat
<1>1. Layouts(c) \subseteq Studios \cup {NoStudio}
  BY LayoutTypes DEF LockingInv, SchedulingInv
<1>2. Studios \subseteq Nat
  BY IdsAssumption
<1>3. NoStudio \in Nat
  BY DEF NoStudio
<1> QED
  BY <1>1, <1>2, <1>3

\* Of two calls that wait for layouts, the one that is waited for wants a
\* larger one.
LEMMA LargerLayout ==
    ASSUME LockingInv, NEW c \in Calls, NEW d \in Calls, NEW l, NEW m, NEW k,
           call[c].phase = "layout", call[d].phase = "layout",
           Waits(c, d, l, m), k \in Missing(d)
    PROVE  l.on[2] \in Nat /\ k.on[2] \in Nat /\ l.on[2] < k.on[2]
<1>1. SchedulingTypeOK /\ Owned(d, m) /\ Climbing(d)
  BY DEF Waits, LockingInv, Locking, SchedulingInv
<1>2. PICK st \in Layouts(c) : l = Lock("layout", st, "update")
  BY DEF Waits, Missing, Wanted, RowLock, Lock
<1>3. PICK q \in Layouts(d) : k = Lock("layout", q, "update")
  BY DEF Missing, Wanted, RowLock, Lock
<1>4. st \in Studios \cup {NoStudio} /\ q \in Studios \cup {NoStudio}
  BY <1>1, <1>2, <1>3, LayoutTypes
<1>5. m \in held[d] /\ m.on = <<"layout", st>>
  BY <1>2 DEF Waits, Lock
<1>6. m = Lock("layout", st, "update")
  <2>1. m.on[1] = "layout" /\ m.on[2] = st
    BY <1>5, Pair
  <2>2. m.on[1] \notin Rows \cup {"name", "inventory"}
    BY <2>1 DEF Rows
  <2>3. m \notin RowOf(d)
    BY <2>2, OneRow DEF RowLock
  <2>4. ASSUME NEW kind, NEW id, NEW mode, m = Lock(kind, id, mode)
        PROVE  kind = "layout" /\ id = st
    BY <2>1, <2>4 DEF Lock
  <2>5. \A x : m.on # <<"studio", x>>
    BY <1>5
  <2>6. PICK p : m = Lock("layout", p, "update")
    BY <1>1, <2>2, <2>3, <2>4, <2>5 DEF Owned
  <2> QED
    BY <2>4, <2>6
<1>7. k \notin held[d]
  BY DEF Missing
<1>8. st <= q /\ st # q
  BY <1>1, <1>3, <1>4, <1>5, <1>6, <1>7 DEF Climbing
<1>9. l.on[2] = st /\ k.on[2] = q
  BY <1>2, <1>3 DEF Lock
<1>10. st \in Nat /\ q \in Nat
  BY <1>2, <1>3, LayoutNumbers
<1> QED
  BY <1>8, <1>9, <1>10

\* Of two holds that wait, the one that is waited for wants a larger seat.
LEMMA LargerSeat ==
    ASSUME LockingInv, NEW c \in Calls, NEW d \in Calls, NEW l, NEW m, NEW k,
           AtSeats(c), AtSeats(d), Waits(c, d, l, m), k \in Missing(d)
    PROVE  /\ l.on[2][2] \in Nat /\ k.on[2][2] \in Nat
           /\ l.on[2][2] < k.on[2][2]
<1> DEFINE v == call[c].req.showtime
           w == call[d].req.showtime
           stock == db.inventory[w]
           seat(s) == Lock("inventory", <<w, s>>, "update")
<1>1. Owned(c, l) /\ Owned(d, m) /\ Locking(d)
  BY WantedOwned DEF LockingInv, Locking, Waits, Missing
<1>2. l \in SeatRowsOf(c) /\ k \in SeatRowsOf(d) /\ k \notin held[d]
  BY DEF Waits, Missing, Wanted, AtSeats
<1>3. SeatRowsOf(c) \subseteq RowLock("inventory", {v} \X call[c].rows, "update")
  BY DEF SeatRowsOf, AtSeats, RowLock
<1>4. PICK s \in call[c].rows : l = Lock("inventory", <<v, s>>, "update")
  BY <1>2, <1>3 DEF RowLock, Lock
<1>5. m \in held[d] /\ m.on = <<"inventory", <<v, s>>>>
  BY <1>4 DEF Waits, Lock
<1>6. v = w /\ m = seat(s)
  <2>1. m.on[1] = "inventory" /\ m.on[2] = <<v, s>>
    BY <1>5, Pair
  <2>2. m.on[1] \notin Rows \cup {"name", "layout"}
    BY <2>1 DEF Rows
  <2>3. m \notin RowOf(d)
    BY <2>2, OneRow DEF RowLock
  <2>4. ASSUME NEW kind, NEW id, NEW mode, m = Lock(kind, id, mode)
        PROVE  kind = "inventory" /\ id = <<v, s>>
    BY <2>1, <2>4 DEF Lock
  <2>5. PICK q : m = Lock("inventory", <<w, q>>, "update")
    BY <1>1, <2>1, <2>2, <2>3, <2>4 DEF Owned, Rows, AtSeats
  <2>6. <<w, q>> = <<v, s>>
    BY <2>4, <2>5
  <2> QED
    BY <2>5, <2>6
<1>7. /\ call[d].version = stock.version
      /\ SeatRowsOf(d) = RowLock("inventory", {w} \X (call[d].rows \cap stock.seats),
                                 "update")
  BY <1>2 DEF SeatRowsOf, AtSeats
<1>8. PICK p \in call[d].rows \cap stock.seats : k = seat(p)
  BY <1>2, <1>7 DEF RowLock, Lock
<1>9. p \in Seats /\ s \in Seats /\ p \in Nat /\ s \in Nat
  BY DEF LockingInv, SchedulingInv, SchedulingTypeOK, Call, IdsAssumption
<1>10. seat(p) \notin held[d] /\ seat(s) \in held[d]
  BY <1>2, <1>5, <1>6, <1>8
<1>11. Rising(db, call[d], held[d])
  BY <1>1 DEF Locking
<1>12. s <= p
  BY <1>7, <1>9, <1>10, <1>11 DEF Rising, AtSeats
<1>13. s # p
  BY <1>10
<1>14. l.on[2][2] = s /\ k.on[2][2] = p
  BY <1>4, <1>8 DEF Lock
<1> QED
  BY <1>9, <1>12, <1>13, <1>14

\* The smallest of the locks it misses is the one that a call waits for.
LEMMA NoLayoutRing ==
    ASSUME LockingInv, NEW ring \in Rings
    PROVE  \E c \in ring : call[c].phase # "layout"
<1> SUFFICES ASSUME \A c \in ring : call[c].phase = "layout"
             PROVE  FALSE
  OBVIOUS
<1> DEFINE Next(c) == {l \in Missing(c) : InOrder(c, l)}
           height == [c \in ring |-> CHOOSE i : \E l \in Next(c) : i = l.on[2]]
<1>1. ASSUME NEW c \in ring
      PROVE  height[c] \in Nat /\ \A l \in Next(c) : l.on[2] = height[c]
  <2>1. PICK d \in ring : \E l, m : Waits(c, d, l, m)
    BY RingWaits
  <2>2. PICK l \in Next(c) : TRUE
    BY <2>1 DEF Waits
  <2>3. PICK k \in Next(c) : height[c] = k.on[2]
    BY <2>2
  <2>4. ASSUME NEW j \in Next(c)
        PROVE  j.on[1] = "layout" /\ j.on[2] \in Nat
    <3>1. PICK st \in Layouts(c) : j = Lock("layout", st, "update")
      BY <1>1, <2>4 DEF Missing, Wanted, RowLock, Lock
    <3>2. Layouts(c) \subseteq Nat
      BY <1>1, RingWaits, LayoutNumbers
    <3> QED
      BY <3>1, <3>2 DEF Lock
  <2>5. ASSUME NEW j \in Next(c)
        PROVE  j.on[2] <= k.on[2] /\ k.on[2] <= j.on[2]
    BY <2>4, <2>5 DEF InOrder
  <2> HIDE DEF Next, height
  <2> QED
    BY <2>3, <2>4, <2>5
<1>2. ASSUME NEW c \in ring, NEW d \in ring, \E l, m : Waits(c, d, l, m)
      PROVE  height[c] < height[d]
  <2>1. PICK l, m : Waits(c, d, l, m)
    BY <1>2
  <2>2. PICK e \in ring : \E k, n : Waits(d, e, k, n)
    BY RingWaits
  <2>3. PICK k, n : Waits(d, e, k, n)
    BY <2>2
  <2>4. l \in Next(c) /\ k \in Next(d) /\ k \in Missing(d)
    BY <2>1, <2>3 DEF Waits
  <2>5. l.on[2] < k.on[2]
    BY <2>1, <2>4, RingWaits, LargerLayout
  <2> HIDE DEF Next, height
  <2> QED
    BY <1>1, <2>4, <2>5
<1> HIDE DEF height
<1> QED
  BY <1>1, <1>2, NoClimb

LEMMA NoSeatRing ==
    ASSUME LockingInv, NEW ring \in Rings
    PROVE  \E c \in ring : ~AtSeats(c)
<1> SUFFICES ASSUME \A c \in ring : AtSeats(c)
             PROVE  FALSE
  OBVIOUS
<1> DEFINE Next(c) == {l \in Missing(c) : InOrder(c, l)}
           height == [c \in ring |-> CHOOSE i : \E l \in Next(c) : i = l.on[2][2]]
<1>1. ASSUME NEW c \in ring
      PROVE  height[c] \in Nat /\ \A l \in Next(c) : l.on[2][2] = height[c]
  <2>1. PICK d \in ring : \E l, m : Waits(c, d, l, m)
    BY RingWaits
  <2>2. PICK l \in Next(c) : TRUE
    BY <2>1 DEF Waits
  <2>3. PICK k \in Next(c) : height[c] = k.on[2][2]
    BY <2>2
  <2>4. ASSUME NEW j \in Next(c)
        PROVE  j.on[2][2] \in Nat
    <3>1. PICK e \in ring : \E i, m : Waits(e, c, i, m)
      BY WaitedFor
    <3> QED
      BY <2>4, <3>1, RingWaits, LargerSeat
  <2>5. ASSUME NEW j \in Next(c)
        PROVE  j.on[2][2] <= k.on[2][2] /\ k.on[2][2] <= j.on[2][2]
    BY <2>5 DEF InOrder, AtSeats
  <2> HIDE DEF Next, height
  <2> QED
    BY <2>3, <2>4, <2>5
<1>2. ASSUME NEW c \in ring, NEW d \in ring, \E l, m : Waits(c, d, l, m)
      PROVE  height[c] < height[d]
  <2>1. PICK l, m : Waits(c, d, l, m)
    BY <1>2
  <2>2. PICK e \in ring : \E k, n : Waits(d, e, k, n)
    BY RingWaits
  <2>3. PICK k, n : Waits(d, e, k, n)
    BY <2>2
  <2>4. l \in Next(c) /\ k \in Next(d) /\ k \in Missing(d)
    BY <2>1, <2>3 DEF Waits
  <2>5. l.on[2][2] < k.on[2][2]
    BY <2>1, <2>4, RingWaits, LargerSeat
  <2> HIDE DEF Next, height
  <2> QED
    BY <1>1, <2>4, <2>5
<1> HIDE DEF height
<1> QED
  BY <1>1, <1>2, NoClimb

----------------------------------------------------------------------------
(* A hold waits for others on its showtime.                                *)

\* Who is to blame when a hold of showtime w is drawn into a deadlock.
Disturbs(c, w) ==
    /\ call[c].req.op \in {"UpdateShowtime", "DeleteShowtime", "ReleaseHold"}
    /\ call[c].req.showtime = w

LEMMA HoldWaits ==
    ASSUME LockingInv, NEW c \in Calls, NEW d \in Calls, NEW l, NEW m, Waits(c, d, l, m),
           call[c].req.op = "CreateHold", ~Disturbs(d, call[c].req.showtime)
    PROVE  /\ AtSeats(c)
           /\ call[d].req.op = "CreateHold"
           /\ call[d].req.showtime = call[c].req.showtime
<1> DEFINE w == call[c].req.showtime
<1>1. l \in Wanted(c) /\ m \in held[d] /\ m.on = l.on
  BY DEF Waits, Missing
<1>2. CASE call[c].phase = "seats"
  <2>1. l \in RowLock("inventory", {w} \X (call[c].rows \cap db.inventory[w].seats),
                      "update")
    BY <1>1, <1>2 DEF Wanted, SeatRowsOf
  <2>2. PICK id \in {w} \X (call[c].rows \cap db.inventory[w].seats) :
           l = Lock("inventory", id, "update")
    BY <2>1 DEF RowLock, Lock
  <2>3. id[1] = w /\ l.on[1] = "inventory" /\ l.on[2] = id
    BY <2>2 DEF Lock
  <2>4. call[d].req.op \in StockOps /\ call[d].req.showtime = w
    BY <1>1, <2>3, Holders
  <2> QED
    BY <1>2, <2>4 DEF StockOps, Disturbs, AtSeats
<1>3. CASE call[c].phase = "parents"
  <2>1. l \in RowLock("showtime", {w}, "key share")
    BY <1>1, <1>3 DEF Wanted, ParentsOf
  <2>2. l.on[1] = "showtime" /\ l.on[2] = w /\ l.mode = "key share"
    <3>1. l = Lock("showtime", w, "key share")
      BY <2>1 DEF RowLock, Lock
    <3> QED
      BY <3>1 DEF Lock
  <2>3. Writer(d, m)
    BY <2>2, WaitsForWriter DEF Rows, Look
  <2>4. call[d].req.op = "DeleteShowtime" /\ call[d].req.showtime = w
    BY <1>1, <2>2, <2>3 DEF Writer
  <2> QED
    BY <2>4 DEF Disturbs
<1>4. call[c].phase \in {"seats", "parents"}
  <2>1. call[c].phase # "copy"
    BY DEF LockingInv, Locking
  <2>2. RowOf(c) = {} /\ LookedFor(c) = {} /\ Layouts(c) = {}
    BY DEF RowOf, LookedFor, ChildrenOf, Layouts
  <2>3. RowLock("layout", {}, "update") = {}
    BY DEF RowLock
  <2> QED
    BY <1>1, <2>1, <2>2, <2>3 DEF Wanted
<1> QED
  BY <1>2, <1>3, <1>4

LEMMA HoldRing ==
    ASSUME LockingInv, NEW ring \in Rings, NEW h \in ring, call[h].req.op = "CreateHold"
    PROVE  \E c \in ring : Disturbs(c, call[h].req.showtime)
<1> DEFINE w == call[h].req.showtime
           part == {c \in ring : call[c].req.op = "CreateHold"
                                 /\ call[c].req.showtime = w}
<1> SUFFICES ASSUME \A c \in ring : ~Disturbs(c, w)
             PROVE  FALSE
  OBVIOUS
<1>1. part \in SUBSET ring /\ part # {}
  OBVIOUS
<1>2. ASSUME NEW c \in part, NEW d \in ring, NEW l, NEW m, Waits(c, d, l, m)
      PROVE  AtSeats(c) /\ d \in part
  <2>1. /\ c \in Calls /\ d \in Calls /\ call[c].req.op = "CreateHold"
        /\ ~Disturbs(d, call[c].req.showtime)
    BY <1>2, RingWaits
  <2> QED
    BY <1>2, <2>1, HoldWaits
<1> HIDE DEF part
<1>3. part = ring
  BY <1>1, <1>2, ClosedPart
<1>4. \A c \in ring : AtSeats(c)
  BY <1>2, <1>3, RingWaits
<1> QED
  BY <1>4, NoSeatRing

----------------------------------------------------------------------------
(* The causes of deadlocks.                                                *)

Cause(c) ==
    \/ call[c].req.op \in {"UpdateStudio", "DeleteSeat", "DeleteShowtime", "ReleaseHold"}
    \/ call[c].req.op = "UpdateSeat" /\ call[c].phase = "layout"
    \/ call[c].req.op = "UpdateShowtime" /\ call[c].phase = "seats"

\* The locks that a call may wait for, if it has others.
Wish(c, l) ==
    LET r == call[c].req IN
    \/ l.on[1] = "showtime" /\ l.mode = "key share"
    \/ /\ r.op \in {"CreateShowtime", "UpdateShowtime"}
       /\ l.on[1] \in {"movie", "seat"} /\ l.mode = "key share"
    \/ r.op = "DeleteStudio" /\ l \in RowLock("seat", Layout(db, r.studio), "key share")
    \/ /\ r.op = "UpdateSeat" /\ call[c].phase = "parents"
       /\ l \in RowLock("studio", {r.studio} \ {db.seat[r.seat].studio}, "key share")
    \/ /\ r.op \in {"CreateStudio", "DeleteCinema", "CreateSeat", "CreateShowtime",
                    "UpdateShowtime"}
       /\ l.on[1] = "studio" /\ l.mode \in Shared
    \/ r.op = "CreateStudio" /\ l.on[1] = "cinema" /\ l.mode = "key share"
    \/ r.op = "CreateStudio" /\ l = Lock("name", <<r.cinema, r.name>>, "update")
    \/ r.op = "UpdateShowtime" /\ call[c].phase = "layout" /\ l.on[1] = "layout"
    \/ AtSeats(c) /\ l.on[1] = "inventory"

LEMMA Wishes ==
    ASSUME LockingInv, NEW c \in Calls, held[c] # {}, ~Cause(c), NEW l \in Missing(c)
    PROVE  Wish(c, l)
<1> DEFINE r == call[c].req
           phase == call[c].phase
<1>1. l \in Wanted(c) /\ l \notin held[c] /\ Lone(c)
  BY DEF Missing, LockingInv, Locking
<1>2. \A kind, ids, mode : l \in RowLock(kind, ids, mode) =>
         l.on[1] = kind /\ l.mode = mode
  BY LockParts
<1>3. CASE phase = "row"
  <2>1. l \in RowOf(c) /\ held[c] \subseteq RowOf(c)
    BY <1>1, <1>3 DEF Wanted, Lone, Cause
  <2>2. PICK id, kind, mode : RowOf(c) = RowLock(kind, {id}, mode)
    BY <2>1, OneRow
  <2>3. \A m \in RowOf(c) : m = l
    BY <2>1, <2>2 DEF RowLock
  <2> QED
    BY <1>1, <2>1, <2>3
<1>4. CASE phase = "show"
  BY <1>4 DEF LockingInv, Locking, Cause
<1>5. CASE phase = "layout"
  <2>1. l \in RowLock("layout", Layouts(c), "update")
    BY <1>1, <1>5 DEF Wanted
  <2>2. r.op \in LayoutOps
    BY <2>1, LayoutTypes DEF LockingInv, SchedulingInv, RowLock
  <2>3. r.op \notin {"CreateSeat", "CreateShowtime"}
    <3>1. SUFFICES ASSUME r.op \in {"CreateSeat", "CreateShowtime"}
                   PROVE  FALSE
      OBVIOUS
    <3>2. held[c] \subseteq {Lock("layout", r.studio, "update")}
      BY <1>1, <1>5, <3>1 DEF Lone
    <3>3. Layouts(c) = {r.studio}
      BY <3>1, LayoutsOf
    <3>4. l = Lock("layout", r.studio, "update")
      BY <2>1, <3>3 DEF RowLock, Lock
    <3> QED
      BY <1>1, <3>2, <3>4
  <2> QED
    BY <1>2, <1>5, <2>1, <2>2, <2>3 DEF LayoutOps, Cause, Wish
<1>6. CASE phase = "parents"
  <2>1. l \in ParentsOf(c)
    BY <1>1, <1>6 DEF Wanted
  <2>2. CASE r.op = "CreateStudio"
    BY <1>2, <2>1, <2>2 DEF ParentsOf, Wish
  <2>3. CASE r.op = "CreateSeat"
    BY <1>2, <2>1, <2>3 DEF ParentsOf, Wish, Shared
  <2>4. CASE r.op = "UpdateSeat"
    BY <1>6, <2>1, <2>4 DEF ParentsOf, Wish
  <2>5. CASE r.op \in {"CreateShowtime", "UpdateShowtime"}
    <3>1. \E ids : l \in RowLock("studio", ids, "key share")
                     \/ l \in RowLock("movie", ids, "key share")
      BY <2>1, <2>5 DEF ParentsOf
    <3> QED
      BY <1>2, <2>5, <3>1 DEF Wish, Shared
  <2>6. CASE r.op = "CreateHold"
    BY <1>2, <2>1, <2>6 DEF ParentsOf, Wish
  <2> QED
    BY <2>1, <2>2, <2>3, <2>4, <2>5, <2>6 DEF ParentsOf, Cause
<1>7. CASE phase = "seats"
  <2>1. r.op = "CreateHold"
    BY <1>7 DEF LockingInv, SchedulingInv, Established, OnStock, Cause
  <2>2. \E ids : l \in RowLock("inventory", ids, "update")
    BY <1>1, <1>7, <2>1 DEF Wanted, SeatRowsOf
  <2> QED
    BY <1>2, <1>7, <2>1, <2>2 DEF Wish, AtSeats
<1>8. CASE phase = "copy"
  <2>1. r.op \in {"CreateShowtime", "UpdateShowtime"}
    BY <1>8 DEF LockingInv, Locking
  <2>2. l \in RowLock("seat", call[c].rows, "key share")
    BY <1>1, <1>8 DEF Wanted
  <2> QED
    BY <1>2, <2>1, <2>2 DEF Wish
<1>9. CASE phase \in {"entry", "slot", "children"}
  <2>1. l \in LookedFor(c)
    BY <1>1, <1>9 DEF Wanted
  <2>2. CASE r.op = "CreateStudio"
    <3>1. \/ l \in RowLock("studio", Namesakes(r), "share")
          \/ l \in RowLock("name", {<<r.cinema, r.name>>}, "update")
      BY <2>1, <2>2 DEF LookedFor, EntryOf
    <3>2. l \in RowLock("name", {<<r.cinema, r.name>>}, "update")
             => l = Lock("name", <<r.cinema, r.name>>, "update")
      BY DEF RowLock, Lock
    <3> QED
      BY <1>2, <2>2, <3>1, <3>2 DEF Wish, Shared
  <2>3. CASE r.op \in {"CreateShowtime", "UpdateShowtime"}
    <3>1. \E ids : l \in RowLock("showtime", ids, "key share")
      BY <2>1, <2>3 DEF LookedFor, SlotOf
    <3> QED
      BY <1>2, <3>1 DEF Wish
  <2>4. CASE r.op = "DeleteCinema"
    BY <1>2, <2>1, <2>4 DEF LookedFor, ChildrenOf, Wish, Shared
  <2>5. CASE r.op = "DeleteStudio"
    BY <1>2, <2>1, <2>5 DEF LookedFor, ChildrenOf, Wish
  <2>6. CASE r.op = "DeleteMovie"
    BY <1>2, <2>1, <2>6 DEF LookedFor, ChildrenOf, Wish
  <2> QED
    BY <2>1, <2>2, <2>3, <2>4, <2>5, <2>6 DEF LookedFor, ChildrenOf, Cause
<1> QED
  BY <1>1, <1>3, <1>4, <1>5, <1>6, <1>7, <1>8, <1>9 DEF Wanted

\* Everybody in a ring without causes waits for a lock that it may wish for.
LEMMA NextWish ==
    ASSUME LockingInv, NEW ring \in Rings, \A c \in ring : ~Cause(c), NEW d \in ring
    PROVE  \E e \in ring : \E k, n : Waits(d, e, k, n) /\ Wish(d, k)
<1>1. PICK e \in ring : \E k, n : Waits(d, e, k, n)
  BY RingWaits
<1>2. PICK k, n : Waits(d, e, k, n)
  BY <1>1
<1>3. held[d] # {} /\ d \in Calls
  BY WaitedFor, RingWaits DEF Waits
<1>4. k \in Missing(d)
  BY <1>2 DEF Waits
<1>5. Wish(d, k)
  BY <1>3, <1>4, Wishes
<1> QED
  BY <1>2, <1>5

LEMMA RingCauses ==
    ASSUME LockingInv, NEW ring \in Rings
    PROVE  \E c \in ring : Cause(c)
<1> SUFFICES ASSUME \A c \in ring : ~Cause(c)
             PROVE  FALSE
  OBVIOUS
<1>1. ring \subseteq Calls
  BY RingWaits
<1>2. ASSUME NEW c \in ring, NEW d \in ring, NEW l, NEW m, Waits(c, d, l, m),
             Look(l)
      PROVE  Writer(d, m) /\ m \in held[d] /\ m.on = l.on /\ ~Cause(d)
  <2>1. c \in Calls /\ d \in Calls /\ ~Cause(d)
    BY <1>1
  <2> QED
    BY <1>2, <2>1, WaitsForWriter
<1> DEFINE Stuck(kind) ==
             \E c \in ring : \E d \in ring : \E l, m :
                /\ Waits(c, d, l, m) /\ Wish(c, l) /\ l.on[1] = kind
                /\ kind \in Rows => l.mode = "key share" \/ (l.mode = "share" /\ kind = "studio")
<1>3. ~Stuck("showtime")
  <2>1. SUFFICES ASSUME NEW c \in ring, NEW d \in ring, NEW l, NEW m, Waits(c, d, l, m),
                        l.on[1] = "showtime", l.mode = "key share"
                 PROVE  FALSE
    BY DEF Rows
  <2>2. Writer(d, m) /\ m.on = l.on /\ ~Cause(d)
    <3>1. Look(l)
      BY <2>1 DEF Look, Rows
    <3>2. Waits(c, d, l, m)
      BY <2>1
    <3> QED
      BY <1>2, <3>1, <3>2
  <2> QED
    BY <2>1, <2>2 DEF Writer, Cause
<1>4. ~Stuck("movie")
  <2>1. SUFFICES ASSUME NEW c \in ring, NEW d \in ring, NEW l, NEW m, Waits(c, d, l, m),
                        l.on[1] = "movie", l.mode = "key share"
                 PROVE  FALSE
    BY DEF Rows
  <2>2. Writer(d, m) /\ m.on = l.on
    <3>1. Look(l)
      BY <2>1 DEF Look, Rows
    <3>2. Waits(c, d, l, m)
      BY <2>1
    <3> QED
      BY <1>2, <3>1, <3>2
  <2>3. call[d].req.op = "DeleteMovie"
    BY <2>1, <2>2 DEF Writer
  <2>4. PICK e \in ring : \E k, n : Waits(d, e, k, n) /\ Wish(d, k)
    BY NextWish
  <2>5. PICK k, n : Waits(d, e, k, n) /\ Wish(d, k)
    BY <2>4
  <2>6. k.on[1] = "showtime" /\ k.mode = "key share"
    BY <2>3, <2>5 DEF Wish, AtSeats
  <2> QED
    BY <1>3, <2>5, <2>6
<1>5. ~Stuck("seat")
  <2>1. SUFFICES ASSUME NEW c \in ring, NEW d \in ring, NEW l, NEW m, Waits(c, d, l, m),
                        l.on[1] = "seat", l.mode = "key share"
                 PROVE  FALSE
    BY DEF Rows
  <2>2. ASSUME NEW b \in ring, NEW f \in ring, NEW i, NEW j, Waits(b, f, i, j),
               i.on[1] = "seat", i.mode = "key share"
        PROVE  call[f].req.op = "UpdateSeat" /\ i.on[2] = call[f].req.seat
    <3>1. Look(i)
      BY <2>2 DEF Look, Rows
    <3>2. Waits(b, f, i, j)
      BY <2>2
    <3>3. Writer(f, j) /\ j.on = i.on /\ ~Cause(f)
      BY <1>2, <3>1, <3>2
    <3> QED
      BY <2>2, <3>3 DEF Writer, Cause
  <2>3. ASSUME NEW f \in ring, call[f].req.op = "UpdateSeat"
         PROVE  /\ call[f].phase = "parents"
                /\ \E e \in ring : \E k, n :
                      /\ Waits(f, e, k, n)
                      /\ k \in RowLock("studio", {call[f].req.studio}
                                           \ {db.seat[call[f].req.seat].studio}, "key share")
    <3>1. PICK e \in ring : \E k, n : Waits(f, e, k, n) /\ Wish(f, k)
      BY NextWish
    <3>2. PICK k, n : Waits(f, e, k, n) /\ Wish(f, k)
      BY <3>1
    <3>3. ~(k.on[1] = "showtime" /\ k.mode = "key share")
      BY <1>3, <3>2
    <3> QED
      BY <2>3, <3>2, <3>3 DEF Wish, AtSeats
  <2> DEFINE r == call[d].req
  <2>4. call[d].req.op = "UpdateSeat"
    BY <2>1, <2>2
  <2>5. PICK e \in ring : \E k, n :
           Waits(d, e, k, n)
           /\ k \in RowLock("studio", {r.studio} \ {db.seat[r.seat].studio}, "key share")
    BY <2>3, <2>4
  <2>6. PICK k, n :
           Waits(d, e, k, n)
           /\ k \in RowLock("studio", {r.studio} \ {db.seat[r.seat].studio}, "key share")
    BY <2>5
  <2>7. k = Lock("studio", r.studio, "key share") /\ r.studio # db.seat[r.seat].studio
    BY <2>6 DEF RowLock, Lock
  <2>8. k.on[1] = "studio" /\ k.on[2] = r.studio /\ k.mode = "key share"
    BY <2>7 DEF Lock
  <2>9. Writer(e, n) /\ n.on = k.on /\ ~Cause(e)
    <3>1. Look(k)
      BY <2>8 DEF Look, Rows
    <3>2. Waits(d, e, k, n)
      BY <2>6
    <3> QED
      BY <1>2, <3>1, <3>2
  <2>10. call[e].req.op = "DeleteStudio" /\ call[e].req.studio = r.studio
    BY <2>8, <2>9 DEF Writer, Cause
  <2>11. PICK f \in ring : \E i, j : Waits(e, f, i, j) /\ Wish(e, i)
    BY NextWish
  <2>12. PICK i, j : Waits(e, f, i, j) /\ Wish(e, i)
    BY <2>11
  <2>13. i \in RowLock("seat", Layout(db, r.studio), "key share")
    <3>1. ~(i.on[1] = "showtime" /\ i.mode = "key share")
      BY <1>3, <2>12
    <3> QED
      BY <2>10, <2>12, <3>1 DEF Wish, AtSeats
  <2>14. PICK s \in Layout(db, r.studio) : i = Lock("seat", s, "key share")
    BY <2>13 DEF RowLock, Lock
  <2>15. i.on[1] = "seat" /\ i.on[2] = s /\ i.mode = "key share"
    BY <2>14 DEF Lock
  <2>16. /\ call[f].req.op = "UpdateSeat" /\ call[f].phase = "parents"
         /\ s = call[f].req.seat
    <3>1. Waits(e, f, i, j)
      BY <2>12
    <3>2. call[f].req.op = "UpdateSeat" /\ i.on[2] = call[f].req.seat
      BY <2>2, <2>15, <3>1
    <3> QED
      BY <2>15, <2>3, <3>2
  <2>17. /\ call[d].req.op = "UpdateSeat" /\ call[d].phase = "parents"
    BY <2>3, <2>4
  <2>18. UpdatingSeat(db, call[f], held[f]) /\ UpdatingSeat(db, call[d], held[d])
    BY <1>1 DEF LockingInv, SchedulingInv, Established
  <2>19. Lock("layout", db.seat[s].studio, "update") \in held[f]
    BY <2>16, <2>18 DEF UpdatingSeat, Settled
  <2>20. Lock("layout", r.studio, "update") \in held[d]
    BY <2>17, <2>18 DEF UpdatingSeat, Settled
  <2>21. db.seat[s].studio = r.studio
    BY <2>14 DEF Layout
  <2>22. f = d
    BY <1>1, <2>19, <2>20, <2>21, OneHolder DEF LockingInv, SchedulingInv
  <2> QED
    BY <2>7, <2>16, <2>21, <2>22
<1>6. ~Stuck("studio")
  <2>1. SUFFICES ASSUME NEW c \in ring, NEW d \in ring, NEW l, NEW m, Waits(c, d, l, m),
                        l.on[1] = "studio", l.mode \in Shared
                 PROVE  FALSE
    BY DEF Rows, Shared
  <2>2. Writer(d, m) /\ m.on = l.on /\ ~Cause(d)
    <3>1. Look(l)
      BY <2>1 DEF Look, Rows, Shared
    <3>2. Waits(c, d, l, m)
      BY <2>1
    <3> QED
      BY <1>2, <3>1, <3>2
  <2>3. call[d].req.op = "DeleteStudio"
    BY <2>1, <2>2 DEF Writer, Cause
  <2>4. PICK e \in ring : \E k, n : Waits(d, e, k, n) /\ Wish(d, k)
    BY NextWish
  <2>5. PICK k, n : Waits(d, e, k, n) /\ Wish(d, k)
    BY <2>4
  <2>6. k.on[1] \in {"showtime", "seat"} /\ k.mode = "key share"
    <3>1. k \in RowLock("seat", Layout(db, call[d].req.studio), "key share")
             => k.on[1] = "seat" /\ k.mode = "key share"
      BY LockParts
    <3> QED
      BY <2>3, <2>5, <3>1 DEF Wish, AtSeats
  <2> QED
    BY <1>3, <1>5, <2>5, <2>6
<1>7. ~Stuck("cinema")
  <2>1. SUFFICES ASSUME NEW c \in ring, NEW d \in ring, NEW l, NEW m, Waits(c, d, l, m),
                        l.on[1] = "cinema", l.mode = "key share"
                 PROVE  FALSE
    BY DEF Rows
  <2>2. Writer(d, m) /\ m.on = l.on
    <3>1. Look(l)
      BY <2>1 DEF Look, Rows
    <3>2. Waits(c, d, l, m)
      BY <2>1
    <3> QED
      BY <1>2, <3>1, <3>2
  <2>3. call[d].req.op = "DeleteCinema"
    BY <2>1, <2>2 DEF Writer
  <2>4. PICK e \in ring : \E k, n : Waits(d, e, k, n) /\ Wish(d, k)
    BY NextWish
  <2>5. PICK k, n : Waits(d, e, k, n) /\ Wish(d, k)
    BY <2>4
  <2>6. k.on[1] \in {"showtime", "studio"} /\ k.mode \in Shared
        /\ (k.on[1] = "showtime" => k.mode = "key share")
    BY <2>3, <2>5 DEF Wish, AtSeats, Shared
  <2> QED
    BY <1>3, <1>6, <2>5, <2>6 DEF Shared
<1>8. ~Stuck("name")
  <2>1. SUFFICES ASSUME NEW c \in ring, NEW d \in ring, NEW l, NEW m, Waits(c, d, l, m),
                        l.on[1] = "name"
                 PROVE  FALSE
    OBVIOUS
  <2>2. m \in held[d] /\ m.on = l.on /\ d \in Calls /\ ~Cause(d)
    BY <1>1, <2>1 DEF Waits
  <2>3. /\ call[d].req.op = "CreateStudio"
        /\ Lock("name", <<call[d].req.cinema, call[d].req.name>>, "update") \in held[d]
    BY <2>1, <2>2, Holders DEF Cause
  <2>4. PICK e \in ring : \E k, n : Waits(d, e, k, n) /\ Wish(d, k)
    BY NextWish
  <2>5. PICK k, n : Waits(d, e, k, n) /\ Wish(d, k)
    BY <2>4
  <2>6. k \notin held[d]
    BY <2>5 DEF Waits, Missing
  <2>7. /\ k.on[1] \in {"showtime", "studio", "cinema"} /\ k.mode \in Shared
        /\ k.on[1] # "studio" => k.mode = "key share"
    BY <2>3, <2>5, <2>6 DEF Wish, AtSeats, Shared
  <2> QED
    BY <1>3, <1>6, <1>7, <2>5, <2>7 DEF Shared
<1>9. ASSUME NEW c \in ring, NEW d \in ring, NEW l, NEW m, Waits(c, d, l, m), Wish(c, l)
      PROVE  \/ AtSeats(c)
             \/ /\ call[c].req.op = "UpdateShowtime" /\ call[c].phase = "layout"
                /\ l.on[1] = "layout"
  <2>1. \A kind, ids, mode : l \in RowLock(kind, ids, mode) =>
           l.on[1] = kind /\ l.mode = mode
    BY LockParts
  <2>2. \A kind, id, mode : l = Lock(kind, id, mode) => l.on[1] = kind
    BY DEF Lock
  <2>3. \/ l.on[1] \in {"showtime", "movie", "seat", "cinema"} /\ l.mode = "key share"
        \/ l.on[1] = "studio" /\ l.mode \in Shared
        \/ l.on[1] = "name"
        \/ AtSeats(c)
        \/ /\ call[c].req.op = "UpdateShowtime" /\ call[c].phase = "layout"
           /\ l.on[1] = "layout"
    BY <1>9, <2>1, <2>2 DEF Wish, Shared
  <2>4. ASSUME NEW kind, l.on[1] = kind,
               kind \in Rows => l.mode = "key share" \/ (l.mode = "share" /\ kind = "studio")
        PROVE  Stuck(kind)
    BY <1>9, <2>4
  <2> HIDE DEF Stuck
  <2>5. l.on[1] \in {"showtime", "movie", "seat", "cinema"} => l.mode # "key share"
    BY <1>3, <1>4, <1>5, <1>7, <2>4
  <2>6. l.on[1] = "studio" => l.mode \notin Shared
    BY <1>6, <2>4 DEF Shared
  <2>7. l.on[1] # "name"
    BY <1>8, <2>4 DEF Rows
  <2> QED
    BY <2>3, <2>5, <2>6, <2>7
<1> HIDE DEF Stuck
<1> DEFINE Climber(c) == call[c].req.op = "UpdateShowtime" /\ call[c].phase = "layout"
           part == {c \in ring : Climber(c)}
<1>10. \A c \in ring : AtSeats(c) \/ Climber(c)
  BY <1>9, NextWish
<1>11. ASSUME NEW c \in part, NEW d \in ring, NEW l, NEW m, Waits(c, d, l, m)
       PROVE  d \in part
  <2>1. l.on[1] = "layout"
    <3>1. l \in RowLock("layout", Layouts(c), "update")
      BY <1>11 DEF Waits, Missing, Wanted
    <3> QED
      BY <3>1, LockParts
  <2>2. call[d].req.op \in LayoutOps
    BY <1>1, <1>11, <2>1, Holders DEF Waits
  <2>3. ~AtSeats(d)
    BY <2>2 DEF LayoutOps, AtSeats
  <2> QED
    BY <1>10, <2>3
<1>12. part # {}
  <2>1. PICK c \in ring : ~AtSeats(c)
    BY NoSeatRing
  <2> QED
    BY <1>10, <2>1
<1>13. part \in SUBSET ring
  OBVIOUS
<1>14. \A c \in part : call[c].phase = "layout"
  OBVIOUS
<1> HIDE DEF part
<1>15. part = ring
  BY <1>11, <1>12, <1>13, ClosedPart
<1> QED
  BY <1>14, <1>15, NoLayoutRing

----------------------------------------------------------------------------
(* The theorems.                                                           *)

\* Every call has only locks it may have, and those of layouts and of a hold's
\* seats smallest first.
THEOREM LockingInvariant == SchedulingSpec => []LockingInv
BY LockingInit, LockingNext, PTL DEF SchedulingSpec

\* Every ring of waiting calls has somebody in it who locks against the order
\* of the others: an update of a studio, an update or a deletion of a seat that
\* waits for the layout, an update or a deletion of a showtime that waits for
\* its inventory, or the update of a hold's seats.
THEOREM DeadlocksHaveCauses == SchedulingSpec => []DeadlockCauses
<1>1. LockingInv => DeadlockCauses
  BY RingCauses DEF DeadlockCauses, Cause
<1> QED
  BY <1>1, LockingInvariant, PTL

\* However many calls lock layouts, lock_studio_layout's order keeps them from
\* waiting for each other for ever.
THEOREM LayoutsNeverBlockForEver == SchedulingSpec => []LayoutsNeverDeadlock
<1>1. LockingInv => LayoutsNeverDeadlock
  BY NoLayoutRing DEF LayoutsNeverDeadlock
<1> QED
  BY <1>1, LockingInvariant, PTL

\* A customer's hold is drawn into a deadlock only by an update or a deletion
\* of the same showtime or an update of a hold's seats in it.
THEOREM HoldsDisturbed == SchedulingSpec => []HoldDeadlocks
<1>1. LockingInv => HoldDeadlocks
  <2> SUFFICES ASSUME LockingInv, NEW ring \in Rings, NEW h \in ring,
                      call[h].req.op = "CreateHold"
               PROVE  \E c \in ring : Disturbs(c, call[h].req.showtime)
    BY DEF HoldDeadlocks, Disturbs
  <2> QED
    BY HoldRing
<1> QED
  BY <1>1, LockingInvariant, PTL
=============================================================================
