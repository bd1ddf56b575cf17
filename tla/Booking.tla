------------------------------ MODULE Booking ------------------------------
(***************************************************************************)
(* Seat holds: internal/booking/service.go over the PostgreSQL repository  *)
(* internal/postgres/booking_repository.go, and the expiry worker that     *)
(* cmd/api/main.go runs beside the HTTP server.                            *)
(*                                                                         *)
(* Transactions run at READ COMMITTED.  CancelOrder and the expiry worker  *)
(* first take the order row FOR UPDATE (the variable lock).  CreateHold    *)
(* takes the seat rows FOR UPDATE and re-reads everything it decides on    *)
(* under those locks, so its effect is the one step HoldCommit.  What the  *)
(* code reads BEFORE a transaction, the clock first of all, is read in a   *)
(* step of its own and may be stale by the time the transaction runs.      *)
(***************************************************************************)
EXTENDS Naturals, FiniteSets

CONSTANTS
    Orders,         \* order ids; randomID gives each CreateHold call its own
    Cancels,        \* CancelOrder calls
    Workers,        \* expiry workers, one per API process
    Users, Keys, Showtimes,
    Seats,          \* rows of showtime_seats
    ShowtimeOf,     \* the showtime each of them belongs to
    HoldInputs,     \* the CreateHold requests customers may send
    HoldDuration,   \* how long a hold lasts (main.go: 10 minutes)
    BatchSize,      \* orders one sweep may expire (main.go: 100)
    MaxTime,        \* BOUND: the clock stops here
    NoOrder,        \* SQL NULL in hold_order_id, and a reply without an order
    NoInput,        \* a call that has not been made yet
    Nobody          \* holder of a row that no transaction has locked

HoldInput == [user : Users, key : Keys, showtime : Showtimes,
              seats : SUBSET Seats \ {{}}]

ASSUME IdsAssumption ==
    /\ Cancels \cap Workers = {}
    /\ NoOrder \notin Orders
    /\ Nobody \notin Cancels \cup Workers \cup Users
    /\ NoInput \notin HoldInput
ASSUME InputsAssumption ==
    /\ HoldInputs \subseteq HoldInput
    /\ ShowtimeOf \in [Seats -> Showtimes]
ASSUME BoundsAssumption ==
    /\ HoldDuration \in Nat \ {0}
    /\ BatchSize \in Nat \ {0}
    /\ MaxTime \in Nat

VARIABLES
    clock,      \* time.Now, shared by every process
    seat,       \* showtime_seats: status, hold_order_id, hold_expires_at
    order,      \* orders: status ("NONE" before the INSERT) and expires_at
    lock,       \* the transaction that holds an orders row FOR UPDATE
    hold,       \* CreateHold calls, named by the order id they generate
    cancel,     \* CancelOrder calls
    sweep       \* expiry workers

bookingVars == <<clock, seat, order, lock, hold, cancel, sweep>>

Actors == Cancels \cup Workers
----------------------------------------------------------------------------
(* The rows and the calls in progress.                                     *)

OrderStatus == {"NONE", "PENDING_PAYMENT", "PAID", "EXPIRED", "CANCELLED"}

FreeSeat == [status |-> "AVAILABLE", holder |-> NoOrder, expires |-> 0]

\* Fault: the order's status written into the seat row.
HeldWithOrderStatus(o, deadline) ==
    [status |-> "PENDING_PAYMENT", holder |-> o, expires |-> deadline]

HeldSeat(o, deadline) ==
    [status |-> "HELD", holder |-> o, expires |-> deadline]

Seat == [status : {"AVAILABLE", "HELD", "SOLD"},
         holder : Orders \cup {NoOrder}, expires : Nat]

HoldCall == [pc : {"idle", "started", "done"},
             input : HoldInput \cup {NoInput}, now : 0 .. MaxTime,
             reply : Orders \cup {NoOrder}]

CancelCall == [pc : {"idle", "started", "locked", "done"},
               order : Orders \cup {NoOrder}, user : Users \cup {Nobody},
               now : 0 .. MaxTime]

SweepRun == [pc : {"idle", "started", "locked"}, now : 0 .. MaxTime,
             batch : SUBSET Orders]

BookingTypeOK ==
    /\ clock \in 0 .. MaxTime
    /\ seat \in [Seats -> Seat]
    /\ order \in [Orders -> [status : OrderStatus, expires : Nat]]
    /\ lock \in [Orders -> Actors \cup {Nobody}]
    /\ hold \in [Orders -> HoldCall]
    /\ cancel \in [Cancels -> CancelCall]
    /\ sweep \in [Workers -> SweepRun]

BookingInit ==
    /\ clock = 0
    /\ seat = [s \in Seats |-> FreeSeat]
    /\ order = [o \in Orders |-> [status |-> "NONE", expires |-> 0]]
    /\ lock = [o \in Orders |-> Nobody]
    /\ hold = [o \in Orders |-> [pc |-> "idle", input |-> NoInput, now |-> 0,
                                 reply |-> NoOrder]]
    /\ cancel = [c \in Cancels |-> [pc |-> "idle", order |-> NoOrder,
                                    user |-> Nobody, now |-> 0]]
    /\ sweep = [w \in Workers |-> [pc |-> "idle", now |-> 0, batch |-> {}]]

Tick ==
    /\ clock < MaxTime
    /\ clock' = clock + 1
    /\ UNCHANGED <<seat, order, lock, hold, cancel, sweep>>
----------------------------------------------------------------------------
(* What the queries select and the updates write.                          *)

Exists(o) == order[o].status # "NONE"
Pending(o) == order[o].status = "PENDING_PAYMENT"

\* The order's columns and items are those of the call that inserted it.
ItemsOf(o) == hold[o].input.seats
OwnerOf(o) == hold[o].input.user

\* Fault: the key counts only together with the seats it was used for.
SameKeyAndSeats(i, j) == i.user = j.user /\ i.key = j.key /\ i.seats = j.seats

\* UNIQUE (user_id, idempotency_key), and the WHERE of the lookup.
SameKey(i, j) == i.user = j.user /\ i.key = j.key

\* Fault: the seats are not compared.
SameShowtimeOnly(i, j) == i.showtime = j.showtime

SameRequest(i, j) == i.showtime = j.showtime /\ i.seats = j.seats

OrdersWithKey(i) == {p \in Orders : Exists(p) /\ SameKey(hold[p].input, i)}

\* The answer to a request whose key order p already carries.
Replay(p, i) == IF SameRequest(hold[p].input, i) THEN p ELSE NoOrder

\* Fault: compared with the deadline of the new hold instead of the clock.
SeatFreeBeforeNewDeadline(s, now) ==
    \/ seat[s].status = "AVAILABLE"
    \/ seat[s].status = "HELD" /\ seat[s].expires <= now + HoldDuration

\* A hold is free to take from its deadline on, whether or not the expiry
\* worker has seen it.
SeatFree(s, now) ==
    \/ seat[s].status = "AVAILABLE"
    \/ seat[s].status = "HELD" /\ seat[s].expires <= now

Obtainable(i, now) ==
    \A s \in i.seats : ShowtimeOf[s] = i.showtime /\ SeatFree(s, now)

\* Fault: released by the orders' items, not by who holds the seat now.
ReleasedByItems(os) ==
    [s \in Seats |-> IF \E o \in os : s \in ItemsOf(o) THEN FreeSeat ELSE seat[s]]

\* Fault: released only when the hold is due.
ReleasedIfDue(os) ==
    [s \in Seats |-> IF /\ seat[s].status = "HELD" /\ seat[s].holder \in os
                        /\ seat[s].expires <= clock
                     THEN FreeSeat ELSE seat[s]]

\* ... SET status='AVAILABLE' WHERE hold_order_id = ANY(os) AND status='HELD'
Released(os) ==
    [s \in Seats |-> IF seat[s].status = "HELD" /\ seat[s].holder \in os
                     THEN FreeSeat ELSE seat[s]]

\* Fault: the transaction is left open and its rows stay locked.
LeakedLocks(p) == lock

\* COMMIT or ROLLBACK of transaction p.
Unlocked(p) == [o \in Orders |-> IF lock[o] = p THEN Nobody ELSE lock[o]]
----------------------------------------------------------------------------
(* CreateHold.                                                             *)

\* The service: answer from the idempotency key, or else generate an id, read
\* the clock and go on to the transaction.  BOUND: requests arrive only while
\* their deadline lies within MaxTime.
HoldStart(o) ==
    /\ hold[o].pc = "idle"
    /\ clock + HoldDuration <= MaxTime
    /\ \E i \in HoldInputs :
        \/ \E p \in OrdersWithKey(i) :
            hold' = [hold EXCEPT ![o] = [pc |-> "done", input |-> i, now |-> 0,
                                         reply |-> Replay(p, i)]]
        \/ /\ OrdersWithKey(i) = {}
           /\ hold' = [hold EXCEPT ![o] = [pc |-> "started", input |-> i,
                                           now |-> clock, reply |-> NoOrder]]
    /\ UNCHANGED <<clock, seat, order, lock, cancel, sweep>>

HoldReply(o, p) ==
    hold' = [hold EXCEPT ![o] = [pc |-> "done", input |-> hold[o].input,
                                 now |-> 0, reply |-> p]]

\* Under the seat locks a concurrent duplicate has inserted the order.
HoldReplay(o) ==
    /\ hold[o].pc = "started"
    /\ \E p \in OrdersWithKey(hold[o].input) :
        HoldReply(o, Replay(p, hold[o].input))
    /\ UNCHANGED <<clock, seat, order, lock, cancel, sweep>>

\* A seat is missing, of another showtime, held or sold: nothing is held.  The
\* same reply stands for a lost connection and a rolled back transaction.
HoldRefused(o) ==
    /\ hold[o].pc = "started"
    /\ HoldReply(o, NoOrder)
    /\ UNCHANGED <<clock, seat, order, lock, cancel, sweep>>

\* Insert the order and its items, mark every seat held, commit.
HoldCommit(o) ==
    LET i == hold[o].input
        deadline == hold[o].now + HoldDuration
    IN  /\ hold[o].pc = "started"
        /\ OrdersWithKey(i) = {}
        /\ Obtainable(i, hold[o].now)
        /\ order' = [order EXCEPT ![o] = [status |-> "PENDING_PAYMENT",
                                          expires |-> deadline]]
        /\ seat' = [s \in Seats |-> IF s \in i.seats
                                    THEN HeldSeat(o, deadline) ELSE seat[s]]
        /\ HoldReply(o, o)
        /\ UNCHANGED <<clock, lock, cancel, sweep>>
----------------------------------------------------------------------------
(* CancelOrder.                                                            *)

\* The handler reads the clock, then opens the transaction.
CancelStart(c) ==
    /\ cancel[c].pc = "idle"
    /\ \E o \in Orders, u \in Users :
        cancel' = [cancel EXCEPT ![c] = [pc |-> "started", order |-> o,
                                         user |-> u, now |-> clock]]
    /\ UNCHANGED <<clock, seat, order, lock, hold, sweep>>

\* Fault: the lookup lacks AND user_id = $2.
FoundByIdAlone(c) == Exists(cancel[c].order)

Found(c) == Exists(cancel[c].order) /\ OwnerOf(cancel[c].order) = cancel[c].user

Cancellable(c) ==
    /\ Pending(cancel[c].order)
    /\ order[cancel[c].order].expires > cancel[c].now

CancelEnd(c) ==
    cancel' = [cancel EXCEPT ![c] = [pc |-> "done", order |-> NoOrder,
                                     user |-> Nobody, now |-> 0]]

\* SELECT ... FOR UPDATE waits for the transaction that holds the row.
CancelLock(c) ==
    /\ cancel[c].pc = "started"
    /\ Found(c)
    /\ lock[cancel[c].order] = Nobody
    /\ lock' = [lock EXCEPT ![cancel[c].order] = c]
    /\ cancel' = [cancel EXCEPT ![c] = [pc |-> "locked",
                     order |-> cancel[c].order, user |-> cancel[c].user,
                     now |-> cancel[c].now]]
    /\ UNCHANGED <<clock, seat, order, hold, sweep>>

CancelCommit(c) ==
    /\ cancel[c].pc = "locked"
    /\ Cancellable(c)
    /\ order' = [order EXCEPT ![cancel[c].order] =
                    [status |-> "CANCELLED", expires |-> order[cancel[c].order].expires]]
    /\ seat' = Released({cancel[c].order})
    /\ lock' = Unlocked(c)
    /\ CancelEnd(c)
    /\ UNCHANGED <<clock, hold, sweep>>

\* Not found, not cancellable, or an error: roll back.
CancelAbort(c) ==
    /\ cancel[c].pc \in {"started", "locked"}
    /\ lock' = Unlocked(c)
    /\ CancelEnd(c)
    /\ UNCHANGED <<clock, seat, order, hold, sweep>>
----------------------------------------------------------------------------
(* ExpirePendingHolds, called by runHoldExpiryWorker at each tick.         *)

\* The rows FOR UPDATE SKIP LOCKED can return.
Due(now) ==
    {o \in Orders : lock[o] = Nobody /\ Pending(o) /\ order[o].expires <= now}

\* ORDER BY expires_at LIMIT BatchSize; the order among equal deadlines (by
\* random id) is left open.
Batches(now) ==
    {b \in SUBSET Due(now) :
        /\ Cardinality(b) = IF Cardinality(Due(now)) < BatchSize
                            THEN Cardinality(Due(now)) ELSE BatchSize
        /\ \A o \in b, p \in Due(now) \ b : order[o].expires <= order[p].expires}

SweepStart(w) ==
    /\ sweep[w].pc = "idle"
    /\ sweep' = [sweep EXCEPT ![w] = [pc |-> "started", now |-> clock, batch |-> {}]]
    /\ UNCHANGED <<clock, seat, order, lock, hold, cancel>>

SweepIdle(w) ==
    sweep' = [sweep EXCEPT ![w] = [pc |-> "idle", now |-> 0, batch |-> {}]]

\* An empty selection commits at once.
SweepNothing(w) ==
    /\ sweep[w].pc = "started"
    /\ Due(sweep[w].now) = {}
    /\ SweepIdle(w)
    /\ UNCHANGED <<clock, seat, order, lock, hold, cancel>>

SweepLock(w) ==
    /\ sweep[w].pc = "started"
    /\ Due(sweep[w].now) # {}
    /\ \E b \in Batches(sweep[w].now) :
        /\ lock' = [o \in Orders |-> IF o \in b THEN w ELSE lock[o]]
        /\ sweep' = [sweep EXCEPT ![w] = [pc |-> "locked", now |-> sweep[w].now,
                                          batch |-> b]]
    /\ UNCHANGED <<clock, seat, order, hold, cancel>>

SweepCommit(w) ==
    /\ sweep[w].pc = "locked"
    /\ order' = [o \in Orders |-> IF o \in sweep[w].batch
                    THEN [status |-> "EXPIRED", expires |-> order[o].expires]
                    ELSE order[o]]
    /\ seat' = Released(sweep[w].batch)
    /\ lock' = Unlocked(w)
    /\ SweepIdle(w)
    /\ UNCHANGED <<clock, hold, cancel>>

\* A database error, or the process dies: the worker logs and waits for the
\* next tick.
SweepAbort(w) ==
    /\ sweep[w].pc \in {"started", "locked"}
    /\ lock' = Unlocked(w)
    /\ SweepIdle(w)
    /\ UNCHANGED <<clock, seat, order, hold, cancel>>
----------------------------------------------------------------------------
HoldStep(o) == HoldStart(o) \/ HoldReplay(o) \/ HoldRefused(o) \/ HoldCommit(o)
CancelStep(c) == CancelStart(c) \/ CancelLock(c) \/ CancelCommit(c) \/ CancelAbort(c)
SweepStep(w) ==
    \/ SweepStart(w) \/ SweepNothing(w) \/ SweepLock(w)
    \/ SweepCommit(w) \/ SweepAbort(w)

BookingNext ==
    \/ Tick
    \/ \E o \in Orders : HoldStep(o)
    \/ \E c \in Cancels : CancelStep(c)
    \/ \E w \in Workers : SweepStep(w)

BookingSpec == BookingInit /\ [][BookingNext]_bookingVars

\* Time passes.  An open cancellation commits or rolls back (a lost connection
\* rolls it back).  The ticker fires again and again, and the database does
\* not fail every sweep.  No customer is obliged to do anything.
BookingFairness ==
    /\ WF_bookingVars(Tick)
    /\ \A c \in Cancels : WF_bookingVars(CancelCommit(c) \/ CancelAbort(c))
    /\ \A w \in Workers : /\ WF_bookingVars(SweepStart(w))
                          /\ SF_bookingVars(SweepNothing(w) \/ SweepLock(w))
                          /\ SF_bookingVars(SweepCommit(w))

FairBookingSpec == BookingSpec /\ BookingFairness
----------------------------------------------------------------------------
(* Properties.                                                             *)

\* Seat s is among the items of the order that holds it, which still waits for
\* its payment and has the same deadline.
Backed(s) ==
    LET o == seat[s].holder
    IN  /\ o \in Orders
        /\ Pending(o)
        /\ s \in ItemsOf(o)
        /\ ShowtimeOf[s] = hold[o].input.showtime
        /\ seat[s].expires = order[o].expires

\* A held seat belongs to exactly one order, an order that is still waiting
\* for its payment, asked for that seat and has the same deadline: CreateHold,
\* CancelOrder and the expiry worker leave no orphaned and no borrowed hold.
HeldSeatsBacked == \A s \in Seats : seat[s].status = "HELD" => Backed(s)

Live(o) == Pending(o) /\ clock < order[o].expires

\* Until its deadline a pending order holds every one of its seats: no
\* takeover of an expired hold, no cancellation and no sweep of another order
\* takes one away (the architecture's "hold all seats or none").
LiveHoldsComplete ==
    \A o \in Orders : Live(o) =>
        \A s \in ItemsOf(o) : seat[s].status = "HELD" /\ seat[s].holder = o

\* Whatever the interleaving of retries, a customer's idempotency key names
\* at most one order.
OneOrderPerKey ==
    \A o, p \in Orders :
        /\ Exists(o) /\ Exists(p)
        /\ hold[o].input.user = hold[p].input.user
        /\ hold[o].input.key = hold[p].input.key
        => o = p

\* A CreateHold call that succeeds returns an order for exactly the seats and
\* the showtime it asked for, under its own key, also when it is answered
\* from an earlier call.
RepliesMatchRequests ==
    \A o, p \in Orders : hold[o].reply = p =>
        Exists(p) /\ hold[p].input = hold[o].input

\* A CreateHold call that has not ended names a fresh order, has passed
\* validation and remembers a time that has passed.
HoldsConsistent ==
    \A o \in Orders :
        /\ Exists(o) => hold[o].pc = "done"
        /\ hold[o].pc # "idle" => hold[o].input \in HoldInput
        /\ hold[o].now <= clock

\* A transaction that has read an order's row still holds its lock, and what
\* it read there still holds: for a cancellation ...
CancelsConsistent ==
    \A c \in Cancels :
        /\ cancel[c].pc \in {"started", "locked"} => cancel[c].order \in Orders
        /\ cancel[c].pc = "locked" => lock[cancel[c].order] = c /\ Found(c)

\* ... and for a sweep.
SweepsConsistent ==
    \A w \in Workers :
        /\ sweep[w].now <= clock
        /\ \A o \in sweep[w].batch : /\ lock[o] = w
                                     /\ Pending(o)
                                     /\ order[o].expires <= sweep[w].now

\* The inductive invariant.
BookingInv ==
    /\ BookingTypeOK
    /\ HoldsConsistent
    /\ CancelsConsistent
    /\ SweepsConsistent
    /\ HeldSeatsBacked
    /\ LiveHoldsComplete
    /\ OneOrderPerKey
    /\ RepliesMatchRequests

LegalOrderChange ==
    \A o \in Orders : order'[o] # order[o] =>
        \/ ~Exists(o) /\ order'[o].status = "PENDING_PAYMENT"
        \/ Pending(o) /\ order'[o].status = "EXPIRED" /\ order[o].expires <= clock
        \/ /\ Pending(o) /\ order'[o].status = "CANCELLED"
           /\ \E c \in Cancels : /\ cancel[c].order = o /\ cancel[c].pc = "locked"
                                 /\ cancel[c].user = OwnerOf(o)
                                 /\ cancel[c].now < order[o].expires

\* An order changes status only along PENDING_PAYMENT -> EXPIRED, at or after
\* its deadline, and PENDING_PAYMENT -> CANCELLED, by a call of its owner that
\* was made before the deadline; what has ended never changes again.
OrderLifecycle == [][LegalOrderChange]_bookingVars

\* Every hold ends and its seats become free for others, although sweeps skip
\* locked orders, take bounded batches and may fail.
HoldsEnd ==
    \A o \in Orders :
        Pending(o) ~> ~Pending(o) /\ \A s \in Seats : seat[s].holder # o
=============================================================================
