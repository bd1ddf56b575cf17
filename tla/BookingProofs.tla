--------------------------- MODULE BookingProofs ---------------------------
(***************************************************************************)
(* Proofs about Booking, for every number of orders, calls, workers, seats *)
(* and customers, and every value of the bounds.                           *)
(***************************************************************************)
EXTENDS Booking, TLAPS

----------------------------------------------------------------------------
(* Type correctness.                                                       *)

LEMMA RowTypes ==
    /\ FreeSeat \in Seat
    /\ \A o \in Orders, d \in Nat : HeldSeat(o, d) \in Seat
  BY DEF FreeSeat, HeldSeat, Seat

\* Releasing seats and unlocking rows leave well-formed tables behind.
LEMMA TableTypes ==
    ASSUME BookingTypeOK
    PROVE  /\ \A os : Released(os) \in [Seats -> Seat]
           /\ \A p : Unlocked(p) \in [Orders -> Actors \cup {Nobody}]
  BY RowTypes DEF BookingTypeOK, Released, Unlocked

LEMMA HoldStepType ==
    ASSUME BookingTypeOK, NEW o \in Orders, HoldStep(o)
    PROVE  BookingTypeOK'
<1> USE InputsAssumption, BoundsAssumption DEF BookingTypeOK
<1>1. CASE HoldStart(o)
  <2>1. PICK i \in HoldInputs :
            \/ \E p \in OrdersWithKey(i) :
                 hold' = [hold EXCEPT ![o] = [pc |-> "done", input |-> i,
                            now |-> 0, reply |-> Replay(p, i)]]
            \/ hold' = [hold EXCEPT ![o] = [pc |-> "started", input |-> i,
                            now |-> clock, reply |-> NoOrder]]
    BY <1>1 DEF HoldStart
  <2>2. hold' \in [Orders -> HoldCall]
    BY <2>1 DEF HoldCall, OrdersWithKey, Replay
  <2> QED
    BY <1>1, <2>2 DEF HoldStart
<1>2. CASE HoldReplay(o)
  BY <1>2 DEF HoldReplay, HoldReply, HoldCall, OrdersWithKey, Replay
<1>3. CASE HoldRefused(o)
  BY <1>3 DEF HoldRefused, HoldReply, HoldCall
<1>4. CASE HoldCommit(o)
  <2>1. hold[o].now + HoldDuration \in Nat
    BY DEF HoldCall
  <2>2. order' \in [Orders -> [status : OrderStatus, expires : Nat]]
    BY <1>4, <2>1 DEF HoldCommit, OrderStatus
  <2>3. seat' \in [Seats -> Seat]
    BY <1>4, <2>1, RowTypes DEF HoldCommit
  <2>4. hold' \in [Orders -> HoldCall]
    BY <1>4 DEF HoldCommit, HoldReply, HoldCall
  <2> QED
    BY <1>4, <2>2, <2>3, <2>4 DEF HoldCommit
<1> QED
  BY <1>1, <1>2, <1>3, <1>4 DEF HoldStep

LEMMA CancelStepType ==
    ASSUME BookingTypeOK, NEW c \in Cancels, CancelStep(c)
    PROVE  BookingTypeOK'
<1> USE BoundsAssumption DEF BookingTypeOK
<1>1. CASE CancelStart(c)
  BY <1>1 DEF CancelStart, CancelCall
<1>2. CASE CancelLock(c)
  BY <1>2 DEF CancelLock, CancelCall, Actors
<1>3. CASE CancelCommit(c)
  <2>1. order' \in [Orders -> [status : OrderStatus, expires : Nat]]
    BY <1>3 DEF CancelCommit, OrderStatus
  <2>2. cancel' \in [Cancels -> CancelCall]
    BY <1>3 DEF CancelCommit, CancelEnd, CancelCall
  <2> QED
    BY <1>3, <2>1, <2>2, TableTypes DEF CancelCommit
<1>4. CASE CancelAbort(c)
  <2>1. cancel' \in [Cancels -> CancelCall]
    BY <1>4 DEF CancelAbort, CancelEnd, CancelCall
  <2> QED
    BY <1>4, <2>1, TableTypes DEF CancelAbort
<1> QED
  BY <1>1, <1>2, <1>3, <1>4 DEF CancelStep

LEMMA SweepStepType ==
    ASSUME BookingTypeOK, NEW w \in Workers, SweepStep(w)
    PROVE  BookingTypeOK'
<1> USE BoundsAssumption DEF BookingTypeOK
<1>1. CASE SweepStart(w)
  BY <1>1 DEF SweepStart, SweepRun
<1>2. CASE SweepNothing(w)
  BY <1>2 DEF SweepNothing, SweepIdle, SweepRun
<1>3. CASE SweepLock(w)
  <2>1. PICK b \in Batches(sweep[w].now) :
            /\ lock' = [o \in Orders |-> IF o \in b THEN w ELSE lock[o]]
            /\ sweep' = [sweep EXCEPT ![w] = [pc |-> "locked",
                                         now |-> sweep[w].now, batch |-> b]]
    BY <1>3 DEF SweepLock
  <2>2. b \in SUBSET Orders
    BY DEF Batches, Due
  <2> QED
    BY <1>3, <2>1, <2>2 DEF SweepLock, SweepRun, Actors
<1>4. CASE SweepCommit(w)
  <2>1. order' \in [Orders -> [status : OrderStatus, expires : Nat]]
    BY <1>4 DEF SweepCommit, OrderStatus
  <2>2. sweep' \in [Workers -> SweepRun]
    BY <1>4 DEF SweepCommit, SweepIdle, SweepRun
  <2> QED
    BY <1>4, <2>1, <2>2, TableTypes DEF SweepCommit
<1>5. CASE SweepAbort(w)
  <2>1. sweep' \in [Workers -> SweepRun]
    BY <1>5 DEF SweepAbort, SweepIdle, SweepRun
  <2> QED
    BY <1>5, <2>1, TableTypes DEF SweepAbort
<1> QED
  BY <1>1, <1>2, <1>3, <1>4, <1>5 DEF SweepStep

\* The tables, the clock and the calls in progress stay well-formed.
THEOREM BookingTypeCorrect == BookingSpec => []BookingTypeOK
<1>1. BookingInit => BookingTypeOK
  BY InputsAssumption, BoundsAssumption, RowTypes
  DEF BookingInit, BookingTypeOK, OrderStatus, HoldCall, CancelCall, SweepRun
<1>2. BookingTypeOK /\ [BookingNext]_bookingVars => BookingTypeOK'
  <2> SUFFICES ASSUME BookingTypeOK, [BookingNext]_bookingVars
               PROVE  BookingTypeOK'
    OBVIOUS
  <2>1. CASE Tick
    BY <2>1, BoundsAssumption DEF Tick, BookingTypeOK
  <2>2. CASE UNCHANGED bookingVars
    BY <2>2 DEF bookingVars, BookingTypeOK
  <2> QED
    BY <2>1, <2>2, HoldStepType, CancelStepType, SweepStepType DEF BookingNext
<1> QED
  BY <1>1, <1>2, PTL DEF BookingSpec
----------------------------------------------------------------------------
(* The inductive invariant, one lemma for each action that changes rows.   *)

\* Seats that orders os hold are freed, all others stay.
LEMMA ReleasedSeats ==
    ASSUME NEW os, NEW s \in Seats
    PROVE  Released(os)[s] = IF seat[s].status = "HELD" /\ seat[s].holder \in os
                             THEN FreeSeat ELSE seat[s]
  BY DEF Released

\* Unlocking touches the locks of one transaction.
LEMMA UnlockedRows ==
    ASSUME NEW p, NEW o \in Orders
    PROVE  Unlocked(p)[o] = IF lock[o] = p THEN Nobody ELSE lock[o]
  BY DEF Unlocked

ItemsAreSeats == \A o \in Orders : Exists(o) => ItemsOf(o) \subseteq Seats

RowsInv ==
    HeldSeatsBacked /\ LiveHoldsComplete /\ OneOrderPerKey /\ ItemsAreSeats

\* Steps that leave the seat and order rows alone, and the calls that created
\* orders: time may pass.
LEMMA RowsUntouched ==
    ASSUME BookingTypeOK, BookingTypeOK', RowsInv,
           seat' = seat, order' = order, clock' >= clock,
           \A p \in Orders : Exists(p) => hold'[p] = hold[p]
    PROVE  RowsInv'
<1>1. \A p \in Orders : /\ Exists(p)' <=> Exists(p)
                        /\ Pending(p)' <=> Pending(p)
                        /\ Pending(p) => Exists(p)
  BY DEF Exists, Pending
<1>2. HeldSeatsBacked'
  BY <1>1 DEF RowsInv, HeldSeatsBacked, Backed, ItemsOf
<1>3. \A p \in Orders : Live(p)' => Live(p)
  BY <1>1 DEF Live, BookingTypeOK
<1>4. LiveHoldsComplete'
  BY <1>1, <1>3 DEF RowsInv, LiveHoldsComplete, ItemsOf, Live
<1>5. OneOrderPerKey'
  BY <1>1 DEF RowsInv, OneOrderPerKey
<1>6. ItemsAreSeats'
  BY <1>1 DEF RowsInv, ItemsAreSeats, ItemsOf
<1> QED
  BY <1>2, <1>4, <1>5, <1>6 DEF RowsInv

\* Orders os end and release what they still hold: no other order loses a
\* seat, and no seat stays with an order that has ended.
LEMMA RowsAfterEnd ==
    ASSUME BookingTypeOK, BookingTypeOK', RowsInv,
           NEW os \in SUBSET Orders,
           NEW ended \in {"EXPIRED", "CANCELLED"},
           \A o \in os : Pending(o),
           \A o \in Orders : order'[o] = IF o \in os
               THEN [status |-> ended, expires |-> order[o].expires]
               ELSE order[o],
           seat' = Released(os), clock' = clock, hold' = hold
    PROVE  RowsInv'
<1>1. ASSUME NEW o \in Orders
      PROVE  /\ Exists(o)' <=> Exists(o)
             /\ Pending(o)' <=> Pending(o) /\ o \notin os
             /\ order'[o].expires = order[o].expires
  <2>1. CASE o \in os
    <3>1. order'[o] = [status |-> ended, expires |-> order[o].expires]
      BY <2>1
    <3> QED
      BY <2>1, <3>1 DEF Exists, Pending
  <2>2. CASE o \notin os
    BY <2>2 DEF Exists, Pending
  <2> QED
    BY <2>1, <2>2
<1>2. \A s \in Seats : seat'[s] = IF seat[s].status = "HELD" /\ seat[s].holder \in os
                                  THEN FreeSeat ELSE seat[s]
  BY ReleasedSeats
<1>3. HeldSeatsBacked'
  <2> SUFFICES ASSUME NEW s \in Seats, seat'[s].status = "HELD"
               PROVE  Backed(s)'
    BY DEF HeldSeatsBacked
  <2>1. seat'[s] = seat[s] /\ seat[s].holder \notin os
    BY <1>2 DEF FreeSeat
  <2>2. Backed(s)
    BY <2>1 DEF RowsInv, HeldSeatsBacked
  <2> QED
    BY <1>1, <2>1, <2>2 DEF Backed, ItemsOf
<1>4. ItemsAreSeats'
  BY <1>1 DEF RowsInv, ItemsAreSeats, ItemsOf
<1>5. LiveHoldsComplete'
  <2> SUFFICES ASSUME NEW o \in Orders, Live(o)', NEW s \in ItemsOf(o)'
               PROVE  seat'[s].status = "HELD" /\ seat'[s].holder = o
    BY DEF LiveHoldsComplete
  <2>1. Live(o) /\ Exists(o) /\ o \notin os /\ s \in ItemsOf(o)
    BY <1>1 DEF Live, ItemsOf, Pending, Exists
  <2>2. s \in Seats /\ seat[s].status = "HELD" /\ seat[s].holder = o
    BY <2>1 DEF RowsInv, ItemsAreSeats, LiveHoldsComplete
  <2> QED
    BY <1>2, <2>1, <2>2
<1>6. OneOrderPerKey'
  BY <1>1 DEF RowsInv, OneOrderPerKey
<1> QED
  BY <1>3, <1>4, <1>5, <1>6 DEF RowsInv

LEMMA InvGivesRows == BookingInv => RowsInv
  BY DEF BookingInv, RowsInv, ItemsAreSeats, HoldsConsistent, HoldInput, ItemsOf

\* Steps of CreateHold that end without a new order, and the passing of time,
\* leave the other transactions' knowledge intact.
LEMMA OthersUntouched ==
    ASSUME BookingTypeOK, BookingTypeOK', CancelsConsistent, SweepsConsistent,
           order' = order, lock' = lock, cancel' = cancel, sweep' = sweep,
           clock' >= clock,
           \A p \in Orders : Exists(p) => hold'[p] = hold[p]
    PROVE  CancelsConsistent' /\ SweepsConsistent'
<1>1. \A p \in Orders : /\ Exists(p)' <=> Exists(p)
                        /\ Pending(p)' <=> Pending(p)
  BY DEF Exists, Pending
<1>2. CancelsConsistent'
  BY <1>1 DEF CancelsConsistent, Found, OwnerOf
<1>3. SweepsConsistent'
  BY <1>1 DEF SweepsConsistent, BookingTypeOK, SweepRun
<1> QED
  BY <1>2, <1>3

\* Two requests with the same key that compare equal are the same request.
LEMMA SameKeySameRequest ==
    ASSUME NEW i \in HoldInput, NEW j \in HoldInput, SameKey(i, j), SameRequest(i, j)
    PROVE  i = j
  BY DEF HoldInput, SameKey, SameRequest

\* A call that is answered without a new order: from its idempotency key, or
\* with a refusal.
LEMMA HoldWithoutOrderInv ==
    ASSUME BookingInv, BookingTypeOK', NEW o \in Orders, NEW i \in HoldInput,
           NEW h \in HoldCall, h.input = i, h.pc # "idle", h.now <= clock,
           hold[o].pc # "done",
           hold' = [hold EXCEPT ![o] = h],
           \/ h.reply = NoOrder
           \/ \E p \in OrdersWithKey(i) : h.reply = Replay(p, i),
           UNCHANGED <<clock, seat, order, lock, cancel, sweep>>
    PROVE  BookingInv'
<1>1. ~Exists(o)
  BY DEF BookingInv, HoldsConsistent
<1>2. \A p \in Orders : p # o => hold'[p] = hold[p]
  BY DEF BookingInv, BookingTypeOK
<1>3. hold'[o] = h
  BY DEF BookingInv, BookingTypeOK
<1>4. \A p \in Orders : Exists(p) => hold'[p] = hold[p]
  BY <1>1, <1>2
<1>5. clock' >= clock
  BY DEF BookingInv, BookingTypeOK
<1>6. RowsInv'
  BY <1>4, <1>5, InvGivesRows, RowsUntouched DEF BookingInv
<1>7. CancelsConsistent' /\ SweepsConsistent'
  BY <1>4, <1>5, OthersUntouched DEF BookingInv
<1>8. HoldsConsistent'
  BY <1>1, <1>2, <1>3 DEF BookingInv, HoldsConsistent, Exists
<1>9. RepliesMatchRequests'
  <2> SUFFICES ASSUME NEW q \in Orders, NEW p \in Orders, hold'[q].reply = p
               PROVE  Exists(p)' /\ hold'[p].input = hold'[q].input
    BY DEF RepliesMatchRequests
  <2>1. CASE q = o
    <3>1. PICK r \in OrdersWithKey(i) : p = Replay(r, i)
      BY <1>3, <2>1, IdsAssumption
    <3>2. r = p /\ Exists(p) /\ SameKey(hold[p].input, i) /\ SameRequest(hold[p].input, i)
      BY <3>1, IdsAssumption DEF Replay, OrdersWithKey
    <3>3. hold[p].input \in HoldInput
      BY <3>2 DEF BookingInv, HoldsConsistent
    <3>4. hold[p].input = i
      BY <3>2, <3>3, SameKeySameRequest
    <3> QED
      BY <1>3, <1>4, <2>1, <3>2, <3>4 DEF Exists
  <2>2. CASE q # o
    <3>1. Exists(p) /\ hold[p].input = hold[q].input
      BY <1>2, <2>2 DEF BookingInv, RepliesMatchRequests
    <3> QED
      BY <1>2, <1>4, <2>2, <3>1 DEF Exists
  <2> QED
    BY <2>1, <2>2
<1> QED
  BY <1>6, <1>7, <1>8, <1>9 DEF BookingInv, RowsInv

LEMMA HoldStartInv ==
    ASSUME BookingInv, NEW o \in Orders, HoldStart(o)
    PROVE  BookingInv'
<1>1. BookingTypeOK'
  BY HoldStepType DEF HoldStep, BookingInv
<1>2. UNCHANGED <<clock, seat, order, lock, cancel, sweep>> /\ hold[o].pc # "done"
  BY DEF HoldStart
<1>3. PICK i \in HoldInputs :
        \/ \E p \in OrdersWithKey(i) :
             hold' = [hold EXCEPT ![o] = [pc |-> "done", input |-> i,
                        now |-> 0, reply |-> Replay(p, i)]]
        \/ hold' = [hold EXCEPT ![o] = [pc |-> "started", input |-> i,
                        now |-> clock, reply |-> NoOrder]]
  BY DEF HoldStart
<1>4. i \in HoldInput
  BY InputsAssumption
<1>5. clock \in 0 .. MaxTime /\ 0 \in 0 .. MaxTime /\ 0 <= clock
  BY BoundsAssumption DEF BookingInv, BookingTypeOK
<1>6. CASE \E p \in OrdersWithKey(i) :
             hold' = [hold EXCEPT ![o] = [pc |-> "done", input |-> i,
                        now |-> 0, reply |-> Replay(p, i)]]
  <2>1. PICK p \in OrdersWithKey(i) :
             hold' = [hold EXCEPT ![o] = [pc |-> "done", input |-> i,
                        now |-> 0, reply |-> Replay(p, i)]]
    BY <1>6
  <2>2. [pc |-> "done", input |-> i, now |-> 0, reply |-> Replay(p, i)] \in HoldCall
    BY <1>4, <1>5 DEF HoldCall, Replay, OrdersWithKey
  <2> QED
    BY <1>1, <1>2, <1>4, <1>5, <2>1, <2>2, HoldWithoutOrderInv
<1>7. CASE hold' = [hold EXCEPT ![o] = [pc |-> "started", input |-> i,
                        now |-> clock, reply |-> NoOrder]]
  <2>1. PICK h : h = [pc |-> "started", input |-> i, now |-> clock, reply |-> NoOrder]
    OBVIOUS
  <2>2. h \in HoldCall /\ h.input = i /\ h.pc # "idle" /\ h.reply = NoOrder
    BY <1>4, <1>5, <2>1 DEF HoldCall
  <2>3. h.now <= clock
    BY <1>5, <2>1
  <2>4. hold' = [hold EXCEPT ![o] = h]
    BY <1>7, <2>1
  <2> QED
    BY <1>1, <1>2, <1>4, <2>2, <2>3, <2>4, HoldWithoutOrderInv
<1> QED
  BY <1>3, <1>6, <1>7

\* Under the seat locks the answer is that of the order the key names.
LEMMA HoldReplayInv ==
    ASSUME BookingInv, NEW o \in Orders, HoldReplay(o)
    PROVE  BookingInv'
<1>1. BookingTypeOK'
  BY HoldStepType DEF HoldStep, BookingInv
<1>2. hold[o].pc = "started" /\ hold[o].input \in HoldInput
  BY DEF HoldReplay, BookingInv, HoldsConsistent
<1>3. PICK p \in OrdersWithKey(hold[o].input) : HoldReply(o, Replay(p, hold[o].input))
  BY DEF HoldReplay
<1>4. PICK h : h = [pc |-> "done", input |-> hold[o].input, now |-> 0,
                    reply |-> Replay(p, hold[o].input)]
  OBVIOUS
<1>5. /\ h.input = hold[o].input /\ h.pc # "idle" /\ h.now <= clock
      /\ h.reply = Replay(p, hold[o].input)
  BY <1>4 DEF BookingInv, BookingTypeOK
<1>6. h \in HoldCall
  BY <1>2, <1>4, BoundsAssumption DEF HoldCall, Replay, OrdersWithKey
<1>7. hold' = [hold EXCEPT ![o] = h]
  BY <1>3, <1>4 DEF HoldReply
<1>8. hold[o].pc # "done" /\ UNCHANGED <<clock, seat, order, lock, cancel, sweep>>
  BY <1>2 DEF HoldReplay
<1> QED
  BY <1>1, <1>2, <1>5, <1>6, <1>7, <1>8, HoldWithoutOrderInv

LEMMA HoldRefusedInv ==
    ASSUME BookingInv, NEW o \in Orders, HoldRefused(o)
    PROVE  BookingInv'
<1>1. BookingTypeOK'
  BY HoldStepType DEF HoldStep, BookingInv
<1>2. hold[o].pc = "started" /\ hold[o].input \in HoldInput
  BY DEF HoldRefused, BookingInv, HoldsConsistent
<1>3. PICK h : h = [pc |-> "done", input |-> hold[o].input, now |-> 0,
                    reply |-> NoOrder]
  OBVIOUS
<1>4. h.input = hold[o].input /\ h.pc # "idle" /\ h.now <= clock /\ h.reply = NoOrder
  BY <1>3 DEF BookingInv, BookingTypeOK
<1>5. h \in HoldCall
  BY <1>2, <1>3, BoundsAssumption DEF HoldCall
<1>6. hold' = [hold EXCEPT ![o] = h]
  BY <1>3 DEF HoldRefused, HoldReply
<1>7. hold[o].pc # "done" /\ UNCHANGED <<clock, seat, order, lock, cancel, sweep>>
  BY <1>2 DEF HoldRefused
<1> QED
  BY <1>1, <1>2, <1>4, <1>5, <1>6, <1>7, HoldWithoutOrderInv

\* A new order takes only seats that are available or whose hold is over, so
\* no live order loses one.
LEMMA HoldCommitInv ==
    ASSUME BookingInv, NEW o \in Orders, HoldCommit(o)
    PROVE  BookingInv'
<1> DEFINE i == hold[o].input
           deadline == hold[o].now + HoldDuration
<1>1. BookingTypeOK'
  BY HoldStepType DEF HoldStep, BookingInv
<1>2. /\ hold[o].pc = "started" /\ i \in HoldInput /\ ~Exists(o)
      /\ hold[o].now <= clock
  BY DEF HoldCommit, BookingInv, HoldsConsistent
<1>3. /\ order'[o].status = "PENDING_PAYMENT" /\ order'[o].expires = deadline
      /\ hold'[o].input = i /\ hold'[o].reply = o /\ hold'[o].pc = "done"
      /\ hold'[o].now = 0
  BY DEF HoldCommit, HoldReply, BookingInv, BookingTypeOK
<1>4. \A p \in Orders : p # o => order'[p] = order[p] /\ hold'[p] = hold[p]
  BY DEF HoldCommit, HoldReply, BookingInv, BookingTypeOK
<1>5. \A s \in Seats : seat'[s] = IF s \in i.seats THEN HeldSeat(o, deadline) ELSE seat[s]
  BY DEF HoldCommit
<1>6. UNCHANGED <<clock, lock, cancel, sweep>>
  BY DEF HoldCommit
<1>7. \A p \in Orders : Exists(p) => p # o
  BY <1>2
<1>8. \A p \in Orders : Pending(p) => Exists(p)
  BY DEF Pending, Exists
<1>9. \A s \in i.seats : s \in Seats /\ ShowtimeOf[s] = i.showtime /\ SeatFree(s, hold[o].now)
  BY <1>2 DEF HoldCommit, Obtainable, HoldInput
<1>10. HoldsConsistent'
  <2>1. hold'[o].now <= clock'
    BY <1>3, <1>6 DEF BookingInv, BookingTypeOK
  <2> QED
    BY <1>2, <1>3, <1>4, <1>6, <2>1 DEF BookingInv, HoldsConsistent, Exists
<1>11. HeldSeatsBacked'
  <2> SUFFICES ASSUME NEW s \in Seats, seat'[s].status = "HELD"
               PROVE  Backed(s)'
    BY DEF HeldSeatsBacked
  <2>1. CASE s \in i.seats
    <3>1. seat'[s].holder = o /\ seat'[s].expires = deadline
      BY <1>5, <2>1 DEF HeldSeat
    <3> QED
      BY <1>3, <1>9, <2>1, <3>1 DEF Backed, Pending, ItemsOf
  <2>2. CASE s \notin i.seats
    <3>1. seat'[s] = seat[s] /\ Backed(s)
      BY <1>5, <2>2 DEF BookingInv, HeldSeatsBacked
    <3>2. seat[s].holder # o
      BY <1>7, <1>8, <3>1 DEF Backed
    <3> QED
      BY <1>4, <3>1, <3>2 DEF Backed, Pending, ItemsOf
  <2> QED
    BY <2>1, <2>2
<1>12. LiveHoldsComplete'
  <2> SUFFICES ASSUME NEW p \in Orders, Live(p)', NEW s \in ItemsOf(p)'
               PROVE  seat'[s].status = "HELD" /\ seat'[s].holder = p
    BY DEF LiveHoldsComplete
  <2>1. CASE p = o
    <3>1. s \in i.seats /\ s \in Seats
      BY <1>3, <1>9, <2>1 DEF ItemsOf
    <3> QED
      BY <1>5, <2>1, <3>1 DEF HeldSeat
  <2>2. CASE p # o
    <3>1. Live(p) /\ s \in ItemsOf(p)
      BY <1>4, <1>6, <2>2 DEF Live, Pending, ItemsOf
    <3>2. s \in Seats
      BY <3>1, InvGivesRows DEF RowsInv, ItemsAreSeats, Live, Pending, Exists
    <3>3. seat[s].status = "HELD" /\ seat[s].holder = p
      BY <3>1 DEF BookingInv, LiveHoldsComplete
    <3>4. seat[s].expires = order[p].expires
      BY <3>2, <3>3 DEF BookingInv, HeldSeatsBacked, Backed
    <3>5. ~(order[p].expires <= hold[o].now)
      BY <1>2, <3>1 DEF Live, BookingInv, BookingTypeOK, HoldCall
    <3>6. ~SeatFree(s, hold[o].now)
      BY <3>3, <3>4, <3>5 DEF SeatFree
    <3> QED
      BY <1>5, <1>9, <3>2, <3>3, <3>6
  <2> QED
    BY <2>1, <2>2
<1>13. OneOrderPerKey'
  <2>1. \A p \in Orders : Exists(p) => ~(/\ hold[p].input.user = i.user
                                        /\ hold[p].input.key = i.key)
    BY DEF HoldCommit, OrdersWithKey, SameKey
  <2>2. \A p \in Orders : p # o => (Exists(p)' <=> Exists(p))
    BY <1>4 DEF Exists
  <2> QED
    BY <1>3, <1>4, <2>1, <2>2 DEF BookingInv, OneOrderPerKey
<1>14. CancelsConsistent'
  BY <1>4, <1>6, <1>7 DEF BookingInv, CancelsConsistent, Found, OwnerOf, Exists
<1>15. SweepsConsistent'
  <2> SUFFICES ASSUME NEW w \in Workers
               PROVE  /\ sweep'[w].now <= clock'
                      /\ \A p \in sweep'[w].batch :
                            /\ lock'[p] = w
                            /\ Pending(p)'
                            /\ order'[p].expires <= sweep'[w].now
    BY DEF SweepsConsistent
  <2>1. \A p \in sweep[w].batch : p \in Orders /\ Pending(p)
    BY DEF BookingInv, BookingTypeOK, SweepRun, SweepsConsistent
  <2>2. \A p \in sweep[w].batch : order'[p] = order[p]
    BY <1>4, <1>7, <1>8, <2>1
  <2> QED
    BY <1>6, <2>1, <2>2 DEF BookingInv, SweepsConsistent, Pending
<1>16. RepliesMatchRequests'
  <2> SUFFICES ASSUME NEW q \in Orders, NEW p \in Orders, hold'[q].reply = p
               PROVE  Exists(p)' /\ hold'[p].input = hold'[q].input
    BY DEF RepliesMatchRequests
  <2>1. CASE q = o
    BY <1>3, <2>1 DEF Exists
  <2>2. CASE q # o
    <3>1. Exists(p) /\ hold[p].input = hold[q].input
      BY <1>4, <2>2 DEF BookingInv, RepliesMatchRequests
    <3> QED
      BY <1>4, <1>7, <2>2, <3>1 DEF Exists
  <2> QED
    BY <2>1, <2>2
<1> QED
  BY <1>1, <1>10, <1>11, <1>12, <1>13, <1>14, <1>15, <1>16 DEF BookingInv

\* Steps of cancellations and sweeps create no order and answer no hold.
LEMMA HoldsUntouched ==
    ASSUME BookingTypeOK, BookingTypeOK', HoldsConsistent, RepliesMatchRequests,
           hold' = hold, clock' >= clock,
           \A o \in Orders : Exists(o)' <=> Exists(o)
    PROVE  HoldsConsistent' /\ RepliesMatchRequests'
<1>1. HoldsConsistent'
  BY DEF HoldsConsistent, BookingTypeOK, HoldCall
<1>2. RepliesMatchRequests'
  BY DEF RepliesMatchRequests
<1> QED
  BY <1>1, <1>2

\* When actor a ends its transaction, what the others have locked stays as
\* they read it.
LEMMA LocksAfterEnd ==
    ASSUME BookingTypeOK, BookingTypeOK', CancelsConsistent, SweepsConsistent,
           NEW a \in Actors,
           hold' = hold, clock' = clock, lock' = Unlocked(a),
           \A o \in Orders : lock[o] # a => order'[o] = order[o],
           \A o \in Orders : Exists(o)' <=> Exists(o),
           \A c \in Cancels : IF c = a THEN cancel'[c].pc = "done"
                                       ELSE cancel'[c] = cancel[c],
           \A w \in Workers : IF w = a THEN sweep'[w].batch = {} /\ sweep'[w].now = 0
                                       ELSE sweep'[w] = sweep[w]
    PROVE  CancelsConsistent' /\ SweepsConsistent'
<1>1. \A o \in Orders : lock[o] # a => lock'[o] = lock[o]
  BY UnlockedRows
<1>2. CancelsConsistent'
  <2> SUFFICES ASSUME NEW c \in Cancels, c # a
               PROVE  /\ cancel'[c].pc \in {"started", "locked"} => cancel'[c].order \in Orders
                      /\ cancel'[c].pc = "locked" => lock'[cancel'[c].order] = c /\ Found(c)'
    BY DEF CancelsConsistent
  <2>1. cancel'[c] = cancel[c]
    OBVIOUS
  <2>2. cancel[c].pc = "locked" => lock[cancel[c].order] = c /\ Found(c)
    BY DEF CancelsConsistent
  <2>3. cancel[c].pc \in {"started", "locked"} => cancel[c].order \in Orders
    BY DEF CancelsConsistent
  <2> QED
    BY <1>1, <2>1, <2>2, <2>3 DEF Found, OwnerOf
<1>3. SweepsConsistent'
  <2> SUFFICES ASSUME NEW w \in Workers
               PROVE  /\ sweep'[w].now <= clock'
                      /\ \A p \in sweep'[w].batch :
                            /\ lock'[p] = w
                            /\ Pending(p)'
                            /\ order'[p].expires <= sweep'[w].now
    BY DEF SweepsConsistent
  <2>1. CASE w = a
    BY <2>1 DEF BookingTypeOK
  <2>2. CASE w # a
    <3>1. sweep'[w] = sweep[w] /\ sweep[w].now <= clock
      BY <2>2 DEF SweepsConsistent
    <3>2. \A p \in sweep[w].batch : p \in Orders /\ lock[p] = w
      BY DEF BookingTypeOK, SweepRun, SweepsConsistent
    <3>3. \A p \in sweep[w].batch : order'[p] = order[p] /\ lock'[p] = w
      BY <1>1, <2>2, <3>2
    <3> QED
      BY <3>1, <3>2, <3>3 DEF SweepsConsistent, Pending
  <2> QED
    BY <2>1, <2>2
<1> QED
  BY <1>2, <1>3

LEMMA CancelInv ==
    ASSUME BookingInv, NEW c \in Cancels, CancelStep(c)
    PROVE  BookingInv'
<1>1. BookingTypeOK /\ BookingTypeOK' /\ RowsInv
  BY CancelStepType, InvGivesRows DEF BookingInv
<1>2. hold' = hold /\ clock' = clock /\ clock' >= clock /\ sweep' = sweep
  BY <1>1 DEF CancelStep, CancelStart, CancelLock, CancelCommit, CancelAbort, BookingTypeOK
<1>3. \A d \in Cancels : d # c => cancel'[d] = cancel[d]
  BY <1>1 DEF CancelStep, CancelStart, CancelLock, CancelCommit, CancelAbort,
              CancelEnd, BookingTypeOK
<1>4. c \in Actors /\ c # Nobody /\ c \notin Workers /\ Nobody \notin Actors
  BY IdsAssumption DEF Actors
<1>5. CASE CancelStart(c)
  <2>1. seat' = seat /\ order' = order /\ lock' = lock
    BY <1>5 DEF CancelStart
  <2>2. cancel'[c].pc = "started" /\ cancel'[c].order \in Orders
    BY <1>1, <1>5 DEF CancelStart, BookingTypeOK
  <2>3. CancelsConsistent'
    BY <1>2, <1>3, <2>1, <2>2 DEF BookingInv, CancelsConsistent, Found, OwnerOf, Exists
  <2>4. SweepsConsistent'
    BY <1>2, <2>1 DEF BookingInv, SweepsConsistent, Pending
  <2>5. RowsInv'
    BY <1>1, <1>2, <2>1, RowsUntouched
  <2>6. HoldsConsistent' /\ RepliesMatchRequests'
    BY <1>1, <1>2, <2>1, HoldsUntouched DEF BookingInv, Exists
  <2> QED
    BY <1>1, <2>3, <2>4, <2>5, <2>6 DEF BookingInv, RowsInv
<1>6. CASE CancelLock(c)
  <2> DEFINE o == cancel[c].order
  <2>1. seat' = seat /\ order' = order /\ cancel'[c].pc = "locked" /\ cancel'[c].order = o
    BY <1>1, <1>6 DEF CancelLock, BookingTypeOK
  <2>2. o \in Orders /\ Found(c) /\ lock[o] = Nobody
    BY <1>6 DEF CancelLock, BookingInv, CancelsConsistent
  <2>3. lock'[o] = c /\ \A p \in Orders : p # o => lock'[p] = lock[p]
    BY <1>1, <1>6, <2>2 DEF CancelLock, BookingTypeOK
  <2>4. cancel'[c].user = cancel[c].user
    BY <1>1, <1>6 DEF CancelLock, BookingTypeOK
  <2>5. CancelsConsistent'
    <3> SUFFICES ASSUME NEW d \in Cancels
                 PROVE  /\ cancel'[d].pc \in {"started", "locked"} => cancel'[d].order \in Orders
                        /\ cancel'[d].pc = "locked" => lock'[cancel'[d].order] = d /\ Found(d)'
      BY DEF CancelsConsistent
    <3>1. CASE d = c
      BY <1>2, <2>1, <2>2, <2>3, <2>4, <3>1 DEF Found, OwnerOf, Exists
    <3>2. CASE d # c
      <4>1. cancel'[d] = cancel[d]
        BY <1>3, <3>2
      <4>2. /\ cancel[d].pc \in {"started", "locked"} => cancel[d].order \in Orders
            /\ cancel[d].pc = "locked" => lock[cancel[d].order] = d /\ Found(d)
        BY DEF BookingInv, CancelsConsistent
      <4>3. d # Nobody
        BY IdsAssumption
      <4> QED
        BY <1>2, <2>1, <2>2, <2>3, <4>1, <4>2, <4>3 DEF Found, OwnerOf, Exists
    <3> QED
      BY <3>1, <3>2
  <2>6. SweepsConsistent'
    <3> SUFFICES ASSUME NEW w \in Workers, NEW p \in sweep[w].batch
                 PROVE  lock'[p] = w
      BY <1>2, <2>1 DEF BookingInv, SweepsConsistent, Pending
    <3>1. p \in Orders /\ lock[p] = w /\ w # Nobody
      BY <1>1, IdsAssumption DEF BookingInv, SweepsConsistent, BookingTypeOK, SweepRun
    <3> QED
      BY <2>2, <2>3, <3>1
  <2>7. RowsInv'
    BY <1>1, <1>2, <2>1, RowsUntouched
  <2>8. HoldsConsistent' /\ RepliesMatchRequests'
    BY <1>1, <1>2, <2>1, HoldsUntouched DEF BookingInv, Exists
  <2> QED
    BY <1>1, <2>5, <2>6, <2>7, <2>8 DEF BookingInv, RowsInv
<1>7. CASE CancelCommit(c)
  <2> DEFINE o == cancel[c].order
  <2>1. o \in Orders /\ lock[o] = c /\ Pending(o)
    BY <1>7 DEF CancelCommit, Cancellable, BookingInv, CancelsConsistent
  <2>2. \A p \in Orders : order'[p] = IF p \in {o}
            THEN [status |-> "CANCELLED", expires |-> order[p].expires] ELSE order[p]
    BY <1>1, <1>7 DEF CancelCommit, BookingTypeOK
  <2>3. seat' = Released({o}) /\ lock' = Unlocked(c)
    BY <1>7 DEF CancelCommit
  <2>4. RowsInv'
    BY <1>1, <1>2, <2>1, <2>2, <2>3, RowsAfterEnd
  <2>5. \A p \in Orders : Exists(p)' <=> Exists(p)
    <3> SUFFICES ASSUME NEW p \in Orders PROVE Exists(p)' <=> Exists(p)
      OBVIOUS
    <3>1. CASE p = o
      <4>1. order'[p] = [status |-> "CANCELLED", expires |-> order[p].expires]
        BY <2>2, <3>1
      <4> QED
        BY <2>1, <3>1, <4>1 DEF Exists, Pending
    <3>2. CASE p # o
      BY <2>2, <3>2 DEF Exists
    <3> QED
      BY <3>1, <3>2
  <2>6. cancel'[c].pc = "done"
    BY <1>1, <1>7 DEF CancelCommit, CancelEnd, BookingTypeOK
  <2>7. CancelsConsistent' /\ SweepsConsistent'
    BY <1>1, <1>2, <1>3, <1>4, <2>1, <2>2, <2>3, <2>5, <2>6, LocksAfterEnd DEF BookingInv
  <2>8. HoldsConsistent' /\ RepliesMatchRequests'
    BY <1>1, <1>2, <2>5, HoldsUntouched DEF BookingInv
  <2> QED
    BY <1>1, <2>4, <2>7, <2>8 DEF BookingInv, RowsInv
<1>8. CASE CancelAbort(c)
  <2>1. seat' = seat /\ order' = order /\ lock' = Unlocked(c)
    BY <1>8 DEF CancelAbort
  <2>2. cancel'[c].pc = "done"
    BY <1>1, <1>8 DEF CancelAbort, CancelEnd, BookingTypeOK
  <2>3. \A p \in Orders : Exists(p)' <=> Exists(p)
    BY <2>1 DEF Exists
  <2>4. CancelsConsistent' /\ SweepsConsistent'
    BY <1>1, <1>2, <1>3, <1>4, <2>1, <2>2, <2>3, LocksAfterEnd DEF BookingInv
  <2>5. RowsInv'
    BY <1>1, <1>2, <2>1, RowsUntouched
  <2>6. HoldsConsistent' /\ RepliesMatchRequests'
    BY <1>1, <1>2, <2>3, HoldsUntouched DEF BookingInv
  <2> QED
    BY <1>1, <2>4, <2>5, <2>6 DEF BookingInv, RowsInv
<1> QED
  BY <1>5, <1>6, <1>7, <1>8 DEF CancelStep

LEMMA SweepInv ==
    ASSUME BookingInv, NEW w \in Workers, SweepStep(w)
    PROVE  BookingInv'
<1>1. BookingTypeOK /\ BookingTypeOK' /\ RowsInv
  BY SweepStepType, InvGivesRows DEF BookingInv
<1>2. hold' = hold /\ clock' = clock /\ clock' >= clock /\ cancel' = cancel
  BY <1>1 DEF SweepStep, SweepStart, SweepNothing, SweepLock, SweepCommit, SweepAbort,
              BookingTypeOK
<1>3. \A v \in Workers : v # w => sweep'[v] = sweep[v]
  BY <1>1 DEF SweepStep, SweepStart, SweepNothing, SweepLock, SweepCommit, SweepAbort,
              SweepIdle, BookingTypeOK
<1>4. w \in Actors /\ w # Nobody /\ w \notin Cancels
  BY IdsAssumption DEF Actors
<1>5. \A v \in Workers : v # w =>
        /\ sweep'[v].now <= clock
        /\ \A p \in sweep'[v].batch : /\ p \in Orders /\ lock[p] = v
                                      /\ lock[p] # Nobody /\ lock[p] # w
                                      /\ Pending(p)
                                      /\ order[p].expires <= sweep'[v].now
  BY <1>1, <1>3, IdsAssumption DEF BookingInv, SweepsConsistent, BookingTypeOK, SweepRun
<1>6. CASE SweepStart(w) \/ SweepNothing(w)
  <2>1. seat' = seat /\ order' = order /\ lock' = lock
    BY <1>6 DEF SweepStart, SweepNothing
  <2>2. sweep'[w].now <= clock /\ sweep'[w].batch = {}
    BY <1>1, <1>6 DEF SweepStart, SweepNothing, SweepIdle, BookingTypeOK
  <2>3. CancelsConsistent'
    BY <1>2, <2>1 DEF BookingInv, CancelsConsistent, Found, OwnerOf, Exists
  <2>4. SweepsConsistent'
    BY <1>2, <1>5, <2>1, <2>2 DEF SweepsConsistent, Pending
  <2>5. RowsInv'
    BY <1>1, <1>2, <2>1, RowsUntouched
  <2>6. HoldsConsistent' /\ RepliesMatchRequests'
    BY <1>1, <1>2, <2>1, HoldsUntouched DEF BookingInv, Exists
  <2> QED
    BY <1>1, <2>3, <2>4, <2>5, <2>6 DEF BookingInv, RowsInv
<1>7. CASE SweepLock(w)
  <2>1. seat' = seat /\ order' = order
    BY <1>7 DEF SweepLock
  <2>2. PICK b \in Batches(sweep[w].now) :
            /\ lock' = [o \in Orders |-> IF o \in b THEN w ELSE lock[o]]
            /\ sweep' = [sweep EXCEPT ![w] = [pc |-> "locked",
                                         now |-> sweep[w].now, batch |-> b]]
    BY <1>7 DEF SweepLock
  <2>3. sweep'[w].batch = b /\ sweep'[w].now = sweep[w].now
    BY <1>1, <2>2 DEF BookingTypeOK
  <2>4. \A p \in b : /\ p \in Orders /\ lock[p] = Nobody /\ Pending(p)
                     /\ order[p].expires <= sweep[w].now
    BY DEF Batches, Due
  <2>5. sweep[w].now <= clock
    BY DEF BookingInv, SweepsConsistent
  <2>6. \A p \in Orders : lock[p] # Nobody => lock'[p] = lock[p]
    BY <2>2, <2>4
  <2>7. \A p \in b : lock'[p] = w
    BY <2>2, <2>4
  <2>8. CancelsConsistent'
    <3> SUFFICES ASSUME NEW c \in Cancels
                 PROVE  /\ cancel'[c].pc \in {"started", "locked"} => cancel'[c].order \in Orders
                        /\ cancel'[c].pc = "locked" => lock'[cancel'[c].order] = c /\ Found(c)'
      BY DEF CancelsConsistent
    <3>1. /\ cancel[c].pc \in {"started", "locked"} => cancel[c].order \in Orders
          /\ cancel[c].pc = "locked" => lock[cancel[c].order] = c /\ Found(c)
      BY DEF BookingInv, CancelsConsistent
    <3>2. c # Nobody
      BY IdsAssumption
    <3> QED
      BY <1>2, <2>1, <2>6, <3>1, <3>2 DEF Found, OwnerOf, Exists
  <2>9. SweepsConsistent'
    <3> SUFFICES ASSUME NEW v \in Workers
                 PROVE  /\ sweep'[v].now <= clock'
                        /\ \A p \in sweep'[v].batch :
                              /\ lock'[p] = v
                              /\ Pending(p)'
                              /\ order'[p].expires <= sweep'[v].now
      BY DEF SweepsConsistent
    <3>1. CASE v = w
      BY <1>2, <2>1, <2>3, <2>4, <2>5, <2>7, <3>1 DEF Pending
    <3>2. CASE v # w
      BY <1>2, <1>5, <2>1, <2>6, <3>2 DEF Pending
    <3> QED
      BY <3>1, <3>2
  <2>10. RowsInv'
    BY <1>1, <1>2, <2>1, RowsUntouched
  <2>11. HoldsConsistent' /\ RepliesMatchRequests'
    BY <1>1, <1>2, <2>1, HoldsUntouched DEF BookingInv, Exists
  <2> QED
    BY <1>1, <2>8, <2>9, <2>10, <2>11 DEF BookingInv, RowsInv
<1>8. ASSUME SweepCommit(w) \/ SweepAbort(w)
      PROVE  /\ lock' = Unlocked(w)
             /\ sweep'[w].batch = {} /\ sweep'[w].now = 0
             /\ \A c \in Cancels : c # w
  BY <1>1, <1>4, <1>8 DEF SweepCommit, SweepAbort, SweepIdle, BookingTypeOK
<1>9. CASE SweepCommit(w)
  <2> DEFINE b == sweep[w].batch
  <2>1. b \in SUBSET Orders /\ \A o \in b : lock[o] = w /\ Pending(o)
    BY <1>1 DEF BookingInv, SweepsConsistent, BookingTypeOK, SweepRun
  <2>2. \A o \in Orders : order'[o] = IF o \in b
            THEN [status |-> "EXPIRED", expires |-> order[o].expires] ELSE order[o]
    BY <1>9 DEF SweepCommit
  <2>3. seat' = Released(b)
    BY <1>9 DEF SweepCommit
  <2>4. RowsInv'
    BY <1>1, <1>2, <2>1, <2>2, <2>3, RowsAfterEnd
  <2>5. \A o \in Orders : Exists(o)' <=> Exists(o)
    <3> SUFFICES ASSUME NEW o \in Orders PROVE Exists(o)' <=> Exists(o)
      OBVIOUS
    <3>1. CASE o \in b
      <4>1. order'[o] = [status |-> "EXPIRED", expires |-> order[o].expires]
        BY <2>2, <3>1
      <4> QED
        BY <2>1, <3>1, <4>1 DEF Exists, Pending
    <3>2. CASE o \notin b
      BY <2>2, <3>2 DEF Exists
    <3> QED
      BY <3>1, <3>2
  <2>6. \A o \in Orders : lock[o] # w => order'[o] = order[o]
    BY <2>1, <2>2
  <2>7. CancelsConsistent' /\ SweepsConsistent'
    BY <1>1, <1>2, <1>3, <1>4, <1>8, <1>9, <2>5, <2>6, LocksAfterEnd DEF BookingInv
  <2>8. HoldsConsistent' /\ RepliesMatchRequests'
    BY <1>1, <1>2, <2>5, HoldsUntouched DEF BookingInv
  <2> QED
    BY <1>1, <2>4, <2>7, <2>8 DEF BookingInv, RowsInv
<1>10. CASE SweepAbort(w)
  <2>1. seat' = seat /\ order' = order
    BY <1>10 DEF SweepAbort
  <2>2. \A o \in Orders : Exists(o)' <=> Exists(o)
    BY <2>1 DEF Exists
  <2>3. CancelsConsistent' /\ SweepsConsistent'
    BY <1>1, <1>2, <1>3, <1>4, <1>8, <1>10, <2>1, <2>2, LocksAfterEnd DEF BookingInv
  <2>4. RowsInv'
    BY <1>1, <1>2, <2>1, RowsUntouched
  <2>5. HoldsConsistent' /\ RepliesMatchRequests'
    BY <1>1, <1>2, <2>2, HoldsUntouched DEF BookingInv
  <2> QED
    BY <1>1, <2>3, <2>4, <2>5 DEF BookingInv, RowsInv
<1> QED
  BY <1>6, <1>7, <1>9, <1>10 DEF SweepStep

LEMMA TickInv ==
    ASSUME BookingInv, Tick
    PROVE  BookingInv'
<1>1. BookingTypeOK'
  BY BoundsAssumption DEF Tick, BookingInv, BookingTypeOK
<1>2. clock' >= clock /\ UNCHANGED <<seat, order, lock, hold, cancel, sweep>>
  BY DEF Tick, BookingInv, BookingTypeOK
<1>3. RowsInv'
  BY <1>1, <1>2, InvGivesRows, RowsUntouched DEF BookingInv
<1>4. CancelsConsistent' /\ SweepsConsistent'
  BY <1>1, <1>2, OthersUntouched DEF BookingInv
<1>5. HoldsConsistent' /\ RepliesMatchRequests'
  BY <1>1, <1>2, HoldsUntouched DEF BookingInv, Exists
<1> QED
  BY <1>1, <1>3, <1>4, <1>5 DEF BookingInv, RowsInv

LEMMA InitInv == BookingInit => BookingInv
<1> SUFFICES ASSUME BookingInit PROVE BookingInv
  OBVIOUS
<1>1. BookingTypeOK
  BY InputsAssumption, BoundsAssumption, RowTypes
  DEF BookingInit, BookingTypeOK, OrderStatus, HoldCall, CancelCall, SweepRun
<1>2. \A o \in Orders : ~Exists(o) /\ ~Pending(o) /\ hold[o].reply \notin Orders
  BY IdsAssumption DEF BookingInit, Exists, Pending
<1>3. HoldsConsistent /\ CancelsConsistent /\ SweepsConsistent
  BY <1>2 DEF BookingInit, HoldsConsistent, CancelsConsistent, SweepsConsistent
<1>4. HeldSeatsBacked
  BY DEF BookingInit, HeldSeatsBacked, FreeSeat
<1> QED
  BY <1>1, <1>2, <1>3, <1>4
  DEF BookingInv, LiveHoldsComplete, Live, OneOrderPerKey, RepliesMatchRequests

LEMMA NextInv == BookingInv /\ [BookingNext]_bookingVars => BookingInv'
<1> SUFFICES ASSUME BookingInv, [BookingNext]_bookingVars
             PROVE  BookingInv'
  OBVIOUS
<1>1. ASSUME NEW o \in Orders, HoldStep(o)
      PROVE  BookingInv'
  BY <1>1, HoldStartInv, HoldReplayInv, HoldRefusedInv, HoldCommitInv DEF HoldStep
<1>2. CASE UNCHANGED bookingVars
  <2>1. /\ clock' = clock /\ seat' = seat /\ order' = order /\ lock' = lock
        /\ hold' = hold /\ cancel' = cancel /\ sweep' = sweep
    BY <1>2 DEF bookingVars
  <2>2. BookingTypeOK'
    BY <2>1 DEF BookingInv, BookingTypeOK
  <2>3. clock' >= clock
    BY <2>1 DEF BookingInv, BookingTypeOK
  <2>4. RowsInv'
    BY <2>1, <2>2, <2>3, InvGivesRows, RowsUntouched DEF BookingInv
  <2>5. CancelsConsistent' /\ SweepsConsistent'
    BY <2>1, <2>2, <2>3, OthersUntouched DEF BookingInv
  <2>6. HoldsConsistent' /\ RepliesMatchRequests'
    BY <2>1, <2>2, <2>3, HoldsUntouched DEF BookingInv, Exists
  <2> QED
    BY <2>2, <2>4, <2>5, <2>6 DEF BookingInv, RowsInv
<1> QED
  BY <1>1, <1>2, TickInv, CancelInv, SweepInv DEF BookingNext

----------------------------------------------------------------------------
(* The theorems.                                                           *)

\* The inductive invariant holds in every reachable state.
THEOREM BookingInvariant == BookingSpec => []BookingInv
  BY InitInv, NextInv, PTL DEF BookingSpec

\* A held seat always belongs to an order that waits for payment, asked for
\* the seat and has the same deadline (CreateHold, CancelOrder, expiry).
THEOREM HeldSeatsAlwaysBacked == BookingSpec => []HeldSeatsBacked
<1>1. BookingInv => HeldSeatsBacked
  BY DEF BookingInv
<1> QED
  BY <1>1, BookingInvariant, PTL

\* A pending order before its deadline holds all its seats: CreateHold's
\* takeover of expired holds never takes a seat of a live order.
THEOREM LiveHoldsAlwaysComplete == BookingSpec => []LiveHoldsComplete
<1>1. BookingInv => LiveHoldsComplete
  BY DEF BookingInv
<1> QED
  BY <1>1, BookingInvariant, PTL

\* However retries of CreateHold interleave, a key names at most one order.
THEOREM OneOrderPerKeyAlways == BookingSpec => []OneOrderPerKey
<1>1. BookingInv => OneOrderPerKey
  BY DEF BookingInv
<1> QED
  BY <1>1, BookingInvariant, PTL

\* Every successful answer of CreateHold is an order for what was asked.
THEOREM RepliesAlwaysMatch == BookingSpec => []RepliesMatchRequests
<1>1. BookingInv => RepliesMatchRequests
  BY DEF BookingInv
<1> QED
  BY <1>1, BookingInvariant, PTL

\* Each order of a sweep's batch is locked by the sweep and still pending, and
\* was due when the sweep began: nobody settles what a sweep has read.
THEOREM SweepsAlwaysConsistent == BookingSpec => []SweepsConsistent
<1>1. BookingInv => SweepsConsistent
  BY DEF BookingInv
<1> QED
  BY <1>1, BookingInvariant, PTL

\* What a step may do to a row of orders.
LEMMA OrderChangeLegal ==
    ASSUME BookingInv, BookingNext
    PROVE  LegalOrderChange
<1> SUFFICES ASSUME NEW o \in Orders, order'[o] # order[o]
             PROVE  \/ ~Exists(o) /\ order'[o].status = "PENDING_PAYMENT"
                    \/ /\ Pending(o) /\ order'[o].status = "EXPIRED"
                       /\ order[o].expires <= clock
                    \/ /\ Pending(o) /\ order'[o].status = "CANCELLED"
                       /\ \E c \in Cancels :
                             /\ cancel[c].order = o /\ cancel[c].pc = "locked"
                             /\ cancel[c].user = OwnerOf(o)
                             /\ cancel[c].now < order[o].expires
  BY DEF LegalOrderChange
<1>1. ASSUME NEW p \in Orders, HoldStep(p)
      PROVE  ~Exists(o) /\ order'[o].status = "PENDING_PAYMENT"
  <2>1. HoldCommit(p)
    BY <1>1 DEF HoldStep, HoldStart, HoldReplay, HoldRefused
  <2>2. o = p /\ order'[o].status = "PENDING_PAYMENT"
    BY <2>1 DEF HoldCommit, BookingInv, BookingTypeOK
  <2> QED
    BY <2>1, <2>2 DEF HoldCommit, BookingInv, HoldsConsistent
<1>2. ASSUME NEW c \in Cancels, CancelStep(c)
      PROVE  /\ Pending(o) /\ order'[o].status = "CANCELLED"
             /\ cancel[c].order = o /\ cancel[c].pc = "locked"
             /\ cancel[c].user = OwnerOf(o)
             /\ cancel[c].now < order[o].expires
  <2>1. CancelCommit(c)
    BY <1>2 DEF CancelStep, CancelStart, CancelLock, CancelAbort
  <2>2. cancel[c].order = o /\ order'[o].status = "CANCELLED" /\ cancel[c].pc = "locked"
    BY <2>1 DEF CancelCommit, BookingInv, BookingTypeOK
  <2>3. Pending(o) /\ order[o].expires > cancel[c].now /\ Found(c)
    BY <2>1, <2>2 DEF CancelCommit, Cancellable, BookingInv, CancelsConsistent
  <2>4. cancel[c].now < order[o].expires
    BY <2>3 DEF BookingInv, BookingTypeOK, CancelCall
  <2> QED
    BY <2>2, <2>3, <2>4 DEF Found
<1>3. ASSUME NEW w \in Workers, SweepStep(w)
      PROVE  Pending(o) /\ order'[o].status = "EXPIRED" /\ order[o].expires <= clock
  <2>1. SweepCommit(w)
    BY <1>3 DEF SweepStep, SweepStart, SweepNothing, SweepLock, SweepAbort
  <2>2. o \in sweep[w].batch /\ order'[o].status = "EXPIRED"
    BY <2>1 DEF SweepCommit
  <2>3. Pending(o) /\ order[o].expires <= sweep[w].now /\ sweep[w].now <= clock
    BY <2>2 DEF BookingInv, SweepsConsistent
  <2> QED
    BY <2>2, <2>3 DEF BookingInv, BookingTypeOK, SweepRun
<1>4. ~Tick
  BY DEF Tick
<1> QED
  BY <1>1, <1>2, <1>3, <1>4 DEF BookingNext

\* Orders are created pending, expire at or after their deadline and are
\* cancelled only by their owner's timely call; nothing else changes a row.
THEOREM OrderLifecycleHolds == BookingSpec => OrderLifecycle
<1>1. BookingInv /\ [BookingNext]_bookingVars => [LegalOrderChange]_bookingVars
  BY OrderChangeLegal
<1> QED
  BY <1>1, BookingInvariant, PTL DEF BookingSpec, OrderLifecycle
=============================================================================
