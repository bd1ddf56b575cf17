--------------------------- MODULE CheckoutProofs ---------------------------
(***************************************************************************)
(* Proofs about Checkout: the payment of held seats, composed with the     *)
(* holds, cancellations and sweeps whose proofs are in BookingProofs.      *)
(***************************************************************************)
EXTENDS Checkout, BookingProofs

----------------------------------------------------------------------------
(* The inductive invariant.                                                *)

\* A row that is not held names no order: selling and releasing clear it.
HoldersCleared == \A s \in Seats : seat[s].status # "HELD" => seat[s].holder = NoOrder

\* A payment belongs to an order that was placed.
PaymentsHaveOrders == \A o \in Orders : payment[o] # "NONE" => Exists(o)

\* CreatePaymentIntent calls and webhook requests in progress, and what the
\* provider has sent, speak of orders and events that there are; a request
\* remembers a time that has passed.
RequestsConsistent ==
    /\ \A c \in Intents : intent[c].pc # "idle" => intent[c].order \in Orders
    /\ \A d \in Deliveries : webhook[d].pc # "idle" =>
          /\ webhook[d].event \in Events
          /\ emitted[webhook[d].event] # NoEvent
          /\ webhook[d].now <= clock

CheckoutInv ==
    /\ CheckoutTypeOK
    /\ BookingInv
    /\ HoldersCleared
    /\ PaymentsHaveOrders
    /\ RequestsConsistent
    /\ PaidOrdersSettled
    /\ RefundsReleased
    /\ SoldSeatsTicketed

\* After a step that keeps held seats backed, an order that has ended holds no
\* seat.
LEMMA EndedOrdersHoldNothing ==
    ASSUME HeldSeatsBacked', HoldersCleared', NEW o \in Orders, ~Pending(o)'
    PROVE  \A s \in Seats : seat'[s].holder # o
  BY IdsAssumption DEF HeldSeatsBacked, HoldersCleared, Backed
----------------------------------------------------------------------------
(* Steps of Booking.                                                       *)

\* What CreateHold, CancelOrder and the expiry worker leave alone: the request
\* behind an order, and every seat that is sold.
LEMMA BookingFrame ==
    ASSUME BookingInv, BookingNext
    PROVE  /\ \A o \in Orders : Exists(o) => hold'[o] = hold[o]
           /\ \A s \in Seats : seat[s].status = "SOLD" <=> seat'[s].status = "SOLD"
           /\ \A s \in Seats : seat[s].status = "SOLD" => seat'[s] = seat[s]
           /\ HoldersCleared => HoldersCleared'
           /\ clock' >= clock
<1> DEFINE Frame == /\ \A o \in Orders : Exists(o) => hold'[o] = hold[o]
                    /\ clock' >= clock
           Rows == \A s \in Seats : \/ seat'[s] = seat[s]
                                    \/ seat[s].status # "SOLD" /\ seat'[s] = FreeSeat
                                    \/ /\ seat[s].status # "SOLD"
                                       /\ seat'[s].status = "HELD"
<1>1. BookingTypeOK /\ HoldsConsistent
  BY DEF BookingInv
<1>2. ASSUME Tick PROVE Frame /\ Rows
  BY <1>1, <1>2 DEF Tick, BookingTypeOK
<1>3. ASSUME NEW o \in Orders, HoldStep(o)
      PROVE  Frame /\ Rows
  <2>1. hold[o].pc # "done" /\ ~Exists(o) /\ clock' = clock
    BY <1>1, <1>3 DEF HoldStep, HoldStart, HoldReplay, HoldRefused, HoldCommit, HoldsConsistent
  <2>2. \A p \in Orders : p # o => hold'[p] = hold[p]
    BY <1>1, <1>3 DEF HoldStep, HoldStart, HoldReplay, HoldRefused, HoldCommit, HoldReply,
                      BookingTypeOK
  <2>3. Frame
    BY <1>1, <2>1, <2>2 DEF BookingTypeOK
  <2>4. CASE HoldCommit(o)
    <3>1. \A s \in hold[o].input.seats : SeatFree(s, hold[o].now)
      BY <2>4 DEF HoldCommit, Obtainable
    <3>2. \A s \in hold[o].input.seats : seat[s].status # "SOLD"
      BY <3>1 DEF SeatFree
    <3>3. \A s \in Seats : seat'[s] = IF s \in hold[o].input.seats
                             THEN HeldSeat(o, hold[o].now + HoldDuration) ELSE seat[s]
      BY <2>4 DEF HoldCommit
    <3>4. Rows
      BY <3>2, <3>3 DEF HeldSeat
    <3> QED
      BY <2>3, <3>4
  <2>5. CASE ~HoldCommit(o)
    BY <1>3, <2>3, <2>5 DEF HoldStep, HoldStart, HoldReplay, HoldRefused
  <2> QED
    BY <2>4, <2>5
<1>4. ASSUME NEW os, seat' = Released(os) PROVE Rows
  BY <1>4, ReleasedSeats
<1>5. ASSUME NEW c \in Cancels, CancelStep(c)
      PROVE  Frame /\ Rows
  BY <1>1, <1>4, <1>5 DEF CancelStep, CancelStart, CancelLock, CancelCommit, CancelAbort,
                          BookingTypeOK
<1>6. ASSUME NEW w \in Workers, SweepStep(w)
      PROVE  Frame /\ Rows
  BY <1>1, <1>4, <1>6 DEF SweepStep, SweepStart, SweepNothing, SweepLock, SweepCommit,
                          SweepAbort, BookingTypeOK
<1>7. Frame /\ Rows
  BY <1>2, <1>3, <1>5, <1>6 DEF BookingNext
<1>8. FreeSeat.status = "AVAILABLE" /\ FreeSeat.holder = NoOrder
  BY DEF FreeSeat
<1>9. HoldersCleared => HoldersCleared'
  BY <1>7, <1>8 DEF HoldersCleared
<1>10. \A s \in Seats : seat[s].status = "SOLD" <=> seat'[s].status = "SOLD"
  BY <1>7, <1>8
<1>11. \A s \in Seats : seat[s].status = "SOLD" => seat'[s] = seat[s]
  BY <1>7
<1>12. \A o \in Orders : Exists(o) => hold'[o] = hold[o]
  BY <1>7
<1>13. clock' >= clock
  BY <1>7
<1> QED
  BY <1>9, <1>10, <1>11, <1>12, <1>13

\* Booking alone never pays an order, and never changes one that has ended.
LEMMA BookingKeepsSettled ==
    ASSUME BookingInv, BookingNext, NEW o \in Orders
    PROVE  /\ Exists(o) => Exists(o)'
           /\ order[o].status = "PAID" <=> order'[o].status = "PAID"
           /\ Exists(o) /\ ~Pending(o) => order'[o] = order[o]
<1>1. \/ order'[o] = order[o]
      \/ ~Exists(o) /\ order'[o].status = "PENDING_PAYMENT"
      \/ Pending(o) /\ order'[o].status = "EXPIRED"
      \/ Pending(o) /\ order'[o].status = "CANCELLED"
  BY OrderChangeLegal DEF LegalOrderChange
<1> QED
  BY <1>1 DEF Exists, Pending

LEMMA BookingStepKeepsCheckout ==
    ASSUME CheckoutInv, BookingNext, UNCHANGED moneyVars
    PROVE  CheckoutInv'
<1>1. BookingInv /\ BookingInv' /\ BookingNext
  BY NextInv DEF CheckoutInv
<1>2. UNCHANGED <<payment, ticketed, outbox, recorded, intent, webhook, created, emitted>>
  BY DEF moneyVars
<1>3. CheckoutTypeOK'
  BY <1>1, <1>2 DEF CheckoutInv, CheckoutTypeOK, BookingInv
<1>4. HoldersCleared'
  BY <1>1, BookingFrame DEF CheckoutInv
<1>5. PaymentsHaveOrders'
  BY <1>1, <1>2, BookingKeepsSettled DEF CheckoutInv, PaymentsHaveOrders
<1>6. RequestsConsistent'
  <2>1. clock \in Nat /\ clock' \in Nat /\ clock' >= clock
    BY <1>1, BookingFrame, BoundsAssumption DEF BookingInv, BookingTypeOK
  <2>2. \A d \in Deliveries : webhook[d].now \in Nat
    BY BoundsAssumption DEF CheckoutInv, CheckoutTypeOK, WebhookCall
  <2> QED
    BY <1>2, <2>1, <2>2 DEF CheckoutInv, RequestsConsistent
<1>7. \A o \in Orders : order[o].status = "PAID" => ItemsOf(o)' = ItemsOf(o)
  BY <1>1, BookingFrame DEF ItemsOf, Exists
<1>8. PaidOrdersSettled'
  BY <1>1, <1>2, <1>7, BookingKeepsSettled DEF CheckoutInv, PaidOrdersSettled
<1>9. RefundsReleased'
  <2> SUFFICES ASSUME NEW o \in Orders, payment[o] = "REFUND_PENDING"
               PROVE  /\ order'[o].status \in {"EXPIRED", "CANCELLED"}
                      /\ \A s \in Seats : seat'[s].holder # o
    BY <1>2 DEF RefundsReleased
  <2>1. order[o].status \in {"EXPIRED", "CANCELLED"}
    BY DEF CheckoutInv, RefundsReleased
  <2>2. order'[o] = order[o] /\ ~Pending(o)'
    BY <1>1, <2>1, BookingKeepsSettled DEF Exists, Pending
  <2>3. HeldSeatsBacked'
    BY <1>1 DEF BookingInv
  <2> QED
    BY <1>4, <2>1, <2>2, <2>3, EndedOrdersHoldNothing
<1>10. SoldSeatsTicketed'
  <2> SUFFICES ASSUME NEW s \in Seats, seat'[s].status = "SOLD"
               PROVE  \E o \in Orders : order'[o].status = "PAID" /\ <<o, s>> \in ticketed
    BY <1>2 DEF SoldSeatsTicketed
  <2>1. seat[s].status = "SOLD"
    BY <1>1, BookingFrame
  <2> QED
    BY <1>1, <2>1, BookingKeepsSettled DEF CheckoutInv, SoldSeatsTicketed
<1> QED
  BY <1>1, <1>3, <1>4, <1>5, <1>6, <1>8, <1>9, <1>10 DEF CheckoutInv
----------------------------------------------------------------------------
(* Steps that leave orders, seats and tickets alone.                       *)

\* A payment row may be inserted, and may fail or expire; it does neither
\* succeed nor leave REFUND_PENDING.
QuietPayment ==
    \A o \in Orders : \/ payment'[o] = payment[o]
                      \/ /\ payment[o] \in {"NONE", "PENDING"}
                         /\ payment'[o] \in {"PENDING", "FAILED", "EXPIRED"}
                         /\ Exists(o)

LEMMA QuietStepInv ==
    ASSUME CheckoutInv, CheckoutTypeOK', RequestsConsistent', QuietPayment,
           UNCHANGED <<bookingVars, ticketed, outbox>>
    PROVE  CheckoutInv'
<1>1. UNCHANGED <<clock, seat, order, lock, hold, cancel, sweep, ticketed, outbox>>
  BY DEF bookingVars
<1>2. BookingInv'
  BY NextInv DEF CheckoutInv
<1>3. \A o \in Orders : /\ payment'[o] = "NONE" => payment[o] = "NONE"
                        /\ payment'[o] = "SUCCEEDED" <=> payment[o] = "SUCCEEDED"
                        /\ payment'[o] = "REFUND_PENDING" => payment[o] = "REFUND_PENDING"
  BY DEF QuietPayment
<1>4. HoldersCleared' /\ SoldSeatsTicketed'
  BY <1>1 DEF CheckoutInv, HoldersCleared, SoldSeatsTicketed
<1>5. PaymentsHaveOrders'
  BY <1>1 DEF CheckoutInv, PaymentsHaveOrders, QuietPayment, Exists
<1>6. PaidOrdersSettled'
  BY <1>1, <1>3 DEF CheckoutInv, PaidOrdersSettled, ItemsOf
<1>7. RefundsReleased'
  BY <1>1, <1>3 DEF CheckoutInv, RefundsReleased
<1> QED
  BY <1>2, <1>4, <1>5, <1>6, <1>7 DEF CheckoutInv

\* The types of the rows and calls, taken apart.
LEMMA CheckoutTypes ==
    ASSUME CheckoutTypeOK
    PROVE  /\ clock \in 0 .. MaxTime
           /\ payment \in [Orders -> PaymentStatus]
           /\ intent \in [Intents -> IntentCall]
           /\ webhook \in [Deliveries -> WebhookCall]
           /\ emitted \in [Events -> Event \cup {NoEvent}]
           /\ IdleIntent \in IntentCall
           /\ IdleWebhook \in WebhookCall
  BY BoundsAssumption DEF CheckoutTypeOK, BookingTypeOK, IdleIntent, IntentCall,
                          IdleWebhook, WebhookCall

LEMMA SameBookingType ==
    ASSUME CheckoutTypeOK, UNCHANGED bookingVars
    PROVE  BookingTypeOK'
<1>1. UNCHANGED <<clock, seat, order, lock, hold, cancel, sweep>>
  BY DEF bookingVars
<1> QED
  BY <1>1 DEF CheckoutTypeOK, BookingTypeOK

LEMMA IntentStepInv ==
    ASSUME CheckoutInv, NEW c \in Intents, IntentStep(c)
    PROVE  CheckoutInv'
<1>1. CheckoutTypeOK /\ RequestsConsistent
  BY DEF CheckoutInv
<1>2. UNCHANGED <<bookingVars, ticketed, outbox, recorded, webhook, emitted>>
  BY DEF IntentStep, IntentStart, IntentCreated, IntentSaved, IntentEnded
<1>3. clock' = clock
  BY <1>2 DEF bookingVars
<1>4. ASSUME NEW h \in IntentCall, h.pc # "idle" => h.order \in Orders,
             intent' = [intent EXCEPT ![c] = h],
             payment' \in [Orders -> PaymentStatus], created' \subseteq Orders,
             QuietPayment
      PROVE  CheckoutInv'
  <2>1. intent' \in [Intents -> IntentCall]
    BY <1>1, <1>4, CheckoutTypes
  <2>2. CheckoutTypeOK'
    BY <1>1, <1>2, <1>4, <2>1, SameBookingType DEF CheckoutTypeOK
  <2>3. intent'[c] = h /\ \A k \in Intents : k # c => intent'[k] = intent[k]
    BY <1>1, <1>4, CheckoutTypes
  <2>4. RequestsConsistent'
    BY <1>1, <1>2, <1>3, <1>4, <2>3 DEF RequestsConsistent
  <2> QED
    BY <1>2, <1>4, <2>2, <2>4, QuietStepInv
<1>5. IdleIntent.pc = "idle" /\ IdleIntent \in IntentCall
  BY <1>1, CheckoutTypes DEF IdleIntent
<1>6. payment' = payment => payment' \in [Orders -> PaymentStatus] /\ QuietPayment
  BY <1>1, CheckoutTypes DEF QuietPayment
<1>7. created' = created => created' \subseteq Orders
  BY <1>1 DEF CheckoutTypeOK
<1>8. CASE IntentStart(c)
  <2>1. PICK o \in Orders :
            intent' = [intent EXCEPT ![c] = [pc |-> "started", order |-> o, now |-> clock]]
    BY <1>8 DEF IntentStart
  <2>2. PICK h : h = [pc |-> "started", order |-> o, now |-> clock]
    OBVIOUS
  <2>3. h \in IntentCall /\ h.order \in Orders
    BY <1>1, <2>2, CheckoutTypes DEF IntentCall
  <2>4. payment' = payment /\ created' = created
    BY <1>8 DEF IntentStart
  <2> QED
    BY <1>4, <1>6, <1>7, <2>1, <2>2, <2>3, <2>4
<1>9. CASE IntentCreated(c)
  <2>1. intent[c].pc = "started" /\ intent[c].order \in Orders
    BY <1>1, <1>9 DEF IntentCreated, RequestsConsistent
  <2>2. PICK h : h = [pc |-> "created", order |-> intent[c].order, now |-> intent[c].now]
    OBVIOUS
  <2>3. h \in IntentCall /\ h.order \in Orders
    BY <1>1, <2>1, <2>2, CheckoutTypes DEF IntentCall
  <2>4. payment' = payment /\ intent' = [intent EXCEPT ![c] = h]
    BY <1>9, <2>2 DEF IntentCreated
  <2>5. created' \subseteq Orders
    BY <1>1, <1>9, <2>1 DEF IntentCreated, CheckoutTypeOK
  <2> QED
    BY <1>4, <1>6, <2>3, <2>4, <2>5
<1>10. CASE IntentSaved(c)
  <2> DEFINE o == intent[c].order
  <2>1. /\ o \in Orders /\ payment[o] = "NONE" /\ Exists(o)
        /\ payment' = [payment EXCEPT ![o] = "PENDING"]
        /\ intent' = [intent EXCEPT ![c] = IdleIntent]
        /\ created' = created
    BY <1>1, <1>10 DEF IntentSaved, RequestsConsistent, Pending, Exists
  <2>2. payment' \in [Orders -> PaymentStatus]
    BY <1>1, <2>1, CheckoutTypes DEF PaymentStatus
  <2>3. QuietPayment
    BY <1>1, <2>1, CheckoutTypes DEF QuietPayment
  <2> QED
    BY <1>4, <1>5, <1>7, <2>1, <2>2, <2>3
<1>11. CASE IntentEnded(c)
  <2>1. payment' = payment /\ created' = created /\ intent' = [intent EXCEPT ![c] = IdleIntent]
    BY <1>11 DEF IntentEnded
  <2> QED
    BY <1>4, <1>5, <1>6, <1>7, <2>1
<1> QED
  BY <1>8, <1>9, <1>10, <1>11 DEF IntentStep

LEMMA EmitInv ==
    ASSUME CheckoutInv, NEW e \in Events, Emit(e)
    PROVE  CheckoutInv'
<1>1. CheckoutTypeOK /\ RequestsConsistent
  BY DEF CheckoutInv
<1>2. UNCHANGED <<bookingVars, payment, ticketed, outbox, recorded, intent, webhook, created>>
  BY DEF Emit
<1>3. PICK o \in created, kind \in {"SUCCEEDED", "FAILED", "EXPIRED"} :
          emitted' = [emitted EXCEPT ![e] = [of |-> o, kind |-> kind]]
  BY DEF Emit
<1>4. emitted[e] = NoEvent
  BY DEF Emit
<1>5. emitted' \in [Events -> Event \cup {NoEvent}]
  BY <1>1, <1>3, CheckoutTypes DEF Event, CheckoutTypeOK
<1>6. CheckoutTypeOK'
  BY <1>1, <1>2, <1>5, SameBookingType DEF CheckoutTypeOK
<1>7. \A f \in Events : f # e => emitted'[f] = emitted[f]
  BY <1>1, <1>3, CheckoutTypes
<1>8. clock' = clock
  BY <1>2 DEF bookingVars
<1>9. RequestsConsistent'
  BY <1>1, <1>2, <1>4, <1>7, <1>8 DEF RequestsConsistent
<1>10. QuietPayment
  BY <1>2 DEF QuietPayment
<1> QED
  BY <1>2, <1>6, <1>9, <1>10, QuietStepInv

\* The end of a webhook request.
LEMMA RequestEnds ==
    ASSUME CheckoutInv, NEW d \in Deliveries, WebhookDone(d),
           UNCHANGED <<clock, intent, emitted>>
    PROVE  webhook' \in [Deliveries -> WebhookCall] /\ RequestsConsistent'
<1>1. CheckoutTypeOK /\ RequestsConsistent
  BY DEF CheckoutInv
<1>2. webhook' = [webhook EXCEPT ![d] = IdleWebhook]
  BY DEF WebhookDone
<1>3. webhook'[d].pc = "idle" /\ \A f \in Deliveries : f # d => webhook'[f] = webhook[f]
  BY <1>1, <1>2, CheckoutTypes DEF IdleWebhook
<1>4. RequestsConsistent'
  BY <1>1, <1>3 DEF RequestsConsistent
<1> QED
  BY <1>1, <1>2, <1>4, CheckoutTypes

\* What is known of an event that is being recorded.
LEMMA RecordingFacts ==
    ASSUME CheckoutInv, NEW d \in Deliveries, NEW o \in Orders, Recording(d, o)
    PROVE  /\ recorded' \subseteq Events
           /\ webhook[d].event \in recorded' \ recorded
           /\ emitted[webhook[d].event] \in Event
           /\ emitted[webhook[d].event].of = o
           /\ webhook[d].now \in 0 .. MaxTime /\ webhook[d].now <= clock
           /\ webhook' \in [Deliveries -> WebhookCall]
           /\ RequestsConsistent'
           /\ UNCHANGED <<clock, lock, hold, cancel, sweep, intent, created, emitted>>
<1>1. CheckoutTypeOK /\ RequestsConsistent
  BY DEF CheckoutInv
<1>2. /\ webhook[d].pc = "started" /\ webhook[d].event \notin recorded
      /\ o = emitted[webhook[d].event].of
      /\ recorded' = recorded \cup {webhook[d].event}
      /\ WebhookDone(d)
      /\ UNCHANGED <<clock, lock, hold, cancel, sweep, intent, created, emitted>>
  BY DEF Recording
<1>3. webhook' \in [Deliveries -> WebhookCall] /\ RequestsConsistent'
  BY <1>2, RequestEnds
<1>4. /\ webhook[d].event \in Events /\ emitted[webhook[d].event] # NoEvent
      /\ webhook[d].now <= clock
  BY <1>1, <1>2 DEF RequestsConsistent
<1>5. emitted[webhook[d].event] \in Event
  BY <1>1, <1>4, CheckoutTypes
<1>6. webhook[d].now \in 0 .. MaxTime
  BY <1>1, CheckoutTypes DEF WebhookCall
<1>7. recorded' \subseteq Events
  BY <1>1, <1>2, <1>4 DEF CheckoutTypeOK
<1> QED
  BY <1>2, <1>3, <1>4, <1>5, <1>6, <1>7

\* Requests that start, are duplicates, fail, or report what changes no order.
LEMMA QuietWebhookInv ==
    ASSUME CheckoutInv, NEW d \in Deliveries,
           \/ WebhookStart(d) \/ WebhookDuplicate(d) \/ WebhookAborted(d)
           \/ \E o \in Orders : \/ WebhookUnknown(d, o) \/ WebhookRepeated(d, o)
                                \/ WebhookFailure(d, o)
    PROVE  CheckoutInv'
<1>1. CheckoutTypeOK /\ RequestsConsistent
  BY DEF CheckoutInv
<1>2. CASE WebhookStart(d)
  <2>1. UNCHANGED <<bookingVars, payment, ticketed, outbox, recorded, intent, created, emitted>>
    BY <1>2 DEF WebhookStart
  <2>2. PICK e \in Events :
            /\ emitted[e] # NoEvent
            /\ webhook' = [webhook EXCEPT ![d] = [pc |-> "started", event |-> e, now |-> clock]]
    BY <1>2 DEF WebhookStart
  <2>3. PICK h : h = [pc |-> "started", event |-> e, now |-> clock]
    OBVIOUS
  <2>4. h \in WebhookCall /\ h.event = e
    BY <1>1, <2>3, CheckoutTypes DEF WebhookCall
  <2>5. webhook' \in [Deliveries -> WebhookCall]
    BY <1>1, <2>2, <2>3, <2>4, CheckoutTypes
  <2>6. CheckoutTypeOK'
    BY <1>1, <2>1, <2>5, SameBookingType DEF CheckoutTypeOK
  <2>7. webhook'[d] = h /\ \A f \in Deliveries : f # d => webhook'[f] = webhook[f]
    BY <1>1, <2>2, <2>3, CheckoutTypes
  <2>8. clock' = clock /\ h.now = clock /\ clock \in Nat
    BY <1>1, <2>1, <2>3, CheckoutTypes, BoundsAssumption DEF bookingVars
  <2>9. RequestsConsistent'
    BY <1>1, <2>1, <2>2, <2>4, <2>7, <2>8 DEF RequestsConsistent
  <2>10. QuietPayment
    BY <2>1 DEF QuietPayment
  <2> QED
    BY <2>1, <2>6, <2>9, <2>10, QuietStepInv
<1>3. CASE WebhookDuplicate(d) \/ WebhookAborted(d)
  <2>1. /\ UNCHANGED <<bookingVars, payment, ticketed, outbox, recorded, intent, created, emitted>>
        /\ WebhookDone(d)
    BY <1>3 DEF WebhookDuplicate, WebhookAborted
  <2>2. clock' = clock
    BY <2>1 DEF bookingVars
  <2>3. webhook' \in [Deliveries -> WebhookCall] /\ RequestsConsistent'
    BY <2>1, <2>2, RequestEnds
  <2>4. CheckoutTypeOK'
    BY <1>1, <2>1, <2>3, SameBookingType DEF CheckoutTypeOK
  <2>5. QuietPayment
    BY <2>1 DEF QuietPayment
  <2> QED
    BY <2>1, <2>3, <2>4, <2>5, QuietStepInv
<1>4. ASSUME NEW o \in Orders, Recording(d, o), QuietPayment,
             payment' \in [Orders -> PaymentStatus],
             UNCHANGED <<seat, order, ticketed, outbox>>
      PROVE  CheckoutInv'
  <2>1. /\ UNCHANGED <<clock, lock, hold, cancel, sweep, intent, created, emitted>>
        /\ recorded' \subseteq Events /\ RequestsConsistent'
        /\ webhook' \in [Deliveries -> WebhookCall]
    BY <1>4, RecordingFacts
  <2>2. UNCHANGED bookingVars
    BY <1>4, <2>1 DEF bookingVars
  <2>3. CheckoutTypeOK'
    BY <1>1, <1>4, <2>1, <2>2, SameBookingType DEF CheckoutTypeOK
  <2> QED
    BY <1>4, <2>1, <2>2, <2>3, QuietStepInv
<1>5. ASSUME NEW o \in Orders, WebhookUnknown(d, o) \/ WebhookRepeated(d, o)
      PROVE  CheckoutInv'
  <2>1. Recording(d, o) /\ UNCHANGED <<seat, order, payment, ticketed, outbox>>
    BY <1>5 DEF WebhookUnknown, WebhookRepeated, Reported
  <2>2. QuietPayment /\ payment' \in [Orders -> PaymentStatus]
    BY <1>1, <2>1, CheckoutTypes DEF QuietPayment
  <2> QED
    BY <1>4, <2>1, <2>2
<1>6. ASSUME NEW o \in Orders, WebhookFailure(d, o)
      PROVE  CheckoutInv'
  <2> DEFINE kind == emitted[webhook[d].event].kind
  <2>1. /\ Recording(d, o) /\ ~Succeeded(d) /\ payment[o] # "NONE"
        /\ UNCHANGED <<seat, order, ticketed, outbox>>
        /\ payment' = IF payment[o] = "PENDING"
                      THEN [payment EXCEPT ![o] = kind] ELSE payment
    BY <1>6 DEF WebhookFailure, Reported
  <2>2. kind \in {"FAILED", "EXPIRED"}
    BY <2>1, RecordingFacts DEF Event, Succeeded
  <2>3. Exists(o)
    BY <2>1 DEF CheckoutInv, PaymentsHaveOrders
  <2>4. payment' \in [Orders -> PaymentStatus]
    BY <1>1, <2>1, <2>2, CheckoutTypes DEF PaymentStatus
  <2>5. QuietPayment
    BY <1>1, <2>1, <2>2, <2>3, CheckoutTypes DEF QuietPayment
  <2> QED
    BY <1>4, <2>1, <2>4, <2>5
<1> QED
  BY <1>2, <1>3, <1>5, <1>6
----------------------------------------------------------------------------
(* A success that is late, and one that sells.                             *)

\* A webhook changes an order nobody has locked, so what the open
\* cancellations and sweeps have read stays true.
LEMMA OthersWithoutLock ==
    ASSUME BookingInv, BookingTypeOK', NEW o \in Orders, lock[o] = Nobody,
           \A p \in Orders : p # o => order'[p] = order[p],
           Exists(o) => Exists(o)',
           UNCHANGED <<clock, lock, hold, cancel, sweep>>
    PROVE  CancelsConsistent' /\ SweepsConsistent'
<1>1. \A p \in Orders : Exists(p) => Exists(p)'
  BY DEF Exists
<1>2. CancelsConsistent'
  BY <1>1 DEF BookingInv, CancelsConsistent, Found, OwnerOf
<1>3. ASSUME NEW w \in Workers, NEW p \in sweep[w].batch
      PROVE  p \in Orders /\ lock[p] = w /\ order'[p] = order[p]
  BY IdsAssumption DEF BookingInv, BookingTypeOK, SweepRun, SweepsConsistent
<1>4. SweepsConsistent'
  BY <1>3 DEF BookingInv, SweepsConsistent, Pending
<1> QED
  BY <1>2, <1>4

LEMMA LateInv ==
    ASSUME CheckoutInv, NEW d \in Deliveries, NEW o \in Orders, WebhookLate(d, o)
    PROVE  CheckoutInv'
<1>1. CheckoutTypeOK /\ BookingTypeOK /\ BookingInv /\ RowsInv
  BY InvGivesRows DEF CheckoutInv, BookingInv
<1>2. /\ Recording(d, o) /\ payment[o] # "NONE" /\ lock[o] = Nobody /\ ~Settled(o)
      /\ order' = LateOrder(o) /\ seat' = LateSeats(o)
      /\ payment' = [payment EXCEPT ![o] = "REFUND_PENDING"]
      /\ UNCHANGED <<ticketed, outbox>>
  BY DEF WebhookLate, Reported
<1>3. /\ UNCHANGED <<clock, lock, hold, cancel, sweep, intent, created, emitted>>
      /\ recorded' \subseteq Events /\ RequestsConsistent'
      /\ webhook' \in [Deliveries -> WebhookCall]
  BY <1>2, RecordingFacts
<1>4. Exists(o) /\ order[o].status # "PAID"
  BY <1>2 DEF CheckoutInv, PaymentsHaveOrders, Settled
<1>5. \A p \in Orders : p # o => order'[p] = order[p]
  BY <1>1, <1>2 DEF LateOrder, BookingTypeOK
<1>6. order'[o] = IF Pending(o) THEN [status |-> "EXPIRED", expires |-> order[o].expires]
                  ELSE order[o]
  BY <1>1, <1>2 DEF LateOrder, BookingTypeOK
<1>7. order'[o].status \in {"EXPIRED", "CANCELLED"} /\ ~Pending(o)' /\ Exists(o)'
  BY <1>1, <1>4, <1>6 DEF Pending, Exists, BookingTypeOK, OrderStatus
<1>8. BookingTypeOK'
  <2>1. order' \in [Orders -> [status : OrderStatus, expires : Nat]]
    BY <1>1, <1>2 DEF LateOrder, BookingTypeOK, OrderStatus
  <2>2. seat' \in [Seats -> Seat]
    BY <1>1, <1>2, TableTypes DEF LateSeats, BookingTypeOK
  <2> QED
    BY <1>1, <1>3, <2>1, <2>2 DEF BookingTypeOK
<1>9. CheckoutTypeOK'
  <2>1. payment' \in [Orders -> PaymentStatus]
    BY <1>1, <1>2, CheckoutTypes DEF PaymentStatus
  <2> QED
    BY <1>1, <1>2, <1>3, <1>8, <2>1 DEF CheckoutTypeOK
<1>10. clock' >= clock
  BY <1>1, <1>3 DEF BookingTypeOK
<1>11. RowsInv'
  <2>1. CASE Pending(o)
    <3>1. \A p \in Orders : order'[p] = IF p \in {o}
              THEN [status |-> "EXPIRED", expires |-> order[p].expires] ELSE order[p]
      BY <1>5, <1>6, <2>1
    <3>2. seat' = Released({o})
      BY <1>2, <2>1 DEF LateSeats
    <3> QED
      BY <1>1, <1>3, <1>8, <2>1, <3>1, <3>2, RowsAfterEnd
  <2>2. CASE ~Pending(o)
    <3>1. order' = order /\ seat' = seat
      BY <1>2, <2>2 DEF LateOrder, LateSeats
    <3> QED
      BY <1>1, <1>3, <1>8, <1>10, <3>1, RowsUntouched
  <2> QED
    BY <2>1, <2>2
<1>12. \A p \in Orders : Exists(p)' <=> Exists(p)
  BY <1>4, <1>5, <1>7 DEF Exists
<1>13. BookingInv'
  <2>1. HoldsConsistent' /\ RepliesMatchRequests'
    BY <1>1, <1>3, <1>8, <1>10, <1>12, HoldsUntouched DEF BookingInv
  <2>2. CancelsConsistent' /\ SweepsConsistent'
    BY <1>1, <1>2, <1>3, <1>5, <1>7, <1>8, OthersWithoutLock
  <2> QED
    BY <1>8, <1>11, <2>1, <2>2 DEF BookingInv, RowsInv
<1>14. \A s \in Seats : \/ seat'[s] = seat[s]
                        \/ seat'[s] = FreeSeat
  BY <1>2, ReleasedSeats DEF LateSeats
<1>15. HoldersCleared'
  BY <1>14 DEF CheckoutInv, HoldersCleared, FreeSeat
<1>16. PaymentsHaveOrders'
  BY <1>1, <1>2, <1>4, <1>12, CheckoutTypes DEF CheckoutInv, PaymentsHaveOrders
<1>17. /\ payment[o] # "SUCCEEDED" /\ payment'[o] = "REFUND_PENDING"
       /\ \A p \in Orders : p # o => payment'[p] = payment[p]
  BY <1>1, <1>2, CheckoutTypes DEF Settled
<1>18. PaidOrdersSettled'
  <2>1. order'[o].status # "PAID"
    BY <1>7
  <2> QED
    BY <1>2, <1>3, <1>4, <1>5, <1>17, <2>1 DEF CheckoutInv, PaidOrdersSettled, ItemsOf
<1>19. RefundsReleased'
  <2> SUFFICES ASSUME NEW p \in Orders, payment'[p] = "REFUND_PENDING"
               PROVE  /\ order'[p].status \in {"EXPIRED", "CANCELLED"}
                      /\ \A s \in Seats : seat'[s].holder # p
    BY DEF RefundsReleased
  <2>1. order'[p].status \in {"EXPIRED", "CANCELLED"}
    BY <1>5, <1>7, <1>17 DEF CheckoutInv, RefundsReleased
  <2>2. ~Pending(p)' /\ HeldSeatsBacked'
    BY <1>13, <2>1 DEF Pending, BookingInv
  <2> QED
    BY <1>15, <2>1, <2>2, EndedOrdersHoldNothing
<1>20. SoldSeatsTicketed'
  <2> SUFFICES ASSUME NEW s \in Seats, seat'[s].status = "SOLD"
               PROVE  \E p \in Orders : order'[p].status = "PAID" /\ <<p, s>> \in ticketed'
    BY DEF SoldSeatsTicketed
  <2>1. seat[s].status = "SOLD"
    BY <1>14 DEF FreeSeat
  <2> QED
    BY <1>2, <1>4, <1>5, <2>1 DEF CheckoutInv, SoldSeatsTicketed
<1> QED
  BY <1>3, <1>9, <1>13, <1>15, <1>16, <1>18, <1>19, <1>20 DEF CheckoutInv

\* The order that is paid gives up its seats as held and gets them as sold; no
\* other order loses one.
LEMMA RowsAfterSale ==
    ASSUME RowsInv, NEW o \in Orders, Pending(o),
           order'[o].status = "PAID",
           \A p \in Orders : p # o => order'[p] = order[p],
           seat' = Sold(o), UNCHANGED <<clock, hold>>
    PROVE  RowsInv'
<1>1. \A p \in Orders : /\ Exists(p)' <=> Exists(p)
                        /\ Pending(p)' <=> Pending(p) /\ p # o
                        /\ Pending(p) => Exists(p)
  BY DEF Exists, Pending
<1>2. \A s \in Seats : IF seat[s].status = "HELD" /\ seat[s].holder = o
                       THEN seat'[s].status = "SOLD" ELSE seat'[s] = seat[s]
  BY DEF Sold
<1>3. HeldSeatsBacked'
  <2> SUFFICES ASSUME NEW s \in Seats, seat'[s].status = "HELD"
               PROVE  Backed(s)'
    BY DEF HeldSeatsBacked
  <2>1. seat'[s] = seat[s] /\ seat[s].holder # o
    BY <1>2
  <2>2. Backed(s)
    BY <2>1 DEF RowsInv, HeldSeatsBacked
  <2> QED
    BY <1>1, <2>1, <2>2 DEF Backed, ItemsOf
<1>4. ItemsAreSeats'
  BY <1>1 DEF RowsInv, ItemsAreSeats, ItemsOf
<1>5. LiveHoldsComplete'
  <2> SUFFICES ASSUME NEW p \in Orders, Live(p)', NEW s \in ItemsOf(p)'
               PROVE  seat'[s].status = "HELD" /\ seat'[s].holder = p
    BY DEF LiveHoldsComplete
  <2>1. Live(p) /\ Exists(p) /\ p # o /\ s \in ItemsOf(p)
    BY <1>1 DEF Live, ItemsOf
  <2>2. s \in Seats /\ seat[s].status = "HELD" /\ seat[s].holder = p
    BY <2>1 DEF RowsInv, ItemsAreSeats, LiveHoldsComplete
  <2> QED
    BY <1>2, <2>1, <2>2
<1>6. OneOrderPerKey'
  BY <1>1 DEF RowsInv, OneOrderPerKey
<1> QED
  BY <1>3, <1>4, <1>5, <1>6 DEF RowsInv

\* Issuing the tickets of an order, one for each of its seats, issues nothing
\* to another order.
LEMMA TicketPairs ==
    ASSUME NEW o, NEW items, NEW T, NEW U, U = T \cup {<<o, t>> : t \in items}
    PROVE  /\ \A p, s : <<p, s>> \in T => <<p, s>> \in U
           /\ \A s \in items : <<o, s>> \in U
           /\ \A p, s : <<p, s>> \in U /\ <<p, s>> \notin T => p = o /\ s \in items
<1>1. \A p, s : <<p, s>> \in {<<o, t>> : t \in items} <=> p = o /\ s \in items
  OBVIOUS
<1>2. \A x : x \in U <=> x \in T \/ x \in {<<o, t>> : t \in items}
  OBVIOUS
<1> QED
  BY <1>1, <1>2, Zenon

LEMMA FinalizeInv ==
    ASSUME CheckoutInv, NEW d \in Deliveries, NEW o \in Orders, WebhookFinalize(d, o)
    PROVE  CheckoutInv'
<1>1. CheckoutTypeOK /\ BookingTypeOK /\ BookingInv /\ RowsInv
  BY InvGivesRows DEF CheckoutInv, BookingInv
<1>2. /\ Recording(d, o) /\ lock[o] = Nobody /\ ~Settled(o) /\ Pending(o)
      /\ payment' = [payment EXCEPT ![o] = "SUCCEEDED"]
      /\ seat' = Sold(o)
      /\ order' = [order EXCEPT ![o] = [status |-> "PAID", expires |-> order[o].expires]]
      /\ ticketed' = ticketed \cup {<<o, s>> : s \in ItemsOf(o)}
      /\ outbox' = [outbox EXCEPT ![o] = outbox[o] + 1]
  BY DEF WebhookFinalize, Reported, Timely
<1>3. /\ UNCHANGED <<clock, lock, hold, cancel, sweep, intent, created, emitted>>
      /\ recorded' \subseteq Events /\ RequestsConsistent'
      /\ webhook' \in [Deliveries -> WebhookCall]
  BY <1>2, RecordingFacts
<1>4. Exists(o) /\ ItemsOf(o) \subseteq Seats
  BY <1>1, <1>2 DEF Pending, Exists, RowsInv, ItemsAreSeats
<1>5. /\ order'[o] = [status |-> "PAID", expires |-> order[o].expires]
      /\ \A p \in Orders : p # o => order'[p] = order[p]
  BY <1>1, <1>2 DEF BookingTypeOK
<1>6. order'[o].status = "PAID" /\ Exists(o)'
  BY <1>5 DEF Exists
<1>7. \A s \in Seats : IF seat[s].status = "HELD" /\ seat[s].holder = o
                       THEN seat'[s] = [status |-> "SOLD", holder |-> NoOrder, expires |-> 0]
                       ELSE seat'[s] = seat[s]
  BY <1>2 DEF Sold
<1>8. BookingTypeOK'
  <2>1. order' \in [Orders -> [status : OrderStatus, expires : Nat]]
    BY <1>1, <1>2 DEF BookingTypeOK, OrderStatus
  <2>2. seat' \in [Seats -> Seat]
    BY <1>1, <1>2 DEF BookingTypeOK, Sold, Seat
  <2> QED
    BY <1>1, <1>3, <2>1, <2>2 DEF BookingTypeOK
<1>9. CheckoutTypeOK'
  <2>1. payment' \in [Orders -> PaymentStatus]
    BY <1>1, <1>2, CheckoutTypes DEF PaymentStatus
  <2>2. ticketed' \subseteq Orders \X Seats /\ outbox' \in [Orders -> Nat]
    BY <1>1, <1>2, <1>4 DEF CheckoutTypeOK
  <2> QED
    BY <1>1, <1>3, <1>8, <2>1, <2>2 DEF CheckoutTypeOK
<1>10. clock' >= clock
  BY <1>1, <1>3 DEF BookingTypeOK
<1>11. \A p \in Orders : Exists(p)' <=> Exists(p)
  BY <1>4, <1>5, <1>6 DEF Exists
<1>12. BookingInv'
  <2>1. RowsInv'
    BY <1>1, <1>2, <1>3, <1>5, <1>6, RowsAfterSale
  <2>2. HoldsConsistent' /\ RepliesMatchRequests'
    BY <1>1, <1>3, <1>8, <1>10, <1>11, HoldsUntouched DEF BookingInv
  <2>3. CancelsConsistent' /\ SweepsConsistent'
    BY <1>1, <1>2, <1>3, <1>5, <1>6, <1>8, OthersWithoutLock
  <2> QED
    BY <1>8, <2>1, <2>2, <2>3 DEF BookingInv, RowsInv
<1>13. HoldersCleared'
  BY <1>7 DEF CheckoutInv, HoldersCleared
<1>14. /\ payment'[o] = "SUCCEEDED" /\ outbox'[o] = outbox[o] + 1
       /\ \A p \in Orders : p # o => payment'[p] = payment[p] /\ outbox'[p] = outbox[p]
  BY <1>1, <1>2, CheckoutTypes DEF CheckoutTypeOK
<1>15. PaymentsHaveOrders'
  BY <1>4, <1>11, <1>14 DEF CheckoutInv, PaymentsHaveOrders
<1>16. /\ \A p, s : <<p, s>> \in ticketed => <<p, s>> \in ticketed'
       /\ \A s \in ItemsOf(o) : <<o, s>> \in ticketed'
       /\ \A p, s : <<p, s>> \in ticketed' /\ <<p, s>> \notin ticketed
                        => p = o /\ s \in ItemsOf(o)
  <2>1. ticketed' = ticketed \cup {<<o, t>> : t \in ItemsOf(o)}
    BY <1>2
  <2> QED
    BY <2>1, TicketPairs
<1>17. PaidOrdersSettled'
  <2>1. ASSUME NEW p \in Orders, p # o
        PROVE  LET issued == {s \in Seats : <<p, s>> \in ticketed'}
               IN  IF order'[p].status = "PAID"
                   THEN payment'[p] = "SUCCEEDED" /\ issued = ItemsOf(p)' /\ outbox'[p] = 1
                   ELSE payment'[p] # "SUCCEEDED" /\ issued = {} /\ outbox'[p] = 0
    <3>1. {s \in Seats : <<p, s>> \in ticketed'} = {s \in Seats : <<p, s>> \in ticketed}
      <4>1. \A s \in Seats : <<p, s>> \in ticketed' <=> <<p, s>> \in ticketed
        BY <1>16, <2>1, Zenon
      <4> QED
        BY <4>1
    <3>2. ItemsOf(p)' = ItemsOf(p) /\ order'[p] = order[p]
      BY <1>3, <1>5, <2>1 DEF ItemsOf
    <3> QED
      BY <1>14, <2>1, <3>1, <3>2 DEF CheckoutInv, PaidOrdersSettled
  <2>2. {s \in Seats : <<o, s>> \in ticketed'} = ItemsOf(o)'
    <3>1. {s \in Seats : <<o, s>> \in ticketed} = {}
      BY <1>2 DEF CheckoutInv, PaidOrdersSettled, Pending
    <3>2. ItemsOf(o)' = ItemsOf(o)
      BY <1>3 DEF ItemsOf
    <3> QED
      BY <1>4, <1>16, <3>1, <3>2
  <2>3. outbox'[o] = 1
    BY <1>2, <1>14 DEF CheckoutInv, PaidOrdersSettled, Pending
  <2> QED
    BY <1>6, <1>14, <2>1, <2>2, <2>3 DEF PaidOrdersSettled
<1>18. RefundsReleased'
  <2> SUFFICES ASSUME NEW p \in Orders, payment'[p] = "REFUND_PENDING"
               PROVE  /\ order'[p].status \in {"EXPIRED", "CANCELLED"}
                      /\ \A s \in Seats : seat'[s].holder # p
    BY DEF RefundsReleased
  <2>1. order'[p].status \in {"EXPIRED", "CANCELLED"}
    BY <1>5, <1>14 DEF CheckoutInv, RefundsReleased
  <2>2. ~Pending(p)' /\ HeldSeatsBacked'
    BY <1>12, <2>1 DEF Pending, BookingInv
  <2> QED
    BY <1>13, <2>1, <2>2, EndedOrdersHoldNothing
<1>19. SoldSeatsTicketed'
  <2> SUFFICES ASSUME NEW s \in Seats, seat'[s].status = "SOLD"
               PROVE  \E p \in Orders : order'[p].status = "PAID" /\ <<p, s>> \in ticketed'
    BY DEF SoldSeatsTicketed
  <2>1. CASE seat[s].status = "HELD" /\ seat[s].holder = o
    <3>1. s \in ItemsOf(o)
      BY <1>1, <2>1 DEF BookingInv, HeldSeatsBacked, Backed
    <3> QED
      BY <1>6, <1>16, <3>1
  <2>2. CASE ~(seat[s].status = "HELD" /\ seat[s].holder = o)
    <3>1. seat[s].status = "SOLD"
      BY <1>7, <2>2
    <3>2. PICK p \in Orders : order[p].status = "PAID" /\ <<p, s>> \in ticketed
      BY <3>1 DEF CheckoutInv, SoldSeatsTicketed
    <3>3. p # o
      BY <1>2, <3>2 DEF Pending
    <3>4. <<p, s>> \in ticketed'
      BY <1>2, <3>2
    <3> QED
      BY <1>5, <3>2, <3>3, <3>4
  <2> QED
    BY <2>1, <2>2
<1> QED
  BY <1>3, <1>9, <1>12, <1>13, <1>15, <1>17, <1>18, <1>19 DEF CheckoutInv
----------------------------------------------------------------------------
(* All steps.                                                              *)

LEMMA CheckoutInitInv == CheckoutInit => CheckoutInv
<1> SUFFICES ASSUME CheckoutInit PROVE CheckoutInv
  OBVIOUS
<1>1. BookingInit /\ BookingInv /\ BookingTypeOK
  BY InitInv DEF CheckoutInit, BookingInv
<1>2. \A o \in Orders : order[o].status = "NONE"
  BY <1>1 DEF BookingInit
<1>3. \A s \in Seats : seat[s].status = "AVAILABLE" /\ seat[s].holder = NoOrder
  BY <1>1 DEF BookingInit, FreeSeat
<1>4. CheckoutTypeOK
  BY <1>1, BoundsAssumption
  DEF CheckoutInit, CheckoutTypeOK, PaymentStatus, IdleIntent, IntentCall, IdleWebhook, WebhookCall
<1>5. RequestsConsistent
  BY DEF CheckoutInit, RequestsConsistent, IdleIntent, IdleWebhook
<1>6. PaidOrdersSettled
  BY <1>2 DEF CheckoutInit, PaidOrdersSettled
<1>7. HoldersCleared /\ PaymentsHaveOrders /\ RefundsReleased /\ SoldSeatsTicketed
  BY <1>3 DEF CheckoutInit, HoldersCleared, PaymentsHaveOrders, RefundsReleased,
              SoldSeatsTicketed
<1> QED
  BY <1>1, <1>4, <1>5, <1>6, <1>7 DEF CheckoutInv

LEMMA WebhookStepInv ==
    ASSUME CheckoutInv, NEW d \in Deliveries, WebhookStep(d)
    PROVE  CheckoutInv'
<1>1. CASE WebhookStart(d) \/ WebhookDuplicate(d) \/ WebhookAborted(d)
  BY <1>1, QuietWebhookInv
<1>2. CASE WebhookCommit(d)
  <2>1. PICK o \in Orders :
            \/ WebhookUnknown(d, o) \/ WebhookRepeated(d, o) \/ WebhookLate(d, o)
            \/ WebhookFinalize(d, o) \/ WebhookFailure(d, o)
    BY <1>2 DEF WebhookCommit
  <2> QED
    BY <2>1, QuietWebhookInv, LateInv, FinalizeInv
<1> QED
  BY <1>1, <1>2 DEF WebhookStep

LEMMA CheckoutNextInv == CheckoutInv /\ [CheckoutNext]_checkoutVars => CheckoutInv'
<1> SUFFICES ASSUME CheckoutInv, [CheckoutNext]_checkoutVars
             PROVE  CheckoutInv'
  OBVIOUS
<1>1. CASE UNCHANGED checkoutVars
  <2>1. UNCHANGED <<bookingVars, payment, ticketed, outbox, recorded, intent, webhook,
                    created, emitted>>
    BY <1>1 DEF checkoutVars, moneyVars
  <2>2. clock' = clock
    BY <2>1 DEF bookingVars
  <2>3. CheckoutTypeOK'
    BY <2>1, SameBookingType DEF CheckoutInv, CheckoutTypeOK
  <2>4. RequestsConsistent' /\ QuietPayment
    BY <2>1, <2>2 DEF CheckoutInv, RequestsConsistent, QuietPayment
  <2> QED
    BY <2>1, <2>3, <2>4, QuietStepInv
<1>2. CASE BookingNext /\ UNCHANGED moneyVars
  BY <1>2, BookingStepKeepsCheckout
<1>3. ASSUME NEW c \in Intents, IntentStep(c) PROVE CheckoutInv'
  BY <1>3, IntentStepInv
<1>4. ASSUME NEW e \in Events, Emit(e) PROVE CheckoutInv'
  BY <1>4, EmitInv
<1>5. ASSUME NEW d \in Deliveries, WebhookStep(d) PROVE CheckoutInv'
  BY <1>5, WebhookStepInv
<1> QED
  BY <1>1, <1>2, <1>3, <1>4, <1>5 DEF CheckoutNext

\* What a step of the money side does to orders, payments and seats: nothing,
\* unless a webhook commits a success for one order.
LEMMA WebhookRows ==
    ASSUME CheckoutInv, NEW d \in Deliveries, WebhookStep(d)
    PROVE  \/ order' = order /\ seat' = seat
           \/ \E o \in Orders : WebhookLate(d, o) \/ WebhookFinalize(d, o)
  BY DEF WebhookStep, WebhookStart, WebhookDuplicate, WebhookCommit, WebhookAborted,
         WebhookUnknown, WebhookRepeated, WebhookFailure, bookingVars

LEMMA OtherRows ==
    ASSUME (\E c \in Intents : IntentStep(c)) \/ (\E e \in Events : Emit(e))
    PROVE  order' = order /\ seat' = seat
  BY DEF IntentStep, IntentStart, IntentCreated, IntentSaved, IntentEnded, Emit, bookingVars

LEMMA LateChange ==
    ASSUME CheckoutInv, NEW d \in Deliveries, NEW o \in Orders, WebhookLate(d, o)
    PROVE  /\ \A p \in Orders : p # o => order'[p] = order[p]
           /\ order'[o].status # order[o].status =>
                Pending(o) /\ order'[o].status = "EXPIRED" /\ order[o].expires <= clock
           /\ \A s \in Seats : seat[s].status = "SOLD" => seat'[s] = seat[s]
<1>1. CheckoutTypeOK /\ BookingTypeOK
  BY DEF CheckoutInv, CheckoutTypeOK
<1>2. /\ Recording(d, o) /\ ~Timely(d, o)
      /\ order' = LateOrder(o) /\ seat' = LateSeats(o)
  BY DEF WebhookLate, Reported
<1>3. \A p \in Orders : p # o => order'[p] = order[p]
  BY <1>1, <1>2 DEF LateOrder, BookingTypeOK
<1>4. Pending(o) => order[o].expires <= clock
  <2>1. /\ webhook[d].now \in Nat /\ webhook[d].now <= clock
        /\ order[o].expires \in Nat /\ clock \in Nat
    BY <1>1, <1>2, RecordingFacts, BoundsAssumption DEF BookingTypeOK
  <2> QED
    BY <1>2, <2>1 DEF Timely
<1>5. IF Pending(o) THEN order'[o].status = "EXPIRED" ELSE order'[o] = order[o]
  BY <1>1, <1>2 DEF LateOrder, BookingTypeOK
<1>6. \A s \in Seats : seat[s].status = "SOLD" => seat'[s] = seat[s]
  BY <1>2, ReleasedSeats DEF LateSeats
<1> QED
  BY <1>3, <1>4, <1>5, <1>6

LEMMA FinalizeChange ==
    ASSUME CheckoutInv, NEW d \in Deliveries, NEW o \in Orders, WebhookFinalize(d, o)
    PROVE  /\ \A p \in Orders : p # o => order'[p] = order[p]
           /\ Pending(o) /\ order'[o].status = "PAID" /\ PaidBy(o)
           /\ \A s \in Seats : IF seat[s].status = "HELD" /\ seat[s].holder = o
                               THEN seat'[s].status = "SOLD" ELSE seat'[s] = seat[s]
<1>1. CheckoutTypeOK /\ BookingTypeOK
  BY DEF CheckoutInv, CheckoutTypeOK
<1>2. /\ Recording(d, o) /\ Succeeded(d) /\ Pending(o)
      /\ order[o].expires > webhook[d].now /\ seat' = Sold(o)
      /\ order' = [order EXCEPT ![o] = [status |-> "PAID", expires |-> order[o].expires]]
  BY DEF WebhookFinalize, Reported, Timely
<1>3. /\ \A p \in Orders : p # o => order'[p] = order[p]
      /\ order'[o].status = "PAID"
  BY <1>1, <1>2 DEF BookingTypeOK
<1>4. \A s \in Seats : IF seat[s].status = "HELD" /\ seat[s].holder = o
                       THEN seat'[s].status = "SOLD" ELSE seat'[s] = seat[s]
  BY <1>2 DEF Sold
<1>5. PaidBy(o)
  <2> DEFINE e == webhook[d].event
  <2>1. e \in recorded' \ recorded /\ emitted[e] \in Event /\ emitted[e].of = o
    BY <1>2, RecordingFacts
  <2>2. emitted[e] = [of |-> o, kind |-> "SUCCEEDED"]
    BY <1>2, <2>1 DEF Event, Succeeded
  <2>3. webhook[d].now < order[o].expires
    BY <1>1, <1>2, CheckoutTypes, BoundsAssumption DEF BookingTypeOK, WebhookCall
  <2> QED
    BY <2>1, <2>2, <2>3 DEF PaidBy
<1> QED
  BY <1>2, <1>3, <1>4, <1>5

\* Successful and refundable payments stay what they are.
LEMMA PaymentsFinal ==
    ASSUME CheckoutInv, CheckoutNext, NEW o \in Orders,
           payment[o] \in {"SUCCEEDED", "REFUND_PENDING"}
    PROVE  payment'[o] = payment[o]
<1>1. payment \in [Orders -> PaymentStatus]
  BY CheckoutTypes DEF CheckoutInv
<1>2. CASE BookingNext /\ UNCHANGED moneyVars
  BY <1>2 DEF moneyVars
<1>3. ASSUME NEW c \in Intents, IntentStep(c) PROVE payment'[o] = payment[o]
  BY <1>1, <1>3 DEF IntentStep, IntentStart, IntentCreated, IntentSaved, IntentEnded
<1>4. ASSUME NEW e \in Events, Emit(e) PROVE payment'[o] = payment[o]
  BY <1>4 DEF Emit
<1>5. ASSUME NEW d \in Deliveries, WebhookStep(d) PROVE payment'[o] = payment[o]
  <2>1. ASSUME NEW p \in Orders, WebhookLate(d, p)
        PROVE  payment'[o] = payment[o]
    BY <1>1, <2>1 DEF WebhookLate, Settled
  <2>2. ASSUME NEW p \in Orders, WebhookFinalize(d, p)
        PROVE  payment'[o] = payment[o]
    <3>1. Pending(p) /\ payment' = [payment EXCEPT ![p] = "SUCCEEDED"] /\ ~Settled(p)
      BY <2>2 DEF WebhookFinalize, Timely
    <3>2. p # o
      BY <3>1 DEF CheckoutInv, RefundsReleased, Pending, Settled
    <3> QED
      BY <1>1, <3>1, <3>2
  <2>3. ASSUME NEW p \in Orders, WebhookFailure(d, p)
        PROVE  payment'[o] = payment[o]
    BY <1>1, <2>3 DEF WebhookFailure
  <2>4. ASSUME NEW p \in Orders, WebhookUnknown(d, p) \/ WebhookRepeated(d, p)
        PROVE  payment'[o] = payment[o]
    BY <2>4 DEF WebhookUnknown, WebhookRepeated
  <2>5. CASE WebhookStart(d) \/ WebhookDuplicate(d) \/ WebhookAborted(d)
    BY <2>5 DEF WebhookStart, WebhookDuplicate, WebhookAborted
  <2> QED
    BY <1>5, <2>1, <2>2, <2>3, <2>4, <2>5 DEF WebhookStep, WebhookCommit
<1> QED
  BY <1>2, <1>3, <1>4, <1>5 DEF CheckoutNext
----------------------------------------------------------------------------
(* The theorems.                                                           *)

\* The inductive invariant holds in every reachable state.
THEOREM CheckoutInvariant == CheckoutSpec => []CheckoutInv
  BY CheckoutInitInv, CheckoutNextInv, PTL DEF CheckoutSpec

\* Orders, seats, payments, tickets and the requests in progress stay
\* well-formed.
THEOREM CheckoutTypeCorrect == CheckoutSpec => []CheckoutTypeOK
<1>1. CheckoutInv => CheckoutTypeOK
  BY DEF CheckoutInv
<1> QED
  BY <1>1, CheckoutInvariant, PTL

\* What is proved of holds, cancellations and sweeps still holds when webhooks
\* pay and expire the same orders.
THEOREM HoldsSurvivePayment ==
    CheckoutSpec => [](HeldSeatsBacked /\ LiveHoldsComplete /\ SweepsConsistent)
<1>1. CheckoutInv => HeldSeatsBacked /\ LiveHoldsComplete /\ SweepsConsistent
  BY DEF CheckoutInv, BookingInv
<1> QED
  BY <1>1, CheckoutInvariant, PTL

\* A paid order has a successful payment, a ticket for each of its seats and
\* one delivery event, and an order that is not paid has none of them, however
\* the provider repeats, reorders and contradicts itself.
THEOREM PaidOrdersAlwaysSettled == CheckoutSpec => []PaidOrdersSettled
<1>1. CheckoutInv => PaidOrdersSettled
  BY DEF CheckoutInv
<1> QED
  BY <1>1, CheckoutInvariant, PTL

\* A payment that waits for its refund belongs to an order that is over and
\* holds no seat.
THEOREM RefundsAlwaysReleased == CheckoutSpec => []RefundsReleased
<1>1. CheckoutInv => RefundsReleased
  BY DEF CheckoutInv
<1> QED
  BY <1>1, CheckoutInvariant, PTL

\* A sold seat is on a ticket of a paid order.
THEOREM SoldSeatsAlwaysTicketed == CheckoutSpec => []SoldSeatsTicketed
<1>1. CheckoutInv => SoldSeatsTicketed
  BY DEF CheckoutInv
<1> QED
  BY <1>1, CheckoutInvariant, PTL

\* Orders are paid by a success event received in time and otherwise end as
\* Booking ends them; what is sold, paid or due for refund never changes again.
THEOREM CheckoutLifecycleHolds == CheckoutSpec => CheckoutLifecycle
<1>1. CheckoutInv /\ [CheckoutNext]_checkoutVars => [LegalCheckoutChange]_checkoutVars
  <2> SUFFICES ASSUME CheckoutInv, CheckoutNext
               PROVE  LegalCheckoutChange
    OBVIOUS
  <2> DEFINE Change(o) ==
                 \/ ~Exists(o) /\ order'[o].status = "PENDING_PAYMENT"
                 \/ Pending(o) /\ order'[o].status = "CANCELLED"
                 \/ Pending(o) /\ order'[o].status = "EXPIRED" /\ order[o].expires <= clock
                 \/ Pending(o) /\ order'[o].status = "PAID" /\ PaidBy(o)
             Legal == /\ \A o \in Orders : order'[o].status # order[o].status => Change(o)
                      /\ \A s \in Seats : seat[s].status = "SOLD" => seat'[s] = seat[s]
  <2>1. ASSUME BookingNext PROVE Legal
    <3>1. BookingInv
      BY DEF CheckoutInv
    <3>2. \A o \in Orders : order'[o].status # order[o].status => Change(o)
      BY <2>1, <3>1, OrderChangeLegal DEF LegalOrderChange
    <3>3. \A s \in Seats : seat[s].status = "SOLD" => seat'[s] = seat[s]
      BY <2>1, <3>1, BookingFrame
    <3> QED
      BY <3>2, <3>3
  <2>2. ASSUME order' = order, seat' = seat PROVE Legal
    BY <2>2
  <2>3. ASSUME NEW d \in Deliveries, NEW p \in Orders, WebhookLate(d, p)
        PROVE  Legal
    BY <2>3, LateChange
  <2>4. ASSUME NEW d \in Deliveries, NEW p \in Orders, WebhookFinalize(d, p)
        PROVE  Legal
    BY <2>4, FinalizeChange
  <2>5. Legal
    <3> HIDE DEF Legal
    <3> QED
      BY <2>1, <2>2, <2>3, <2>4, OtherRows, WebhookRows DEF CheckoutNext
  <2> QED
    BY <2>5, PaymentsFinal DEF LegalCheckoutChange
<1> QED
  BY <1>1, CheckoutInvariant, PTL DEF CheckoutSpec, CheckoutLifecycle

\* An order that is paid before its deadline gets every one of its seats, and
\* nobody had any of them before.
THEOREM TimelyPaymentAlwaysSells == CheckoutSpec => TimelyPaymentSells
<1>1. CheckoutInv /\ [CheckoutNext]_checkoutVars => [TimelySale]_checkoutVars
  <2> SUFFICES ASSUME CheckoutInv, CheckoutNext,
                      NEW o \in Orders, Live(o), order'[o].status = "PAID",
                      NEW s \in ItemsOf(o)
               PROVE  seat[s].status # "SOLD" /\ seat'[s].status = "SOLD"
    BY DEF TimelySale
  <2>1. BookingInv /\ RowsInv
    BY InvGivesRows DEF CheckoutInv
  <2>2. order[o].status = "PENDING_PAYMENT" /\ Exists(o)
    BY DEF Live, Pending, Exists
  <2>3. s \in Seats /\ seat[s].status = "HELD" /\ seat[s].holder = o
    BY <2>1, <2>2 DEF RowsInv, ItemsAreSeats, LiveHoldsComplete
  <2>4. ~BookingNext
    BY <2>1, <2>2, BookingKeepsSettled
  <2>5. order' # order
    BY <2>2
  <2>6. PICK d \in Deliveries, p \in Orders : WebhookLate(d, p) \/ WebhookFinalize(d, p)
    BY <2>4, <2>5, OtherRows, WebhookRows DEF CheckoutNext
  <2>7. ~WebhookLate(d, p)
    BY <2>2, LateChange
  <2>8. WebhookFinalize(d, p)
    BY <2>6, <2>7
  <2>9. p = o
    BY <2>2, <2>8, FinalizeChange
  <2> QED
    BY <2>3, <2>8, <2>9, FinalizeChange
<1> QED
  BY <1>1, CheckoutInvariant, PTL DEF CheckoutSpec, TimelyPaymentSells
=============================================================================
