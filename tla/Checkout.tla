------------------------------ MODULE Checkout ------------------------------
(***************************************************************************)
(* Payment of held seats, composed with Booking: internal/payments/        *)
(* service.go over internal/postgres/payments_repository.go, and the       *)
(* payment provider, which is external.                                    *)
(*                                                                         *)
(* SavePaymentIntent and ProcessWebhookEvent lock the order row before     *)
(* they decide and make all their changes under that lock.  Each is one    *)
(* step, taken when no other transaction has the row.  The clock each of   *)
(* them decides with is read by the service before the transaction, in a   *)
(* step of its own; so is what CreatePaymentIntent reads before it calls   *)
(* the provider.                                                           *)
(***************************************************************************)
EXTENDS Booking

CONSTANTS
    Intents,        \* CreatePaymentIntent calls in progress
    Deliveries,     \* webhook requests in progress
    Events,         \* BOUND: provider event ids
    NoEvent         \* an id the provider has not used

ASSUME EventsAssumption == NoEvent \notin Events

VARIABLES
    payment,    \* payments.status by order; "NONE" before the INSERT
    ticketed,   \* tickets, as <<order, seat of the order item>>
    outbox,     \* TICKET_DELIVERY_REQUESTED rows by order
    recorded,   \* payment_webhook_events
    intent,     \* CreatePaymentIntent calls
    webhook,    \* webhook requests
    created,    \* external: orders the provider has an intent for
    emitted     \* external: events the provider has sent, by id

moneyVars == <<payment, ticketed, outbox, recorded, intent, webhook, created, emitted>>
checkoutVars == <<bookingVars, moneyVars>>
----------------------------------------------------------------------------
PaymentStatus ==
    {"NONE", "PENDING", "SUCCEEDED", "FAILED", "EXPIRED", "REFUND_PENDING"}

\* What the provider may report of an intent; its reference stands for the
\* order, as the idempotency key ties one reference to each order.
Event == [of : Orders, kind : {"SUCCEEDED", "FAILED", "EXPIRED"}]

IntentCall == [pc : {"idle", "started", "created"},
               order : Orders \cup {NoOrder}, now : 0 .. MaxTime]

WebhookCall == [pc : {"idle", "started"}, event : Events \cup {NoEvent},
                now : 0 .. MaxTime]

CheckoutTypeOK ==
    /\ BookingTypeOK
    /\ payment \in [Orders -> PaymentStatus]
    /\ ticketed \subseteq Orders \X Seats
    /\ outbox \in [Orders -> Nat]
    /\ recorded \subseteq Events
    /\ intent \in [Intents -> IntentCall]
    /\ webhook \in [Deliveries -> WebhookCall]
    /\ created \subseteq Orders
    /\ emitted \in [Events -> Event \cup {NoEvent}]

IdleIntent == [pc |-> "idle", order |-> NoOrder, now |-> 0]
IdleWebhook == [pc |-> "idle", event |-> NoEvent, now |-> 0]

CheckoutInit ==
    /\ BookingInit
    /\ payment = [o \in Orders |-> "NONE"]
    /\ ticketed = {}
    /\ outbox = [o \in Orders |-> 0]
    /\ recorded = {}
    /\ intent = [c \in Intents |-> IdleIntent]
    /\ webhook = [d \in Deliveries |-> IdleWebhook]
    /\ created = {}
    /\ emitted = [e \in Events |-> NoEvent]
----------------------------------------------------------------------------
(* CreatePaymentIntent, called by the owner of the order.                  *)

\* PaymentIntentRequest.  A call that finds a payment, or an order that can no
\* longer be paid, is answered at once and changes nothing.
IntentStart(c) ==
    /\ intent[c].pc = "idle"
    /\ \E o \in Orders :
        /\ payment[o] = "NONE"
        /\ Live(o)
        /\ intent' = [intent EXCEPT ![c] = [pc |-> "started", order |-> o, now |-> clock]]
    /\ UNCHANGED <<bookingVars, payment, ticketed, outbox, recorded, webhook,
                   created, emitted>>

\* The provider creates the intent, or finds it by the idempotency key.
IntentCreated(c) ==
    /\ intent[c].pc = "started"
    /\ created' = created \cup {intent[c].order}
    /\ intent' = [intent EXCEPT ![c] = [pc |-> "created", order |-> intent[c].order,
                                        now |-> intent[c].now]]
    /\ UNCHANGED <<bookingVars, payment, ticketed, outbox, recorded, webhook, emitted>>

\* SavePaymentIntent inserts the row.
IntentSaved(c) ==
    LET o == intent[c].order
    IN  /\ intent[c].pc = "created"
        /\ lock[o] = Nobody
        /\ payment[o] = "NONE"
        /\ Pending(o)
        /\ order[o].expires > intent[c].now
        /\ payment' = [payment EXCEPT ![o] = "PENDING"]
        /\ intent' = [intent EXCEPT ![c] = IdleIntent]
        /\ UNCHANGED <<bookingVars, ticketed, outbox, recorded, webhook, created, emitted>>

\* The row exists already, the order can no longer be paid, the provider or
\* the database fails, or the process dies: nothing is stored.
IntentEnded(c) ==
    /\ intent[c].pc # "idle"
    /\ intent' = [intent EXCEPT ![c] = IdleIntent]
    /\ UNCHANGED <<bookingVars, payment, ticketed, outbox, recorded, webhook,
                   created, emitted>>
----------------------------------------------------------------------------
(* The provider, external: it may report anything of an intent it created, *)
(* in any order, again under another id, and as often as it likes.         *)

Emit(e) ==
    /\ emitted[e] = NoEvent
    /\ \E o \in created, kind \in {"SUCCEEDED", "FAILED", "EXPIRED"} :
        emitted' = [emitted EXCEPT ![e] = [of |-> o, kind |-> kind]]
    /\ UNCHANGED <<bookingVars, payment, ticketed, outbox, recorded, intent,
                   webhook, created>>
----------------------------------------------------------------------------
(* ProcessWebhook.                                                         *)

\* A request with a valid signature and timestamp; the service reads the clock.
WebhookStart(d) ==
    /\ webhook[d].pc = "idle"
    /\ \E e \in Events :
        /\ emitted[e] # NoEvent
        /\ webhook' = [webhook EXCEPT ![d] = [pc |-> "started", event |-> e, now |-> clock]]
    /\ UNCHANGED <<bookingVars, payment, ticketed, outbox, recorded, intent,
                   created, emitted>>

WebhookDone(d) == webhook' = [webhook EXCEPT ![d] = IdleWebhook]

\* INSERT ... ON CONFLICT DO NOTHING returned no row.
WebhookDuplicate(d) ==
    /\ webhook[d].pc = "started"
    /\ webhook[d].event \in recorded
    /\ WebhookDone(d)
    /\ UNCHANGED <<bookingVars, payment, ticketed, outbox, recorded, intent,
                   created, emitted>>

\* The event is new and its order's row can be locked.
Recording(d, o) ==
    /\ webhook[d].pc = "started"
    /\ webhook[d].event \notin recorded
    /\ o = emitted[webhook[d].event].of
    /\ recorded' = recorded \cup {webhook[d].event}
    /\ WebhookDone(d)
    /\ UNCHANGED <<clock, lock, hold, cancel, sweep, intent, created, emitted>>

\* No payment has the reference: the event is recorded and acknowledged.
WebhookUnknown(d, o) ==
    /\ Recording(d, o)
    /\ payment[o] = "NONE"
    /\ UNCHANGED <<seat, order, payment, ticketed, outbox>>

\* Fault: the order's row is read without FOR UPDATE.
ReportedUnlocked(d, o) ==
    /\ Recording(d, o)
    /\ payment[o] # "NONE"

\* The payment and order rows are locked, FOR UPDATE OF p, o.
Reported(d, o) ==
    /\ Recording(d, o)
    /\ payment[o] # "NONE"
    /\ lock[o] = Nobody

Succeeded(d) == emitted[webhook[d].event].kind = "SUCCEEDED"

\* Fault: paid orders are not recognised as settled.
SettledByRefund(o) == payment[o] = "REFUND_PENDING"

Settled(o) == payment[o] = "SUCCEEDED" \/ order[o].status = "PAID"

\* A success that is already accounted for.
WebhookRepeated(d, o) ==
    /\ Reported(d, o) /\ Succeeded(d)
    /\ Settled(o)
    /\ UNCHANGED <<seat, order, payment, ticketed, outbox>>

\* Fault: only the deadline counts, not whether the order is still pending.
TimelyByDeadline(d, o) == order[o].expires > webhook[d].now

Timely(d, o) == Pending(o) /\ order[o].expires > webhook[d].now

\* Fault: the status of the order is left as it is.
LateOrderKept(o) == order

\* A pending order whose payment came too late ends here, not in a sweep.
LateOrder(o) ==
    IF Pending(o)
    THEN [order EXCEPT ![o] = [status |-> "EXPIRED", expires |-> order[o].expires]]
    ELSE order

\* Fault: the seats stay with the order that has ended.
LateSeatsKept(o) == seat

\* Fault: released by the order's items, whoever holds them now.
LateSeatsByItems(o) == ReleasedByItems({o})

LateSeats(o) == IF Pending(o) THEN Released({o}) ELSE seat

\* The money arrived after the hold was over, or after it was cancelled.
WebhookLate(d, o) ==
    /\ Reported(d, o) /\ Succeeded(d)
    /\ ~Settled(o)
    /\ ~Timely(d, o)
    /\ order' = LateOrder(o)
    /\ seat' = LateSeats(o)
    /\ payment' = [payment EXCEPT ![o] = "REFUND_PENDING"]
    /\ UNCHANGED <<ticketed, outbox>>

\* Fault: every held seat is sold, not those of the order alone.
SoldByStatus(o) ==
    [s \in Seats |-> IF seat[s].status = "HELD"
                     THEN [status |-> "SOLD", holder |-> NoOrder, expires |-> 0]
                     ELSE seat[s]]

\* Fault: the order's status written into the seat row.
SoldAsPaid(o) ==
    [s \in Seats |-> IF seat[s].status = "HELD" /\ seat[s].holder = o
                     THEN [status |-> "PAID", holder |-> NoOrder, expires |-> 0]
                     ELSE seat[s]]

\* Fault: the hold is released before the update that looks for it.
SoldAfterRelease(o) == Released({o})

\* ... SET status='SOLD', hold_order_id=NULL WHERE hold_order_id = o AND HELD
Sold(o) ==
    [s \in Seats |-> IF seat[s].status = "HELD" /\ seat[s].holder = o
                     THEN [status |-> "SOLD", holder |-> NoOrder, expires |-> 0]
                     ELSE seat[s]]

\* finalizePaidOrder: payment, seats, order, a ticket for each item, and one
\* delivery event.
WebhookFinalize(d, o) ==
    /\ Reported(d, o) /\ Succeeded(d)
    /\ ~Settled(o)
    /\ Timely(d, o)
    /\ payment' = [payment EXCEPT ![o] = "SUCCEEDED"]
    /\ seat' = Sold(o)
    /\ order' = [order EXCEPT ![o] = [status |-> "PAID", expires |-> order[o].expires]]
    /\ ticketed' = ticketed \cup {<<o, s>> : s \in ItemsOf(o)}
    /\ outbox' = [outbox EXCEPT ![o] = outbox[o] + 1]

\* A failure or expiry reported by the provider ends a pending payment only.
WebhookFailure(d, o) ==
    /\ Reported(d, o) /\ ~Succeeded(d)
    /\ payment' = IF payment[o] = "PENDING"
                  THEN [payment EXCEPT ![o] = emitted[webhook[d].event].kind]
                  ELSE payment
    /\ UNCHANGED <<seat, order, ticketed, outbox>>

\* Fault: the event is recorded outside the transaction that is rolled back.
WebhookLost(d) ==
    /\ webhook[d].pc = "started"
    /\ recorded' = recorded \cup {webhook[d].event}
    /\ WebhookDone(d)
    /\ UNCHANGED <<bookingVars, payment, ticketed, outbox, intent, created, emitted>>

\* Any error rolls everything back; the provider is told to send again.
WebhookAborted(d) ==
    /\ webhook[d].pc = "started"
    /\ WebhookDone(d)
    /\ UNCHANGED <<bookingVars, payment, ticketed, outbox, recorded, intent,
                   created, emitted>>

WebhookCommit(d) ==
    \E o \in Orders :
        \/ WebhookUnknown(d, o) \/ WebhookRepeated(d, o) \/ WebhookLate(d, o)
        \/ WebhookFinalize(d, o) \/ WebhookFailure(d, o)
----------------------------------------------------------------------------
IntentStep(c) == IntentStart(c) \/ IntentCreated(c) \/ IntentSaved(c) \/ IntentEnded(c)

WebhookStep(d) ==
    WebhookStart(d) \/ WebhookDuplicate(d) \/ WebhookCommit(d) \/ WebhookAborted(d)

CheckoutNext ==
    \/ BookingNext /\ UNCHANGED moneyVars
    \/ \E c \in Intents : IntentStep(c)
    \/ \E e \in Events : Emit(e)
    \/ \E d \in Deliveries : WebhookStep(d)

CheckoutSpec == CheckoutInit /\ [][CheckoutNext]_checkoutVars

\* The provider sends an event until it is acknowledged, the requests with one
\* event do not all fail, nor do all sweeps.  Every request ends in the end, and
\* an open cancellation commits or rolls back.
CheckoutFairness ==
    /\ \A e \in Events, d \in Deliveries :
        /\ SF_checkoutVars(WebhookStart(d) /\ webhook'[d].event = e /\ e \notin recorded)
        /\ SF_checkoutVars(WebhookCommit(d) /\ webhook[d].event = e)
    /\ \A d \in Deliveries :
        WF_checkoutVars(WebhookDuplicate(d) \/ WebhookCommit(d) \/ WebhookAborted(d))
    /\ \A c \in Cancels :
        WF_checkoutVars((CancelCommit(c) \/ CancelAbort(c)) /\ UNCHANGED moneyVars)
    /\ \A w \in Workers : SF_checkoutVars(SweepCommit(w) /\ UNCHANGED moneyVars)

FairCheckoutSpec == CheckoutSpec /\ CheckoutFairness
----------------------------------------------------------------------------
(* Properties.                                                             *)

\* Order, payment, tickets and delivery event agree: a paid order has a
\* successful payment, a ticket for each of its seats and one delivery event,
\* and an order that is not paid has none of them, whatever the provider
\* repeats, reorders or contradicts.
PaidOrdersSettled ==
    \A o \in Orders :
        LET issued == {s \in Seats : <<o, s>> \in ticketed}
        IN  IF order[o].status = "PAID"
            THEN payment[o] = "SUCCEEDED" /\ issued = ItemsOf(o) /\ outbox[o] = 1
            ELSE payment[o] # "SUCCEEDED" /\ issued = {} /\ outbox[o] = 0

\* Money is marked for refund only when the order is over and holds nothing.
RefundsReleased ==
    \A o \in Orders : payment[o] = "REFUND_PENDING" =>
        /\ order[o].status \in {"EXPIRED", "CANCELLED"}
        /\ \A s \in Seats : seat[s].holder # o

\* A sold seat was sold to somebody: a paid order has a ticket for it.
SoldSeatsTicketed ==
    \A s \in Seats : seat[s].status = "SOLD" =>
        \E o \in Orders : order[o].status = "PAID" /\ <<o, s>> \in ticketed

PaidBy(o) ==
    \E d \in Deliveries :
        LET e == webhook[d].event
        IN  /\ e \in recorded' \ recorded
            /\ emitted[e] = [of |-> o, kind |-> "SUCCEEDED"]
            /\ webhook[d].now < order[o].expires

LegalCheckoutChange ==
    /\ \A o \in Orders : order'[o].status # order[o].status =>
        \/ ~Exists(o) /\ order'[o].status = "PENDING_PAYMENT"
        \/ Pending(o) /\ order'[o].status = "CANCELLED"
        \/ Pending(o) /\ order'[o].status = "EXPIRED" /\ order[o].expires <= clock
        \/ Pending(o) /\ order'[o].status = "PAID" /\ PaidBy(o)
    /\ \A o \in Orders : payment[o] \in {"SUCCEEDED", "REFUND_PENDING"} =>
        payment'[o] = payment[o]
    /\ \A s \in Seats : seat[s].status = "SOLD" => seat'[s] = seat[s]

\* Only a pending order ends, expired when it is due or paid by a success
\* event that was received in time; what is sold, paid or due for refund stays
\* so: no later event, retry, sweep or takeover of the seat undoes it.
CheckoutLifecycle == [][LegalCheckoutChange]_checkoutVars

TimelySale ==
    \A o \in Orders : Live(o) /\ order'[o].status = "PAID" =>
        \A s \in ItemsOf(o) : seat[s].status # "SOLD" /\ seat'[s].status = "SOLD"

\* An order that is paid before its deadline gets every one of its seats, and
\* nobody had any of them before.
TimelyPaymentSells == [][TimelySale]_checkoutVars

\* A success that the provider reports of a stored payment is accounted for in
\* the end, although requests fail, repeat and wait for locks.
SuccessesSettle ==
    \A e \in Events, o \in Orders :
        /\ emitted[e] = [of |-> o, kind |-> "SUCCEEDED"]
        /\ e \notin recorded
        /\ payment[o] # "NONE"
        ~> payment[o] \in {"SUCCEEDED", "REFUND_PENDING"}

\* docs/architecture.md: seats are "marked SOLD" if "the order is still
\* valid", and a seat "that may already be sold" is not reclaimed: no seat is
\* ticketed to two orders.
NoDoubleSale ==
    \A x, y \in ticketed : x[2] = y[2] => x[1] = y[1]

LateSuccess ==
    \A e \in recorded' \ recorded :
        LET o == emitted[e].of
        IN  emitted[e].kind = "SUCCEEDED" /\ order[o].expires <= clock
            => payment'[o] \in {"SUCCEEDED", "REFUND_PENDING"}

\* README.md: "A successful payment received after hold expiry is retained as
\* REFUND_PENDING" (or it was accepted just before).
LateSuccessRetained == [][LateSuccess]_checkoutVars
=============================================================================
