------------------------------ MODULE Tickets ------------------------------
(***************************************************************************)
(* Delivery and check-in of tickets: internal/tickets/service.go over      *)
(* internal/postgres/tickets_repository.go, and the delivery worker that   *)
(* cmd/api/main.go runs in every API process.                              *)
(*                                                                         *)
(* An outbox event is claimed for a lease, handed to the notifier outside  *)
(* of any transaction, and then completed or put back, with the clock value *)
(* that was read before the claim.  Times are kept relative to the present  *)
(* so that time can pass for ever: due[e] is available_at minus the clock,  *)
(* and age is how long ago a worker has read its clock.                     *)
(***************************************************************************)
EXTENDS Integers, FiniteSets

CONSTANTS
    Events,         \* outbox events, one for each paid order
    Tickets,
    EventOf,        \* the event that was enqueued together with each ticket
    Workers,        \* delivery workers, one per API process
    Scans,          \* CheckInTicket calls
    Lease,          \* lease and retry delay (main.go: 1 minute for both)
    BatchSize,      \* events of one claim (main.go: 100)
    MaxLate,        \* BOUND: how late the claim runs after reading the clock
    NoEvent, NoTicket, Nobody

ASSUME TicketsAssumption ==
    /\ EventOf \in [Tickets -> Events]
    /\ NoEvent \notin Events
    /\ NoTicket \notin Tickets
    /\ Nobody \notin Scans
ASSUME LeaseAssumption ==
    /\ Lease \in Nat \ {0}
    /\ BatchSize \in Nat \ {0}
    /\ MaxLate \in 0 .. Lease

VARIABLES
    outbox,     \* outbox_events.status; "NONE" before the INSERT
    due,        \* time until available_at; -Lease stands for any earlier time
    worker,     \* delivery workers and their batches
    handed,     \* external: how often the notifier accepted each event
    troubled,   \* history: events of which an attempt failed or took too long
    ticket,     \* tickets.status and the scan that set checked_in_at
    rowLock,    \* the transaction that holds a tickets row FOR UPDATE
    scan,       \* CheckInTicket calls
    audit       \* TICKET_CHECKED_IN rows, as <<ticket, scan>>

deliveryVars == <<outbox, due, worker, handed, troubled>>
checkInVars == <<ticket, rowLock, scan, audit>>
ticketVars == <<deliveryVars, checkInVars>>
----------------------------------------------------------------------------
WorkerState == [pc : {"idle", "busy", "delivered", "failed"},
                todo : SUBSET Events,       \* rest of the batch
                event : Events \cup {NoEvent},
                age : 0 .. 2 * Lease]       \* 2 * Lease stands for any longer time

ScanCall == [pc : {"idle", "started", "locked", "done"},
             ticket : Tickets \cup {NoTicket},
             seen : {"NONE", "ISSUED", "USED"},
             reply : {"none", "checked_in", "already_used", "error"}]

TicketsTypeOK ==
    /\ outbox \in [Events -> {"NONE", "PENDING", "PROCESSING", "COMPLETED"}]
    /\ due \in [Events -> -Lease .. Lease]
    /\ worker \in [Workers -> WorkerState]
    /\ handed \in [Events -> 0 .. 2]
    /\ troubled \subseteq Events
    /\ ticket \in [Tickets -> [status : {"NONE", "ISSUED", "USED"},
                               usedBy : Scans \cup {Nobody}]]
    /\ rowLock \in [Tickets -> Scans \cup {Nobody}]
    /\ scan \in [Scans -> ScanCall]
    /\ audit \subseteq Tickets \X Scans

IdleWorker == [pc |-> "idle", todo |-> {}, event |-> NoEvent, age |-> 0]

TicketsInit ==
    /\ outbox = [e \in Events |-> "NONE"]
    /\ due = [e \in Events |-> 0]
    /\ worker = [w \in Workers |-> IdleWorker]
    /\ handed = [e \in Events |-> 0]
    /\ troubled = {}
    /\ ticket = [t \in Tickets |-> [status |-> "NONE", usedBy |-> Nobody]]
    /\ rowLock = [t \in Tickets |-> Nobody]
    /\ scan = [s \in Scans |-> [pc |-> "idle", ticket |-> NoTicket,
                                seen |-> "NONE", reply |-> "none"]]
    /\ audit = {}

\* finalizePaidOrder issues the tickets and enqueues their delivery.
Requested(e) ==
    /\ outbox[e] = "NONE"
    /\ outbox' = [outbox EXCEPT ![e] = "PENDING"]
    /\ due' = [due EXCEPT ![e] = 0]
    /\ ticket' = [t \in Tickets |-> IF EventOf[t] = e
                                    THEN [status |-> "ISSUED", usedBy |-> Nobody]
                                    ELSE ticket[t]]
    /\ UNCHANGED <<worker, handed, troubled, rowLock, scan, audit>>
----------------------------------------------------------------------------
(* DeliverPending.                                                         *)

\* Events a worker has claimed and not yet dealt with.
Holding(w) ==
    worker[w].todo \cup ({worker[w].event} \cap Events)

Overdue(w) == worker[w].age >= Lease

\* Worker w with another state, event and age, and the same rest of its batch.
At(w, pc, e, age) ==
    [pc |-> pc, todo |-> worker[w].todo \ {e}, event |-> e, age |-> age]

\* Time passes, and leases run out.
Tick ==
    /\ due' = [e \in Events |-> IF due[e] > -Lease THEN due[e] - 1 ELSE due[e]]
    /\ worker' = [w \in Workers |->
                    IF worker[w].pc = "idle" \/ worker[w].age = 2 * Lease THEN worker[w]
                    ELSE At(w, worker[w].pc, worker[w].event, worker[w].age + 1)]
    /\ troubled' = troubled \cup
        UNION {Holding(w) : w \in {v \in Workers : worker'[v].age >= Lease}}
    /\ UNCHANGED <<outbox, handed, checkInVars>>

\* Fault: an event in progress is taken whether or not its lease has run out.
ClaimableAnyLease(late) ==
    {e \in Events : \/ outbox[e] = "PENDING" /\ due[e] <= -late
                    \/ outbox[e] = "PROCESSING"}

\* Fault: only pending events are claimed, so an abandoned one stays behind.
ClaimableIfPending(late) ==
    {e \in Events : outbox[e] = "PENDING" /\ due[e] <= -late}

\* status IN ('PENDING', 'PROCESSING') AND available_at <= the clock as the
\* worker has read it.
Claimable(late) ==
    {e \in Events : outbox[e] \in {"PENDING", "PROCESSING"} /\ due[e] <= -late}

\* ORDER BY available_at LIMIT BatchSize; rows that other workers are about to
\* complete or to put back are locked and may be skipped.
ClaimBatches(w, late) ==
    {b \in SUBSET Claimable(late) :
        LET skipped == {e \in Claimable(late) \ b :
                          \E v \in Workers \ {w} : worker[v].event = e}
            left == Claimable(late) \ (b \cup skipped)
        IN  /\ Cardinality(b) <= BatchSize
            /\ left # {} => Cardinality(b) = BatchSize
            /\ \A e \in b, f \in left : due[e] <= due[f]}

\* The worker's ticker fires: read the clock, then claim a batch.
Claim(w) ==
    /\ worker[w].pc = "idle"
    /\ \E late \in 0 .. MaxLate :
        \E b \in ClaimBatches(w, late) \ {{}} :
            /\ outbox' = [e \in Events |-> IF e \in b THEN "PROCESSING" ELSE outbox[e]]
            /\ due' = [e \in Events |-> IF e \in b THEN Lease - late ELSE due[e]]
            /\ worker' = [worker EXCEPT ![w] = [pc |-> "busy", todo |-> b,
                                                event |-> NoEvent, age |-> late]]
            /\ troubled' = IF late >= Lease THEN troubled \cup b ELSE troubled
    /\ UNCHANGED <<handed, checkInVars>>

\* BOUND: the notifier's acceptances are counted up to two.
Handed(e) == [handed EXCEPT ![e] = IF handed[e] < 2 THEN handed[e] + 1 ELSE 2]

Outcome(w, e, pc) ==
    worker' = [worker EXCEPT ![w] = At(w, pc, e, worker[w].age)]

\* LoadDelivery finds the paid order and its tickets, and the notifier
\* accepts them.  A batch comes back in any order.
Deliver(w, e) ==
    /\ worker[w].pc = "busy"
    /\ e \in worker[w].todo
    /\ Outcome(w, e, "delivered")
    /\ handed' = Handed(e)
    /\ UNCHANGED <<outbox, due, troubled, checkInVars>>

\* Loading or notifying fails; a notifier that reports an error may have sent
\* the tickets all the same.
DeliverFails(w, e) ==
    /\ worker[w].pc = "busy"
    /\ e \in worker[w].todo
    /\ Outcome(w, e, "failed")
    /\ \/ handed' = Handed(e)
       \/ UNCHANGED handed
    /\ troubled' = troubled \cup {e}
    /\ UNCHANGED <<outbox, due, checkInVars>>

\* On to the next event; a worker with an empty batch waits for its ticker.
NextEvent(w) ==
    worker' = [worker EXCEPT ![w] =
        IF worker[w].todo = {} THEN IdleWorker
        ELSE At(w, "busy", NoEvent, worker[w].age)]

\* Fault: WHERE lacks AND status = 'PROCESSING'.
InAnyState(w) == TRUE

InProgress(w) == outbox[worker[w].event] = "PROCESSING"

Complete(w) ==
    /\ worker[w].pc = "delivered"
    /\ InProgress(w)
    /\ outbox' = [outbox EXCEPT ![worker[w].event] = "COMPLETED"]
    /\ NextEvent(w)
    /\ UNCHANGED <<due, handed, troubled, checkInVars>>

\* Fault: the retry delay is added to the lease.
LeaseAndDelay(w) == 2 * Lease - worker[w].age

\* available_at = clock as read before the claim + retry delay.
RetryDue(w) ==
    IF Lease - worker[w].age > -Lease THEN Lease - worker[w].age ELSE -Lease

\* Fault: a failed delivery is closed like a successful one.
ClosedByRetry == "COMPLETED"

AfterRetry == "PENDING"

Retry(w) ==
    /\ worker[w].pc = "failed"
    /\ InProgress(w)
    /\ outbox' = [outbox EXCEPT ![worker[w].event] = AfterRetry]
    /\ due' = [due EXCEPT ![worker[w].event] = RetryDue(w)]
    /\ NextEvent(w)
    /\ UNCHANGED <<handed, troubled, checkInVars>>

\* Some other worker has completed the event or put it back: "event not
\* claimed".  DeliverPending returns the error and drops the rest of its batch.
NotClaimed(w) ==
    /\ worker[w].pc \in {"delivered", "failed"}
    /\ ~InProgress(w)
    /\ worker' = [worker EXCEPT ![w] = IdleWorker]
    /\ troubled' = troubled \cup Holding(w)
    /\ UNCHANGED <<outbox, due, handed, checkInVars>>

\* The database fails, or the process dies: the batch waits for its lease.
Abandon(w) ==
    /\ worker[w].pc # "idle"
    /\ worker' = [worker EXCEPT ![w] = IdleWorker]
    /\ troubled' = troubled \cup Holding(w)
    /\ UNCHANGED <<outbox, due, handed, checkInVars>>
----------------------------------------------------------------------------
(* CheckInTicket.                                                          *)

ScanStart(s) ==
    /\ scan[s].pc = "idle"
    /\ \E t \in Tickets :
        scan' = [scan EXCEPT ![s] = [pc |-> "started", ticket |-> t,
                                     seen |-> "NONE", reply |-> "none"]]
    /\ UNCHANGED <<deliveryVars, ticket, rowLock, audit>>

\* Fault: the ticket is read without FOR UPDATE.
ReadFreely(t) == TRUE

RowFree(t) == rowLock[t] = Nobody

\* findAdminTicket ... FOR UPDATE OF t.
ScanLock(s) ==
    LET t == scan[s].ticket
    IN  /\ scan[s].pc = "started"
        /\ RowFree(t)
        /\ ticket[t].status # "NONE"
        /\ rowLock' = [rowLock EXCEPT ![t] = s]
        /\ scan' = [scan EXCEPT ![s] = [pc |-> "locked", ticket |-> t,
                                        seen |-> ticket[t].status, reply |-> "none"]]
        /\ UNCHANGED <<deliveryVars, ticket, audit>>

ScanEnd(s, reply) ==
    /\ scan' = [scan EXCEPT ![s] = [pc |-> "done", ticket |-> scan[s].ticket,
                                    seen |-> scan[s].seen, reply |-> reply]]
    /\ rowLock' = [t \in Tickets |-> IF rowLock[t] = s THEN Nobody ELSE rowLock[t]]

\* Mark the ticket used, record the audit event, commit.  An administrator
\* whose connection breaks at the commit sees an error.
ScanCommit(s) ==
    LET t == scan[s].ticket
    IN  /\ scan[s].pc = "locked"
        /\ scan[s].seen = "ISSUED"
        /\ ticket' = [ticket EXCEPT ![t] = [status |-> "USED", usedBy |-> s]]
        /\ audit' = audit \cup {<<t, s>>}
        /\ \E reply \in {"checked_in", "error"} : ScanEnd(s, reply)
        /\ UNCHANGED deliveryVars

ScanRepeated(s) ==
    /\ scan[s].pc = "locked"
    /\ scan[s].seen = "USED"
    /\ ScanEnd(s, "already_used")
    /\ UNCHANGED <<deliveryVars, ticket, audit>>

\* No such ticket, or an error: roll back.
ScanFails(s) ==
    /\ scan[s].pc \in {"started", "locked"}
    /\ ScanEnd(s, "error")
    /\ UNCHANGED <<deliveryVars, ticket, audit>>
----------------------------------------------------------------------------
WorkerStep(w) ==
    \/ Claim(w) \/ Complete(w) \/ Retry(w) \/ NotClaimed(w) \/ Abandon(w)
    \/ \E e \in Events : Deliver(w, e) \/ DeliverFails(w, e)

ScanStep(s) ==
    ScanStart(s) \/ ScanLock(s) \/ ScanCommit(s) \/ ScanRepeated(s) \/ ScanFails(s)

TicketsNext ==
    \/ Tick
    \/ \E e \in Events : Requested(e)
    \/ \E w \in Workers : WorkerStep(w)
    \/ \E s \in Scans : ScanStep(s)

TicketsSpec == TicketsInit /\ [][TicketsNext]_ticketVars

\* Time passes and the tickers fire.  A worker does not stop in the middle of
\* its batch.  Not every delivery of an event fails, nor every update.
TicketsFairness ==
    /\ WF_ticketVars(Tick)
    /\ \A w \in Workers :
        /\ WF_ticketVars(Claim(w))
        /\ WF_ticketVars(WorkerStep(w) /\ worker[w].pc # "idle")
        /\ SF_ticketVars(Complete(w))
        /\ \A e \in Events : SF_ticketVars(Deliver(w, e))

FairTicketsSpec == TicketsSpec /\ TicketsFairness
----------------------------------------------------------------------------
(* Properties.                                                             *)

\* The outbox closes an event only after the notifier has accepted it, also
\* when several workers, some of them past their lease, work on it.
CompletedDelivered ==
    \A e \in Events : outbox[e] = "COMPLETED" => handed[e] > 0

\* Without a failed, abandoned or overlong attempt a customer gets the tickets
\* of an order once: a lease keeps all other workers away for its duration.
DeliveredOnce ==
    \A e \in Events : handed[e] > 1 => e \in troubled

\* A delivery that was completed is never reopened, not even by a worker that
\* comes late with a failure of its own.
CompletedForGood ==
    [][\A e \in Events : outbox[e] = "COMPLETED" => outbox'[e] = "COMPLETED"]_ticketVars

\* However many scanners read a ticket at once, at most one of them is told to
\* let the guest in, the audit log has exactly that scan, and the ticket
\* keeps the time of it.
CheckedInOnce ==
    \A t \in Tickets :
        LET by == {s \in Scans : <<t, s>> \in audit}
            welcomed == {s \in Scans : scan[s].ticket = t /\ scan[s].reply = "checked_in"}
        IN  /\ by = {ticket[t].usedBy} \ {Nobody}
            /\ welcomed \subseteq by
            /\ ticket[t].status = "USED" <=> ticket[t].usedBy # Nobody

\* A transaction that has read a ticket's row still holds its lock, and what
\* it read there still holds; a scan writes its audit event as it ends.
ScansConsistent ==
    /\ \A s \in Scans :
        LET t == scan[s].ticket
        IN  /\ scan[s].pc \in {"started", "locked"} => t \in Tickets
            /\ scan[s].pc = "locked" => /\ rowLock[t] = s
                                       /\ scan[s].seen = ticket[t].status
                                       /\ scan[s].seen # "NONE"
            /\ scan[s].pc # "done" => scan[s].reply = "none"
    /\ \A a \in audit : scan[a[2]].pc = "done"
    /\ \A t \in Tickets : outbox[EventOf[t]] = "NONE" <=> ticket[t].status = "NONE"

\* What a worker has in its hands was requested, and its own results stand.
WorkerConsistent(w) ==
    /\ worker[w].pc = "idle" => worker[w] = IdleWorker
    /\ worker[w].pc = "busy" => worker[w].event = NoEvent
    /\ worker[w].pc \in {"delivered", "failed"} => worker[w].event \in Events
    /\ worker[w].pc = "delivered" => handed[worker[w].event] > 0
    /\ worker[w].pc = "failed" => worker[w].event \in troubled
    /\ worker[w].event \notin worker[w].todo
    /\ \A e \in Holding(w) : outbox[e] # "NONE"

WorkersConsistent == \A w \in Workers : WorkerConsistent(w)

\* The lease of worker w on e holds, and no other worker has e.
LeaseHeld(w, e) ==
    /\ outbox[e] = "PROCESSING"
    /\ due[e] = Lease - worker[w].age
    /\ worker[w].age < Lease
    /\ \A v \in Workers : e \in Holding(v) => v = w

\* An event that never was in trouble is in the hands of one worker while it is
\* PROCESSING, as long as the lease lasts, and of none before and afterwards.
LeaseRespected(e) ==
    /\ outbox[e] = "NONE" => handed[e] = 0 /\ e \notin troubled
    /\ e \notin troubled =>
        /\ outbox[e] = "PENDING" => handed[e] = 0
        /\ outbox[e] = "PROCESSING" =>
             \E w \in Workers : /\ e \in Holding(w)
                                /\ worker[w].event # e => handed[e] = 0
        /\ \A w \in Workers : e \in Holding(w) => LeaseHeld(w, e)

LeasesRespected == \A e \in Events : LeaseRespected(e)

\* The inductive invariant.
TicketsInv ==
    /\ TicketsTypeOK
    /\ ScansConsistent
    /\ WorkersConsistent
    /\ LeasesRespected
    /\ CompletedDelivered
    /\ DeliveredOnce
    /\ CheckedInOnce

\* Every delivery that was requested is completed, although deliveries fail,
\* batches are dropped and processes die.
DeliveriesEnd ==
    \A e \in Events : outbox[e] = "PENDING" ~> outbox[e] = "COMPLETED"

\* internal/tickets/service.go: "delivery failures do not stop unrelated
\* events in the batch": the step after a failure goes on with the rest,
\* unless the database fails or the process dies.
FailureContained ==
    [][\A w \in Workers :
        NotClaimed(w) /\ worker[w].pc = "failed" => worker[w].todo = {}]_ticketVars
=============================================================================
