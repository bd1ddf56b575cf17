--------------------------- MODULE TicketsProofs ---------------------------
(***************************************************************************)
(* Theorems about Tickets, for any number of events, tickets, workers and  *)
(* scans and any lease.  Check-in and delivery share only Requested, so    *)
(* each part of the invariant is disturbed by one of the two halves of the *)
(* next-state relation.                                                    *)
(***************************************************************************)
EXTENDS Tickets, TLAPS

USE TicketsAssumption, LeaseAssumption

\* A step is one of the delivery worker or its clock, of a scanner, or a request.
DeliveryNext ==
    \/ Tick
    \/ \E w \in Workers : WorkerStep(w)

ScansNext == \E s \in Scans : ScanStep(s)

LEMMA StepKinds ==
    ASSUME TicketsNext
    PROVE  DeliveryNext \/ ScansNext \/ \E e \in Events : Requested(e)
BY DEF TicketsNext, DeliveryNext, ScansNext

LEMMA DeliveryFrame ==
    ASSUME DeliveryNext
    PROVE  UNCHANGED checkInVars
BY DEF DeliveryNext, Tick, WorkerStep, Claim, Deliver, DeliverFails, Complete,
       Retry, NotClaimed, Abandon

LEMMA ScansFrame ==
    ASSUME ScansNext
    PROVE  UNCHANGED deliveryVars
BY DEF ScansNext, ScanStep, ScanStart, ScanLock, ScanCommit, ScanRepeated, ScanFails

\* An event that has been requested stays requested.
LEMMA RequestedStays ==
    ASSUME TicketsInv, DeliveryNext, NEW e \in Events
    PROVE  outbox'[e] = "NONE" <=> outbox[e] = "NONE"
<1> USE DEF TicketsInv, TicketsTypeOK, WorkerState
<1>1. CASE Tick
  BY <1>1 DEF Tick
<1>2. ASSUME NEW w \in Workers, Claim(w)
      PROVE  outbox'[e] = "NONE" <=> outbox[e] = "NONE"
  BY <1>2 DEF Claim, ClaimBatches, Claimable
<1>3. ASSUME NEW w \in Workers, NEW f \in Events, Deliver(w, f) \/ DeliverFails(w, f)
      PROVE  outbox'[e] = "NONE" <=> outbox[e] = "NONE"
  BY <1>3 DEF Deliver, DeliverFails
<1>4. ASSUME NEW w \in Workers, Complete(w) \/ Retry(w)
      PROVE  outbox'[e] = "NONE" <=> outbox[e] = "NONE"
  BY <1>4 DEF Complete, Retry, InProgress, AfterRetry
<1>5. ASSUME NEW w \in Workers, NotClaimed(w) \/ Abandon(w)
      PROVE  outbox'[e] = "NONE" <=> outbox[e] = "NONE"
  BY <1>5 DEF NotClaimed, Abandon
<1> QED
  BY <1>1, <1>2, <1>3, <1>4, <1>5 DEF DeliveryNext, WorkerStep

\* What a claim of batch b writes.
Claimed(w, late, b) ==
    /\ b \subseteq Claimable(late)
    /\ outbox' = [e \in Events |-> IF e \in b THEN "PROCESSING" ELSE outbox[e]]
    /\ due' = [e \in Events |-> IF e \in b THEN Lease - late ELSE due[e]]
    /\ worker' = [worker EXCEPT ![w] = [pc |-> "busy", todo |-> b,
                                        event |-> NoEvent, age |-> late]]
    /\ troubled' = IF late >= Lease THEN troubled \cup b ELSE troubled
    /\ UNCHANGED handed

LEMMA ClaimEffect ==
    ASSUME NEW w \in Workers, Claim(w)
    PROVE  \E late \in 0 .. MaxLate, b \in SUBSET Events : Claimed(w, late, b)
<1>1. PICK late \in 0 .. MaxLate :
        \E b \in SUBSET Claimable(late) : Claimed(w, late, b)
  BY DEF Claim, ClaimBatches, Claimed
<1> QED
  BY <1>1 DEF Claimable
----------------------------------------------------------------------------
(* Well-formedness.                                                        *)

\* The state of a worker after any step of its own.
LEMMA WorkerStateAt ==
    ASSUME TicketsTypeOK, NEW w \in Workers,
           NEW pc \in {"idle", "busy", "delivered", "failed"},
           NEW e \in Events \cup {NoEvent}, NEW age \in 0 .. 2 * Lease
    PROVE  At(w, pc, e, age) \in WorkerState
BY DEF TicketsTypeOK, At, WorkerState

LEMMA IdleWorkerType == IdleWorker \in WorkerState
BY DEF IdleWorker, WorkerState

LEMMA DeliveryType ==
    ASSUME TicketsInv, DeliveryNext
    PROVE  TicketsTypeOK'
<1> USE DEF TicketsInv
<1>1. UNCHANGED <<ticket, rowLock, scan, audit>>
  BY DeliveryFrame DEF checkInVars
<1> SUFFICES /\ outbox' \in [Events -> {"NONE", "PENDING", "PROCESSING", "COMPLETED"}]
             /\ due' \in [Events -> -Lease .. Lease]
             /\ worker' \in [Workers -> WorkerState]
             /\ handed' \in [Events -> 0 .. 2]
             /\ troubled' \subseteq Events
  BY <1>1 DEF TicketsTypeOK
<1>2. \A w \in Workers : worker[w] \in WorkerState /\ Holding(w) \subseteq Events
  BY DEF TicketsTypeOK, WorkerState, Holding
<1>3. CASE Tick
  <2>1. due' \in [Events -> -Lease .. Lease]
    BY <1>3 DEF Tick, TicketsTypeOK
  <2>2. \A w \in Workers : worker[w].pc # "idle" /\ worker[w].age # 2 * Lease
            => At(w, worker[w].pc, worker[w].event, worker[w].age + 1) \in WorkerState
    BY <1>2 DEF At, WorkerState
  <2>3. worker' \in [Workers -> WorkerState]
    BY <1>2, <1>3, <2>2 DEF Tick
  <2>4. troubled' \subseteq Events
    BY <1>2, <1>3 DEF Tick, TicketsTypeOK
  <2> QED
    BY <1>3, <2>1, <2>3, <2>4 DEF Tick, TicketsTypeOK
<1>4. ASSUME NEW w \in Workers, Claim(w)
      PROVE  TicketsTypeOK'
  <2>1. PICK late \in 0 .. MaxLate, b \in SUBSET Events :
          Claimed(w, late, b)
    BY <1>4, ClaimEffect
  <2>2. b \subseteq Events
    OBVIOUS
  <2>3. late \in 0 .. 2 * Lease /\ Lease - late \in -Lease .. Lease
    OBVIOUS
  <2>4. worker' \in [Workers -> WorkerState]
    BY <2>1, <2>2, <2>3 DEF Claimed, WorkerState, TicketsTypeOK
  <2> QED
    BY <1>1, <1>4, <2>1, <2>2, <2>3, <2>4 DEF Claim, Claimed, TicketsTypeOK
<1>5. ASSUME NEW w \in Workers, NEW e \in Events, Deliver(w, e) \/ DeliverFails(w, e)
      PROVE  TicketsTypeOK'
  <2>1. worker' \in [Workers -> WorkerState]
    <3>1. \A pc \in {"delivered", "failed"} :
            At(w, pc, e, worker[w].age) \in WorkerState
      BY <1>2, WorkerStateAt DEF WorkerState
    <3> QED
      BY <1>5, <3>1 DEF Deliver, DeliverFails, Outcome, TicketsTypeOK
  <2>2. handed' \in [Events -> 0 .. 2]
    BY <1>5 DEF Deliver, DeliverFails, Handed, TicketsTypeOK
  <2> QED
    BY <1>1, <1>5, <2>1, <2>2 DEF Deliver, DeliverFails, TicketsTypeOK
<1>6. ASSUME NEW w \in Workers, Complete(w) \/ Retry(w)
      PROVE  TicketsTypeOK'
  <2>1. worker[w].event \in Events
    BY <1>6 DEF WorkersConsistent, WorkerConsistent, Complete, Retry
  <2>2. worker' \in [Workers -> WorkerState]
    <3>1. At(w, "busy", NoEvent, worker[w].age) \in WorkerState
      BY <1>2, WorkerStateAt DEF WorkerState
    <3> QED
      BY <1>6, <3>1, IdleWorkerType DEF Complete, Retry, NextEvent, TicketsTypeOK
  <2>3. RetryDue(w) \in -Lease .. Lease
    BY <1>2 DEF RetryDue, WorkerState
  <2>4. due' \in [Events -> -Lease .. Lease]
    BY <1>6, <2>3 DEF Complete, Retry, TicketsTypeOK
  <2> QED
    BY <1>1, <1>6, <2>1, <2>2, <2>4 DEF Complete, Retry, AfterRetry, TicketsTypeOK
<1>7. ASSUME NEW w \in Workers, NotClaimed(w) \/ Abandon(w)
      PROVE  TicketsTypeOK'
  BY <1>1, <1>2, <1>7, IdleWorkerType DEF NotClaimed, Abandon, TicketsTypeOK
<1> QED
  BY <1>3, <1>4, <1>5, <1>6, <1>7 DEF DeliveryNext, WorkerStep, TicketsTypeOK

LEMMA ScansType ==
    ASSUME TicketsInv, ScansNext
    PROVE  TicketsTypeOK'
<1> USE DEF TicketsInv, TicketsTypeOK, ScanCall
<1>1. UNCHANGED <<outbox, due, worker, handed, troubled>>
  BY ScansFrame DEF deliveryVars
<1>2. ASSUME NEW s \in Scans, ScanStart(s)
      PROVE  TicketsTypeOK'
  BY <1>1, <1>2 DEF ScanStart
<1>3. ASSUME NEW s \in Scans, ScanLock(s)
      PROVE  TicketsTypeOK'
  BY <1>1, <1>3 DEF ScanLock, ScansConsistent
<1>4. ASSUME NEW s \in Scans, NEW reply \in {"checked_in", "already_used", "error"},
             ScanEnd(s, reply)
      PROVE  /\ scan' \in [Scans -> ScanCall]
             /\ rowLock' \in [Tickets -> Scans \cup {Nobody}]
  BY <1>4 DEF ScanEnd
<1>5. ASSUME NEW s \in Scans, ScanCommit(s)
      PROVE  TicketsTypeOK'
  BY <1>1, <1>4, <1>5 DEF ScanCommit, ScansConsistent
<1>6. ASSUME NEW s \in Scans, ScanRepeated(s) \/ ScanFails(s)
      PROVE  TicketsTypeOK'
  BY <1>1, <1>4, <1>6 DEF ScanRepeated, ScanFails
<1> QED
  BY <1>2, <1>3, <1>5, <1>6 DEF ScansNext, ScanStep

LEMMA RequestType ==
    ASSUME TicketsInv, NEW e \in Events, Requested(e)
    PROVE  TicketsTypeOK'
BY DEF TicketsInv, TicketsTypeOK, Requested

LEMMA TypeStep ==
    ASSUME TicketsInv, TicketsNext
    PROVE  TicketsTypeOK'
BY StepKinds, DeliveryType, ScansType, RequestType
----------------------------------------------------------------------------
(* Check-in.                                                               *)

\* A request touches only tickets that did not exist, so none that is locked.
LEMMA RequestScans ==
    ASSUME TicketsInv, NEW e \in Events, Requested(e)
    PROVE  ScansConsistent' /\ CheckedInOnce'
<1> USE DEF TicketsInv, TicketsTypeOK, ScanCall
<1>1. /\ UNCHANGED <<rowLock, scan, audit>>
      /\ \A t \in Tickets : outbox'[EventOf[t]] = "NONE" <=> ticket'[t].status = "NONE"
      /\ \A t \in Tickets : ticket[t].status # "NONE" => ticket'[t] = ticket[t]
      /\ \A t \in Tickets : ticket'[t].usedBy = ticket[t].usedBy
      /\ \A t \in Tickets : ticket'[t].status = "USED" <=> ticket[t].status = "USED"
  BY DEF Requested, ScansConsistent, CheckedInOnce
<1>2. ScansConsistent'
  BY <1>1 DEF ScansConsistent
<1>3. CheckedInOnce'
  BY <1>1 DEF CheckedInOnce
<1> QED
  BY <1>2, <1>3

LEMMA DeliveryScans ==
    ASSUME TicketsInv, DeliveryNext
    PROVE  ScansConsistent' /\ CheckedInOnce'
<1>1. UNCHANGED <<ticket, rowLock, scan, audit>>
  BY DeliveryFrame DEF checkInVars
<1>2. \A t \in Tickets : outbox'[EventOf[t]] = "NONE" <=> outbox[EventOf[t]] = "NONE"
  BY RequestedStays
<1> QED
  BY <1>1, <1>2 DEF TicketsInv, ScansConsistent, CheckedInOnce

\* A scan that ends without a check-in leaves tickets and audit log alone.
LEMMA ScanEndsQuietly ==
    ASSUME TicketsInv, NEW s \in Scans, scan[s].pc \in {"started", "locked"},
           NEW reply \in {"already_used", "error"}, ScanEnd(s, reply),
           UNCHANGED <<deliveryVars, ticket, audit>>
    PROVE  ScansConsistent' /\ CheckedInOnce'
<1> USE DEF TicketsInv, TicketsTypeOK, ScanCall, ScanEnd, deliveryVars
<1>1. ScansConsistent'
  BY DEF ScansConsistent
<1>2. CheckedInOnce'
  BY DEF CheckedInOnce
<1> QED
  BY <1>1, <1>2

\* The scan that checks the ticket in holds its row, and has seen it unused.
LEMMA CommitScans ==
    ASSUME TicketsInv, NEW s \in Scans, ScanCommit(s)
    PROVE  ScansConsistent' /\ CheckedInOnce'
<1> USE DEF TicketsInv, TicketsTypeOK, ScanCall
<1> DEFINE t == scan[s].ticket
<1>1. /\ t \in Tickets /\ rowLock[t] = s /\ ticket[t].status = "ISSUED"
      /\ ticket[t].usedBy = Nobody
      /\ scan[s].pc = "locked"
  BY DEF ScanCommit, ScansConsistent, CheckedInOnce
<1>2. PICK reply \in {"checked_in", "error"} : ScanEnd(s, reply)
  BY DEF ScanCommit
<1>3. /\ ticket' = [ticket EXCEPT ![t] = [status |-> "USED", usedBy |-> s]]
      /\ audit' = audit \cup {<<t, s>>}
      /\ UNCHANGED outbox
  BY DEF ScanCommit, deliveryVars
<1>4. ScansConsistent'
  BY <1>1, <1>2, <1>3 DEF ScansConsistent, ScanEnd
<1>5. ASSUME NEW u \in Tickets
      PROVE  /\ {r \in Scans : <<u, r>> \in audit'} = {ticket'[u].usedBy} \ {Nobody}
             /\ {r \in Scans : scan'[r].ticket = u /\ scan'[r].reply = "checked_in"}
                    \subseteq {r \in Scans : <<u, r>> \in audit'}
             /\ ticket'[u].status = "USED" <=> ticket'[u].usedBy # Nobody
  <2>1. CASE u = t
    BY <1>1, <1>2, <1>3, <2>1 DEF ScanEnd, CheckedInOnce
  <2>2. CASE u # t
    BY <1>1, <1>2, <1>3, <2>2 DEF ScanEnd, CheckedInOnce
  <2> QED
    BY <2>1, <2>2
<1>6. CheckedInOnce'
  BY <1>5 DEF CheckedInOnce
<1> QED
  BY <1>4, <1>6

LEMMA ScansStep ==
    ASSUME TicketsInv, ScansNext
    PROVE  ScansConsistent' /\ CheckedInOnce'
<1> USE DEF TicketsInv, TicketsTypeOK, ScanCall
<1>1. UNCHANGED outbox
  BY ScansFrame DEF deliveryVars
<1>2. ASSUME NEW s \in Scans, ScanStart(s)
      PROVE  ScansConsistent' /\ CheckedInOnce'
  BY <1>1, <1>2 DEF ScanStart, ScansConsistent, CheckedInOnce
<1>3. ASSUME NEW s \in Scans, ScanLock(s)
      PROVE  ScansConsistent' /\ CheckedInOnce'
  BY <1>1, <1>3 DEF ScanLock, RowFree, ScansConsistent, CheckedInOnce
<1>4. ASSUME NEW s \in Scans, ScanRepeated(s) \/ ScanFails(s)
      PROVE  ScansConsistent' /\ CheckedInOnce'
  BY <1>4, ScanEndsQuietly DEF ScanRepeated, ScanFails
<1> QED
  BY <1>2, <1>3, <1>4, CommitScans DEF ScansNext, ScanStep
----------------------------------------------------------------------------
(* Delivery.                                                               *)

\* Acceptances are not forgotten, nor is trouble.
LEMMA HistoryGrows ==
    ASSUME TicketsInv, DeliveryNext
    PROVE  /\ troubled \subseteq troubled'
           /\ \A e \in Events : handed[e] > 0 => handed'[e] > 0
<1> USE DEF TicketsInv, TicketsTypeOK
<1>1. CASE Tick
  BY <1>1 DEF Tick
<1>2. ASSUME NEW w \in Workers, Claim(w)
      PROVE  troubled \subseteq troubled' /\ handed' = handed
  BY <1>2 DEF Claim
<1>3. ASSUME NEW w \in Workers, NEW f \in Events, Deliver(w, f) \/ DeliverFails(w, f)
      PROVE  /\ troubled \subseteq troubled'
             /\ \A e \in Events : handed[e] > 0 => handed'[e] > 0
  BY <1>3 DEF Deliver, DeliverFails, Handed
<1>4. ASSUME NEW w \in Workers,
             Complete(w) \/ Retry(w) \/ NotClaimed(w) \/ Abandon(w)
      PROVE  troubled \subseteq troubled' /\ handed' = handed
  BY <1>4 DEF Complete, Retry, NotClaimed, Abandon
<1> QED
  BY <1>1, <1>2, <1>3, <1>4 DEF DeliveryNext, WorkerStep

\* A worker that a delivery step leaves alone stays consistent.
LEMMA IdleWorkersStep ==
    ASSUME TicketsInv, DeliveryNext, NEW w \in Workers,
           worker'[w].pc = worker[w].pc, worker'[w].event = worker[w].event,
           worker'[w].todo = worker[w].todo,
           worker[w].pc = "idle" => worker'[w] = worker[w]
    PROVE  WorkerConsistent(w)'
<1>1. WorkerConsistent(w)
  BY DEF TicketsInv, WorkersConsistent
<1>2. Holding(w)' = Holding(w) /\ Holding(w) \subseteq Events
  BY DEF Holding, TicketsInv, TicketsTypeOK, WorkerState
<1> QED
  BY <1>1, <1>2, HistoryGrows, RequestedStays DEF WorkerConsistent, IdleWorker

\* Time makes the workers older, and changes nothing else about them.
LEMMA TickWorker ==
    ASSUME TicketsInv, Tick, NEW w \in Workers
    PROVE  /\ worker'[w].pc = worker[w].pc /\ worker'[w].event = worker[w].event
           /\ worker'[w].todo = worker[w].todo
           /\ worker[w].pc = "idle" => worker'[w] = worker[w]
           /\ worker[w].pc # "idle" /\ worker[w].age # 2 * Lease
                => worker'[w].age = worker[w].age + 1
<1>1. \/ worker'[w] = worker[w] /\ (worker[w].pc = "idle" \/ worker[w].age = 2 * Lease)
      \/ /\ worker[w].pc # "idle"
         /\ worker'[w] = At(w, worker[w].pc, worker[w].event, worker[w].age + 1)
  BY DEF Tick
<1>2. worker[w].event \notin worker[w].todo
  BY DEF TicketsInv, WorkersConsistent, WorkerConsistent
<1>3. CASE worker'[w] = At(w, worker[w].pc, worker[w].event, worker[w].age + 1)
           /\ worker[w].pc # "idle"
  <2>1. /\ worker'[w].pc = worker[w].pc /\ worker'[w].event = worker[w].event
        /\ worker'[w].age = worker[w].age + 1
        /\ worker'[w].todo = worker[w].todo \ {worker[w].event}
    BY <1>3 DEF At
  <2>2. worker[w].todo \ {worker[w].event} = worker[w].todo
    BY <1>2
  <2> QED
    BY <1>3, <2>1, <2>2
<1> QED
  BY <1>1, <1>3

LEMMA DeliveryWorkers ==
    ASSUME TicketsInv, DeliveryNext
    PROVE  WorkersConsistent'
<1>1. TicketsTypeOK /\ WorkersConsistent
  BY DEF TicketsInv
<1>2. \A w \in Workers : worker[w] \in WorkerState /\ Holding(w) \subseteq Events
  BY <1>1 DEF TicketsTypeOK, WorkerState, Holding
<1>3. CASE Tick
  BY <1>3, TickWorker, IdleWorkersStep DEF WorkersConsistent
<1>4. ASSUME NEW w \in Workers, WorkerStep(w)
      PROVE  WorkersConsistent'
  <2>1. \A v \in Workers \ {w} : worker'[v] = worker[v]
    BY <1>1, <1>4 DEF WorkerStep, Claim, Deliver, DeliverFails, Outcome, Complete,
                      Retry, NextEvent, NotClaimed, Abandon, TicketsTypeOK
  <2>2. \A v \in Workers \ {w} : WorkerConsistent(v)'
    BY <2>1, IdleWorkersStep DEF Holding
  <2>3. WorkerConsistent(w)
    BY <1>1 DEF WorkersConsistent
  <2>4. ASSUME Claim(w)
        PROVE  WorkerConsistent(w)'
    <3>1. PICK late \in 0 .. MaxLate, b \in SUBSET Events : Claimed(w, late, b)
      BY <2>4, ClaimEffect
    <3>2. worker'[w] = [pc |-> "busy", todo |-> b, event |-> NoEvent, age |-> late]
      BY <1>1, <3>1 DEF Claimed, TicketsTypeOK
    <3>3. \A e \in b : outbox'[e] # "NONE"
      BY <3>1 DEF Claimed
    <3> QED
      BY <3>2, <3>3 DEF WorkerConsistent, Holding
  <2>5. ASSUME NEW e \in Events, Deliver(w, e) \/ DeliverFails(w, e)
        PROVE  WorkerConsistent(w)'
    <3>1. PICK pc \in {"delivered", "failed"} : worker'[w] = At(w, pc, e, worker[w].age)
      BY <1>1, <2>5 DEF Deliver, DeliverFails, Outcome, TicketsTypeOK
    <3>2. Holding(w)' \subseteq Holding(w) /\ outbox' = outbox
      BY <2>5, <3>1 DEF Deliver, DeliverFails, At, Holding
    <3>3. worker'[w].pc = "delivered" => handed'[e] > 0
      BY <1>1, <2>5 DEF Deliver, DeliverFails, Outcome, At, Handed, TicketsTypeOK
    <3>4. worker'[w].pc = "failed" => e \in troubled'
      BY <1>1, <2>5 DEF Deliver, DeliverFails, Outcome, At, TicketsTypeOK
    <3> QED
      BY <2>3, <3>1, <3>2, <3>3, <3>4 DEF WorkerConsistent, At
  <2>6. ASSUME Complete(w) \/ Retry(w) \/ NotClaimed(w) \/ Abandon(w)
        PROVE  WorkerConsistent(w)'
    <3>1. worker'[w] = IdleWorker \/ worker'[w] = At(w, "busy", NoEvent, worker[w].age)
      BY <1>1, <2>6 DEF Complete, Retry, NextEvent, NotClaimed, Abandon, TicketsTypeOK
    <3>2. Holding(w)' \subseteq Holding(w)
      BY <3>1 DEF IdleWorker, At, Holding
    <3>3. \A e \in Holding(w)' : outbox'[e] # "NONE"
      BY <1>2, <2>3, <3>2, RequestedStays DEF WorkerConsistent
    <3> QED
      BY <3>1, <3>3 DEF WorkerConsistent, IdleWorker, At
  <2>7. WorkerConsistent(w)'
    BY <1>4, <2>4, <2>5, <2>6 DEF WorkerStep
  <2> QED
    BY <2>2, <2>7 DEF WorkersConsistent
<1> QED
  BY <1>3, <1>4 DEF DeliveryNext

LEMMA RequestWorkers ==
    ASSUME TicketsInv, NEW e \in Events, Requested(e)
    PROVE  WorkersConsistent'
<1>1. /\ UNCHANGED <<worker, handed, troubled>>
      /\ \A f \in Events : outbox[f] # "NONE" => outbox'[f] # "NONE"
  BY DEF Requested, TicketsInv, TicketsTypeOK
<1>2. \A w \in Workers : Holding(w)' = Holding(w) /\ Holding(w) \subseteq Events
  BY <1>1 DEF Holding, TicketsInv, TicketsTypeOK, WorkerState
<1> QED
  BY <1>1, <1>2 DEF TicketsInv, WorkersConsistent, WorkerConsistent

\* An event that a step does not touch, and whose holders stay at work on the
\* rest of their batches, keeps its lease.
LEMMA LeaseKept ==
    ASSUME NEW e \in Events, LeaseRespected(e),
           outbox'[e] = outbox[e], due'[e] = due[e], handed'[e] = handed[e],
           troubled \subseteq troubled',
           e \in troubled' => e \in troubled \/ outbox[e] # "NONE",
           e \notin troubled' =>
               \A w \in Workers :
                   /\ e \in Holding(w)' <=> e \in Holding(w)
                   /\ e \in Holding(w) => /\ worker'[w].age = worker[w].age
                                          /\ worker[w].event = e => worker'[w].event = e
    PROVE  LeaseRespected(e)'
BY DEF LeaseRespected, LeaseHeld

\* Time ends the leases of the events it does not bring into trouble.
LEMMA TickLeases ==
    ASSUME TicketsInv, Tick, NEW e \in Events
    PROVE  LeaseRespected(e)'
<1>1. LeaseRespected(e)
  BY DEF TicketsInv, LeasesRespected
<1>2. \A w \in Workers : Holding(w)' = Holding(w) /\ worker'[w].event = worker[w].event
  BY TickWorker DEF Holding
<1>3. /\ outbox'[e] = outbox[e] /\ handed'[e] = handed[e]
      /\ troubled \subseteq troubled'
      /\ e \in troubled' => e \in troubled \/ \E w \in Workers : e \in Holding(w)
      /\ \A w \in Workers : e \in Holding(w) /\ e \notin troubled' => ~(worker'[w].age >= Lease)
  BY DEF Tick
<1>4. \A w \in Workers : e \in Holding(w) => outbox[e] # "NONE" /\ worker[w].pc # "idle"
  BY DEF TicketsInv, WorkersConsistent, WorkerConsistent, Holding, IdleWorker
<1>5. ASSUME NEW w \in Workers, e \in Holding(w), e \notin troubled'
      PROVE  due'[e] = Lease - worker'[w].age /\ worker'[w].age < Lease
  <2>1. due[e] = Lease - worker[w].age /\ worker[w].age < Lease
    BY <1>1, <1>3, <1>5 DEF LeaseRespected, LeaseHeld
  <2>2. worker[w].age \in 0 .. 2 * Lease
    BY DEF TicketsInv, TicketsTypeOK, WorkerState
  <2>3. worker'[w].age = worker[w].age + 1
    BY <1>4, <1>5, <2>1, <2>2, TickWorker
  <2>4. due'[e] = due[e] - 1
    BY <2>1, <2>2 DEF Tick
  <2> QED
    BY <1>3, <1>5, <2>1, <2>2, <2>3, <2>4
<1> QED
  BY <1>1, <1>2, <1>3, <1>4, <1>5 DEF LeaseRespected, LeaseHeld

\* A claim hands an event to one worker for a fresh lease.
LEMMA ClaimLeases ==
    ASSUME TicketsInv, NEW w \in Workers, Claim(w), NEW e \in Events
    PROVE  LeaseRespected(e)'
<1>1. LeaseRespected(e) /\ worker[w] = IdleWorker
  BY DEF TicketsInv, LeasesRespected, WorkersConsistent, WorkerConsistent, Claim
<1>2. PICK late \in 0 .. MaxLate, b \in SUBSET Events : Claimed(w, late, b)
  BY ClaimEffect
<1>3. /\ worker'[w] = [pc |-> "busy", todo |-> b, event |-> NoEvent, age |-> late]
      /\ \A v \in Workers \ {w} : worker'[v] = worker[v]
      /\ handed' = handed
      /\ troubled \subseteq troubled'
      /\ outbox'[e] = IF e \in b THEN "PROCESSING" ELSE outbox[e]
      /\ due'[e] = IF e \in b THEN Lease - late ELSE due[e]
  BY <1>2 DEF Claimed, TicketsInv, TicketsTypeOK
<1>4. /\ Holding(w)' = b /\ Holding(w) = {}
      /\ \A v \in Workers \ {w} : Holding(v)' = Holding(v)
  BY <1>1, <1>3 DEF Holding, IdleWorker
<1>5. CASE e \notin b
  <2>1. e \in troubled' => e \in troubled
    BY <1>2, <1>5 DEF Claimed
  <2> QED
    BY <1>1, <1>3, <1>4, <1>5, <2>1, LeaseKept
<1>6. CASE e \in b
  <2>1. outbox[e] \in {"PENDING", "PROCESSING"} /\ due[e] <= -late
    BY <1>2, <1>6 DEF Claimed, Claimable
  <2>2. ASSUME e \notin troubled'
        PROVE  /\ handed[e] = 0
               /\ late < Lease
               /\ \A v \in Workers : e \notin Holding(v)
    <3>1. e \notin troubled /\ late < Lease
      BY <1>2, <1>3, <1>6, <2>2 DEF Claimed
    <3>2. \A v \in Workers : e \in Holding(v) => due[e] > 0
      BY <1>1, <3>1 DEF LeaseRespected, LeaseHeld, TicketsInv, TicketsTypeOK, WorkerState
    <3>3. \A v \in Workers : e \notin Holding(v)
      BY <2>1, <3>2 DEF TicketsInv, TicketsTypeOK
    <3> QED
      BY <1>1, <2>1, <3>1, <3>3 DEF LeaseRespected
  <2>3. e \in Holding(w)' /\ worker'[w].age = late /\ \A v \in Workers : e \in Holding(v)' /\ e \notin troubled' => v = w
    BY <1>3, <1>4, <1>6, <2>2
  <2>4. outbox'[e] = "PROCESSING" /\ due'[e] = Lease - late /\ handed'[e] = handed[e]
    BY <1>3, <1>6
  <2> QED
    BY <2>2, <2>3, <2>4 DEF LeaseRespected, LeaseHeld
<1> QED
  BY <1>5, <1>6

\* The worker that has an event in its hands is the one that hands it over.
LEMMA DeliverLeases ==
    ASSUME TicketsInv, NEW w \in Workers, NEW f \in Events,
           Deliver(w, f) \/ DeliverFails(w, f), NEW e \in Events
    PROVE  LeaseRespected(e)'
<1>1. /\ LeaseRespected(e)
      /\ worker[w].event = NoEvent /\ f \in worker[w].todo
      /\ \A v \in Workers : Holding(v) \subseteq Events
      /\ \A v \in Workers : e \in Holding(v) => outbox[e] # "NONE"
  BY DEF TicketsInv, LeasesRespected, WorkersConsistent, WorkerConsistent, Deliver,
         DeliverFails, Holding, TicketsTypeOK, WorkerState
<1>2. PICK pc \in {"delivered", "failed"} : worker'[w] = At(w, pc, f, worker[w].age)
  BY DEF Deliver, DeliverFails, Outcome, TicketsInv, TicketsTypeOK
<1>3. /\ \A v \in Workers \ {w} : worker'[v] = worker[v]
      /\ outbox' = outbox /\ due' = due
      /\ troubled \subseteq troubled'
      /\ e # f => handed'[e] = handed[e] /\ (e \in troubled' => e \in troubled)
  BY DEF Deliver, DeliverFails, Outcome, Handed, TicketsInv, TicketsTypeOK
<1>4. worker'[w].age = worker[w].age /\ worker'[w].event = f
  BY <1>2 DEF At
<1>5. \A v \in Workers : Holding(v)' = Holding(v)
  BY <1>1, <1>2, <1>3 DEF At, Holding
<1>6. \A v \in Workers : worker'[v].age = worker[v].age
  BY <1>3, <1>4
<1>7. CASE e # f
  BY <1>1, <1>3, <1>4, <1>5, <1>6, <1>7, LeaseKept
<1>8. CASE e = f
  <2>1. e \in Holding(w)
    BY <1>1, <1>8 DEF Holding
  <2> QED
    BY <1>1, <1>3, <1>4, <1>5, <1>6, <1>8, <2>1 DEF LeaseRespected, LeaseHeld
<1> QED
  BY <1>7, <1>8

\* A worker settles an event it has in its hands, and lets go of it.
LEMMA SettleLeases ==
    ASSUME TicketsInv, NEW w \in Workers, Complete(w) \/ Retry(w), NEW e \in Events
    PROVE  LeaseRespected(e)'
<1> DEFINE f == worker[w].event
<1>1. /\ LeaseRespected(e)
      /\ f \in Events /\ f \notin worker[w].todo /\ NoEvent \notin worker[w].todo
      /\ worker[w].pc = "failed" => f \in troubled
  BY DEF TicketsInv, LeasesRespected, WorkersConsistent, WorkerConsistent, Complete,
         Retry, TicketsTypeOK, WorkerState
<1>2. \/ worker'[w] = IdleWorker /\ worker[w].todo = {}
      \/ worker'[w] = At(w, "busy", NoEvent, worker[w].age)
  BY DEF Complete, Retry, NextEvent, TicketsInv, TicketsTypeOK
<1>3. /\ \A v \in Workers \ {w} : worker'[v] = worker[v]
      /\ handed' = handed /\ troubled' = troubled
      /\ e # f => outbox'[e] = outbox[e] /\ due'[e] = due[e]
      /\ outbox'[f] \in {"PENDING", "COMPLETED"}
      /\ f \notin troubled => outbox'[f] = "COMPLETED"
      /\ outbox[f] = "PROCESSING"
  BY <1>1 DEF Complete, Retry, NextEvent, InProgress, AfterRetry, TicketsInv, TicketsTypeOK
<1>4. /\ Holding(w)' = worker[w].todo
      /\ Holding(w) = worker[w].todo \cup {f}
      /\ worker[w].todo # {} => worker'[w].age = worker[w].age
  BY <1>1, <1>2 DEF Holding, At, IdleWorker
<1>5. \A v \in Workers \ {w} : Holding(v)' = Holding(v)
  BY <1>3 DEF Holding
<1>6. CASE e # f
  <2>1. \A v \in Workers :
          /\ e \in Holding(v)' <=> e \in Holding(v)
          /\ e \in Holding(v) => /\ worker'[v].age = worker[v].age
                                 /\ worker[v].event = e => worker'[v].event = e
    BY <1>3, <1>4, <1>5, <1>6
  <2> QED
    BY <1>1, <1>3, <1>6, <2>1, LeaseKept
<1>7. CASE e = f
  <2>1. e \notin troubled => \A v \in Workers : e \notin Holding(v)'
    BY <1>1, <1>4, <1>5, <1>7 DEF LeaseRespected, LeaseHeld
  <2> QED
    BY <1>3, <1>7, <2>1 DEF LeaseRespected
<1> QED
  BY <1>6, <1>7

\* A worker that drops its batch leaves trouble behind.
LEMMA DropLeases ==
    ASSUME TicketsInv, NEW w \in Workers, NotClaimed(w) \/ Abandon(w), NEW e \in Events
    PROVE  LeaseRespected(e)'
<1>1. /\ LeaseRespected(e)
      /\ e \in Holding(w) => outbox[e] # "NONE"
  BY DEF TicketsInv, LeasesRespected, WorkersConsistent, WorkerConsistent
<1>2. /\ worker'[w] = IdleWorker
      /\ \A v \in Workers \ {w} : worker'[v] = worker[v]
      /\ outbox' = outbox /\ due' = due /\ handed' = handed
      /\ troubled' = troubled \cup Holding(w)
  BY DEF NotClaimed, Abandon, TicketsInv, TicketsTypeOK
<1>3. /\ Holding(w)' = {}
      /\ \A v \in Workers \ {w} : Holding(v)' = Holding(v)
  BY <1>2 DEF Holding, IdleWorker
<1> QED
  BY <1>1, <1>2, <1>3, LeaseKept

\* Nothing has happened yet to an event that is only now requested.
LEMMA RequestLeases ==
    ASSUME TicketsInv, NEW f \in Events, Requested(f)
    PROVE  LeasesRespected'
<1>1. /\ UNCHANGED <<worker, handed, troubled>>
      /\ outbox[f] = "NONE" /\ outbox'[f] = "PENDING"
      /\ \A e \in Events \ {f} : outbox'[e] = outbox[e] /\ due'[e] = due[e]
  BY DEF Requested, TicketsInv, TicketsTypeOK
<1>2. \A w \in Workers : Holding(w)' = Holding(w) /\ f \notin Holding(w)
  BY <1>1 DEF Holding, TicketsInv, WorkersConsistent, WorkerConsistent
<1>3. \A e \in Events : LeaseRespected(e)
  BY DEF TicketsInv, LeasesRespected
<1>4. LeaseRespected(f)'
  BY <1>1, <1>2, <1>3 DEF LeaseRespected
<1>5. ASSUME NEW e \in Events \ {f}
      PROVE  LeaseRespected(e)'
  BY <1>1, <1>2, <1>3, <1>5, LeaseKept
<1> QED
  BY <1>4, <1>5 DEF LeasesRespected

\* Only Complete closes an event, and it does so for a worker whose delivery
\* the notifier has accepted.
LEMMA CompletedStep ==
    ASSUME TicketsInv, DeliveryNext
    PROVE  CompletedDelivered'
<1> USE DEF TicketsInv, TicketsTypeOK
<1> SUFFICES ASSUME NEW e \in Events, outbox'[e] = "COMPLETED"
             PROVE  outbox[e] = "COMPLETED" \/ handed[e] > 0
  BY HistoryGrows DEF CompletedDelivered
<1>1. CASE Tick
  BY <1>1 DEF Tick
<1>2. ASSUME NEW w \in Workers, WorkerStep(w)
      PROVE  outbox[e] = "COMPLETED" \/ handed[e] > 0
  <2>1. CASE Complete(w)
    BY <2>1 DEF Complete, WorkersConsistent, WorkerConsistent
  <2>2. CASE Retry(w)
    BY <2>2 DEF Retry, AfterRetry, WorkersConsistent, WorkerConsistent
  <2>3. CASE Claim(w)
    BY <2>3 DEF Claim
  <2> QED
    BY <1>2, <2>1, <2>2, <2>3 DEF WorkerStep, Deliver, DeliverFails, NotClaimed, Abandon
<1> QED
  BY <1>1, <1>2 DEF DeliveryNext

\* A second acceptance belongs to an event in trouble: the lease has kept the
\* other workers away from all others.
LEMMA DeliveredOnceStep ==
    ASSUME TicketsInv, DeliveryNext
    PROVE  DeliveredOnce'
<1> USE DEF TicketsInv, TicketsTypeOK
<1> SUFFICES ASSUME NEW e \in Events, handed'[e] > 1, e \notin troubled'
             PROVE  FALSE
  BY DEF DeliveredOnce
<1>1. e \notin troubled /\ ~(handed[e] > 1)
  BY HistoryGrows DEF DeliveredOnce
<1>2. PICK w \in Workers : Deliver(w, e) \/ DeliverFails(w, e)
  BY <1>1 DEF DeliveryNext, Tick, WorkerStep, Claim, Deliver, DeliverFails, Handed,
              Complete, Retry, NotClaimed, Abandon
<1>3. Deliver(w, e)
  BY <1>2 DEF DeliverFails
<1>4. worker[w].event = NoEvent /\ e \in Holding(w)
  BY <1>3 DEF Deliver, WorkersConsistent, WorkerConsistent, Holding
<1>5. LeaseRespected(e)
  BY DEF LeasesRespected
<1>6. handed[e] = 0
  BY <1>1, <1>4, <1>5 DEF LeaseRespected, LeaseHeld
<1> QED
  BY <1>3, <1>6 DEF Deliver, Handed
----------------------------------------------------------------------------
(* The invariant.                                                          *)

LEMMA DeliveryInv ==
    ASSUME TicketsInv, DeliveryNext
    PROVE  TicketsInv'
<1>1. LeasesRespected'
  BY TickLeases, ClaimLeases, DeliverLeases, SettleLeases, DropLeases
     DEF LeasesRespected, DeliveryNext, WorkerStep
<1> QED
  BY <1>1, DeliveryType, DeliveryScans, DeliveryWorkers, CompletedStep,
     DeliveredOnceStep DEF TicketsInv

\* Scanners do not touch deliveries.
LEMMA ScansInv ==
    ASSUME TicketsInv, ScansNext
    PROVE  TicketsInv'
<1>1. UNCHANGED <<outbox, due, worker, handed, troubled>>
  BY ScansFrame DEF deliveryVars
<1>2. \A w \in Workers : Holding(w)' = Holding(w)
  BY <1>1 DEF Holding
<1>3. WorkersConsistent'
  BY <1>1, <1>2 DEF TicketsInv, WorkersConsistent, WorkerConsistent
<1>4. LeasesRespected'
  BY <1>1, <1>2 DEF TicketsInv, LeasesRespected, LeaseRespected, LeaseHeld
<1>5. CompletedDelivered' /\ DeliveredOnce'
  BY <1>1 DEF TicketsInv, CompletedDelivered, DeliveredOnce
<1> QED
  BY <1>3, <1>4, <1>5, ScansType, ScansStep DEF TicketsInv

LEMMA RequestInv ==
    ASSUME TicketsInv, NEW e \in Events, Requested(e)
    PROVE  TicketsInv'
<1>1. CompletedDelivered' /\ DeliveredOnce'
  BY DEF TicketsInv, TicketsTypeOK, Requested, CompletedDelivered, DeliveredOnce
<1> QED
  BY <1>1, RequestType, RequestScans, RequestWorkers, RequestLeases DEF TicketsInv

LEMMA InvInit ==
    ASSUME TicketsInit
    PROVE  TicketsInv
<1> USE DEF TicketsInit, IdleWorker
<1>1. TicketsTypeOK
  BY DEF TicketsTypeOK, WorkerState, ScanCall
<1>2. ScansConsistent /\ CheckedInOnce
  BY DEF ScansConsistent, CheckedInOnce
<1>3. WorkersConsistent
  BY DEF WorkersConsistent, WorkerConsistent, Holding
<1>4. LeasesRespected
  BY DEF LeasesRespected, LeaseRespected, Holding
<1>5. CompletedDelivered /\ DeliveredOnce
  BY DEF CompletedDelivered, DeliveredOnce
<1> QED
  BY <1>1, <1>2, <1>3, <1>4, <1>5 DEF TicketsInv

\* Stuttering: nothing that the invariant speaks of changes.
LEMMA StutterInv ==
    ASSUME TicketsInv, UNCHANGED ticketVars
    PROVE  TicketsInv'
<1>1. UNCHANGED <<outbox, due, worker, handed, troubled, ticket, rowLock, scan, audit>>
  BY DEF ticketVars, deliveryVars, checkInVars
<1>2. \A w \in Workers : Holding(w)' = Holding(w)
  BY <1>1 DEF Holding
<1>3. TicketsTypeOK' /\ ScansConsistent' /\ CheckedInOnce'
  BY <1>1 DEF TicketsInv, TicketsTypeOK, ScansConsistent, CheckedInOnce
<1>4. WorkersConsistent'
  BY <1>1, <1>2 DEF TicketsInv, WorkersConsistent, WorkerConsistent
<1>5. LeasesRespected'
  BY <1>1, <1>2 DEF TicketsInv, LeasesRespected, LeaseRespected, LeaseHeld
<1>6. CompletedDelivered' /\ DeliveredOnce'
  BY <1>1 DEF TicketsInv, CompletedDelivered, DeliveredOnce
<1> QED
  BY <1>3, <1>4, <1>5, <1>6 DEF TicketsInv

\* The inductive invariant: scans agree with the rows they have locked, workers
\* with the events they hold, and leases keep the untroubled events apart.
THEOREM TicketsInvariant == TicketsSpec => []TicketsInv
<1>1. TicketsInit => TicketsInv
  BY InvInit
<1>2. TicketsInv /\ [TicketsNext]_ticketVars => TicketsInv'
  BY StepKinds, DeliveryInv, ScansInv, RequestInv, StutterInv
<1> QED
  BY <1>1, <1>2, PTL DEF TicketsSpec

\* Every variable keeps its type (tickets_repository.go writes no other status).
THEOREM TicketsTypeCorrect == TicketsSpec => []TicketsTypeOK
<1>1. TicketsInv => TicketsTypeOK
  BY DEF TicketsInv
<1> QED
  BY <1>1, TicketsInvariant, PTL

\* CheckInTicket lets one scan of a ticket in, for any number of scanners.
THEOREM CheckedInOnceAlways == TicketsSpec => []CheckedInOnce
<1>1. TicketsInv => CheckedInOnce
  BY DEF TicketsInv
<1> QED
  BY <1>1, TicketsInvariant, PTL

\* DeliverPending and the outbox repository complete only what was delivered,
\* for any number of API processes, batches and leases.
THEOREM CompletedDeliveredAlways == TicketsSpec => []CompletedDelivered
<1>1. TicketsInv => CompletedDelivered
  BY DEF TicketsInv
<1> QED
  BY <1>1, TicketsInvariant, PTL

\* ClaimDeliveries hands an event that is not in trouble to one worker: its
\* tickets are sent once, for any lease and any number of API processes.
THEOREM DeliveredOnceAlways == TicketsSpec => []DeliveredOnce
<1>1. TicketsInv => DeliveredOnce
  BY DEF TicketsInv
<1> QED
  BY <1>1, TicketsInvariant, PTL

\* No step reopens a completed event: the claim and both updates of the outbox
\* repository look at the status first.
THEOREM CompletedForGoodHolds == TicketsSpec => CompletedForGood
<1>1. TicketsTypeOK /\ [TicketsNext]_ticketVars
        => [\A e \in Events : outbox[e] = "COMPLETED" => outbox'[e] = "COMPLETED"]_ticketVars
  <2> SUFFICES ASSUME TicketsTypeOK, TicketsNext, NEW e \in Events,
                      outbox[e] = "COMPLETED"
               PROVE  outbox'[e] = "COMPLETED"
    OBVIOUS
  <2> USE DEF TicketsTypeOK
  <2>1. CASE ScansNext
    BY <2>1, ScansFrame DEF deliveryVars
  <2>2. CASE Tick
    BY <2>2 DEF Tick
  <2>3. CASE \E f \in Events : Requested(f)
    BY <2>3 DEF Requested
  <2>4. ASSUME NEW w \in Workers, WorkerStep(w)
        PROVE  outbox'[e] = "COMPLETED"
    <3>1. CASE Complete(w) \/ Retry(w)
      BY <3>1 DEF Complete, Retry, InProgress
    <3>2. CASE Claim(w)
      BY <3>2, ClaimEffect DEF Claimed, Claimable
    <3> QED
      BY <2>4, <3>1, <3>2 DEF WorkerStep, Deliver, DeliverFails, NotClaimed, Abandon
  <2> QED
    BY <2>1, <2>2, <2>3, <2>4, StepKinds DEF DeliveryNext
<1> QED
  BY <1>1, TicketsTypeCorrect, PTL DEF TicketsSpec, CompletedForGood
=============================================================================
