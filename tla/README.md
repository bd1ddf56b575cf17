# Verification of the cinema booking service

TLA+ models, TLC configurations and TLAPS proofs for the Go service in `src/`
(an HTTP API over PostgreSQL, two background workers, two web front ends).

## 1. Inventory

Every process is an API server (`cmd/api/main.go`); several may run at once on
one database. State that matters lives in PostgreSQL, transactions run at READ
COMMITTED, and components interact through shared rows.

| Component | State | Operations | What makes it correct |
|---|---|---|---|
| booking (`internal/booking`, `postgres/booking_repository.go`) | `showtime_seats` (status, hold_order_id, hold_expires_at), `orders`, `order_items` | CreateHold, CancelOrder, ExpirePendingHolds (worker, every 30 s), GetOrder, ListOrders | all seats or none; a live hold is never given away; one order per idempotency key; each hold ends |
| payments (`internal/payments`, `postgres/payments_repository.go`) | `payments`, `payment_webhook_events`; writes seats, orders, tickets, outbox | CreatePaymentIntent (two transactions around a provider call), ProcessWebhook | an order is settled once; late money is refunded and holds nothing; sold seats stay sold |
| payment provider (`fake_provider.go` stands in) | external intents and events | CreateIntent, webhook deliveries, repeated and reordered | external |
| tickets (`internal/tickets`, `postgres/tickets_repository.go`) | `outbox_events`, `tickets` | DeliverPending (worker, leases), CheckInTicket, reads | each paid order is delivered, also after failures; a ticket admits once |
| scheduling and layout (`internal/admin`, `postgres/admin_repository.go`, migrations 5 and 6) | `showtimes`, `seats`, `showtime_seats` | Create/Update/DeleteShowtime, Create/Update/DeleteSeat, triggers with an advisory lock per studio | no overlap in a studio; a showtime's seats are its studio's layout at its price; what was ordered stays; a customer pays the price shown |
| admin catalogue (`internal/admin`, the same repository) | `cinemas`, `studios`, `movies` | create, update, delete, list | every reference of a row leads to a row, whatever is deleted beside it |
| authentication (`internal/auth`, `postgres/auth_repository.go`) | `users`, `user_roles`; signed tokens with the client | Register, Login, CreateInitialAdmin under an advisory lock | at most one administrator, however requests race |
| rate limiter (`httpapi/rate_limit.go`) | map of windows in memory, lost at a restart | allow | less than twice the limit in any stretch of a window; nobody stays refused |
| HTTP API (`httpapi/server.go`) | none | routing, roles, validation, error mapping | a refused request changes nothing |
| read paths (`catalog`, `scheduling`, `seatinventory`) | none; a cursor with the client | keyset paging, lists, seat map | paging shows all that stays, once |
| seed command (`internal/seed`) | none; talks HTTP | bootstrap, login, lists, creations of what is missing | complete after a good run; nothing twice when run again |
| in-memory repositories, web front ends, migration script | | | tests, stateless clients, a one-shot command |

Interaction. CreateHold writes the rows that CancelOrder, the expiry worker
and the webhook handler later change. The webhook handler produces the outbox
row that the delivery worker consumes and the tickets that check-in consumes.
Showtime administration replaces the rows that CreateHold locks.

Hard behaviours. (1) CreateHold takes over seats whose hold has expired
without touching the old order, so for a while two pending orders claim one
seat and only `hold_order_id` tells who has it. (2) Every handler reads the
clock before its transaction waits for locks. (3) The expiry worker skips
locked orders and takes bounded batches. (4) Retries of one idempotency key
may race. (5) Provider events repeat, arrive in any order and concurrently, and
before the intent is stored. (6) Any transaction may fail and roll back.
(7) A delivery may outlive its lease. (8) A
layout change checks for showtimes and a showtime copies the layout in
separate statements; only the advisory lock of the triggers keeps them apart.
(9) Row locks and the advisory lock are taken in different orders, and the
checks of foreign keys and unique names wait for whoever writes the rows that
they look for, so that transactions deadlock. (10) The check for an administrator and the insertion
of one are two statements. (11) A request of the seed command that timed out
may take effect later. `PROJECT.json` lists these as hazards,
each at its line.


## 2. Modules

| Module | Models | State and actions |
|---|---|---|
| `Booking` | booking service and repository, expiry worker | `seat`, `order` are the rows; `lock` is who holds an order row FOR UPDATE; `hold`, `cancel`, `sweep` are calls in progress with the clock value they remember. CreateHold = HoldStart, then HoldReplay, HoldRefused or HoldCommit; CancelOrder = CancelStart, CancelLock, CancelCommit or CancelAbort; ExpirePendingHolds = SweepStart, SweepNothing or SweepLock, SweepCommit or SweepAbort |
| `SeatClaims` | abstract: what holds promise | an order obtains a set of seats at once, claims are disjoint, a claim that ended stays ended |
| `BookingClaims` | refinement mapping Booking to SeatClaims | a pending order claims its seats until its deadline, whatever the rows say later |
| `Checkout` | payments, on top of Booking's rows | `payment`, `ticketed`, `outbox`, `recorded` are tables; `intent`, `webhook` calls in progress; `created`, `emitted` belong to the provider (external). CreatePaymentIntent = IntentStart, IntentCreated, IntentSaved or IntentEnded; ProcessWebhook = WebhookStart, then one of WebhookDuplicate, Unknown, Repeated, Late, Finalize, Failure, Aborted |
| `Tickets` | delivery worker with leases, check-in | `outbox`, `due` are the event's status and available_at; `worker` a batch in progress; `ticket`, `rowLock`, `scan`, `audit` check-in; `handed`, `troubled` record what happened. DeliverPending = Claim, then per event Deliver or DeliverFails, Complete or Retry, NotClaimed, Abandon |
| `AdminApi` | what the administrator's routes check and answer | operators only: who may call, which requests the handlers and the service refuse (`Refusal`), what a price may look like (`PriceAccepted`) and what fits its column (`FitsColumn`), the status of each error |
| `Scheduling` (extends `AdminApi`) | the transactions on cinemas, studios, seats, movies and showtimes, and in outline the holds and releases on the same seat rows | `db` is the committed tables; `call` a request with its phase and what it has read; `held` its locks. One phase per statement, or check of a constraint, that may wait: `Acquire` takes the locks it wants one by one, then the action of its operation checks, moves on, fails or commits. `Deadlock` ends one call of a ring, `Cancelled` is a client that goes away |
| `Accounts` | auth service and repository, token roles, rate limiter, the four limited routes | `bucket` is the limiter's map, `account` the users, `request` and `token` per client, `admitted` a history of what was let through. Send (limiter and handler), Login, LockBootstrap, CheckAdmin, InsertUser, CommitUser, Abandon, Restart, Tick |
| `MoviePages` (extends `Accounts`) | the public list of movies, beside administrators who add and remove movies | `movies`, `inserting` (begun, not committed), `reader` with its cursor. BeginMovie, CommitMovie, EditorAdds, EditorRemoves, ReadPage |
| `Seeding` (extends `MoviePages`) | the seed command against all of the above | `cinemas`, `studios` rows, `runner` a run and what it has listed, `late` writes nobody waits for. One action per request of a run, RunFails at any time, LateWrite |
| `BookingProofs`, `BookingClaimsProofs`, `CheckoutProofs`, `TicketsProofs`, `SchedulingProofs` | theorems about Booking, its refinement, Checkout, Tickets and Scheduling | |
| `SeedingProofs`, then `SeedCommandProofs`, then `MoviePagesProofs` | theorems about Seeding, each module on top of the one before: accounts and limiter; the seed command; the pages | |
| `MCBooking`, `MCCheckout`, `MCTickets`, `MCScheduling`, `MCSeeding` | instances for TLC | |

How code becomes actions. A transaction that takes its row locks first and
decides under them is one step at its commit, guarded by "nobody else holds
the row" (`lock[o] = Nobody`); cancellations, sweeps and check-ins are split
into a locking and a committing step so that others meet their locks. What is
read before a transaction (the clock, the lookup of an idempotency key, the
order a payment intent is for) is a step of its own and may be stale later. A
failure rolls back and is a step that leaves the tables alone (HoldRefused,
CancelAbort, SweepAbort, WebhookAborted, ScanFails). `HoldRefused` needs no
guard: besides unavailable seats it stands for a broken connection.
A webhook for which no payment row exists locks no order, hence WebhookUnknown
has no lock guard.

In `Scheduling` locks are the point, so a transaction is a sequence of
phases instead. A row lock has a strength as in PostgreSQL: FOR KEY SHARE (a
foreign key's look at a parent, or at a child of what is deleted), FOR NO KEY
UPDATE, and FOR UPDATE (also of an update that changes a key column); "share"
stands for the wait of a unique key for whoever writes the row it has met. A
constraint is checked in a phase of its own, which waits: `entry` is UNIQUE
(cinema_id, name) of studios (an equal name that is not committed is waited
for, its entry is a lock on the name), `slot` the exclusion constraint of
showtimes, `parents` the foreign keys of the row, `children` those of the rows
that refer to a deleted row. `entry`, `slot` and `children` end as soon as one
row could be looked at (`CameUpon`), and then the statement fails. A
statement's checks see what is committed at the end of its phase; what it found
before it waited (the rows of a DELETE, the ids a customer asks for) is kept in
the call, with the version of the inventory it belongs to, because rows that
are deleted and materialized again have new ids. A transaction's own writes
appear at its commit: until then its locks keep others from relying on the rows
it changes. `Refusal` comes before the transaction, in the order of the code:
role, id, body, validation.

`Seeding` plays one of several casts: a cast names the clients, routes and other
actors of a behaviour, so that one run covers the limiter, the race for the
first administrator, two runs of the command, and the visitor, without their
product.

Time in `Booking` is a counter up to `MaxTime`; holds start only while their
deadline lies within it, so that every deadline can pass. In `Tickets` time is
relative (`due`, `age`) and passes for ever; the two saturated values -Lease and
2 * Lease stand for "at least so long".

Operators marked "Fault" in the modules are what plausible bugs would make of
the definition that follows them. They are used by nothing: each records, for
one property, a mistake that the property is able to detect.

## 3. Runs

| Run | Instance | Shows |
|---|---|---|
| `booking` | 3 CreateHold calls with every request of 2 customers over 2 seats, 1 cancellation, 2 workers, batches of 1 | no orphaned, borrowed or partial hold; one order per key; right replies; legal order changes |
| `booking_live` | 2 calls, 1 cancellation, 2 workers | every hold ends (`HoldsEnd`); Booking implements SeatClaims |
| `checkout` | 2 orders competing for seats, 1 cancellation, 1 worker, 1 intent call, 1 event | the booking invariants survive payment; sold seats are ticketed; a payment before the deadline gets all seats |
| `webhooks` | 1 order, 2 events, 2 concurrent deliveries, cancellation, worker | settled at most once and consistently; refunds hold nothing; what is sold stays sold |
| `checkout_live` | 1 order, 2 events, 1 delivery at a time | a success of a stored payment is accounted for |
| `tickets` | 2 workers, 2 events, batches of 2, 2 scans of 1 ticket | closed means delivered, once unless an attempt was in trouble; completed for good; checked in once |
| `tickets_live` | 1 worker, 2 events, batches of 1, lease of 2 | every delivery is completed, also after crashes; with batches of 1 nothing of a batch is ever dropped, which `batch_stopped` is about |
| `scheduling` | 3 calls out of 29 requests, over 3 studios, 4 seats, 2 showtimes, 2 cinemas, 2 movies (520,055 distinct states) | inventories match layouts, no overlap, references hold, ordered screenings and shown prices stay; calls deadlock, but every ring has one of the causes that `DeadlockCauses` lists, none is about layout locks alone, and a hold is in one only with somebody who writes seats of its showtime |
| `seeding` | casts of up to 2 clients, 2 runs of the seed command, 3 instants, pages of 1 movie, limit 2 | one administrator; the limiter's bound, and nobody locked out; pages complete; a good run is complete and nothing is created twice |
| `double_sale` (violation) | 2 orders, 2 events, 2 deliveries | a webhook received in time, committed late: two tickets for one seat |
| `late_success` (violation) | 1 event | a success that overtakes the intent is dropped |
| `batch_stopped` (violation) | 2 workers, 2 events | a failed delivery stops the rest of its batch |

Bounds. Two seats suffice for a partial hold and for requests that overlap or
differ; three CreateHold calls for a hold, its takeover and a retry or third
party; `MaxTime = 2` with holds of length 1 for a hold to expire, be taken
over, and the second hold to expire too. `BatchSize = 1` is below the number of
due orders, so that the limit matters. Two event ids let the provider repeat a
fact under another id or contradict itself; every id may be delivered any
number of times, by two requests at once. Orders, calls, workers, seats and
event ids are interchangeable, which the safety runs use as symmetry.
`MaxLate` bounds how long after its clock reading a claim may run.

In `scheduling` the requests are those that meet: a seat is added to, moved
within, moved from and removed from studio 2, while showtimes are created in it
and moved to it, its cinema and its name change, and it is deleted; studio 3 is
created with the name that studio 2 would take, in a cinema that is deleted; a
showtime on sale is moved, repriced, deleted, held and released; movies and
cinemas come and go; six
requests are refused for different reasons, one price is too wide for its
column. Three calls allow a reader, a writer and a third that breaks what both
rely on, and rings of three. What three calls cannot show is proved for any
number (section 5). In `seeding` a limit of 2 and a window of 2 instants suffice
to fill a bucket, be refused and be let through again; three cinema ids let two
wanted cinemas and a duplicate exist; `MaxStarts = 2` gives the second run that
finishes what the first left.

The three violations are disagreements between the code and its documents,
quoted in `PROJECT.json` under "findings". `double_sale` is why the properties
of `Checkout` are stated as they are: an order paid before its deadline gets
all its seats (`TimelyPaymentSells`), one that is finalized after it may not.

## 4. Fairness

`Scheduling` and `Seeding` state safety only: nobody is obliged to call, and a
transaction may be abandoned at any time.

`BookingFairness`: the clock advances; an open cancellation commits or rolls
back, since a lost connection rolls back; the worker's ticker fires again and
again and not every sweep fails (strong fairness on the database steps: a sweep
may skip a locked order or fail any number of times, but not always). No customer is
obliged to act. `CheckoutFairness`: the provider sends an event until it is
acknowledged, and the requests with one event do not all fail; every request and
cancellation in progress ends; sweeps that hold locks do not fail for ever.
`TicketsFairness`: time passes, the ticker fires, a worker does not stop in a
batch (it goes on or its process dies and is restarted), not every delivery
of an event and not every update fails. With two workers `DeliveriesEnd` does
not hold under this fairness: a worker past its lease can put back, again and
again, the event the other is delivering. It is therefore checked for one
worker, which is what the compose files deploy; with two an event may be
delivered repeatedly and closed late.

## 5. Proofs

Every invariant and every action property that a passing run checks is also a
theorem: TLC shows it on a small instance, TLAPS for every value of the
constants.

**Booking.** TLAPS proves, for any sets of orders, calls, workers, customers, keys and seats
and any durations, batch sizes and time bound, from the named assumptions of `Booking`
(ids are distinct, requests are well-formed, durations positive):

- `BookingTypeCorrect`: the type invariant.
- `BookingInvariant`: `BookingInv`, the inductive invariant. The properties are
  not inductive by themselves. That a sweep expires only due orders and frees
  only their seats needs `SweepsConsistent`: what a locked batch was read as
  still holds, because the rows are locked. Cancellations need
  `CancelsConsistent` likewise. That a new order takes no seat from a live one
  needs `HoldsConsistent` (a remembered clock value is never ahead of the
  clock) together with `HeldSeatsBacked` (a held seat has its order's
  deadline): a seat that was free at the remembered time belongs to no order
  that is live now.
- `HeldSeatsAlwaysBacked`, `LiveHoldsAlwaysComplete`, `OneOrderPerKeyAlways`,
  `RepliesAlwaysMatch`, `SweepsAlwaysConsistent`: its conjuncts.
- `OrderLifecycleHolds`: the action property, from the invariant.
- `BookingImplementsClaims`: each step of Booking is a step of SeatClaims or
  changes no claim: HoldCommit maps to Obtain, or to Miss when the deadline has
  passed by the time of the commit; Tick and CancelCommit to End; all else stutters.

**Checkout**, from the assumptions of `Checkout` and `Booking`, for any number of
orders, seats, intents, events and concurrent deliveries:

- `CheckoutInvariant`: `CheckoutInv`. A step of `Checkout` is a payment step or a
  step of `Booking` beside unchanged payment rows, and the lemmas of
  `BookingProofs` take care of the second kind as far as the booking rows go. The
  first kind also changes those rows, so `BookingInv` is a conjunct and is proved
  again for it: a webhook that sells, expires or releases must leave the sweeps
  and cancellations in progress with what they have read, which it does because
  it locks the order. The other conjuncts are what the properties need of
  each other. A seat that is not held names no order (`HoldersCleared`),
  so an order that has ended is named by none at all, sold or free.
  A payment belongs to an order that was placed (`PaymentsHaveOrders`), so that a
  new order starts without one. A request in progress speaks of an
  event that was sent and remembers a time that has passed
  (`RequestsConsistent`).
- `HoldsSurvivePayment`, `PaidOrdersAlwaysSettled`, `RefundsAlwaysReleased`,
  `SoldSeatsAlwaysTicketed`, `CheckoutTypeCorrect`: its conjuncts.
- `CheckoutLifecycleHolds` and `TimelyPaymentAlwaysSells`: the action properties. The
  second needs that a live order still holds every one of its seats
  (`LiveHoldsComplete`) when the webhook is committed.

**Tickets.** And for any events, tickets, workers and scans, any lease, batch size and
`MaxLate` up to the lease, from the assumptions of `Tickets`:

- `TicketsInvariant`: `TicketsInv`. Check-in and delivery share only
  `Requested`, so the proof treats the two halves of the next-state relation
  apart (`StepKinds`, `DeliveryFrame`, `ScansFrame`). `CheckedInOnce` needs
  `ScansConsistent`: what a scan has read in a row it holds locked is still
  there. `DeliveredOnce` needs `LeasesRespected`: an event that never was in
  trouble is held by one worker, its `due` is what is left of that worker's
  lease, and so no other claim finds it. `CompletedDelivered` needs
  `WorkersConsistent`: a worker that is about to complete an event has seen
  the notifier accept it.
- `TicketsTypeCorrect`, `CheckedInOnceAlways`, `CompletedDeliveredAlways`,
  `DeliveredOnceAlways`: its conjuncts; `CompletedForGoodHolds`: the action
  property.

**Scheduling.** For any calls, requests, studios, seats, movies and showtimes, and any sound
tables to begin with (`IdsAssumption`, `RequestsAssumption`, `TablesAssumption`):

- `SchedulingInvariant`: `SchedulingInv`. That the committed tables are sound
  (`Sound`) is not inductive: a commit relies on what its transaction has
  checked some phases earlier. `Established` says, for each kind of transaction
  and phase, which locks it has and what therefore still holds: with the layout
  lock, that no showtime uses the layout (`Settled`), or that the slot is free
  and the copied seats are the layout (`PlacingShowtime`); with the seat rows of
  a showtime locked, that nothing was sold of it (`UpdatingShowtime`,
  `DeletingShowtime`), or that the seats a customer chose are still there at
  the same price (`Holding`). The argument has two parts. A step that does not
  commit changes no table and only adds locks (`Moves`, `Ends`, `LocksGrow`). A
  commit is of one of four shapes, of catalogue rows, of one seat, of a hold, of
  one showtime with its inventory (`ParentsCommit`, `SeatCommit`, `HoldCommit`,
  `ShowtimeCommit`), and cannot undo what another call has established, for
  that would take a lock in conflict with one the other has (`Exclusion`).
- `InventoryAlwaysMatches`, `NeverOverlap`, `ReferencesAlwaysHold`,
  `PriceAlwaysAsShown`, `SchedulingTypeCorrect`: from the invariant.
- `ScreeningsKept`: the action property, by one lemma for each group of actions.
- The proof uses the lock on a showtime's new layout, and on both layouts of a
  seat that moves. The lock the triggers also take on a showtime's old layout is
  not needed for any of these properties.

- `LockingInvariant`: `LockingInv`, what deadlocks depend on. It adds to the
  invariant all the locks that a call may have (`Owned`); that a call which
  waits for its own row has no other lock, and a creation that waits for its
  layout none but that (`Lone`); that a hold which waits has only seats smaller
  than those it still wants (`Rising`), and whoever waits for a layout only
  smaller layouts (`Climbing`). Rising is inductive because the rows that a
  hold has found are never added to: a showtime's rows get a new version or
  become fewer.
- `DeadlocksHaveCauses`: `DeadlockCauses`. Take a ring without a cause.
  `Wishes` lists what a call that has a lock and waits can want, and
  `WaitsForWriter` who can stand in its way. Nobody waits for a showtime, for
  only its deletion, a cause, could be in the way; so nobody waits for a movie,
  whose deletion looks for showtimes. Seats are locked against others by an
  UpdateSeat that waits for its new studio, hence for a DeleteStudio, which
  looks for a seat of that studio, hence for a second UpdateSeat out of it;
  both updates have the layout of that studio, so they are the same and the
  seat would leave the studio that it moves to. So nobody waits for a seat, nor
  for a studio, nor for a cinema, whose deletion looks for studios, nor for a
  name, which belongs to a CreateStudio that waits for its cinema. What remains
  are layouts and the seats of holds. In both whoever waits waits for something
  larger than what it has (`LargerLayout`, `LargerSeat`), and those beyond a
  given height would be a smaller ring (`NoClimb`).
- `LayoutsNeverBlockForEver`: `LayoutsNeverDeadlock`, from `NoLayoutRing`.
- `HoldsDisturbed`: `HoldDeadlocks`. What a hold waits for is a seat of its
  showtime or the showtime itself, and whoever has these is another hold of the
  showtime or one of those the property names (`HoldWaits`); a ring of holds
  alone does not exist (`NoSeatRing`). No bound on the number of calls or seats
  is needed.

**Seeding.** For any clients, runners, emails, cinemas, studios and titles, any limit,
window, token life and page size, from `AccountsAssumption`,
`MoviePagesAssumption` and `SeedingAssumption` (the movies there at the start are
finitely many, with unique ids; a wanted pair is a wanted cinema with one of the
studio names), in the whole of `Seeding`:

- `AccountsTypeCorrect`: types, among them that no bucket exceeds the limit.
- `OneAdministratorAlways`: needs that one transaction at a time is between
  taking the advisory lock and its commit, and that while one is past its check
  there is no administrator.
- `NobodyLockedOut`: a bucket that is not over was opened by a request that was
  let through, at the instant it was opened.
- `AdmissionsAlwaysBounded`: a stretch as long as a window meets at most two
  windows of the limiter. The invariant (`Windowed`, `Bounded`) says that the
  current window has let through no more than its bucket counts, and that what a
  stretch has before the current window opened is less than a limit; together
  that is less than two. When a window opens, the stretches that end in it
  began within the one before, and without its first request, which lies at its
  opening instant (`SizeWithout`), it has less than a limit in it.
- Steps of the seed command and of the movie pages are, for the accounts,
  requests or stutters (`StepKinds`); that is proved first.
- `SeedingTypeCorrect`: types of runs, lists and writes.
- `DoneMeansComplete`: what a run has listed or created is in the tables
  (`Informed`); it passes on to the movies only when it knows every wanted pair,
  and, where no editor removes movies, a title that it does not miss is there.
- `NothingTwiceEver`: while runs do not overlap there is one writer (`OneWriter`),
  and the run that is under way overlooks nothing: no movie that is there is
  missing in its list, and from the time it has read the cinemas it knows
  the name of each (`Attentive`). A write that is sent, or is still under way
  after its run has failed, therefore adds something new (`AddsNew`), and so
  its commit repeats nothing.
- `PagesAlwaysComplete`: the cursor is the last row of all that was seen, and
  whatever of the first page's movies was not seen is behind it
  (`AtCursor`). That the rows of a page come before all later ones follows from
  the order of the rows (`BeforeOrder`); that a page has a last row, and the
  list a row to go on from, from the finiteness of the table, by taking a
  smallest beginning of the list (`SmallestSet`).

Only model-checked: the liveness properties `HoldsEnd`, `SuccessesSettle` and
`DeliveriesEnd`, since fairness and ENABLED are outside of what the prover
handles; and the three violations, which are behaviours.

## 6. What was noticed

Besides the three violations of section 3, where the code and its documents, or
its own answers, do not agree:

- Layout changes deadlock with showtime writes. UpdateSeat and DeleteSeat lock
  the seat's row and then wait for the layout; CreateShowtime and UpdateShowtime
  have the layout and wait for the seats they copy. The loser answers 500,
  where `docs/testing/seat-layout-immutability.tdd.md:12` promises a stable
  conflict response. UpdateShowtime and DeleteShowtime deadlock with each other
  (row then seats, seats then row), and a hold with a cancellation or a sweep,
  which update seats in no particular order. Calls on the catalogue alone
  deadlock when studios are updated: CreateStudio has entered a name and waits
  for the cinema, DeleteCinema has the cinema and waits for a studio of it, and
  UpdateStudio has that studio and waits for the name; or two updates that
  move studios between two cinemas, beside the deletions of both. No property
  can exclude these. `DeadlockCauses` says that there are no others, and the
  model that the loser is rolled back and answers 500.
- DeleteShowtime that races UpdateShowtime answers `SHOWTIME_IN_USE` although
  nothing was ordered: the rows that were materialized meanwhile still refer to it.
- Deleting a cinema, studio or movie that is referred to answers 500, and so
  does creating a studio in a cinema that does not exist, for which
  `openapi/openapi.yaml:144` has 404.
- A price with eleven or twelve digits before the point passes `normalizePrice`
  and does not fit NUMERIC(12, 2): 500.
- The helpers that check an id write the 400 and return no error, so the handler
  goes on with an empty id. No state changes: the repository finds no such row.
- `make seed` is idempotent (`README.md:55` of the repository) unless runs
  overlap, or a request of a failed run takes effect after the next has read its
  lists: only studios have a unique name. `NothingTwice` has these exceptions.
- The customer's checkout page makes a new idempotency key for every submit, so a
  retry after a lost answer is refused by the customer's own hold until that
  expires; the key that the service replays (`OneOrderPerKey`) is never reused.
  The page is not modelled, and no property would show this: to the service
  such a retry is a request like any other.
- `scripts/migrate.sh` records a migration in a second transaction: after a crash
  between the two a rerun fails on what exists.
- The limiter lets up to 2 * Limit - 1 requests through in a stretch as long as
  its window, and its map never shrinks.

## 7. What is left out

- In `Booking` and `Checkout` a transaction takes its locks in one step, and a
  deadlock that PostgreSQL breaks is one of the failures. `Scheduling` has lock
  order and deadlocks, for the seat rows of holds and releases too, but not the
  order rows.
- In `Scheduling`: a wait for a call that waits for nothing more, such as an
  update of a seat that changes nothing, since it closes no ring. The unique
  idempotency key of orders is in `Booking`, not here: a hold that waits for
  the uncommitted key of another waits for a call that wants only its showtime,
  hence for a DeleteShowtime, and comes back to the first hold only if that is
  of the same showtime. The order rows that cancellations and webhooks lock,
  and that DeleteShowtime looks for, are not here either; both sides are named
  by `DeadlockCauses`. A sweep is taken as one ReleaseHold for each showtime.
  The audit row that each transaction adds refers to the administrator's user,
  which nobody deletes, and is left out.
- `attempts`, `processed_at`, audit rows, ids and the texts of rows: no decision
  depends on them.
- Password hashes, signatures of tokens and of webhooks: taken to do their job.
- In `Seeding` the external movie source answers with the title it was asked
  for; otherwise a movie would be created again by every run.
- Reads of orders and tickets, and the list of a movie's showtimes: one query
  each, without effect. The web front ends keep no state of the service.
- The in-memory repositories used by tests. They check less than PostgreSQL does
  (no overlap, no layout lock, no foreign keys), and disagree in at least one
  point: `payments/memory_repository.go` refuses an event without payment, the
  database version acknowledges it (`late_success`).

## 8. Plan

Done, in this order: Booking; SeatClaims and the refinement; Checkout; Tickets;
their proofs; AdminApi and Scheduling with proofs; Accounts, MoviePages and
Seeding with proofs about the accounts; proofs of Checkout, of the limiter, of the
seed command and the pages; the waits of constraints in Scheduling, and proofs of
what deadlocks can come from. Left:

1. The abstract view of the composed system: that `Checkout` implements what
   holds promise (`SeatClaims`) for the orders that are not finalized late, so
   that the exception of `double_sale` is the only one.
2. An abstract specification of delivery and check-in that `Tickets`
   implements, with its refinement proved.
3. Lemmas about the safety half of the liveness properties: what remains to be
   done decreases with each step that the fairness asks for.
