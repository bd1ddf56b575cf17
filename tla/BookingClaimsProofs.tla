------------------------ MODULE BookingClaimsProofs ------------------------
(***************************************************************************)
(* Booking implements SeatClaims, for every value of the constants.        *)
(***************************************************************************)
EXTENDS BookingClaims, BookingProofs

\* Every step but HoldCommit only ends claims, some or none.
LEMMA ClaimsEnd ==
    ASSUME \A p \in Orders : /\ Exists(p)' <=> Exists(p)
                             /\ Exists(p) => ItemsOf(p)' = ItemsOf(p)
                             /\ Live(p)' => Live(p)
    PROVE  Claims!End({p \in Orders : Live(p) /\ ~Live(p)'})
<1> DEFINE os == {p \in Orders : Live(p) /\ ~Live(p)'}
<1>1. \A p \in Orders : Live(p) => Exists(p)
  BY DEF Live, Pending, Exists
<1>2. \A p \in Orders : PhaseOf(p)' = IF p \in os THEN "ended" ELSE PhaseOf(p)
  BY <1>1 DEF PhaseOf
<1>3. \A p \in Orders : ClaimOf(p)' = IF p \in os THEN {} ELSE ClaimOf(p)
  BY <1>1 DEF ClaimOf
<1>4. \A p \in os : PhaseOf(p) = "live"
  BY <1>1 DEF PhaseOf
<1> QED
  BY <1>2, <1>3, <1>4 DEF Claims!End

\* A new order either obtains seats that no live order claims or, when the
\* clock has passed its deadline before the commit, misses them.
LEMMA HoldCommitClaims ==
    ASSUME BookingInv, NEW o \in Orders, HoldCommit(o)
    PROVE  Claims!Obtain(o) \/ Claims!Miss(o)
<1> DEFINE i == hold[o].input
<1>1. i \in HoldInput /\ ~Exists(o) /\ hold[o].now <= clock /\ clock' = clock
  BY DEF HoldCommit, BookingInv, HoldsConsistent
<1>2. Exists(o)' /\ ItemsOf(o)' = i.seats
  BY DEF HoldCommit, HoldReply, BookingInv, BookingTypeOK, Exists, ItemsOf
<1>3. \A p \in Orders : p # o => order'[p] = order[p] /\ hold'[p] = hold[p]
  BY DEF HoldCommit, HoldReply, BookingInv, BookingTypeOK
<1>4. \A p \in Orders : p # o => PhaseOf(p)' = PhaseOf(p) /\ ClaimOf(p)' = ClaimOf(p)
  BY <1>1, <1>3 DEF PhaseOf, ClaimOf, Live, Pending, Exists, ItemsOf
<1>5. PhaseOf(o) = "new" /\ ClaimOf(o) = {}
  BY <1>1 DEF PhaseOf, ClaimOf, Live, Pending, Exists
<1>6. ASSUME NEW p \in Orders
      PROVE  ClaimOf(p) \cap i.seats = {}
  <2> SUFFICES ASSUME Live(p), NEW s \in ItemsOf(p), s \in i.seats
               PROVE  FALSE
    BY DEF ClaimOf
  <2>1. s \in Seats /\ SeatFree(s, hold[o].now)
    BY <1>1 DEF HoldCommit, Obtainable, HoldInput
  <2>2. seat[s].status = "HELD" /\ seat[s].holder = p
    BY DEF BookingInv, LiveHoldsComplete
  <2>3. seat[s].expires = order[p].expires
    BY <2>1, <2>2 DEF BookingInv, HeldSeatsBacked, Backed
  <2>4. ~(order[p].expires <= hold[o].now)
    BY <1>1 DEF Live, BookingInv, BookingTypeOK, HoldCall
  <2> QED
    BY <2>1, <2>2, <2>3, <2>4 DEF SeatFree
<1>7. CASE Live(o)'
  <2>1. PhaseOf(o)' = "live" /\ ClaimOf(o)' = i.seats
    BY <1>2, <1>7 DEF PhaseOf, ClaimOf
  <2>2. i.seats \in SUBSET Seats \ {{}}
    BY <1>1 DEF HoldInput
  <2> QED
    BY <1>4, <1>5, <1>6, <2>1, <2>2 DEF Claims!Obtain
<1>8. CASE ~Live(o)'
  <2>1. PhaseOf(o)' = "ended" /\ ClaimOf(o)' = {}
    BY <1>2, <1>8 DEF PhaseOf, ClaimOf
  <2> QED
    BY <1>4, <1>5, <2>1 DEF Claims!Miss
<1> QED
  BY <1>7, <1>8

\* No other step creates an order, changes the items of one or revives it.
LEMMA OtherStepsOnlyEnd ==
    ASSUME BookingInv, BookingNext, \A o \in Orders : ~HoldCommit(o),
           NEW p \in Orders
    PROVE  /\ Exists(p)' <=> Exists(p)
           /\ Exists(p) => ItemsOf(p)' = ItemsOf(p)
           /\ Live(p)' => Live(p)
<1> USE DEF Exists, ItemsOf, Live, Pending
<1>1. CASE Tick
  BY <1>1 DEF Tick, BookingInv, BookingTypeOK
<1>2. ASSUME NEW o \in Orders, HoldStep(o)
      PROVE  /\ order' = order /\ clock' = clock
             /\ Exists(p) => hold'[p] = hold[p]
  <2>1. order' = order /\ clock' = clock /\ hold[o].pc # "done"
    BY <1>2 DEF HoldStep, HoldStart, HoldReplay, HoldRefused
  <2>2. \A q \in Orders : q # o => hold'[q] = hold[q]
    BY <1>2 DEF HoldStep, HoldStart, HoldReplay, HoldRefused, HoldReply,
                BookingInv, BookingTypeOK
  <2>3. ~Exists(o)
    BY <2>1 DEF BookingInv, HoldsConsistent
  <2> QED
    BY <2>1, <2>2, <2>3
<1>3. ASSUME NEW c \in Cancels, CancelStep(c)
      PROVE  /\ clock' = clock /\ hold' = hold
             /\ \/ order'[p] = order[p]
                \/ Pending(p) /\ order'[p].status = "CANCELLED"
  <2>1. CASE CancelCommit(c)
    BY <2>1 DEF CancelCommit, Cancellable, BookingInv, BookingTypeOK
  <2>2. CASE ~CancelCommit(c)
    BY <1>3, <2>2 DEF CancelStep, CancelStart, CancelLock, CancelAbort
  <2> QED
    BY <1>3, <2>1, <2>2 DEF CancelCommit
<1>4. ASSUME NEW w \in Workers, SweepStep(w)
      PROVE  /\ clock' = clock /\ hold' = hold
             /\ \/ order'[p] = order[p]
                \/ Pending(p) /\ order'[p].status = "EXPIRED"
  <2>1. CASE SweepCommit(w)
    BY <2>1 DEF SweepCommit, BookingInv, SweepsConsistent
  <2>2. CASE ~SweepCommit(w)
    BY <1>4, <2>2 DEF SweepStep, SweepStart, SweepNothing, SweepLock, SweepAbort
  <2> QED
    BY <1>4, <2>1, <2>2 DEF SweepCommit
<1> QED
  BY <1>1, <1>2, <1>3, <1>4 DEF BookingNext

\* The holds, cancellations and sweeps of Booking implement SeatClaims.
THEOREM BookingImplementsClaims == BookingSpec => ImplementsSeatClaims
<1>1. BookingInit => Claims!ClaimsInit
  BY DEF BookingInit, Claims!ClaimsInit, PhaseOf, ClaimOf, Live, Pending, Exists
<1>2. BookingInv /\ [BookingNext]_bookingVars
        => [Claims!ClaimsNext]_(Claims!claimVars)
  <2> SUFFICES ASSUME BookingInv, [BookingNext]_bookingVars
               PROVE  [Claims!ClaimsNext]_(Claims!claimVars)
    OBVIOUS
  <2>1. ASSUME NEW o \in Orders, HoldCommit(o)
        PROVE  Claims!ClaimsNext
    BY <2>1, HoldCommitClaims DEF Claims!ClaimsNext
  <2>2. ASSUME BookingNext, \A o \in Orders : ~HoldCommit(o)
        PROVE  Claims!ClaimsNext
    BY <2>2, OtherStepsOnlyEnd, ClaimsEnd DEF Claims!ClaimsNext
  <2>3. CASE UNCHANGED bookingVars
    BY <2>3 DEF bookingVars, Claims!claimVars, PhaseOf, ClaimOf, Live, Pending,
                Exists, ItemsOf
  <2> QED
    BY <2>1, <2>2, <2>3
<1> QED
  BY <1>1, <1>2, BookingInvariant, PTL DEF BookingSpec, ImplementsSeatClaims,
     Claims!ClaimsSpec
=============================================================================
