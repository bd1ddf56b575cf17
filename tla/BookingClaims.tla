--------------------------- MODULE BookingClaims ---------------------------
(***************************************************************************)
(* Booking implements SeatClaims: a pending order claims its seats until   *)
(* its deadline, although the seat rows and the order rows say so long     *)
(* after, until somebody takes the seat over or the worker comes by.       *)
(***************************************************************************)
EXTENDS Booking

PhaseOf(o) == IF ~Exists(o) THEN "new" ELSE IF Live(o) THEN "live" ELSE "ended"
ClaimOf(o) == IF Live(o) THEN ItemsOf(o) ELSE {}

Claims == INSTANCE SeatClaims WITH
            phase <- [o \in Orders |-> PhaseOf(o)],
            claim <- [o \in Orders |-> ClaimOf(o)]

\* Every step of the holds, cancellations and sweeps is a step of SeatClaims
\* or changes no claim: a seat a live order counts on is never given away.
ImplementsSeatClaims == Claims!ClaimsSpec
=============================================================================
