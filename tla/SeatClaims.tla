----------------------------- MODULE SeatClaims -----------------------------
(***************************************************************************)
(* What seat holds promise a customer, whatever implements them: an order  *)
(* claims all the seats it asks for at once, no two orders claim the same  *)
(* seat at the same time, and a claim that has ended never comes back.     *)
(***************************************************************************)
CONSTANTS Orders, Seats

VARIABLES
    phase,      \* "new", "live" or "ended" for each order
    claim       \* the seats each order can count on

claimVars == <<phase, claim>>

ClaimsInit ==
    /\ phase = [o \in Orders |-> "new"]
    /\ claim = [o \in Orders |-> {}]

\* Order o obtains all the seats of a non-empty set that nobody claims.
Obtain(o) ==
    /\ phase[o] = "new"
    /\ \E S \in SUBSET Seats \ {{}} :
        /\ \A p \in Orders : claim[p] \cap S = {}
        /\ claim' = [claim EXCEPT ![o] = S]
    /\ phase' = [phase EXCEPT ![o] = "live"]

\* The hold was over before it was written.
Miss(o) ==
    /\ phase[o] = "new"
    /\ phase' = [phase EXCEPT ![o] = "ended"]
    /\ UNCHANGED claim

\* Claims end: by cancellation, or several at once by the passing of time.
End(os) ==
    /\ \A o \in os : phase[o] = "live"
    /\ phase' = [o \in Orders |-> IF o \in os THEN "ended" ELSE phase[o]]
    /\ claim' = [o \in Orders |-> IF o \in os THEN {} ELSE claim[o]]

ClaimsNext ==
    \/ \E o \in Orders : Obtain(o) \/ Miss(o)
    \/ \E os \in SUBSET Orders : End(os)

ClaimsSpec == ClaimsInit /\ [][ClaimsNext]_claimVars
=============================================================================
