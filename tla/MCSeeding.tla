----------------------------- MODULE MCSeeding -----------------------------
(***************************************************************************)
(* Small casts: a client at the limiter, clients that race to be the first *)
(* administrator, the seed command beside a customer and beside itself,    *)
(* and a visitor who pages through the movies while they change.           *)
(***************************************************************************)
EXTENDS Seeding, TLC

CONSTANTS r1, r2, c1, c2, e1, e2, good, short, k1, k2, k3, jakarta, bandung,
          s1, t1, t2, other

MCWanted == {<<jakarta, s1>>, <<bandung, s1>>}
MCFirstMovies == {[id |-> 2, created |-> 0, title |-> t1]}
MCCasts ==
    {{c, "login", "orders", "clock"} : c \in {c1, c2}}
    \cup {{c, "bootstrap-admin", "restart"} : c \in {c1, c2}}
    \cup {{c1, c2, "bootstrap-admin", "register"}}
    \cup {{r, c, "register"} : r \in Runners, c \in {c1, c2}}
    \cup {{r, "clock"} : r \in Runners}
    \cup {{r1, r2}, {"editor", "reader", "clock"}}

MCSymmetry == Permutations(Runners) \cup Permutations({c1, c2})
              \cup Permutations(CinemaIds)
=============================================================================
