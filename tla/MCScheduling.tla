---------------------------- MODULE MCScheduling ----------------------------
(***************************************************************************)
(* Three studios, two of them of one cinema and one not there yet, three   *)
(* seats and room for a fourth, two showtimes, one of which is on sale,    *)
(* and the requests that meet on them.                                     *)
(***************************************************************************)
EXTENDS Scheduling, TLC

CONSTANTS c1, c2, c3, k1, k2, m1, m2, n1, n2, n3, p1, p2, w1, w2

Cheap == [whole |-> 2, fraction |-> 0]
Exact == [whole |-> 2, fraction |-> 2]
TooWide == [whole |-> 11, fraction |-> 0]
TooFine == [whole |-> 2, fraction |-> 3]

Show(w, st, movie, from, to, price) ==
    [showtime |-> w, studio |-> st, movie |-> movie, starts |-> from,
     ends |-> to, price |-> price]
Admin(op) == [op |-> op, caller |-> "ADMIN", form |-> "good"]
By(caller, form, op) == [op |-> op, caller |-> caller, form |-> form]

MCTables ==
    [cinemas |-> {k1},
     studio |-> (1 :> k1 @@ 2 :> k1 @@ 3 :> NoCinema),
     name |-> (1 :> n1 @@ 2 :> n2 @@ 3 :> n3),
     movies |-> {m1},
     seat |-> (1 :> [studio |-> 1, place |-> p1]
               @@ 2 :> [studio |-> 1, place |-> p2]
               @@ 3 :> [studio |-> 2, place |-> p1]
               @@ 4 :> [studio |-> NoStudio, place |-> p1]),
     showtime |-> (w1 :> [studio |-> 1, movie |-> m1, starts |-> 0, ends |-> 2,
                          price |-> Cheap]
                   @@ w2 :> [studio |-> NoStudio, movie |-> m1, starts |-> 0,
                             ends |-> 2, price |-> Cheap]),
     inventory |-> (w1 :> [version |-> 1, price |-> Cheap, seats |-> {1, 2}]
                    @@ w2 :> [version |-> 0, price |-> Cheap, seats |-> {}]),
     items |-> {}]

CatalogueRequests ==
    {Admin("CreateCinema") @@ [cinema |-> k2],
     Admin("UpdateCinema") @@ [cinema |-> k2],
     Admin("DeleteCinema") @@ [cinema |-> k2],
     Admin("FindCinema") @@ [cinema |-> k2],
     Admin("DeleteCinema") @@ [cinema |-> k1],
     Admin("UpdateStudio") @@ [studio |-> 2, cinema |-> k2, name |-> n2],
     Admin("UpdateStudio") @@ [studio |-> 2, cinema |-> k1, name |-> n3],
     Admin("DeleteStudio") @@ [studio |-> 2, cinema |-> k1, name |-> n2],
     Admin("CreateStudio") @@ [studio |-> 3, cinema |-> k1, name |-> n3],
     Admin("CreateMovie") @@ [movie |-> m2, minutes |-> 90],
     Admin("UpdateMovie") @@ [movie |-> m2, minutes |-> 95],
     Admin("DeleteMovie") @@ [movie |-> m2, minutes |-> 0]}
LayoutRequests ==
    {Admin("CreateSeat") @@ [seat |-> 4, studio |-> 2, place |-> p2],
     Admin("UpdateSeat") @@ [seat |-> 3, studio |-> 1, place |-> p1],
     Admin("UpdateSeat") @@ [seat |-> 3, studio |-> 2, place |-> p2],
     Admin("DeleteSeat") @@ [seat |-> 3, studio |-> 2, place |-> p1]}
ShowtimeRequests ==
    {Admin("CreateShowtime") @@ Show(w2, 2, m1, 1, 3, Exact),
     Admin("UpdateShowtime") @@ Show(w1, 2, m2, 0, 2, Exact),
     Admin("UpdateShowtime") @@ Show(w2, 1, m1, 1, 3, Cheap),
     Admin("UpdateShowtime") @@ Show(w1, 1, m1, 0, 1, Exact),
     Admin("DeleteShowtime") @@ Show(w1, 1, m1, 0, 0, Cheap)}
BookingRequests ==
    {[op |-> "CreateHold", showtime |-> w1, seats |-> {1, 2}],
     [op |-> "ReleaseHold", showtime |-> w1, seats |-> {1, 2}]}
RefusedRequests ==
    {By("nobody", "good", "DeleteMovie") @@ [movie |-> m1, minutes |-> 0],
     By("CUSTOMER", "good", "CreateSeat")
         @@ [seat |-> 4, studio |-> 2, place |-> p2],
     By("ADMIN", "bad id", "DeleteStudio")
         @@ [studio |-> 2, cinema |-> k1, name |-> n2],
     By("ADMIN", "bad text", "UpdateCinema") @@ [cinema |-> k1],
     Admin("UpdateShowtime") @@ Show(w1, 2, m1, 0, 2, TooFine),
     Admin("UpdateShowtime") @@ Show(w1, 2, m1, 0, 2, TooWide)}

MCRequests == CatalogueRequests \cup LayoutRequests \cup ShowtimeRequests
              \cup BookingRequests \cup RefusedRequests

CallSymmetry == Permutations(Calls)
=============================================================================
