------------------------------ MODULE AdminApi ------------------------------
(***************************************************************************)
(* The administrator's HTTP routes before and after a transaction: what    *)
(* the handlers of internal/httpapi/server.go and the checks of            *)
(* internal/admin/service.go refuse, and the status code each error of     *)
(* the repository is answered with.  Ids, names and texts are model        *)
(* values; a price is the number of digits it is written with.             *)
(***************************************************************************)
EXTENDS Naturals

CONSTANTS Cinemas, Studios, Names, Seats, Places, Movies, Showtimes

Callers == {"nobody", "CUSTOMER", "ADMIN"}

\* How a request is written: well, with an id that is no UUID, with a body
\* that is no JSON, or with a text in it that is blank or malformed.
Forms == {"good", "bad id", "bad body", "bad text"}

\* The digits before and after the point, leading zeros left out.
Price == [whole : Nat, fraction : Nat]

Reads == {"ListCinemas", "FindCinema", "ListStudios", "ListMovies", "ListSeats",
          "ListShowtimes"}
CinemaOps == {"CreateCinema", "UpdateCinema", "DeleteCinema", "ListCinemas",
              "FindCinema"}
StudioOps == {"CreateStudio", "UpdateStudio", "DeleteStudio", "ListStudios"}
MovieOps == {"CreateMovie", "UpdateMovie", "DeleteMovie", "ListMovies"}
SeatOps == {"CreateSeat", "UpdateSeat", "DeleteSeat", "ListSeats"}
ShowtimeOps == {"CreateShowtime", "UpdateShowtime", "DeleteShowtime",
                "ListShowtimes"}
AdminOps == CinemaOps \cup StudioOps \cup MovieOps \cup SeatOps \cup ShowtimeOps

\* The requests that have a body, and those that name rows by their ids.
Writes == {"CreateCinema", "UpdateCinema", "CreateStudio", "UpdateStudio",
           "CreateMovie", "UpdateMovie", "CreateSeat", "UpdateSeat",
           "CreateShowtime", "UpdateShowtime"}
Naming == AdminOps \ ((Reads \ {"FindCinema"}) \cup {"CreateCinema", "CreateMovie"})

CinemaRequest == [op : CinemaOps, caller : Callers, form : Forms,
                  cinema : Cinemas]
StudioRequest == [op : StudioOps, caller : Callers, form : Forms,
                  studio : Studios, cinema : Cinemas, name : Names]
MovieRequest == [op : MovieOps, caller : Callers, form : Forms,
                 movie : Movies, minutes : Nat]
SeatRequest == [op : SeatOps, caller : Callers, form : Forms,
                seat : Seats, studio : Studios, place : Places]
ShowtimeRequest == [op : ShowtimeOps, caller : Callers, form : Forms,
                    showtime : Showtimes, studio : Studios, movie : Movies,
                    starts : Nat, ends : Nat, price : Price]
AdminRequest == CinemaRequest \cup StudioRequest \cup MovieRequest
                \cup SeatRequest \cup ShowtimeRequest
----------------------------------------------------------------------------
(* Validation in the service.                                              *)

PriceTotalDigits == 12
PricePrecision == 2

\* normalizePrice counts the digits as written, before it pads the fraction.
PriceAccepted(p) ==
    /\ p.whole > 0
    /\ p.fraction <= PricePrecision
    /\ p.whole + p.fraction <= PriceTotalDigits

\* NUMERIC(12, 2) keeps ten digits before the point, whatever is written
\* after it: an accepted price of eleven digits is refused by the database.
FitsColumn(p) == p.whole <= PriceTotalDigits - PricePrecision

CinemaValid(r) == r.op \in Writes => r.form # "bad text"

StudioValid(r) == r.op \in Writes => r.form # "bad text"

SeatValid(r) == r.op \in Writes => r.form # "bad text"

MovieValid(r) == r.op \in Writes => r.form # "bad text" /\ r.minutes > 0

ShowtimeValid(r) ==
    r.op \in Writes =>
        r.form # "bad text" /\ r.starts < r.ends /\ PriceAccepted(r.price)

\* requireRole comes first; the handlers and the service check the rest.
RoleRefusal(r) ==
    CASE r.caller = "nobody" -> 401
      [] r.caller = "CUSTOMER" -> 403
      [] r.caller = "ADMIN" -> 0

Unreadable(r) == r.form = "bad body" /\ r.op \in Writes
Misnamed(r) == r.form = "bad id" /\ r.op \in Naming

CinemaRefusal(r) ==
    IF Unreadable(r) \/ Misnamed(r) \/ ~CinemaValid(r) THEN 400 ELSE 0

\* The ids are not parsed here: the database rejects what is no UUID.
StudioRefusal(r) ==
    CASE Unreadable(r) \/ ~StudioValid(r) -> 400
      [] Misnamed(r) -> 500
      [] OTHER -> 0

SeatRefusal(r) ==
    IF Unreadable(r) \/ Misnamed(r) \/ ~SeatValid(r) THEN 400 ELSE 0

MovieRefusal(r) ==
    IF Unreadable(r) \/ Misnamed(r) \/ ~MovieValid(r) THEN 400 ELSE 0

ShowtimeRefusal(r) ==
    IF Unreadable(r) \/ Misnamed(r) \/ ~ShowtimeValid(r) THEN 400 ELSE 0

\* The status a request is answered with before a transaction, or 0.
Refusal(r) ==
    IF RoleRefusal(r) # 0 THEN RoleRefusal(r)
    ELSE CASE r.op \in CinemaOps -> CinemaRefusal(r)
           [] r.op \in StudioOps -> StudioRefusal(r)
           [] r.op \in SeatOps -> SeatRefusal(r)
           [] r.op \in MovieOps -> MovieRefusal(r)
           [] r.op \in ShowtimeOps -> ShowtimeRefusal(r)
----------------------------------------------------------------------------
(* The answers to what the repository returns; what has no name is a 500.  *)

CinemaStatus(error) == IF error = "CinemaNotFound" THEN 404 ELSE 500

\* A violated key or reference has no name here, not even a missing cinema.
StudioStatus(error) == IF error = "StudioNotFound" THEN 404 ELSE 500

MovieStatus(error) == IF error = "MovieNotFound" THEN 404 ELSE 500

\* Fault: a layout in use is answered with a status no client knows.
UnprocessableSeat(error) ==
    CASE error \in {"SeatNotFound", "StudioNotFound"} -> 404
      [] error = "SeatAlreadyExists" -> 409
      [] error = "SeatLayoutInUse" -> 422
      [] OTHER -> 500

SeatStatus(error) ==
    CASE error \in {"SeatNotFound", "StudioNotFound"} -> 404
      [] error \in {"SeatAlreadyExists", "SeatLayoutInUse"} -> 409
      [] OTHER -> 500

ShowtimeStatus(error) ==
    CASE error \in {"ShowtimeNotFound", "MovieNotFound", "StudioNotFound"} -> 404
      [] error \in {"ShowtimeInUse", "ShowtimeOverlap"} -> 409
      [] OTHER -> 500
=============================================================================
