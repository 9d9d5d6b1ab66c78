--------------------------- MODULE MCConnections ---------------------------
(***************************************************************************)
(* Two connections: one whose client sends any of the library's requests,  *)
(* or one of them with a field changed, left out or added; one with a      *)
(* reservation or a subscription.                                          *)
(***************************************************************************)
EXTENDS Connections, TLC

CONSTANTS c1, c2

SmallVenue == "VIP" :> [rows |-> 1, cols |-> 2]
Seat(c) == [section |-> Text("VIP"), row |-> Number(0), col |-> Number(c)]

\* The fields of a request or a seat with one left out, or with a wrong value.
Wrong(f) ==
    {[n \in DOMAIN f \ {name} |-> f[n]] : name \in DOMAIN f}
        \cup {[f EXCEPT ![name] = v] : name \in DOMAIN f, v \in {Text(Blank), [type |-> "bool"]}}
WrongSeats == Wrong(Seat(1)) \cup {[Seat(1) EXCEPT !.row = Number(1)],
    [Seat(1) EXCEPT !.col = Number(2)], [Seat(1) EXCEPT !.col = Number(-1)]}

Batch(seats) == ReserveSelected("RESERVE_SELECTED", "user", seats)
AnyRequest ==
    LibraryRequests \cup {Array(<<>>)}
    \cup {Object(Batch(<<Seat(0)>>).fields @@ ("note" :> Number(1)))}
    \cup {Object(f) : f \in Wrong(Batch(<<Seat(0)>>).fields)}
    \cup {Object(f) : f \in Wrong(EndSession("CONFIRM", "user", "id").fields)}
    \cup {ReserveSeat("user", f) : f \in {g \in WrongSeats : DOMAIN g = DOMAIN Seat(0)}}
    \cup {Batch(<<Seat(0), f>>) : f \in WrongSeats}
    \cup {Batch(l) : l \in {<<>>, <<Seat(1), Seat(1)>>, <<Seat(0), Seat(1), Seat(0)>>}}
    \cup {Object([Batch(<<>>).fields EXCEPT !["seats"] = Array(<<Number(0)>>)])}

TwoClients ==
    c1 :> AnyRequest
        @@ c2 :> {ReserveSeat("user", Seat(1)), Ask("SUBSCRIBE_NOTIFICATIONS", "user")}
=============================================================================
