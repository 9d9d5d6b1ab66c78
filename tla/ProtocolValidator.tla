------------------------- MODULE ProtocolValidator -------------------------
(***************************************************************************)
(* The rules of validate_request, which decide whether a request reaches a *)
(* handler, and the requests the client library makes.  What one recv      *)
(* brought is text that is no JSON (Garbage) or a JSON value, tagged with  *)
(* its type; an object is a function from the names of its fields.  Only   *)
(* the verdict is modelled, not the message that goes with a refusal.      *)
(***************************************************************************)
EXTENDS Naturals, Integers, Sequences, FiniteSets

CONSTANTS
    Venue,          \* SECTION_CONFIG: rows and columns of each section
    Blank,          \* a string of nothing but white space
    SeatLimit       \* seats a batch may ask for at most (10)

ASSUME VenueAssumption ==
    \A sec \in DOMAIN Venue : Venue[sec] \in [rows : Nat, cols : Nat]
ASSUME SeatLimitAssumption == SeatLimit \in Nat

Garbage   == [type |-> "garbage"]
Text(x)   == [type |-> "str", text |-> x]
Number(n) == [type |-> "int", num |-> n]
Array(s)  == [type |-> "list", items |-> s]
Object(f) == [type |-> "dict", fields |-> f]

\* What json.loads guarantees, two levels deep: an int is an integer, a list
\* has a length.
HasInts(f) == \A name \in DOMAIN f : f[name].type = "int" => f[name].num \in Int
IsList(s)  == Len(s) \in Nat /\ DOMAIN s = 1 .. Len(s)
IsJson(data) ==
    data.type = "dict" =>
        /\ HasInts(data.fields)
        /\ \A name \in DOMAIN data.fields : data.fields[name].type = "list" =>
               LET items == data.fields[name].items
               IN  /\ IsList(items)
                   /\ \A i \in DOMAIN items :
                          items[i].type = "dict" => HasInts(items[i].fields)

ReserveActions == {"RESERVE", "RESERVE_BATCH", "RESERVE_SELECTED"}
Actions == ReserveActions \cup {"CONFIRM", "CANCEL", "QUERY", "QUERY_SEAT_MAP",
                                "SUBSCRIBE_NOTIFICATIONS"}

-----------------------------------------------------------------------------
(* The rules.  f: the fields of the request, or of one seat of a batch.     *)

HasField(f, name, type) == name \in DOMAIN f /\ f[name].type = type

\* A field that must be there and hold more than white space.
HasName(f, name) == HasField(f, name, "str") /\ f[name].text # Blank

\* A bool is an int to Python; the rules refuse it.
HasIndex(f, name) == HasField(f, name, "int") /\ f[name].num >= 0

HasSection(f) == HasField(f, "section", "str") /\ f["section"].text \in DOMAIN Venue

\* Variant: the last row of a section plus one passes for a row.
ValidSeatLoosely(f) ==
    /\ HasSection(f) /\ HasIndex(f, "row") /\ HasIndex(f, "col")
    /\ f["row"].num <= Venue[f["section"].text].rows
    /\ f["col"].num < Venue[f["section"].text].cols

ValidSeat(f) ==
    /\ HasSection(f) /\ HasIndex(f, "row") /\ HasIndex(f, "col")
    /\ f["row"].num < Venue[f["section"].text].rows
    /\ f["col"].num < Venue[f["section"].text].cols

SeatOf(f) == <<f["section"].text, f["row"].num, f["col"].num>>

ValidBatch(f) ==
    /\ HasField(f, "seats", "list")
    /\ Len(f["seats"].items) \in 1 .. SeatLimit
    /\ \A i \in 1 .. Len(f["seats"].items) :
           /\ f["seats"].items[i].type = "dict"
           /\ ValidSeat(f["seats"].items[i].fields)
    /\ \A i, j \in 1 .. Len(f["seats"].items) :
           SeatOf(f["seats"].items[i].fields) = SeatOf(f["seats"].items[j].fields)
               => i = j

ValidAction(f) == HasField(f, "action", "str") /\ f["action"].text \in Actions

\* Every action but the two queries needs the name of a user.
ValidUser(f) == f["action"].text \in {"QUERY", "QUERY_SEAT_MAP"} \/ HasName(f, "user_id")

ValidPayload(f) ==
    CASE f["action"].text = "RESERVE" -> ValidSeat(f)
      [] f["action"].text \in {"RESERVE_BATCH", "RESERVE_SELECTED"} -> ValidBatch(f)
      [] f["action"].text \in {"CONFIRM", "CANCEL"} -> HasName(f, "transaction_id")
      [] OTHER -> TRUE

Valid(data) ==
    /\ data.type = "dict"
    /\ ValidAction(data.fields) /\ ValidUser(data.fields) /\ ValidPayload(data.fields)

\* Of valid requests.
IsSubscription(data) == data.fields["action"].text = "SUBSCRIBE_NOTIFICATIONS"
IsQuery(data) == data.fields["action"].text \in {"QUERY", "QUERY_SEAT_MAP"}

\* What the handlers read of a valid request that is no query: whom it is for,
\* and the seats or the session it names.
Reading(data) ==
    LET f == data.fields
        action == f["action"].text
    IN  [action |-> action, user |-> f["user_id"].text,
         id     |-> IF action \in {"CONFIRM", "CANCEL"}
                    THEN f["transaction_id"].text ELSE Blank,
         places |-> CASE action = "RESERVE" -> <<SeatOf(f)>>
                      [] action \in {"RESERVE_BATCH", "RESERVE_SELECTED"} ->
                            [i \in 1 .. Len(f["seats"].items) |->
                                SeatOf(f["seats"].items[i].fields)]
                      [] OTHER -> <<>>]

-----------------------------------------------------------------------------
(* ConcertClient: the requests its methods make.  The user's name is added  *)
(* by send_request; subscribe_notifications sends its own.                  *)

SeatsOfVenue ==
    UNION {{[section |-> Text(sec), row |-> Number(r), col |-> Number(c)] :
               r \in 0 .. Venue[sec].rows - 1, c \in 0 .. Venue[sec].cols - 1} :
           sec \in DOMAIN Venue}

ReserveSeat(u, seat) ==
    Object([action |-> Text("RESERVE"), user_id |-> Text(u), section |-> seat.section,
            row |-> seat.row, col |-> seat.col])

\* RESERVE_BATCH has the same fields; the library has no method for it.
ReserveSelected(action, u, seats) ==
    Object([action |-> Text(action), user_id |-> Text(u),
            seats |-> Array([i \in DOMAIN seats |-> Object(seats[i])])])

\* confirm and cancel.
EndSession(action, u, id) ==
    Object([action |-> Text(action), user_id |-> Text(u), transaction_id |-> Text(id)])

\* query, query_seat_map, subscribe_notifications.
Ask(action, u) == Object([action |-> Text(action), user_id |-> Text(u)])

\* Lists of different seats, no longer than a batch may be.
SeatLists ==
    UNION {{l \in [1 .. n -> SeatsOfVenue] : \A i, j \in 1 .. n : l[i] = l[j] => i = j} :
           n \in 1 .. SeatLimit}

\* What the library sends for a user with a name and, in queries, without.
ClientRequests(users, ids) ==
    {ReserveSeat(u, seat) : u \in users, seat \in SeatsOfVenue}
    \cup {ReserveSelected(a, u, l) : a \in {"RESERVE_BATCH", "RESERVE_SELECTED"},
                                     u \in users, l \in SeatLists}
    \cup {EndSession(a, u, id) : a \in {"CONFIRM", "CANCEL"}, u \in users, id \in ids}
    \cup {Ask("SUBSCRIBE_NOTIFICATIONS", u) : u \in users}
    \cup {Ask(a, u) : a \in {"QUERY", "QUERY_SEAT_MAP"}, u \in users \cup {Blank}}
=============================================================================
