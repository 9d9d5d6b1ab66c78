---------------------------- MODULE ServerState ----------------------------
(***************************************************************************)
(* The state the threads of the ConcertSync server share, and the          *)
(* operations on it that the request handlers and the monitor thread call: *)
(* the seat matrix and its semaphores, the session manager, the SQLite     *)
(* store, the notification queues and the ticket generator.                *)
(*                                                                         *)
(* Time is kept as ages: a session's age is the number of ticks since its  *)
(* last_activity, capped at TTL + 1, the first age that counts as expired. *)
(***************************************************************************)
EXTENDS Integers, FiniteSets

CONSTANTS
    Users,          \* client user ids
    Nobody,         \* "no user": a seat without a purchase record
    Threads,        \* TransactionalThreads that may run at the same time
    Seats,          \* every seat of the venue
    Sections,       \* VIP, PREFERENTIAL, GENERAL
    SectionOf,      \* the section of each seat
    Subscribers,    \* users with a notification subscription
    TicketsWritable,\* whether the tickets directory can be created
    TTL,            \* RESERVATION_TTL, in ticks
    WarningTicks,   \* TTL_WARNING_THRESHOLD, in ticks
    MaxBatch,       \* most seats a RESERVE_BATCH may name
    MaxSessions,    \* bound: session ids issued in a behaviour
    MaxLockWait,    \* bound: ticks expire_session waits for its locks
    MaxLogFaults    \* bound: log appends that raise OSError

ASSUME UsersAssumption == Nobody \notin Users /\ Subscribers \subseteq Users
ASSUME SeatsAssumption == IsFiniteSet(Seats) /\ SectionOf \in [Seats -> Sections]
ASSUME BoundsAssumption ==
    /\ TicketsWritable \in BOOLEAN
    /\ TTL \in Nat \ {0} /\ WarningTicks \in Nat
    /\ MaxBatch \in Nat \ {0} /\ MaxSessions \in Nat
    /\ MaxLockWait \in Nat /\ MaxLogFaults \in Nat

VARIABLES
    seat,           \* seat_matrix.seats
    sem,            \* semaphore_mgr.s_sections: free slots of each section
    sessions,       \* session_manager._sessions, by user
    lastId,         \* session ids (uuid4) issued so far
    thread,         \* the request each TransactionalThread is serving
    mon,            \* the monitor thread
    dbSeat,         \* table seat_states
    dbSessions,     \* tables sessions and session_seats, by user
    dbPurchased,    \* table purchased_seats: buyer of each seat
    inbox,          \* notification types queued for each subscriber
    sectionFull,    \* notification_manager._section_full_state
    tickets,        \* ticket counter, ticket threads, ticket files
    logFaults       \* log appends that have raised

seatVars   == <<seat, sem>>
dbVars     == <<dbSeat, dbSessions, dbPurchased>>
noticeVars == <<inbox, sectionFull>>
vars == <<seat, sem, sessions, lastId, thread, mon, dbSeat, dbSessions,
          dbPurchased, inbox, sectionFull, tickets, logFaults>>

SeatState == {"AVAILABLE", "RESERVED", "SOLD"}
NotificationType ==
    {"TTL_WARNING", "EXPIRED", "CONFIRMED", "AVAILABILITY"}

-----------------------------------------------------------------------------
(* Seat matrix and semaphores *)

SeatsOf(sec) == {s \in Seats : SectionOf[s] = sec}
Capacity(sec) == Cardinality(SeatsOf(sec))

Available(m, sec) == {s \in SeatsOf(sec) : m[s] = "AVAILABLE"}

SetSeats(S, state) == [s \in Seats |-> IF s \in S THEN state ELSE seat[s]]

\* Semaphore.acquire(blocking=False), once for each seat of S.
HasCapacity(S) ==
    \A sec \in Sections : Cardinality(S \cap SeatsOf(sec)) <= sem[sec]
AcquireSlots(S) ==
    [sec \in Sections |-> sem[sec] - Cardinality(S \cap SeatsOf(sec))]

\* Variant: one slot per section, however many seats were given back.
ReleaseOneSlot(count) ==
    [sec \in Sections |-> sem[sec] + (IF count[sec] > 0 THEN 1 ELSE 0)]

\* release_multiple: threading.Semaphore has no upper bound, nothing raises.
ReleaseSlots(count) == [sec \in Sections |-> sem[sec] + count[sec]]

-----------------------------------------------------------------------------
(* Sessions.  A session lists its seats in a Python list: seats[s] is how   *)
(* many times s is in the list, whose order nothing depends on.  Id 0 is no *)
(* session.  A session leaves the dictionary in the critical section that   *)
(* makes it CONFIRMED or CANCELLED, so every listed session is ACTIVE.      *)

NoSeats   == [s \in Seats |-> 0]
Session   == [id : Nat, seats : [Seats -> Nat], age : 0 .. TTL + 1]
NoSession == [id |-> 0, seats |-> NoSeats, age |-> 0]

HasSession(u) == sessions[u].id # 0
Listed(u)     == {s \in Seats : sessions[u].seats[s] > 0}

\* The list entries of one section, each as a pair of its seat and its rank.
Entries(list, sec) == UNION {{s} \X (1 .. list[s]) : s \in SeatsOf(sec)}

\* is_expired: a session without seats is expired at once.
IsExpired(session) == session.seats = NoSeats \/ session.age > TTL

\* get_or_create: the session the caller gets, and the ids issued after it.
GetOrCreate(u) ==
    IF HasSession(u) THEN sessions[u]
    ELSE [id |-> lastId + 1, seats |-> NoSeats, age |-> 0]
IdsAfterGet(u) == IF HasSession(u) THEN lastId ELSE lastId + 1

\* Variant: the seats go to the session found before the locks were taken,
\* which may have left the dictionary since.
AppendToStaleSession(session, S) ==
    IF session.id > lastId THEN NoSession
    ELSE [session EXCEPT !.age = 0,
              !.seats = [s \in Seats |->
                  IF s \in S THEN session.seats[s] + 1 ELSE session.seats[s]]]

\* reserve appends every seat to the list and resets the TTL.
AppendSeats(session, S) ==
    [session EXCEPT !.age = 0,
                    !.seats = [s \in Seats |->
                        IF s \in S THEN session.seats[s] + 1
                        ELSE session.seats[s]]]

\* get_by_session_id, then the check that the session is the caller's own.
OwnsSession(u, id) == id # 0 /\ sessions[u].id = id

RemoveSession(u) == [sessions EXCEPT ![u] = NoSession]

-----------------------------------------------------------------------------
(* SQLite store.  Every method is one transaction under the store's lock.   *)

Row   == [id : Nat, seats : SUBSET Seats, age : 0 .. TTL + 1]
NoRow == [id |-> 0, seats |-> {}, age |-> 0]

\* Variants: the matrix is saved before the handler's own changes; or without
\* a commit.
SaveSeatsTooEarly(m)    == dbSeat' = seat
SaveSeatsUncommitted(m) == dbSeat' = dbSeat

\* INSERT OR REPLACE of the whole matrix.
SaveAllSeats(m) == dbSeat' = m

\* Variant: INSERT OR IGNORE, which keeps the row of an earlier session.
SaveNewSessions ==
    dbSessions' = [u \in Users |->
        IF HasSession(u) /\ dbSessions[u].id = 0
        THEN [id |-> sessions[u].id, seats |-> Listed(u),
              age |-> sessions[u].age]
        ELSE dbSessions[u]]

\* INSERT OR REPLACE of every session in memory: the rows of users without
\* a session stay as they are.
SaveAllSessions ==
    dbSessions' = [u \in Users |->
        IF HasSession(u)
        THEN [id |-> sessions[u].id, seats |-> Listed(u),
              age |-> sessions[u].age]
        ELSE dbSessions[u]]

\* delete_session closes its connection without a commit, which rolls the
\* DELETE back: both tables are left as they were.
DeleteSession(u) == dbSessions' = dbSessions

-----------------------------------------------------------------------------
(* Notifications and tickets *)

Enqueue(queues, U, type) ==
    [u \in Subscribers |-> IF u \in U THEN queues[u] \cup {type} ELSE queues[u]]

\* _notify_availability_if_needed, for each section of Secs, once the seat
\* matrix is m: the full flag is only ever set here, after a release.
NotifyAvailability(m, Secs) ==
    LET isFull(sec) == Available(m, sec) = {}
        reopened == {sec \in Secs : sectionFull[sec] /\ ~isFull(sec)}
    IN  /\ sectionFull' = [sec \in Sections |->
                IF sec \in Secs THEN isFull(sec) ELSE sectionFull[sec]]
        /\ inbox' = IF reopened = {} THEN inbox
                    ELSE Enqueue(inbox, Subscribers, "AVAILABILITY")

Ticket == [number : Nat, id : Nat]

\* generate_ticket_id, and the daemon thread that will write the file; it
\* ends without any effect when there is no directory to write to.
IssueTicket(id) ==
    LET number == tickets.counter + 1
    IN  tickets' = [tickets EXCEPT
            !.counter = number,
            !.jobs = IF TicketsWritable
                     THEN @ \cup {[number |-> number, id |-> id]} ELSE @]

\* generate_ticket writes ticket_<number>.txt over any file of that name.
WriteTicket(job) ==
    /\ job \in tickets.jobs
    /\ tickets' = [tickets EXCEPT
           !.jobs = @ \ {job},
           !.files = {f \in @ : f.number # job.number} \cup {job}]
    /\ UNCHANGED <<seatVars, sessions, lastId, thread, mon, dbVars,
                   noticeVars, logFaults>>
=============================================================================
