------------------------- MODULE ReservationServer -------------------------
(***************************************************************************)
(* The running server: TransactionalThreads, the monitor thread, the       *)
(* ticket threads, the notifier and the clock, interleaved over the state  *)
(* of ServerState.                                                         *)
(***************************************************************************)
EXTENDS MonitorThread

Init ==
    /\ seat = [s \in Seats |-> "AVAILABLE"]
    /\ sem = [sec \in Sections |-> Capacity(sec)]
    /\ sessions = [u \in Users |-> NoSession]
    /\ lastId = 0
    /\ thread = [t \in Threads |-> Idle]
    /\ mon = Asleep
    /\ dbSeat = [s \in Seats |-> "AVAILABLE"]
    /\ dbSessions = [u \in Users |-> NoRow]
    /\ dbPurchased = [s \in Seats |-> Nobody]
    /\ inbox = [u \in Subscribers |-> {}]
    /\ sectionFull = [sec \in Sections |-> FALSE]
    /\ tickets = [counter |-> 0, jobs |-> {}, files |-> {}]
    /\ logFaults = 0

\* The clock: time.time() - last_activity grows for every session, in memory
\* and in the database alike.  The bound keeps a wait for locks short.
Older(age) == IF age > TTL THEN age ELSE age + 1
Tick ==
    /\ mon.pc = "expire" => mon.wait < MaxLockWait
    /\ sessions' = [u \in Users |->
           IF HasSession(u) THEN [sessions[u] EXCEPT !.age = Older(@)]
           ELSE sessions[u]]
    /\ dbSessions' = [u \in Users |->
           IF dbSessions[u].id # 0 THEN [dbSessions[u] EXCEPT !.age = Older(@)]
           ELSE dbSessions[u]]
    /\ mon' = IF mon.pc = "expire" THEN [mon EXCEPT !.wait = @ + 1] ELSE mon
    /\ UNCHANGED <<seatVars, lastId, thread, dbSeat, dbPurchased, noticeVars,
                   tickets, logFaults>>

\* NotifierThread takes a notification off a subscriber's queue and sends it.
Deliver(u, type) ==
    /\ type \in inbox[u]
    /\ inbox' = [inbox EXCEPT ![u] = @ \ {type}]
    /\ UNCHANGED <<seatVars, sessions, lastId, thread, mon, dbVars, sectionFull,
                   tickets, logFaults>>

Next ==
    \/ \E t \in Threads : Handle(t)
    \/ \E t \in Threads, u \in Users : Receive(t, u)
    \/ MonitorNext
    \/ Tick
    \/ \E u \in Subscribers, type \in NotificationType : Deliver(u, type)
    \/ \E job \in tickets.jobs : WriteTicket(job)

Spec == Init /\ [][Next]_vars

-----------------------------------------------------------------------------
TypeOK ==
    /\ seat \in [Seats -> SeatState]
    /\ sem \in [Sections -> Nat]
    /\ sessions \in [Users -> Session]
    /\ lastId \in Nat
    /\ thread \in [Threads -> Request]
    /\ mon \in Monitor
    /\ dbSeat \in [Seats -> SeatState]
    /\ dbSessions \in [Users -> Row]
    /\ dbPurchased \in [Seats -> Users \cup {Nobody}]
    /\ inbox \in [Subscribers -> SUBSET NotificationType]
    /\ sectionFull \in [Sections -> BOOLEAN]
    /\ tickets \in [counter : Nat, jobs : SUBSET Ticket, files : SUBSET Ticket]
    /\ logFaults \in 0 .. MaxLogFaults

-----------------------------------------------------------------------------
(* Ownership of seats *)

BeingSoldTo(u) ==
    UNION {Listed(u) \ thread[t].seats :
              t \in {x \in Threads : thread[x].pc = "sell" /\ thread[x].user = u}}

\* No stuck seat: a RESERVED seat is on the list of some session, so that
\* CONFIRM, CANCEL or the monitor can still reach it.
ReservedSeatsAreListed ==
    \A s \in Seats : seat[s] = "RESERVED" => \E u \in Users : s \in Listed(u)

\* No double ownership: a seat is on one session's list, and once.
ListedOnce ==
    \A u \in Users : \A s \in Listed(u) :
        /\ sessions[u].seats[s] = 1
        /\ \A v \in Users : s \in Listed(v) => u = v

\* What a session lists is RESERVED, or has just been sold to its user by a
\* CONFIRM that still has its locks.
ListedSeatsAreHeld ==
    \A u \in Users : \A s \in Listed(u) :
        seat[s] = (IF s \in BeingSoldTo(u) THEN "SOLD" ELSE "RESERVED")

SeatHeldExactlyOnce == ReservedSeatsAreListed /\ ListedOnce /\ ListedSeatsAreHeld

\* The free slots of a section are its AVAILABLE seats, so that the semaphore
\* never refuses a free seat nor admits a taken one.
SemaphoreMatchesAvailable ==
    \A sec \in Sections : sem[sec] = Cardinality(Available(seat, sec))

\* No capacity is lost: a section has a slot for every AVAILABLE seat, even
\* when log appends fail and across restarts.
NoSlotIsLost ==
    \A sec \in Sections : sem[sec] >= Cardinality(Available(seat, sec))

\* A sold seat stays sold, to the same buyer once there is one.
SoldIsFinal ==
    [][\A s \in Seats : seat[s] = "SOLD" =>
           /\ seat'[s] = "SOLD"
           /\ s \in Recording \/ dbPurchased'[s] = dbPurchased[s]]_vars

\* A seat is sold, its buyer recorded, only to the user whose session listed it.
IsSold(s) == seat[s] = "SOLD" /\ s \notin Recording
SoldOnlyToHolder ==
    [][\A s \in Seats : ~IsSold(s) /\ IsSold(s)' =>
           dbPurchased'[s] \in Users /\ s \in Listed(dbPurchased'[s])]_vars

\* The monitor takes away no session that has not expired, however stale the
\* list it works from.
MonitorSparesLiveSessions ==
    [][mon' # mon => \A u \in Users :
           HasSession(u) /\ ~IsExpired(sessions[u]) =>
               sessions'[u].id = sessions[u].id]_vars

-----------------------------------------------------------------------------
(* What the seats look like to the clients *)

\* A listed seat counts as reserved by the user who lists it until CommitSale
\* takes the session away: that is where a sale happens, for all its seats.
Holders(s) == {u \in Users : sessions[u].seats[s] > 0}
saleStatus == [s \in Seats |->
    IF Holders(s) # {}
    THEN [state |-> "RESERVED", user |-> CHOOSE u \in Holders(s) : TRUE]
    ELSE [state |-> seat[s],
          user |-> IF seat[s] = "SOLD" THEN dbPurchased[s] ELSE Nobody]]
sessionIds == [u \in Users |-> sessions[u].id]
Sale == INSTANCE SessionSale
            WITH status <- saleStatus, session <- sessionIds, last <- lastId

\* The threads together sell each seat to one buyer, through one reservation,
\* and the seats of a reservation together.
ImplementsSeatSale == Sale!Spec

\* They do so session by session: a reservation is made in its user's session
\* and ends in the step that ends it, and the id of an ended session, which a
\* late CONFIRM may still bear, is nobody's ever after.
ImplementsSessionSale == Sale!SessionSpec

-----------------------------------------------------------------------------
(* Memory and database *)

\* A seat that differs from its saved state is one a handler is still about
\* to save.
UnsavedBy(t) ==
    CASE thread[t].pc = "reserved" -> thread[t].seats
      [] thread[t].pc = "sell"     -> Listed(thread[t].user) \ thread[t].seats
      [] OTHER                     -> {}
SeatsAreSaved ==
    \A s \in Seats : dbSeat[s] # seat[s] => \E t \in Threads : s \in UnsavedBy(t)

\* A reservation that was answered with SUCCESS is in the database, under the
\* session id the client was given.
UnsavedSessionSeats(u) ==
    UNION {thread[t].seats : t \in {x \in Threads :
        thread[x].pc \in {"reserved", "saveSessions"} /\ thread[x].user = u}}
ReservationsAreSaved ==
    \A u \in Users : \A s \in Listed(u) \ UnsavedSessionSeats(u) :
        dbSessions[u].id = sessions[u].id /\ s \in dbSessions[u].seats

\* The saved matrix shows the seats of one CONFIRM sold all together.
SalesAreSavedWhole ==
    \A t \in Threads : thread[t].pc = "sell" =>
        \A s \in Listed(thread[t].user) : dbSeat[s] # "SOLD"

-----------------------------------------------------------------------------
(* Tickets *)

\* A sale has one ticket and a ticket one sale, however many CONFIRMs of the
\* session race.
OneTicketPerSale ==
    \A x, y \in tickets.jobs \cup tickets.files :
        x.number = y.number <=> x.id = y.id

-----------------------------------------------------------------------------
(* Progress.  The locks are starvation free; every thread that can run does *)
(* (daemon threads of one process); clients are under no obligation.        *)

Acquire(t) == ReserveSeats(t) \/ RefuseReserve(t) \/ SaveSeats(t) \/ Rollback(t)
Proceed(t) ==
    SaveSessions(t) \/ (\E s \in Seats : SellSeat(t, s)) \/ RecordBuyer(t)
    \/ CommitSale(t) \/ AnnounceSale(t)

ThreadFairness == \A t \in Threads : SF_vars(Acquire(t)) /\ WF_vars(Proceed(t))
MonitorFairness ==
    /\ SF_vars(ExpireSession \/ SpareSession)
    /\ WF_vars(Sweep \/ (\E x \in mon.todo : TakeSnapshot(x))
               \/ AnnounceExpiry \/ WarnExpiring)

FairSpec == Spec /\ ThreadFairness /\ MonitorFairness /\ WF_vars(Tick)

\* Every request that got past its arrival is answered.
RequestsAreAnswered ==
    \A t \in Threads : thread[t].pc # "idle" ~> thread[t].pc = "idle"

\* No seat is RESERVED for ever, however often its holder refreshes the
\* session: it is sold, cancelled or reclaimed.
ReservationsEnd ==
    \A s \in Seats : seat[s] = "RESERVED" ~> seat[s] # "RESERVED"

\* A failing log append ends reservations that nobody ends only by ending the
\* monitor: until then even a seat that a rollback has left on a session's
\* list is given back.
ReservationsEndWithMonitor ==
    \A s \in Seats :
        seat[s] = "RESERVED" ~> seat[s] # "RESERVED" \/ mon.pc = "dead"
=============================================================================
