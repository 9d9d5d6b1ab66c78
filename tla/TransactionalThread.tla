------------------------ MODULE TransactionalThread ------------------------
(***************************************************************************)
(* The handlers of RESERVE, RESERVE_BATCH / RESERVE_SELECTED, CONFIRM and   *)
(* CANCEL.  A critical section in which nothing outside can see or stop     *)
(* the handler half way is one action; a handler that commits to the       *)
(* database several times, or leaves its locks in between, is one action   *)
(* per commit or per critical section.                                     *)
(*                                                                         *)
(* Locks.  A handler that keeps locks from one action to the next keeps    *)
(* the locks of all sections: CONFIRM also keeps the table lock, the       *)
(* saving phase of a reserve does not.  Who holds what follows from pc.    *)
(* Module LockHierarchy takes the same locks one by one.                    *)
(***************************************************************************)
EXTENDS ServerState

ThreadPc == {"idle", "reserve", "reserved", "saveSessions", "rollback",
             "sell", "sold"}

\* recording: the seat that is SOLD in memory and whose buyer has still to be
\* committed, if there is one.
Request == [pc : ThreadPc, user : Users \cup {Nobody}, seats : SUBSET Seats,
            recording : SUBSET Seats, id : Nat]
Idle == [pc |-> "idle", user |-> Nobody, seats |-> {}, recording |-> {}, id |-> 0]

TableFree    == \A t \in Threads : thread[t].pc # "sell"

\* Variant: a save does not wait for a sale in progress.
SectionsFreeOfSaves == \A t \in Threads : thread[t].pc # "saveSessions"

SectionsFree == \A t \in Threads : thread[t].pc \notin {"sell", "saveSessions"}

Goto(t, pc) == thread' = [thread EXCEPT ![t].pc = pc]
Answer(t)   == thread' = [thread EXCEPT ![t] = Idle]

-----------------------------------------------------------------------------
(* RESERVE, RESERVE_BATCH, RESERVE_SELECTED *)

InReserve == {t \in Threads : thread[t].pc = "reserve"}

\* The validated request arrives and looks its session up, without a lock.
\* The bound leaves an id for each get_or_create still to come.
RequestReserve(t, u, S) ==
    /\ thread[t].pc = "idle"
    /\ Cardinality(S) \in 1 .. MaxBatch
    /\ IdsAfterGet(u) + Cardinality(InReserve) < MaxSessions
    /\ sessions' = [sessions EXCEPT ![u] = GetOrCreate(u)]
    /\ lastId' = IdsAfterGet(u)
    /\ thread' = [thread EXCEPT ![t] =
           [Idle EXCEPT !.pc = "reserve", !.user = u, !.seats = S]]
    /\ UNCHANGED <<seatVars, mon, dbVars, noticeVars, tickets, logFaults>>

\* Variants: no look at the seats at all; a test for RESERVED instead of one
\* for AVAILABLE.
CanReserveBlindly(S) == TRUE
CanReserveUnreserved(S) == (\A s \in S : seat[s] # "RESERVED") /\ HasCapacity(S)

CanReserve(S) == (\A s \in S : seat[s] = "AVAILABLE") /\ HasCapacity(S)

\* Under the table lock and the locks of the seats' sections: the session is
\* looked up again, and all the seats are taken or none.
ReserveSeats(t) ==
    LET u == thread[t].user
        S == thread[t].seats
    IN  /\ thread[t].pc = "reserve"
        /\ TableFree /\ SectionsFree
        /\ CanReserve(S)
        /\ seat' = SetSeats(S, "RESERVED")
        /\ sem' = AcquireSlots(S)
        /\ sessions' = [sessions EXCEPT ![u] = AppendSeats(GetOrCreate(u), S)]
        /\ lastId' = IdsAfterGet(u)
        /\ Goto(t, "reserved")
        /\ UNCHANGED <<mon, dbVars, noticeVars, tickets, logFaults>>

\* Variants: the handler waits for the seats instead of giving up; a request
\* that fails refreshes its session all the same.
RefuseReserveNever(t) == thread[t].pc = "refused" /\ UNCHANGED vars
RefuseReserveRefreshing(t) ==
    LET u == thread[t].user
    IN  /\ thread[t].pc = "reserve"
        /\ TableFree /\ SectionsFree
        /\ ~CanReserve(thread[t].seats)
        /\ sessions' = [sessions EXCEPT ![u] = AppendSeats(GetOrCreate(u), {})]
        /\ lastId' = IdsAfterGet(u)
        /\ Answer(t)
        /\ UNCHANGED <<seatVars, mon, dbVars, noticeVars, tickets, logFaults>>

\* A seat is taken (SEAT_NOT_AVAILABLE), or no slot is left (NO_CAPACITY).
RefuseReserve(t) ==
    LET u == thread[t].user
    IN  /\ thread[t].pc = "reserve"
        /\ TableFree /\ SectionsFree
        /\ ~CanReserve(thread[t].seats)
        /\ sessions' = [sessions EXCEPT ![u] = GetOrCreate(u)]
        /\ lastId' = IdsAfterGet(u)
        /\ Answer(t)
        /\ UNCHANGED <<seatVars, mon, dbVars, noticeVars, tickets, logFaults>>

\* The log line is written; then, under all section locks but not the table
\* lock, the seat matrix is saved ...
SaveSeats(t) ==
    /\ thread[t].pc = "reserved"
    /\ SectionsFree
    /\ SaveAllSeats(seat)
    /\ Goto(t, "saveSessions")
    /\ UNCHANGED <<seatVars, sessions, lastId, mon, dbSessions, dbPurchased,
                   noticeVars, tickets, logFaults>>

\* ... and the sessions, in a transaction of their own, before SUCCESS.
SaveSessions(t) ==
    /\ thread[t].pc = "saveSessions"
    /\ SaveAllSessions
    /\ Answer(t)
    /\ UNCHANGED <<seatVars, sessions, lastId, mon, dbSeat, dbPurchased,
                   noticeVars, tickets, logFaults>>

\* The log append raises: RESERVE, which asks for one seat, goes to its
\* rollback; a batch, of one seat or of more, has none.
ReserveLogFails(t) ==
    /\ thread[t].pc = "reserved"
    /\ logFaults < MaxLogFaults
    /\ logFaults' = logFaults + 1
    /\ \/ Cardinality(thread[t].seats) = 1 /\ Goto(t, "rollback")
       \/ Answer(t)
    /\ UNCHANGED <<seatVars, sessions, lastId, mon, dbVars, noticeVars, tickets>>

\* Variant: the rollback forgets the slot.
RollbackSeatOnly(t) ==
    LET S == {s \in thread[t].seats : seat[s] = "RESERVED"}
    IN  /\ thread[t].pc = "rollback"
        /\ SectionsFree
        /\ seat' = SetSeats(S, "AVAILABLE")
        /\ Answer(t)
        /\ UNCHANGED <<sem, sessions, lastId, mon, dbVars, noticeVars, tickets,
                       logFaults>>

\* Under the lock of the seat's section only.  The session's list of seats is
\* left alone.
Rollback(t) ==
    LET S == {s \in thread[t].seats : seat[s] = "RESERVED"}
    IN  /\ thread[t].pc = "rollback"
        /\ SectionsFree
        /\ seat' = SetSeats(S, "AVAILABLE")
        /\ sem' = ReleaseSlots([sec \in Sections |->
                                    Cardinality(S \cap SeatsOf(sec))])
        /\ Answer(t)
        /\ UNCHANGED <<sessions, lastId, mon, dbVars, noticeVars, tickets,
                       logFaults>>

-----------------------------------------------------------------------------
(* CONFIRM *)

\* Variant: the locks are taken after the tests only.
ConfirmUnlocked(t, u, id) ==
    /\ thread[t].pc = "idle"
    /\ OwnsSession(u, id)
    /\ \A s \in Listed(u) : seat[s] = "RESERVED"
    /\ thread' = [thread EXCEPT ![t] =
           [Idle EXCEPT !.pc = "sell", !.user = u, !.seats = Listed(u), !.id = id]]
    /\ UNCHANGED <<seatVars, sessions, lastId, mon, dbVars, noticeVars,
                   tickets, logFaults>>

\* Under all locks, which it keeps: the session is found, is the caller's
\* own, and all its seats are RESERVED.  A request that fails one of these
\* tests is answered without any effect.
ConfirmSession(t, u, id) ==
    /\ thread[t].pc = "idle"
    /\ TableFree /\ SectionsFree
    /\ OwnsSession(u, id)
    /\ \A s \in Listed(u) : seat[s] = "RESERVED"
    /\ thread' = [thread EXCEPT ![t] =
           [Idle EXCEPT !.pc = "sell", !.user = u, !.seats = Listed(u), !.id = id]]
    /\ UNCHANGED <<seatVars, sessions, lastId, mon, dbVars, noticeVars,
                   tickets, logFaults>>

\* The seats are sold one by one: SOLD in memory, where stop(), which has no
\* lock, may see and save it ...
SellSeat(t, s) ==
    /\ thread[t].pc = "sell"
    /\ thread[t].recording = {}
    /\ s \in thread[t].seats
    /\ seat' = SetSeats({s}, "SOLD")
    /\ thread' = [thread EXCEPT ![t].seats = @ \ {s}, ![t].recording = {s}]
    /\ UNCHANGED <<sem, sessions, lastId, mon, dbVars, noticeVars, tickets,
                   logFaults>>

\* Variant: the buyer is recorded with the last seat only.
RecordLastBuyer(t) ==
    /\ thread[t].pc = "sell"
    /\ thread[t].recording # {}
    /\ dbPurchased' = [s \in Seats |->
           IF s \in thread[t].recording /\ thread[t].seats = {} THEN thread[t].user
           ELSE dbPurchased[s]]
    /\ thread' = [thread EXCEPT ![t].recording = {}]
    /\ UNCHANGED <<seatVars, sessions, lastId, mon, dbSeat, dbSessions, noticeVars,
                   tickets, logFaults>>

\* ... and its buyer committed to purchased_seats, under the store's lock.
RecordBuyer(t) ==
    /\ thread[t].pc = "sell"
    /\ thread[t].recording # {}
    /\ dbPurchased' = [s \in Seats |->
           IF s \in thread[t].recording THEN thread[t].user ELSE dbPurchased[s]]
    /\ thread' = [thread EXCEPT ![t].recording = {}]
    /\ UNCHANGED <<seatVars, sessions, lastId, mon, dbSeat, dbSessions, noticeVars,
                   tickets, logFaults>>

\* SOLD in memory, of a buyer that the database does not have yet.
Recording == UNION {thread[t].recording : t \in Threads}

\* Variant: the session is removed while seats are still being sold.
CommitSaleEarly(t) ==
    /\ thread[t].pc = "sell"
    /\ sessions' = RemoveSession(thread[t].user)
    /\ SaveAllSeats(seat)
    /\ DeleteSession(thread[t].user)
    /\ Goto(t, "sold")
    /\ UNCHANGED <<seatVars, lastId, mon, dbPurchased, noticeVars, tickets,
                   logFaults>>

\* Variant: the matrix is left to the next RESERVE, or to stop(), to save.
CommitSaleUnsaved(t) ==
    /\ thread[t].pc = "sell"
    /\ thread[t].seats = {} /\ thread[t].recording = {}
    /\ sessions' = RemoveSession(thread[t].user)
    /\ DeleteSession(thread[t].user)
    /\ Goto(t, "sold")
    /\ UNCHANGED <<seatVars, lastId, mon, dbSeat, dbPurchased, noticeVars, tickets,
                   logFaults>>

\* All sold: the session is removed, the matrix saved, the locks released.
CommitSale(t) ==
    /\ thread[t].pc = "sell"
    /\ thread[t].seats = {} /\ thread[t].recording = {}
    /\ sessions' = RemoveSession(thread[t].user)
    /\ SaveAllSeats(seat)
    /\ DeleteSession(thread[t].user)
    /\ Goto(t, "sold")
    /\ UNCHANGED <<seatVars, lastId, mon, dbPurchased, noticeVars, tickets,
                   logFaults>>

\* Without locks: the CONFIRMED notification, the ticket, then SUCCESS.
AnnounceSale(t) ==
    /\ thread[t].pc = "sold"
    /\ inbox' = Enqueue(inbox, {thread[t].user}, "CONFIRMED")
    /\ IssueTicket(thread[t].id)
    /\ Answer(t)
    /\ UNCHANGED <<seatVars, sessions, lastId, mon, dbVars, sectionFull,
                   logFaults>>

\* One of the three log appends in between raises: nothing, the notification,
\* or both have been done, and the client is told the sale failed.
SaleLogFails(t, done) ==
    /\ thread[t].pc = "sold"
    /\ logFaults < MaxLogFaults
    /\ logFaults' = logFaults + 1
    /\ inbox' = IF "notified" \in done
                THEN Enqueue(inbox, {thread[t].user}, "CONFIRMED") ELSE inbox
    /\ IF "ticketed" \in done THEN IssueTicket(thread[t].id)
                              ELSE UNCHANGED tickets
    /\ Answer(t)
    /\ UNCHANGED <<seatVars, sessions, lastId, mon, dbVars, sectionFull>>

-----------------------------------------------------------------------------
(* CANCEL *)

\* One critical section under all locks, with one commit: save_all_seats.
\* A slot is released for every entry of the session's list.
CancelSession(t, u, id) ==
    LET freed == SetSeats(Listed(u), "AVAILABLE")
        released == [sec \in Sections |->
                        Cardinality(Entries(sessions[u].seats, sec))]
    IN  /\ thread[t].pc = "idle"
        /\ TableFree /\ SectionsFree
        /\ OwnsSession(u, id)
        /\ \A s \in Listed(u) : seat[s] = "RESERVED"
        /\ seat' = freed
        /\ sessions' = RemoveSession(u)
        /\ sem' = ReleaseSlots(released)
        /\ NotifyAvailability(freed, {sec \in Sections : released[sec] > 0})
        /\ SaveAllSeats(freed)
        /\ DeleteSession(u)
        /\ UNCHANGED <<lastId, thread, mon, dbPurchased, tickets, logFaults>>

-----------------------------------------------------------------------------
SaleStepsDone == {{}, {"notified"}, {"notified", "ticketed"}}

Handle(t) ==
    \/ ReserveSeats(t)
    \/ RefuseReserve(t)
    \/ SaveSeats(t)
    \/ SaveSessions(t)
    \/ ReserveLogFails(t)
    \/ Rollback(t)
    \/ \E s \in Seats : SellSeat(t, s)
    \/ RecordBuyer(t)
    \/ CommitSale(t)
    \/ AnnounceSale(t)
    \/ \E done \in SaleStepsDone : SaleLogFails(t, done)

Receive(t, u) ==
    \/ \E S \in SUBSET Seats : RequestReserve(t, u, S)
    \/ \E id \in 1 .. lastId : ConfirmSession(t, u, id)
    \/ \E id \in 1 .. lastId : CancelSession(t, u, id)
=============================================================================
