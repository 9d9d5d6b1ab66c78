----------------------- MODULE ReservationServerProofs -----------------------
(***************************************************************************)
(* Who owns a seat, for every venue, population, number of threads and     *)
(* bound.  The proofs go in layers: a sale in progress is alone and holds  *)
(* its seats; what the monitor remembers is old; on top of these, once:    *)
(* the monitor works from a current list, so that no reserved seat is lost *)
(* sight of; and once: a listed seat is held by its one session.           *)
(***************************************************************************)
EXTENDS ReservationServerTypes

-----------------------------------------------------------------------------
(* First layer: sales, whatever fails and however long the monitor waits *)

ServingUsers == \A t \in Threads : thread[t].pc # "idle" => thread[t].user \in Users

NoSessionIsEmpty ==
    \A u \in Users : sessions[u].id = 0 => sessions[u].seats = NoSeats

\* CONFIRM keeps all locks while it sells.
SaleIsAlone ==
    \A t, x \in Threads :
        thread[t].pc = "sell" /\ thread[x].pc \in {"sell", "saveSessions"} => t = x

\* What it has still to sell is its user's, and reserved.
SaleHoldsSeats ==
    \A t \in Threads : thread[t].pc = "sell" =>
        \A s \in thread[t].seats :
            seat[s] = "RESERVED" /\ sessions[thread[t].user].seats[s] > 0

\* What it has sold of its user's list is SOLD to that user, the last seat
\* perhaps not yet in the database.
SaleSells ==
    \A t \in Threads : thread[t].pc = "sell" =>
        \A s \in Seats :
            sessions[thread[t].user].seats[s] > 0 /\ s \notin thread[t].seats =>
                /\ seat[s] = "SOLD"
                /\ s \in thread[t].recording \/ dbPurchased[s] = thread[t].user

\* The seat whose buyer it has still to record is one of its user's list.
SaleRecords ==
    \A t \in Threads : \A s \in thread[t].recording :
        /\ thread[t].pc = "sell" /\ thread[t].recording = {s}
        /\ s \notin thread[t].seats /\ sessions[thread[t].user].seats[s] > 0

SaleInv ==
    /\ TypeOK /\ ServingUsers /\ NoSessionIsEmpty
    /\ SaleIsAlone /\ SaleHoldsSeats /\ SaleSells /\ SaleRecords

-----------------------------------------------------------------------------
(* Second layer: what the monitor remembers, whatever fails *)

\* Session ids are never issued twice: what the monitor remembers is old.
IdsAreOld ==
    /\ \A u \in Users : sessions[u].id <= lastId
    /\ \A x \in mon.todo \cup {mon.target} : x.id <= lastId

MonitorTargetsUsers ==
    /\ \A x \in mon.todo : x.user \in Users
    /\ mon.pc = "expire" => mon.target.user \in Users

MonitorInv == SaleInv /\ IdsAreOld /\ MonitorTargetsUsers

-----------------------------------------------------------------------------
(* Third layer: reserved seats, when locks are granted within a TTL,        *)
(* whatever fails                                                           *)

\* Seats that joined the session after the monitor looked made it young.
SnapshotIsCurrent ==
    mon.pc = "expire" /\ OwnsSession(mon.target.user, mon.target.id) =>
        \/ \A s \in Seats :
               sessions[mon.target.user].seats[s] > 0 => s \in mon.snapshot
        \/ sessions[mon.target.user].age <= mon.wait

ReachInv == MonitorInv /\ SnapshotIsCurrent /\ ReservedSeatsAreListed

-----------------------------------------------------------------------------
(* Third layer, again: listed seats, when no log append fails *)

NoFaults == logFaults = 0 /\ \A t \in Threads : thread[t].pc # "rollback"

\* A seat list only grows while its session lives.
SnapshotIsListed ==
    mon.pc = "expire" /\ OwnsSession(mon.target.user, mon.target.id) =>
        \A s \in mon.snapshot : sessions[mon.target.user].seats[s] > 0

\* ListedOnce and ListedSeatsAreHeld, seat by seat.
OneHolder ==
    \A u, v \in Users, s \in Seats :
        sessions[u].seats[s] > 0 /\ sessions[v].seats[s] > 0 =>
            u = v /\ sessions[u].seats[s] = 1
SoldBy(t, u, s) ==
    thread[t].pc = "sell" /\ thread[t].user = u /\ s \notin thread[t].seats
HeldSeats ==
    \A u \in Users, s \in Seats : sessions[u].seats[s] > 0 =>
        seat[s] = IF \E t \in Threads : SoldBy(t, u, s) THEN "SOLD" ELSE "RESERVED"

HeldInv == MonitorInv /\ NoFaults /\ SnapshotIsListed /\ OneHolder /\ HeldSeats

-----------------------------------------------------------------------------
(* What the operations do to the parts the invariants speak of *)

LEMMA ThreadAfter ==
    ASSUME TypeOK, NEW t \in Threads
    PROVE  /\ \A pc : Goto(t, pc) =>
                  /\ thread'[t].pc = pc /\ thread'[t].user = thread[t].user
                  /\ thread'[t].seats = thread[t].seats
                  /\ thread'[t].recording = thread[t].recording
                  /\ \A x \in Threads \ {t} : thread'[x] = thread[x]
           /\ Answer(t) =>
                  /\ thread'[t].pc = "idle" /\ thread'[t].seats = {}
                  /\ thread'[t].recording = {}
                  /\ \A x \in Threads \ {t} : thread'[x] = thread[x]
  BY DEF TypeOK, Request, Goto, Answer, Idle

LEMMA ThreadAfterRequest ==
    ASSUME TypeOK, NEW t \in Threads, NEW u \in Users, NEW S \in SUBSET Seats,
           RequestReserve(t, u, S)
    PROVE  /\ thread'[t].pc = "reserve" /\ thread'[t].user = u
           /\ thread'[t].recording = {}
           /\ \A x \in Threads \ {t} : thread'[x] = thread[x]
  BY DEF RequestReserve, TypeOK, Idle

\* get_or_create returns the user's seats, under an id that is not 0: the one
\* they have, or a new one.
LEMMA SessionGot ==
    ASSUME TypeOK, NoSessionIsEmpty, NEW u \in Users
    PROVE  /\ GetOrCreate(u) \in Session
           /\ GetOrCreate(u).id # 0
           /\ GetOrCreate(u).seats = sessions[u].seats
           /\ \/ GetOrCreate(u) = sessions[u] /\ IdsAfterGet(u) = lastId
              \/ /\ sessions[u].id = 0
                 /\ GetOrCreate(u).id = lastId + 1 /\ IdsAfterGet(u) = lastId + 1
<1>1. CASE HasSession(u)
  BY <1>1, SessionTypes DEF HasSession, GetOrCreate, IdsAfterGet
<1>2. CASE ~HasSession(u)
  BY <1>2, SessionTypes DEF HasSession, GetOrCreate, IdsAfterGet, NoSessionIsEmpty, TypeOK
<1>3. QED
  BY <1>1, <1>2

\* Appending seats to a session.
LEMMA SessionAppended ==
    ASSUME NEW session \in Session, NEW S
    PROVE  /\ AppendSeats(session, S).id = session.id
           /\ AppendSeats(session, S).age = 0
           /\ \A s \in Seats : AppendSeats(session, S).seats[s] =
                  IF s \in S THEN session.seats[s] + 1 ELSE session.seats[s]
  BY DEF AppendSeats, Session

\* The clock moves ages only.
LEMMA SessionsAfterTick ==
    ASSUME TypeOK, Tick, NEW u \in Users
    PROVE  /\ sessions'[u].id = sessions[u].id
           /\ sessions'[u].seats = sessions[u].seats
           /\ sessions'[u].age = IF HasSession(u) THEN Older(sessions[u].age)
                                 ELSE sessions[u].age
  BY DEF Tick, TypeOK, Session

\* With the table lock free no sale is in progress.
LEMMA NoSaleWhenFree ==
    ASSUME TableFree \/ SectionsFree
    PROVE  \A t \in Threads : thread[t].pc # "sell"
  BY DEF TableFree, SectionsFree

\* Only a thread that sells has a buyer to record.
LEMMA NothingToRecord ==
    ASSUME SaleInv, NEW t \in Threads, thread[t].pc # "sell"
    PROVE  thread[t].recording = {}
  BY DEF SaleInv, SaleRecords

\* A step that leaves the lists of the selling threads' users alone.
LEMMA RecordsStay ==
    ASSUME SaleInv,
           \A t \in Threads :
               \/ thread'[t].recording = {}
               \/ /\ thread'[t] = thread[t]
                  /\ \A s \in Seats : sessions'[thread[t].user].seats[s]
                                         = sessions[thread[t].user].seats[s]
    PROVE  SaleRecords'
<1>1. \A t \in Threads : thread[t].recording \subseteq Seats
  BY DEF SaleInv, TypeOK, Request
<1>2. QED
  BY <1>1 DEF SaleInv, SaleRecords

-----------------------------------------------------------------------------
(* The first layer is inductive *)

LEMMA SaleInvReserve ==
    ASSUME SaleInv, TypeOK', NEW t \in Threads,
           ReserveSeats(t) \/ RefuseReserve(t)
    PROVE  SaleInv'
<1> USE DEF SaleInv
<1> DEFINE u == thread[t].user
<1>1. u \in Users /\ thread[t].pc = "reserve"
  BY DEF ReserveSeats, RefuseReserve, ServingUsers
<1>2. \A x \in Threads : thread[x].pc # "sell"
  BY NoSaleWhenFree DEF ReserveSeats, RefuseReserve
<1>3. thread'[t].pc \in {"reserved", "idle"} /\ thread'[t].user \in Users \cup {Nobody}
  BY ThreadAfter DEF ReserveSeats, RefuseReserve, TypeOK, Request
<1>4. \A x \in Threads \ {t} : thread'[x] = thread[x]
  BY ThreadAfter DEF ReserveSeats, RefuseReserve
<1>5. thread'[t].pc # "idle" => thread'[t].user = u
  BY ThreadAfter DEF ReserveSeats, RefuseReserve
<1>6. NoSessionIsEmpty'
  <2> DEFINE g == GetOrCreate(u)
  <2>1. g \in Session /\ g.id # 0 /\ AppendSeats(g, thread[t].seats).id = g.id
    BY <1>1, SessionGot, SessionAppended
  <2>2. \/ sessions' = [sessions EXCEPT ![u] = g]
        \/ sessions' = [sessions EXCEPT ![u] = AppendSeats(g, thread[t].seats)]
    BY DEF ReserveSeats, RefuseReserve
  <2> HIDE DEF g, u
  <2>3. QED
    BY <2>1, <2>2, <1>1 DEF NoSessionIsEmpty, TypeOK
<1>7. ServingUsers'
  BY <1>1, <1>4, <1>5 DEF ServingUsers
<1>8. SaleIsAlone' /\ SaleHoldsSeats' /\ SaleSells'
  BY <1>2, <1>3, <1>4 DEF SaleIsAlone, SaleHoldsSeats, SaleSells
<1>9. SaleRecords'
  <2>1. \A x \in Threads : thread[x].recording = {}
    BY <1>2, NothingToRecord
  <2>2. thread'[t].recording = {}
    BY <2>1, ThreadAfter DEF ReserveSeats, RefuseReserve
  <2>3. QED
    BY <1>4, <2>1, <2>2, RecordsStay
<1>10. QED
  BY <1>6, <1>7, <1>8, <1>9

\* Steps of a reserve that leave the sessions alone; they are outside of
\* critical sections, or need the section locks.
LEMMA SaleInvSave ==
    ASSUME SaleInv, TypeOK', NEW t \in Threads,
           SaveSeats(t) \/ SaveSessions(t) \/ ReserveLogFails(t) \/ Rollback(t)
    PROVE  SaleInv'
<1> USE DEF SaleInv
<1>1. sessions' = sessions
  BY DEF SaveSeats, SaveSessions, ReserveLogFails, Rollback
<1>2. \A x \in Threads \ {t} : thread'[x] = thread[x]
  BY ThreadAfter DEF SaveSeats, SaveSessions, ReserveLogFails, Rollback
<1>3. thread'[t].pc \in {"saveSessions", "rollback", "idle"}
      /\ (thread'[t].pc # "idle" =>
              thread'[t].user = thread[t].user /\ thread[t].pc # "idle")
  BY ThreadAfter DEF SaveSeats, SaveSessions, ReserveLogFails, Rollback
<1>4. ServingUsers' /\ NoSessionIsEmpty'
  BY <1>1, <1>2, <1>3 DEF ServingUsers, NoSessionIsEmpty
<1>5. SaleRecords'
  <2>1. thread'[t].recording = {}
    <3>1. thread[t].pc # "sell"
      BY DEF SaveSeats, SaveSessions, ReserveLogFails, Rollback
    <3>2. thread[t].recording = {}
      BY <3>1, NothingToRecord
    <3>3. QED
      BY <3>2, ThreadAfter DEF SaveSeats, SaveSessions, ReserveLogFails, Rollback
  <2>2. QED
    BY <1>1, <1>2, <2>1, RecordsStay
<1>6. CASE SaveSeats(t) \/ Rollback(t)
  <2>1. \A x \in Threads : thread[x].pc # "sell"
    BY <1>6, NoSaleWhenFree DEF SaveSeats, Rollback
  <2>2. QED
    BY <1>2, <1>3, <1>4, <1>5, <2>1 DEF SaleIsAlone, SaleHoldsSeats, SaleSells
<1>7. CASE SaveSessions(t) \/ ReserveLogFails(t)
  <2>1. /\ seat' = seat /\ dbPurchased' = dbPurchased
        /\ thread'[t].pc \in {"rollback", "idle"}
    BY <1>7, ThreadAfter DEF SaveSessions, ReserveLogFails, seatVars, dbVars
  <2>2. SaleIsAlone'
    BY <1>2, <2>1 DEF SaleIsAlone
  <2>3. SaleHoldsSeats' /\ SaleSells'
    BY <1>1, <1>2, <2>1 DEF SaleHoldsSeats, SaleSells
  <2>4. QED
    BY <1>4, <1>5, <2>2, <2>3
<1>8. QED
  BY <1>6, <1>7

LEMMA SaleInvSale ==
    ASSUME SaleInv, TypeOK', NEW t \in Threads,
           \/ \E s \in Seats : SellSeat(t, s)
           \/ RecordBuyer(t)
           \/ CommitSale(t)
           \/ AnnounceSale(t)
           \/ \E done \in SaleStepsDone : SaleLogFails(t, done)
    PROVE  SaleInv'
<1> USE DEF SaleInv
<1>1. ASSUME NEW s \in Seats, SellSeat(t, s) PROVE SaleInv'
  <2>1. /\ thread'[t].pc = "sell" /\ thread'[t].user = thread[t].user
        /\ thread'[t].seats = thread[t].seats \ {s} /\ thread'[t].recording = {s}
        /\ \A x \in Threads \ {t} : thread'[x] = thread[x]
    BY <1>1 DEF SellSeat, TypeOK, Request
  <2>2. /\ sessions' = sessions /\ dbPurchased' = dbPurchased
        /\ \A z \in Seats \ {s} : seat'[z] = seat[z]
        /\ seat'[s] = "SOLD"
    BY <1>1 DEF SellSeat, SetSeats, dbVars
  <2>3. /\ thread[t].pc = "sell" /\ thread[t].seats \subseteq Seats
        /\ thread[t].recording = {} /\ s \in thread[t].seats
    BY <1>1 DEF SellSeat, TypeOK, Request
  <2>4. \A x \in Threads \ {t} : thread[x].pc # "sell"
    BY <2>3 DEF SaleIsAlone
  <2>5. ServingUsers' /\ NoSessionIsEmpty' /\ SaleIsAlone'
    BY <2>1, <2>2, <2>3 DEF ServingUsers, NoSessionIsEmpty, SaleIsAlone
  <2>6. SaleHoldsSeats'
    BY <2>1, <2>2, <2>3, <2>4 DEF SaleHoldsSeats
  <2>7. SaleSells'
    BY <2>1, <2>2, <2>3, <2>4 DEF SaleSells
  <2>8. SaleRecords'
    BY <2>1, <2>2, <2>3, <2>4 DEF SaleRecords, SaleHoldsSeats
  <2>9. QED
    BY <2>5, <2>6, <2>7, <2>8
<1>2. CASE RecordBuyer(t)
  <2>1. /\ thread'[t].pc = "sell" /\ thread'[t].user = thread[t].user
        /\ thread'[t].seats = thread[t].seats /\ thread'[t].recording = {}
        /\ \A x \in Threads \ {t} : thread'[x] = thread[x]
    BY <1>2 DEF RecordBuyer, TypeOK, Request
  <2>2. /\ sessions' = sessions /\ seat' = seat
        /\ \A z \in Seats : dbPurchased'[z] = IF z \in thread[t].recording
                                              THEN thread[t].user ELSE dbPurchased[z]
    BY <1>2 DEF RecordBuyer, seatVars
  <2>3. thread[t].pc = "sell" /\ \A x \in Threads \ {t} : thread[x].pc # "sell"
    BY <1>2 DEF RecordBuyer, SaleIsAlone
  <2>4. ServingUsers' /\ NoSessionIsEmpty' /\ SaleIsAlone'
    BY <2>1, <2>2, <2>3 DEF ServingUsers, NoSessionIsEmpty, SaleIsAlone
  <2>5. SaleHoldsSeats' /\ SaleSells'
    BY <2>1, <2>2, <2>3 DEF SaleHoldsSeats, SaleSells
  <2>6. SaleRecords'
    BY <2>1, <2>2, RecordsStay
  <2>7. QED
    BY <2>4, <2>5, <2>6
<1>3. CASE CommitSale(t)
  <2>1. thread'[t].pc = "sold" /\ thread'[t].user = thread[t].user
        /\ \A x \in Threads \ {t} : thread'[x] = thread[x] /\ thread[x].pc # "sell"
    BY <1>3, ThreadAfter DEF CommitSale, SaleIsAlone
  <2>2. thread[t].pc # "idle" /\ sessions' = [sessions EXCEPT ![thread[t].user] = NoSession]
    BY <1>3 DEF CommitSale, RemoveSession
  <2>3. NoSessionIsEmpty'
    BY <2>2 DEF NoSessionIsEmpty, NoSession, TypeOK
  <2>4. SaleRecords'
    <3>1. thread'[t].recording = {}
      BY <1>3, ThreadAfter DEF CommitSale
    <3>2. \A x \in Threads \ {t} : thread'[x].recording = {}
      BY <2>1, NothingToRecord
    <3>3. QED
      BY <3>1, <3>2, RecordsStay
  <2>5. QED
    BY <2>1, <2>2, <2>3, <2>4 DEF ServingUsers, SaleIsAlone, SaleHoldsSeats, SaleSells
<1>4. ASSUME \/ AnnounceSale(t)
             \/ \E done \in SaleStepsDone : SaleLogFails(t, done)
      PROVE  SaleInv'
  <2>1. thread'[t].pc = "idle" /\ \A x \in Threads \ {t} : thread'[x] = thread[x]
    BY <1>4, ThreadAfter DEF AnnounceSale, SaleLogFails
  <2>2. sessions' = sessions /\ seat' = seat /\ dbPurchased' = dbPurchased
    BY <1>4 DEF AnnounceSale, SaleLogFails, seatVars, dbVars
  <2>3. ServingUsers' /\ NoSessionIsEmpty' /\ SaleIsAlone'
    BY <2>1, <2>2 DEF ServingUsers, NoSessionIsEmpty, SaleIsAlone
  <2>4. SaleHoldsSeats' /\ SaleSells'
    BY <2>1, <2>2 DEF SaleHoldsSeats, SaleSells
  <2>5. SaleRecords'
    <3>1. thread'[t].recording = {}
      BY <1>4, ThreadAfter DEF AnnounceSale, SaleLogFails
    <3>2. QED
      BY <2>1, <2>2, <3>1, RecordsStay
  <2>6. QED
    BY <2>3, <2>4, <2>5
<1>5. QED
  BY <1>1, <1>2, <1>3, <1>4

LEMMA SaleInvReceive ==
    ASSUME SaleInv, TypeOK', NEW t \in Threads, NEW u \in Users, Receive(t, u)
    PROVE  SaleInv'
<1> USE DEF SaleInv
<1>1. ASSUME NEW S \in SUBSET Seats, RequestReserve(t, u, S) PROVE SaleInv'
  <2>1. thread'[t].pc = "reserve" /\ thread'[t].user = u
        /\ thread'[t].recording = {}
        /\ \A x \in Threads \ {t} : thread'[x] = thread[x]
    BY <1>1, ThreadAfterRequest
  <2>2. seat' = seat /\ dbPurchased' = dbPurchased /\ thread[t].pc = "idle"
    BY <1>1 DEF RequestReserve, seatVars, dbVars
  <2>3. \A v \in Users : sessions'[v].seats = sessions[v].seats
    BY <1>1, SessionGot DEF RequestReserve, TypeOK
  <2>4. NoSessionIsEmpty'
    BY <1>1, <2>3, SessionGot DEF RequestReserve, TypeOK, NoSessionIsEmpty
  <2>5. ServingUsers' /\ SaleIsAlone'
    BY <2>1 DEF ServingUsers, SaleIsAlone
  <2>6. SaleHoldsSeats'
    BY <2>1, <2>2, <2>3 DEF SaleHoldsSeats, ServingUsers
  <2>7. SaleSells'
    BY <2>1, <2>2, <2>3 DEF SaleSells, ServingUsers
  <2>8. SaleRecords'
    <3>1. \A x \in Threads : thread[x].recording # {} => thread[x].user \in Users
      BY NothingToRecord DEF ServingUsers
    <3>2. QED
      BY <2>1, <2>3, <3>1, RecordsStay
  <2>9. QED
    BY <2>4, <2>5, <2>6, <2>7, <2>8
<1>2. ASSUME NEW id \in 1 .. lastId, ConfirmSession(t, u, id) PROVE SaleInv'
  <2>1. thread'[t].pc = "sell" /\ thread'[t].user = u /\ thread'[t].seats = Listed(u)
        /\ thread'[t].recording = {}
        /\ \A x \in Threads \ {t} : thread'[x] = thread[x]
    BY <1>2 DEF ConfirmSession, TypeOK, Idle
  <2>2. sessions' = sessions /\ seat' = seat /\ \A s \in Listed(u) : seat[s] = "RESERVED"
    BY <1>2 DEF ConfirmSession, seatVars
  <2>3. \A x \in Threads : thread[x].pc \notin {"sell", "saveSessions"}
    BY <1>2 DEF ConfirmSession, SectionsFree
  <2>4. ServingUsers' /\ NoSessionIsEmpty' /\ SaleIsAlone'
    BY <2>1, <2>2, <2>3 DEF ServingUsers, NoSessionIsEmpty, SaleIsAlone
  <2>5. SaleHoldsSeats'
    BY <2>1, <2>2, <2>3 DEF SaleHoldsSeats, Listed
  <2>6. SaleSells'
    BY <2>1, <2>2, <2>3 DEF SaleSells, Listed
  <2>7. SaleRecords'
    BY <2>1, <2>2, RecordsStay
  <2>8. QED
    BY <2>4, <2>5, <2>6, <2>7
<1>3. ASSUME NEW id \in 1 .. lastId, CancelSession(t, u, id) PROVE SaleInv'
  <2>1. thread' = thread /\ \A x \in Threads : thread[x].pc # "sell"
    BY <1>3, NoSaleWhenFree DEF CancelSession
  <2>2. sessions' = [sessions EXCEPT ![u] = NoSession]
    BY <1>3 DEF CancelSession, RemoveSession
  <2>3. NoSessionIsEmpty'
    BY <2>2 DEF NoSessionIsEmpty, NoSession, TypeOK
  <2>4. SaleRecords'
    BY <2>1, NothingToRecord, RecordsStay
  <2>5. QED
    BY <2>1, <2>3, <2>4 DEF ServingUsers, SaleIsAlone, SaleHoldsSeats, SaleSells
<1>4. QED
  BY <1>1, <1>2, <1>3 DEF Receive

LEMMA SaleInvMonitor ==
    ASSUME SaleInv, TypeOK', MonitorNext
    PROVE  SaleInv'
<1> USE DEF SaleInv
<1>1. thread' = thread
  BY DEF MonitorNext, Sweep, TakeSnapshot, ExpireSession, SpareSession,
         AnnounceExpiry, ExpiryLogFails, WarnExpiring, WarnLogFails
<1>2. CASE ExpireSession
  <2>1. \A x \in Threads : thread[x].pc # "sell"
    BY <1>2, NoSaleWhenFree DEF ExpireSession, MonitorHasLocks
  <2>2. sessions' = [sessions EXCEPT ![mon.target.user] = NoSession]
    BY <1>2 DEF ExpireSession, RemoveSession
  <2>3. NoSessionIsEmpty'
    BY <2>2 DEF NoSessionIsEmpty, NoSession, TypeOK
  <2>4. SaleRecords'
    BY <1>1, <2>1, NothingToRecord, RecordsStay
  <2>5. QED
    BY <1>1, <2>1, <2>3, <2>4 DEF ServingUsers, SaleIsAlone, SaleHoldsSeats, SaleSells
<1>3. ASSUME ~ExpireSession PROVE SaleInv'
  <2>1. sessions' = sessions /\ seat' = seat /\ dbPurchased' = dbPurchased
    BY <1>3 DEF MonitorNext, Sweep, TakeSnapshot, SpareSession, AnnounceExpiry,
                ExpiryLogFails, WarnExpiring, WarnLogFails, seatVars, dbVars
  <2>2. QED
    BY <1>1, <2>1 DEF ServingUsers, NoSessionIsEmpty, SaleIsAlone, SaleHoldsSeats,
                      SaleSells, SaleRecords
<1>4. QED
  BY <1>2, <1>3

LEMMA SaleInvEnvironment ==
    ASSUME SaleInv, TypeOK',
           \/ Tick
           \/ \E u \in Subscribers, type \in NotificationType : Deliver(u, type)
           \/ \E job \in tickets.jobs : WriteTicket(job)
    PROVE  SaleInv'
<1> USE DEF SaleInv
<1>1. thread' = thread /\ seat' = seat /\ dbPurchased' = dbPurchased
  BY DEF Tick, Deliver, WriteTicket, seatVars, dbVars
<1>2. \A u \in Users : /\ sessions'[u].id = sessions[u].id
                       /\ sessions'[u].seats = sessions[u].seats
  <2>1. CASE Tick
    BY <2>1, SessionsAfterTick
  <2>2. CASE ~Tick
    BY <2>2 DEF Deliver, WriteTicket
  <2>3. QED
    BY <2>1, <2>2
<1>3. NoSessionIsEmpty' /\ ServingUsers' /\ SaleIsAlone'
  BY <1>1, <1>2 DEF NoSessionIsEmpty, ServingUsers, SaleIsAlone
<1>4. SaleHoldsSeats' /\ SaleSells'
  BY <1>1, <1>2 DEF SaleHoldsSeats, SaleSells, ServingUsers
<1>5. SaleRecords'
  <2>1. \A x \in Threads : thread[x].recording # {} => thread[x].user \in Users
    BY NothingToRecord DEF ServingUsers
  <2>2. QED
    BY <1>1, <1>2, <2>1, RecordsStay
<1>6. QED
  BY <1>3, <1>4, <1>5

LEMMA SaleInvInit == Init => SaleInv
<1> SUFFICES ASSUME Init PROVE SaleInv
  OBVIOUS
<1>1. TypeOK
  BY InitialTypes
<1>2. \A t \in Threads : thread[t].pc = "idle" /\ thread[t].recording = {}
  BY DEF Init, Idle
<1>3. NoSessionIsEmpty
  BY DEF Init, NoSessionIsEmpty, NoSession
<1>4. QED
  BY <1>1, <1>2, <1>3 DEF SaleInv, ServingUsers, SaleIsAlone, SaleHoldsSeats,
                          SaleSells, SaleRecords

LEMMA SaleInvStep == SaleInv /\ [Next]_vars => SaleInv'
<1> SUFFICES ASSUME SaleInv, [Next]_vars PROVE SaleInv'
  OBVIOUS
<1>1. TypeOK'
  BY NextTypes DEF SaleInv
<1>2. ASSUME NEW t \in Threads, Handle(t) PROVE SaleInv'
  BY <1>1, <1>2, SaleInvReserve, SaleInvSave, SaleInvSale DEF Handle
<1>3. ASSUME NEW t \in Threads, NEW u \in Users, Receive(t, u) PROVE SaleInv'
  BY <1>1, <1>3, SaleInvReceive
<1>4. CASE MonitorNext
  BY <1>1, <1>4, SaleInvMonitor
<1>5. CASE \/ Tick
           \/ \E u \in Subscribers, type \in NotificationType : Deliver(u, type)
           \/ \E job \in tickets.jobs : WriteTicket(job)
  BY <1>1, <1>5, SaleInvEnvironment
<1>6. CASE UNCHANGED vars
  BY <1>1, <1>6 DEF vars, SaleInv, ServingUsers, NoSessionIsEmpty, SaleIsAlone,
                    SaleHoldsSeats, SaleSells, SaleRecords
<1>7. QED
  BY <1>2, <1>3, <1>4, <1>5, <1>6 DEF Next

LEMMA SaleInvHolds == Spec => []SaleInv
  BY SaleInvInit, SaleInvStep, PTL DEF Spec

-----------------------------------------------------------------------------
(* What a step can do to a seat *)

SeatStep(s) ==
    \/ seat'[s] = seat[s] /\ dbPurchased'[s] = dbPurchased[s]
    \/ /\ seat[s] = "AVAILABLE" /\ seat'[s] = "RESERVED"
       /\ dbPurchased'[s] = dbPurchased[s]
    \/ /\ seat[s] = "RESERVED" /\ seat'[s] = "AVAILABLE"
       /\ dbPurchased'[s] = dbPurchased[s]
    \/ /\ seat[s] = "RESERVED" /\ seat'[s] = "SOLD"
       /\ dbPurchased'[s] = dbPurchased[s]
       /\ \E t \in Threads : SellSeat(t, s) /\ thread'[t].recording = {s}
    \/ /\ seat'[s] = seat[s]
       /\ \E t \in Threads :
              /\ RecordBuyer(t) /\ s \in thread[t].recording
              /\ dbPurchased'[s] = thread[t].user
              /\ thread[t].user \in Users /\ s \in Listed(thread[t].user)

LEMMA SeatSteps ==
    ASSUME SaleInv, [Next]_vars, NEW s \in Seats
    PROVE  SeatStep(s)
<1>1. ASSUME NEW t \in Threads, Handle(t) PROVE SeatStep(s)
  <2>1. CASE ReserveSeats(t)
    BY <2>1 DEF ReserveSeats, CanReserve, SetSeats, dbVars, SeatStep
  <2>2. CASE Rollback(t)
    BY <2>2 DEF Rollback, SetSeats, dbVars, SeatStep
  <2>3. ASSUME NEW x \in Seats, SellSeat(t, x) PROVE SeatStep(s)
    <3>1. /\ thread[t].pc = "sell" /\ x \in thread[t].seats
          /\ seat' = SetSeats({x}, "SOLD") /\ dbPurchased' = dbPurchased
          /\ thread'[t].recording = {x}
      BY <2>3 DEF SellSeat, dbVars, SaleInv, TypeOK, Request
    <3>2. seat[x] = "RESERVED"
      BY <3>1 DEF SaleInv, SaleHoldsSeats
    <3>3. CASE s # x
      BY <3>1, <3>3 DEF SetSeats, SeatStep
    <3>4. CASE s = x
      BY <2>3, <3>1, <3>2, <3>4 DEF SetSeats, SeatStep
    <3>5. QED
      BY <3>3, <3>4
  <2>4. CASE RecordBuyer(t)
    <3>1. /\ seat' = seat
          /\ dbPurchased'[s] = IF s \in thread[t].recording THEN thread[t].user
                               ELSE dbPurchased[s]
      BY <2>4 DEF RecordBuyer, seatVars
    <3>2. CASE s \in thread[t].recording
      <4>1. thread[t].user \in Users /\ s \in Listed(thread[t].user)
        BY <2>4, <3>2 DEF RecordBuyer, SaleInv, ServingUsers, SaleRecords, Listed
      <4>2. QED
        BY <2>4, <3>1, <3>2, <4>1 DEF SeatStep
    <3>3. CASE s \notin thread[t].recording
      BY <3>1, <3>3 DEF SeatStep
    <3>4. QED
      BY <3>2, <3>3
  <2>5. CASE \/ RefuseReserve(t) \/ SaveSeats(t) \/ SaveSessions(t)
             \/ ReserveLogFails(t) \/ CommitSale(t) \/ AnnounceSale(t)
             \/ \E done \in SaleStepsDone : SaleLogFails(t, done)
    BY <2>5 DEF RefuseReserve, SaveSeats, SaveSessions, ReserveLogFails, CommitSale,
                AnnounceSale, SaleLogFails, seatVars, dbVars, SeatStep
  <2>6. QED
    BY <1>1, <2>1, <2>2, <2>3, <2>4, <2>5 DEF Handle
<1>2. ASSUME NEW t \in Threads, NEW u \in Users, Receive(t, u) PROVE SeatStep(s)
  <2>1. ASSUME NEW id \in 1 .. lastId, CancelSession(t, u, id) PROVE SeatStep(s)
    BY <2>1 DEF CancelSession, SetSeats, SeatStep
  <2>2. CASE \/ \E S \in SUBSET Seats : RequestReserve(t, u, S)
             \/ \E id \in 1 .. lastId : ConfirmSession(t, u, id)
    BY <2>2 DEF RequestReserve, ConfirmSession, seatVars, dbVars, SeatStep
  <2>3. QED
    BY <1>2, <2>1, <2>2 DEF Receive
<1>3. CASE MonitorNext
  <2>1. CASE ExpireSession
    BY <2>1 DEF ExpireSession, SetSeats, SeatStep
  <2>2. CASE ~ExpireSession
    BY <1>3, <2>2 DEF MonitorNext, Sweep, TakeSnapshot, SpareSession, AnnounceExpiry,
                      ExpiryLogFails, WarnExpiring, WarnLogFails, seatVars, dbVars, SeatStep
  <2>3. QED
    BY <2>1, <2>2
<1>4. CASE \/ Tick
           \/ \E u \in Subscribers, type \in NotificationType : Deliver(u, type)
           \/ \E job \in tickets.jobs : WriteTicket(job)
  BY <1>4 DEF Tick, Deliver, WriteTicket, seatVars, dbVars, SeatStep
<1>5. CASE UNCHANGED vars
  BY <1>5 DEF vars, SeatStep
<1>6. QED
  BY <1>1, <1>2, <1>3, <1>4, <1>5 DEF Next

-----------------------------------------------------------------------------
(* What a step can do to a sale in progress *)

\* A step of the server is a step of at most one handler.
LEMMA OneThreadSteps ==
    ASSUME TypeOK, [Next]_vars, NEW t \in Threads
    PROVE  \/ thread'[t] = thread[t]
           \/ Handle(t)
           \/ \E u \in Users : Receive(t, u)
<1>1. ASSUME NEW x \in Threads, Handle(x), x # t PROVE thread'[t] = thread[t]
  <2>1. \E r : thread' = [thread EXCEPT ![x] = r]
    <3>1. CASE (\E s \in Seats : SellSeat(x, s)) \/ RecordBuyer(x)
      <4>1. PICK r : thread' = [thread EXCEPT ![x] = r]
        BY <3>1 DEF SellSeat, RecordBuyer
      <4>2. QED
        BY <4>1
    <3>2. CASE ~ ((\E s \in Seats : SellSeat(x, s)) \/ RecordBuyer(x))
      BY <1>1, <3>2 DEF Handle, ReserveSeats, RefuseReserve, SaveSeats, SaveSessions,
             ReserveLogFails, Rollback, CommitSale, AnnounceSale, SaleLogFails, Goto,
             Answer
    <3>3. QED
      BY <3>1, <3>2
  <2>2. QED
    BY <1>1, <2>1 DEF TypeOK
<1>2. ASSUME NEW x \in Threads, NEW u \in Users, Receive(x, u), x # t
      PROVE  thread'[t] = thread[t]
  BY <1>2 DEF Receive, RequestReserve, ConfirmSession, CancelSession, TypeOK
<1>3. CASE MonitorNext
  BY <1>3 DEF MonitorNext, Sweep, TakeSnapshot, ExpireSession, SpareSession,
              AnnounceExpiry, ExpiryLogFails, WarnExpiring, WarnLogFails
<1>4. QED
  BY <1>1, <1>2, <1>3 DEF Next, Tick, Deliver, WriteTicket, vars

\* A sale begins with CONFIRM's tests.
LEMMA SaleBegins ==
    ASSUME SaleInv, [Next]_vars, NEW t \in Threads,
           thread[t].pc # "sell", thread'[t].pc = "sell"
    PROVE  \E u \in Users, id \in 1 .. lastId : ConfirmSession(t, u, id)
<1>1. TypeOK
  BY DEF SaleInv
<1>2. ~Handle(t)
  <2>1. ASSUME Handle(t) PROVE FALSE
    <3>1. ~ (\E s \in Seats : SellSeat(t, s)) /\ ~RecordBuyer(t)
      BY DEF SellSeat, RecordBuyer
    <3>2. \/ Answer(t)
          \/ \E pc \in {"reserved", "saveSessions", "rollback", "sold"} : Goto(t, pc)
      BY <2>1, <3>1
         DEF Handle, ReserveSeats, RefuseReserve, SaveSeats, SaveSessions,
             ReserveLogFails, Rollback, CommitSale, AnnounceSale, SaleLogFails
    <3>3. QED
      BY <1>1, <3>2, ThreadAfter
  <2>2. QED
    BY <2>1
<1>3. PICK u \in Users : Receive(t, u)
  BY <1>1, <1>2, OneThreadSteps
<1>4. ~ \E S \in SUBSET Seats : RequestReserve(t, u, S)
  BY <1>1, ThreadAfterRequest
<1>5. ~ \E id \in 1 .. lastId : CancelSession(t, u, id)
  BY DEF CancelSession
<1>6. QED
  BY <1>3, <1>4, <1>5 DEF Receive

\* It goes on with the same session until that is removed: nobody else touches
\* its list, since all locks are kept.
SaleGoesOn(t) ==
    LET u == thread[t].user
    IN  /\ thread'[t].pc = "sell" /\ thread'[t].user = u /\ thread'[t].id = thread[t].id
        /\ thread'[t].seats \subseteq thread[t].seats
        /\ sessions'[u].seats = sessions[u].seats
        /\ sessions'[u].id = sessions[u].id \/ sessions[u].id = 0

LEMMA SaleGoesOnOrEnds ==
    ASSUME SaleInv, [Next]_vars, NEW t \in Threads, thread[t].pc = "sell"
    PROVE  SaleGoesOn(t) \/ CommitSale(t)
<1>1. TypeOK /\ NoSessionIsEmpty /\ SaleIsAlone /\ thread[t].user \in Users
  BY DEF SaleInv, ServingUsers
<1>2. ~TableFree /\ ~SectionsFree
  BY DEF TableFree, SectionsFree
<1>3. ASSUME thread'[t] = thread[t],
             \A u \in Users : /\ sessions'[u].seats = sessions[u].seats
                              /\ sessions'[u].id = sessions[u].id \/ sessions[u].id = 0
      PROVE  SaleGoesOn(t)
  BY <1>1, <1>3 DEF SaleGoesOn
<1>4. CASE Handle(t)
  <2>1. CASE CommitSale(t)
    BY <2>1
  <2>2. ASSUME NEW s \in Seats, SellSeat(t, s) PROVE SaleGoesOn(t)
    BY <1>1, <2>2 DEF SellSeat, TypeOK, Request, SaleGoesOn
  <2>3. CASE RecordBuyer(t)
    BY <1>1, <2>3 DEF RecordBuyer, TypeOK, Request, SaleGoesOn
  <2>4. QED
    BY <1>2, <1>4, <2>1, <2>2, <2>3
       DEF Handle, ReserveSeats, RefuseReserve, SaveSeats, SaveSessions,
           ReserveLogFails, Rollback, AnnounceSale, SaleLogFails
<1>5. CASE ~Handle(t)
  <2>1. thread'[t] = thread[t]
    <3>1. ~ \E u \in Users : Receive(t, u)
      BY <1>2 DEF Receive, RequestReserve, ConfirmSession, CancelSession
    <3>2. QED
      BY <1>1, <1>5, <3>1, OneThreadSteps
  <2>2. ASSUME NEW x \in Threads, Handle(x) PROVE sessions' = sessions
    <3>1. ~CommitSale(x)
      BY <1>1, <1>5, <2>2 DEF CommitSale, SaleIsAlone
    <3>2. QED
      BY <1>2, <2>2, <3>1
         DEF Handle, ReserveSeats, RefuseReserve, SaveSeats, SaveSessions,
             ReserveLogFails, Rollback, SellSeat, RecordBuyer, AnnounceSale,
             SaleLogFails
  <2>3. ASSUME NEW x \in Threads, NEW v \in Users, Receive(x, v)
        PROVE  sessions' = [sessions EXCEPT ![v] = GetOrCreate(v)]
    BY <1>2, <2>3 DEF Receive, RequestReserve, ConfirmSession, CancelSession
  <2>4. ~ExpireSession
    BY <1>2 DEF ExpireSession, MonitorHasLocks
  <2>5. \/ sessions' = sessions
        \/ \E v \in Users : sessions' = [sessions EXCEPT ![v] = GetOrCreate(v)]
        \/ Tick
    BY <2>2, <2>3, <2>4
       DEF Next, MonitorNext, Sweep, TakeSnapshot, SpareSession, AnnounceExpiry,
           ExpiryLogFails, WarnExpiring, WarnLogFails, Deliver, WriteTicket, vars
  <2>6. \A u \in Users : /\ sessions'[u].seats = sessions[u].seats
                         /\ sessions'[u].id = sessions[u].id \/ sessions[u].id = 0
    BY <1>1, <2>5, SessionGot, SessionsAfterTick DEF TypeOK
  <2>7. QED
    BY <1>3, <2>1, <2>6
<1>6. QED
  BY <1>4, <1>5

\* The buyer of a sold seat stays to be recorded until he is.
LEMMA BuyerIsRecorded ==
    ASSUME SaleInv, [Next]_vars, NEW t \in Threads, NEW s,
           s \in thread[t].recording, s \notin thread'[t].recording
    PROVE  RecordBuyer(t)
<1>1. thread[t].pc = "sell"
  BY DEF SaleInv, SaleRecords
<1>2. ~ \E u \in Users : Receive(t, u)
  BY <1>1 DEF Receive, RequestReserve, ConfirmSession, CancelSession
<1>3. Handle(t)
  BY <1>2, OneThreadSteps DEF SaleInv
<1>4. QED
  BY <1>1, <1>3 DEF Handle, ReserveSeats, RefuseReserve, SaveSeats, SaveSessions,
                    ReserveLogFails, Rollback, SellSeat, CommitSale, AnnounceSale,
                    SaleLogFails

-----------------------------------------------------------------------------
(* What a step does to a sold seat, and to a session *)

\* A sold seat stays sold, and to the same buyer once that one is recorded,
\* whatever the handlers, the rollback after a failed log append and the
\* monitor do meanwhile.
THEOREM SoldSeatsStaySold == Spec => SoldIsFinal
<1> DEFINE Step == \A s \in Seats : seat[s] = "SOLD" =>
                      /\ seat'[s] = "SOLD"
                      /\ s \in Recording \/ dbPurchased'[s] = dbPurchased[s]
<1>1. SaleInv /\ [Next]_vars => [Step]_vars
  BY SeatSteps DEF SeatStep, Recording
<1>2. QED
  BY <1>1, SaleInvHolds, PTL DEF Spec, SoldIsFinal

\* The buyer of a seat is the user whose session lists it at that moment:
\* between CONFIRM's tests and its last sale nobody takes the session away.
THEOREM SeatsAreSoldToTheirHolder == Spec => SoldOnlyToHolder
<1> DEFINE Step == \A s \in Seats : ~IsSold(s) /\ IsSold(s)' =>
                      dbPurchased'[s] \in Users /\ s \in Listed(dbPurchased'[s])
<1>1. ASSUME SaleInv, [Next]_vars, NEW s \in Seats, ~IsSold(s), IsSold(s)'
      PROVE  dbPurchased'[s] \in Users /\ s \in Listed(dbPurchased'[s])
  <2>1. seat'[s] = "SOLD" /\ \A t \in Threads : s \notin thread'[t].recording
    BY <1>1 DEF IsSold, Recording
  <2>2. PICK t \in Threads : RecordBuyer(t) /\ s \in thread[t].recording
    <3>1. CASE seat[s] = "SOLD"
      <4>1. PICK t \in Threads : s \in thread[t].recording
        BY <1>1, <3>1 DEF IsSold, Recording
      <4>2. QED
        BY <1>1, <2>1, <4>1, BuyerIsRecorded
    <3>2. CASE seat[s] # "SOLD"
      BY <1>1, <2>1, <3>2, SeatSteps DEF SeatStep
    <3>3. QED
      BY <3>1, <3>2
  <2>3. dbPurchased'[s] = thread[t].user
    BY <2>2 DEF RecordBuyer
  <2>4. QED
    BY <1>1, <2>2, <2>3 DEF RecordBuyer, SaleInv, ServingUsers, SaleRecords, Listed
<1>2. SaleInv /\ [Next]_vars => [Step]_vars
  BY <1>1
<1>3. QED
  BY <1>2, SaleInvHolds, PTL DEF Spec, SoldOnlyToHolder

\* The monitor looks again before it takes a session away, so it never takes
\* one that was refreshed, or that replaced the one it had found.
THEOREM LiveSessionsAreSpared == Spec => MonitorSparesLiveSessions
<1> DEFINE Step == mon' # mon => \A u \in Users :
                      HasSession(u) /\ ~IsExpired(sessions[u]) =>
                          sessions'[u].id = sessions[u].id
<1>1. ASSUME SaleInv, [Next]_vars, mon' # mon, NEW u \in Users,
             HasSession(u), ~IsExpired(sessions[u])
      PROVE  sessions'[u].id = sessions[u].id
  <2>1. ~ \E t \in Threads : Handle(t)
    BY <1>1 DEF Handle, ReserveSeats, RefuseReserve, SaveSeats, SaveSessions,
                ReserveLogFails, Rollback, SellSeat, RecordBuyer, CommitSale,
                AnnounceSale, SaleLogFails
  <2>2. ~ \E t \in Threads, v \in Users : Receive(t, v)
    BY <1>1 DEF Receive, RequestReserve, ConfirmSession, CancelSession
  <2>3. CASE ExpireSession
    BY <1>1, <2>3 DEF ExpireSession, Reclaimable, RemoveSession, SaleInv, TypeOK
  <2>4. CASE MonitorNext /\ ~ExpireSession
    BY <2>4 DEF MonitorNext, Sweep, TakeSnapshot, SpareSession, AnnounceExpiry,
                ExpiryLogFails, WarnExpiring, WarnLogFails
  <2>5. CASE Tick
    BY <1>1, <2>5, SessionsAfterTick DEF SaleInv
  <2>6. ~ \E v \in Subscribers, type \in NotificationType : Deliver(v, type)
    BY <1>1 DEF Deliver
  <2>7. ~ \E job \in tickets.jobs : WriteTicket(job)
    BY <1>1 DEF WriteTicket
  <2>8. vars' # vars
    BY <1>1 DEF vars
  <2>9. QED
    BY <1>1, <2>1, <2>2, <2>3, <2>4, <2>5, <2>6, <2>7, <2>8 DEF Next
<1>2. SaleInv /\ [Next]_vars => [Step]_vars
  BY <1>1
<1>3. QED
  BY <1>2, SaleInvHolds, PTL DEF Spec, MonitorSparesLiveSessions

-----------------------------------------------------------------------------
(* The second layer is inductive *)

\* A user keeps the session, loses it, or gets one with a new id; only one
\* user at a time does.
SessionIdsMove ==
    /\ lastId \in Nat /\ lastId' \in Nat /\ lastId <= lastId'
    /\ \A u \in Users : \/ sessions'[u].id \in {sessions[u].id, 0}
                        \/ lastId < sessions'[u].id /\ sessions'[u].id <= lastId'
    /\ \A u, v \in Users : \/ u = v
                           \/ sessions'[u].id \in {sessions[u].id, 0}
                           \/ sessions'[v].id \in {sessions[v].id, 0}

LEMMA SessionIdsStep ==
    ASSUME SaleInv, TypeOK', [Next]_vars
    PROVE  SessionIdsMove
<1>1. TypeOK /\ NoSessionIsEmpty /\ ServingUsers
  BY DEF SaleInv
<1>2. lastId \in Nat /\ lastId' \in Nat /\ \A u \in Users : sessions[u].id \in Nat
  BY <1>1 DEF TypeOK, Session
<1>3. ASSUME NEW u \in Users, lastId' = IdsAfterGet(u),
             \E S : \/ sessions' = [sessions EXCEPT ![u] = GetOrCreate(u)]
                    \/ sessions' = [sessions EXCEPT ![u] = AppendSeats(GetOrCreate(u), S)]
      PROVE  SessionIdsMove
  <2>1. /\ sessions'[u].id = GetOrCreate(u).id
        /\ \A v \in Users \ {u} : sessions'[v] = sessions[v]
    BY <1>1, <1>3, SessionGot, SessionAppended DEF TypeOK
  <2>2. QED
    BY <1>1, <1>2, <1>3, <2>1, SessionGot DEF SessionIdsMove
<1>4. ASSUME NEW u, sessions' = RemoveSession(u), lastId' = lastId
      PROVE  SessionIdsMove
  BY <1>1, <1>2, <1>4 DEF RemoveSession, NoSession, TypeOK, SessionIdsMove
<1>5. ASSUME lastId' = lastId, \A u \in Users : sessions'[u].id = sessions[u].id
      PROVE  SessionIdsMove
  BY <1>2, <1>5 DEF SessionIdsMove
<1>6. ASSUME NEW t \in Threads, Handle(t) PROVE SessionIdsMove
  <2>1. CASE ReserveSeats(t) \/ RefuseReserve(t)
    BY <1>1, <1>3, <2>1 DEF ReserveSeats, RefuseReserve, ServingUsers
  <2>2. CASE CommitSale(t)
    BY <1>4, <2>2 DEF CommitSale
  <2>3. CASE \/ SaveSeats(t) \/ SaveSessions(t) \/ ReserveLogFails(t) \/ Rollback(t)
             \/ (\E s \in Seats : SellSeat(t, s)) \/ RecordBuyer(t) \/ AnnounceSale(t)
             \/ \E done \in SaleStepsDone : SaleLogFails(t, done)
    BY <1>5, <2>3 DEF SaveSeats, SaveSessions, ReserveLogFails, Rollback, SellSeat,
                      RecordBuyer, AnnounceSale, SaleLogFails
  <2>4. QED
    BY <1>6, <2>1, <2>2, <2>3 DEF Handle
<1>7. ASSUME NEW t \in Threads, NEW u \in Users, Receive(t, u) PROVE SessionIdsMove
  BY <1>3, <1>4, <1>5, <1>7 DEF Receive, RequestReserve, ConfirmSession, CancelSession
<1>8. CASE MonitorNext
  BY <1>4, <1>5, <1>8 DEF MonitorNext, Sweep, TakeSnapshot, ExpireSession, SpareSession,
                          AnnounceExpiry, ExpiryLogFails, WarnExpiring, WarnLogFails
<1>9. CASE Tick
  BY <1>1, <1>5, <1>9, SessionsAfterTick DEF Tick
<1>10. CASE \/ \E u \in Subscribers, type \in NotificationType : Deliver(u, type)
            \/ \E job \in tickets.jobs : WriteTicket(job)
            \/ UNCHANGED vars
  BY <1>5, <1>10 DEF Deliver, WriteTicket, vars
<1>11. QED
  BY <1>6, <1>7, <1>8, <1>9, <1>10 DEF Next

\* Steps of others, and those of the monitor that go on or give up.
MonitorFrame ==
    /\ mon'.todo \subseteq mon.todo
    /\ mon'.target \in {mon.target, NoTarget}
    /\ mon'.pc = "expire" =>
           /\ mon.pc = "expire" /\ mon'.target = mon.target
           /\ mon'.snapshot = mon.snapshot

LEMMA MonitorMoves ==
    ASSUME TypeOK, [Next]_vars
    PROVE  Sweep \/ (\E x \in mon.todo : TakeSnapshot(x)) \/ MonitorFrame
<1>1. CASE ExpireSession \/ SpareSession \/ AnnounceExpiry
  BY <1>1 DEF ExpireSession, SpareSession, AnnounceExpiry, MonitorFrame, TypeOK, Monitor
<1>2. CASE ExpiryLogFails \/ WarnExpiring \/ \E W \in SUBSET Subscribers : WarnLogFails(W)
  BY <1>2 DEF ExpiryLogFails, WarnExpiring, WarnLogFails, MonitorFrame, Asleep
<1>3. CASE Tick
  BY <1>3 DEF Tick, MonitorFrame, TypeOK, Monitor
<1>4. CASE mon' = mon
  BY <1>4 DEF MonitorFrame
<1>5. ASSUME NEW t \in Threads, Handle(t) PROVE mon' = mon
  BY <1>5 DEF Handle, ReserveSeats, RefuseReserve, SaveSeats, SaveSessions,
              ReserveLogFails, Rollback, SellSeat, RecordBuyer, CommitSale, AnnounceSale,
              SaleLogFails
<1>6. ASSUME NEW t \in Threads, NEW u \in Users, Receive(t, u) PROVE mon' = mon
  BY <1>6 DEF Receive, RequestReserve, ConfirmSession, CancelSession
<1>7. QED
  BY <1>1, <1>2, <1>3, <1>4, <1>5, <1>6 DEF Next, MonitorNext, Deliver, WriteTicket, vars

LEMMA IdsFrame ==
    ASSUME MonitorInv, SessionIdsMove, MonitorFrame
    PROVE  IdsAreOld' /\ MonitorTargetsUsers'
<1>1. \A u \in Users : sessions[u].id \in Nat /\ sessions[u].id <= lastId
  BY DEF MonitorInv, SaleInv, TypeOK, Session, IdsAreOld
<1>2. \A u \in Users : sessions'[u].id <= lastId'
  BY <1>1 DEF SessionIdsMove
<1>3. \A x \in mon.todo \cup {mon.target} : x.id <= lastId'
  <2>1. \A x \in mon.todo \cup {mon.target} : x.id \in Nat /\ x.id <= lastId
    BY DEF MonitorInv, SaleInv, TypeOK, Monitor, Target, IdsAreOld
  <2>2. QED
    BY <2>1 DEF SessionIdsMove
<1>4. NoTarget.id <= lastId'
  BY DEF SessionIdsMove, NoTarget
<1>5. QED
  BY <1>2, <1>3, <1>4 DEF MonitorInv, IdsAreOld, MonitorTargetsUsers, MonitorFrame

LEMMA MonitorInvInit == Init => MonitorInv
<1>1. Init => IdsAreOld /\ MonitorTargetsUsers
  BY DEF Init, IdsAreOld, MonitorTargetsUsers, NoSession, Asleep, NoTarget
<1>2. QED
  BY <1>1, SaleInvInit DEF MonitorInv

LEMMA MonitorInvStep == MonitorInv /\ [Next]_vars => MonitorInv'
<1> SUFFICES ASSUME MonitorInv, [Next]_vars PROVE MonitorInv'
  OBVIOUS
<1>1. SaleInv /\ SaleInv' /\ TypeOK /\ TypeOK'
  BY SaleInvStep DEF MonitorInv, SaleInv
<1>2. SessionIdsMove
  BY <1>1, SessionIdsStep
<1>3. CASE Sweep
  <2>1. /\ mon'.pc = "sweep" /\ mon'.target = mon.target /\ sessions' = sessions
        /\ mon'.todo = {[user |-> u, id |-> sessions[u].id] : u \in Expired}
        /\ lastId' = lastId
    BY <1>1, <1>3 DEF Sweep, TypeOK, Monitor
  <2>2. \A x \in mon'.todo : x.user \in Users /\ x.id <= lastId
    BY <2>1 DEF Expired, MonitorInv, IdsAreOld
  <2>3. QED
    BY <1>1, <2>1, <2>2 DEF MonitorInv, IdsAreOld, MonitorTargetsUsers
<1>4. ASSUME NEW x \in mon.todo, TakeSnapshot(x) PROVE MonitorInv'
  <2>1. /\ mon'.target = x /\ mon'.todo \subseteq mon.todo
        /\ sessions' = sessions /\ lastId' = lastId
    BY <1>1, <1>4 DEF TakeSnapshot, TypeOK, Monitor
  <2>2. QED
    BY <1>1, <2>1 DEF MonitorInv, IdsAreOld, MonitorTargetsUsers
<1>5. CASE MonitorFrame
  BY <1>1, <1>2, <1>5, IdsFrame DEF MonitorInv
<1>6. QED
  BY <1>1, <1>3, <1>4, <1>5, MonitorMoves

\* A session the monitor's target still is, it was before the step.
LEMMA TargetIsOld ==
    ASSUME MonitorInv, SessionIdsMove, mon.pc = "expire", mon'.target = mon.target,
           OwnsSession(mon.target.user, mon.target.id)'
    PROVE  /\ mon.target.user \in Users
           /\ sessions'[mon.target.user].id = sessions[mon.target.user].id
           /\ OwnsSession(mon.target.user, mon.target.id)
<1> DEFINE u == mon.target.user
<1>1. u \in Users /\ mon.target.id \in Nat /\ mon.target.id <= lastId
  BY DEF MonitorInv, MonitorTargetsUsers, IdsAreOld, SaleInv, TypeOK, Monitor, Target
<1>2. sessions'[u].id = mon.target.id /\ mon.target.id # 0
  BY DEF OwnsSession
<1>3. sessions'[u].id = sessions[u].id
  BY <1>1, <1>2 DEF SessionIdsMove
<1>4. QED
  BY <1>1, <1>2, <1>3 DEF OwnsSession

LEMMA MonitorInvHolds == Spec => []MonitorInv
  BY MonitorInvInit, MonitorInvStep, PTL DEF Spec

-----------------------------------------------------------------------------
(* The third layer for reserved seats is inductive, when locks are granted  *)
(* within a TTL                                                             *)

\* Steps of others that leave the target alone, take it away, or replace it.
LEMMA SnapshotStaysCurrent ==
    ASSUME MonitorInv, SessionIdsMove, SnapshotIsCurrent, mon' = mon,
           \A u \in Users : \/ sessions'[u] = sessions[u]
                            \/ sessions'[u].id # sessions[u].id
    PROVE  SnapshotIsCurrent'
<1> SUFFICES ASSUME mon.pc = "expire", OwnsSession(mon.target.user, mon.target.id)'
             PROVE  \/ \A s \in Seats : sessions'[mon.target.user].seats[s] > 0 =>
                                            s \in mon.snapshot
                    \/ sessions'[mon.target.user].age <= mon.wait
  BY DEF SnapshotIsCurrent
<1>1. /\ OwnsSession(mon.target.user, mon.target.id)
      /\ sessions'[mon.target.user] = sessions[mon.target.user]
  BY TargetIsOld
<1>2. QED
  BY <1>1 DEF SnapshotIsCurrent

\* A seat stays on a list when no list shrinks.
LEMMA ReservedStaysListed ==
    ASSUME ReservedSeatsAreListed,
           \A s \in Seats : seat'[s] = "RESERVED" => seat[s] = "RESERVED",
           \A u \in Users : sessions'[u].seats = sessions[u].seats
    PROVE  ReservedSeatsAreListed'
  BY DEF ReservedSeatsAreListed, Listed

LEMMA ReservedListedAfterRelease ==
    ASSUME TypeOK, ReservedSeatsAreListed, NEW u \in Users,
           sessions' = [sessions EXCEPT ![u] = NoSession],
           \A s \in Seats : seat'[s] = "RESERVED" =>
               seat[s] = "RESERVED" /\ s \notin Listed(u)
    PROVE  ReservedSeatsAreListed'
<1>1. \A v \in Users : v # u => sessions'[v] = sessions[v]
  BY DEF TypeOK
<1>2. QED
  BY <1>1 DEF ReservedSeatsAreListed, Listed

\* The step of the monitor the layer is about.  The session it has found
\* expired again is older than its wait, so its snapshot is current.
LEMMA SnapshotIsWhole ==
    ASSUME MaxLockWait <= TTL, TypeOK, SnapshotIsCurrent, mon.pc = "expire",
           mon.target.user \in Users, Reclaimable(mon.target)
    PROVE  \A s \in Seats : sessions[mon.target.user].seats[s] > 0 => s \in mon.snapshot
<1> DEFINE u == mon.target.user
<1>1. OwnsSession(u, mon.target.id) /\ IsExpired(sessions[u])
  BY DEF Reclaimable
<1>2. CASE sessions[u].seats = NoSeats
  BY <1>2 DEF NoSeats
<1>3. CASE sessions[u].age > TTL
  <2>1. /\ sessions[u].age \in 0 .. TTL + 1 /\ mon.wait \in 0 .. MaxLockWait
        /\ TTL \in Nat /\ MaxLockWait \in Nat
    BY BoundsAssumption DEF TypeOK, Session, Monitor
  <2>2. ~(sessions[u].age <= mon.wait)
    BY <1>3, <2>1
  <2>3. QED
    BY <1>1, <2>2 DEF SnapshotIsCurrent
<1>4. QED
  BY <1>1, <1>2, <1>3 DEF IsExpired

LEMMA ReachExpire ==
    ASSUME MaxLockWait <= TTL, ReachInv, ExpireSession
    PROVE  ReservedSeatsAreListed'
<1> DEFINE u == mon.target.user
           S == {s \in mon.snapshot : seat[s] = "RESERVED"}
<1>1. TypeOK /\ u \in Users /\ mon.pc = "expire" /\ Reclaimable(mon.target)
  BY DEF ReachInv, MonitorInv, SaleInv, ExpireSession, MonitorTargetsUsers
<1>2. seat' = SetSeats(S, "AVAILABLE") /\ sessions' = [sessions EXCEPT ![u] = NoSession]
  BY DEF ExpireSession, RemoveSession
<1>3. \A s \in Seats : sessions[u].seats[s] > 0 => s \in mon.snapshot
  BY <1>1, SnapshotIsWhole DEF ReachInv
<1>4. \A s \in Seats : seat'[s] = "RESERVED" => seat[s] = "RESERVED" /\ s \notin Listed(u)
  BY <1>2, <1>3 DEF SetSeats, Listed
<1> HIDE DEF u, S
<1>5. QED
  BY <1>1, <1>2, <1>4, ReservedListedAfterRelease DEF ReachInv

\* CONFIRM leaves none of the seats it takes off the list RESERVED, nor does
\* CANCEL.
LEMMA ReachRelease ==
    ASSUME ReachInv, SessionIdsMove, NEW t \in Threads,
           \/ CommitSale(t)
           \/ \E u \in Users, id \in 1 .. lastId : CancelSession(t, u, id)
    PROVE  ReservedSeatsAreListed' /\ SnapshotIsCurrent'
<1>1. TypeOK /\ ServingUsers /\ SaleSells
  BY DEF ReachInv, MonitorInv, SaleInv
<1>2. PICK u \in Users :
          /\ sessions' = [sessions EXCEPT ![u] = NoSession]
          /\ \/ CommitSale(t) /\ u = thread[t].user
             \/ \E id \in 1 .. lastId : CancelSession(t, u, id)
  BY <1>1 DEF CommitSale, CancelSession, RemoveSession, ServingUsers
<1>3. \A s \in Seats : seat'[s] = "RESERVED" => seat[s] = "RESERVED" /\ s \notin Listed(u)
  BY <1>1, <1>2 DEF CommitSale, CancelSession, SaleSells, SetSeats, Listed, seatVars
<1>4. ReservedSeatsAreListed'
  BY <1>1, <1>2, <1>3, ReservedListedAfterRelease DEF ReachInv
<1>5. \A v \in Users : sessions'[v] = sessions[v] \/ sessions'[v].id = 0
  BY <1>1, <1>2 DEF TypeOK, NoSession
<1>6. SnapshotIsCurrent'
  <2>1. mon' = mon
    BY DEF CommitSale, CancelSession
  <2> SUFFICES ASSUME mon.pc = "expire", OwnsSession(mon.target.user, mon.target.id)'
               PROVE  \/ \A s \in Seats : sessions'[mon.target.user].seats[s] > 0 =>
                                              s \in mon.snapshot
                      \/ sessions'[mon.target.user].age <= mon.wait
    BY <2>1 DEF SnapshotIsCurrent
  <2>2. /\ mon.target.user \in Users /\ sessions'[mon.target.user].id # 0
        /\ OwnsSession(mon.target.user, mon.target.id)
    BY <2>1, TargetIsOld DEF ReachInv, OwnsSession
  <2>3. sessions'[mon.target.user] = sessions[mon.target.user]
    BY <1>5, <2>2
  <2>4. QED
    BY <2>2, <2>3 DEF ReachInv, SnapshotIsCurrent
<1>7. QED
  BY <1>4, <1>6

\* A seat that is reserved is listed in the same critical section, and makes
\* its session young.
LEMMA ReachReserve ==
    ASSUME ReachInv, SessionIdsMove, NEW t \in Threads, ReserveSeats(t)
    PROVE  ReservedSeatsAreListed' /\ SnapshotIsCurrent'
<1> DEFINE u == thread[t].user
           S == thread[t].seats
           g == GetOrCreate(u)
           g2 == AppendSeats(g, S)
<1>1. TypeOK /\ u \in Users /\ NoSessionIsEmpty /\ MonitorInv
  BY DEF ReachInv, MonitorInv, SaleInv, ServingUsers, ReserveSeats
<1>2. /\ seat' = SetSeats(S, "RESERVED") /\ mon' = mon
      /\ sessions' = [sessions EXCEPT ![u] = g2]
  BY DEF ReserveSeats
<1>3. g \in Session /\ g.seats = sessions[u].seats
  BY <1>1, SessionGot
<1>4. g2.age = 0 /\ \A s \in Seats : g2.seats[s] = IF s \in S THEN sessions[u].seats[s] + 1
                                                 ELSE sessions[u].seats[s]
  BY <1>3, SessionAppended
<1>5. \A v \in Users, s \in Seats : sessions[v].seats[s] \in Nat
  BY <1>1 DEF TypeOK, Session
<1> HIDE DEF g, g2, u, S
<1>6. /\ sessions'[u] = g2 /\ \A v \in Users \ {u} : sessions'[v] = sessions[v]
  BY <1>1, <1>2 DEF TypeOK
<1>7. ASSUME NEW s \in Seats, seat'[s] = "RESERVED"
      PROVE  \E v \in Users : sessions'[v].seats[s] > 0
  <2>1. CASE s \in S
    BY <1>1, <1>4, <1>5, <1>6, <2>1
  <2>2. CASE s \notin S
    <3>1. PICK v \in Users : sessions[v].seats[s] > 0
      BY <1>2, <1>7, <2>2 DEF SetSeats, ReachInv, ReservedSeatsAreListed, Listed
    <3>2. sessions'[v].seats[s] > 0
      BY <1>4, <1>6, <2>2, <3>1
    <3>3. QED
      BY <3>2
  <2>3. QED
    BY <2>1, <2>2
<1>8. SnapshotIsCurrent'
  <2> SUFFICES ASSUME mon.pc = "expire",
                      OwnsSession(mon.target.user, mon.target.id)'
               PROVE  \/ \A s \in Seats : sessions'[mon.target.user].seats[s] > 0 =>
                                              s \in mon.snapshot
                      \/ sessions'[mon.target.user].age <= mon.wait
    BY <1>2 DEF SnapshotIsCurrent
  <2>1. /\ mon.target.user \in Users /\ OwnsSession(mon.target.user, mon.target.id)
        /\ mon.wait \in Nat
    BY <1>1, <1>2, BoundsAssumption, TargetIsOld DEF TypeOK, Monitor
  <2>2. CASE mon.target.user = u
    BY <1>4, <1>6, <2>1, <2>2
  <2>3. CASE mon.target.user # u
    BY <1>6, <2>1, <2>3 DEF ReachInv, SnapshotIsCurrent
  <2>4. QED
    BY <2>2, <2>3
<1>9. QED
  BY <1>7, <1>8 DEF ReservedSeatsAreListed, Listed

\* Steps that reserve nothing and take no session away, the rollback after a
\* failed log append among them: it leaves the seat on the list.
LEMMA ReachFrame ==
    ASSUME ReachInv, SessionIdsMove, NEW t \in Threads,
           \/ RefuseReserve(t) \/ SaveSeats(t) \/ SaveSessions(t) \/ AnnounceSale(t)
           \/ ReserveLogFails(t) \/ Rollback(t)
           \/ \E done \in SaleStepsDone : SaleLogFails(t, done)
           \/ (\E s \in Seats : SellSeat(t, s)) \/ RecordBuyer(t)
           \/ \E u \in Users, S \in SUBSET Seats : RequestReserve(t, u, S)
           \/ \E u \in Users, id \in 1 .. lastId : ConfirmSession(t, u, id)
    PROVE  ReservedSeatsAreListed' /\ SnapshotIsCurrent'
<1>1. TypeOK /\ MonitorInv /\ ServingUsers /\ NoSessionIsEmpty
  BY DEF ReachInv, MonitorInv, SaleInv
<1>2. \A s \in Seats : seat'[s] = "RESERVED" => seat[s] = "RESERVED"
  BY DEF RefuseReserve, SaveSeats, SaveSessions, AnnounceSale, ReserveLogFails, Rollback,
         SaleLogFails, SellSeat, RecordBuyer, RequestReserve, ConfirmSession,
         seatVars, SetSeats
<1>3. mon' = mon
  BY DEF RefuseReserve, SaveSeats, SaveSessions, AnnounceSale, ReserveLogFails, Rollback,
         SaleLogFails, SellSeat, RecordBuyer, RequestReserve, ConfirmSession
<1>4. \/ sessions' = sessions
      \/ \E u \in Users : sessions' = [sessions EXCEPT ![u] = GetOrCreate(u)]
  BY <1>1 DEF RefuseReserve, SaveSeats, SaveSessions, AnnounceSale, ReserveLogFails,
              Rollback, SaleLogFails, SellSeat, RecordBuyer, RequestReserve, ConfirmSession,
              ServingUsers
<1>5. \A v \in Users :
          /\ sessions'[v].seats = sessions[v].seats
          /\ sessions'[v] = sessions[v] \/ sessions'[v].id # sessions[v].id
  BY <1>1, <1>4, SessionGot DEF TypeOK
<1>6. QED
  BY <1>1, <1>2, <1>3, <1>5, ReservedStaysListed, SnapshotStaysCurrent DEF ReachInv

\* The clock moves the target's age and the monitor's wait together.
LEMMA ReachTick ==
    ASSUME ReachInv, SessionIdsMove, Tick
    PROVE  ReservedSeatsAreListed' /\ SnapshotIsCurrent'
<1>1. TypeOK /\ MonitorInv
  BY DEF ReachInv, MonitorInv, SaleInv
<1>2. \A u \in Users : sessions'[u].seats = sessions[u].seats
  BY <1>1, SessionsAfterTick
<1>3. ReservedSeatsAreListed'
  BY <1>2, ReservedStaysListed DEF ReachInv, Tick, seatVars
<1>4. SnapshotIsCurrent'
  <2> DEFINE u == mon.target.user
  <2> SUFFICES ASSUME mon'.pc = "expire",
                      OwnsSession(mon.target.user, mon.target.id)'
               PROVE  \/ \A s \in Seats : sessions'[mon'.target.user].seats[s] > 0 =>
                                              s \in mon'.snapshot
                      \/ sessions'[mon'.target.user].age <= mon'.wait
    BY DEF SnapshotIsCurrent
  <2>1. /\ mon.pc = "expire" /\ mon'.target = mon.target
        /\ mon'.snapshot = mon.snapshot /\ mon'.wait = mon.wait + 1
    BY <1>1 DEF Tick, TypeOK, Monitor
  <2>2. u \in Users /\ OwnsSession(u, mon.target.id)
    BY <1>1, <2>1, TargetIsOld
  <2>3. mon.wait \in Nat /\ sessions[u].age \in Nat
    BY <1>1, <2>2, BoundsAssumption DEF TypeOK, Monitor, Session
  <2>4. sessions'[u].age \in {sessions[u].age, sessions[u].age + 1}
    BY <1>1, <2>2, SessionsAfterTick DEF Older
  <2>5. \/ \A s \in Seats : sessions[u].seats[s] > 0 => s \in mon.snapshot
        \/ sessions[u].age <= mon.wait
    BY <2>1, <2>2 DEF ReachInv, SnapshotIsCurrent
  <2> HIDE DEF u
  <2>6. mon'.target.user = u
    BY <2>1 DEF u
  <2>7. QED
    BY <1>2, <2>1, <2>2, <2>3, <2>4, <2>5, <2>6
<1>5. QED
  BY <1>3, <1>4

LEMMA ReachMonitor ==
    ASSUME ReachInv,
           \/ Sweep \/ (\E x \in mon.todo : TakeSnapshot(x))
           \/ SpareSession \/ AnnounceExpiry \/ ExpiryLogFails \/ WarnExpiring
           \/ \E W \in SUBSET Subscribers : WarnLogFails(W)
    PROVE  ReservedSeatsAreListed' /\ SnapshotIsCurrent'
<1>1. TypeOK
  BY DEF ReachInv, MonitorInv, SaleInv
<1>2. sessions' = sessions /\ seat' = seat
  BY DEF Sweep, TakeSnapshot, SpareSession, AnnounceExpiry, ExpiryLogFails,
         WarnExpiring, WarnLogFails,
         seatVars
<1>3. ReservedSeatsAreListed'
  BY <1>2 DEF ReachInv, ReservedSeatsAreListed, Listed
<1>4. CASE \E x \in mon.todo : TakeSnapshot(x)
  <2>1. PICK x \in mon.todo : TakeSnapshot(x)
    BY <1>4
  <2>2. /\ mon'.target = x
        /\ mon'.snapshot = IF OwnsSession(x.user, x.id) THEN Listed(x.user) ELSE {}
    BY <1>1, <2>1 DEF TakeSnapshot, TypeOK, Monitor
  <2>3. QED
    BY <1>2, <1>3, <2>2 DEF SnapshotIsCurrent, OwnsSession, Listed
<1>5. CASE \/ Sweep \/ SpareSession \/ AnnounceExpiry \/ ExpiryLogFails \/ WarnExpiring
           \/ \E W \in SUBSET Subscribers : WarnLogFails(W)
  <2>1. mon'.pc # "expire"
    <3>1. CASE Sweep \/ SpareSession \/ AnnounceExpiry
      BY <1>1, <3>1 DEF Sweep, SpareSession, AnnounceExpiry, TypeOK, Monitor
    <3>2. CASE ExpiryLogFails \/ WarnExpiring \/ \E W \in SUBSET Subscribers : WarnLogFails(W)
      BY <3>2 DEF ExpiryLogFails, WarnExpiring, WarnLogFails, Asleep
    <3>3. QED
      BY <1>5, <3>1, <3>2
  <2>2. QED
    BY <1>3, <2>1 DEF SnapshotIsCurrent
<1>6. QED
  BY <1>4, <1>5

LEMMA ReachInvStep ==
    ASSUME MaxLockWait <= TTL
    PROVE  ReachInv /\ [Next]_vars => ReachInv'
<1> SUFFICES ASSUME ReachInv, [Next]_vars
             PROVE  ReservedSeatsAreListed' /\ SnapshotIsCurrent'
  BY MonitorInvStep DEF ReachInv
<1>1. TypeOK /\ SaleInv /\ SaleInv' /\ SessionIdsMove
  BY SaleInvStep, SessionIdsStep DEF ReachInv, MonitorInv, SaleInv
<1>2. ASSUME NEW t \in Threads, Handle(t)
      PROVE  ReservedSeatsAreListed' /\ SnapshotIsCurrent'
  BY <1>1, <1>2, ReachReserve, ReachFrame, ReachRelease DEF Handle
<1>3. ASSUME NEW t \in Threads, NEW u \in Users, Receive(t, u)
      PROVE  ReservedSeatsAreListed' /\ SnapshotIsCurrent'
  BY <1>1, <1>3, ReachFrame, ReachRelease DEF Receive
<1>4. CASE ExpireSession
  <2>1. mon'.pc # "expire"
    BY <1>1, <1>4 DEF ExpireSession, TypeOK, Monitor
  <2>2. QED
    BY <1>4, <2>1, ReachExpire DEF SnapshotIsCurrent
<1>5. CASE MonitorNext /\ ~ExpireSession
  BY <1>5, ReachMonitor DEF MonitorNext
<1>6. CASE Tick
  BY <1>1, <1>6, ReachTick
<1>7. CASE \/ \E u \in Subscribers, type \in NotificationType : Deliver(u, type)
           \/ \E job \in tickets.jobs : WriteTicket(job)
           \/ UNCHANGED vars
  <2>1. seat' = seat /\ sessions' = sessions /\ mon' = mon
    BY <1>7 DEF Deliver, WriteTicket, vars, seatVars
  <2>2. QED
    BY <2>1 DEF ReachInv, ReservedSeatsAreListed, Listed, SnapshotIsCurrent, OwnsSession
<1>8. QED
  BY <1>2, <1>3, <1>4, <1>5, <1>6, <1>7 DEF Next

LEMMA ReachInvHolds == ASSUME MaxLockWait <= TTL PROVE Spec => []ReachInv
<1>1. Init => ReachInv
  BY MonitorInvInit
     DEF Init, ReachInv, SnapshotIsCurrent, ReservedSeatsAreListed, Asleep
<1>2. QED
  BY <1>1, ReachInvStep, PTL DEF Spec

-----------------------------------------------------------------------------
(* The third layer for listed seats is inductive, when no log append fails *)

\* Steps that leave the seats, the seat lists and the sales in progress alone.
HeldFrame ==
    /\ seat' = seat
    /\ \A u \in Users : sessions'[u].seats = sessions[u].seats
    /\ \A t \in Threads :
           /\ thread'[t].pc = "sell" <=> thread[t].pc = "sell"
           /\ thread[t].pc = "sell" => /\ thread'[t].user = thread[t].user
                                       /\ thread'[t].seats = thread[t].seats

LEMMA HeldByFrame ==
    ASSUME HeldInv, MonitorInv', NoFaults', SessionIdsMove, HeldFrame, MonitorFrame
    PROVE  HeldInv'
<1>1. SnapshotIsListed'
  BY TargetIsOld DEF SnapshotIsListed, MonitorFrame, HeldInv, HeldFrame
<1>2. OneHolder'
  BY DEF HeldInv, OneHolder, HeldFrame
<1>3. HeldSeats'
  <2>1. \A t \in Threads : \A u, s : SoldBy(t, u, s)' <=> SoldBy(t, u, s)
    BY DEF SoldBy, HeldFrame
  <2>2. QED
    BY <2>1 DEF HeldInv, HeldSeats, HeldFrame
<1>4. QED
  BY <1>1, <1>2, <1>3 DEF HeldInv

\* A session leaves; whatever happens to seats happens to its own.
LEMMA HeldByRelease ==
    ASSUME HeldInv, MonitorInv', NoFaults', MonitorFrame, NEW u \in Users,
           sessions' = [sessions EXCEPT ![u] = NoSession],
           \A s \in Seats : seat'[s] # seat[s] => sessions[u].seats[s] > 0,
           \A t \in Threads, v \in Users, s \in Seats :
               v # u => (SoldBy(t, v, s)' <=> SoldBy(t, v, s))
    PROVE  HeldInv'
<1>1. TypeOK
  BY DEF HeldInv, MonitorInv, SaleInv
<1>2. /\ \A v \in Users \ {u} : sessions'[v] = sessions[v]
      /\ sessions'[u].id = 0 /\ \A s \in Seats : sessions'[u].seats[s] = 0
  BY <1>1 DEF TypeOK, NoSession, NoSeats
<1>3. SnapshotIsListed'
  BY <1>1, <1>2 DEF HeldInv, MonitorInv, SnapshotIsListed, MonitorFrame,
                    MonitorTargetsUsers, OwnsSession
<1>4. OneHolder'
  BY <1>1, <1>2 DEF HeldInv, OneHolder
<1>5. HeldSeats'
  <2> SUFFICES ASSUME NEW v \in Users, NEW s \in Seats, sessions'[v].seats[s] > 0
               PROVE  seat'[s] = IF \E t \in Threads : SoldBy(t, v, s)'
                                 THEN "SOLD" ELSE "RESERVED"
    BY DEF HeldSeats
  <2>1. v # u /\ sessions[v].seats[s] > 0
    BY <1>2
  <2>2. seat'[s] = seat[s]
    BY <2>1 DEF HeldInv, OneHolder
  <2>3. QED
    BY <2>1, <2>2 DEF HeldInv, HeldSeats
<1>6. QED
  BY <1>3, <1>4, <1>5 DEF HeldInv

LEMMA NoFaultsHolds ==
    ASSUME MaxLogFaults = 0, SaleInv, NoFaults, TypeOK', [Next]_vars
    PROVE  NoFaults'
<1>1. logFaults' = 0
  BY DEF TypeOK
<1>2. ASSUME NEW t \in Threads, thread'[t].pc = "rollback" PROVE FALSE
  <2>1. TypeOK
    BY DEF SaleInv
  <2>2. ASSUME NEW x \in Threads, Handle(x) PROVE FALSE
    <3>1. ~ReserveLogFails(x)
      BY DEF ReserveLogFails, NoFaults
    <3>2. CASE (\E s \in Seats : SellSeat(x, s)) \/ RecordBuyer(x)
      <4>1. \A y \in Threads : thread'[y].pc = thread[y].pc
        <5>1. ASSUME NEW s \in Seats, SellSeat(x, s)
              PROVE  \A y \in Threads : thread'[y].pc = thread[y].pc
          BY <2>1, <5>1 DEF SellSeat, TypeOK, Request
        <5>2. CASE RecordBuyer(x)
          BY <2>1, <5>2 DEF RecordBuyer, TypeOK, Request
        <5>3. QED
          BY <3>2, <5>1, <5>2
      <4>2. QED
        BY <1>2, <4>1 DEF NoFaults
    <3>3. CASE ~ ((\E s \in Seats : SellSeat(x, s)) \/ RecordBuyer(x))
      <4>1. \/ Answer(x)
            \/ \E pc \in {"reserved", "saveSessions", "sold"} : Goto(x, pc)
        BY <2>2, <3>1, <3>3
           DEF Handle, ReserveSeats, RefuseReserve, SaveSeats, SaveSessions, Rollback,
               CommitSale, AnnounceSale, SaleLogFails
      <4>2. thread'[x].pc # "rollback" /\ \A y \in Threads \ {x} : thread'[y] = thread[y]
        BY <2>1, <4>1, ThreadAfter
      <4>3. QED
        BY <1>2, <4>2 DEF NoFaults
    <3>4. QED
      BY <3>2, <3>3
  <2>3. ASSUME NEW x \in Threads, NEW u \in Users, Receive(x, u) PROVE FALSE
    <3>1. \/ thread' = thread
          \/ \E r : r.pc # "rollback" /\ thread' = [thread EXCEPT ![x] = r]
      <4>1. CASE \E S \in SUBSET Seats : RequestReserve(x, u, S)
        BY <4>1 DEF RequestReserve, Idle
      <4>2. CASE \E id \in 1 .. lastId : ConfirmSession(x, u, id)
        BY <4>2 DEF ConfirmSession, Idle
      <4>3. CASE \E id \in 1 .. lastId : CancelSession(x, u, id)
        BY <4>3 DEF CancelSession
      <4>4. QED
        BY <2>3, <4>1, <4>2, <4>3 DEF Receive
    <3>2. QED
      BY <1>2, <2>1, <3>1 DEF NoFaults, TypeOK
  <2>4. CASE thread' = thread
    BY <1>2, <2>4 DEF NoFaults
  <2>5. QED
    BY <2>2, <2>3, <2>4
       DEF Next, MonitorNext, Sweep, TakeSnapshot, ExpireSession, SpareSession,
           AnnounceExpiry, ExpiryLogFails, WarnExpiring, WarnLogFails, Tick,
           Deliver, WriteTicket, vars
<1>3. QED
  BY <1>1, <1>2 DEF NoFaults

\* Steps that leave seats, seat lists and sales alone.
LEMMA HeldInvFrame ==
    ASSUME HeldInv, MonitorInv', NoFaults', SessionIdsMove, NEW t \in Threads,
           \/ RefuseReserve(t) \/ SaveSeats(t) \/ SaveSessions(t) \/ AnnounceSale(t)
           \/ \E u \in Users, S \in SUBSET Seats : RequestReserve(t, u, S)
    PROVE  HeldInv'
<1>1. TypeOK /\ ServingUsers /\ NoSessionIsEmpty
  BY DEF HeldInv, MonitorInv, SaleInv
<1>2. seat' = seat /\ mon' = mon
  BY DEF RefuseReserve, SaveSeats, SaveSessions, AnnounceSale, RequestReserve, seatVars
<1>3. /\ \A x \in Threads \ {t} : thread'[x] = thread[x]
      /\ thread[t].pc # "sell" /\ thread'[t].pc # "sell"
  <2>1. CASE RefuseReserve(t) \/ SaveSeats(t) \/ SaveSessions(t) \/ AnnounceSale(t)
    BY <1>1, <2>1, ThreadAfter DEF RefuseReserve, SaveSeats, SaveSessions, AnnounceSale
  <2>2. ASSUME NEW u \in Users, NEW S \in SUBSET Seats, RequestReserve(t, u, S)
        PROVE  /\ \A x \in Threads \ {t} : thread'[x] = thread[x]
               /\ thread[t].pc # "sell" /\ thread'[t].pc # "sell"
    <3>1. thread[t].pc # "sell"
      BY <2>2 DEF RequestReserve
    <3>2. QED
      BY <1>1, <2>2, <3>1, ThreadAfterRequest
  <2>3. QED
    BY <2>1, <2>2
<1>4. \A v \in Users : sessions'[v].seats = sessions[v].seats
  <2>1. \/ sessions' = sessions
        \/ \E u \in Users : sessions' = [sessions EXCEPT ![u] = GetOrCreate(u)]
    BY <1>1 DEF RefuseReserve, SaveSeats, SaveSessions, AnnounceSale, RequestReserve,
                ServingUsers
  <2>2. QED
    BY <1>1, <2>1, SessionGot DEF TypeOK
<1>5. HeldFrame
  BY <1>2, <1>3, <1>4 DEF HeldFrame
<1>6. QED
  BY <1>2, <1>5, HeldByFrame DEF MonitorFrame

LEMMA HeldInvEnvironment ==
    ASSUME HeldInv, MonitorInv', NoFaults', SessionIdsMove, MonitorFrame,
           \/ Tick
           \/ \E u \in Subscribers, type \in NotificationType : Deliver(u, type)
           \/ \E job \in tickets.jobs : WriteTicket(job)
           \/ SpareSession \/ AnnounceExpiry \/ WarnExpiring
           \/ UNCHANGED vars
    PROVE  HeldInv'
<1>1. TypeOK
  BY DEF HeldInv, MonitorInv, SaleInv
<1>2. \A u \in Users : sessions'[u].seats = sessions[u].seats
  <2>1. CASE Tick
    BY <1>1, <2>1, SessionsAfterTick
  <2>2. CASE ~Tick
    BY <2>2 DEF Deliver, WriteTicket, SpareSession, AnnounceExpiry, WarnExpiring, vars
  <2>3. QED
    BY <2>1, <2>2
<1>3. seat' = seat /\ thread' = thread
  BY DEF Tick, Deliver, WriteTicket, SpareSession, AnnounceExpiry, WarnExpiring, vars,
         seatVars
<1>4. HeldFrame
  BY <1>2, <1>3 DEF HeldFrame
<1>5. QED
  BY <1>4, HeldByFrame

LEMMA HeldInvMonitor ==
    ASSUME HeldInv, MonitorInv', NoFaults',
           Sweep \/ \E x \in mon.todo : TakeSnapshot(x)
    PROVE  HeldInv'
<1>1. TypeOK
  BY DEF HeldInv, MonitorInv, SaleInv
<1>2. seat' = seat /\ sessions' = sessions /\ thread' = thread
  BY DEF Sweep, TakeSnapshot, seatVars
<1>3. OneHolder' /\ HeldSeats'
  BY <1>2 DEF HeldInv, OneHolder, HeldSeats, SoldBy
<1>4. SnapshotIsListed'
  <2>1. CASE Sweep
    <3>1. mon'.pc = "sweep"
      BY <1>1, <2>1 DEF Sweep, TypeOK, Monitor
    <3>2. QED
      BY <3>1 DEF SnapshotIsListed
  <2>2. ASSUME NEW x \in mon.todo, TakeSnapshot(x) PROVE SnapshotIsListed'
    <3>1. /\ mon'.target = x
          /\ mon'.snapshot = IF OwnsSession(x.user, x.id) THEN Listed(x.user) ELSE {}
      BY <1>1, <2>2 DEF TakeSnapshot, TypeOK, Monitor
    <3>2. QED
      BY <1>2, <3>1 DEF SnapshotIsListed, Listed
  <2>3. QED
    BY <2>1, <2>2
<1>5. QED
  BY <1>3, <1>4 DEF HeldInv

\* CONFIRM, CANCEL and the monitor take a session with its seats.
LEMMA HeldInvRelease ==
    ASSUME HeldInv, MonitorInv', NoFaults',
           \/ \E t \in Threads : CommitSale(t)
           \/ \E t \in Threads, u \in Users, id \in 1 .. lastId : CancelSession(t, u, id)
           \/ ExpireSession
    PROVE  HeldInv'
<1>1. TypeOK /\ ServingUsers
  BY DEF HeldInv, MonitorInv, SaleInv
<1>2. ASSUME NEW t \in Threads, CommitSale(t) PROVE HeldInv'
  <2> DEFINE u == thread[t].user
  <2>1. u \in Users /\ sessions' = [sessions EXCEPT ![u] = NoSession]
        /\ seat' = seat /\ mon' = mon
    BY <1>1, <1>2 DEF CommitSale, RemoveSession, ServingUsers, seatVars
  <2>2. /\ thread'[t].pc = "sold" /\ \A x \in Threads \ {t} : thread'[x] = thread[x]
    BY <1>1, <1>2, ThreadAfter DEF CommitSale
  <2>3. \A x \in Threads, v \in Users, s \in Seats :
            v # u => (SoldBy(x, v, s)' <=> SoldBy(x, v, s))
    BY <2>2 DEF SoldBy
  <2>4. MonitorFrame
    BY <2>1 DEF MonitorFrame
  <2> HIDE DEF u
  <2>5. QED
    BY <2>1, <2>3, <2>4, HeldByRelease
<1>3. ASSUME NEW t \in Threads, NEW u \in Users, NEW id \in 1 .. lastId,
             CancelSession(t, u, id)
      PROVE  HeldInv'
  <2>1. /\ sessions' = [sessions EXCEPT ![u] = NoSession]
        /\ thread' = thread /\ mon' = mon
        /\ seat' = SetSeats(Listed(u), "AVAILABLE")
    BY <1>3 DEF CancelSession, RemoveSession
  <2>2. \A s \in Seats : seat'[s] # seat[s] => sessions[u].seats[s] > 0
    BY <2>1 DEF SetSeats, Listed
  <2>3. MonitorFrame
    BY <2>1 DEF MonitorFrame
  <2>4. \A x \in Threads, v \in Users, s \in Seats : SoldBy(x, v, s)' <=> SoldBy(x, v, s)
    BY <2>1 DEF SoldBy
  <2>5. QED
    BY <2>1, <2>2, <2>3, <2>4, HeldByRelease
<1>4. CASE ExpireSession
  <2> DEFINE u == mon.target.user
  <2>1. /\ u \in Users /\ OwnsSession(u, mon.target.id) /\ mon.pc = "expire"
    BY <1>4 DEF ExpireSession, Reclaimable, HeldInv, MonitorInv, MonitorTargetsUsers
  <2>2. /\ sessions' = [sessions EXCEPT ![u] = NoSession]
        /\ thread' = thread
        /\ seat' = SetSeats({s \in mon.snapshot : seat[s] = "RESERVED"}, "AVAILABLE")
    BY <1>4 DEF ExpireSession, RemoveSession
  <2>3. \A s \in Seats : seat'[s] # seat[s] => sessions[u].seats[s] > 0
    BY <1>1, <2>1, <2>2 DEF SetSeats, HeldInv, SnapshotIsListed, TypeOK
  <2>4. MonitorFrame
    BY <1>1, <1>4 DEF MonitorFrame, ExpireSession, TypeOK, Monitor
  <2>5. \A x \in Threads, v \in Users, s \in Seats : SoldBy(x, v, s)' <=> SoldBy(x, v, s)
    BY <2>2 DEF SoldBy
  <2> HIDE DEF u
  <2>6. QED
    BY <2>1, <2>2, <2>3, <2>4, <2>5, HeldByRelease
<1>5. QED
  BY <1>2, <1>3, <1>4

\* Seats that are reserved were AVAILABLE, hence on nobody's list.
LEMMA HeldInvReserve ==
    ASSUME HeldInv, MonitorInv', NoFaults', SessionIdsMove, NEW t \in Threads,
           ReserveSeats(t)
    PROVE  HeldInv'
<1> DEFINE u == thread[t].user
           S == thread[t].seats
           g == GetOrCreate(u)
           g2 == AppendSeats(g, S)
<1>1. TypeOK /\ u \in Users /\ NoSessionIsEmpty
  BY DEF HeldInv, MonitorInv, SaleInv, ServingUsers, ReserveSeats
<1>2. /\ seat' = SetSeats(S, "RESERVED") /\ \A s \in S : seat[s] = "AVAILABLE"
      /\ sessions' = [sessions EXCEPT ![u] = g2] /\ mon' = mon
  BY DEF ReserveSeats, CanReserve
<1>3. \A x \in Threads : thread[x].pc # "sell" /\ thread'[x].pc # "sell"
  BY <1>1, NoSaleWhenFree, ThreadAfter DEF ReserveSeats
<1>4. \A x \in Threads, v \in Users, s \in Seats :
          ~SoldBy(x, v, s) /\ ~SoldBy(x, v, s)'
  BY <1>3 DEF SoldBy
<1>5. \A v \in Users, s \in Seats : sessions[v].seats[s] > 0 => seat[s] = "RESERVED"
  BY <1>4 DEF HeldInv, HeldSeats
<1>6. g \in Session /\ g.seats = sessions[u].seats
  BY <1>1, SessionGot
<1>7. \A s \in Seats : g2.seats[s] = IF s \in S THEN sessions[u].seats[s] + 1
                                     ELSE sessions[u].seats[s]
  BY <1>6, SessionAppended
<1> HIDE DEF g, g2, u
<1>8. /\ \A v \in Users \ {u} : sessions'[v] = sessions[v]
      /\ \A s \in Seats : sessions'[u].seats[s] =
             IF s \in S THEN sessions[u].seats[s] + 1 ELSE sessions[u].seats[s]
  BY <1>1, <1>2, <1>7 DEF TypeOK
<1>9. \A v \in Users, s \in Seats : sessions[v].seats[s] \in Nat
  BY <1>1 DEF TypeOK, Session
<1> HIDE DEF S
<1>10. SnapshotIsListed'
  <2> SUFFICES ASSUME mon.pc = "expire",
                      OwnsSession(mon.target.user, mon.target.id)',
                      NEW s \in mon.snapshot
               PROVE  sessions'[mon.target.user].seats[s] > 0
    BY <1>2 DEF SnapshotIsListed
  <2>1. /\ mon.target.user \in Users /\ s \in Seats
        /\ sessions[mon.target.user].seats[s] > 0
    BY <1>1, <1>2, TargetIsOld DEF HeldInv, SnapshotIsListed, TypeOK, Monitor
  <2>2. QED
    BY <1>8, <1>9, <2>1
<1>11. \A v \in Users, s \in Seats : s \in S => sessions[v].seats[s] = 0
  BY <1>2, <1>5, <1>9
<1>12. OneHolder'
  BY <1>1, <1>8, <1>11 DEF HeldInv, OneHolder
<1>13. HeldSeats'
  <2>1. \A v \in Users, s \in Seats : sessions'[v].seats[s] > 0 => seat'[s] = "RESERVED"
    BY <1>2, <1>5, <1>8 DEF SetSeats
  <2>2. QED
    BY <1>4, <2>1 DEF HeldSeats
<1>14. QED
  BY <1>10, <1>12, <1>13 DEF HeldInv

\* A sale turns the seats of one session from RESERVED to SOLD one by one.
LEMMA HeldInvSale ==
    ASSUME HeldInv, MonitorInv', NoFaults', NEW t \in Threads,
           \/ (\E s \in Seats : SellSeat(t, s)) \/ RecordBuyer(t)
           \/ \E u \in Users, id \in 1 .. lastId : ConfirmSession(t, u, id)
    PROVE  HeldInv'
<1>1. TypeOK /\ SaleHoldsSeats /\ ServingUsers
  BY DEF HeldInv, MonitorInv, SaleInv
<1>2. sessions' = sessions /\ mon' = mon
  BY DEF SellSeat, RecordBuyer, ConfirmSession
<1>3. SnapshotIsListed' /\ OneHolder'
  BY <1>2 DEF HeldInv, SnapshotIsListed, OneHolder, OwnsSession
<1>4. ASSUME NEW z \in Seats, SellSeat(t, z) PROVE HeldSeats'
  <2> DEFINE u == thread[t].user
  <2>1. /\ thread[t].pc = "sell" /\ z \in thread[t].seats /\ u \in Users
        /\ thread'[t].pc = "sell" /\ thread'[t].user = u
        /\ thread'[t].seats = thread[t].seats \ {z}
        /\ \A x \in Threads \ {t} : thread'[x] = thread[x]
    BY <1>1, <1>4 DEF SellSeat, TypeOK, Request, ServingUsers
  <2>2. seat'[z] = "SOLD" /\ \A s \in Seats \ {z} : seat'[s] = seat[s]
    BY <1>4 DEF SellSeat, SetSeats
  <2>3. sessions[u].seats[z] > 0
    BY <1>1, <2>1 DEF SaleHoldsSeats
  <2>4. \A x \in Threads, v \in Users, s \in Seats \ {z} :
            SoldBy(x, v, s)' <=> SoldBy(x, v, s)
    BY <2>1 DEF SoldBy
  <2> HIDE DEF u
  <2>5. ASSUME NEW v \in Users, NEW s \in Seats, sessions[v].seats[s] > 0
        PROVE  seat'[s] = IF \E x \in Threads : SoldBy(x, v, s)' THEN "SOLD"
                          ELSE "RESERVED"
    <3>1. CASE s = z
      <4>1. v = u
        BY <2>1, <2>3, <2>5, <3>1 DEF HeldInv, OneHolder
      <4>2. SoldBy(t, v, s)'
        BY <2>1, <3>1, <4>1 DEF SoldBy
      <4>3. QED
        BY <2>2, <3>1, <4>2
    <3>2. CASE s # z
      <4>1. (\E x \in Threads : SoldBy(x, v, s)') <=> \E x \in Threads : SoldBy(x, v, s)
        BY <2>4, <3>2
      <4>2. seat[s] = IF \E x \in Threads : SoldBy(x, v, s) THEN "SOLD" ELSE "RESERVED"
        BY <2>5 DEF HeldInv, HeldSeats
      <4>3. QED
        BY <2>2, <3>2, <4>1, <4>2
    <3>3. QED
      BY <3>1, <3>2
  <2>6. QED
    BY <1>2, <2>5 DEF HeldSeats
<1>5. ASSUME NEW u \in Users, NEW id \in 1 .. lastId, ConfirmSession(t, u, id)
      PROVE  HeldSeats'
  <2>1. /\ thread'[t].user = u /\ thread'[t].seats = Listed(u)
        /\ \A x \in Threads \ {t} : thread'[x] = thread[x]
    BY <1>1, <1>5 DEF ConfirmSession, TypeOK, Idle
  <2>2. seat' = seat /\ \A x \in Threads : thread[x].pc # "sell"
    BY <1>5, NoSaleWhenFree DEF ConfirmSession, seatVars
  <2>3. \A v \in Users, s \in Seats : sessions[v].seats[s] > 0 =>
            seat[s] = "RESERVED" /\ \A x \in Threads : ~SoldBy(x, v, s)'
    BY <2>1, <2>2 DEF HeldInv, HeldSeats, SoldBy, Listed
  <2>4. QED
    BY <1>2, <2>2, <2>3 DEF HeldSeats
<1>6. ASSUME RecordBuyer(t) PROVE HeldSeats'
  <2>1. /\ seat' = seat
        /\ \A x \in Threads : /\ thread'[x].pc = thread[x].pc
                              /\ thread'[x].user = thread[x].user
                              /\ thread'[x].seats = thread[x].seats
    BY <1>1, <1>6 DEF RecordBuyer, seatVars, TypeOK, Request
  <2>2. \A x \in Threads : \A v, s : SoldBy(x, v, s)' <=> SoldBy(x, v, s)
    BY <2>1 DEF SoldBy
  <2>3. ASSUME NEW v \in Users, NEW s \in Seats, sessions[v].seats[s] > 0
        PROVE  seat'[s] = IF \E x \in Threads : SoldBy(x, v, s)' THEN "SOLD"
                          ELSE "RESERVED"
    <3>1. (\E x \in Threads : SoldBy(x, v, s)') <=> \E x \in Threads : SoldBy(x, v, s)
      BY <2>2
    <3>2. seat[s] = IF \E x \in Threads : SoldBy(x, v, s) THEN "SOLD" ELSE "RESERVED"
      BY <2>3 DEF HeldInv, HeldSeats
    <3>3. QED
      BY <2>1, <3>1, <3>2
  <2>4. QED
    BY <1>2, <2>3 DEF HeldSeats
<1>7. QED
  BY <1>3, <1>4, <1>5, <1>6 DEF HeldInv

LEMMA HeldInvStep ==
    ASSUME MaxLogFaults = 0
    PROVE  HeldInv /\ [Next]_vars => HeldInv'
<1> SUFFICES ASSUME HeldInv, [Next]_vars PROVE HeldInv'
  OBVIOUS
<1>1. /\ MonitorInv' /\ SaleInv /\ TypeOK /\ TypeOK' /\ SessionIdsMove
      /\ Sweep \/ (\E x \in mon.todo : TakeSnapshot(x)) \/ MonitorFrame
  <2>1. MonitorInv /\ MonitorInv'
    BY MonitorInvStep DEF HeldInv
  <2>2. SaleInv /\ TypeOK /\ TypeOK'
    BY <2>1 DEF MonitorInv, SaleInv
  <2>3. QED
    BY <2>1, <2>2, SessionIdsStep, MonitorMoves
<1>2. NoFaults'
  BY <1>1, NoFaultsHolds DEF HeldInv
<1>3. ASSUME NEW t \in Threads, Handle(t) PROVE HeldInv'
  <2>1. ~ReserveLogFails(t) /\ ~Rollback(t)
        /\ ~ \E done \in SaleStepsDone : SaleLogFails(t, done)
    BY DEF HeldInv, NoFaults, ReserveLogFails, Rollback, SaleLogFails
  <2>2. QED
    BY <1>1, <1>2, <1>3, <2>1, HeldInvReserve, HeldInvFrame, HeldInvSale, HeldInvRelease
       DEF Handle
<1>4. ASSUME NEW t \in Threads, NEW u \in Users, Receive(t, u) PROVE HeldInv'
  BY <1>1, <1>2, <1>4, HeldInvFrame, HeldInvSale, HeldInvRelease DEF Receive
<1>5. CASE Sweep \/ (\E x \in mon.todo : TakeSnapshot(x)) \/ ExpireSession
  BY <1>1, <1>2, <1>5, HeldInvMonitor, HeldInvRelease
<1>6. ASSUME ~(Sweep \/ \E x \in mon.todo : TakeSnapshot(x)),
             \/ Tick
             \/ \E u \in Subscribers, type \in NotificationType : Deliver(u, type)
             \/ \E job \in tickets.jobs : WriteTicket(job)
             \/ SpareSession \/ AnnounceExpiry \/ WarnExpiring
             \/ UNCHANGED vars
      PROVE  HeldInv'
  BY <1>1, <1>2, <1>6, HeldInvEnvironment
<1>7. ~ExpiryLogFails /\ \A W : ~WarnLogFails(W)
  BY DEF HeldInv, NoFaults, ExpiryLogFails, WarnLogFails
<1>8. QED
  BY <1>3, <1>4, <1>5, <1>6, <1>7 DEF Next, MonitorNext

LEMMA HeldInvHolds == ASSUME MaxLogFaults = 0 PROVE Spec => []HeldInv
<1>1. Init => HeldInv
  <2> SUFFICES ASSUME Init PROVE HeldInv
    OBVIOUS
  <2>1. NoFaults
    BY DEF Init, NoFaults, Idle
  <2>2. SnapshotIsListed
    BY DEF Init, SnapshotIsListed, Asleep
  <2>3. OneHolder /\ HeldSeats
    BY DEF Init, OneHolder, HeldSeats, NoSession, NoSeats
  <2>4. QED
    BY <2>1, <2>2, <2>3, MonitorInvInit DEF HeldInv
<1>2. QED
  BY <1>1, HeldInvStep, PTL DEF Spec

\* What the layer says, in the words of the model.
LEMMA HeldSeatsOfSessions ==
    ASSUME HeldInv PROVE ListedOnce /\ ListedSeatsAreHeld
<1>1. ListedOnce
  BY DEF HeldInv, OneHolder, ListedOnce, Listed
<1>2. ASSUME NEW u \in Users, NEW s \in Listed(u)
      PROVE  s \in BeingSoldTo(u) <=> \E t \in Threads : SoldBy(t, u, s)
  BY <1>2 DEF BeingSoldTo, SoldBy
<1>3. ListedSeatsAreHeld
  BY <1>2 DEF HeldInv, HeldSeats, ListedSeatsAreHeld, Listed
<1>4. QED
  BY <1>1, <1>3

-----------------------------------------------------------------------------
\* When no log append fails and locks are granted within a TTL, every
\* RESERVED seat is on the list of exactly one session, exactly once, and every
\* listed seat is RESERVED, or SOLD by the CONFIRM of that session that is
\* still running: no seat is owned twice, and none is stuck.
THEOREM SeatsHaveOneHolder ==
    ASSUME MaxLogFaults = 0, MaxLockWait <= TTL
    PROVE  Spec => []SeatHeldExactlyOnce
<1>1. ReachInv /\ HeldInv => SeatHeldExactlyOnce
  BY HeldSeatsOfSessions DEF ReachInv, SeatHeldExactlyOnce
<1>2. QED
  BY <1>1, ReachInvHolds, HeldInvHolds, PTL
=============================================================================
