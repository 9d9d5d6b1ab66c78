----------------------- MODULE ReservationServerTypes -----------------------
(***************************************************************************)
(* Facts about the counting operators, and type correctness of the server  *)
(* for every venue, population, number of threads and bound.               *)
(***************************************************************************)
EXTENDS ReservationServer, FiniteSetTheorems, TLAPS

-----------------------------------------------------------------------------
(* Counting seats *)

\* A section has finitely many seats, of any description.
LEMMA SeatsAreFinite ==
    ASSUME NEW S \in SUBSET Seats
    PROVE  IsFiniteSet(S) /\ Cardinality(S) \in Nat
  BY SeatsAssumption, FS_Subset, FS_CardinalityType

LEMMA CountOfSection ==
    ASSUME NEW S \in SUBSET Seats, NEW sec \in Sections
    PROVE  /\ S \cap SeatsOf(sec) \in SUBSET Seats
           /\ IsFiniteSet(S \cap SeatsOf(sec))
           /\ Cardinality(S \cap SeatsOf(sec)) \in Nat
<1>1. S \cap SeatsOf(sec) \in SUBSET Seats
  OBVIOUS
<1>2. QED
  BY <1>1, SeatsAreFinite

\* So has a session's list of them, repetitions included.
LEMMA CountOfEntries ==
    ASSUME NEW list \in [Seats -> Nat], NEW sec \in Sections
    PROVE  /\ IsFiniteSet(Entries(list, sec))
           /\ Cardinality(Entries(list, sec)) \in Nat
<1> DEFINE f == [s \in SeatsOf(sec) |-> {s} \X (1 .. list[s])]
           T == {{s} \X (1 .. list[s]) : s \in SeatsOf(sec)}
<1>1. SeatsOf(sec) \in SUBSET Seats
  BY DEF SeatsOf
<1>2. f \in Surjection(SeatsOf(sec), T)
  BY DEF Surjection
<1>3. IsFiniteSet(T)
  BY <1>1, <1>2, SeatsAreFinite, FS_Surjection
<1>4. ASSUME NEW s \in SeatsOf(sec)
      PROVE  IsFiniteSet({s} \X (1 .. list[s]))
  <2>1. list[s] \in Nat
    BY <1>1
  <2>2. IsFiniteSet(1 .. list[s])
    BY <2>1, FS_Interval
  <2>3. IsFiniteSet({s})
    BY FS_Singleton
  <2>4. QED
    BY <2>2, <2>3, FS_Product
<1>5. IsFiniteSet(UNION T)
  <2>1. \A X \in T : IsFiniteSet(X)
    BY <1>4
  <2> HIDE DEF T
  <2>2. QED
    BY <1>3, <2>1, FS_UNION
<1>6. QED
  BY <1>5, FS_CardinalityType DEF Entries

-----------------------------------------------------------------------------
(* Types of the operations on the shared state *)

LEMMA SetSeatsType ==
    ASSUME TypeOK, NEW S, NEW state \in SeatState
    PROVE  SetSeats(S, state) \in [Seats -> SeatState]
  BY DEF TypeOK, SetSeats

LEMMA SessionTypes ==
    ASSUME TypeOK
    PROVE  /\ NoSession \in Session
           /\ \A u \in Users : GetOrCreate(u) \in Session
           /\ \A u : IdsAfterGet(u) \in Nat
           /\ \A session \in Session : \A S : AppendSeats(session, S) \in Session
           /\ \A u : RemoveSession(u) \in [Users -> Session]
           /\ \A u \in Users : Listed(u) \in SUBSET Seats
<1>1. NoSession \in Session
  BY BoundsAssumption DEF NoSession, NoSeats, Session
<1>2. \A u \in Users : GetOrCreate(u) \in Session
  BY BoundsAssumption DEF GetOrCreate, NoSeats, Session, TypeOK
<1>3. \A u : IdsAfterGet(u) \in Nat
  BY DEF IdsAfterGet, TypeOK
<1>4. ASSUME NEW session \in Session, NEW S
      PROVE  AppendSeats(session, S) \in Session
  <2> DEFINE seats == [s \in Seats |->
                   IF s \in S THEN session.seats[s] + 1 ELSE session.seats[s]]
  <2>1. session.id \in Nat /\ session.seats \in [Seats -> Nat]
    BY DEF Session
  <2>2. seats \in [Seats -> Nat]
    BY <2>1
  <2>3. AppendSeats(session, S) = [session EXCEPT !.age = 0, !.seats = seats]
    BY DEF AppendSeats
  <2>4. 0 \in 0 .. TTL + 1
    BY BoundsAssumption
  <2> HIDE DEF seats
  <2>5. QED
    BY <2>2, <2>3, <2>4 DEF Session
<1>5. \A u : RemoveSession(u) \in [Users -> Session]
  BY <1>1 DEF RemoveSession, TypeOK
<1>6. \A u \in Users : Listed(u) \in SUBSET Seats
  BY DEF Listed
<1>7. QED
  BY <1>1, <1>2, <1>3, <1>4, <1>5, <1>6

LEMMA SlotTypes ==
    ASSUME TypeOK
    PROVE  /\ \A count \in [Sections -> Nat] :
                  ReleaseSlots(count) \in [Sections -> Nat]
           /\ \A S \in SUBSET Seats :
                  HasCapacity(S) => AcquireSlots(S) \in [Sections -> Nat]
           /\ \A S \in SUBSET Seats :
                  [sec \in Sections |-> Cardinality(S \cap SeatsOf(sec))]
                      \in [Sections -> Nat]
<1>1. \A count \in [Sections -> Nat] : ReleaseSlots(count) \in [Sections -> Nat]
  BY DEF ReleaseSlots, TypeOK
<1>2. ASSUME NEW S \in SUBSET Seats, HasCapacity(S)
      PROVE  AcquireSlots(S) \in [Sections -> Nat]
  <2>1. \A sec \in Sections : /\ Cardinality(S \cap SeatsOf(sec)) \in Nat
                              /\ sem[sec] \in Nat
    BY CountOfSection DEF TypeOK
  <2>2. QED
    BY <1>2, <2>1 DEF AcquireSlots, HasCapacity
<1>3. QED
  BY <1>1, <1>2, CountOfSection

LEMMA NoticeTypes ==
    ASSUME TypeOK
    PROVE  /\ \A U : \A type \in NotificationType :
                  Enqueue(inbox, U, type) \in [Subscribers -> SUBSET NotificationType]
           /\ \A m, Secs : NotifyAvailability(m, Secs) =>
                  /\ inbox' \in [Subscribers -> SUBSET NotificationType]
                  /\ sectionFull' \in [Sections -> BOOLEAN]
<1>1. \A U : \A type \in NotificationType :
          Enqueue(inbox, U, type) \in [Subscribers -> SUBSET NotificationType]
  BY DEF TypeOK, Enqueue
<1>2. ASSUME NEW m, NEW Secs, NotifyAvailability(m, Secs)
      PROVE  /\ inbox' \in [Subscribers -> SUBSET NotificationType]
             /\ sectionFull' \in [Sections -> BOOLEAN]
  <2>1. sectionFull' = [sec \in Sections |-> IF sec \in Secs THEN Available(m, sec) = {}
                                            ELSE sectionFull[sec]]
    BY <1>2 DEF NotifyAvailability
  <2>2. inbox' = inbox \/ inbox' = Enqueue(inbox, Subscribers, "AVAILABILITY")
    BY <1>2 DEF NotifyAvailability
  <2>3. "AVAILABILITY" \in NotificationType
    BY DEF NotificationType
  <2>4. inbox' \in [Subscribers -> SUBSET NotificationType]
    BY <1>1, <2>2, <2>3 DEF TypeOK
  <2>5. sectionFull' \in [Sections -> BOOLEAN]
    BY <2>1, Zenon DEF TypeOK
  <2>6. QED
    BY <2>4, <2>5
<1>3. QED
  BY <1>1, <1>2

LEMMA RowTypes ==
    ASSUME TypeOK
    PROVE  /\ SaveAllSessions => dbSessions' \in [Users -> Row]
           /\ \A u : DeleteSession(u) => dbSessions' \in [Users -> Row]
           /\ \A id \in Nat : IssueTicket(id) => tickets' \in
                  [counter : Nat, jobs : SUBSET Ticket, files : SUBSET Ticket]
<1>1. ASSUME SaveAllSessions PROVE dbSessions' \in [Users -> Row]
  <2>1. \A u \in Users : [id |-> sessions[u].id, seats |-> Listed(u),
                         age |-> sessions[u].age] \in Row
    BY DEF TypeOK, Session, Row, Listed
  <2>2. QED
    BY <1>1, <2>1 DEF SaveAllSessions, TypeOK
<1>2. \A u : DeleteSession(u) => dbSessions' \in [Users -> Row]
  BY DEF DeleteSession, TypeOK
<1>3. ASSUME NEW id \in Nat, IssueTicket(id)
      PROVE  tickets' \in [counter : Nat, jobs : SUBSET Ticket, files : SUBSET Ticket]
  <2> DEFINE number == tickets.counter + 1
  <2>1. number \in Nat /\ tickets.jobs \subseteq Ticket /\ tickets.files \subseteq Ticket
    BY DEF TypeOK
  <2>2. [number |-> number, id |-> id] \in Ticket
    BY <2>1 DEF Ticket
  <2>3. tickets' = [tickets EXCEPT !.counter = number,
            !.jobs = IF TicketsWritable
                     THEN @ \cup {[number |-> number, id |-> id]} ELSE @]
    BY <1>3 DEF IssueTicket
  <2> HIDE DEF number
  <2>4. QED
    BY <2>1, <2>2, <2>3 DEF TypeOK
<1>4. QED
  BY <1>1, <1>2, <1>3

-----------------------------------------------------------------------------
(* Types of the steps *)

LEMMA RequestTypes ==
    ASSUME TypeOK, NEW t \in Threads
    PROVE  /\ thread[t] \in Request
           /\ Idle \in Request
           /\ \A pc \in ThreadPc : Goto(t, pc) => thread' \in [Threads -> Request]
           /\ Answer(t) => thread' \in [Threads -> Request]
<1>1. thread[t] \in Request /\ Idle \in Request
  BY DEF TypeOK, Request, Idle, ThreadPc
<1>2. ASSUME NEW pc \in ThreadPc, Goto(t, pc) PROVE thread' \in [Threads -> Request]
  <2>1. [thread[t] EXCEPT !.pc = pc] \in Request
    BY <1>1 DEF Request
  <2>2. QED
    BY <1>2, <2>1 DEF TypeOK, Goto
<1>3. Answer(t) => thread' \in [Threads -> Request]
  BY <1>1 DEF TypeOK, Answer
<1>4. QED
  BY <1>1, <1>2, <1>3

LEMMA ReserveTypes ==
    ASSUME TypeOK, NEW t \in Threads,
           ReserveSeats(t) \/ RefuseReserve(t) \/ Rollback(t)
    PROVE  TypeOK'
<1> DEFINE u == thread[t].user
           S == thread[t].seats
<1>1. S \in SUBSET Seats
  BY DEF TypeOK, Request
<1>2. "reserved" \in ThreadPc /\ "RESERVED" \in SeatState /\ "AVAILABLE" \in SeatState
  BY DEF ThreadPc, SeatState
<1>3. CASE ReserveSeats(t)
  <2>1. seat' \in [Seats -> SeatState]
    BY <1>2, <1>3, SetSeatsType DEF ReserveSeats
  <2>2. sem' \in [Sections -> Nat]
    BY <1>1, <1>3, SlotTypes DEF ReserveSeats, CanReserve
  <2>3. sessions' \in [Users -> Session]
    BY <1>3, SessionTypes DEF ReserveSeats, TypeOK
  <2>4. lastId' \in Nat
    BY <1>3, SessionTypes DEF ReserveSeats
  <2>5. thread' \in [Threads -> Request]
    BY <1>2, <1>3, RequestTypes DEF ReserveSeats
  <2>6. QED
    BY <1>3, <2>1, <2>2, <2>3, <2>4, <2>5
       DEF ReserveSeats, TypeOK, dbVars, noticeVars
<1>4. CASE RefuseReserve(t)
  <2>1. sessions' \in [Users -> Session]
    BY <1>4, SessionTypes DEF RefuseReserve, TypeOK
  <2>2. lastId' \in Nat
    BY <1>4, SessionTypes DEF RefuseReserve
  <2>3. thread' \in [Threads -> Request]
    BY <1>4, RequestTypes DEF RefuseReserve
  <2>4. QED
    BY <1>4, <2>1, <2>2, <2>3
       DEF RefuseReserve, TypeOK, seatVars, dbVars, noticeVars
<1>5. CASE Rollback(t)
  <2>1. seat' \in [Seats -> SeatState]
    BY <1>2, <1>5, SetSeatsType DEF Rollback
  <2>2. sem' \in [Sections -> Nat]
    <3> DEFINE R == {s \in S : seat[s] = "RESERVED"}
    <3>1. R \in SUBSET Seats
      BY <1>1
    <3>2. sem' = ReleaseSlots([sec \in Sections |-> Cardinality(R \cap SeatsOf(sec))])
      BY <1>5 DEF Rollback
    <3> HIDE DEF R
    <3>3. QED
      BY <3>1, <3>2, SlotTypes
  <2>3. thread' \in [Threads -> Request]
    BY <1>5, RequestTypes DEF Rollback
  <2>4. QED
    BY <1>5, <2>1, <2>2, <2>3 DEF Rollback, TypeOK, dbVars, noticeVars
<1>6. QED
  BY <1>3, <1>4, <1>5

LEMMA SaveTypes ==
    ASSUME TypeOK, NEW t \in Threads,
           SaveSeats(t) \/ SaveSessions(t) \/ ReserveLogFails(t)
    PROVE  TypeOK'
<1>1. "saveSessions" \in ThreadPc /\ "rollback" \in ThreadPc
  BY DEF ThreadPc
<1>2. CASE SaveSeats(t)
  <2>1. thread' \in [Threads -> Request]
    BY <1>1, <1>2, RequestTypes DEF SaveSeats
  <2>2. QED
    BY <1>2, <2>1 DEF SaveSeats, SaveAllSeats, TypeOK, seatVars, noticeVars
<1>3. CASE SaveSessions(t)
  <2>1. thread' \in [Threads -> Request] /\ dbSessions' \in [Users -> Row]
    BY <1>3, RequestTypes, RowTypes DEF SaveSessions
  <2>2. QED
    BY <1>3, <2>1 DEF SaveSessions, TypeOK, seatVars, noticeVars
<1>4. CASE ReserveLogFails(t)
  <2>1. thread' \in [Threads -> Request]
    BY <1>1, <1>4, RequestTypes DEF ReserveLogFails
  <2>2. logFaults' \in 0 .. MaxLogFaults
    BY <1>4, BoundsAssumption DEF ReserveLogFails, TypeOK
  <2>3. QED
    BY <1>4, <2>1, <2>2 DEF ReserveLogFails, TypeOK, seatVars, dbVars, noticeVars
<1>5. QED
  BY <1>2, <1>3, <1>4

LEMMA SaleTypes ==
    ASSUME TypeOK, NEW t \in Threads,
           \/ (\E s \in Seats : SellSeat(t, s)) \/ RecordBuyer(t)
           \/ CommitSale(t)
           \/ AnnounceSale(t)
           \/ \E done \in SaleStepsDone : SaleLogFails(t, done)
    PROVE  TypeOK'
<1>1. "sold" \in ThreadPc /\ "SOLD" \in SeatState /\ "CONFIRMED" \in NotificationType
  BY DEF ThreadPc, SeatState, NotificationType
<1>2. ASSUME NEW s \in Seats, SellSeat(t, s) PROVE TypeOK'
  <2>1. seat' \in [Seats -> SeatState]
    BY <1>1, <1>2, SetSeatsType DEF SellSeat
  <2>2. thread' \in [Threads -> Request]
    <3>1. [thread[t] EXCEPT !.seats = @ \ {s}, !.recording = {s}] \in Request
      BY RequestTypes DEF Request
    <3>2. QED
      BY <1>2, <3>1 DEF SellSeat, TypeOK
  <2>3. QED
    BY <1>2, <2>1, <2>2 DEF SellSeat, TypeOK, dbVars, noticeVars
<1>r. CASE RecordBuyer(t)
  <2>1. dbPurchased' \in [Seats -> Users \cup {Nobody}]
    BY <1>r DEF RecordBuyer, TypeOK, Request
  <2>2. thread' \in [Threads -> Request]
    BY <1>r DEF RecordBuyer, TypeOK, Request
  <2>3. QED
    BY <1>r, <2>1, <2>2 DEF RecordBuyer, TypeOK, seatVars, noticeVars
<1>3. CASE CommitSale(t)
  <2>1. thread' \in [Threads -> Request]
    BY <1>1, <1>3, RequestTypes DEF CommitSale
  <2>2. sessions' \in [Users -> Session] /\ dbSessions' \in [Users -> Row]
    BY <1>3, SessionTypes, RowTypes DEF CommitSale
  <2>3. QED
    BY <1>3, <2>1, <2>2 DEF CommitSale, SaveAllSeats, TypeOK, seatVars, noticeVars
<1>4. thread[t].id \in Nat
  BY DEF TypeOK, Request
<1>5. CASE AnnounceSale(t)
  <2>1. thread' \in [Threads -> Request]
    BY <1>5, RequestTypes DEF AnnounceSale
  <2>2. inbox' \in [Subscribers -> SUBSET NotificationType]
    BY <1>1, <1>5, NoticeTypes DEF AnnounceSale
  <2>3. tickets' \in [counter : Nat, jobs : SUBSET Ticket, files : SUBSET Ticket]
    BY <1>4, <1>5, RowTypes DEF AnnounceSale
  <2>4. QED
    BY <1>5, <2>1, <2>2, <2>3 DEF AnnounceSale, TypeOK, seatVars, dbVars
<1>6. ASSUME NEW done \in SaleStepsDone, SaleLogFails(t, done) PROVE TypeOK'
  <2>1. thread' \in [Threads -> Request]
    BY <1>6, RequestTypes DEF SaleLogFails
  <2>2. inbox' \in [Subscribers -> SUBSET NotificationType]
    <3>1. inbox' = inbox \/ inbox' = Enqueue(inbox, {thread[t].user}, "CONFIRMED")
      BY <1>6 DEF SaleLogFails
    <3>2. QED
      BY <1>1, <3>1, NoticeTypes DEF TypeOK
  <2>3. tickets' \in [counter : Nat, jobs : SUBSET Ticket, files : SUBSET Ticket]
    BY <1>4, <1>6, RowTypes DEF SaleLogFails, TypeOK
  <2>4. logFaults' \in 0 .. MaxLogFaults
    BY <1>6, BoundsAssumption DEF SaleLogFails, TypeOK
  <2>5. QED
    BY <1>6, <2>1, <2>2, <2>3, <2>4 DEF SaleLogFails, TypeOK, seatVars, dbVars
<1>7. QED
  BY <1>2, <1>r, <1>3, <1>5, <1>6

LEMMA ReceiveTypes ==
    ASSUME TypeOK, NEW t \in Threads, NEW u \in Users, Receive(t, u)
    PROVE  TypeOK'
<1>1. ASSUME NEW S \in SUBSET Seats, RequestReserve(t, u, S) PROVE TypeOK'
  <2>1. [Idle EXCEPT !.pc = "reserve", !.user = u, !.seats = S] \in Request
    BY DEF Idle, Request, ThreadPc
  <2>2. thread' \in [Threads -> Request]
    BY <1>1, <2>1 DEF RequestReserve, TypeOK
  <2>3. sessions' \in [Users -> Session] /\ lastId' \in Nat
    BY <1>1, SessionTypes DEF RequestReserve, TypeOK
  <2>4. QED
    BY <1>1, <2>2, <2>3 DEF RequestReserve, TypeOK, seatVars, dbVars, noticeVars
<1>2. ASSUME NEW id \in 1 .. lastId, ConfirmSession(t, u, id) PROVE TypeOK'
  <2>1. [Idle EXCEPT !.pc = "sell", !.user = u, !.seats = Listed(u), !.id = id]
            \in Request
    <3>1. Listed(u) \in SUBSET Seats /\ id \in Nat /\ "sell" \in ThreadPc
      BY SessionTypes DEF TypeOK, ThreadPc
    <3>2. QED
      BY <3>1 DEF Idle, Request
  <2>2. thread' \in [Threads -> Request]
    BY <1>2, <2>1 DEF ConfirmSession, TypeOK
  <2>3. QED
    BY <1>2, <2>2 DEF ConfirmSession, TypeOK, seatVars, dbVars, noticeVars
<1>3. ASSUME NEW id \in 1 .. lastId, CancelSession(t, u, id) PROVE TypeOK'
  <2> DEFINE freed == SetSeats(Listed(u), "AVAILABLE")
             released == [sec \in Sections |->
                             Cardinality(Entries(sessions[u].seats, sec))]
  <2>1. /\ seat' = freed /\ sem' = ReleaseSlots(released) /\ dbSeat' = freed
        /\ NotifyAvailability(freed, {sec \in Sections : released[sec] > 0})
    BY <1>3 DEF CancelSession, SaveAllSeats
  <2>2. freed \in [Seats -> SeatState]
    BY SetSeatsType DEF SeatState
  <2>3. released \in [Sections -> Nat]
    <3>1. sessions[u].seats \in [Seats -> Nat]
      BY DEF TypeOK, Session
    <3>2. QED
      BY <3>1, CountOfEntries
  <2> HIDE DEF freed, released
  <2>4. sem' \in [Sections -> Nat]
    BY <2>1, <2>3, SlotTypes
  <2>5. /\ inbox' \in [Subscribers -> SUBSET NotificationType]
        /\ sectionFull' \in [Sections -> BOOLEAN]
    BY <2>1, NoticeTypes
  <2>6. sessions' \in [Users -> Session] /\ dbSessions' \in [Users -> Row]
    BY <1>3, SessionTypes, RowTypes DEF CancelSession
  <2>7. QED
    BY <1>3, <2>1, <2>2, <2>4, <2>5, <2>6 DEF CancelSession, TypeOK
<1>4. QED
  BY <1>1, <1>2, <1>3 DEF Receive

LEMMA MonitorTypes ==
    ASSUME TypeOK, MonitorNext
    PROVE  TypeOK'
<1> USE BoundsAssumption
<1>1. /\ \A pc \in {"sleep", "sweep", "expire", "notify", "dead"} : pc \in MonitorPc
      /\ NoTarget \in Target /\ 0 \in 0 .. MaxLockWait
      /\ "TTL_WARNING" \in NotificationType /\ "EXPIRED" \in NotificationType
  BY DEF MonitorPc, NoTarget, Target, NotificationType
<1>2. Asleep \in Monitor /\ [Asleep EXCEPT !.pc = "dead"] \in Monitor
  BY <1>1 DEF Asleep, Monitor
<1>3. CASE Sweep
  <2> DEFINE found == {[user |-> u, id |-> sessions[u].id] : u \in Expired}
  <2>1. found \subseteq Target
    BY DEF Expired, Target, TypeOK, Session
  <2>2. mon' \in Monitor
    <3>1. mon' = [mon EXCEPT !.pc = "sweep", !.todo = found]
      BY <1>3 DEF Sweep
    <3> HIDE DEF found
    <3>2. QED
      BY <1>1, <2>1, <3>1 DEF TypeOK, Monitor
  <2>3. QED
    BY <1>3, <2>2 DEF Sweep, TypeOK, seatVars, dbVars, noticeVars
<1>4. ASSUME NEW x \in mon.todo, TakeSnapshot(x) PROVE TypeOK'
  <2>1. x \in Target
    BY DEF TypeOK, Monitor
  <2>2. Listed(x.user) \subseteq Seats
    BY DEF Listed
  <2>3. mon' \in Monitor
    BY <1>1, <1>4, <2>1, <2>2 DEF TakeSnapshot, TypeOK, Monitor
  <2>4. QED
    BY <1>4, <2>3 DEF TakeSnapshot, TypeOK, seatVars, dbVars, noticeVars
<1>5. CASE ExpireSession
  <2> DEFINE S == {s \in mon.snapshot : seat[s] = "RESERVED"}
             freed == SetSeats(S, "AVAILABLE")
             released == [sec \in Sections |-> Cardinality(S \cap SeatsOf(sec))]
  <2>1. /\ seat' = freed /\ sem' = ReleaseSlots(released) /\ dbSeat' = freed
        /\ NotifyAvailability(freed, {sec \in Sections : released[sec] > 0})
    BY <1>5 DEF ExpireSession, SaveAllSeats
  <2>2. freed \in [Seats -> SeatState]
    BY SetSeatsType DEF SeatState
  <2>3. released \in [Sections -> Nat]
    <3>1. S \in SUBSET Seats
      BY DEF TypeOK, Monitor
    <3> HIDE DEF S
    <3>2. QED
      BY <3>1, SlotTypes
  <2> HIDE DEF freed, released
  <2>4. sem' \in [Sections -> Nat]
    BY <2>1, <2>3, SlotTypes
  <2>5. /\ inbox' \in [Subscribers -> SUBSET NotificationType]
        /\ sectionFull' \in [Sections -> BOOLEAN]
    BY <2>1, NoticeTypes
  <2>6. sessions' \in [Users -> Session] /\ dbSessions' \in [Users -> Row]
    BY <1>5, SessionTypes, RowTypes DEF ExpireSession
  <2>7. mon' \in Monitor
    BY <1>1, <1>5 DEF ExpireSession, TypeOK, Monitor
  <2>8. QED
    BY <1>5, <2>1, <2>2, <2>4, <2>5, <2>6, <2>7 DEF ExpireSession, TypeOK
<1>6. CASE SpareSession
  <2>1. mon' \in Monitor
    BY <1>1, <1>6 DEF SpareSession, TypeOK, Monitor
  <2>2. QED
    BY <1>6, <2>1 DEF SpareSession, TypeOK, seatVars, dbVars, noticeVars
<1>7. CASE AnnounceExpiry
  <2>1. mon' \in Monitor
    BY <1>1, <1>7 DEF AnnounceExpiry, TypeOK, Monitor
  <2>2. inbox' \in [Subscribers -> SUBSET NotificationType]
    BY <1>1, <1>7, NoticeTypes DEF AnnounceExpiry
  <2>3. QED
    BY <1>7, <2>1, <2>2 DEF AnnounceExpiry, TypeOK, seatVars, dbVars
<1>8. CASE ExpiryLogFails
  <2>1. inbox' \in [Subscribers -> SUBSET NotificationType]
    BY <1>1, <1>8, NoticeTypes DEF ExpiryLogFails
  <2>2. logFaults' \in 0 .. MaxLogFaults
    BY <1>8 DEF ExpiryLogFails, TypeOK
  <2>3. QED
    BY <1>2, <1>8, <2>1, <2>2 DEF ExpiryLogFails, TypeOK, seatVars, dbVars
<1>9. CASE WarnExpiring
  <2>1. inbox' \in [Subscribers -> SUBSET NotificationType]
    BY <1>1, <1>9, NoticeTypes DEF WarnExpiring
  <2>2. QED
    BY <1>2, <1>9, <2>1 DEF WarnExpiring, TypeOK, seatVars, dbVars
<1>10. ASSUME NEW W \in SUBSET Subscribers, WarnLogFails(W) PROVE TypeOK'
  <2>1. inbox' \in [Subscribers -> SUBSET NotificationType]
    BY <1>1, <1>10, NoticeTypes DEF WarnLogFails
  <2>2. logFaults' \in 0 .. MaxLogFaults
    BY <1>10 DEF WarnLogFails, TypeOK
  <2>3. QED
    BY <1>2, <1>10, <2>1, <2>2 DEF WarnLogFails, TypeOK, seatVars, dbVars
<1>11. QED
  BY <1>3, <1>4, <1>5, <1>6, <1>7, <1>8, <1>9, <1>10 DEF MonitorNext

LEMMA EnvironmentTypes ==
    ASSUME TypeOK,
           \/ Tick
           \/ \E u \in Subscribers, type \in NotificationType : Deliver(u, type)
           \/ \E job \in tickets.jobs : WriteTicket(job)
    PROVE  TypeOK'
<1> USE BoundsAssumption
<1>1. CASE Tick
  <2>1. \A age \in 0 .. TTL + 1 : Older(age) \in 0 .. TTL + 1
    BY DEF Older
  <2>2. \A session \in Session : [session EXCEPT !.age = Older(@)] \in Session
    BY <2>1 DEF Session
  <2>3. \A row \in Row : [row EXCEPT !.age = Older(@)] \in Row
    BY <2>1 DEF Row
  <2>4. sessions' \in [Users -> Session]
    BY <1>1, <2>2 DEF Tick, TypeOK
  <2>5. dbSessions' \in [Users -> Row]
    BY <1>1, <2>3 DEF Tick, TypeOK
  <2>6. mon' \in Monitor
    BY <1>1 DEF Tick, TypeOK, Monitor
  <2>7. QED
    BY <1>1, <2>4, <2>5, <2>6 DEF Tick, TypeOK, seatVars, noticeVars
<1>2. ASSUME NEW u \in Subscribers, NEW type \in NotificationType, Deliver(u, type)
      PROVE  TypeOK'
  BY <1>2 DEF Deliver, TypeOK, seatVars, dbVars
<1>3. ASSUME NEW job \in tickets.jobs, WriteTicket(job) PROVE TypeOK'
  <2>1. tickets' \in [counter : Nat, jobs : SUBSET Ticket, files : SUBSET Ticket]
    BY <1>3 DEF WriteTicket, TypeOK
  <2>2. QED
    BY <1>3, <2>1 DEF WriteTicket, TypeOK, seatVars, dbVars, noticeVars
<1>4. QED
  BY <1>1, <1>2, <1>3

-----------------------------------------------------------------------------
LEMMA InitialTypes == Init => TypeOK
<1> SUFFICES ASSUME Init PROVE TypeOK
  OBVIOUS
<1> USE BoundsAssumption DEF Init
<1>1. sem \in [Sections -> Nat]
  BY SeatsAreFinite DEF Capacity, SeatsOf
<1>2. seat \in [Seats -> SeatState] /\ dbSeat \in [Seats -> SeatState]
  BY DEF SeatState
<1>3. sessions \in [Users -> Session] /\ dbSessions \in [Users -> Row]
  BY DEF NoSession, NoSeats, Session, NoRow, Row
<1>4. thread \in [Threads -> Request]
  BY DEF Idle, Request, ThreadPc
<1>5. mon \in Monitor
  BY DEF Asleep, Monitor, MonitorPc, NoTarget, Target
<1>6. QED
  BY <1>1, <1>2, <1>3, <1>4, <1>5 DEF TypeOK

LEMMA NextTypes == TypeOK /\ [Next]_vars => TypeOK'
<1> SUFFICES ASSUME TypeOK, [Next]_vars PROVE TypeOK'
  OBVIOUS
<1>1. ASSUME NEW t \in Threads, Handle(t) PROVE TypeOK'
  BY <1>1, ReserveTypes, SaveTypes, SaleTypes DEF Handle
<1>2. ASSUME NEW t \in Threads, NEW u \in Users, Receive(t, u) PROVE TypeOK'
  BY <1>2, ReceiveTypes
<1>3. CASE MonitorNext
  BY <1>3, MonitorTypes
<1>4. CASE \/ Tick
           \/ \E u \in Subscribers, type \in NotificationType : Deliver(u, type)
           \/ \E job \in tickets.jobs : WriteTicket(job)
  BY <1>4, EnvironmentTypes
<1>5. CASE UNCHANGED vars
  BY <1>5 DEF vars, TypeOK
<1>6. QED
  BY <1>1, <1>2, <1>3, <1>4, <1>5 DEF Next

\* Every variable keeps its type.  The semaphores are the part that matters:
\* the value of threading.Semaphore never goes below zero, since a handler
\* takes the slots of a request only when all of them are there.
THEOREM TypeCorrect == Spec => []TypeOK
<1>1. QED
  BY InitialTypes, NextTypes, PTL DEF Spec
=============================================================================
