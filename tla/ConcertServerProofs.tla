------------------------ MODULE ConcertServerProofs ------------------------
(***************************************************************************)
(* The process over all its lives: what is promised about sales, saved     *)
(* seats and capacity holds however often the server is killed or stopped  *)
(* in the middle of requests and started again from its database.          *)
(***************************************************************************)
EXTENDS ConcertServer, AgreementProofs

-----------------------------------------------------------------------------
(* Kinds of steps *)

\* A step of the threads, whether the process serves or stops; while it is
\* down only the clock moves.
InMemory ==
    /\ [Next]_vars
    /\ phase' = "down" <=> phase = "down"
    /\ phase = "down" => Tick \/ UNCHANGED vars
    /\ phase' = "serving" => phase = "serving"
    /\ phase = "serving" /\ phase' # "serving" => UNCHANGED vars

LEMMA StepKinds ==
    ASSUME [ServerNext]_serverVars
    PROVE  \/ InMemory
           \/ StopSavesSeats \/ StopSavesSessions \/ ReleaseSession
           \/ ProcessEnds /\ phase # "down"
           \/ \E rank \in Ranks : Start(rank)
<1>1. ASSUME phase = "serving", Next, UNCHANGED shutdownVars PROVE InMemory
  BY <1>1 DEF InMemory, shutdownVars
<1>2. ASSUME NEW accepted \in SUBSET Threads, BeginStop(accepted) PROVE InMemory
  BY <1>2 DEF InMemory, BeginStop
<1>3. ASSUME phase \notin {"serving", "down"}, Next, phase' = phase PROVE InMemory
  BY <1>3 DEF InMemory
<1>4. ASSUME phase \notin {"serving", "down"}, StopNext
      PROVE  \/ InMemory
             \/ StopSavesSeats \/ StopSavesSessions \/ ReleaseSession
             \/ ProcessEnds /\ phase # "down"
  <2>1. CASE ListActive \/ \E x \in stop.todo : ReadSeatsToRelease(x)
    BY <1>4, <2>1 DEF ListActive, ReadSeatsToRelease, InMemory
  <2>2. ASSUME NEW t \in Threads, LastRequest(t) PROVE InMemory
    BY <1>3, <1>4, <2>2 DEF LastRequest, Next
  <2>3. CASE LastSweep
    BY <1>3, <1>4, <2>3 DEF LastSweep, Next, MonitorNext
  <2>4. CASE CarryOn
    BY <1>3, <1>4, <2>4 DEF CarryOn, Next, shutdownVars
  <2>5. CASE Exit
    BY <1>4, <2>5 DEF Exit
  <2>6. QED
    BY <1>4, <2>1, <2>2, <2>3, <2>4, <2>5 DEF StopNext
<1>5. ASSUME phase = "down", Tick, UNCHANGED shutdownVars PROVE InMemory
  BY <1>5 DEF InMemory, Next, shutdownVars
<1>6. ASSUME UNCHANGED serverVars PROVE InMemory
  BY <1>6 DEF serverVars, shutdownVars, InMemory
<1>7. QED
  BY <1>1, <1>2, <1>4, <1>5, <1>6 DEF ServerNext, Crash

-----------------------------------------------------------------------------
(* Starting: what is loaded *)

LEMMA ReleasedAreSeats == ReleasedByRows(Users) \in SUBSET Seats
  BY DEF ReleasedByRows

\* After loading, the slots of a section are its AVAILABLE seats, and those
\* released for expired rows once more: the semaphore was still full.
LEMMA SlotsLoaded ==
    ASSUME NEW sec \in Sections
    PROVE  /\ LoadedSlots(sec) = Cardinality(Available(LoadedSeats, sec))
                  + Cardinality(ReleasedByRows(Users) \cap SeatsOf(sec))
           /\ LoadedSlots(sec) \in Nat
<1> DEFINE A == Available(LoadedSeats, sec)
           S == SeatsOf(sec)
<1>1. A \in SUBSET Seats /\ S \in SUBSET Seats /\ S \cap A = A
  BY DEF Available, SeatsOf
<1>2. IsFiniteSet(S) /\ Cardinality(S) \in Nat /\ Cardinality(A) \in Nat
  BY <1>1, SeatsAreFinite
<1>3. Cardinality(ReleasedByRows(Users) \cap S) \in Nat
  BY ReleasedAreSeats, CountOfSection
<1> HIDE DEF A, S
<1>4. Cardinality(S \ A) = Cardinality(S) - Cardinality(A)
  BY <1>1, <1>2, FS_Difference
<1>5. LoadedSlots(sec) = Cardinality(S) + Cardinality(ReleasedByRows(Users) \cap S)
                             - Cardinality(S \ A)
  BY DEF LoadedSlots, Capacity, A, S
<1>6. LoadedSlots(sec) = Cardinality(A) + Cardinality(ReleasedByRows(Users) \cap S)
  BY <1>2, <1>3, <1>4, <1>5
<1>7. LoadedSlots(sec) \in Nat
  BY <1>2, <1>3, <1>6
<1>8. QED
  BY <1>6, <1>7 DEF A, S

LEMMA RestoredTypes ==
    ASSUME TypeOK, NEW u \in Users, NEW rank
    PROVE  /\ RestoredSession(u, rank) \in Session
           /\ RestoredSession(u, rank).id \in {0, dbSessions[u].id}
           /\ RestoredSession(u, rank).id = 0 =>
                  RestoredSession(u, rank).seats = NoSeats
<1>1. dbSessions[u] \in Row /\ NoSession \in Session
  BY SessionTypes DEF TypeOK
<1>2. CASE HasRow(u) /\ ~RowExpired(u) /\ ValidSeats(u, rank) # {}
  <2> DEFINE seats == [s \in Seats |-> IF s \in ValidSeats(u, rank) THEN 1 ELSE 0]
  <2>1. RestoredSession(u, rank)
            = [id |-> dbSessions[u].id, seats |-> seats, age |-> dbSessions[u].age]
    BY <1>2 DEF RestoredSession
  <2>2. seats \in [Seats -> Nat]
    OBVIOUS
  <2>3. dbSessions[u].id # 0
    BY <1>2 DEF HasRow
  <2> HIDE DEF seats
  <2>4. QED
    BY <1>1, <2>1, <2>2, <2>3 DEF Session, Row
<1>3. CASE ~(HasRow(u) /\ ~RowExpired(u) /\ ValidSeats(u, rank) # {})
  <2>1. RestoredSession(u, rank) = NoSession
    BY <1>3 DEF RestoredSession
  <2>2. QED
    BY <1>1, <2>1 DEF NoSession
<1>4. QED
  BY <1>2, <1>3

\* What start() makes of the matrix: sales are untouched, and an orphan is
\* given back.
LEMMA SeatsStarted ==
    ASSUME TypeOK, NEW rank \in Ranks, Start(rank), NEW s \in Seats
    PROVE  /\ seat'[s] \in SeatState
           /\ seat'[s] = "SOLD" <=> dbSeat[s] = "SOLD"
           /\ seat'[s] = "RESERVED" => \E u \in Users : sessions'[u].seats[s] > 0
<1> DEFINE restored == [u \in Users |-> RestoredSession(u, rank)]
<1>1. /\ seat'[s] = IF s \in Orphans(restored) THEN "AVAILABLE" ELSE LoadedSeats[s]
      /\ sessions' = restored
  BY DEF Start
<1>2. /\ LoadedSeats[s] \in SeatState
      /\ LoadedSeats[s] = "SOLD" <=> dbSeat[s] = "SOLD"
  BY DEF LoadedSeats, ReleasedByRows, TypeOK, SeatState
<1>3. \A u \in Users : restored[u].seats[s] \in Nat
  BY RestoredTypes DEF Session
<1> HIDE DEF restored
<1>4. s \in Orphans(restored) <=>
          LoadedSeats[s] = "RESERVED" /\ \A u \in Users : restored[u].seats[s] = 0
  BY DEF Orphans
<1>5. QED
  BY <1>1, <1>2, <1>3, <1>4 DEF SeatState

\* The orphans' slots are given back as well.
LEMMA SlotsStarted ==
    ASSUME TypeOK, NEW rank \in Ranks, Start(rank), NEW sec \in Sections
    PROVE  /\ sem'[sec] \in Nat
           /\ sem'[sec] >= Cardinality(Available(seat', sec))
<1> DEFINE O == Orphans([u \in Users |-> RestoredSession(u, rank)])
           A == Available(LoadedSeats, sec)
           B == O \cap SeatsOf(sec)
<1>1. O \in SUBSET Seats /\ A \in SUBSET Seats
  BY DEF Orphans, Available, SeatsOf
<1>2. Available(seat', sec) = A \cup B
  <2>1. seat' = [s \in Seats |-> IF s \in O THEN "AVAILABLE" ELSE LoadedSeats[s]]
    BY DEF Start
  <2> HIDE DEF O
  <2>2. QED
    BY <2>1 DEF Available, SeatsOf
<1>3. sem'[sec] = LoadedSlots(sec) + Cardinality(B)
  BY DEF Start
<1>4. /\ IsFiniteSet(A) /\ Cardinality(A) \in Nat
      /\ IsFiniteSet(B) /\ Cardinality(B) \in Nat
      /\ Cardinality(ReleasedByRows(Users) \cap SeatsOf(sec)) \in Nat
  BY <1>1, SeatsAreFinite, CountOfSection, ReleasedAreSeats
<1>5. /\ LoadedSlots(sec) = Cardinality(A)
             + Cardinality(ReleasedByRows(Users) \cap SeatsOf(sec))
      /\ LoadedSlots(sec) \in Nat
  BY SlotsLoaded
<1>6. Available(LoadedSeats, sec) \cap Orphans([u \in Users |-> RestoredSession(u, rank)]) = {}
  BY DEF Available, Orphans
<1> HIDE DEF A, B, O
<1>7. A \cap B = {}
  BY <1>6 DEF A, B, O
<1>8. Cardinality(A \cup B) = Cardinality(A) + Cardinality(B) - Cardinality(A \cap B)
  BY <1>4, FS_Union
<1>9. Cardinality(A \cap B) = 0
  BY <1>7, FS_EmptySet
<1>10. Cardinality(A \cup B) = Cardinality(A) + Cardinality(B)
  BY <1>4, <1>8, <1>9
<1>11. QED
  BY <1>2, <1>3, <1>4, <1>5, <1>10

-----------------------------------------------------------------------------
(* Types *)

LEMMA CapacityType == \A sec \in Sections : Capacity(sec) \in Nat
<1>1. \A sec \in Sections : SeatsOf(sec) \in SUBSET Seats
  BY DEF SeatsOf
<1>2. QED
  BY <1>1, SeatsAreFinite DEF Capacity

\* What _release_all_sessions does to the seats of one session.
LEMMA SeatsReleased ==
    ASSUME TypeOK, stop \in Stopping, ReleaseSession
    PROVE  /\ \A t \in Threads : thread[t].pc # "sell"
           /\ sessions' = sessions \/ sessions' = RemoveSession(stop.target.user)
           /\ \/ seat' = seat /\ sem' = sem
              \/ \E S \in SUBSET Seats :
                     /\ \A s \in S : seat[s] = "RESERVED"
                     /\ seat' = SetSeats(S, "AVAILABLE")
                     /\ sem' = ReleaseSlots([sec \in Sections |->
                                                 Cardinality(S \cap SeatsOf(sec))])
<1> DEFINE S == {s \in stop.snapshot : seat[s] = "RESERVED"}
<1>1. \A t \in Threads : thread[t].pc # "sell"
  BY NoSaleWhenFree DEF ReleaseSession
<1>2. S \in SUBSET Seats /\ \A s \in S : seat[s] = "RESERVED"
  BY DEF Stopping
<1>3. CASE OwnsSession(stop.target.user, stop.target.id)
  <2>1. /\ seat' = SetSeats(S, "AVAILABLE")
        /\ sem' = ReleaseSlots([sec \in Sections |-> Cardinality(S \cap SeatsOf(sec))])
        /\ sessions' = RemoveSession(stop.target.user)
    BY <1>3 DEF ReleaseSession
  <2> HIDE DEF S
  <2>2. QED
    BY <1>1, <1>2, <2>1
<1>4. CASE ~OwnsSession(stop.target.user, stop.target.id)
  BY <1>1, <1>4 DEF ReleaseSession, seatVars
<1>5. QED
  BY <1>3, <1>4

LEMMA StopTypes ==
    ASSUME ServerTypeOK, StopSavesSeats \/ StopSavesSessions \/ ReleaseSession
    PROVE  TypeOK'
<1>1. TypeOK /\ stop \in Stopping
  BY DEF ServerTypeOK
<1>2. CASE StopSavesSeats
  BY <1>1, <1>2 DEF StopSavesSeats, SaveAllSeats, TypeOK, seatVars, noticeVars
<1>3. CASE StopSavesSessions
  <2>1. dbSessions' \in [Users -> Row]
    BY <1>1, <1>3, RowTypes DEF StopSavesSessions
  <2>2. QED
    BY <1>1, <1>3, <2>1 DEF StopSavesSessions, TypeOK, seatVars, noticeVars
<1>4. CASE ReleaseSession
  <2>1. sessions' \in [Users -> Session]
    BY <1>1, <1>4, SeatsReleased, SessionTypes DEF TypeOK
  <2>2. seat' \in [Seats -> SeatState] /\ sem' \in [Sections -> Nat]
    <3>1. CASE seat' = seat /\ sem' = sem
      BY <1>1, <3>1 DEF TypeOK
    <3>2. ASSUME NEW S \in SUBSET Seats, seat' = SetSeats(S, "AVAILABLE"),
                 sem' = ReleaseSlots([sec \in Sections |->
                                          Cardinality(S \cap SeatsOf(sec))])
          PROVE  seat' \in [Seats -> SeatState] /\ sem' \in [Sections -> Nat]
      <4>1. [sec \in Sections |-> Cardinality(S \cap SeatsOf(sec))] \in [Sections -> Nat]
        BY CountOfSection
      <4>2. sem' \in [Sections -> Nat]
        BY <1>1, <3>2, <4>1, SlotTypes
      <4>3. "AVAILABLE" \in SeatState
        BY DEF SeatState
      <4>4. seat' \in [Seats -> SeatState]
        BY <1>1, <3>2, <4>3, SetSeatsType
      <4>5. QED
        BY <4>2, <4>4
    <3>3. QED
      BY <1>1, <1>4, <3>1, <3>2, SeatsReleased
  <2>3. QED
    BY <1>1, <1>4, <2>1, <2>2 DEF ReleaseSession, TypeOK, dbVars, noticeVars
<1>5. QED
  BY <1>2, <1>3, <1>4

LEMMA EndTypes == ASSUME TypeOK, ProcessEnds PROVE TypeOK'
<1>1. NoSession \in Session
  BY SessionTypes
<1>2. Idle \in Request /\ Asleep \in Monitor
  BY BoundsAssumption
     DEF Idle, Request, ThreadPc, Asleep, Monitor, MonitorPc, NoTarget, Target
<1>3. tickets' \in [counter : Nat, jobs : SUBSET Ticket, files : SUBSET Ticket]
  BY DEF ProcessEnds, TypeOK
<1>4. /\ seat' \in [Seats -> SeatState] /\ sem' \in [Sections -> Nat]
      /\ inbox' \in [Subscribers -> SUBSET NotificationType]
      /\ sectionFull' \in [Sections -> BOOLEAN]
  BY CapacityType DEF ProcessEnds, SeatState
<1>5. QED
  BY <1>1, <1>2, <1>3, <1>4 DEF ProcessEnds, TypeOK, dbVars

LEMMA StartTypes == ASSUME TypeOK, NEW rank \in Ranks, Start(rank) PROVE TypeOK'
<1>1. seat' \in [Seats -> SeatState]
  BY SeatsStarted DEF Start
<1>2. sem' \in [Sections -> Nat]
  BY SlotsStarted DEF Start
<1>3. sessions' \in [Users -> Session]
  BY RestoredTypes DEF Start
<1>4. QED
  BY <1>1, <1>2, <1>3 DEF Start, TypeOK, dbVars, noticeVars

LEMMA PhaseTypes ==
    ASSUME ServerTypeOK, [ServerNext]_serverVars
    PROVE  phase' \in Phase /\ stop' \in Stopping /\ ends' \in 0 .. MaxEnds
<1>1. TypeOK /\ phase \in Phase /\ stop \in Stopping /\ ends \in 0 .. MaxEnds
  BY DEF ServerTypeOK
<1>2. NotStopping \in Stopping /\ NoTarget \in Target
  BY DEF NotStopping, Stopping, NoTarget, Target
<1>3. ends' \in 0 .. MaxEnds
  BY <1>1, EndsAssumption DEF ServerNext, Crash, Start, serverVars
<1>4. phase' \in Phase
  BY <1>1 DEF ServerNext, StopNext, Crash, BeginStop, Start, StopSavesSeats,
     StopSavesSessions, ListActive, ReadSeatsToRelease, ReleaseSession, LastRequest,
     LastSweep, CarryOn, Exit, ProcessEnds, shutdownVars, serverVars, Phase
<1> SUFFICES stop' \in Stopping
  BY <1>3, <1>4
<1>5. CASE \/ StopSavesSeats \/ StopSavesSessions \/ ReleaseSession \/ LastSweep
           \/ \E t \in Threads : LastRequest(t)
           \/ \E accepted \in SUBSET Threads : BeginStop(accepted)
  BY <1>1, <1>2, <1>5 DEF StopSavesSeats, StopSavesSessions, ReleaseSession, LastSweep,
     LastRequest, BeginStop, Stopping, NotStopping
<1>6. CASE ListActive
  <2>1. {[user |-> u, id |-> sessions[u].id] : u \in {v \in Users : HasSession(v)}}
            \in SUBSET Target
    BY <1>1 DEF TypeOK, Session, Target
  <2>2. QED
    BY <1>1, <1>6, <2>1 DEF ListActive, Stopping
<1>7. ASSUME NEW x \in stop.todo, ReadSeatsToRelease(x) PROVE stop' \in Stopping
  <2>1. x \in Target /\ stop.todo \ {x} \in SUBSET Target
    BY <1>1 DEF Stopping
  <2>2. (IF OwnsSession(x.user, x.id) THEN Listed(x.user) ELSE {}) \in SUBSET Seats
    BY DEF Listed
  <2>3. QED
    BY <1>1, <1>7, <2>1, <2>2 DEF ReadSeatsToRelease, Stopping
<1>8. CASE ProcessEnds \/ \E rank \in Ranks : Start(rank)
  BY <1>1, <1>2, <1>8 DEF ProcessEnds, Start
<1>9. CASE stop' = stop
  BY <1>1, <1>9
<1>10. QED
  BY <1>5, <1>6, <1>7, <1>8, <1>9
     DEF ServerNext, StopNext, Crash, Exit, CarryOn, shutdownVars, serverVars

LEMMA ServerTypesInit == ServerInit => ServerTypeOK
  BY InitialTypes, EndsAssumption
     DEF ServerInit, ServerTypeOK, Phase, NotStopping, Stopping, NoTarget, Target

LEMMA ServerTypesStep == ServerTypeOK /\ [ServerNext]_serverVars => ServerTypeOK'
<1> SUFFICES ASSUME ServerTypeOK, [ServerNext]_serverVars PROVE TypeOK'
  BY PhaseTypes DEF ServerTypeOK
<1>1. CASE InMemory
  BY <1>1, NextTypes DEF InMemory, ServerTypeOK
<1>2. CASE StopSavesSeats \/ StopSavesSessions \/ ReleaseSession
  BY <1>2, StopTypes
<1>3. CASE ProcessEnds
  BY <1>3, EndTypes DEF ServerTypeOK
<1>4. ASSUME NEW rank \in Ranks, Start(rank) PROVE TypeOK'
  BY <1>4, StartTypes DEF ServerTypeOK
<1>5. QED
  BY <1>1, <1>2, <1>3, <1>4, StepKinds

\* Every variable has its type throughout all lives of the process: loading
\* restores well-formed sessions, and as many slots as a Semaphore can hold.
THEOREM ServerTypeCorrect == ServerSpec => []ServerTypeOK
  BY ServerTypesInit, ServerTypesStep, PTL DEF ServerSpec

-----------------------------------------------------------------------------
(* Sales: between memory, the database and the buyer's record, across the   *)
(* ends of the process                                                      *)

DownIsIdle ==
    phase = "down" => mon = Asleep /\ \A t \in Threads : thread[t] = Idle

\* While the process lives, what the database shows SOLD is SOLD.
MemoryKnowsSales == phase # "down" => SavedSoldIsSold

ServerInv ==
    /\ ServerTypeOK /\ SaleInv /\ DownIsIdle /\ MemoryKnowsSales /\ SoldSeatsAreSaved

\* A saved sale stays saved, and its buyer the same once he is recorded.
SavedSaleStays(s) ==
    dbSeat[s] = "SOLD" =>
        dbSeat'[s] = "SOLD" /\ (s \in Recording \/ dbPurchased'[s] = dbPurchased[s])

LEMMA IdleStays ==
    ASSUME DownIsIdle, InMemory
    PROVE  /\ DownIsIdle'
           /\ phase = "down" =>
                  UNCHANGED <<seatVars, thread, dbSeat, dbPurchased, lastId>>
<1>1. CASE phase = "down"
  BY <1>1 DEF InMemory, DownIsIdle, Tick, Asleep, vars, seatVars
<1>2. CASE phase # "down"
  BY <1>2 DEF InMemory, DownIsIdle
<1>3. QED
  BY <1>1, <1>2

\* A step of the threads.
LEMMA SalesInMemory ==
    ASSUME ServerInv, InMemory
    PROVE  /\ MemoryKnowsSales' /\ SoldSeatsAreSaved'
           /\ \A s \in Seats : SavedSaleStays(s)
<1>1. SaleInv /\ DownIsIdle /\ [Next]_vars
  BY DEF ServerInv, InMemory
<1>2. CASE phase = "down"
  <2>1. UNCHANGED <<seatVars, thread, dbSeat, dbPurchased, lastId>>
    BY <1>1, <1>2, IdleStays
  <2>2. phase' = "down"
    BY <1>2 DEF InMemory
  <2>3. QED
    BY <2>1, <2>2 DEF ServerInv, MemoryKnowsSales, SavedSaleStays, SoldSeatsAreSaved,
                      seatVars
<1>3. CASE phase # "down"
  <2>1. SavedSoldIsSold
    BY <1>3 DEF ServerInv, MemoryKnowsSales
  <2>2. SavedSoldIsSold'
    BY <1>1, <2>1, SavedSoldStaysSold
  <2>3. \A s \in Seats : SeatStep(s)
    BY <1>1, SeatSteps
  <2>4. ASSUME NEW s \in Seats PROVE SavedSaleStays(s)
    <3>1. dbSeat[s] = "SOLD" => seat[s] = "SOLD" /\ seat'[s] = "SOLD"
      BY <2>1, <2>3 DEF SavedSoldIsSold, SeatStep
    <3>2. dbSeat[s] = "SOLD" => dbSeat'[s] = "SOLD"
      BY <1>1, <3>1, SeatsSaved
    <3>3. seat[s] = "SOLD" => s \in Recording \/ dbPurchased'[s] = dbPurchased[s]
      BY <2>3 DEF SeatStep, Recording
    <3>4. QED
      BY <3>1, <3>2, <3>3 DEF SavedSaleStays
  <2>5. ASSUME NEW s \in Seats, seat'[s] = "SOLD", dbSeat'[s] # "SOLD"
        PROVE  \E t \in Threads : thread'[t].pc = "sell" /\ s \notin thread'[t].seats
    <3>1. dbSeat' = dbSeat
      BY <1>1, <2>5, SeatsSaved
    <3>2. CASE seat[s] = "SOLD"
      <4>1. PICK t \in Threads : thread[t].pc = "sell" /\ s \notin thread[t].seats
        BY <2>5, <3>1, <3>2 DEF ServerInv, SoldSeatsAreSaved
      <4>2. ~CommitSale(t)
        BY <2>5 DEF CommitSale, SaveAllSeats, seatVars
      <4>3. QED
        BY <1>1, <4>1, <4>2, SaleGoesOnOrEnds DEF SaleGoesOn
    <3>3. CASE seat[s] # "SOLD"
      <4>1. PICK t \in Threads : SellSeat(t, s)
        BY <2>3, <2>5, <3>3 DEF SeatStep
      <4>2. QED
        BY <1>1, <4>1 DEF SellSeat, SaleInv, TypeOK, Request
    <3>4. QED
      BY <3>2, <3>3
  <2>6. QED
    BY <2>2, <2>4, <2>5 DEF MemoryKnowsSales, SoldSeatsAreSaved
<1>4. QED
  BY <1>2, <1>3

\* A step of stop(): its own save of the matrix may catch half a sale, and a
\* seat whose buyer is still to be recorded.
LEMMA SalesInStop ==
    ASSUME ServerInv, TypeOK', StopSavesSeats \/ StopSavesSessions \/ ReleaseSession
    PROVE  /\ SaleInv' /\ DownIsIdle' /\ MemoryKnowsSales' /\ SoldSeatsAreSaved'
           /\ \A s \in Seats : SavedSaleStays(s)
<1>1. /\ TypeOK /\ SaleInv /\ stop \in Stopping /\ phase # "down" /\ phase' # "down"
      /\ thread' = thread /\ dbPurchased' = dbPurchased
  BY DEF ServerInv, ServerTypeOK, StopSavesSeats, StopSavesSessions, ReleaseSession,
         dbVars
<1>2. SavedSoldIsSold
  BY <1>1 DEF ServerInv, MemoryKnowsSales
<1>3. \A s \in Seats : seat[s] = "SOLD" <=> seat'[s] = "SOLD"
  BY <1>1, SeatsReleased DEF StopSavesSeats, StopSavesSessions, seatVars, SetSeats
<1>4. dbSeat' = dbSeat \/ dbSeat' = seat
  BY DEF StopSavesSeats, StopSavesSessions, ReleaseSession, SaveAllSeats, dbVars
<1>5. SaleInv'
  <2>1. CASE seat' = seat /\ sessions' = sessions
    BY <1>1, <2>1 DEF SaleInv, ServingUsers, NoSessionIsEmpty, SaleIsAlone,
                      SaleHoldsSeats, SaleSells, SaleRecords
  <2>2. CASE ReleaseSession
    <3>1. \A t \in Threads : thread[t].pc # "sell"
      BY <1>1, <2>2, SeatsReleased
    <3>2. NoSessionIsEmpty'
      <4>1. sessions' = sessions \/ sessions' = RemoveSession(stop.target.user)
        BY <1>1, <2>2, SeatsReleased
      <4>2. QED
        BY <1>1, <4>1 DEF SaleInv, RemoveSession, NoSessionIsEmpty, NoSession, TypeOK
    <3>3. SaleRecords'
      BY <1>1, <3>1, NothingToRecord, RecordsStay
    <3>4. QED
      BY <1>1, <3>1, <3>2, <3>3 DEF SaleInv, ServingUsers, SaleIsAlone, SaleHoldsSeats,
                                    SaleSells
  <2>3. QED
    BY <2>1, <2>2 DEF StopSavesSeats, StopSavesSessions, seatVars
<1>6. QED
  BY <1>1, <1>2, <1>3, <1>4, <1>5
     DEF ServerInv, DownIsIdle, MemoryKnowsSales, SavedSoldIsSold, SavedSaleStays,
         SoldSeatsAreSaved

\* The end of the process: the database is all that is left.
LEMMA SalesAtEnd ==
    ASSUME ServerInv, TypeOK', ProcessEnds
    PROVE  SaleInv' /\ DownIsIdle' /\ MemoryKnowsSales' /\ SoldSeatsAreSaved'
<1>1. \A t \in Threads : thread'[t] = Idle
  BY DEF ProcessEnds
<1>2. SaleInv'
  BY <1>1 DEF ProcessEnds, SaleInv, ServingUsers, NoSessionIsEmpty, NoSession,
              SaleIsAlone, SaleHoldsSeats, SaleSells, SaleRecords, Idle
<1>3. QED
  BY <1>1, <1>2 DEF ProcessEnds, ServerInv, DownIsIdle, MemoryKnowsSales,
     SoldSeatsAreSaved, dbVars

\* A start: whatever the rows of the sessions say, what was sold is SOLD.
LEMMA SalesAtStart ==
    ASSUME ServerInv, TypeOK', NEW rank \in Ranks, Start(rank)
    PROVE  SaleInv' /\ DownIsIdle' /\ MemoryKnowsSales' /\ SoldSeatsAreSaved'
<1>1. TypeOK /\ phase' = "serving" /\ \A t \in Threads : thread'[t] = Idle
  BY DEF Start, ServerInv, ServerTypeOK, DownIsIdle
<1>2. \A s \in Seats : seat'[s] = "SOLD" <=> dbSeat[s] = "SOLD"
  BY <1>1, SeatsStarted
<1>3. NoSessionIsEmpty'
  BY <1>1, RestoredTypes DEF Start, NoSessionIsEmpty
<1>4. SaleInv'
  BY <1>1, <1>3 DEF SaleInv, ServingUsers, SaleIsAlone, SaleHoldsSeats, SaleSells,
                    SaleRecords, Idle
<1>5. dbSeat' = dbSeat
  BY DEF Start, dbVars
<1>6. QED
  BY <1>1, <1>2, <1>4, <1>5 DEF ServerInv, DownIsIdle, MemoryKnowsSales,
     SavedSoldIsSold, SoldSeatsAreSaved

LEMMA ServerInvInit == ServerInit => ServerInv
<1> SUFFICES ASSUME ServerInit PROVE ServerInv
  OBVIOUS
<1>1. ServerTypeOK /\ SaleInv /\ phase = "serving"
  BY ServerTypesInit, SaleInvInit DEF ServerInit
<1>2. \A s \in Seats : seat[s] = "AVAILABLE" /\ dbSeat[s] = "AVAILABLE"
  BY DEF ServerInit, Init
<1>3. QED
  BY <1>1, <1>2 DEF ServerInv, DownIsIdle, MemoryKnowsSales, SavedSoldIsSold,
                    SoldSeatsAreSaved

LEMMA ServerInvStep == ServerInv /\ [ServerNext]_serverVars => ServerInv'
<1> SUFFICES ASSUME ServerInv, [ServerNext]_serverVars PROVE ServerInv'
  OBVIOUS
<1>1. ServerTypeOK' /\ TypeOK'
  BY ServerTypesStep DEF ServerInv, ServerTypeOK
<1>2. CASE InMemory
  <2>1. SaleInv' /\ DownIsIdle'
    BY <1>2, SaleInvStep, IdleStays DEF ServerInv, InMemory
  <2>2. QED
    BY <1>1, <1>2, <2>1, SalesInMemory DEF ServerInv
<1>3. CASE StopSavesSeats \/ StopSavesSessions \/ ReleaseSession
  BY <1>1, <1>3, SalesInStop DEF ServerInv
<1>4. CASE ProcessEnds
  BY <1>1, <1>4, SalesAtEnd DEF ServerInv
<1>5. ASSUME NEW rank \in Ranks, Start(rank) PROVE ServerInv'
  BY <1>1, <1>5, SalesAtStart DEF ServerInv
<1>6. QED
  BY <1>2, <1>3, <1>4, <1>5, StepKinds

LEMMA ServerInvHolds == ServerSpec => []ServerInv
  BY ServerInvInit, ServerInvStep, PTL DEF ServerSpec

\* A seat is SOLD in memory and not in the database only inside CONFIRM: a sale
\* that was answered with SUCCESS survives the end of the process.
THEOREM SalesAreSaved == ServerSpec => []SoldSeatsAreSaved
  BY ServerInvHolds, PTL DEF ServerInv

\* Once a sale is in the database it is final: no save by a later life of the
\* process takes it back, and nobody else gets it; where stop() has saved it
\* before its buyer, only the CONFIRM that sells it may add the buyer.
THEOREM SavedSalesAreFinal == ServerSpec => SavedSaleIsFinal
<1>1. ServerInv /\ [ServerNext]_serverVars =>
          [\A s \in Seats : dbSeat[s] = "SOLD" =>
               /\ dbSeat'[s] = "SOLD"
               /\ s \in Recording \/ dbPurchased'[s] = dbPurchased[s]]_serverVars
  <2> SUFFICES ASSUME ServerInv, [ServerNext]_serverVars, NEW s \in Seats
               PROVE  SavedSaleStays(s)
    BY DEF SavedSaleStays
  <2>1. CASE InMemory
    BY <2>1, SalesInMemory
  <2>2. CASE StopSavesSeats \/ StopSavesSessions \/ ReleaseSession
    BY <2>2, ServerTypesStep, SalesInStop DEF ServerInv, ServerTypeOK
  <2>3. CASE ProcessEnds \/ \E rank \in Ranks : Start(rank)
    BY <2>3 DEF ProcessEnds, Start, dbVars, SavedSaleStays
  <2>4. QED
    BY <2>1, <2>2, <2>3, StepKinds
<1>2. QED
  BY <1>1, ServerInvHolds, PTL DEF ServerSpec, SavedSaleIsFinal

\* A process that was stopped, not killed, has saved every sale it made, those
\* of the handlers stop() found half way included.
THEOREM StopSavesAllSales == ServerSpec => StopSavesEverySale
<1>1. ServerInv /\ [ServerNext]_serverVars =>
          [Exit => \A s \in Seats : (seat[s] = "SOLD" <=> dbSeat[s] = "SOLD")]_serverVars
  <2> SUFFICES ASSUME ServerInv, Exit, NEW s \in Seats
               PROVE  seat[s] = "SOLD" <=> dbSeat[s] = "SOLD"
    OBVIOUS
  <2>1. phase # "down" /\ \A t \in Threads : thread[t].pc = "idle"
    BY DEF Exit, StopDone
  <2>2. QED
    BY <2>1 DEF ServerInv, MemoryKnowsSales, SavedSoldIsSold, SoldSeatsAreSaved
<1>2. QED
  BY <1>1, ServerInvHolds, PTL DEF ServerSpec, StopSavesEverySale

-----------------------------------------------------------------------------
(* Capacity, across the ends of the process *)

LEMMA CapacityInStep ==
    ServerInv /\ NoSlotIsLost /\ [ServerNext]_serverVars => NoSlotIsLost'
<1> SUFFICES ASSUME ServerInv, NoSlotIsLost, [ServerNext]_serverVars,
                    NEW sec \in Sections
             PROVE  sem'[sec] >= Cardinality(Available(seat, sec)')
  BY DEF NoSlotIsLost, Available, SeatsOf
<1>1. TypeOK /\ SaleInv /\ stop \in Stopping /\ TypeOK'
  BY ServerTypesStep DEF ServerInv, ServerTypeOK
<1>2. /\ sem[sec] \in Nat /\ Cardinality(Available(seat, sec)) \in Nat
      /\ sem[sec] >= Cardinality(Available(seat, sec))
  BY <1>1, AvailableCount DEF TypeOK, NoSlotIsLost
<1>3. Available(seat, sec)' = Available(seat', sec)
  BY DEF Available, SeatsOf
<1>4. CASE InMemory
  <2>1. NoSlotIsLost'
    BY <1>1, <1>4, SlotsNotLostInStep DEF InMemory
  <2>2. QED
    BY <2>1 DEF NoSlotIsLost
<1>5. CASE seat' = seat /\ sem' = sem
  BY <1>2, <1>3, <1>5
<1>6. ASSUME NEW S \in SUBSET Seats, \A s \in S : seat[s] = "RESERVED",
             seat' = SetSeats(S, "AVAILABLE"),
             sem' = ReleaseSlots([x \in Sections |-> Cardinality(S \cap SeatsOf(x))])
      PROVE  sem'[sec] >= Cardinality(Available(seat, sec)')
  <2>1. sem'[sec] = sem[sec] + Cardinality(S \cap SeatsOf(sec))
    BY <1>6 DEF ReleaseSlots
  <2>2. Cardinality(Available(seat', sec))
            = Cardinality(Available(seat, sec)) + Cardinality(S \cap SeatsOf(sec))
    BY <1>6, CountGivenBack
  <2>3. Cardinality(S \cap SeatsOf(sec)) \in Nat
    BY <1>6, CountOfSection
  <2>4. QED
    BY <1>2, <1>3, <2>1, <2>2, <2>3
<1>7. CASE ReleaseSession
  BY <1>1, <1>5, <1>6, <1>7, SeatsReleased
<1>8. CASE StopSavesSeats \/ StopSavesSessions
  BY <1>5, <1>8 DEF StopSavesSeats, StopSavesSessions, seatVars
<1>9. CASE ProcessEnds
  <2>1. Available(seat', sec) = SeatsOf(sec) /\ sem'[sec] = Capacity(sec)
    BY <1>9 DEF ProcessEnds, Available, SeatsOf
  <2>2. Cardinality(SeatsOf(sec)) \in Nat
    BY CapacityType DEF Capacity
  <2>3. QED
    BY <1>3, <2>1, <2>2 DEF Capacity
<1>10. ASSUME NEW rank \in Ranks, Start(rank)
       PROVE  sem'[sec] >= Cardinality(Available(seat, sec)')
  BY <1>1, <1>3, <1>10, SlotsStarted
<1>11. QED
  BY <1>4, <1>7, <1>8, <1>9, <1>10, StepKinds

\* No capacity is lost across restarts either: start() releases at least one
\* slot for each seat it makes AVAILABLE, in whatever order it reads the rows.
THEOREM CapacityIsKeptAcrossRestarts == ServerSpec => []NoSlotIsLost
<1>1. ASSUME ServerInit PROVE NoSlotIsLost
  <2>1. \A sec \in Sections : Cardinality(Available(seat, sec)) \in Nat
    BY AvailableCount
  <2>2. QED
    BY <1>1, <2>1, SlotsAtStart DEF ServerInit, NoSlotIsLost
<1>2. QED
  BY <1>1, CapacityInStep, ServerInvHolds, PTL DEF ServerSpec

-----------------------------------------------------------------------------
(* No reserved seat is lost sight of, whatever the server was started from *)

\* The rows the next life will read bear ids that were issued.
RowsAreOld == \A u \in Users : dbSessions[u].id <= lastId

ServedInv ==
    /\ ServerInv /\ MonitorInv /\ RowsAreOld
    /\ phase = "serving" => ReachInv

LEMMA RowsStayOld ==
    ASSUME ServedInv, InMemory
    PROVE  RowsAreOld'
<1>1. /\ MonitorInv /\ SaleInv /\ TypeOK /\ [Next]_vars /\ TypeOK'
  BY NextTypes DEF ServedInv, MonitorInv, SaleInv, InMemory
<1>2. lastId \in Nat /\ lastId' \in Nat /\ lastId <= lastId'
  BY <1>1, SessionIdsStep DEF SessionIdsMove
<1>3. \A u \in Users : dbSessions[u].id \in Nat /\ sessions[u].id \in Nat
  BY <1>1 DEF TypeOK, Row, Session
<1>4. \A u \in Users : dbSessions'[u].id \in {dbSessions[u].id, sessions[u].id}
  BY <1>1, RowsInStep DEF SaveSessions, SaveAllSessions
<1>5. QED
  BY <1>1, <1>2, <1>3, <1>4 DEF ServedInv, RowsAreOld, MonitorInv, IdsAreOld

LEMMA ServedInMemory ==
    ASSUME MaxLockWait <= TTL, ServedInv, InMemory
    PROVE  MonitorInv' /\ RowsAreOld' /\ (phase' = "serving" => ReachInv')
  BY RowsStayOld, MonitorInvStep, ReachInvStep DEF ServedInv, InMemory

\* stop() only takes sessions away, and what it saves bears their ids.
LEMMA ServedInStop ==
    ASSUME ServedInv, ServerInv', StopSavesSeats \/ StopSavesSessions \/ ReleaseSession
    PROVE  MonitorInv' /\ RowsAreOld' /\ phase' # "serving"
<1>1. /\ TypeOK /\ stop \in Stopping /\ IdsAreOld /\ MonitorTargetsUsers
      /\ RowsAreOld /\ lastId \in Nat
  BY DEF ServedInv, ServerInv, ServerTypeOK, MonitorInv, TypeOK
<1>2. mon' = mon /\ lastId' = lastId /\ phase' # "serving"
  BY DEF StopSavesSeats, StopSavesSessions, ReleaseSession
<1>3. \A u \in Users : sessions'[u].id \in {0, sessions[u].id}
  BY <1>1, SeatsReleased
     DEF StopSavesSeats, StopSavesSessions, RemoveSession, NoSession, TypeOK
<1>4. \A u \in Users : dbSessions'[u].id \in {dbSessions[u].id, sessions[u].id}
  BY DEF StopSavesSeats, StopSavesSessions, ReleaseSession, SaveAllSessions, dbVars
<1>5. IdsAreOld' /\ RowsAreOld'
  BY <1>1, <1>2, <1>3, <1>4 DEF IdsAreOld, RowsAreOld
<1>6. QED
  BY <1>1, <1>2, <1>5 DEF MonitorInv, MonitorTargetsUsers, ServerInv

LEMMA ServedAtEnd ==
    ASSUME ServedInv, ServerInv', ProcessEnds
    PROVE  MonitorInv' /\ RowsAreOld' /\ phase' # "serving"
<1>1. lastId' = lastId /\ dbSessions' = dbSessions /\ lastId \in Nat /\ RowsAreOld
  BY DEF ProcessEnds, dbVars, ServedInv, ServerInv, ServerTypeOK, TypeOK
<1>2. IdsAreOld' /\ MonitorTargetsUsers'
  BY <1>1 DEF ProcessEnds, NoSession, Asleep, NoTarget, IdsAreOld, MonitorTargetsUsers
<1>3. QED
  BY <1>1, <1>2 DEF MonitorInv, ServerInv, RowsAreOld, ProcessEnds

\* A start restores old ids, and gives the seats that no session lists back.
LEMMA ServedAtStart ==
    ASSUME ServedInv, ServerInv', NEW rank \in Ranks, Start(rank)
    PROVE  MonitorInv' /\ RowsAreOld' /\ ReachInv'
<1>1. /\ TypeOK /\ mon = Asleep /\ mon' = mon /\ lastId' = lastId
      /\ dbSessions' = dbSessions /\ lastId \in Nat /\ RowsAreOld
  BY DEF Start, dbVars, ServedInv, ServerInv, ServerTypeOK, DownIsIdle, TypeOK
<1>2. \A u \in Users : sessions'[u].id \in {0, dbSessions[u].id}
  BY <1>1, RestoredTypes DEF Start
<1>3. IdsAreOld' /\ MonitorTargetsUsers'
  BY <1>1, <1>2 DEF RowsAreOld, IdsAreOld, MonitorTargetsUsers, Asleep, NoTarget
<1>4. ReservedSeatsAreListed'
  BY <1>1, SeatsStarted DEF ReservedSeatsAreListed, Listed
<1>5. SnapshotIsCurrent'
  BY <1>1 DEF SnapshotIsCurrent, Asleep
<1>6. QED
  BY <1>1, <1>3, <1>4, <1>5 DEF MonitorInv, ServerInv, ReachInv, RowsAreOld

\* No seat is stuck: while the server serves, each RESERVED seat is on the
\* list of a session that CONFIRM, CANCEL or the monitor can reach, whatever
\* log appends failed and whatever rows it was started from; provided that
\* locks are granted within a TTL.
THEOREM ServedSeatsStayListed ==
    ASSUME MaxLockWait <= TTL
    PROVE  ServerSpec => []ServedSeatsAreListed
<1>1. ASSUME ServerInit PROVE ServedInv
  <2>1. MonitorInv /\ ServerInv
    BY <1>1, MonitorInvInit, ServerInvInit DEF ServerInit
  <2>2. RowsAreOld
    BY <1>1 DEF ServerInit, Init, NoRow, RowsAreOld
  <2>3. SnapshotIsCurrent /\ ReservedSeatsAreListed
    BY <1>1 DEF ServerInit, Init, SnapshotIsCurrent, ReservedSeatsAreListed, Asleep
  <2>4. QED
    BY <2>1, <2>2, <2>3 DEF ServedInv, ReachInv
<1>2. ASSUME ServedInv, [ServerNext]_serverVars PROVE ServedInv'
  <2>1. ServerInv'
    BY <1>2, ServerInvStep DEF ServedInv
  <2>2. CASE InMemory
    BY <1>2, <2>1, <2>2, ServedInMemory DEF ServedInv
  <2>3. CASE StopSavesSeats \/ StopSavesSessions \/ ReleaseSession
    BY <1>2, <2>1, <2>3, ServedInStop DEF ServedInv
  <2>4. CASE ProcessEnds
    BY <1>2, <2>1, <2>4, ServedAtEnd DEF ServedInv
  <2>5. ASSUME NEW rank \in Ranks, Start(rank) PROVE ServedInv'
    BY <1>2, <2>1, <2>5, ServedAtStart DEF ServedInv
  <2>6. QED
    BY <1>2, <2>2, <2>3, <2>4, <2>5, StepKinds
<1>3. ServedInv => ServedSeatsAreListed
  BY DEF ServedInv, ReachInv, ServedSeatsAreListed
<1>4. QED
  BY <1>1, <1>2, <1>3, PTL DEF ServerSpec

-----------------------------------------------------------------------------
(* What lasts: the abstract sale, across every failure and restart *)

\* A seat that is SOLD in memory only is being sold by a CONFIRM, to a buyer
\* that is already recorded or is about to be.
UnsavedSalesAreOfTheSeller ==
    \A s \in Seats : seat[s] = "SOLD" /\ dbSeat[s] # "SOLD" =>
        \E t \in Threads :
            /\ thread[t].pc = "sell" /\ s \notin thread[t].seats
            /\ s \in thread[t].recording \/ dbPurchased[s] = thread[t].user

\* Only stop() saves a seat that is SOLD before its buyer.
LastingInv ==
    /\ ServerInv /\ UnsavedSalesAreOfTheSeller
    /\ phase = "serving" => SalesAreSavedWhole

\* The buyers still to be recorded are those of the one CONFIRM that sells.
LEMMA RecordingIsOne ==
    ASSUME SaleInv, NEW s \in Recording
    PROVE  /\ Recording = {s} /\ s \in Seats
           /\ \E t \in Threads : /\ thread[t].pc = "sell" /\ thread[t].recording = {s}
                                 /\ thread[t].user \in Users /\ s \in Listed(thread[t].user)
<1>1. PICK t \in Threads : s \in thread[t].recording
  BY DEF Recording
<1>2. /\ thread[t].pc = "sell" /\ thread[t].recording = {s} /\ s \in Seats
      /\ thread[t].user \in Users /\ s \in Listed(thread[t].user)
  BY <1>1 DEF SaleInv, SaleRecords, ServingUsers, TypeOK, Request, Listed
<1>3. ASSUME NEW x \in Threads, NEW z \in thread[x].recording PROVE z = s
  <2>1. thread[x].pc = "sell"
    BY <1>3 DEF SaleInv, SaleRecords
  <2>2. x = t
    BY <1>2, <2>1 DEF SaleInv, SaleIsAlone
  <2>3. QED
    BY <1>2, <1>3, <2>2
<1>4. Recording = {s}
  BY <1>1, <1>3 DEF Recording
<1>5. QED
  BY <1>2, <1>4

\* A buyer is to be recorded once his seat is sold.
LEMMA RecordingBegins ==
    ASSUME SaleInv, [Next]_vars, NEW s \in Recording', s \notin Recording
    PROVE  seat[s] = "RESERVED" /\ \E t \in Threads : SellSeat(t, s)
<1>1. PICK t \in Threads : s \in thread'[t].recording
  BY DEF Recording
<1>2. TypeOK /\ s \notin thread[t].recording
  BY DEF SaleInv, Recording
<1>3. ~ \E u \in Users : Receive(t, u)
  <2>1. ASSUME NEW u \in Users, NEW S \in SUBSET Seats, RequestReserve(t, u, S)
        PROVE  FALSE
    BY <1>1, <1>2, <2>1, ThreadAfterRequest
  <2>2. ASSUME NEW u \in Users, NEW id \in 1 .. lastId, ConfirmSession(t, u, id)
        PROVE  FALSE
    BY <1>1, <1>2, <2>2 DEF ConfirmSession, TypeOK, Idle
  <2>3. ASSUME NEW u \in Users, NEW id \in 1 .. lastId, CancelSession(t, u, id)
        PROVE  FALSE
    BY <1>1, <1>2, <2>3 DEF CancelSession
  <2>4. QED
    BY <2>1, <2>2, <2>3 DEF Receive
<1>4. Handle(t)
  BY <1>1, <1>2, <1>3, OneThreadSteps
<1>5. ASSUME ~ \E z \in Seats : SellSeat(t, z), ~RecordBuyer(t) PROVE FALSE
  <2>1. \/ Answer(t)
        \/ \E pc \in {"reserved", "saveSessions", "rollback", "sold"} : Goto(t, pc)
    BY <1>4, <1>5
       DEF Handle, ReserveSeats, RefuseReserve, SaveSeats, SaveSessions,
           ReserveLogFails, Rollback, CommitSale, AnnounceSale, SaleLogFails
  <2>2. QED
    BY <1>1, <1>2, <2>1, ThreadAfter
<1>6. ~RecordBuyer(t)
  BY <1>1, <1>2 DEF RecordBuyer, TypeOK, Request
<1>7. PICK z \in Seats : SellSeat(t, z)
  BY <1>5, <1>6
<1>8. z = s
  BY <1>1, <1>2, <1>7 DEF SellSeat, TypeOK, Request
<1>9. seat[s] = "RESERVED"
  BY <1>7, <1>8 DEF SellSeat, SaleInv, SaleHoldsSeats
<1>10. QED
  BY <1>7, <1>8, <1>9

\* A CONFIRM goes on until it commits: what it has sold remains its own.
LEMMA UnsavedSalesInMemory ==
    ASSUME LastingInv, InMemory, phase # "down"
    PROVE  UnsavedSalesAreOfTheSeller'
<1>1. /\ SaleInv /\ TypeOK /\ SaleIsAlone /\ SaleRecords /\ [Next]_vars
      /\ SavedSoldIsSold
  BY DEF LastingInv, ServerInv, SaleInv, MemoryKnowsSales, InMemory
<1> SUFFICES ASSUME NEW s \in Seats, seat'[s] = "SOLD", dbSeat'[s] # "SOLD"
             PROVE  \E t \in Threads :
                        /\ thread'[t].pc = "sell" /\ s \notin thread'[t].seats
                        /\ \/ s \in thread'[t].recording
                           \/ dbPurchased'[s] = thread'[t].user
  BY DEF UnsavedSalesAreOfTheSeller
<1>2. dbSeat' = dbSeat
  BY <1>1, SeatsSaved
<1>3. SeatStep(s)
  BY <1>1, SeatSteps
<1>4. CASE seat[s] = "SOLD"
  <2>1. PICK t \in Threads :
            /\ thread[t].pc = "sell" /\ s \notin thread[t].seats
            /\ s \in thread[t].recording \/ dbPurchased[s] = thread[t].user
    BY <1>2, <1>4 DEF LastingInv, UnsavedSalesAreOfTheSeller
  <2>2. ~CommitSale(t)
    BY <1>2, <1>4 DEF CommitSale, SaveAllSeats
  <2>3. /\ thread'[t].pc = "sell" /\ s \notin thread'[t].seats
        /\ thread'[t].user = thread[t].user
    BY <1>1, <2>1, <2>2, SaleGoesOnOrEnds DEF SaleGoesOn
  <2>4. CASE s \in thread[t].recording
    <3>1. RecordBuyer(t) => dbPurchased'[s] = thread[t].user
      BY <2>4 DEF RecordBuyer
    <3>2. QED
      BY <1>1, <2>3, <2>4, <3>1, BuyerIsRecorded
  <2>5. CASE dbPurchased[s] = thread[t].user
    <3>1. ASSUME NEW x \in Threads, s \in thread[x].recording PROVE x = t
      BY <1>1, <2>1, <3>1 DEF SaleRecords, SaleIsAlone
    <3>2. dbPurchased'[s] = thread[t].user
      BY <1>3, <1>4, <2>5, <3>1 DEF SeatStep
    <3>3. QED
      BY <2>3, <3>2
  <2>6. QED
    BY <2>1, <2>4, <2>5
<1>5. CASE seat[s] # "SOLD"
  <2>1. PICK t \in Threads : SellSeat(t, s)
    BY <1>3, <1>5 DEF SeatStep
  <2>2. QED
    BY <1>1, <2>1 DEF SellSeat, TypeOK, Request
<1>6. QED
  BY <1>4, <1>5

LEMMA LastingInvInit == ServerInit => LastingInv
<1> SUFFICES ASSUME ServerInit PROVE LastingInv
  OBVIOUS
<1>1. /\ \A s \in Seats : seat[s] = "AVAILABLE"
      /\ \A t \in Threads : thread[t].pc # "sell"
  BY DEF ServerInit, Init, Idle
<1>2. QED
  BY <1>1, ServerInvInit DEF LastingInv, UnsavedSalesAreOfTheSeller, SalesAreSavedWhole

LEMMA LastingInvStep == LastingInv /\ [ServerNext]_serverVars => LastingInv'
<1> SUFFICES ASSUME LastingInv, [ServerNext]_serverVars
             PROVE  /\ UnsavedSalesAreOfTheSeller'
                    /\ phase' = "serving" => SalesAreSavedWhole'
  BY ServerInvStep DEF LastingInv
<1>1. ServerInv /\ TypeOK /\ stop \in Stopping
  BY DEF LastingInv, ServerInv, ServerTypeOK
<1>2. ASSUME \A s \in Seats : seat'[s] = "SOLD" => seat[s] = "SOLD",
             \A s \in Seats : dbSeat'[s] = dbSeat[s] \/ dbSeat'[s] = seat'[s],
             thread' = thread, dbPurchased' = dbPurchased
      PROVE  UnsavedSalesAreOfTheSeller'
  BY <1>2 DEF LastingInv, UnsavedSalesAreOfTheSeller
<1>3. CASE InMemory /\ phase # "down"
  <2>1. ASSUME phase' = "serving" PROVE SalesAreSavedWhole'
    <3>1. phase = "serving" /\ SaleInv /\ SavedSoldIsSold /\ [Next]_vars
      BY <1>1, <1>3, <2>1 DEF InMemory, ServerInv, MemoryKnowsSales
    <3>2. QED
      BY <3>1, SaleUnsavedInStep DEF LastingInv
  <2>2. QED
    BY <1>3, <2>1, UnsavedSalesInMemory
<1>4. CASE InMemory /\ phase = "down"
  BY <1>1, <1>2, <1>4, IdleStays DEF InMemory, ServerInv, seatVars
<1>5. CASE StopSavesSeats \/ StopSavesSessions
  BY <1>2, <1>5 DEF StopSavesSeats, StopSavesSessions, SaveAllSeats, seatVars
<1>6. CASE ReleaseSession
  <2>1. \A s \in Seats : seat'[s] = "SOLD" => seat[s] = "SOLD"
    BY <1>1, <1>6, SeatsReleased DEF SetSeats
  <2>2. QED
    BY <1>2, <1>6, <2>1 DEF ReleaseSession, dbVars
<1>7. CASE ProcessEnds
  BY <1>7 DEF ProcessEnds, UnsavedSalesAreOfTheSeller
<1>8. ASSUME NEW rank \in Ranks, Start(rank)
      PROVE  UnsavedSalesAreOfTheSeller' /\ SalesAreSavedWhole'
  <2>1. dbSeat' = dbSeat /\ \A t \in Threads : thread'[t].pc # "sell"
    BY <1>1, <1>8 DEF Start, dbVars, ServerInv, DownIsIdle, Idle
  <2>2. QED
    BY <1>1, <1>8, <2>1, SeatsStarted
       DEF UnsavedSalesAreOfTheSeller, SalesAreSavedWhole
<1>9. QED
  BY <1>3, <1>4, <1>5, <1>6, <1>7, <1>8, StepKinds

LEMMA LastingInvHolds == ServerSpec => []LastingInv
  BY LastingInvInit, LastingInvStep, PTL DEF ServerSpec

\* A handler reserves seats or gives seats up, never both at once.
LEMMA SeatsGoOneWay ==
    ASSUME TypeOK, [Next]_vars
    PROVE  \/ \A s \in Seats : seat[s] = "AVAILABLE" => seat'[s] = "AVAILABLE"
           \/ \A s \in Seats : seat[s] # "AVAILABLE" => seat'[s] # "AVAILABLE"
<1>1. ASSUME NEW t \in Threads, ReserveSeats(t), NEW s \in Seats,
             seat[s] # "AVAILABLE"
      PROVE  seat'[s] # "AVAILABLE"
  BY <1>1 DEF ReserveSeats, SetSeats
<1>2. ASSUME NEW t \in Threads, NEW x \in Seats, SellSeat(t, x), NEW s \in Seats,
             seat[s] # "AVAILABLE"
      PROVE  seat'[s] # "AVAILABLE"
  BY <1>2 DEF SellSeat, SetSeats
<1>3. ASSUME NEW S, seat' = SetSeats(S, "AVAILABLE"), NEW s \in Seats,
             seat[s] = "AVAILABLE"
      PROVE  seat'[s] = "AVAILABLE"
  BY <1>3 DEF SetSeats
<1>4. \/ \E t \in Threads : ReserveSeats(t) \/ \E x \in Seats : SellSeat(t, x)
      \/ \E S : seat' = SetSeats(S, "AVAILABLE")
      \/ seat' = seat
  <2>1. ASSUME NEW t \in Threads, Handle(t), ~ReserveSeats(t),
               ~ \E x \in Seats : SellSeat(t, x)
        PROVE  (\E S : seat' = SetSeats(S, "AVAILABLE")) \/ seat' = seat
    BY <2>1 DEF Handle, RefuseReserve, SaveSeats, SaveSessions, ReserveLogFails,
                Rollback, RecordBuyer, CommitSale, AnnounceSale, SaleLogFails, seatVars
  <2>2. ASSUME NEW t \in Threads, NEW u \in Users, Receive(t, u)
        PROVE  (\E S : seat' = SetSeats(S, "AVAILABLE")) \/ seat' = seat
    BY <2>2 DEF Receive, RequestReserve, ConfirmSession, CancelSession, seatVars
  <2>3. CASE MonitorNext
    BY <2>3 DEF MonitorNext, Sweep, TakeSnapshot, ExpireSession, SpareSession,
                AnnounceExpiry, ExpiryLogFails, WarnExpiring, WarnLogFails, seatVars
  <2>4. CASE \/ Tick \/ UNCHANGED vars
             \/ \E u \in Subscribers, type \in NotificationType : Deliver(u, type)
             \/ \E job \in tickets.jobs : WriteTicket(job)
    BY <2>4 DEF Tick, Deliver, WriteTicket, vars, seatVars
  <2>5. QED
    BY <2>1, <2>2, <2>3, <2>4 DEF Next
<1>5. QED
  BY <1>1, <1>2, <1>3, <1>4

-----------------------------------------------------------------------------
(* Steps of the abstract sale *)

LastingNext == Lasting!Next \/ UNCHANGED <<lastingStatus, processState>>

Lasts(s) == dbSeat[s] = "SOLD" /\ s \notin Recording

\* Seats change in memory, one way, and no sale becomes a lasting one.
LEMMA LastingReservations ==
    ASSUME phase # "down", phase' # "down", processState' = processState,
           \A s \in Seats :
               /\ seat[s] = "AVAILABLE" => ~Lasts(s)
               /\ Lasts(s)' <=> Lasts(s)
               /\ Lasts(s) => dbPurchased'[s] = dbPurchased[s],
           \/ \A s \in Seats : seat[s] = "AVAILABLE" => seat'[s] = "AVAILABLE"
           \/ \A s \in Seats : seat[s] # "AVAILABLE" => seat'[s] # "AVAILABLE"
    PROVE  LastingNext
<1> DEFINE Unsold == {s \in Seats : ~Lasts(s)}
           Taken == {s \in Unsold : seat[s] = "AVAILABLE" /\ seat'[s] # "AVAILABLE"}
           Freed == {s \in Unsold : seat[s] # "AVAILABLE" /\ seat'[s] = "AVAILABLE"}
<1>1. lastingStatus' = [s \in Seats |->
          IF s \in Taken THEN Lasting!Reserved
          ELSE IF s \in Freed THEN Lasting!Free ELSE lastingStatus[s]]
  BY DEF lastingStatus, Lasts, Lasting!Reserved, Lasting!Free
<1>2. Taken = {} \/ Freed = {}
  OBVIOUS
<1>3. /\ \A s \in Taken : lastingStatus[s] = Lasting!Free
      /\ \A s \in Freed : lastingStatus[s] = Lasting!Reserved
  BY DEF lastingStatus, Lasts, Lasting!Reserved, Lasting!Free
<1>4. lastingStatus = [s \in Seats |-> lastingStatus[s]]
  BY DEF lastingStatus
<1>5. /\ Taken \in SUBSET Seats /\ Freed \in SUBSET Seats
      /\ processState # "down"
  BY DEF processState
<1> HIDE DEF Taken, Freed, Unsold
<1>6. CASE Taken = {} /\ Freed = {}
  BY <1>1, <1>4, <1>6 DEF LastingNext
<1>7. CASE Taken # {}
  <2>1. Lasting!Reserve(Taken)
    BY <1>1, <1>2, <1>3, <1>5, <1>7 DEF Lasting!Reserve, Lasting!Turn
  <2>2. QED
    BY <1>5, <2>1 DEF LastingNext, Lasting!Next
<1>8. CASE Freed # {}
  <2>1. Lasting!GiveUp(Freed)
    BY <1>1, <1>2, <1>3, <1>5, <1>8 DEF Lasting!GiveUp, Lasting!Turn
  <2>2. QED
    BY <1>5, <2>1 DEF LastingNext, Lasting!Next
<1>9. QED
  BY <1>6, <1>7, <1>8

\* What becomes a lasting sale is the work of one CONFIRM, and so of one buyer.
LEMMA LastingSales ==
    ASSUME phase # "down", phase' # "down", processState' = processState,
           seat' = seat, NEW u,
           \A s \in Seats :
               /\ seat[s] = "AVAILABLE" => ~Lasts(s)
               /\ Lasts(s) => Lasts(s)' /\ dbPurchased'[s] = dbPurchased[s]
               /\ ~Lasts(s) /\ Lasts(s)' =>
                      u \in Users /\ dbPurchased'[s] = u /\ seat[s] # "AVAILABLE"
    PROVE  LastingNext
<1> DEFINE S == {s \in Seats : ~Lasts(s) /\ Lasts(s)'}
<1>1. CASE S = {}
  BY <1>1, LastingReservations
<1>2. CASE S # {}
  <2>1. u \in Users
    BY <1>2
  <2>2. lastingStatus' = [s \in Seats |->
            IF s \in S THEN Lasting!Sold(u) ELSE lastingStatus[s]]
    <3>1. ASSUME NEW s \in S PROVE lastingStatus'[s] = Lasting!Sold(u)
      BY DEF lastingStatus, Lasts, Lasting!Sold
    <3>2. ASSUME NEW s \in Seats \ S PROVE lastingStatus'[s] = lastingStatus[s]
      BY DEF lastingStatus, Lasts
    <3>3. lastingStatus' = [s \in Seats |-> lastingStatus'[s]]
      BY DEF lastingStatus
    <3> HIDE DEF S
    <3>4. QED
      BY <3>1, <3>2, <3>3
  <2>3. \A s \in S : lastingStatus[s] = Lasting!Reserved
    BY DEF lastingStatus, Lasts, Lasting!Reserved
  <2>4. S \in SUBSET Seats /\ processState # "down"
    BY DEF processState
  <2> HIDE DEF S
  <2>5. Lasting!Buy(u, S)
    BY <1>2, <2>2, <2>3, <2>4 DEF Lasting!Buy, Lasting!Turn
  <2>6. QED
    BY <2>1, <2>4, <2>5 DEF LastingNext, Lasting!Next
<1>3. QED
  BY <1>1, <1>2

\* A lasting sale is SOLD in memory, and a step of the threads leaves it be.
LEMMA LastingSalesStay ==
    ASSUME ServerInv, InMemory, phase # "down", NEW s \in Seats, Lasts(s)
    PROVE  seat[s] = "SOLD" /\ Lasts(s)' /\ dbPurchased'[s] = dbPurchased[s]
<1>1. SaleInv /\ SavedSoldIsSold /\ [Next]_vars /\ SavedSaleStays(s)
  BY SalesInMemory DEF ServerInv, MemoryKnowsSales, InMemory
<1>2. seat[s] = "SOLD" /\ dbSeat'[s] = "SOLD" /\ dbPurchased'[s] = dbPurchased[s]
  BY <1>1 DEF Lasts, SavedSoldIsSold, SavedSaleStays
<1>3. s \notin Recording'
  BY <1>1, <1>2, RecordingBegins DEF Lasts
<1>4. QED
  BY <1>2, <1>3 DEF Lasts

\* A sale becomes a lasting one when the matrix is saved, by CONFIRM or stop(),
\* or, after stop() has saved it, when its buyer is recorded.
LEMMA LastingSaleBegins ==
    ASSUME LastingInv, InMemory, phase # "down", NEW s \in Seats, ~Lasts(s), Lasts(s)'
    PROVE  \E t \in Threads : \/ CommitSale(t)
                              \/ RecordBuyer(t) /\ s \in thread[t].recording
<1>1. /\ SaleInv /\ TypeOK /\ [Next]_vars
  BY DEF LastingInv, ServerInv, SaleInv, InMemory
<1>2. CASE s \in Recording
  <2>1. PICK t \in Threads : s \in thread[t].recording
    BY <1>2 DEF Recording
  <2>2. s \notin thread'[t].recording
    BY DEF Lasts, Recording
  <2>3. QED
    BY <1>1, <2>1, <2>2, BuyerIsRecorded
<1>3. CASE s \notin Recording
  <2>1. dbSeat[s] # "SOLD" /\ dbSeat'[s] = "SOLD"
    BY <1>3 DEF Lasts
  <2>2. seat'[s] = "SOLD" /\ \A t \in Threads : thread'[t].pc # "sell"
    BY <1>1, <2>1, SeatsSaved
  <2>3. CASE seat[s] = "SOLD"
    <3>1. PICK t \in Threads : thread[t].pc = "sell"
      BY <2>1, <2>3 DEF LastingInv, UnsavedSalesAreOfTheSeller
    <3>2. ~SaleGoesOn(t)
      BY <2>2 DEF SaleGoesOn
    <3>3. CommitSale(t)
      BY <1>1, <3>1, <3>2, SaleGoesOnOrEnds
    <3>4. QED
      BY <3>3
  <2>4. CASE seat[s] # "SOLD"
    <3>1. PICK t \in Threads : SellSeat(t, s)
      BY <1>1, <2>2, <2>4, SeatSteps DEF SeatStep
    <3>2. thread'[t].pc = "sell"
      BY <1>1, <3>1 DEF SellSeat, TypeOK, Request
    <3>3. QED
      BY <2>2, <3>2
  <2>5. QED
    BY <2>3, <2>4
<1>4. QED
  BY <1>2, <1>3

\* The seats that the database does not have SOLD yet are the seller's own.
LEMMA UnsavedBuyers ==
    ASSUME LastingInv, NEW s \in Seats, NEW t \in Threads,
           seat[s] = "SOLD", dbSeat[s] # "SOLD", s \notin Recording,
           thread[t].pc = "sell"
    PROVE  thread[t].user \in Users /\ dbPurchased[s] = thread[t].user
<1>1. SaleIsAlone /\ ServingUsers
  BY DEF LastingInv, ServerInv, SaleInv
<1>2. PICK x \in Threads :
          /\ thread[x].pc = "sell"
          /\ s \in thread[x].recording \/ dbPurchased[s] = thread[x].user
  BY DEF LastingInv, UnsavedSalesAreOfTheSeller
<1>3. x = t /\ s \notin thread[x].recording
  BY <1>1, <1>2 DEF SaleIsAlone, Recording
<1>4. QED
  BY <1>1, <1>2, <1>3 DEF ServingUsers

\* A step of the threads while the process lives.
LEMMA LastingInMemory ==
    ASSUME LastingInv, InMemory, phase # "down", processState' = processState
    PROVE  LastingNext
<1>1. /\ SaleInv /\ TypeOK /\ [Next]_vars /\ phase' # "down" /\ ServerInv
  BY DEF LastingInv, ServerInv, SaleInv, InMemory
<1>2. \A s \in Seats : /\ seat[s] = "AVAILABLE" => ~Lasts(s)
                       /\ Lasts(s) => Lasts(s)' /\ dbPurchased'[s] = dbPurchased[s]
  BY <1>1, LastingSalesStay
<1>3. ASSUME NEW t \in Threads, CommitSale(t) PROVE LastingNext
  <2>1. /\ seat' = seat /\ dbSeat' = seat /\ dbPurchased' = dbPurchased
        /\ thread[t].pc = "sell" /\ thread[t].recording = {}
    BY <1>3 DEF CommitSale, SaveAllSeats, seatVars
  <2>2. Recording = {}
    BY <1>1, <2>1, RecordingIsOne DEF SaleInv, SaleIsAlone
  <2>3. ASSUME NEW s \in Seats, ~Lasts(s), Lasts(s)'
        PROVE  /\ thread[t].user \in Users /\ dbPurchased'[s] = thread[t].user
               /\ seat[s] # "AVAILABLE"
    <3>1. seat[s] = "SOLD" /\ dbSeat[s] # "SOLD"
      BY <2>1, <2>2, <2>3 DEF Lasts
    <3>2. QED
      BY <2>1, <2>2, <3>1, UnsavedBuyers
  <2>4. QED
    BY <1>1, <1>2, <2>1, <2>3, LastingSales
<1>4. ASSUME NEW t \in Threads, RecordBuyer(t) PROVE LastingNext
  <2>1. /\ seat' = seat /\ dbSeat' = dbSeat /\ thread[t].pc = "sell"
        /\ \A s \in thread[t].recording \cap Seats : dbPurchased'[s] = thread[t].user
        /\ thread[t].user \in Users
    BY <1>1, <1>4 DEF RecordBuyer, seatVars, SaleInv, ServingUsers
  <2>2. ASSUME NEW s \in Seats, ~Lasts(s), Lasts(s)'
        PROVE  /\ thread[t].user \in Users /\ dbPurchased'[s] = thread[t].user
               /\ seat[s] # "AVAILABLE"
    <3>1. dbSeat[s] = "SOLD" /\ s \in Recording
      BY <2>1, <2>2 DEF Lasts
    <3>2. s \in thread[t].recording
      BY <1>1, <2>1, <3>1, RecordingIsOne DEF SaleInv, SaleIsAlone
    <3>3. seat[s] = "SOLD"
      BY <1>1, <3>1 DEF ServerInv, MemoryKnowsSales, SavedSoldIsSold
    <3>4. QED
      BY <2>1, <3>2, <3>3
  <2>3. QED
    BY <1>1, <1>2, <2>1, <2>2, LastingSales
<1>5. CASE ~ \E t \in Threads : CommitSale(t) \/ RecordBuyer(t)
  <2>1. \A s \in Seats : ~Lasts(s) => ~Lasts(s)'
    BY <1>5, LastingSaleBegins
  <2>2. QED
    BY <1>1, <1>2, <2>1, SeatsGoOneWay, LastingReservations
<1>6. QED
  BY <1>3, <1>4, <1>5

\* stop() saves the matrix as it is: what it finds SOLD is the work of the one
\* CONFIRM that is selling, except the seat whose buyer is still to come.
LEMMA LastingAtSave ==
    ASSUME LastingInv, StopSavesSeats
    PROVE  LastingNext
<1>1. /\ phase = "saveSeats" /\ phase' = "saveSessions"
      /\ seat' = seat /\ dbSeat' = seat /\ thread' = thread /\ dbPurchased' = dbPurchased
  BY DEF StopSavesSeats, SaveAllSeats, seatVars
<1>2. SavedSoldIsSold
  BY <1>1 DEF LastingInv, ServerInv, MemoryKnowsSales
<1>3. Recording' = Recording /\ processState' = processState
  BY <1>1 DEF Recording, processState
<1>4. \A s \in Seats : /\ seat[s] = "AVAILABLE" => ~Lasts(s)
                       /\ Lasts(s) => Lasts(s)' /\ dbPurchased'[s] = dbPurchased[s]
  BY <1>1, <1>2, <1>3 DEF Lasts, SavedSoldIsSold
<1>5. \A s \in Seats : ~Lasts(s) /\ Lasts(s)' =>
          seat[s] = "SOLD" /\ dbSeat[s] # "SOLD" /\ s \notin Recording
  BY <1>1, <1>3 DEF Lasts
<1>6. CASE \E t \in Threads : thread[t].pc = "sell"
  <2>1. PICK t \in Threads : thread[t].pc = "sell"
    BY <1>6
  <2>2. \A s \in Seats : ~Lasts(s) /\ Lasts(s)' =>
            /\ thread[t].user \in Users /\ dbPurchased'[s] = thread[t].user
            /\ seat[s] # "AVAILABLE"
    BY <1>1, <1>5, <2>1, UnsavedBuyers
  <2>3. QED
    BY <1>1, <1>3, <1>4, <2>2, LastingSales
<1>7. CASE ~ \E t \in Threads : thread[t].pc = "sell"
  <2>1. \A s \in Seats : ~(~Lasts(s) /\ Lasts(s)')
    BY <1>5, <1>7 DEF LastingInv, UnsavedSalesAreOfTheSeller
  <2>2. QED
    BY <1>1, <1>3, <1>4, <2>1, LastingReservations
<1>8. QED
  BY <1>6, <1>7

\* The process ends: the database is as it was.  If it has a sale whose buyer
\* is still to come, stop() has saved it, and there is one such seat.
LEMMA LastingEnd ==
    ASSUME LastingInv, ProcessEnds, phase # "down"
    PROVE  LastingNext
<1> DEFINE R == {s \in Seats : dbSeat[s] # "AVAILABLE"}
<1>1. /\ phase' = "down" /\ dbSeat' = dbSeat /\ dbPurchased' = dbPurchased
      /\ processState # "down" /\ processState' = "down" /\ R \in SUBSET Seats
  BY DEF ProcessEnds, dbVars, processState
<1>2. Recording' = {}
  BY DEF Recording, ProcessEnds, Idle
<1>3. /\ SaleInv /\ TypeOK /\ SavedSoldIsSold
  BY DEF LastingInv, ServerInv, ServerTypeOK, MemoryKnowsSales
<1>4. lastingStatus' = [s \in Seats |->
          IF dbSeat[s] = "SOLD" THEN Lasting!Sold(dbPurchased[s])
          ELSE IF s \in R THEN Lasting!Reserved ELSE Lasting!Free]
  BY <1>1, <1>2 DEF lastingStatus, Lasting!Sold, Lasting!Reserved, Lasting!Free
<1>5. \A s \in Seats : lastingStatus[s] =
          IF Lasts(s) THEN Lasting!Sold(dbPurchased[s])
          ELSE IF seat[s] = "AVAILABLE" THEN Lasting!Free ELSE Lasting!Reserved
  BY DEF lastingStatus, Lasts, Lasting!Sold, Lasting!Reserved, Lasting!Free
<1> HIDE DEF R
<1>6. \A s \in Seats : lastingStatus[s].state = "SOLD" <=> Lasts(s)
  BY DEF lastingStatus, Lasts
<1>7. CASE \A s \in Seats : dbSeat[s] = "SOLD" => s \notin Recording
  <2>1. lastingStatus' = Lasting!Remaining(R)
    BY <1>4, <1>5, <1>6, <1>7 DEF Lasts, Lasting!Remaining
  <2>2. Lasting!End
    BY <1>1, <2>1 DEF Lasting!End
  <2>3. QED
    BY <2>2 DEF LastingNext, Lasting!Next
<1>8. ASSUME NEW s \in Seats, dbSeat[s] = "SOLD", s \in Recording PROVE LastingNext
  <2>1. Recording = {s}
    BY <1>3, <1>8, RecordingIsOne
  <2>2. processState = "stopping"
    <3>1. ~SalesAreSavedWhole
      BY <1>3, <1>8, RecordingIsOne DEF SalesAreSavedWhole
    <3>2. phase # "serving"
      BY <3>1 DEF LastingInv
    <3>3. QED
      BY <3>2 DEF processState
  <2>3. lastingStatus[s] = Lasting!Reserved
    BY <1>3, <1>5, <1>8 DEF Lasts, SavedSoldIsSold
  <2>4. dbPurchased[s] \in Users \cup {Nobody}
    BY <1>3 DEF TypeOK
  <2>5. lastingStatus' = [Lasting!Remaining(R) EXCEPT ![s] = Lasting!Sold(dbPurchased[s])]
    BY <1>4, <1>5, <1>6, <1>8, <2>1 DEF Lasts, Lasting!Remaining
  <2>6. Lasting!EndWithinSale(s, dbPurchased[s])
    BY <1>1, <2>2, <2>3, <2>5 DEF Lasting!EndWithinSale
  <2>7. QED
    BY <2>4, <2>6 DEF LastingNext, Lasting!Next
<1>9. QED
  BY <1>7, <1>8

\* The process starts, and gives up or keeps what was reserved.
LEMMA LastingStart ==
    ASSUME LastingInv, NEW rank \in Ranks, Start(rank)
    PROVE  LastingNext
<1> DEFINE R == {s \in Seats : seat'[s] # "AVAILABLE"}
<1>1. /\ phase = "down" /\ phase' = "serving" /\ thread' = thread
      /\ dbSeat' = dbSeat /\ dbPurchased' = dbPurchased
      /\ processState = "down" /\ processState' = "serving" /\ R \in SUBSET Seats
  BY DEF Start, dbVars, processState
<1>2. Recording = {} /\ Recording' = {}
  BY <1>1 DEF LastingInv, ServerInv, DownIsIdle, Recording, Idle
<1>3. \A s \in Seats : lastingStatus[s].state = "SOLD" <=> dbSeat[s] = "SOLD"
  BY <1>2 DEF lastingStatus
<1>4. lastingStatus' = [s \in Seats |->
          IF dbSeat[s] = "SOLD" THEN Lasting!Sold(dbPurchased[s])
          ELSE IF s \in R THEN Lasting!Reserved ELSE Lasting!Free]
  BY <1>1, <1>2 DEF lastingStatus, Lasting!Sold, Lasting!Reserved, Lasting!Free
<1>5. \A s \in Seats : dbSeat[s] = "SOLD" =>
          lastingStatus[s] = Lasting!Sold(dbPurchased[s])
  BY <1>2 DEF lastingStatus, Lasting!Sold
<1> HIDE DEF R
<1>6. lastingStatus' = Lasting!Remaining(R)
  BY <1>3, <1>4, <1>5 DEF Lasting!Remaining
<1>7. Lasting!Start
  BY <1>1, <1>6 DEF Lasting!Start
<1>8. QED
  BY <1>7 DEF LastingNext, Lasting!Next

LEMMA LastingInitially == ServerInit => Lasting!Init
<1> SUFFICES ASSUME ServerInit PROVE Lasting!Init
  OBVIOUS
<1>1. /\ phase = "serving" /\ processState = "serving"
      /\ \A s \in Seats : seat[s] = "AVAILABLE" /\ dbSeat[s] = "AVAILABLE"
  BY DEF ServerInit, Init, processState
<1>2. QED
  BY <1>1 DEF Lasting!Init, Lasting!Free, lastingStatus

LEMMA LastingStep == LastingInv /\ [ServerNext]_serverVars => LastingNext
<1> SUFFICES ASSUME LastingInv, [ServerNext]_serverVars PROVE LastingNext
  OBVIOUS
<1>1. /\ ServerInv /\ TypeOK /\ stop \in Stopping
      /\ phase # "down" => SavedSoldIsSold
  BY DEF LastingInv, ServerInv, ServerTypeOK, MemoryKnowsSales
<1>2. CASE InMemory /\ processState' # processState
  <2>1. phase = "serving" /\ phase' # "serving" /\ phase' # "down" /\ UNCHANGED vars
    BY <1>2 DEF InMemory, processState
  <2>2. Recording' = Recording
    BY <2>1 DEF vars, Recording
  <2>3. lastingStatus' = lastingStatus
    BY <2>1, <2>2 DEF vars, lastingStatus
  <2>4. Lasting!Stop
    BY <2>1, <2>3 DEF Lasting!Stop, processState
  <2>5. QED
    BY <2>4 DEF LastingNext, Lasting!Next
<1>3. CASE InMemory /\ phase # "down" /\ processState' = processState
  BY <1>3, LastingInMemory
<1>4. CASE InMemory /\ phase = "down" /\ processState' = processState
  <2>1. phase' = "down" /\ dbSeat' = dbSeat /\ dbPurchased' = dbPurchased
        /\ thread' = thread
    BY <1>1, <1>4, IdleStays DEF InMemory, ServerInv
  <2>2. Recording' = Recording
    BY <2>1 DEF Recording
  <2>3. QED
    BY <1>4, <2>1, <2>2 DEF LastingNext, lastingStatus
<1>5. CASE StopSavesSeats
  BY <1>5, LastingAtSave
<1>6. ASSUME phase \notin {"serving", "down"}, phase' \notin {"serving", "down"},
             dbSeat' = dbSeat, dbPurchased' = dbPurchased, thread' = thread,
             \A s \in Seats : seat[s] = "AVAILABLE" => seat'[s] = "AVAILABLE"
      PROVE  LastingNext
  <2>1. processState' = processState
    BY <1>6 DEF processState
  <2>2. \A s \in Seats : Lasts(s)' <=> Lasts(s)
    BY <1>6 DEF Lasts, Recording
  <2>3. \A s \in Seats : seat[s] = "AVAILABLE" => ~Lasts(s)
    BY <1>1, <1>6 DEF Lasts, SavedSoldIsSold
  <2>4. QED
    BY <1>6, <2>1, <2>2, <2>3, LastingReservations
<1>7. CASE StopSavesSessions
  BY <1>6, <1>7 DEF StopSavesSessions, seatVars
<1>8. CASE ReleaseSession
  <2>1. \A s \in Seats : seat[s] = "AVAILABLE" => seat'[s] = "AVAILABLE"
    BY <1>1, <1>8, SeatsReleased DEF SetSeats
  <2>2. QED
    BY <1>6, <1>8, <2>1 DEF ReleaseSession, dbVars
<1>9. CASE ProcessEnds /\ phase # "down"
  BY <1>9, LastingEnd
<1>10. ASSUME NEW rank \in Ranks, Start(rank) PROVE LastingNext
  BY <1>10, LastingStart
<1>11. QED
  BY <1>2, <1>3, <1>4, <1>5, <1>7, <1>8, <1>9, <1>10, StepKinds

\* Whatever log appends fail, however long anybody waits for locks and whenever
\* the process is killed or stopped: every step of the server over all its
\* lives sells reserved seats to one buyer, for good, reserves free seats, or
\* gives up seats that are not sold; and a restart changes unsold seats only.
\* Only a kill in the middle of stop() may leave a sale without its buyer, and
\* then of one seat.
THEOREM ServerImplementsLastingSale == ServerSpec => ImplementsLastingSale
<1>1. LastingInv /\ [ServerNext]_serverVars
          => [Lasting!Next]_<<lastingStatus, processState>>
  BY LastingStep DEF LastingNext
<1>2. QED
  BY <1>1, LastingInitially, LastingInvHolds, PTL
     DEF ServerSpec, ImplementsLastingSale, Lasting!Spec
=============================================================================
