--------------------------- MODULE AgreementProofs ---------------------------
(***************************************************************************)
(* What the server keeps in several places agrees: the semaphores, the     *)
(* database and the tickets with the seats and the sessions, and all of it *)
(* with the sale the audience is promised (SeatSale).                      *)
(***************************************************************************)
EXTENDS ReservationServerProofs

-----------------------------------------------------------------------------
(* Semaphores: counting *)

LEMMA AvailableCount ==
    ASSUME NEW m, NEW sec \in Sections
    PROVE  /\ IsFiniteSet(Available(m, sec))
           /\ Cardinality(Available(m, sec)) \in Nat
<1>1. Available(m, sec) \in SUBSET Seats
  BY DEF Available, SeatsOf
<1>2. QED
  BY <1>1, SeatsAreFinite

\* Seats that are taken leave the AVAILABLE ones of their section.
LEMMA CountTaken ==
    ASSUME NEW S \in SUBSET Seats, \A s \in S : seat[s] = "AVAILABLE",
           NEW sec \in Sections
    PROVE  Cardinality(Available(SetSeats(S, "RESERVED"), sec))
               = Cardinality(Available(seat, sec)) - Cardinality(S \cap SeatsOf(sec))
<1>1. Available(SetSeats(S, "RESERVED"), sec) = Available(seat, sec) \ S
  BY DEF Available, SetSeats, SeatsOf
<1>2. Available(seat, sec) \cap S = S \cap SeatsOf(sec)
  BY DEF Available
<1>3. QED
  BY <1>1, <1>2, AvailableCount, FS_Difference

\* Seats that are given back join them.
LEMMA CountGivenBack ==
    ASSUME NEW S \in SUBSET Seats, \A s \in S : seat[s] = "RESERVED",
           NEW sec \in Sections
    PROVE  Cardinality(Available(SetSeats(S, "AVAILABLE"), sec))
               = Cardinality(Available(seat, sec)) + Cardinality(S \cap SeatsOf(sec))
<1> DEFINE A == Available(seat, sec)
           B == S \cap SeatsOf(sec)
<1>1. Available(SetSeats(S, "AVAILABLE"), sec) = A \cup B
  BY DEF Available, SetSeats, SeatsOf
<1>2. A \cap B = {}
  BY DEF Available
<1>3. IsFiniteSet(A) /\ Cardinality(A) \in Nat
  BY AvailableCount
<1>4. IsFiniteSet(B) /\ Cardinality(B) \in Nat
  BY CountOfSection
<1> HIDE DEF A, B
<1>5. Cardinality(A \cup B) = Cardinality(A) + Cardinality(B) - Cardinality(A \cap B)
  BY <1>3, <1>4, FS_Union
<1>6. Cardinality(A \cap B) = 0
  BY <1>2, FS_EmptySet
<1>7. Cardinality(A \cup B) = Cardinality(A) + Cardinality(B)
  BY <1>3, <1>4, <1>5, <1>6
<1>8. QED
  BY <1>1, <1>7 DEF A, B

\* Selling a RESERVED seat concerns no AVAILABLE one.
LEMMA CountSold ==
    ASSUME NEW s \in Seats, seat[s] = "RESERVED", NEW sec \in Sections
    PROVE  Available(SetSeats({s}, "SOLD"), sec) = Available(seat, sec)
  BY DEF Available, SetSeats, SeatsOf

\* A list without repetitions has as many entries as it has seats.
LEMMA CountListed ==
    ASSUME NEW u \in Users, NEW sec \in Sections,
           \A s \in Listed(u) : sessions[u].seats[s] = 1,
           \A s \in Seats : sessions[u].seats[s] \in Nat
    PROVE  Cardinality(Entries(sessions[u].seats, sec))
               = Cardinality(Listed(u) \cap SeatsOf(sec))
<1> DEFINE list == sessions[u].seats
           B == Listed(u) \cap SeatsOf(sec)
           f == [s \in B |-> <<s, 1>>]
<1>1. Entries(list, sec) = {<<s, 1>> : s \in B}
  <2>1. \A s \in SeatsOf(sec) :
            {s} \X (1 .. list[s]) = IF s \in B THEN {<<s, 1>>} ELSE {}
    <3> SUFFICES ASSUME NEW s \in SeatsOf(sec)
                 PROVE  {s} \X (1 .. list[s]) = IF s \in B THEN {<<s, 1>>} ELSE {}
      OBVIOUS
    <3>1. CASE s \in B
      <4>1. 1 .. list[s] = {1}
        BY <3>1
      <4>2. QED
        BY <3>1, <4>1
    <3>2. CASE s \notin B
      <4>1. list[s] = 0
        BY <3>2 DEF Listed, SeatsOf
      <4>2. 1 .. list[s] = {}
        BY <4>1
      <4>3. QED
        BY <3>2, <4>2
    <3>3. QED
      BY <3>1, <3>2
  <2>2. QED
    BY <2>1 DEF Entries
<1>2. f \in Bijection(B, Entries(list, sec))
  <2>1. \A x, y \in B : f[x] = f[y] => x = y
    OBVIOUS
  <2>2. \A e \in Entries(list, sec) : \E x \in B : f[x] = e
    BY <1>1
  <2>3. f \in [B -> Entries(list, sec)]
    BY <1>1
  <2> HIDE DEF f, B, list
  <2>4. QED
    BY <2>1, <2>2, <2>3 DEF Bijection, Injection, Surjection, IsInjective
<1>3. IsFiniteSet(B)
  BY CountOfSection DEF Listed
<1>4. QED
  BY <1>2, <1>3, FS_Bijection DEF ExistsBijection

\* Repetitions only add to its entries.
LEMMA CountEntries ==
    ASSUME NEW u \in Users, NEW sec \in Sections, sessions[u].seats \in [Seats -> Nat]
    PROVE  Cardinality(Listed(u) \cap SeatsOf(sec))
               <= Cardinality(Entries(sessions[u].seats, sec))
<1> DEFINE list == sessions[u].seats
           B == Listed(u) \cap SeatsOf(sec)
           f == [s \in B |-> <<s, 1>>]
<1>1. \A s \in B : f[s] \in Entries(list, sec)
  <2> SUFFICES ASSUME NEW s \in B PROVE <<s, 1>> \in Entries(list, sec)
    OBVIOUS
  <2>1. list[s] \in Nat /\ list[s] > 0
    BY DEF Listed
  <2>2. 1 \in 1 .. list[s]
    BY <2>1
  <2>3. QED
    BY <2>2 DEF Entries
<1>2. f \in [B -> Entries(list, sec)] /\ \A x, y \in B : f[x] = f[y] => x = y
  BY <1>1
<1>3. IsFiniteSet(Entries(list, sec))
  BY CountOfEntries
<1> HIDE DEF f, B, list
<1>4. f \in Injection(B, Entries(list, sec))
  BY <1>2 DEF Injection, IsInjective
<1>5. Cardinality(B) <= Cardinality(Entries(list, sec))
  BY <1>3, <1>4, FS_Injection
<1>6. QED
  BY <1>5 DEF B, list

-----------------------------------------------------------------------------
(* Semaphores and seats *)

\* The slots of a section that no AVAILABLE seat accounts for.
SlotsOver(sec) == sem[sec] - Cardinality(Available(seat, sec))

\* The entries of a session's list that repeat a seat.
Repeated(u, sec) ==
    Cardinality(Entries(sessions[u].seats, sec))
        - Cardinality(Listed(u) \cap SeatsOf(sec))

\* Only CANCEL of a list with repetitions gives back more slots than seats,
\* and nothing gives back fewer, whatever fails.
LEMMA SlotsInStep ==
    ASSUME SaleInv, TypeOK', [Next]_vars, NEW sec \in Sections
    PROVE  \/ SlotsOver(sec)' = SlotsOver(sec)
           \/ \E u \in Users : SlotsOver(sec)' = SlotsOver(sec) + Repeated(u, sec)
<1>1. TypeOK /\ SaleHoldsSeats
  BY DEF SaleInv
<1>2. /\ sem[sec] \in Nat
      /\ Cardinality(Available(seat, sec)) \in Nat
      /\ \A S \in SUBSET Seats : Cardinality(S \cap SeatsOf(sec)) \in Nat
  BY <1>1, AvailableCount, CountOfSection DEF TypeOK
<1>3. ASSUME seat' = seat, sem' = sem PROVE SlotsOver(sec)' = SlotsOver(sec)
  BY <1>3 DEF SlotsOver
<1>4. ASSUME NEW S \in SUBSET Seats, \A s \in S : seat[s] = "RESERVED",
             seat' = SetSeats(S, "AVAILABLE"),
             sem'[sec] = sem[sec] + Cardinality(S \cap SeatsOf(sec))
      PROVE  SlotsOver(sec)' = SlotsOver(sec)
  BY <1>2, <1>4, CountGivenBack DEF SlotsOver
<1>5. ASSUME NEW t \in Threads, ReserveSeats(t) PROVE SlotsOver(sec)' = SlotsOver(sec)
  <2> DEFINE S == thread[t].seats
  <2>1. /\ seat' = SetSeats(S, "RESERVED") /\ sem' = AcquireSlots(S)
        /\ S \in SUBSET Seats /\ \A s \in S : seat[s] = "AVAILABLE"
    BY <1>1, <1>5 DEF ReserveSeats, CanReserve, TypeOK, Request
  <2> HIDE DEF S
  <2>2. sem'[sec] = sem[sec] - Cardinality(S \cap SeatsOf(sec))
    BY <2>1 DEF AcquireSlots
  <2>3. Cardinality(Available(seat', sec))
            = Cardinality(Available(seat, sec)) - Cardinality(S \cap SeatsOf(sec))
    BY <2>1, CountTaken
  <2>4. Cardinality(S \cap SeatsOf(sec)) \in Nat
    BY <1>2, <2>1
  <2>5. QED
    BY <1>2, <2>2, <2>3, <2>4 DEF SlotsOver
<1>6. ASSUME NEW t \in Threads, Rollback(t) PROVE SlotsOver(sec)' = SlotsOver(sec)
  <2> DEFINE S == {s \in thread[t].seats : seat[s] = "RESERVED"}
  <2>1. /\ seat' = SetSeats(S, "AVAILABLE")
        /\ sem'[sec] = sem[sec] + Cardinality(S \cap SeatsOf(sec))
    BY <1>6 DEF Rollback, ReleaseSlots
  <2>2. S \in SUBSET Seats /\ \A s \in S : seat[s] = "RESERVED"
    BY <1>1 DEF TypeOK, Request
  <2> HIDE DEF S
  <2>3. QED
    BY <1>4, <2>1, <2>2
<1>7. ASSUME NEW t \in Threads, NEW s \in Seats, SellSeat(t, s)
      PROVE  SlotsOver(sec)' = SlotsOver(sec)
  <2>1. seat' = SetSeats({s}, "SOLD") /\ sem' = sem /\ seat[s] = "RESERVED"
    BY <1>1, <1>7 DEF SellSeat, SaleHoldsSeats
  <2>2. QED
    BY <2>1, CountSold DEF SlotsOver
<1>8. ASSUME NEW t \in Threads, NEW u \in Users, NEW id \in 1 .. lastId,
             CancelSession(t, u, id)
      PROVE  SlotsOver(sec)' = SlotsOver(sec) + Repeated(u, sec)
  <2>1. /\ seat' = SetSeats(Listed(u), "AVAILABLE")
        /\ \A s \in Listed(u) : seat[s] = "RESERVED"
        /\ sem'[sec] = sem[sec] + Cardinality(Entries(sessions[u].seats, sec))
    BY <1>8 DEF CancelSession, ReleaseSlots
  <2>2. Listed(u) \in SUBSET Seats /\ sessions[u].seats \in [Seats -> Nat]
    BY <1>1 DEF Listed, TypeOK, Session
  <2>3. Cardinality(Entries(sessions[u].seats, sec)) \in Nat
    BY <2>2, CountOfEntries
  <2>4. Cardinality(Available(seat', sec))
            = Cardinality(Available(seat, sec))
                  + Cardinality(Listed(u) \cap SeatsOf(sec))
    BY <2>1, <2>2, CountGivenBack
  <2>5. Cardinality(Listed(u) \cap SeatsOf(sec)) \in Nat
    BY <1>2, <2>2
  <2>6. QED
    BY <1>2, <2>1, <2>3, <2>4, <2>5 DEF SlotsOver, Repeated
<1>9. ASSUME ExpireSession PROVE SlotsOver(sec)' = SlotsOver(sec)
  <2> DEFINE S == {s \in mon.snapshot : seat[s] = "RESERVED"}
  <2>1. /\ seat' = SetSeats(S, "AVAILABLE")
        /\ sem'[sec] = sem[sec] + Cardinality(S \cap SeatsOf(sec))
    BY <1>9 DEF ExpireSession, ReleaseSlots
  <2>2. S \in SUBSET Seats /\ \A s \in S : seat[s] = "RESERVED"
    BY <1>1 DEF TypeOK, Monitor
  <2> HIDE DEF S
  <2>3. QED
    BY <1>4, <2>1, <2>2
<1>10. QED
  <2>1. ASSUME NEW t \in Threads, Handle(t), ~ReserveSeats(t), ~Rollback(t),
               ~ \E s \in Seats : SellSeat(t, s)
        PROVE  seat' = seat /\ sem' = sem
    BY <2>1 DEF Handle, RefuseReserve, SaveSeats, SaveSessions, ReserveLogFails,
                RecordBuyer, CommitSale, AnnounceSale, SaleLogFails, seatVars
  <2>2. ASSUME NEW t \in Threads, NEW u \in Users, Receive(t, u),
               ~ \E id \in 1 .. lastId : CancelSession(t, u, id)
        PROVE  seat' = seat /\ sem' = sem
    BY <2>2 DEF Receive, RequestReserve, ConfirmSession, seatVars
  <2>3. ASSUME MonitorNext, ~ExpireSession PROVE seat' = seat /\ sem' = sem
    BY <2>3 DEF MonitorNext, Sweep, TakeSnapshot, SpareSession, AnnounceExpiry,
                ExpiryLogFails, WarnExpiring, WarnLogFails, seatVars
  <2>4. ASSUME \/ Tick
               \/ \E u \in Subscribers, type \in NotificationType : Deliver(u, type)
               \/ \E job \in tickets.jobs : WriteTicket(job)
               \/ UNCHANGED vars
        PROVE  seat' = seat /\ sem' = sem
    BY <2>4 DEF Tick, Deliver, WriteTicket, vars, seatVars
  <2>5. QED
    BY <1>3, <1>5, <1>6, <1>7, <1>8, <1>9, <2>1, <2>2, <2>3, <2>4 DEF Next

LEMMA SlotsAtStart ==
    ASSUME Init, NEW sec \in Sections
    PROVE  sem[sec] = Cardinality(Available(seat, sec))
<1>1. Available(seat, sec) = SeatsOf(sec) /\ sem[sec] = Capacity(sec)
  BY DEF Init, Available, SeatsOf
<1>2. QED
  BY <1>1 DEF Capacity

\* When no log append fails, the free slots of every section are its AVAILABLE
\* seats: release_multiple never gives back a slot too many (nothing would
\* stop it), and no RESERVE is refused for NO_CAPACITY while seats are free.
THEOREM SlotsMatchSeats ==
    ASSUME MaxLogFaults = 0
    PROVE  Spec => []SemaphoreMatchesAvailable
<1>1. Init => SemaphoreMatchesAvailable
  BY SlotsAtStart DEF SemaphoreMatchesAvailable
<1>2. ASSUME HeldInv, TypeOK', SemaphoreMatchesAvailable, [Next]_vars
      PROVE  SemaphoreMatchesAvailable'
  <2> SUFFICES ASSUME NEW sec \in Sections
               PROVE  sem'[sec] = Cardinality(Available(seat, sec)')
    BY DEF SemaphoreMatchesAvailable, Available, SeatsOf
  <2>1. SaleInv /\ TypeOK /\ ListedOnce
    BY <1>2, HeldSeatsOfSessions DEF HeldInv, MonitorInv, SaleInv
  <2>2. \A u \in Users : Repeated(u, sec) = 0
    <3> SUFFICES ASSUME NEW u \in Users PROVE Repeated(u, sec) = 0
      OBVIOUS
    <3>1. sessions[u].seats \in [Seats -> Nat]
      BY <2>1 DEF TypeOK, Session
    <3>2. Cardinality(Entries(sessions[u].seats, sec))
              = Cardinality(Listed(u) \cap SeatsOf(sec))
      BY <2>1, <3>1, CountListed DEF ListedOnce
    <3>3. QED
      BY <3>1, <3>2, CountOfEntries DEF Repeated
  <2>3. /\ sem[sec] \in Nat /\ Cardinality(Available(seat, sec)) \in Nat
        /\ sem'[sec] \in Nat /\ Cardinality(Available(seat, sec)') \in Nat
    BY <1>2, <2>1, AvailableCount DEF TypeOK
  <2>4. SlotsOver(sec) = 0
    BY <1>2, <2>3 DEF SemaphoreMatchesAvailable, SlotsOver
  <2>5. SlotsOver(sec)' = 0
    BY <1>2, <2>1, <2>2, <2>4, SlotsInStep
  <2>6. QED
    BY <2>3, <2>5 DEF SlotsOver
<1>3. HeldInv' => TypeOK'
  BY DEF HeldInv, MonitorInv, SaleInv
<1>4. QED
  BY <1>1, <1>2, <1>3, HeldInvHolds, PTL DEF Spec

LEMMA SlotsNotLostInStep ==
    ASSUME SaleInv, TypeOK', NoSlotIsLost, [Next]_vars
    PROVE  NoSlotIsLost'
<1> SUFFICES ASSUME NEW sec \in Sections
             PROVE  sem'[sec] >= Cardinality(Available(seat, sec)')
  BY DEF NoSlotIsLost, Available, SeatsOf
<1>1. \A u \in Users : Repeated(u, sec) \in Nat
  <2> SUFFICES ASSUME NEW u \in Users PROVE Repeated(u, sec) \in Nat
    OBVIOUS
  <2>1. sessions[u].seats \in [Seats -> Nat] /\ Listed(u) \in SUBSET Seats
    BY DEF SaleInv, TypeOK, Session, Listed
  <2>2. /\ Cardinality(Entries(sessions[u].seats, sec)) \in Nat
        /\ Cardinality(Listed(u) \cap SeatsOf(sec)) \in Nat
    BY <2>1, CountOfEntries, CountOfSection
  <2>3. QED
    BY <2>1, <2>2, CountEntries DEF Repeated
<1>2. /\ sem[sec] \in Nat /\ Cardinality(Available(seat, sec)) \in Nat
      /\ sem'[sec] \in Nat /\ Cardinality(Available(seat, sec)') \in Nat
  BY AvailableCount DEF SaleInv, TypeOK
<1>3. SlotsOver(sec) >= 0
  BY <1>2 DEF NoSlotIsLost, SlotsOver
<1>4. SlotsOver(sec) \in Int /\ SlotsOver(sec)' >= 0
  BY <1>1, <1>2, <1>3, SlotsInStep DEF SlotsOver
<1>5. QED
  BY <1>2, <1>4 DEF SlotsOver

\* Whatever log appends fail, no capacity is lost: a free seat has a slot, so
\* that no RESERVE is refused for NO_CAPACITY while its seats are free.
THEOREM CapacityIsKept == Spec => []NoSlotIsLost
<1>1. ASSUME Init PROVE NoSlotIsLost
  <2>1. \A sec \in Sections : Cardinality(Available(seat, sec)) \in Nat
    BY AvailableCount
  <2>2. QED
    BY <1>1, <2>1, SlotsAtStart DEF NoSlotIsLost
<1>2. SaleInv' => TypeOK'
  BY DEF SaleInv
<1>3. QED
  BY <1>1, <1>2, SlotsNotLostInStep, SaleInvHolds, PTL DEF Spec

-----------------------------------------------------------------------------
(* The saved matrix *)

\* Who saves the matrix saves all of it, as it is at the end of the step, and
\* not while a sale goes on.
LEMMA SeatsSaved ==
    ASSUME SaleInv, [Next]_vars
    PROVE  \/ dbSeat' = dbSeat
           \/ dbSeat' = seat' /\ \A t \in Threads : thread'[t].pc # "sell"
<1>1. TypeOK /\ SaleIsAlone
  BY DEF SaleInv
<1>2. ASSUME NEW t \in Threads, SaveSeats(t) \/ CommitSale(t)
      PROVE  dbSeat' = seat' /\ \A x \in Threads : thread'[x].pc # "sell"
  <2>1. dbSeat' = seat'
    BY <1>2 DEF SaveSeats, CommitSale, SaveAllSeats, seatVars
  <2>2. \A x \in Threads \ {t} : thread'[x].pc # "sell"
    BY <1>1, <1>2, ThreadAfter, NoSaleWhenFree DEF SaveSeats, CommitSale, SaleIsAlone
  <2>3. thread'[t].pc # "sell"
    BY <1>1, <1>2, ThreadAfter DEF SaveSeats, CommitSale
  <2>4. QED
    BY <2>1, <2>2, <2>3
<1>3. ASSUME NEW t \in Threads, Handle(t), ~SaveSeats(t), ~CommitSale(t)
      PROVE  dbSeat' = dbSeat
  BY <1>3 DEF Handle, ReserveSeats, RefuseReserve, SaveSessions, ReserveLogFails,
              Rollback, SellSeat, RecordBuyer, AnnounceSale, SaleLogFails, dbVars
<1>4. ASSUME NEW t \in Threads, NEW u \in Users, NEW id \in 1 .. lastId,
             CancelSession(t, u, id)
      PROVE  dbSeat' = seat' /\ \A x \in Threads : thread'[x].pc # "sell"
  BY <1>4, NoSaleWhenFree DEF CancelSession, SaveAllSeats
<1>5. ASSUME NEW t \in Threads, NEW u \in Users, Receive(t, u),
             ~ \E id \in 1 .. lastId : CancelSession(t, u, id)
      PROVE  dbSeat' = dbSeat
  BY <1>5 DEF Receive, RequestReserve, ConfirmSession, dbVars
<1>6. CASE ExpireSession
  BY <1>6, NoSaleWhenFree DEF ExpireSession, MonitorHasLocks, SaveAllSeats
<1>7. CASE MonitorNext /\ ~ExpireSession
  BY <1>7 DEF MonitorNext, Sweep, TakeSnapshot, SpareSession, AnnounceExpiry,
              ExpiryLogFails, WarnExpiring, WarnLogFails, dbVars
<1>8. CASE \/ Tick
           \/ \E u \in Subscribers, type \in NotificationType : Deliver(u, type)
           \/ \E job \in tickets.jobs : WriteTicket(job)
           \/ UNCHANGED vars
  BY <1>8 DEF Tick, Deliver, WriteTicket, vars, dbVars
<1>9. QED
  BY <1>2, <1>3, <1>4, <1>5, <1>6, <1>7, <1>8 DEF Next

SavedSoldIsSold == \A s \in Seats : dbSeat[s] = "SOLD" => seat[s] = "SOLD"

LEMMA SavedSoldStaysSold ==
    ASSUME SaleInv, SavedSoldIsSold, [Next]_vars
    PROVE  SavedSoldIsSold'
<1>1. \A s \in Seats : seat[s] = "SOLD" => seat'[s] = "SOLD"
  BY SeatSteps DEF SeatStep
<1>2. QED
  BY <1>1, SeatsSaved DEF SavedSoldIsSold

\* A sale begins with RESERVED seats and a matrix that is behind, if at all,
\* by sales that are over; and no one saves the matrix until its last seat.
LEMMA SaleUnsavedInStep ==
    ASSUME SaleInv, SavedSoldIsSold, SalesAreSavedWhole, [Next]_vars
    PROVE  SalesAreSavedWhole'
<1> SUFFICES ASSUME NEW t \in Threads, thread'[t].pc = "sell",
                    NEW s \in Seats, sessions'[thread'[t].user].seats[s] > 0
             PROVE  dbSeat'[s] # "SOLD"
  BY DEF SalesAreSavedWhole, Listed
<1>1. dbSeat' = dbSeat
  BY SeatsSaved
<1>2. CASE thread[t].pc = "sell"
  <2>1. ~CommitSale(t)
    BY ThreadAfter DEF CommitSale, SaleInv
  <2>2. sessions[thread[t].user].seats[s] > 0
    BY <1>2, <2>1, SaleGoesOnOrEnds DEF SaleGoesOn
  <2>3. QED
    BY <1>1, <1>2, <2>2 DEF SalesAreSavedWhole, Listed
<1>3. CASE thread[t].pc # "sell"
  <2>1. PICK u \in Users, id \in 1 .. lastId : ConfirmSession(t, u, id)
    BY <1>3, SaleBegins
  <2>2. thread'[t].user = u /\ sessions' = sessions /\ \A z \in Listed(u) : seat[z] = "RESERVED"
    BY <2>1 DEF ConfirmSession, SaleInv, TypeOK, Idle
  <2>3. seat[s] = "RESERVED"
    BY <2>2 DEF Listed
  <2>4. QED
    BY <1>1, <2>3 DEF SavedSoldIsSold
<1>4. QED
  BY <1>2, <1>3

\* The saved matrix shows the seats of one CONFIRM sold all together, although
\* their buyers are committed one by one: until the last one is, none of the
\* seats is SOLD in the database, whoever else saves the matrix.
THEOREM SalesAreSavedTogether == Spec => []SalesAreSavedWhole
<1> DEFINE Inv == SaleInv /\ SavedSoldIsSold /\ SalesAreSavedWhole
<1>1. ASSUME Init PROVE Inv
  <2>1. SavedSoldIsSold
    BY <1>1 DEF Init, SavedSoldIsSold
  <2>2. SalesAreSavedWhole
    BY <1>1 DEF Init, SalesAreSavedWhole, Idle
  <2>3. QED
    BY <1>1, <2>1, <2>2, SaleInvInit
<1>2. Inv /\ [Next]_vars => Inv'
  BY SaleInvStep, SavedSoldStaysSold, SaleUnsavedInStep
<1>3. Inv => SalesAreSavedWhole
  OBVIOUS
<1> HIDE DEF Inv
<1>4. QED
  BY <1>1, <1>2, <1>3, PTL DEF Spec

\* A seat that is changed and not saved is changed by a handler that has still
\* to save it.
LEMMA UnsavedInStep ==
    ASSUME MaxLogFaults = 0, SaleInv, NoFaults, SeatsAreSaved, [Next]_vars
    PROVE  SeatsAreSaved'
<1> SUFFICES ASSUME NEW s \in Seats, dbSeat'[s] # seat'[s]
             PROVE  \E t \in Threads : s \in UnsavedBy(t)'
  BY DEF SeatsAreSaved
<1>1. TypeOK /\ SaleHoldsSeats /\ dbSeat' = dbSeat
  BY SeatsSaved DEF SaleInv
<1>2. ASSUME NEW t \in Threads, s \in UnsavedBy(t), ~CommitSale(t), ~SaveSeats(t)
      PROVE  s \in UnsavedBy(t)'
  <2>1. CASE thread[t].pc = "sell"
    <3>1. SaleGoesOn(t)
      BY <1>2, <2>1, SaleGoesOnOrEnds DEF SaleInv
    <3>2. QED
      BY <1>2, <2>1, <3>1 DEF SaleGoesOn, UnsavedBy, Listed
  <2>2. CASE thread[t].pc = "reserved"
    <3>1. ~Handle(t)
      BY <1>2, <2>2 DEF Handle, ReserveSeats, RefuseReserve, SaveSessions,
             ReserveLogFails, Rollback, SellSeat, RecordBuyer, AnnounceSale,
             SaleLogFails, NoFaults
    <3>2. ~ \E u \in Users : Receive(t, u)
      BY <2>2 DEF Receive, RequestReserve, ConfirmSession, CancelSession
    <3>3. thread'[t] = thread[t]
      BY <1>1, <3>1, <3>2, OneThreadSteps
    <3>4. QED
      BY <1>2, <2>2, <3>3 DEF UnsavedBy
  <2>3. QED
    BY <1>2, <2>1, <2>2 DEF UnsavedBy
<1>3. ASSUME NEW t \in Threads, CommitSale(t) \/ SaveSeats(t) PROVE FALSE
  BY <1>3 DEF CommitSale, SaveSeats, SaveAllSeats, seatVars
<1>4. CASE seat'[s] = seat[s]
  BY <1>1, <1>2, <1>3, <1>4 DEF SeatsAreSaved
<1>5. ASSUME NEW t \in Threads, ReserveSeats(t), seat'[s] # seat[s]
      PROVE  s \in UnsavedBy(t)'
  BY <1>1, <1>5, ThreadAfter DEF ReserveSeats, SetSeats, UnsavedBy
<1>6. ASSUME NEW t \in Threads, NEW z \in Seats, SellSeat(t, z), seat'[s] # seat[s]
      PROVE  s \in UnsavedBy(t)'
  <2>1. s = z /\ thread[t].pc = "sell" /\ sessions' = sessions
    BY <1>6 DEF SellSeat, SetSeats
  <2>2. /\ thread'[t].pc = "sell" /\ thread'[t].user = thread[t].user
        /\ s \notin thread'[t].seats
    BY <1>1, <1>6, <2>1 DEF SellSeat, TypeOK, Request
  <2>3. sessions[thread[t].user].seats[s] > 0
    BY <1>1, <1>6, <2>1 DEF SellSeat, SaleHoldsSeats
  <2>4. QED
    BY <2>1, <2>2, <2>3 DEF UnsavedBy, Listed
<1>7. ASSUME NEW t \in Threads, Handle(t), ~ReserveSeats(t),
             ~ \E z \in Seats : SellSeat(t, z)
      PROVE  seat' = seat
  BY <1>7 DEF Handle, RefuseReserve, SaveSeats, SaveSessions, ReserveLogFails, Rollback,
              RecordBuyer, CommitSale, AnnounceSale, SaleLogFails, seatVars, NoFaults
<1>8. ASSUME NEW t \in Threads, NEW u \in Users, Receive(t, u)
      PROVE  seat' = seat \/ dbSeat' = seat'
  BY <1>8 DEF Receive, RequestReserve, ConfirmSession, CancelSession, SaveAllSeats,
              seatVars
<1>9. CASE MonitorNext
  BY <1>4, <1>9 DEF MonitorNext, Sweep, TakeSnapshot, ExpireSession, SpareSession,
         AnnounceExpiry, ExpiryLogFails, WarnExpiring, WarnLogFails, SaveAllSeats, seatVars
<1>10. CASE \/ Tick
            \/ \E u \in Subscribers, type \in NotificationType : Deliver(u, type)
            \/ \E job \in tickets.jobs : WriteTicket(job)
            \/ UNCHANGED vars
  BY <1>4, <1>10 DEF Tick, Deliver, WriteTicket, vars, seatVars
<1>11. QED
  BY <1>4, <1>5, <1>6, <1>7, <1>8, <1>9, <1>10 DEF Next

\* When no log append fails, a seat differs from its saved state only while a
\* handler that changed it has still to save it: no other thread's save can
\* leave the database behind.
THEOREM SeatsGetSaved ==
    ASSUME MaxLogFaults = 0
    PROVE  Spec => []SeatsAreSaved
<1>1. Init => SeatsAreSaved
  BY DEF Init, SeatsAreSaved
<1>2. HeldInv /\ SeatsAreSaved /\ [Next]_vars => SeatsAreSaved'
  BY UnsavedInStep DEF HeldInv, MonitorInv
<1>3. QED
  BY <1>1, <1>2, HeldInvHolds, PTL DEF Spec

-----------------------------------------------------------------------------
(* The saved sessions *)

\* A reservation its handler has still to save.
Pending(t, u, s) ==
    /\ thread[t].pc \in {"reserved", "saveSessions"} /\ thread[t].user = u
    /\ s \in thread[t].seats

RowHas(u, s) == dbSessions[u].id = sessions[u].id /\ s \in dbSessions[u].seats

LEMMA SavedOrPending ==
    ReservationsAreSaved <=>
        \A u \in Users, s \in Seats : sessions[u].seats[s] > 0 =>
            RowHas(u, s) \/ \E t \in Threads : Pending(t, u, s)
<1>1. \A u \in Users, s \in Seats :
          s \in UnsavedSessionSeats(u) <=> \E t \in Threads : Pending(t, u, s)
  BY DEF UnsavedSessionSeats, Pending
<1>2. QED
  BY <1>1 DEF ReservationsAreSaved, RowHas, Listed

\* A list grows by what the handler that appended to it will save.
LEMMA ListsInStep ==
    ASSUME SaleInv, [Next]_vars, NEW u \in Users, NEW s \in Seats,
           sessions'[u].seats[s] > 0
    PROVE  \/ sessions[u].seats[s] > 0 /\ sessions'[u].id = sessions[u].id
           \/ \E t \in Threads : Pending(t, u, s)'
<1> DEFINE Kept == sessions[u].seats[s] > 0 /\ sessions'[u].id = sessions[u].id
<1>1. TypeOK /\ NoSessionIsEmpty /\ ServingUsers
  BY DEF SaleInv
<1>2. ASSUME NEW v \in Users, sessions' = [sessions EXCEPT ![v] = GetOrCreate(v)]
      PROVE  Kept
  <2>1. sessions'[u].seats = sessions[u].seats
    BY <1>1, <1>2, SessionGot DEF TypeOK
  <2>2. sessions[u].id # 0
    BY <1>1, <2>1 DEF NoSessionIsEmpty, NoSeats
  <2>3. QED
    BY <1>1, <1>2, <2>1, <2>2 DEF TypeOK, GetOrCreate, HasSession
<1>3. ASSUME \E v : sessions' = RemoveSession(v) PROVE Kept
  BY <1>1, <1>3 DEF RemoveSession, NoSession, NoSeats, TypeOK
<1>4. ASSUME sessions' = sessions PROVE Kept
  BY <1>4
<1>5. ASSUME NEW t \in Threads, ReserveSeats(t)
      PROVE  Kept \/ Pending(t, u, s)'
  <2> DEFINE v == thread[t].user
             S == thread[t].seats
             g == GetOrCreate(v)
  <2>1. /\ v \in Users /\ sessions' = [sessions EXCEPT ![v] = AppendSeats(g, S)]
        /\ thread'[t].pc = "reserved" /\ thread'[t].user = v /\ thread'[t].seats = S
    BY <1>1, <1>5, ThreadAfter DEF ReserveSeats, ServingUsers
  <2>2. g \in Session /\ g.seats = sessions[v].seats
        /\ (g = sessions[v] \/ sessions[v].id = 0)
    BY <1>1, <2>1, SessionGot
  <2>3. /\ AppendSeats(g, S).id = g.id
        /\ s \notin S => AppendSeats(g, S).seats[s] = sessions[v].seats[s]
    BY <2>2, SessionAppended
  <2> HIDE DEF g, S
  <2>4. CASE u # v
    BY <1>1, <2>1, <2>4 DEF TypeOK
  <2>5. CASE u = v /\ s \in S
    BY <2>1, <2>5 DEF Pending
  <2>6. CASE u = v /\ s \notin S
    <3>1. sessions[u].seats[s] > 0 /\ sessions'[u].id = g.id
      BY <1>1, <2>1, <2>3, <2>6 DEF TypeOK
    <3>2. sessions[u].id # 0
      BY <1>1, <3>1 DEF NoSessionIsEmpty, NoSeats
    <3>3. QED
      BY <2>2, <2>6, <3>1, <3>2
  <2>7. QED
    BY <2>4, <2>5, <2>6
<1> HIDE DEF Kept
<1>6. ASSUME NEW t \in Threads, Handle(t), ~ReserveSeats(t) PROVE Kept
  BY <1>1, <1>2, <1>3, <1>4, <1>6
     DEF Handle, RefuseReserve, SaveSeats, SaveSessions, ReserveLogFails, Rollback,
         SellSeat, RecordBuyer, CommitSale, AnnounceSale, SaleLogFails, ServingUsers
<1>7. ASSUME NEW t \in Threads, NEW v \in Users, Receive(t, v) PROVE Kept
  BY <1>2, <1>3, <1>4, <1>7 DEF Receive, RequestReserve, ConfirmSession, CancelSession
<1>8. CASE MonitorNext
  <2>1. sessions' = sessions \/ sessions' = RemoveSession(mon.target.user)
    BY <1>8 DEF MonitorNext, Sweep, TakeSnapshot, ExpireSession, SpareSession,
                AnnounceExpiry, ExpiryLogFails, WarnExpiring, WarnLogFails
  <2>2. QED
    BY <1>3, <1>4, <2>1 DEF Kept
<1>9. CASE Tick
  BY <1>1, <1>9, SessionsAfterTick DEF Kept
<1>10. CASE \/ \E v \in Subscribers, type \in NotificationType : Deliver(v, type)
            \/ \E job \in tickets.jobs : WriteTicket(job)
            \/ UNCHANGED vars
  BY <1>4, <1>10 DEF Deliver, WriteTicket, vars
<1>11. QED
  BY <1>5, <1>6, <1>7, <1>8, <1>9, <1>10 DEF Next, Kept

\* Rows change when the sessions are saved, and with the clock.
LEMMA RowsInStep ==
    ASSUME TypeOK, [Next]_vars
    PROVE  \/ \E t \in Threads : SaveSessions(t)
           \/ \A u \in Users : /\ dbSessions'[u].id = dbSessions[u].id
                               /\ dbSessions'[u].seats = dbSessions[u].seats
<1>1. ASSUME NEW t \in Threads, Handle(t), ~SaveSessions(t)
      PROVE  dbSessions' = dbSessions
  BY <1>1 DEF Handle, ReserveSeats, RefuseReserve, SaveSeats, ReserveLogFails, Rollback,
              SellSeat, RecordBuyer, CommitSale, AnnounceSale, SaleLogFails,
              DeleteSession, dbVars
<1>2. ASSUME NEW t \in Threads, NEW u \in Users, Receive(t, u)
      PROVE  dbSessions' = dbSessions
  BY <1>2 DEF Receive, RequestReserve, ConfirmSession, CancelSession, DeleteSession,
              dbVars
<1>3. CASE MonitorNext
  BY <1>3 DEF MonitorNext, Sweep, TakeSnapshot, ExpireSession, SpareSession,
              AnnounceExpiry, ExpiryLogFails, WarnExpiring, WarnLogFails, DeleteSession, dbVars
<1>4. CASE Tick
  BY <1>4 DEF Tick, TypeOK, Row
<1>5. CASE \/ \E u \in Subscribers, type \in NotificationType : Deliver(u, type)
           \/ \E job \in tickets.jobs : WriteTicket(job)
           \/ UNCHANGED vars
  BY <1>5 DEF Deliver, WriteTicket, vars, dbVars
<1>6. QED
  BY <1>1, <1>2, <1>3, <1>4, <1>5 DEF Next

LEMMA ReservationsSavedInStep ==
    ASSUME MaxLogFaults = 0, SaleInv, NoFaults, ReservationsAreSaved, [Next]_vars
    PROVE  ReservationsAreSaved'
<1>1. TypeOK /\ NoSessionIsEmpty
  BY DEF SaleInv
<1> SUFFICES ASSUME NEW u \in Users, NEW s \in Seats, sessions'[u].seats[s] > 0
             PROVE  RowHas(u, s)' \/ \E t \in Threads : Pending(t, u, s)'
  <2>1. \A u \in Users, s \in Seats :
            (\E t \in Threads : Pending(t, u, s)') => s \in UnsavedSessionSeats(u)'
    BY DEF UnsavedSessionSeats, Pending
  <2>2. QED
    BY <2>1 DEF ReservationsAreSaved, RowHas, Listed
<1>2. ASSUME NEW t \in Threads, SaveSessions(t) PROVE RowHas(u, s)'
  <2>1. sessions' = sessions /\ HasSession(u)
    BY <1>1, <1>2 DEF SaveSessions, NoSessionIsEmpty, NoSeats, HasSession
  <2>2. dbSessions'[u].id = sessions[u].id /\ dbSessions'[u].seats = Listed(u)
    BY <1>2, <2>1 DEF SaveSessions, SaveAllSessions
  <2>3. QED
    BY <2>1, <2>2 DEF RowHas, Listed
<1>3. ASSUME NEW t \in Threads, Pending(t, u, s), ~SaveSessions(t)
      PROVE  Pending(t, u, s)'
  <2>1. CASE Handle(t)
    <3>1. ~ReserveLogFails(t)
      BY DEF ReserveLogFails, NoFaults
    <3>2. SaveSeats(t)
      BY <1>3, <2>1, <3>1 DEF Pending, Handle, ReserveSeats, RefuseReserve, Rollback,
             SellSeat, RecordBuyer, CommitSale, AnnounceSale, SaleLogFails
    <3>3. QED
      BY <1>1, <1>3, <3>2, ThreadAfter DEF SaveSeats, Pending
  <2>2. CASE ~Handle(t)
    <3>1. ~ \E v \in Users : Receive(t, v)
      BY <1>3 DEF Pending, Receive, RequestReserve, ConfirmSession, CancelSession
    <3>2. thread'[t] = thread[t]
      BY <1>1, <2>2, <3>1, OneThreadSteps
    <3>3. QED
      BY <1>3, <3>2 DEF Pending
  <2>3. QED
    BY <2>1, <2>2
<1>4. CASE ~ \E t \in Threads : SaveSessions(t)
  <2>1. CASE \E t \in Threads : Pending(t, u, s)'
    BY <2>1
  <2>2. CASE sessions[u].seats[s] > 0 /\ sessions'[u].id = sessions[u].id
    <3>1. RowHas(u, s) \/ \E t \in Threads : Pending(t, u, s)
      BY <2>2, SavedOrPending
    <3>2. RowHas(u, s) => RowHas(u, s)'
      BY <1>1, <1>4, <2>2, RowsInStep DEF RowHas
    <3>3. QED
      BY <1>3, <1>4, <3>1, <3>2
  <2>3. QED
    BY <2>1, <2>2, ListsInStep
<1>5. QED
  BY <1>2, <1>4

\* When no log append fails, a reservation that was answered with SUCCESS is in
\* the database, under the session id the client was given: the row of an
\* earlier session that CONFIRM, CANCEL or the monitor leaves there does not
\* stand in its place.
THEOREM ReservationsGetSaved ==
    ASSUME MaxLogFaults = 0
    PROVE  Spec => []ReservationsAreSaved
<1>1. Init => ReservationsAreSaved
  BY DEF Init, ReservationsAreSaved, Listed, NoSession, NoSeats
<1>2. HeldInv /\ ReservationsAreSaved /\ [Next]_vars => ReservationsAreSaved'
  BY ReservationsSavedInStep DEF HeldInv, MonitorInv
<1>3. QED
  BY <1>1, <1>2, HeldInvHolds, PTL DEF Spec

-----------------------------------------------------------------------------
(* Tickets *)

Issued == tickets.jobs \cup tickets.files

\* A session id is with one user, then with one handler that has sold its
\* seats, then on one ticket: never in two of these places.
SaleOfSession ==
    \A t \in Threads : thread[t].pc = "sell" =>
        OwnsSession(thread[t].user, thread[t].id)
SessionsApart ==
    \A u, v \in Users :
        sessions[u].id = sessions[v].id /\ sessions[u].id # 0 => u = v
SoldApart ==
    \A t \in Threads : thread[t].pc = "sold" =>
        /\ thread[t].id \in 1 .. lastId
        /\ \A u \in Users : sessions[u].id # thread[t].id
        /\ \A x \in Threads : thread[x].pc = "sold" /\ thread[x].id = thread[t].id => x = t
        /\ \A x \in Issued : x.id # thread[t].id
TicketsApart ==
    \A x \in Issued : /\ x.id \in 1 .. lastId /\ x.number <= tickets.counter
                      /\ \A u \in Users : sessions[u].id # x.id

TicketInv ==
    /\ MonitorInv /\ OneTicketPerSale
    /\ SaleOfSession /\ SessionsApart /\ SoldApart /\ TicketsApart

\* The handler that is done with a sale issues its ticket, or none.
TicketIssued(t) ==
    /\ thread[t].pc = "sold" /\ thread'[t].pc = "idle"
    /\ tickets'.counter = tickets.counter + 1
    /\ Issued' \subseteq
           Issued \cup {[number |-> tickets.counter + 1, id |-> thread[t].id]}

LEMMA TicketsInStep ==
    ASSUME TypeOK, [Next]_vars
    PROVE  \/ \E t \in Threads : TicketIssued(t)
           \/ tickets'.counter = tickets.counter /\ Issued' \subseteq Issued
<1>1. ASSUME NEW t \in Threads, NEW id, IssueTicket(id)
      PROVE  /\ tickets'.counter = tickets.counter + 1
             /\ Issued' \subseteq
                    Issued \cup {[number |-> tickets.counter + 1, id |-> id]}
  <2> DEFINE ticket == [number |-> tickets.counter + 1, id |-> id]
  <2>1. /\ tickets'.counter = tickets.counter + 1 /\ tickets'.files = tickets.files
        /\ tickets'.jobs \subseteq tickets.jobs \cup {ticket}
    BY <1>1 DEF IssueTicket, TypeOK
  <2> HIDE DEF ticket
  <2>2. Issued' \subseteq Issued \cup {ticket}
    BY <2>1 DEF Issued
  <2>3. QED
    BY <2>1, <2>2 DEF ticket
<1>2. ASSUME tickets' = tickets
      PROVE  tickets'.counter = tickets.counter /\ Issued' \subseteq Issued
  BY <1>2 DEF Issued
<1>3. ASSUME NEW t \in Threads, AnnounceSale(t) PROVE TicketIssued(t)
  <2>1. thread[t].pc = "sold" /\ thread'[t].pc = "idle" /\ IssueTicket(thread[t].id)
    BY <1>3, ThreadAfter DEF AnnounceSale
  <2>2. QED
    BY <1>1, <2>1 DEF TicketIssued
<1>4. ASSUME NEW t \in Threads, NEW done \in SaleStepsDone, SaleLogFails(t, done)
      PROVE  TicketIssued(t) \/ tickets' = tickets
  <2>1. /\ thread[t].pc = "sold" /\ thread'[t].pc = "idle"
        /\ IssueTicket(thread[t].id) \/ tickets' = tickets
    BY <1>4, ThreadAfter DEF SaleLogFails
  <2>2. QED
    BY <1>1, <2>1 DEF TicketIssued
<1>5. ASSUME NEW t \in Threads, Handle(t), ~AnnounceSale(t),
             ~ \E done \in SaleStepsDone : SaleLogFails(t, done)
      PROVE  tickets' = tickets
  BY <1>5 DEF Handle, ReserveSeats, RefuseReserve, SaveSeats, SaveSessions,
              ReserveLogFails, Rollback, SellSeat, RecordBuyer, CommitSale
<1>6. ASSUME NEW t \in Threads, NEW u \in Users, Receive(t, u) PROVE tickets' = tickets
  BY <1>6 DEF Receive, RequestReserve, ConfirmSession, CancelSession
<1>7. ASSUME MonitorNext PROVE tickets' = tickets
  BY <1>7 DEF MonitorNext, Sweep, TakeSnapshot, ExpireSession, SpareSession,
              AnnounceExpiry, ExpiryLogFails, WarnExpiring, WarnLogFails
<1>8. ASSUME NEW job \in tickets.jobs, WriteTicket(job)
      PROVE  tickets'.counter = tickets.counter /\ Issued' \subseteq Issued
  <2>1. /\ tickets'.counter = tickets.counter /\ tickets'.jobs \subseteq tickets.jobs
        /\ tickets'.files \subseteq tickets.files \cup {job}
    BY <1>8 DEF WriteTicket, TypeOK
  <2>2. QED
    BY <2>1 DEF Issued
<1>9. QED
  BY <1>2, <1>3, <1>4, <1>5, <1>6, <1>7, <1>8 DEF Next, Tick, Deliver, vars

\* A handler has sold seats when CONFIRM has just committed them, or had.
LEMMA SoldInStep ==
    ASSUME TypeOK, [Next]_vars, NEW t \in Threads, thread'[t].pc = "sold"
    PROVE  thread'[t] = thread[t] \/ CommitSale(t)
<1>1. ASSUME Handle(t), ~CommitSale(t) PROVE FALSE
  <2>1. CASE \E s \in Seats : SellSeat(t, s)
    BY <2>1 DEF SellSeat, TypeOK
  <2>2. CASE RecordBuyer(t)
    BY <2>2 DEF RecordBuyer, TypeOK
  <2>3. CASE ~ (\E s \in Seats : SellSeat(t, s)) /\ ~RecordBuyer(t)
    <3>1. \/ Answer(t)
          \/ \E pc \in {"reserved", "saveSessions", "rollback"} : Goto(t, pc)
      BY <1>1, <2>3
         DEF Handle, ReserveSeats, RefuseReserve, SaveSeats, SaveSessions,
             ReserveLogFails, Rollback, AnnounceSale, SaleLogFails
    <3>2. QED
      BY <3>1, ThreadAfter
  <2>4. QED
    BY <2>1, <2>2, <2>3
<1>2. ASSUME NEW u \in Users, Receive(t, u) PROVE thread'[t] = thread[t]
  <2>1. ~ \E S \in SUBSET Seats : RequestReserve(t, u, S)
    BY ThreadAfterRequest
  <2>2. ~ \E id \in 1 .. lastId : ConfirmSession(t, u, id)
    BY DEF ConfirmSession, TypeOK, Idle
  <2>3. QED
    BY <1>2, <2>1, <2>2 DEF Receive, CancelSession
<1>3. QED
  BY <1>1, <1>2, OneThreadSteps

LEMMA SaleOfSessionInStep ==
    ASSUME SaleInv, TypeOK', SaleOfSession, [Next]_vars
    PROVE  SaleOfSession'
<1> SUFFICES ASSUME NEW t \in Threads, thread'[t].pc = "sell"
             PROVE  OwnsSession(thread[t].user, thread[t].id)'
  BY DEF SaleOfSession
<1>1. TypeOK
  BY DEF SaleInv
<1>2. CASE thread[t].pc = "sell"
  <2>1. ~CommitSale(t)
    BY <1>1, ThreadAfter DEF CommitSale
  <2>2. SaleGoesOn(t)
    BY <1>2, <2>1, SaleGoesOnOrEnds
  <2>3. OwnsSession(thread[t].user, thread[t].id)
    BY <1>2 DEF SaleOfSession
  <2>4. QED
    BY <2>2, <2>3 DEF SaleGoesOn, OwnsSession
<1>3. CASE thread[t].pc # "sell"
  <2>1. PICK u \in Users, id \in 1 .. lastId : ConfirmSession(t, u, id)
    BY <1>3, SaleBegins
  <2>2. thread'[t].user = u /\ thread'[t].id = id /\ sessions' = sessions
    BY <1>1, <2>1 DEF ConfirmSession, TypeOK, Idle
  <2>3. QED
    BY <2>1, <2>2 DEF ConfirmSession, OwnsSession
<1>4. QED
  BY <1>2, <1>3

\* Session ids after the step are ids from before it, or new.
LEMMA SessionsApartInStep ==
    ASSUME MonitorInv, SessionIdsMove, SessionsApart
    PROVE  /\ SessionsApart'
           /\ \A id \in 1 .. lastId :
                  (\A u \in Users : sessions[u].id # id) =>
                      \A u \in Users : sessions'[u].id # id
<1>1. \A u \in Users : sessions[u].id \in Nat /\ sessions[u].id <= lastId
  BY DEF MonitorInv, SaleInv, TypeOK, Session, IdsAreOld
<1>2. SessionsApart'
  <2> SUFFICES ASSUME NEW u \in Users, NEW v \in Users,
                      sessions'[u].id = sessions'[v].id, sessions'[u].id # 0
               PROVE  u = v
    BY DEF SessionsApart
  <2>1. CASE sessions'[u].id = sessions[u].id /\ sessions'[v].id = sessions[v].id
    BY <2>1 DEF SessionsApart
  <2>2. CASE lastId < sessions'[u].id
    BY <1>1, <2>2 DEF SessionIdsMove
  <2>3. QED
    BY <1>1, <2>1, <2>2 DEF SessionIdsMove
<1>3. ASSUME NEW id \in 1 .. lastId, \A u \in Users : sessions[u].id # id,
             NEW u \in Users, sessions'[u].id = id
      PROVE  FALSE
  BY <1>1, <1>3 DEF SessionIdsMove
<1>4. QED
  BY <1>2, <1>3

\* CONFIRM takes the id out of the sessions when it is done selling.
LEMMA SoldFromSession ==
    ASSUME TypeOK, TypeOK', ServingUsers, SaleOfSession, SessionsApart, lastId' \in Nat,
           \A u \in Users : sessions[u].id \in 0 .. lastId, lastId <= lastId',
           NEW t \in Threads, CommitSale(t)
    PROVE  /\ thread'[t].id = thread[t].id /\ thread[t].id \in 1 .. lastId
           /\ sessions[thread[t].user].id = thread[t].id /\ thread[t].user \in Users
           /\ \A u \in Users : sessions'[u].id # thread[t].id
           /\ tickets' = tickets
           /\ \A x \in Threads \ {t} : thread'[x] = thread[x]
<1> DEFINE v == thread[t].user
<1>1. v \in Users /\ OwnsSession(v, thread[t].id) /\ thread[t].id \in Nat
  BY DEF CommitSale, ServingUsers, SaleOfSession, TypeOK, Request
<1>2. sessions[v].id = thread[t].id /\ thread[t].id # 0
  BY <1>1 DEF OwnsSession
<1>3. thread[t].id \in 1 .. lastId
  BY <1>1, <1>2
<1>4. thread'[t].id = thread[t].id /\ \A x \in Threads \ {t} : thread'[x] = thread[x]
  BY DEF CommitSale, Goto, TypeOK, Request
<1>5. sessions' = [sessions EXCEPT ![v] = NoSession] /\ tickets' = tickets
  BY DEF CommitSale, RemoveSession
<1>6. \A u \in Users : sessions'[u].id # thread[t].id
  BY <1>1, <1>2, <1>5 DEF SessionsApart, TypeOK, NoSession
<1>7. QED
  BY <1>1, <1>2, <1>3, <1>4, <1>5, <1>6

LEMMA TicketInvStep == TicketInv /\ [Next]_vars => TicketInv'
<1> SUFFICES ASSUME TicketInv, [Next]_vars PROVE TicketInv'
  OBVIOUS
<1>1. /\ MonitorInv /\ MonitorInv' /\ SaleInv /\ TypeOK /\ TypeOK' /\ ServingUsers
      /\ SessionIdsMove
  <2>1. MonitorInv /\ MonitorInv'
    BY MonitorInvStep DEF TicketInv
  <2>2. SaleInv /\ TypeOK /\ TypeOK' /\ ServingUsers
    BY <2>1 DEF MonitorInv, SaleInv
  <2>3. QED
    BY <2>1, <2>2, SessionIdsStep
<1>2. SaleOfSession' /\ SessionsApart'
  BY <1>1, SaleOfSessionInStep, SessionsApartInStep DEF TicketInv
<1>3. \A id \in 1 .. lastId : (\A u \in Users : sessions[u].id # id) =>
                                  \A u \in Users : sessions'[u].id # id
  BY <1>1, SessionsApartInStep DEF TicketInv
<1>4. lastId \in Nat /\ lastId' \in Nat /\ lastId <= lastId'
  BY <1>1 DEF SessionIdsMove
<1>5. /\ Issued \subseteq Ticket /\ tickets.counter \in Nat
      /\ \A x \in Issued : x.number \in Nat
  BY <1>1 DEF TypeOK, Issued, Ticket
<1>6. \A u \in Users : sessions[u].id \in 0 .. lastId
  BY <1>1, <1>4 DEF MonitorInv, IdsAreOld, TypeOK, Session
<1>7. CASE \E t \in Threads : CommitSale(t)
  <2>1. PICK t \in Threads : CommitSale(t)
    BY <1>7
  <2>2. /\ thread'[t].id = thread[t].id /\ thread[t].id \in 1 .. lastId
        /\ sessions[thread[t].user].id = thread[t].id /\ thread[t].user \in Users
        /\ \A u \in Users : sessions'[u].id # thread[t].id
        /\ tickets' = tickets
        /\ \A x \in Threads \ {t} : thread'[x] = thread[x]
    BY <1>1, <1>4, <1>6, <2>1, SoldFromSession DEF TicketInv
  <2>3. Issued' = Issued
    BY <2>2 DEF Issued
  <2>4. SoldApart'
    BY <1>3, <1>4, <2>2, <2>3 DEF TicketInv, SoldApart, TicketsApart
  <2>5. TicketsApart'
    BY <1>3, <1>4, <2>2, <2>3 DEF TicketInv, TicketsApart
  <2>6. OneTicketPerSale'
    BY <2>3 DEF TicketInv, OneTicketPerSale, Issued
  <2>7. QED
    BY <1>1, <1>2, <2>4, <2>5, <2>6 DEF TicketInv
<1>8. CASE ~ \E t \in Threads : CommitSale(t)
  <2>1. \A x \in Threads : thread'[x].pc = "sold" => thread'[x] = thread[x]
    BY <1>1, <1>8, SoldInStep
  <2>2. CASE tickets'.counter = tickets.counter /\ Issued' \subseteq Issued
    <3>1. SoldApart'
      BY <1>3, <1>4, <2>1, <2>2 DEF TicketInv, SoldApart
    <3>2. TicketsApart'
      BY <1>3, <1>4, <2>2 DEF TicketInv, TicketsApart
    <3>3. OneTicketPerSale'
      BY <2>2 DEF TicketInv, OneTicketPerSale, Issued
    <3>4. QED
      BY <1>1, <1>2, <3>1, <3>2, <3>3 DEF TicketInv
  <2>3. ASSUME NEW t \in Threads, TicketIssued(t) PROVE TicketInv'
    <3> DEFINE n == [number |-> tickets.counter + 1, id |-> thread[t].id]
    <3>1. /\ n.number = tickets.counter + 1 /\ n.id = thread[t].id
          /\ thread[t].pc = "sold" /\ thread'[t].pc = "idle"
          /\ tickets'.counter = tickets.counter + 1 /\ Issued' \subseteq Issued \cup {n}
      BY <2>3 DEF TicketIssued
    <3> HIDE DEF n
    <3>2. /\ n.id \in 1 .. lastId /\ \A u \in Users : sessions[u].id # n.id
          /\ \A x \in Issued : x.id # n.id /\ x.number # n.number
          /\ \A x \in Threads \ {t} : thread[x].pc = "sold" => thread[x].id # n.id
      BY <1>5, <3>1 DEF TicketInv, SoldApart, TicketsApart
    <3>3. SoldApart'
      BY <1>3, <1>4, <2>1, <3>1, <3>2 DEF TicketInv, SoldApart
    <3>4. TicketsApart'
      <4> SUFFICES ASSUME NEW x \in Issued'
                   PROVE  /\ x.id \in 1 .. lastId' /\ x.number <= tickets'.counter
                          /\ \A u \in Users : sessions'[u].id # x.id
        BY DEF TicketsApart
      <4>1. /\ x.id \in 1 .. lastId /\ \A u \in Users : sessions[u].id # x.id
            /\ x.number <= tickets.counter + 1
        BY <1>5, <3>1, <3>2 DEF TicketInv, TicketsApart
      <4>2. QED
        BY <1>3, <1>4, <3>1, <4>1
    <3>5. OneTicketPerSale'
      <4>1. \A x, y \in Issued \cup {n} : x.number = y.number <=> x.id = y.id
        BY <3>2 DEF TicketInv, OneTicketPerSale, Issued
      <4>2. QED
        BY <3>1, <4>1 DEF OneTicketPerSale, Issued
    <3>6. QED
      BY <1>1, <1>2, <3>3, <3>4, <3>5 DEF TicketInv
  <2>4. QED
    BY <1>1, <2>2, <2>3, TicketsInStep
<1>9. QED
  BY <1>7, <1>8

LEMMA TicketInvHolds == Spec => []TicketInv
<1>1. ASSUME Init PROVE TicketInv
  <2>1. Issued = {} /\ \A t \in Threads : thread[t].pc = "idle"
    BY <1>1 DEF Init, Issued, Idle
  <2>2. \A u \in Users : sessions[u].id = 0
    BY <1>1 DEF Init, NoSession
  <2>3. OneTicketPerSale
    BY <2>1 DEF OneTicketPerSale, Issued
  <2>4. QED
    BY <1>1, <2>1, <2>2, <2>3, MonitorInvInit
       DEF TicketInv, SaleOfSession, SessionsApart, SoldApart, TicketsApart
<1>2. QED
  BY <1>1, TicketInvStep, PTL DEF Spec

\* A sale has one ticket and a ticket one sale, whatever fails and however many
\* CONFIRMs of one session race: its id is on one ticket at most, and no
\* ticket number is given twice while the server runs.
THEOREM TicketsMatchSales == Spec => []OneTicketPerSale
<1>1. TicketInv => OneTicketPerSale
  BY DEF TicketInv
<1>2. QED
  BY <1>1, TicketInvHolds, PTL

-----------------------------------------------------------------------------
(* The sale the audience is promised *)

\* What saleStatus says of a seat whose one holder is known.
StatusIsKnown ==
    \A s \in Seats :
        /\ \A u \in Users : s \in Listed(u) => saleStatus[s] = Sale!Reserved(u)
        /\ Holders(s) = {} =>
               saleStatus[s] = IF seat[s] = "SOLD" THEN Sale!Sold(dbPurchased[s])
                               ELSE Sale!Free

LEMMA StatusOfSeats == ReachInv /\ HeldInv => StatusIsKnown
<1> SUFFICES ASSUME ReachInv, HeldInv, NEW s \in Seats
             PROVE  /\ \A u \in Users : s \in Listed(u) =>
                           saleStatus[s] = Sale!Reserved(u)
                    /\ Holders(s) = {} =>
                           saleStatus[s] = IF seat[s] = "SOLD"
                                           THEN Sale!Sold(dbPurchased[s])
                                           ELSE Sale!Free
  BY DEF StatusIsKnown
<1>1. ASSUME NEW u \in Users, s \in Listed(u)
      PROVE  saleStatus[s] = Sale!Reserved(u)
  <2>1. Holders(s) = {u}
    BY <1>1 DEF Holders, HeldInv, OneHolder, Listed
  <2>2. (CHOOSE v \in Holders(s) : TRUE) = u
    BY <2>1
  <2>3. QED
    BY <2>1, <2>2 DEF saleStatus, Sale!Reserved
<1>2. ASSUME Holders(s) = {}
      PROVE  saleStatus[s] = IF seat[s] = "SOLD" THEN Sale!Sold(dbPurchased[s])
                             ELSE Sale!Free
  <2>1. seat[s] # "RESERVED"
    BY <1>2 DEF ReachInv, ReservedSeatsAreListed, Holders, Listed
  <2>2. seat[s] \in SeatState
    BY DEF HeldInv, MonitorInv, SaleInv, TypeOK
  <2>3. QED
    BY <1>2, <2>1, <2>2 DEF saleStatus, SeatState, Sale!Sold, Sale!Free
<1>3. QED
  BY <1>1, <1>2

LEMMA StatusKept ==
    ASSUME StatusIsKnown, StatusIsKnown', NEW s \in Seats,
           \A u \in Users : s \in Listed(u)' <=> s \in Listed(u),
           Holders(s) = {} => seat'[s] = seat[s] /\ dbPurchased'[s] = dbPurchased[s]
    PROVE  saleStatus'[s] = saleStatus[s]
<1>1. CASE Holders(s) = {}
  <2>1. Holders(s)' = {}
    BY <1>1 DEF Holders, Listed
  <2>2. saleStatus'[s] = IF seat'[s] = "SOLD" THEN Sale!Sold(dbPurchased'[s])
                         ELSE Sale!Free
    BY <2>1 DEF StatusIsKnown, Sale!Sold, Sale!Free
  <2>3. saleStatus[s] = IF seat[s] = "SOLD" THEN Sale!Sold(dbPurchased[s])
                        ELSE Sale!Free
    BY <1>1 DEF StatusIsKnown
  <2>4. QED
    BY <1>1, <2>2, <2>3
<1>2. CASE Holders(s) # {}
  <2>1. PICK u \in Users : s \in Listed(u) /\ s \in Listed(u)'
    BY <1>2 DEF Holders, Listed
  <2>2. saleStatus[s] = Sale!Reserved(u)
    BY <2>1 DEF StatusIsKnown
  <2>3. saleStatus'[s] = Sale!Reserved(u)
    BY <2>1 DEF StatusIsKnown, Sale!Reserved
  <2>4. QED
    BY <2>2, <2>3
<1>3. QED
  BY <1>1, <1>2

LEMMA StatusIsFunction ==
    /\ saleStatus = [s \in Seats |-> saleStatus[s]]
    /\ saleStatus' = [s \in Seats |-> saleStatus'[s]]
  BY DEF saleStatus

LEMMA ReservedByIsListed ==
    ASSUME StatusIsKnown, NEW u \in Users
    PROVE  Sale!ReservedBy(u) = Listed(u)
<1>1. ASSUME NEW s \in Seats, saleStatus[s] = Sale!Reserved(u) PROVE s \in Listed(u)
  <2>1. Holders(s) # {}
    <3>1. /\ Sale!Reserved(u).state = "RESERVED" /\ Sale!Free.state = "AVAILABLE"
          /\ Sale!Sold(dbPurchased[s]).state = "SOLD"
      BY DEF Sale!Reserved, Sale!Sold, Sale!Free
    <3>2. QED
      BY <1>1, <3>1 DEF StatusIsKnown
  <2>2. PICK v \in Users : s \in Listed(v)
    BY <2>1 DEF Holders, Listed
  <2>3. saleStatus[s] = Sale!Reserved(v)
    BY <2>2 DEF StatusIsKnown
  <2>4. u = v
    BY <1>1, <2>3 DEF Sale!Reserved
  <2>5. QED
    BY <2>2, <2>4
<1>2. \A s \in Listed(u) : s \in Seats /\ saleStatus[s] = Sale!Reserved(u)
  BY DEF StatusIsKnown, Listed
<1>3. QED
  BY <1>1, <1>2 DEF Sale!ReservedBy

\* A step of the sale, session by session.
SaleStep == Sale!SessionNext \/ UNCHANGED <<saleStatus, sessionIds, lastId>>

\* get_or_create is the session a user gets.
LEMMA SaleSessionGot ==
    ASSUME TypeOK, NoSessionIsEmpty, NEW u \in Users, NEW session,
           session.id = GetOrCreate(u).id,
           sessions' = [sessions EXCEPT ![u] = session], lastId' = IdsAfterGet(u)
    PROVE  Sale!GetSession(u)
<1>1. sessionIds' = [sessionIds EXCEPT ![u] = GetOrCreate(u).id]
  BY DEF sessionIds, TypeOK
<1>2. sessionIds[u] = sessions[u].id
  BY DEF sessionIds
<1>3. CASE GetOrCreate(u) = sessions[u] /\ IdsAfterGet(u) = lastId
  <2>1. sessionIds' = sessionIds
    BY <1>1, <1>2, <1>3 DEF sessionIds
  <2>2. sessions[u].id # 0
    BY <1>3, SessionGot
  <2>3. QED
    BY <1>2, <1>3, <2>1, <2>2 DEF Sale!GetSession
<1>4. CASE sessions[u].id = 0
  BY <1>1, <1>2, <1>4, SessionGot DEF Sale!GetSession, GetOrCreate, IdsAfterGet, HasSession
<1>5. QED
  BY <1>3, <1>4, SessionGot

LEMMA SaleSessionEnds ==
    ASSUME TypeOK, NEW u \in Users, sessions' = [sessions EXCEPT ![u] = NoSession]
    PROVE  sessionIds' = [sessionIds EXCEPT ![u] = 0]
  BY DEF sessionIds, NoSession, TypeOK

\* CONFIRM, CANCEL and the monitor end a user's reservations.
LEMMA SaleRelease ==
    ASSUME HeldInv, StatusIsKnown, StatusIsKnown', NEW u \in Users,
           sessions[u].id # 0, lastId' = lastId,
           sessions' = [sessions EXCEPT ![u] = NoSession],
           \A s \in Seats \ Listed(u) :
               seat'[s] = seat[s] /\ dbPurchased'[s] = dbPurchased[s],
           \/ \A s \in Listed(u) : seat'[s] = "SOLD" /\ dbPurchased'[s] = u
           \/ \A s \in Listed(u) : seat'[s] = "AVAILABLE"
    PROVE  SaleStep
<1>1. \A v \in Users : Listed(v)' = IF v = u THEN {} ELSE Listed(v)
  BY DEF HeldInv, MonitorInv, SaleInv, TypeOK, Listed, NoSession, NoSeats
<1>2. ASSUME NEW s \in Seats, s \notin Listed(u)
      PROVE  saleStatus'[s] = saleStatus[s]
  BY <1>1, <1>2, StatusKept
<1>3. ASSUME NEW s \in Listed(u)
      PROVE  saleStatus'[s] = IF seat'[s] = "SOLD" THEN Sale!Sold(dbPurchased'[s])
                              ELSE Sale!Free
  <2>1. s \in Seats /\ Holders(s)' = {}
    BY <1>1 DEF HeldInv, OneHolder, Holders, Listed
  <2>2. QED
    BY <2>1 DEF StatusIsKnown, Sale!Sold, Sale!Free
<1>4. ASSUME \A s \in Listed(u) : seat'[s] = "SOLD" /\ dbPurchased'[s] = u
      PROVE  Sale!Buy(u)
  <2>1. \A s \in Seats : saleStatus'[s] = IF s \in Listed(u) THEN Sale!Sold(u)
                                          ELSE saleStatus[s]
    BY <1>2, <1>3, <1>4
  <2>2. QED
    BY <2>1, ReservedByIsListed, StatusIsFunction DEF Sale!Buy, Sale!Give
<1>5. ASSUME \A s \in Listed(u) : seat'[s] = "AVAILABLE"
      PROVE  Sale!GiveUp(u)
  <2>1. \A s \in Seats : saleStatus'[s] = IF s \in Listed(u) THEN Sale!Free
                                          ELSE saleStatus[s]
    BY <1>2, <1>3, <1>5
  <2>2. QED
    BY <2>1, ReservedByIsListed, StatusIsFunction DEF Sale!GiveUp, Sale!Give
<1>6. sessionIds' = [sessionIds EXCEPT ![u] = 0] /\ sessionIds[u] # 0
  <2>1. TypeOK
    BY DEF HeldInv, MonitorInv, SaleInv
  <2>2. QED
    BY <2>1, SaleSessionEnds DEF sessionIds
<1>7. Sale!End(u)
  BY <1>4, <1>5, <1>6 DEF Sale!End
<1>8. QED
  BY <1>7 DEF SaleStep, Sale!SessionNext

\* All the seats of a request are taken, or none: those taken were free.
LEMMA SaleReserve ==
    ASSUME HeldInv, StatusIsKnown, StatusIsKnown', NEW t \in Threads, ReserveSeats(t)
    PROVE  SaleStep
<1>1. PICK u \in Users, S \in SUBSET Seats :
          /\ thread[t].user = u /\ thread[t].seats = S
          /\ TypeOK /\ NoSessionIsEmpty
  BY DEF HeldInv, MonitorInv, SaleInv, ServingUsers, ReserveSeats, TypeOK, Request
<1> DEFINE g == GetOrCreate(u)
<1>2. /\ seat' = SetSeats(S, "RESERVED") /\ \A s \in S : seat[s] = "AVAILABLE"
      /\ sessions' = [sessions EXCEPT ![u] = AppendSeats(g, S)]
      /\ dbPurchased' = dbPurchased /\ lastId' = IdsAfterGet(u)
  BY <1>1 DEF ReserveSeats, CanReserve, dbVars
<1>3. g \in Session /\ g.seats = sessions[u].seats
  BY <1>1, SessionGot
<1>4. \A s \in Seats : AppendSeats(g, S).seats[s] =
          IF s \in S THEN sessions[u].seats[s] + 1 ELSE sessions[u].seats[s]
  BY <1>3, SessionAppended
<1>5. \A s \in Seats : sessions[u].seats[s] \in Nat
  BY <1>1 DEF TypeOK, Session
<1>6. Sale!GetSession(u)
  <2>1. AppendSeats(g, S).id = g.id
    BY <1>3, SessionAppended
  <2>2. QED
    BY <1>1, <1>2, <2>1, SaleSessionGot
<1> HIDE DEF g
<1>7. /\ Listed(u)' = Listed(u) \cup S
      /\ \A v \in Users \ {u} : Listed(v)' = Listed(v)
  <2>1. /\ sessions'[u] = AppendSeats(g, S)
        /\ \A v \in Users \ {u} : sessions'[v] = sessions[v]
    BY <1>1, <1>2 DEF TypeOK
  <2>2. QED
    BY <1>1, <1>4, <1>5, <2>1 DEF Listed
<1>8. ASSUME NEW s \in S PROVE Holders(s) = {}
  <2>1. s \in Seats /\ seat[s] = "AVAILABLE"
    BY <1>1, <1>2
  <2>2. QED
    BY <2>1 DEF Holders, Listed, HeldInv, HeldSeats
<1>9. \A s \in S : saleStatus[s] = Sale!Free
  BY <1>1, <1>2, <1>8 DEF StatusIsKnown
<1>10. ASSUME NEW s \in Seats
      PROVE  saleStatus'[s] = IF s \in S THEN Sale!Reserved(u) ELSE saleStatus[s]
  <2>1. CASE s \in S
    <3>1. s \in Listed(u)'
      BY <1>7, <2>1
    <3>2. saleStatus'[s] = Sale!Reserved(u)
      BY <1>1, <3>1 DEF StatusIsKnown, Sale!Reserved
    <3>3. QED
      BY <2>1, <3>2
  <2>2. CASE s \notin S
    <3>1. \A v \in Users : s \in Listed(v)' <=> s \in Listed(v)
      BY <1>7, <2>2
    <3>2. seat'[s] = seat[s]
      BY <1>2, <2>2 DEF SetSeats
    <3>3. QED
      BY <1>2, <2>2, <3>1, <3>2, StatusKept
  <2>3. QED
    BY <2>1, <2>2
<1>11. CASE S = {}
  <2>1. saleStatus' = saleStatus
    BY <1>10, <1>11, StatusIsFunction
  <2>2. QED
    BY <1>6, <2>1 DEF Sale!Open, Sale!SessionNext, SaleStep
<1>12. CASE S # {}
  <2>1. saleStatus' = Sale!Give(S, Sale!Reserved(u))
    BY <1>10, StatusIsFunction DEF Sale!Give
  <2>2. QED
    BY <1>1, <1>9, <1>12, <1>6, <2>1
       DEF Sale!Reserve, Sale!ReserveIn, Sale!SessionNext, SaleStep
<1>13. QED
  BY <1>11, <1>12

\* Steps that leave the lists alone, and the seats that are on no list.
LEMMA SaleStutters ==
    ASSUME StatusIsKnown, StatusIsKnown',
           \A u \in Users : sessions'[u].seats = sessions[u].seats,
           \A s \in Seats : Holders(s) = {} =>
               seat'[s] = seat[s] /\ dbPurchased'[s] = dbPurchased[s]
    PROVE  /\ saleStatus' = saleStatus
           /\ lastId' = lastId /\ (\A u \in Users : sessions'[u].id = sessions[u].id)
                  => SaleStep
           /\ \A u \in Users : Sale!GetSession(u) => SaleStep
<1>1. \A s \in Seats : saleStatus'[s] = saleStatus[s]
  BY StatusKept DEF Listed
<1>2. saleStatus' = saleStatus
  BY <1>1, StatusIsFunction
<1>3. ASSUME lastId' = lastId, \A u \in Users : sessions'[u].id = sessions[u].id
      PROVE  SaleStep
  BY <1>2, <1>3 DEF SaleStep, sessionIds
<1>4. ASSUME NEW u \in Users, Sale!GetSession(u) PROVE SaleStep
  BY <1>2, <1>4 DEF SaleStep, Sale!Open, Sale!SessionNext
<1>5. QED
  BY <1>2, <1>3, <1>4

LEMMA SaleHandle ==
    ASSUME MaxLogFaults = 0, HeldInv, SaleOfSession, StatusIsKnown, StatusIsKnown',
           NEW t \in Threads, Handle(t)
    PROVE  SaleStep
<1>1. /\ TypeOK /\ NoSessionIsEmpty /\ ServingUsers /\ SaleHoldsSeats /\ SaleSells
      /\ SaleRecords /\ NoFaults
  BY DEF HeldInv, MonitorInv, SaleInv
<1>2. ~ReserveLogFails(t) /\ ~Rollback(t)
      /\ ~ \E done \in SaleStepsDone : SaleLogFails(t, done)
  BY <1>1 DEF NoFaults, ReserveLogFails, Rollback, SaleLogFails
<1>3. CASE ReserveSeats(t)
  BY <1>3, SaleReserve
<1>4. CASE CommitSale(t)
  <2> DEFINE u == thread[t].user
  <2>1. u \in Users /\ \A s \in Listed(u) : seat[s] = "SOLD" /\ dbPurchased[s] = u
    BY <1>1, <1>4 DEF CommitSale, ServingUsers, SaleSells, Listed
  <2>2. /\ sessions' = [sessions EXCEPT ![u] = NoSession] /\ lastId' = lastId
        /\ seat' = seat /\ dbPurchased' = dbPurchased
    BY <1>4 DEF CommitSale, RemoveSession, seatVars
  <2>3. sessions[u].id # 0
    BY <1>4 DEF CommitSale, SaleOfSession, OwnsSession
  <2> HIDE DEF u
  <2>4. QED
    BY <2>1, <2>2, <2>3, SaleRelease
<1>5. ASSUME NEW z \in Seats, SellSeat(t, z) PROVE SaleStep
  <2>1. z \in Listed(thread[t].user) /\ thread[t].user \in Users
    BY <1>1, <1>5 DEF SellSeat, SaleHoldsSeats, ServingUsers, Listed
  <2>2. Holders(z) # {}
    BY <2>1 DEF Holders, Listed
  <2>3. dbPurchased' = dbPurchased /\ \A s \in Seats \ {z} : seat'[s] = seat[s]
    BY <1>5 DEF SellSeat, SetSeats, dbVars
  <2>4. sessions' = sessions /\ lastId' = lastId
    BY <1>5 DEF SellSeat
  <2>5. QED
    BY <2>2, <2>3, <2>4, SaleStutters
<1>6. CASE RecordBuyer(t)
  <2>1. ASSUME NEW s \in thread[t].recording PROVE Holders(s) # {}
    <3>1. thread[t].user \in Users /\ sessions[thread[t].user].seats[s] > 0
      BY <1>1, <1>6, <2>1 DEF RecordBuyer, ServingUsers, SaleRecords
    <3>2. s \in Seats
      BY <1>1, <2>1 DEF TypeOK, Request
    <3>3. QED
      BY <3>1, <3>2 DEF Holders, Listed
  <2>2. /\ seat' = seat /\ sessions' = sessions /\ lastId' = lastId
        /\ \A s \in Seats : s \notin thread[t].recording => dbPurchased'[s] = dbPurchased[s]
    BY <1>6 DEF RecordBuyer, seatVars
  <2>3. QED
    BY <2>1, <2>2, SaleStutters
<1>7. CASE SaveSeats(t) \/ SaveSessions(t) \/ AnnounceSale(t)
  <2>1. /\ seat' = seat /\ dbPurchased' = dbPurchased
        /\ sessions' = sessions /\ lastId' = lastId
    BY <1>7 DEF SaveSeats, SaveSessions, AnnounceSale, seatVars, dbVars
  <2>2. QED
    BY <2>1, SaleStutters
<1>8. CASE RefuseReserve(t)
  <2> DEFINE u == thread[t].user
  <2>1. u \in Users
    BY <1>1, <1>8 DEF RefuseReserve, ServingUsers
  <2>2. /\ sessions' = [sessions EXCEPT ![u] = GetOrCreate(u)] /\ lastId' = IdsAfterGet(u)
        /\ seat' = seat /\ dbPurchased' = dbPurchased
    BY <1>8 DEF RefuseReserve, seatVars, dbVars
  <2> HIDE DEF u
  <2>3. \A v \in Users : sessions'[v].seats = sessions[v].seats
    BY <1>1, <2>1, <2>2, SessionGot DEF TypeOK
  <2>4. QED
    BY <1>1, <2>1, <2>2, <2>3, SaleSessionGot, SaleStutters
<1>9. QED
  BY <1>2, <1>3, <1>4, <1>5, <1>6, <1>7, <1>8 DEF Handle

LEMMA SaleReceive ==
    ASSUME HeldInv, StatusIsKnown, StatusIsKnown',
           NEW t \in Threads, NEW u \in Users, Receive(t, u)
    PROVE  SaleStep
<1>1. TypeOK /\ NoSessionIsEmpty
  BY DEF HeldInv, MonitorInv, SaleInv
<1>2. ASSUME NEW id \in 1 .. lastId, CancelSession(t, u, id) PROVE SaleStep
  <2>1. /\ sessions' = [sessions EXCEPT ![u] = NoSession] /\ lastId' = lastId
        /\ seat' = SetSeats(Listed(u), "AVAILABLE") /\ dbPurchased' = dbPurchased
        /\ sessions[u].id # 0
    BY <1>2 DEF CancelSession, RemoveSession, OwnsSession
  <2>2. \A s \in Seats : seat'[s] = IF s \in Listed(u) THEN "AVAILABLE" ELSE seat[s]
    BY <2>1 DEF SetSeats
  <2>3. Listed(u) \subseteq Seats
    BY DEF Listed
  <2>4. QED
    BY <2>1, <2>2, <2>3, SaleRelease
<1>3. ASSUME NEW id \in 1 .. lastId, ConfirmSession(t, u, id) PROVE SaleStep
  <2>1. /\ seat' = seat /\ dbPurchased' = dbPurchased
        /\ sessions' = sessions /\ lastId' = lastId
    BY <1>3 DEF ConfirmSession, seatVars, dbVars
  <2>2. QED
    BY <2>1, SaleStutters
<1>4. ASSUME NEW S \in SUBSET Seats, RequestReserve(t, u, S) PROVE SaleStep
  <2>1. /\ sessions' = [sessions EXCEPT ![u] = GetOrCreate(u)] /\ lastId' = IdsAfterGet(u)
        /\ seat' = seat /\ dbPurchased' = dbPurchased
    BY <1>4 DEF RequestReserve, seatVars, dbVars
  <2>2. \A v \in Users : sessions'[v].seats = sessions[v].seats
    BY <1>1, <2>1, SessionGot DEF TypeOK
  <2>3. QED
    BY <1>1, <2>1, <2>2, SaleSessionGot, SaleStutters
<1>5. QED
  BY <1>2, <1>3, <1>4 DEF Receive

LEMMA SaleOthers ==
    ASSUME MaxLockWait <= TTL, ReachInv, HeldInv, StatusIsKnown, StatusIsKnown',
           \/ MonitorNext \/ Tick
           \/ \E u \in Subscribers, type \in NotificationType : Deliver(u, type)
           \/ \E job \in tickets.jobs : WriteTicket(job)
           \/ UNCHANGED vars
    PROVE  SaleStep
<1>1. TypeOK
  BY DEF HeldInv, MonitorInv, SaleInv
<1>2. CASE ExpireSession
  <2> DEFINE u == mon.target.user
             S == {s \in mon.snapshot : seat[s] = "RESERVED"}
  <2>1. /\ mon.pc = "expire" /\ u \in Users /\ OwnsSession(u, mon.target.id)
        /\ Reclaimable(mon.target)
    BY <1>2 DEF ExpireSession, Reclaimable, HeldInv, MonitorInv, MonitorTargetsUsers
  <2>2. /\ sessions' = [sessions EXCEPT ![u] = NoSession] /\ lastId' = lastId
        /\ seat' = SetSeats(S, "AVAILABLE") /\ dbPurchased' = dbPurchased
        /\ \A x \in Threads : thread[x].pc # "sell"
    BY <1>2, NoSaleWhenFree DEF ExpireSession, RemoveSession, MonitorHasLocks
  <2>3. \A s \in Seats : s \in mon.snapshot <=> s \in Listed(u)
    <3>1. \A s \in Seats : sessions[u].seats[s] > 0 => s \in mon.snapshot
      BY <1>1, <2>1, SnapshotIsWhole DEF ReachInv
    <3>2. \A s \in mon.snapshot : sessions[u].seats[s] > 0
      BY <2>1 DEF HeldInv, SnapshotIsListed
    <3>3. QED
      BY <3>1, <3>2 DEF Listed
  <2>4. \A s \in Listed(u) : s \in Seats /\ seat[s] = "RESERVED"
    BY <2>1, <2>2 DEF HeldInv, HeldSeats, SoldBy, Listed
  <2>5. \A s \in Seats : s \in S <=> s \in Listed(u)
    BY <2>3, <2>4
  <2> HIDE DEF u, S
  <2>6. \A s \in Seats : seat'[s] = IF s \in Listed(u) THEN "AVAILABLE" ELSE seat[s]
    BY <2>2, <2>5 DEF SetSeats
  <2>7. sessions[u].id # 0
    BY <2>1 DEF OwnsSession
  <2>8. QED
    BY <2>1, <2>2, <2>4, <2>6, <2>7, SaleRelease
<1>3. CASE ~ExpireSession
  <2>1. seat' = seat /\ dbPurchased' = dbPurchased /\ lastId' = lastId
    BY <1>3 DEF MonitorNext, Sweep, TakeSnapshot, SpareSession, AnnounceExpiry,
         ExpiryLogFails, WarnExpiring, WarnLogFails, Tick, Deliver, WriteTicket,
         vars, seatVars, dbVars
  <2>2. sessions' = sessions \/ Tick
    BY <1>3 DEF MonitorNext, Sweep, TakeSnapshot, SpareSession, AnnounceExpiry,
         ExpiryLogFails, WarnExpiring, WarnLogFails, Deliver, WriteTicket, vars
  <2>3. \A u \in Users : /\ sessions'[u].seats = sessions[u].seats
                         /\ sessions'[u].id = sessions[u].id
    BY <1>1, <2>2, SessionsAfterTick
  <2>4. QED
    BY <2>1, <2>3, SaleStutters
<1>4. QED
  BY <1>2, <1>3

LEMMA SaleInitially == Init => Sale!SessionInit
<1> SUFFICES ASSUME Init PROVE Sale!SessionInit
  OBVIOUS
<1>1. \A s \in Seats : Holders(s) = {} /\ seat[s] = "AVAILABLE"
  BY DEF Init, Holders, Listed, NoSession, NoSeats
<1>2. \A s \in Seats : saleStatus[s] = Sale!Free
  BY <1>1 DEF saleStatus, Sale!Free
<1>3. sessionIds = [u \in Users |-> 0] /\ lastId = 0
  BY DEF Init, sessionIds, NoSession
<1>4. QED
  BY <1>2, <1>3, StatusIsFunction DEF Sale!SessionInit, Sale!Init

\* The threads together implement the sale the audience is promised, session by
\* session, when no log append fails and locks are granted within a TTL: every
\* step of every handler and of the monitor opens a session, reserves free seats
\* in one, ends one with all that is reserved in it, which is sold or given up,
\* or changes nothing the audience sees.
THEOREM ServerImplementsSessionSale ==
    ASSUME MaxLogFaults = 0, MaxLockWait <= TTL
    PROVE  Spec => ImplementsSessionSale
<1>1. ASSUME StatusIsKnown, ReachInv, HeldInv, TicketInv, [Next]_vars, StatusIsKnown'
      PROVE  SaleStep
  <2>1. SaleOfSession
    BY <1>1 DEF TicketInv
  <2>2. QED
    BY <1>1, <2>1, SaleHandle, SaleReceive, SaleOthers DEF Next
<1>2. SaleStep => [Sale!SessionNext]_<<saleStatus, sessionIds, lastId>>
  BY DEF SaleStep
<1>3. QED
  BY <1>1, <1>2, SaleInitially, StatusOfSeats, ReachInvHolds, HeldInvHolds,
     TicketInvHolds, PTL
     DEF Spec, ImplementsSessionSale, Sale!SessionSpec

\* What is promised of seats and users alone: each seat is sold to one buyer,
\* through one reservation, and the seats of a reservation together.
THEOREM ServerImplementsSeatSale ==
    ASSUME MaxLogFaults = 0, MaxLockWait <= TTL
    PROVE  Spec => ImplementsSeatSale
<1>1. Sale!SessionInit => Sale!Init
  BY DEF Sale!SessionInit
<1>2. [Sale!SessionNext]_<<saleStatus, sessionIds, lastId>> => [Sale!Next]_saleStatus
  BY DEF Sale!SessionNext, Sale!Open, Sale!ReserveIn, Sale!End, Sale!Next
<1>3. QED
  BY <1>1, <1>2, ServerImplementsSessionSale, PTL
     DEF ImplementsSessionSale, ImplementsSeatSale, Sale!SessionSpec, Sale!Spec
=============================================================================
