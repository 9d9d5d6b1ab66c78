--------------------------- MODULE ConcertServer ---------------------------
(***************************************************************************)
(* The server process: it may be killed at any moment, with requests in    *)
(* any state, or stopped, and is started again from what the database      *)
(* holds.                                                                  *)
(***************************************************************************)
EXTENDS Shutdown

CONSTANT MaxEnds            \* bound: lives of the process that end, killed or stopped

ASSUME EndsAssumption == MaxEnds \in Nat /\ IsFiniteSet(Users)

VARIABLE ends

serverVars == <<vars, shutdownVars, ends>>

\* The process is killed, serving or stopping; BeginStop has counted the latter.
Crash ==
    /\ \/ phase = "serving" /\ ends < MaxEnds /\ ends' = ends + 1
       \/ phase \notin {"serving", "down"} /\ UNCHANGED ends
    /\ ProcessEnds

-----------------------------------------------------------------------------
(* start(): _load_persisted_state, which reads the rows of sessions in no   *)
(* particular order (rank), then _release_orphaned_reserved_seats.          *)

HasRow(u)     == dbSessions[u].id # 0
RowExpired(u) == dbSessions[u].seats = {} \/ dbSessions[u].age > TTL

\* Variant: the seats of an expired row are released whatever their state.
ReleasedWhateverState(U) ==
    {s \in Seats : \E v \in U : /\ HasRow(v) /\ RowExpired(v)
                                /\ s \in dbSessions[v].seats}

\* Seats released for the expired rows; for the row of u, those released
\* before its turn comes.
ReleasedByRows(U) ==
    {s \in Seats : /\ dbSeat[s] = "RESERVED"
                   /\ \E v \in U : /\ HasRow(v) /\ RowExpired(v)
                                   /\ s \in dbSessions[v].seats}
ReleasedBefore(u, rank) == ReleasedByRows({v \in Users : rank[v] < rank[u]})

\* A row that is not expired keeps the seats that are still RESERVED; without
\* any it is dropped.
ValidSeats(u, rank) ==
    {s \in dbSessions[u].seats \ ReleasedBefore(u, rank) : dbSeat[s] = "RESERVED"}
RestoredSession(u, rank) ==
    IF HasRow(u) /\ ~RowExpired(u) /\ ValidSeats(u, rank) # {}
    THEN [id    |-> dbSessions[u].id,
          seats |-> [s \in Seats |-> IF s \in ValidSeats(u, rank) THEN 1 ELSE 0],
          age   |-> dbSessions[u].age]
    ELSE NoSession

\* The slots of the expired rows are released on semaphores that are still
\* full; one slot is then acquired for each seat that remains taken.
LoadedSeats == [s \in Seats |->
    IF s \in ReleasedByRows(Users) THEN "AVAILABLE" ELSE dbSeat[s]]

\* Variants: the slots are those of the matrix as it was saved; a taken seat
\* costs a slot in the matrix and one in its session.
LoadedSlotsAsSaved(sec) == Cardinality(Available(dbSeat, sec))
LoadedSlotsTwice(sec) ==
    Capacity(sec) - 2 * Cardinality(SeatsOf(sec) \ Available(LoadedSeats, sec))

LoadedSlots(sec) ==
    Capacity(sec) + Cardinality(ReleasedByRows(Users) \cap SeatsOf(sec))
        - Cardinality(SeatsOf(sec) \ Available(LoadedSeats, sec))

\* Variant: no seat is taken for an orphan.
NoOrphans(restored) == {}

Orphans(restored) ==
    {s \in Seats : /\ LoadedSeats[s] = "RESERVED"
                   /\ \A u \in Users : restored[u].seats[s] = 0}

Ranks == {r \in [Users -> 1 .. Cardinality(Users)] :
             \A u, v \in Users : r[u] = r[v] => u = v}

\* delete_session leaves the rows of expired and dropped sessions in place,
\* and nothing is saved.
Start(rank) ==
    LET restored == [u \in Users |-> RestoredSession(u, rank)]
    IN  /\ phase = "down"
        /\ phase' = "serving"
        /\ sessions' = restored
        /\ seat' = [s \in Seats |->
               IF s \in Orphans(restored) THEN "AVAILABLE" ELSE LoadedSeats[s]]
        /\ sem' = [sec \in Sections |-> LoadedSlots(sec)
                      + Cardinality(Orphans(restored) \cap SeatsOf(sec))]
        /\ UNCHANGED <<lastId, thread, mon, dbVars, noticeVars, tickets,
                       logFaults, stop, ends>>

-----------------------------------------------------------------------------
ServerInit == Init /\ phase = "serving" /\ stop = NotStopping /\ ends = 0

ServerNext ==
    \/ phase = "serving" /\ Next /\ UNCHANGED <<shutdownVars, ends>>
    \/ Crash
    \/ /\ ends < MaxEnds
       /\ \E accepted \in SUBSET Threads : BeginStop(accepted)
       /\ ends' = ends + 1
    \/ phase \notin {"serving", "down"} /\ StopNext /\ UNCHANGED ends
    \/ \E rank \in Ranks : Start(rank)
    \/ phase = "down" /\ Tick /\ UNCHANGED <<shutdownVars, ends>>

ServerSpec == ServerInit /\ [][ServerNext]_serverVars

-----------------------------------------------------------------------------
ServerTypeOK ==
    /\ TypeOK
    /\ phase \in Phase
    /\ stop \in Stopping
    /\ ends \in 0 .. MaxEnds

\* Once a sale is in the database it is final, across every restart, and so is
\* its buyer: only stop() saves a sale before the buyer, which may then follow.
SavedSaleIsFinal ==
    [][\A s \in Seats : dbSeat[s] = "SOLD" =>
           /\ dbSeat'[s] = "SOLD"
           /\ s \in Recording \/ dbPurchased'[s] = dbPurchased[s]]_serverVars

\* A seat is SOLD in memory and not in the database only inside CONFIRM.
SoldSeatsAreSaved ==
    \A s \in Seats : seat[s] = "SOLD" /\ dbSeat[s] # "SOLD" =>
        \E t \in Threads : thread[t].pc = "sell" /\ s \notin thread[t].seats

\* No seat is stuck: while the server serves, each RESERVED seat is on the
\* list of a session, whatever it was restarted from.
ServedSeatsAreListed == phase = "serving" => ReservedSeatsAreListed

\* What lasts: a seat is sold once its sale is in the database, and its buyer is
\* not still to come.  Until then it is what the memory says, or, without a
\* process, the database.
lastingStatus == [s \in Seats |->
    IF dbSeat[s] = "SOLD" /\ s \notin Recording
    THEN [state |-> "SOLD", user |-> dbPurchased[s]]
    ELSE [state |-> IF (IF phase = "down" THEN dbSeat ELSE seat)[s] = "AVAILABLE"
                    THEN "AVAILABLE" ELSE "RESERVED",
          user  |-> Nobody]]
processState == IF phase \in {"serving", "down"} THEN phase ELSE "stopping"
Lasting == INSTANCE LastingSale WITH status <- lastingStatus, process <- processState

\* Whatever fails and whenever the process ends: every step sells reserved
\* seats to one buyer, for good, or reserves or gives up seats that are unsold.
\* Only a kill in the middle of stop() may leave a sale without its buyer, and
\* no more than one.
ImplementsLastingSale == Lasting!Spec

\* A process that was stopped, not killed, has saved every sale that was made,
\* those of handlers that were caught by the stop included.
StopSavesEverySale ==
    [][Exit => \A s \in Seats : (seat[s] = "SOLD" <=> dbSeat[s] = "SOLD")]_serverVars

\* A session that is restored owns its seats, as the client it belongs to will
\* be shown: they are RESERVED, and on no other session's list.
RestoredSessionsOwnTheirSeats == ListedOnce /\ ListedSeatsAreHeld
=============================================================================
