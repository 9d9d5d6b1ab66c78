------------------------ MODULE DesktopClientProofs ------------------------
(***************************************************************************)
(* What the window shows as bought is bought: for any number of users who   *)
(* sit at it one after the other, of worker threads and of lost answers.    *)
(***************************************************************************)
EXTENDS DesktopClient, FiniteSetTheorems, TLAPS

\* Sold to one of those who sit at the window.
SoldHere == {s \in Seats : \E u \in WindowUsers : status[s] = Sale!Sold(u)}

\* A session that is over: no request reaches it any more.
Finished(i) == Listed(i) # {} /\ \A u \in Users : session[u] # i

\* A session of a user lists seats that user has reserved.
SessionsListReservations ==
    \A u \in Users : session[u] # 0 =>
        /\ u \in WindowUsers /\ object[session[u]].user = u
        /\ Listed(session[u]) # {} /\ Listed(session[u]) \subseteq Sale!ReservedBy(u)

\* Sessions are numbered one by one, and each of them is paid for by an action:
\* there is a number left for every request that may make one.
UsedTo(k) == \A i \in Ids : Listed(i) # {} <=> i <= k
Makers ==
    {w \in Workers :
        \/ work[w].pc = "sent" /\ work[w].kind \in {"RESERVE", "REMOVE", "REBOOK"}
        \/ work[w].pc = "answered" /\ work[w].kind = "REMOVE"}
NumbersSuffice == \E k \in Nat : UsedTo(k) /\ k + Cardinality(Makers) <= actions

\* The window tracks no seat the session does not list.
TrackedIsListed == \A i \in Ids : tracked[i].seats \subseteq Listed(i)

\* What a poll worker carries was read from the server, and what was bought
\* then still is.
PollIsTrue(r) ==
    /\ r.pc \in {"session", "map"} => r.user \in WindowUsers
    /\ r.pc \in {"map", "answered"} =>
           r.seats \subseteq IF r.id = 0 THEN {} ELSE Listed(r.id)
    /\ r.pc = "map" => r.bought \subseteq SoldHere
    /\ r.pc = "answered" => \A s \in Seats : r.cells[s] = "OWN_SOLD" => s \in SoldHere
PollsAreTrue == \A p \in Pollers : PollIsTrue(poll[p])

\* An answer that says SUCCESS names a session that lists the seats, and a
\* session that has been confirmed is over and all its seats are sold.
AnswerIsTrue(r) ==
    /\ r.pc # "idle" => r.user \in WindowUsers
    /\ r.pc = "answered" /\ r.ok =>
           /\ r.id # 0
           /\ r.kind \in {"RESERVE", "REBOOK"} => r.seats \subseteq Listed(r.id)
           /\ r.kind = "CONFIRM" => Finished(r.id) /\ Listed(r.id) \subseteq SoldHere
AnswersAreTrue == \A w \in Workers : AnswerIsTrue(work[w])

OwnSoldHere == ownSold \subseteq SoldHere

WindowInv ==
    /\ TypeOK
    /\ SessionsListReservations
    /\ NumbersSuffice
    /\ TrackedIsListed
    /\ PollsAreTrue
    /\ AnswersAreTrue
    /\ OwnSoldHere

ServerType ==
    /\ status \in [Seats -> [state : {"AVAILABLE", "RESERVED", "SOLD"},
                             user : Users \cup {Nobody}]]
    /\ session \in [Users -> Ids \cup {0}]
    /\ object \in [Ids -> [user : Users \cup {Nobody}, seats : SUBSET Seats]]

-----------------------------------------------------------------------------
(* What the server does to the seats and the sessions                       *)

\* What a step of the server may do to what anybody has read before: seats
\* stay sold, sessions lose no seat, and those that are over gain none.
ServerMoves ==
    /\ ServerType'
    /\ SessionsListReservations'
    /\ SoldHere \subseteq SoldHere'
    /\ \A i \in Ids : /\ Listed(i) \subseteq Listed(i)'
                      /\ Finished(i) => Finished(i)' /\ Listed(i)' = Listed(i)

\* The three values of a seat differ, and name the user.
LEMMA SeatValues ==
    \A u, v : /\ Sale!Reserved(u) # Sale!Free /\ Sale!Sold(u) # Sale!Free
              /\ Sale!Sold(u) # Sale!Reserved(v)
              /\ Sale!Reserved(u) = Sale!Reserved(v) => u = v
              /\ Sale!Sold(u) = Sale!Sold(v) => u = v
BY DEF Sale!Reserved, Sale!Free, Sale!Sold

LEMMA GiveSeats ==
    ASSUME ServerType, NEW S \in SUBSET Seats, NEW u \in Users,
           NEW value \in {Sale!Free, Sale!Reserved(u), Sale!Sold(u)},
           status' = Sale!Give(S, value)
    PROVE  /\ status' \in [Seats -> [state : {"AVAILABLE", "RESERVED", "SOLD"},
                                     user : Users \cup {Nobody}]]
           /\ \A s \in Seats : status'[s] = IF s \in S THEN value ELSE status[s]
BY DEF ServerType, Sale!Give, Sale!Free, Sale!Reserved, Sale!Sold

\* A reservation takes seats that are free.
LEMMA ReserveSeats ==
    ASSUME ServerType, NEW u \in Users, NEW S \in SUBSET Seats, Sale!Reserve(u, S)
    PROVE  /\ status' \in [Seats -> [state : {"AVAILABLE", "RESERVED", "SOLD"},
                                     user : Users \cup {Nobody}]]
           /\ SoldHere \subseteq SoldHere'
           /\ \A v \in Users : Sale!ReservedBy(v) \subseteq Sale!ReservedBy(v)'
           /\ S # {} /\ S \subseteq Sale!ReservedBy(u)'
<1>1. /\ status' \in [Seats -> [state : {"AVAILABLE", "RESERVED", "SOLD"},
                                user : Users \cup {Nobody}]]
      /\ \A s \in Seats : status'[s] = IF s \in S THEN Sale!Reserved(u) ELSE status[s]
      /\ S # {} /\ \A s \in S : status[s] = Sale!Free
  BY GiveSeats DEF Sale!Reserve
<1>2. SoldHere \subseteq SoldHere'
  BY <1>1, SeatValues DEF SoldHere
<1>3. \A v \in Users : Sale!ReservedBy(v) \subseteq Sale!ReservedBy(v)'
  BY <1>1, SeatValues DEF Sale!ReservedBy
<1>4. S \subseteq Sale!ReservedBy(u)'
  BY <1>1 DEF Sale!ReservedBy
<1>5. QED
  BY <1>1, <1>2, <1>3, <1>4

\* A purchase or a cancellation takes the seats of one user.
LEMMA EndSeats ==
    ASSUME ServerType, NEW u \in Users, Sale!Buy(u) \/ Sale!GiveUp(u)
    PROVE  /\ status' \in [Seats -> [state : {"AVAILABLE", "RESERVED", "SOLD"},
                                     user : Users \cup {Nobody}]]
           /\ SoldHere \subseteq SoldHere'
           /\ \A v \in Users : v # u => Sale!ReservedBy(v) \subseteq Sale!ReservedBy(v)'
           /\ u \in WindowUsers /\ Sale!Buy(u) => Sale!ReservedBy(u) \subseteq SoldHere'
<1> DEFINE S == Sale!ReservedBy(u)
<1>1. PICK value \in {Sale!Free, Sale!Reserved(u), Sale!Sold(u)} :
          /\ status' = Sale!Give(S, value)
          /\ Sale!Buy(u) => value = Sale!Sold(u)
  <2>1. CASE Sale!Buy(u)
    BY <2>1 DEF Sale!Buy
  <2>2. CASE ~Sale!Buy(u)
    BY <2>2 DEF Sale!GiveUp
  <2>3. QED
    BY <2>1, <2>2
<1>2. S \in SUBSET Seats /\ \A s \in S : status[s] = Sale!Reserved(u)
  BY DEF Sale!ReservedBy
<1> HIDE DEF S
<1>3. /\ status' \in [Seats -> [state : {"AVAILABLE", "RESERVED", "SOLD"},
                                user : Users \cup {Nobody}]]
      /\ \A s \in Seats : status'[s] = IF s \in S THEN value ELSE status[s]
  BY <1>1, <1>2, GiveSeats
<1>4. SoldHere \subseteq SoldHere'
  BY <1>2, <1>3, SeatValues DEF SoldHere
<1>5. \A v \in Users : v # u => Sale!ReservedBy(v) \subseteq Sale!ReservedBy(v)'
  BY <1>2, <1>3, SeatValues DEF Sale!ReservedBy
<1>6. u \in WindowUsers /\ Sale!Buy(u) => S \subseteq SoldHere'
  BY <1>1, <1>2, <1>3 DEF SoldHere
<1>7. QED
  BY <1>3, <1>4, <1>5, <1>6 DEF S

\* Nothing happens at the server.
LEMMA ServerRests ==
    ASSUME ServerType, SessionsListReservations, UNCHANGED server
    PROVE  ServerMoves
<1>1. ServerType' /\ SessionsListReservations'
  BY DEF server, ServerType, SessionsListReservations, Listed, Sale!ReservedBy
<1>2. SoldHere' = SoldHere
  BY DEF server, SoldHere
<1>3. \A i \in Ids : Listed(i)' = Listed(i) /\ (Finished(i) => Finished(i)')
  BY DEF server, Listed, Finished
<1>4. QED
  BY <1>1, <1>2, <1>3 DEF ServerMoves

\* A session is made, with a number nobody has had, or gets more seats.
LEMMA ReservesMove ==
    ASSUME ServerType, SessionsListReservations, WindowAssumption,
           NEW u \in WindowUsers, NEW S \in SUBSET Seats, ServerReserves(u, S),
           NEW i \in Ids, i = SessionFor(u), session[u] = 0 => Listed(i) = {}
    PROVE  /\ ServerMoves
           /\ S \subseteq Listed(i)' /\ Listed(i)' # {}
           /\ \A j \in Ids : j # i => Listed(j)' = Listed(j)
<1>1. /\ u \in Users /\ session[u] # 0 => i = session[u]
  BY DEF SessionFor, WindowAssumption
<1>2. /\ status' \in [Seats -> [state : {"AVAILABLE", "RESERVED", "SOLD"},
                                user : Users \cup {Nobody}]]
      /\ SoldHere \subseteq SoldHere'
      /\ \A v \in Users : Sale!ReservedBy(v) \subseteq Sale!ReservedBy(v)'
      /\ S # {} /\ S \subseteq Sale!ReservedBy(u)'
  BY <1>1, ReserveSeats DEF ServerReserves
<1>3. i \in Ids /\ (session[u] = 0 => Listed(i) = {})
  OBVIOUS
<1>4. /\ object' = [object EXCEPT ![i] = [user |-> u, seats |-> @.seats \cup S]]
      /\ session' = [session EXCEPT ![u] = i]
  BY DEF ServerReserves
<1>5. /\ object' \in [Ids -> [user : Users \cup {Nobody}, seats : SUBSET Seats]]
      /\ session' \in [Users -> Ids \cup {0}]
      /\ session'[u] = i /\ \A v \in Users : v # u => session'[v] = session[v]
  BY <1>1, <1>3, <1>4 DEF ServerType
<1>6. /\ object'[i].user = u /\ Listed(i)' = Listed(i) \cup S
      /\ \A j \in Ids : j # i => object'[j] = object[j] /\ Listed(j)' = Listed(j)
  BY <1>3, <1>4 DEF ServerType, Listed
<1>7. ASSUME NEW v \in Users, session'[v] # 0
      PROVE  /\ v \in WindowUsers /\ object'[session'[v]].user = v
             /\ object'[session'[v]].seats # {}
             /\ object'[session'[v]].seats \subseteq Sale!ReservedBy(v)'
  <2>1. CASE v = u
    <3>1. Listed(i) \subseteq Sale!ReservedBy(u)
      BY <1>1, <1>3 DEF SessionsListReservations
    <3>2. Listed(i)' \subseteq Sale!ReservedBy(u)'
      BY <1>1, <1>2, <1>6, <3>1
    <3>3. Listed(i)' # {}
      BY <1>2, <1>6
    <3>4. session'[v] = i
      BY <1>5, <2>1
    <3>5. QED
      BY <1>6, <2>1, <3>2, <3>3, <3>4 DEF Listed
  <2>2. CASE v # u
    <3>0. PICK j \in Ids : j = session[v] /\ j = session'[v] /\ j # 0
      BY <1>5, <1>7, <2>2 DEF ServerType
    <3>1. /\ v \in WindowUsers /\ object[j].user = v /\ Listed(j) # {}
          /\ Listed(j) \subseteq Sale!ReservedBy(v)
      BY <3>0 DEF SessionsListReservations
    <3>2. j # i
      BY <1>1, <1>3, <2>2, <3>0, <3>1 DEF SessionsListReservations
    <3>3. object'[j] = object[j] /\ Listed(j)' = Listed(j)
      BY <1>6, <3>1, <3>2
    <3>4. Sale!ReservedBy(v) \subseteq Sale!ReservedBy(v)'
      BY <1>2
    <3>5. QED
      BY <3>0, <3>1, <3>3, <3>4 DEF Listed
  <2>3. QED
    BY <2>1, <2>2
<1>8. ServerType'
  BY <1>2, <1>5 DEF ServerType
<1>9. SessionsListReservations'
  BY <1>7 DEF SessionsListReservations, Listed
<1>10. ASSUME NEW j \in Ids
       PROVE  /\ Listed(j) \subseteq Listed(j)'
              /\ Finished(j) => Finished(j)' /\ Listed(j)' = Listed(j)
  <2>1. Finished(j) => j # i
    BY <1>1, <1>3 DEF Finished
  <2>2. Finished(j) => Finished(j)'
    BY <1>5, <1>6, <2>1 DEF Finished
  <2>3. QED
    BY <1>6, <2>1, <2>2
<1>11. QED
  BY <1>2, <1>6, <1>8, <1>9, <1>10 DEF ServerMoves

\* A session ends: it is confirmed, cancelled or has expired.
LEMMA EndsMove ==
    ASSUME ServerType, SessionsListReservations, NEW u \in Users,
           NEW i \in Ids, session[u] = i, EndsSession(u), Sale!Buy(u) \/ Sale!GiveUp(u)
    PROVE  /\ ServerMoves /\ \A j \in Ids : Listed(j)' = Listed(j)
           /\ Sale!Buy(u) => Finished(i)' /\ Listed(i)' \subseteq SoldHere'
<1>1. /\ status' \in [Seats -> [state : {"AVAILABLE", "RESERVED", "SOLD"},
                                user : Users \cup {Nobody}]]
      /\ SoldHere \subseteq SoldHere'
      /\ \A v \in Users : v # u => Sale!ReservedBy(v) \subseteq Sale!ReservedBy(v)'
      /\ u \in WindowUsers /\ Sale!Buy(u) => Sale!ReservedBy(u) \subseteq SoldHere'
  BY EndSeats
<1>2. /\ object' = object /\ session' \in [Users -> Ids \cup {0}] /\ session'[u] = 0
      /\ \A v \in Users : v # u => session'[v] = session[v]
  BY DEF EndsSession, ServerType
<1>3. ServerType'
  BY <1>1, <1>2 DEF ServerType
<1>4. \A j : Listed(j)' = Listed(j)
  BY <1>2 DEF Listed
<1>5. ASSUME NEW v \in Users, session'[v] # 0
      PROVE  /\ v \in WindowUsers /\ object'[session'[v]].user = v
             /\ object'[session'[v]].seats # {}
             /\ object'[session'[v]].seats \subseteq Sale!ReservedBy(v)'
  <2>1. v # u /\ session'[v] = session[v] /\ session[v] # 0
    BY <1>2, <1>5
  <2>2. QED
    BY <1>1, <1>2, <2>1 DEF SessionsListReservations, Listed
<1>6. SessionsListReservations'
  BY <1>5 DEF SessionsListReservations, Listed
<1>7. \A j \in Ids : Finished(j) => Finished(j)'
  <2>1. \A v \in Users : session'[v] \in {0, session[v]}
    BY <1>2
  <2>2. \A j \in Ids : j # 0
    BY DEF Ids
  <2>3. QED
    BY <1>4, <2>1, <2>2 DEF Finished
<1>8. ASSUME Sale!Buy(u) PROVE Finished(i)' /\ Listed(i)' \subseteq SoldHere'
  <2>1. /\ u \in WindowUsers /\ object[i].user = u /\ Listed(i) # {}
        /\ Listed(i) \subseteq Sale!ReservedBy(u) /\ i # 0
    BY DEF SessionsListReservations, Ids
  <2>2. \A v \in Users : session'[v] # i
    BY <1>2, <2>1 DEF SessionsListReservations
  <2>3. QED
    BY <1>1, <1>4, <1>8, <2>1, <2>2 DEF Finished
<1>9. QED
  BY <1>1, <1>3, <1>4, <1>6, <1>7, <1>8 DEF ServerMoves

\* Somebody at another client: their seats are listed nowhere.
LEMMA ElsewhereMoves ==
    ASSUME ServerType, SessionsListReservations, NEW u \in Users \ WindowUsers, Elsewhere(u)
    PROVE  ServerMoves /\ \A j \in Ids : Listed(j)' = Listed(j)
<1>1. UNCHANGED <<session, object>>
  BY DEF Elsewhere
<1>2. /\ status' \in [Seats -> [state : {"AVAILABLE", "RESERVED", "SOLD"},
                                user : Users \cup {Nobody}]]
      /\ SoldHere \subseteq SoldHere'
      /\ \A v \in Users : v # u => Sale!ReservedBy(v) \subseteq Sale!ReservedBy(v)'
  <2>1. CASE \E s \in Seats : Sale!Reserve(u, {s})
    BY <2>1, ReserveSeats
  <2>2. CASE Sale!Buy(u) \/ Sale!GiveUp(u)
    BY <2>2, EndSeats
  <2>3. QED
    BY <2>1, <2>2 DEF Elsewhere
<1>3. \A j : Listed(j)' = Listed(j)
  BY <1>1 DEF Listed
<1>4. SessionsListReservations'
  BY <1>1, <1>2 DEF SessionsListReservations, Listed
<1>5. \A j \in Ids : Finished(j) => Finished(j)'
  BY <1>1 DEF Finished, Listed
<1>6. ServerType'
  BY <1>1, <1>2 DEF ServerType
<1>7. QED
  BY <1>2, <1>3, <1>4, <1>5, <1>6 DEF ServerMoves

-----------------------------------------------------------------------------
(* Numbers for the sessions                                                 *)

LEMMA MakersFinite == IsFiniteSet(Makers) /\ Cardinality(Makers) \in Nat
<1>1. Makers \in SUBSET Workers
  BY DEF Makers
<1>2. QED
  BY <1>1, WindowAssumption, FS_Subset, FS_CardinalityType

LEMMA MakersFiniteAfter == IsFiniteSet(Makers') /\ Cardinality(Makers') \in Nat
<1>1. Makers' \in SUBSET Workers
  BY DEF Makers
<1>2. QED
  BY <1>1, WindowAssumption, FS_Subset, FS_CardinalityType

\* The next number is free whenever a request may need it.
LEMMA NumberLeft ==
    ASSUME TypeOK, NEW u \in Users, NEW w \in Makers, session[u] = 0,
           NEW k \in Nat, UsedTo(k), k + Cardinality(Makers) <= actions
    PROVE  SessionFor(u) = k + 1 /\ k + 1 \in Ids /\ Listed(k + 1) = {}
<1>1. Cardinality(Makers) \in Nat /\ Cardinality(Makers) # 0
  BY MakersFinite, FS_EmptySet
<1>2. actions \in Nat /\ actions <= MaxActions /\ MaxActions \in Nat
  BY WindowAssumption DEF TypeOK
<1> DEFINE n == Cardinality(Makers)
<1>3. n \in Nat /\ n # 0 /\ k + n <= actions
  BY <1>1
<1> HIDE DEF n
<1>4. k + 1 \in Ids
  BY <1>2, <1>3 DEF Ids
<1>5. Unused = {i \in Ids : i >= k + 1}
  BY DEF Unused, UsedTo, Ids
<1>6. k + 1 \in Unused /\ \A j \in Unused : k + 1 <= j
  BY <1>4, <1>5 DEF Ids
<1>7. \A i \in Unused : (\A j \in Unused : i <= j) => i = k + 1
  BY <1>4, <1>5, <1>6 DEF Ids
<1>8. SessionFor(u) = k + 1
  BY <1>6, <1>7 DEF SessionFor
<1>9. QED
  BY <1>4, <1>6, <1>8 DEF Unused

\* A step that makes no session: no more requests that may, or one for an action.
LEMMA NumbersKept ==
    ASSUME TypeOK, NumbersSuffice, \A k \in Nat : UsedTo(k) => UsedTo(k)',
           \/ Makers' \subseteq Makers /\ actions' \in {actions, actions + 1}
           \/ /\ \E w \in Workers : Makers' \subseteq Makers \cup {w}
              /\ actions' = actions + 1
    PROVE  NumbersSuffice'
<1>1. PICK k \in Nat : UsedTo(k) /\ k + Cardinality(Makers) <= actions
  BY DEF NumbersSuffice
<1>2. Cardinality(Makers) \in Nat /\ Cardinality(Makers') \in Nat /\ actions \in Nat
  BY MakersFinite, MakersFiniteAfter, WindowAssumption DEF TypeOK
<1>3. CASE Makers' \subseteq Makers /\ actions' \in {actions, actions + 1}
  <2>1. Cardinality(Makers') <= Cardinality(Makers)
    BY <1>3, MakersFinite, FS_Subset
  <2>2. k + Cardinality(Makers') <= actions'
    BY <1>1, <1>2, <1>3, <2>1
  <2>3. QED
    BY <1>1, <2>2 DEF NumbersSuffice
<1>4. ASSUME NEW w \in Workers, Makers' \subseteq Makers \cup {w}, actions' = actions + 1
      PROVE  NumbersSuffice'
  <2>1. /\ IsFiniteSet(Makers \cup {w})
        /\ Cardinality(Makers \cup {w}) =
               IF w \in Makers THEN Cardinality(Makers) ELSE Cardinality(Makers) + 1
    BY MakersFinite, FS_AddElement
  <2>2. Cardinality(Makers \cup {w}) \in Nat
    BY <2>1, FS_CardinalityType
  <2>3. Cardinality(Makers') <= Cardinality(Makers \cup {w})
    BY <1>4, <2>1, FS_Subset
  <2>4. Cardinality(Makers') <= Cardinality(Makers) + 1
    BY <1>2, <2>1, <2>2, <2>3
  <2>5. k + Cardinality(Makers') <= actions'
    BY <1>1, <1>2, <1>4, <2>4
  <2>6. QED
    BY <1>1, <2>5 DEF NumbersSuffice
<1>5. QED
  BY <1>3, <1>4

\* A session that is made uses the number that was kept for its request.
LEMMA NumberTaken ==
    ASSUME TypeOK, NEW k \in Nat, k + Cardinality(Makers) <= actions, UsedTo(k + 1)',
           NEW w \in Makers, Makers' \subseteq Makers \ {w}, actions' = actions
    PROVE  NumbersSuffice'
<1>1. Cardinality(Makers) \in Nat /\ Cardinality(Makers') \in Nat /\ actions \in Nat
  BY MakersFinite, MakersFiniteAfter, WindowAssumption DEF TypeOK
<1>2. /\ IsFiniteSet(Makers \ {w})
      /\ Cardinality(Makers \ {w}) = Cardinality(Makers) - 1
  BY MakersFinite, FS_RemoveElement
<1>3. Cardinality(Makers') <= Cardinality(Makers \ {w})
  BY <1>2, FS_Subset
<1>4. (k + 1) + Cardinality(Makers') <= actions'
  BY <1>1, <1>2, <1>3
<1>5. k + 1 \in Nat
  OBVIOUS
<1>6. QED
  BY <1>4, <1>5 DEF NumbersSuffice

-----------------------------------------------------------------------------
(* What workers carry stays true                                            *)

LEMMA PollKept ==
    ASSUME TypeOK, ServerMoves, NEW p \in Pollers, poll'[p] = poll[p], PollIsTrue(poll[p])
    PROVE  PollIsTrue(poll[p])'
<1>1. PICK r \in Poll : r = poll[p] /\ r = poll'[p]
  BY DEF TypeOK
<1>2. r.id \in Ids \cup {0}
  BY DEF Poll
<1>3. PollIsTrue(r)
  BY <1>1
<1>4. PollIsTrue(r)'
  BY <1>2, <1>3 DEF PollIsTrue, ServerMoves
<1>5. QED
  BY <1>1, <1>4 DEF PollIsTrue

LEMMA AnswerKept ==
    ASSUME TypeOK, ServerMoves, NEW w \in Workers, work'[w] = work[w], AnswerIsTrue(work[w])
    PROVE  AnswerIsTrue(work[w])'
<1>1. PICK r \in Work : r = work[w] /\ r = work'[w]
  BY DEF TypeOK
<1>2. r.id \in Ids \cup {0}
  BY DEF Work
<1>3. AnswerIsTrue(r)
  BY <1>1
<1>4. AnswerIsTrue(r)'
  BY <1>2, <1>3 DEF AnswerIsTrue, ServerMoves
<1>5. QED
  BY <1>1, <1>4 DEF AnswerIsTrue

LEMMA TrackedKept ==
    ASSUME ServerMoves, TrackedIsListed, tracked' = tracked
    PROVE  TrackedIsListed'
<1>1. \A i \in Ids : tracked[i].seats \subseteq Listed(i) /\ Listed(i) \subseteq Listed(i)'
  BY DEF ServerMoves, TrackedIsListed
<1>2. QED
  BY <1>1 DEF TrackedIsListed

-----------------------------------------------------------------------------
(* Requests are served                                                      *)

\* A request moves the server, is answered with the truth, and takes at most
\* the next number.
LEMMA ServesMove ==
    ASSUME WindowInv, NEW w \in Workers, NEW r \in Work, r = work[w], r.pc = "sent",
           NEW ok \in BOOLEAN, NEW id \in Ids \cup {0}, Serves(r, ok, id)
    PROVE  /\ ServerMoves
           /\ ok => /\ id # 0
                    /\ r.kind \in {"RESERVE", "REBOOK"} => r.seats \subseteq Listed(id)'
                    /\ r.kind = "CONFIRM" => Finished(id)' /\ Listed(id)' \subseteq SoldHere'
           /\ \/ \A k \in Nat : UsedTo(k) => UsedTo(k)'
              \/ /\ w \in Makers /\ r.kind \in {"RESERVE", "REBOOK"}
                 /\ \A k \in Nat : UsedTo(k) /\ k + Cardinality(Makers) <= actions
                        => UsedTo(k + 1)'
<1>t. /\ TypeOK /\ ServerType /\ SessionsListReservations /\ NumbersSuffice
      /\ r.user \in WindowUsers /\ r.user \in Users /\ r.seats \in SUBSET Seats
      /\ r.id \in Ids \cup {0}
  BY WindowAssumption DEF WindowInv, TypeOK, ServerType, AnswersAreTrue, AnswerIsTrue, Work
<1>s. ASSUME \A j \in Ids : Listed(j)' = Listed(j)
      PROVE  \A k \in Nat : UsedTo(k) => UsedTo(k)'
  BY <1>s DEF UsedTo
<1>r. ASSUME UNCHANGED server
      PROVE  ServerMoves /\ \A j \in Ids : Listed(j)' = Listed(j)
  BY <1>r, <1>t, ServerRests DEF server, Listed
<1>1. CASE r.kind \in {"RESERVE", "REBOOK"}
  <2>1. CASE ~CanReserve(r.seats)
    <3>1. UNCHANGED server /\ ~ok
      BY <1>1, <2>1 DEF Serves
    <3>2. QED
      BY <1>r, <1>s, <3>1
  <2>2. CASE CanReserve(r.seats)
    <3>1. ServerReserves(r.user, r.seats) /\ ok /\ id = SessionFor(r.user)
      BY <1>1, <2>2 DEF Serves
    <3>2. w \in Makers
      BY <1>1 DEF Makers
    <3>3. CASE session[r.user] # 0
      <4>1. id = session[r.user] /\ id \in Ids
        BY <1>t, <3>1, <3>3 DEF SessionFor, TypeOK
      <4>2. /\ ServerMoves /\ r.seats \subseteq Listed(id)' /\ Listed(id)' # {}
            /\ \A j \in Ids : j # id => Listed(j)' = Listed(j)
        BY <1>t, <3>1, <3>3, <4>1, ReservesMove, WindowAssumption
      <4>3. Listed(id) # {}
        BY <1>t, <3>3, <4>1 DEF SessionsListReservations
      <4>4. \A k \in Nat : UsedTo(k) => UsedTo(k)'
        BY <4>2, <4>3 DEF UsedTo
      <4>5. id # 0
        BY <3>3, <4>1
      <4>6. QED
        BY <1>1, <4>2, <4>4, <4>5
    <3>4. CASE session[r.user] = 0
      <4>1. ASSUME NEW k \in Nat, UsedTo(k), k + Cardinality(Makers) <= actions
            PROVE  id = k + 1 /\ id \in Ids /\ Listed(id) = {}
        BY <1>t, <3>1, <3>2, <3>4, <4>1, NumberLeft
      <4>2. id \in Ids /\ Listed(id) = {} /\ id # 0
        BY <1>t, <4>1 DEF NumbersSuffice
      <4>3. /\ ServerMoves /\ r.seats \subseteq Listed(id)' /\ Listed(id)' # {}
            /\ \A j \in Ids : j # id => Listed(j)' = Listed(j)
        BY <1>t, <3>1, <3>4, <4>2, ReservesMove, WindowAssumption
      <4>4. ASSUME NEW k \in Nat, UsedTo(k), k + Cardinality(Makers) <= actions
            PROVE  UsedTo(k + 1)'
        <5>1. id = k + 1
          BY <4>1, <4>4
        <5>2. QED
          BY <4>3, <4>4, <5>1 DEF UsedTo, Ids
      <4>5. QED
        BY <1>1, <3>2, <4>2, <4>3, <4>4
    <3>5. QED
      BY <3>3, <3>4
  <2>3. QED
    BY <2>1, <2>2
<1>2. CASE r.kind = "CONFIRM" /\ SessionIs(r.user, r.id)
  <2>1. /\ Sale!Buy(r.user) /\ EndsSession(r.user) /\ ok /\ id = r.id
        /\ session[r.user] = id /\ id # 0 /\ id \in Ids
    BY <1>2, <1>t DEF Serves, SessionIs
  <2>2. /\ ServerMoves /\ \A j \in Ids : Listed(j)' = Listed(j)
        /\ Finished(id)' /\ Listed(id)' \subseteq SoldHere'
    BY <1>t, <2>1, EndsMove
  <2>3. QED
    BY <1>2, <1>s, <2>1, <2>2
<1>3. CASE r.kind \in {"CANCEL", "REMOVE"} /\ SessionIs(r.user, r.id)
  <2>1. /\ Sale!GiveUp(r.user) /\ EndsSession(r.user) /\ ok /\ id = r.id
        /\ session[r.user] = id /\ id # 0 /\ id \in Ids
    BY <1>3, <1>t DEF Serves, SessionIs
  <2>2. ServerMoves /\ \A j \in Ids : Listed(j)' = Listed(j)
    BY <1>t, <2>1, EndsMove
  <2>3. QED
    BY <1>3, <1>s, <2>1, <2>2
<1>4. CASE r.kind \in {"CONFIRM", "CANCEL", "REMOVE"} /\ ~SessionIs(r.user, r.id)
  <2>1. UNCHANGED server /\ ~ok
    BY <1>4 DEF Serves
  <2>2. QED
    BY <1>r, <1>s, <2>1
<1>5. QED
  BY <1>1, <1>2, <1>3, <1>4 DEF Work

LEMMA ServeStep ==
    ASSUME WindowInv, NEW w \in Workers, Serve(w) \/ LoseAnswer(w)
    PROVE  WindowInv'
<1>t. /\ TypeOK /\ ServerType /\ SessionsListReservations /\ NumbersSuffice
      /\ TrackedIsListed /\ PollsAreTrue /\ AnswersAreTrue /\ OwnSoldHere
      /\ WindowUsers \subseteq Users
  BY WindowAssumption DEF WindowInv, TypeOK, ServerType
<1>1. PICK r \in Work : r = work[w]
  BY <1>t DEF TypeOK
<1>2. /\ r.pc = "sent" /\ UNCHANGED <<window, poll, actions>> /\ faults' \in 0 .. MaxFaults
  <2>1. CASE Serve(w)
    BY <1>t, <1>1, <2>1 DEF Serve, bounds, TypeOK
  <2>2. CASE LoseAnswer(w)
    <3>1. faults \in 0 .. MaxFaults /\ faults < MaxFaults /\ faults' = faults + 1
      BY <1>t, <2>2 DEF LoseAnswer, TypeOK
    <3>2. faults' \in 0 .. MaxFaults
      BY <3>1, WindowAssumption
    <3>3. QED
      BY <1>1, <2>2, <3>2 DEF LoseAnswer
  <2>3. QED
    BY <2>1, <2>2
<1>3. PICK pc \in {"answered", "hung"}, ok \in BOOLEAN, id \in Ids \cup {0} :
          /\ work' = [work EXCEPT ![w] = [r EXCEPT !.pc = pc, !.ok = ok, !.id = id]]
          /\ ServerMoves
          /\ ok => /\ id # 0
                   /\ r.kind \in {"RESERVE", "REBOOK"} => r.seats \subseteq Listed(id)'
                   /\ r.kind = "CONFIRM" => Finished(id)' /\ Listed(id)' \subseteq SoldHere'
          /\ \/ \A k \in Nat : UsedTo(k) => UsedTo(k)'
             \/ /\ w \in Makers /\ r.kind \in {"RESERVE", "REBOOK"}
                /\ \A k \in Nat : UsedTo(k) /\ k + Cardinality(Makers) <= actions
                       => UsedTo(k + 1)'
  <2>1. CASE Serve(w)
    <3>1. PICK ok \in BOOLEAN, id \in Ids \cup {0} :
              /\ Serves(r, ok, id)
              /\ work' = [work EXCEPT ![w].pc = "answered", ![w].ok = ok, ![w].id = id]
      BY <1>1, <2>1 DEF Serve
    <3>2. work' = [work EXCEPT ![w] = [r EXCEPT !.pc = "answered", !.ok = ok, !.id = id]]
      BY <1>1, <1>t, <3>1 DEF TypeOK, Work
    <3>3. Serves(r, ok, id)
      BY <3>1
    <3>4. QED
      BY <1>1, <1>2, <3>2, <3>3, ServesMove
  <2>2. CASE LoseAnswer(w)
    <3>1. PICK pc \in {"answered", "hung"} :
              work' = [work EXCEPT ![w] = [r EXCEPT !.pc = pc, !.ok = FALSE, !.id = r.id]]
      <4>1. PICK pc \in {"answered", "hung"} :
                work' = [work EXCEPT ![w].pc = pc, ![w].ok = FALSE]
        BY <2>2 DEF LoseAnswer
      <4>2. work' = [work EXCEPT ![w] = [r EXCEPT !.pc = pc, !.ok = FALSE, !.id = r.id]]
        BY <1>1, <1>t, <4>1 DEF TypeOK, Work
      <4>3. QED
        BY <4>2
    <3>i. r.id \in Ids \cup {0}
      BY DEF Work
    <3>2. CASE UNCHANGED server
      <4>1. ServerMoves
        BY <1>t, <3>2, ServerRests
      <4>2. \A k \in Nat : UsedTo(k) => UsedTo(k)'
        BY <3>2 DEF server, UsedTo, Listed
      <4>3. QED
        BY <3>1, <3>i, <4>1, <4>2
    <3>3. ASSUME NEW ok \in BOOLEAN, NEW id \in Ids \cup {0}, Serves(r, ok, id)
          PROVE  /\ ServerMoves
                 /\ \/ \A k \in Nat : UsedTo(k) => UsedTo(k)'
                    \/ /\ w \in Makers /\ r.kind \in {"RESERVE", "REBOOK"}
                       /\ \A k \in Nat : UsedTo(k) /\ k + Cardinality(Makers) <= actions
                              => UsedTo(k + 1)'
      BY <1>1, <1>2, <3>3, ServesMove
    <3>4. UNCHANGED server \/ \E ok \in BOOLEAN, id \in Ids \cup {0} : Serves(r, ok, id)
      BY <1>1, <2>2 DEF LoseAnswer
    <3>5. CASE \E ok \in BOOLEAN, id \in Ids \cup {0} : Serves(r, ok, id)
      BY <3>1, <3>i, <3>3, <3>5
    <3>6. QED
      BY <3>2, <3>4, <3>5
  <2>3. QED
    BY <2>1, <2>2
<1>4. /\ work' \in [Workers -> Work]
      /\ \A v \in Workers : v # w => work'[v] = work[v]
      /\ work'[w].pc = pc /\ work'[w].ok = ok /\ work'[w].id = id
      /\ work'[w].kind = r.kind /\ work'[w].seats = r.seats /\ work'[w].user = r.user
  BY <1>t, <1>3 DEF TypeOK, Work
<1>5. TypeOK'
  BY <1>t, <1>2, <1>3, <1>4
     DEF TypeOK, ServerMoves, ServerType, window, links, picture
<1>6. AnswersAreTrue'
  <2>1. r.user \in WindowUsers
    BY <1>t, <1>1, <1>2 DEF AnswersAreTrue, AnswerIsTrue
  <2>2. AnswerIsTrue(work[w])'
    BY <1>3, <1>4, <2>1 DEF AnswerIsTrue
  <2>3. ASSUME NEW v \in Workers, v # w PROVE AnswerIsTrue(work[v])'
    BY <1>t, <1>3, <1>4, <2>3, AnswerKept DEF AnswersAreTrue
  <2>4. QED
    BY <2>2, <2>3 DEF AnswersAreTrue
<1>7. PollsAreTrue'
  BY <1>t, <1>2, <1>3, PollKept DEF PollsAreTrue
<1>8. TrackedIsListed' /\ OwnSoldHere'
  BY <1>t, <1>2, <1>3, TrackedKept DEF OwnSoldHere, ServerMoves, window, picture
<1>9. NumbersSuffice'
  <2>1. Makers' \subseteq Makers
    BY <1>1, <1>2, <1>4 DEF Makers
  <2>2. CASE \A k \in Nat : UsedTo(k) => UsedTo(k)'
    BY <1>t, <1>2, <2>1, <2>2, NumbersKept
  <2>3. CASE /\ w \in Makers /\ r.kind \in {"RESERVE", "REBOOK"}
             /\ \A k \in Nat : UsedTo(k) /\ k + Cardinality(Makers) <= actions
                    => UsedTo(k + 1)'
    <3>1. w \notin Makers'
      BY <1>4, <2>3 DEF Makers
    <3>2. PICK k \in Nat : k + Cardinality(Makers) <= actions /\ UsedTo(k + 1)'
      BY <1>t, <2>3 DEF NumbersSuffice
    <3>3. Makers' \subseteq Makers \ {w}
      BY <2>1, <3>1
    <3>4. QED
      BY <1>t, <1>2, <2>3, <3>2, <3>3, NumberTaken
  <2>4. QED
    BY <1>3, <2>2, <2>3
<1>10. QED
  BY <1>3, <1>5, <1>6, <1>7, <1>8, <1>9 DEF WindowInv, ServerMoves

\* Time, and other clients: the window hears of it when it asks.
LEMMA OthersStep ==
    ASSUME WindowInv,
           \/ \E u \in WindowUsers : Expire(u)
           \/ \E u \in Users \ WindowUsers : Elsewhere(u)
    PROVE  WindowInv'
<1>t. /\ TypeOK /\ ServerType /\ SessionsListReservations /\ NumbersSuffice
      /\ TrackedIsListed /\ PollsAreTrue /\ AnswersAreTrue /\ OwnSoldHere
      /\ WindowUsers \subseteq Users
  BY WindowAssumption DEF WindowInv, TypeOK, ServerType
<1>1. ServerMoves /\ \A j \in Ids : Listed(j)' = Listed(j)
  <2>1. ASSUME NEW u \in WindowUsers, Expire(u)
        PROVE  ServerMoves /\ \A j \in Ids : Listed(j)' = Listed(j)
    <3>1. /\ session[u] \in Ids /\ u \in Users /\ Sale!GiveUp(u) /\ EndsSession(u)
      BY <1>t, <2>1 DEF Expire, TypeOK
    <3>2. QED
      BY <1>t, <3>1, EndsMove
  <2>2. ASSUME NEW u \in Users \ WindowUsers, Elsewhere(u)
        PROVE  ServerMoves /\ \A j \in Ids : Listed(j)' = Listed(j)
    BY <1>t, <2>2, ElsewhereMoves
  <2>3. QED
    BY <2>1, <2>2
<1>2. /\ UNCHANGED <<window, poll, work, faults>>
      /\ actions' \in {actions, actions + 1} /\ actions' \in 0 .. MaxActions
  BY <1>t, WindowAssumption DEF Expire, Elsewhere, bounds, TypeOK
<1>3. TypeOK'
  BY <1>t, <1>1, <1>2 DEF TypeOK, ServerMoves, ServerType, window, links, picture
<1>4. AnswersAreTrue' /\ PollsAreTrue'
  BY <1>t, <1>1, <1>2, AnswerKept, PollKept DEF AnswersAreTrue, PollsAreTrue
<1>5. TrackedIsListed' /\ OwnSoldHere'
  BY <1>t, <1>1, <1>2, TrackedKept DEF OwnSoldHere, ServerMoves, window, picture
<1>6. NumbersSuffice'
  <2>1. Makers' = Makers
    BY <1>2 DEF Makers
  <2>2. \A k \in Nat : UsedTo(k) => UsedTo(k)'
    BY <1>1 DEF UsedTo
  <2>3. QED
    BY <1>t, <1>2, <2>1, <2>2, NumbersKept
<1>7. QED
  BY <1>1, <1>3, <1>4, <1>5, <1>6 DEF WindowInv, ServerMoves

-----------------------------------------------------------------------------
(* The window's own steps leave the server alone                            *)

LEMMA ServerAlone ==
    ASSUME WindowInv, UNCHANGED server
    PROVE  /\ ServerMoves /\ SessionsListReservations'
           /\ \A k \in Nat : UsedTo(k) => UsedTo(k)'
<1>1. ServerMoves
  BY ServerRests DEF WindowInv, TypeOK, ServerType
<1>2. QED
  BY <1>1 DEF ServerMoves, server, UsedTo, Listed

\* Workers at rest are not asked for the truth.
LEMMA Resting ==
    /\ IdlePoll \in Poll /\ PollIsTrue(IdlePoll)
    /\ IdleWork \in Work /\ AnswerIsTrue(IdleWork)
<1>1. EmptyMap \in [Seats -> Cell]
  BY DEF EmptyMap, Cell
<1>2. IdlePoll \in Poll
  BY <1>1 DEF IdlePoll, Poll
<1>3. IdleWork \in Work
  BY DEF IdleWork, Work
<1>4. PollIsTrue(IdlePoll) /\ AnswerIsTrue(IdleWork)
  BY DEF IdlePoll, IdleWork, PollIsTrue, AnswerIsTrue
<1>5. QED
  BY <1>2, <1>3, <1>4

LEMMA CellType ==
    ASSUME TypeOK, NEW s \in Seats, NEW i \in Ids \cup {0}, NEW B \in SUBSET Seats
    PROVE  /\ CellOf(s, i, B) \in Cell
           /\ CellOf(s, i, B) = "OWN_SOLD" => s \in B
<1>1. status[s].state \in {"AVAILABLE", "RESERVED", "SOLD"}
  BY DEF TypeOK
<1>2. QED
  BY <1>1 DEF CellOf, Cell

\* Poll workers at work: what is read is true, and goes on being true.
LEMMA PollWorks ==
    ASSUME WindowInv, NEW p \in Pollers,
           ReadSession(p) \/ ReadMap(p) \/ PollFails(p) \/ PollTick(p)
    PROVE  WindowInv'
<1>t. /\ TypeOK /\ NumbersSuffice /\ TrackedIsListed /\ PollsAreTrue /\ AnswersAreTrue
      /\ OwnSoldHere /\ WindowUsers \subseteq Users
  BY WindowAssumption DEF WindowInv
<1>1. /\ UNCHANGED <<server, window, work, actions>> /\ faults' \in 0 .. MaxFaults
  <2>1. CASE PollFails(p)
    <3>1. faults \in 0 .. MaxFaults /\ faults < MaxFaults /\ faults' = faults + 1
      BY <1>t, <2>1 DEF PollFails, TypeOK
    <3>2. faults' \in 0 .. MaxFaults
      BY <3>1, WindowAssumption
    <3>3. QED
      BY <2>1, <3>2 DEF PollFails
  <2>2. CASE ReadSession(p) \/ ReadMap(p) \/ PollTick(p)
    BY <1>t, <2>2 DEF ReadSession, ReadMap, PollTick, bounds, TypeOK
  <2>3. QED
    BY <2>1, <2>2
<1>2. ServerMoves /\ SessionsListReservations' /\ \A k \in Nat : UsedTo(k) => UsedTo(k)'
  BY <1>1, ServerAlone
<1>r. PICK r \in Poll : r = poll[p] /\ PollIsTrue(r)
  BY <1>t DEF TypeOK, PollsAreTrue
<1>3. /\ poll' \in [Pollers -> Poll] /\ \A q \in Pollers : q # p => poll'[q] = poll[q]
      /\ PollIsTrue(poll[p])'
  <2>1. ASSUME NEW new \in Poll, poll' = [poll EXCEPT ![p] = new], PollIsTrue(new)'
        PROVE  /\ poll' \in [Pollers -> Poll]
               /\ \A q \in Pollers : q # p => poll'[q] = poll[q]
               /\ PollIsTrue(poll[p])'
    <3>1. poll'[p] = new
      BY <1>t, <2>1 DEF TypeOK
    <3>2. QED
      BY <1>t, <2>1, <3>1 DEF TypeOK, PollIsTrue
  <2>2. CASE ReadSession(p)
    <3>1. PICK i \in Ids \cup {0} : i = session[r.user] /\ r.pc = "session" /\ r.user \in WindowUsers
      BY <1>t, <1>r, <2>2 DEF ReadSession, TypeOK, PollIsTrue
    <3>2. PICK S \in SUBSET Seats : S = IF i = 0 THEN {} ELSE Listed(i)
      BY <1>t DEF TypeOK, Listed
    <3>3. PICK B \in SUBSET Seats : B = BoughtBy(r.user)
      BY DEF BoughtBy
    <3>4. B \subseteq SoldHere
      BY <3>1, <3>3 DEF BoughtBy, SoldHere
    <3>5. PICK new \in Poll : new = [r EXCEPT !.pc = "map", !.id = i, !.seats = S, !.bought = B]
      BY DEF Poll
    <3>6. /\ new.pc = "map" /\ new.id = i /\ new.seats = S /\ new.bought = B
          /\ new.user = r.user
      BY <3>5 DEF Poll
    <3>7. poll' = [poll EXCEPT ![p] = new]
      BY <1>t, <1>r, <2>2, <3>1, <3>2, <3>3, <3>5 DEF ReadSession, TypeOK
    <3>8. S \subseteq IF i = 0 THEN {} ELSE Listed(i)'
      BY <1>2, <3>2 DEF ServerMoves
    <3>9. PollIsTrue(new)'
      BY <1>2, <3>1, <3>4, <3>6, <3>8 DEF PollIsTrue, ServerMoves
    <3>10. QED
      BY <2>1, <3>7, <3>9
  <2>3. CASE ReadMap(p)
    <3>1. r.pc = "map" /\ r.id \in Ids \cup {0} /\ r.bought \in SUBSET Seats
      BY <1>r, <2>3 DEF ReadMap, Poll
    <3>2. PICK c \in [Seats -> Cell] :
              /\ c = [s \in Seats |-> CellOf(s, r.id, r.bought)]
              /\ \A s \in Seats : c[s] = "OWN_SOLD" => s \in r.bought
      <4> DEFINE d == [s \in Seats |-> CellOf(s, r.id, r.bought)]
      <4>1. \A s \in Seats : /\ CellOf(s, r.id, r.bought) \in Cell
                             /\ CellOf(s, r.id, r.bought) = "OWN_SOLD" => s \in r.bought
        BY <1>t, <3>1, CellType
      <4>2. d \in [Seats -> Cell] /\ \A s \in Seats : d[s] = "OWN_SOLD" => s \in r.bought
        BY <4>1
      <4>3. QED
        BY <4>2
    <3>3. PICK new \in Poll : new = [r EXCEPT !.pc = "answered", !.bought = {}, !.cells = c]
      BY DEF Poll
    <3>4. /\ new.pc = "answered" /\ new.id = r.id /\ new.seats = r.seats /\ new.cells = c
      BY <3>3 DEF Poll
    <3>5. poll' = [poll EXCEPT ![p] = new]
      BY <1>t, <1>r, <2>3, <3>2, <3>3 DEF ReadMap, TypeOK
    <3>6. /\ r.bought \subseteq SoldHere'
          /\ r.seats \subseteq IF r.id = 0 THEN {} ELSE Listed(r.id)'
      BY <1>2, <1>r, <3>1 DEF PollIsTrue, ServerMoves
    <3>7. PollIsTrue(new)'
      BY <3>2, <3>4, <3>6 DEF PollIsTrue
    <3>8. QED
      BY <2>1, <3>5, <3>7
  <2>4. CASE PollFails(p)
    <3>1. PICK new \in Poll : \E pc \in {"idle", "failed"} :
              poll' = [poll EXCEPT ![p] = new] /\ new = [IdlePoll EXCEPT !.pc = pc]
      BY <2>4, Resting DEF Poll, PollFails
    <3>2. new.pc \in {"idle", "failed"}
      BY <3>1, Resting DEF Poll
    <3>3. PollIsTrue(new)'
      BY <3>2 DEF PollIsTrue
    <3>4. QED
      BY <2>1, <3>1, <3>3
  <2>5. CASE PollTick(p)
    <3>1. client \in WindowUsers
      BY <1>t, <2>5 DEF PollTick, TypeOK
    <3>2. PICK new \in Poll : new = [IdlePoll EXCEPT !.pc = "session", !.user = client]
      BY <1>t, <3>1, Resting DEF Poll
    <3>3. new.pc = "session" /\ new.user = client
      BY <3>2, Resting DEF Poll
    <3>4. PollIsTrue(new)'
      BY <3>1, <3>3 DEF PollIsTrue
    <3>5. QED
      BY <2>1, <2>5, <3>2, <3>4 DEF PollTick
  <2>6. QED
    BY <2>2, <2>3, <2>4, <2>5
<1>4. TypeOK'
  BY <1>t, <1>1, <1>3 DEF TypeOK, server, window, links, picture
<1>5. PollsAreTrue'
  BY <1>t, <1>2, <1>3, PollKept DEF PollsAreTrue
<1>6. AnswersAreTrue' /\ TrackedIsListed' /\ OwnSoldHere'
  BY <1>t, <1>1, <1>2, AnswerKept, TrackedKept
     DEF AnswersAreTrue, OwnSoldHere, ServerMoves, window, picture
<1>7. NumbersSuffice'
  <2>1. Makers' = Makers
    BY <1>1 DEF Makers
  <2>2. QED
    BY <1>t, <1>1, <1>2, <2>1, NumbersKept
<1>8. QED
  BY <1>2, <1>4, <1>5, <1>6, <1>7 DEF WindowInv

\* The window shows what a poll has read, or that it has failed.
LEMMA PollShown ==
    ASSUME WindowInv, NEW p \in Pollers, ShowPoll(p) \/ ShowPollError(p)
    PROVE  WindowInv'
<1>t. /\ TypeOK /\ NumbersSuffice /\ TrackedIsListed /\ PollsAreTrue /\ AnswersAreTrue
      /\ OwnSoldHere
  BY DEF WindowInv
<1>1. /\ UNCHANGED <<server, closing, inflight, work, bounds>>
      /\ poll' = [poll EXCEPT ![p] = IdlePoll]
  BY DEF ShowPoll, ShowPollError
<1>2. ServerMoves /\ SessionsListReservations' /\ \A k \in Nat : UsedTo(k) => UsedTo(k)'
  BY <1>1, ServerAlone
<1>3. PICK r \in Poll : r = poll[p] /\ PollIsTrue(r)
  BY <1>t DEF TypeOK, PollsAreTrue
<1>4. /\ r.id \in Ids \cup {0} /\ r.seats \in SUBSET Seats /\ r.cells \in [Seats -> Cell]
  BY DEF Poll
<1>5. /\ client' \in WindowUsers \cup {Nobody} /\ panel' \in BOOLEAN
      /\ own' \subseteq Seats /\ ownSold' \subseteq SoldHere
      /\ seatMap' \in [Seats -> Cell] /\ txInput' \in Ids \cup {0}
      /\ tracked' \in [Ids -> TrackedSession]
      /\ \A i \in Ids : tracked'[i].seats \subseteq Listed(i)
  <2>1. CASE UNCHANGED <<own, ownSold, seatMap, tracked, txInput>>
    <3>1. client' \in WindowUsers \cup {Nobody} /\ panel' \in BOOLEAN
      BY <1>t DEF ShowPoll, ShowPollError, TypeOK
    <3>2. QED
      BY <1>t, <2>1, <3>1 DEF TypeOK, OwnSoldHere, TrackedIsListed
  <2>2. CASE ShowPoll(p) /\ ~closing
    <3>1. /\ r.pc = "answered" /\ seatMap' = r.cells /\ client' = client /\ panel' = TRUE
          /\ ownSold' = {s \in Seats : r.cells[s] = "OWN_SOLD"}
          /\ Sync(r.id, r.seats)
      BY <1>3, <2>2 DEF ShowPoll
    <3>2. ownSold' \subseteq SoldHere
      BY <1>3, <3>1 DEF PollIsTrue
    <3>3. /\ own' \subseteq Seats /\ txInput' \in Ids \cup {0}
          /\ tracked' \in [Ids -> TrackedSession]
          /\ \A i \in Ids : tracked'[i].seats \subseteq Listed(i)
      <4>1. CASE r.id = 0 \/ r.seats = {}
        BY <1>t, <3>1, <4>1 DEF Sync, TypeOK, TrackedIsListed
      <4>2. CASE r.id # 0 /\ r.seats # {}
        <5>1. /\ r.id \in Ids /\ r.seats \subseteq Listed(r.id)
              /\ own' = r.seats /\ txInput' = r.id
              /\ tracked' = [tracked EXCEPT ![r.id].seats = r.seats,
                     ![r.id].state = IF @ = "NONE" THEN "ACTIVE" ELSE @]
          BY <1>3, <1>4, <3>1, <4>2 DEF Sync, PollIsTrue
        <5>2. /\ tracked' \in [Ids -> TrackedSession] /\ tracked'[r.id].seats = r.seats
              /\ \A i \in Ids : i # r.id => tracked'[i] = tracked[i]
          BY <1>t, <1>4, <5>1 DEF TypeOK, TrackedSession
        <5>3. QED
          BY <1>t, <1>4, <5>1, <5>2 DEF TrackedIsListed
      <4>3. QED
        BY <4>1, <4>2
    <3>4. QED
      BY <1>t, <1>4, <3>1, <3>2, <3>3 DEF TypeOK
  <2>3. QED
    BY <2>1, <2>2 DEF ShowPoll, ShowPollError, picture
<1>6. /\ poll' \in [Pollers -> Poll] /\ poll'[p] = IdlePoll
      /\ \A q \in Pollers : q # p => poll'[q] = poll[q]
  BY <1>t, <1>1, Resting DEF TypeOK
<1>7. TypeOK'
  <2>1. ownSold' \subseteq Seats
    BY <1>5 DEF SoldHere
  <2>2. QED
    BY <1>t, <1>1, <1>5, <1>6, <2>1 DEF TypeOK, server, bounds
<1>8. PollsAreTrue'
  <2>1. PollIsTrue(poll[p])'
    BY <1>6 DEF IdlePoll, PollIsTrue
  <2>2. ASSUME NEW q \in Pollers, q # p PROVE PollIsTrue(poll[q])'
    BY <1>t, <1>2, <1>6, <2>2, PollKept DEF PollsAreTrue
  <2>3. QED
    BY <2>1, <2>2 DEF PollsAreTrue
<1>9. AnswersAreTrue' /\ TrackedIsListed' /\ OwnSoldHere'
  <2>1. AnswersAreTrue'
    BY <1>t, <1>1, <1>2, AnswerKept DEF AnswersAreTrue
  <2>2. TrackedIsListed' /\ OwnSoldHere'
    BY <1>2, <1>5 DEF TrackedIsListed, OwnSoldHere, ServerMoves
  <2>3. QED
    BY <2>1, <2>2
<1>10. NumbersSuffice'
  <2>1. Makers' = Makers /\ actions' = actions
    BY <1>1 DEF Makers, bounds
  <2>2. QED
    BY <1>t, <1>2, <2>1, NumbersKept
<1>11. QED
  BY <1>2, <1>7, <1>8, <1>9, <1>10 DEF WindowInv

\* The window tracks the seats of a session the server has made.
LEMMA TrackKeeps ==
    ASSUME TypeOK, TrackedIsListed, NEW i \in Ids, NEW S \in SUBSET Seats,
           S \subseteq Listed(i), Track(i, S)
    PROVE  /\ tracked' \in [Ids -> TrackedSession]
           /\ \A j \in Ids : tracked'[j].seats \subseteq Listed(j)
<1>1. /\ tracked' \in [Ids -> TrackedSession]
      /\ tracked'[i].seats = tracked[i].seats \cup S
      /\ \A j \in Ids : j # i => tracked'[j] = tracked[j]
  BY DEF TypeOK, Track, TrackedSession
<1>2. QED
  BY <1>1 DEF TrackedIsListed

\* A session that is marked keeps its seats.
LEMMA MarkKeeps ==
    ASSUME TypeOK, TrackedIsListed, NEW i \in Ids, NEW state \in {"CONFIRMED", "CANCELLED"},
           tracked' \in {tracked, [tracked EXCEPT ![i].state = state]}
    PROVE  /\ tracked' \in [Ids -> TrackedSession]
           /\ \A j \in Ids : tracked'[j].seats \subseteq Listed(j)
<1>1. /\ tracked' \in [Ids -> TrackedSession]
      /\ \A j \in Ids : tracked'[j].seats = tracked[j].seats
  <2>1. CASE tracked' = tracked
    BY <2>1 DEF TypeOK
  <2>2. CASE tracked' = [tracked EXCEPT ![i].state = state]
    BY <2>2 DEF TypeOK, TrackedSession
  <2>3. QED
    BY <2>1, <2>2
<1>2. QED
  BY <1>1 DEF TrackedIsListed

\* The window shows an answer, and asks again after a removal.
LEMMA AnswerShown ==
    ASSUME WindowInv, NEW w \in Workers, ShowAnswer(w)
    PROVE  WindowInv'
<1>t. /\ TypeOK /\ NumbersSuffice /\ TrackedIsListed /\ PollsAreTrue /\ AnswersAreTrue
      /\ OwnSoldHere
  BY DEF WindowInv
<1>1. PICK r \in Work : r = work[w] /\ AnswerIsTrue(r) /\ r.pc = "answered"
  BY <1>t DEF TypeOK, AnswersAreTrue, ShowAnswer
<1>2. /\ UNCHANGED <<server, links, seatMap, poll, bounds>>
      /\ work' = [work EXCEPT ![w] = IF Rebooks(r) THEN Rebook(r) ELSE IdleWork]
  BY <1>1 DEF ShowAnswer
<1>3. ServerMoves /\ SessionsListReservations' /\ \A k \in Nat : UsedTo(k) => UsedTo(k)'
  BY <1>2, ServerAlone
<1>4. r.id \in Ids \cup {0} /\ r.seats \in SUBSET Seats /\ r.gone \in SUBSET Seats
  BY DEF Work
<1>5. /\ inflight' \subseteq Seats /\ own' \subseteq Seats /\ ownSold' \subseteq SoldHere
      /\ txInput' \in Ids \cup {0}
      /\ tracked' \in [Ids -> TrackedSession]
      /\ \A i \in Ids : tracked'[i].seats \subseteq Listed(i)
  <2>k. /\ inflight \subseteq Seats /\ own \subseteq Seats /\ ownSold \subseteq SoldHere
        /\ txInput \in Ids \cup {0} /\ tracked \in [Ids -> TrackedSession]
        /\ \A i \in Ids : tracked[i].seats \subseteq Listed(i) /\ tracked[i].seats \subseteq Seats
    BY <1>t DEF TypeOK, OwnSoldHere, TrackedIsListed, TrackedSession
  <2>1. CASE closing
    BY <1>1, <2>1, <2>k DEF ShowAnswer
  <2>2. CASE ~closing /\ ~r.ok
    <3>1. /\ tracked' = tracked /\ ownSold' = ownSold /\ txInput' = txInput
          /\ inflight' \subseteq inflight /\ own' \subseteq own \cup r.gone
      BY <1>1, <2>2
         DEF ShowAnswer, ShowReserve, ShowConfirm, ShowCancel, ShowRemove, ShowRebook
    <3>2. QED
      BY <1>4, <2>k, <3>1
  <2>3. CASE ~closing /\ r.ok /\ r.kind \in {"RESERVE", "REBOOK"}
    <3>1. /\ Track(r.id, r.seats) /\ own' = own \cup r.seats /\ txInput' = r.id
          /\ ownSold' = ownSold /\ inflight' \subseteq inflight
      BY <1>1, <2>3 DEF ShowAnswer, ShowReserve, ShowRebook
    <3>2. r.id \in Ids /\ r.seats \subseteq Listed(r.id)
      BY <1>1, <1>4, <2>3 DEF AnswerIsTrue
    <3>3. /\ tracked' \in [Ids -> TrackedSession]
          /\ \A i \in Ids : tracked'[i].seats \subseteq Listed(i)
      BY <1>t, <1>4, <3>1, <3>2, TrackKeeps
    <3>4. QED
      BY <1>4, <2>k, <3>1, <3>3
  <2>4. CASE ~closing /\ r.ok /\ r.kind = "CONFIRM"
    <3>1. /\ tracked' \in {tracked, [tracked EXCEPT ![r.id].state = "CONFIRMED"]}
          /\ own' \subseteq own /\ ownSold' \subseteq ownSold \cup tracked[r.id].seats
          /\ UNCHANGED <<inflight, txInput>>
      BY <1>1, <2>4 DEF ShowAnswer, ShowConfirm
    <3>2. r.id \in Ids /\ Listed(r.id) \subseteq SoldHere
      BY <1>1, <1>4, <2>4 DEF AnswerIsTrue
    <3>3. /\ tracked' \in [Ids -> TrackedSession]
          /\ \A i \in Ids : tracked'[i].seats \subseteq Listed(i)
      BY <1>t, <3>1, <3>2, MarkKeeps
    <3>4. QED
      BY <2>k, <3>1, <3>2, <3>3
  <2>5. CASE ~closing /\ r.ok /\ r.kind \in {"CANCEL", "REMOVE"}
    <3>1. /\ MarkCancelled(r.id) /\ own' \subseteq own
          /\ UNCHANGED <<inflight, ownSold, txInput>>
      BY <1>1, <2>5 DEF ShowAnswer, ShowCancel, ShowRemove
    <3>2. r.id \in Ids
      BY <1>1, <1>4, <2>5 DEF AnswerIsTrue
    <3>3. tracked' \in {tracked, [tracked EXCEPT ![r.id].state = "CANCELLED"]}
      BY <3>1 DEF MarkCancelled
    <3>4. /\ tracked' \in [Ids -> TrackedSession]
          /\ \A i \in Ids : tracked'[i].seats \subseteq Listed(i)
      BY <1>t, <3>2, <3>3, MarkKeeps
    <3>5. QED
      BY <2>k, <3>1, <3>4
  <2>6. QED
    BY <2>1, <2>2, <2>3, <2>4, <2>5 DEF Work
<1>6. /\ work' \in [Workers -> Work]
      /\ \A v \in Workers : v # w => work'[v] = work[v]
      /\ AnswerIsTrue(work[w])'
      /\ w \in Makers' => w \in Makers
  <2>1. CASE Rebooks(r)
    <3>1. client \in WindowUsers /\ client \in Users /\ r.kind = "REMOVE"
      BY <1>t, <2>1, WindowAssumption DEF Rebooks, TypeOK
    <3>2. PICK new \in Work : new = Rebook(r)
      BY <3>1 DEF Rebook, Work
    <3>3. new.pc = "sent" /\ new.user = client
      BY <3>2 DEF Rebook, Work
    <3>4. /\ work' \in [Workers -> Work] /\ work'[w] = new
          /\ \A v \in Workers : v # w => work'[v] = work[v]
      BY <1>t, <1>2, <2>1, <3>2 DEF TypeOK
    <3>5. AnswerIsTrue(work[w])'
      BY <3>1, <3>3, <3>4 DEF AnswerIsTrue
    <3>6. w \in Makers
      BY <1>1, <3>1 DEF Makers
    <3>7. QED
      BY <3>4, <3>5, <3>6
  <2>2. CASE ~Rebooks(r)
    <3>1. /\ work' \in [Workers -> Work] /\ work'[w] = IdleWork
          /\ \A v \in Workers : v # w => work'[v] = work[v]
      BY <1>t, <1>2, <2>2, Resting DEF TypeOK
    <3>2. work'[w].pc = "idle"
      BY <3>1 DEF IdleWork
    <3>3. AnswerIsTrue(work[w])' /\ w \notin Makers'
      BY <3>2 DEF AnswerIsTrue, Makers
    <3>4. QED
      BY <3>1, <3>3
  <2>3. QED
    BY <2>1, <2>2
<1>7. TypeOK'
  <2>1. ownSold' \subseteq Seats
    BY <1>5 DEF SoldHere
  <2>2. QED
    BY <1>t, <1>2, <1>5, <1>6, <2>1 DEF TypeOK, server, links, bounds
<1>8. AnswersAreTrue'
  <2>1. ASSUME NEW v \in Workers, v # w PROVE AnswerIsTrue(work[v])'
    BY <1>t, <1>3, <1>6, <2>1, AnswerKept DEF AnswersAreTrue
  <2>2. QED
    BY <1>6, <2>1 DEF AnswersAreTrue
<1>9. PollsAreTrue' /\ TrackedIsListed' /\ OwnSoldHere'
  <2>1. PollsAreTrue'
    BY <1>t, <1>2, <1>3, PollKept DEF PollsAreTrue
  <2>2. TrackedIsListed' /\ OwnSoldHere'
    BY <1>3, <1>5 DEF TrackedIsListed, OwnSoldHere, ServerMoves
  <2>3. QED
    BY <2>1, <2>2
<1>10. NumbersSuffice'
  <2>1. Makers' \subseteq Makers /\ actions' = actions
    BY <1>2, <1>6 DEF Makers, bounds
  <2>2. QED
    BY <1>t, <1>3, <2>1, NumbersKept
<1>11. QED
  BY <1>3, <1>7, <1>8, <1>9, <1>10 DEF WindowInv

-----------------------------------------------------------------------------
(* People                                                                   *)

\* Whatever people do at the window without asking the server: it shows less,
\* or what it has just read.
LEMMA WindowKept ==
    ASSUME WindowInv, UNCHANGED <<server, poll, work>>,
           actions' \in {actions, actions + 1}, actions' \in 0 .. MaxActions,
           faults' \in 0 .. MaxFaults,
           client' \in WindowUsers \cup {Nobody}, panel' \in BOOLEAN, closing' \in BOOLEAN,
           inflight' \subseteq Seats, own' \subseteq Seats, ownSold' \subseteq SoldHere,
           seatMap' \in [Seats -> Cell], txInput' \in Ids \cup {0},
           tracked' \in [Ids -> TrackedSession],
           \A i \in Ids : tracked'[i].seats \subseteq Listed(i)
    PROVE  WindowInv'
<1>t. /\ TypeOK /\ NumbersSuffice /\ PollsAreTrue /\ AnswersAreTrue
  BY DEF WindowInv
<1>1. ServerMoves /\ SessionsListReservations' /\ \A k \in Nat : UsedTo(k) => UsedTo(k)'
  BY ServerAlone
<1>2. ownSold' \subseteq Seats
  BY DEF SoldHere
<1>3. TypeOK'
  BY <1>t, <1>2 DEF TypeOK, server
<1>4. PollsAreTrue' /\ AnswersAreTrue'
  BY <1>t, <1>1, PollKept, AnswerKept DEF PollsAreTrue, AnswersAreTrue
<1>5. TrackedIsListed' /\ OwnSoldHere'
  BY <1>1 DEF TrackedIsListed, OwnSoldHere, ServerMoves
<1>6. NumbersSuffice'
  <2>1. Makers' = Makers
    BY DEF Makers
  <2>2. QED
    BY <1>t, <1>1, <2>1, NumbersKept
<1>7. QED
  BY <1>1, <1>3, <1>4, <1>5, <1>6 DEF WindowInv

LEMMA ActsBound ==
    ASSUME TypeOK, Acts
    PROVE  actions' = actions + 1 /\ actions' \in 0 .. MaxActions
BY WindowAssumption DEF TypeOK, Acts

\* A worker is sent off with a request.
LEMMA AskStep ==
    ASSUME WindowInv, NEW w \in Workers,
           NEW kind \in {"RESERVE", "CONFIRM", "CANCEL", "REMOVE"},
           NEW id \in Ids \cup {0}, NEW S \in SUBSET Seats, NEW gone \in SUBSET Seats,
           Ask(w, kind, id, S, gone), inflight' \subseteq Seats, own' \subseteq Seats
    PROVE  WindowInv'
<1>t. /\ TypeOK /\ NumbersSuffice /\ TrackedIsListed /\ PollsAreTrue /\ AnswersAreTrue
      /\ OwnSoldHere
  BY DEF WindowInv
<1>1. /\ UNCHANGED <<server, links, ownSold, seatMap, tracked, txInput, poll, faults>>
      /\ actions' = actions + 1 /\ actions' \in 0 .. MaxActions
      /\ client \in WindowUsers /\ client \in Users
  BY <1>t, ActsBound, WindowAssumption DEF Ask, TypeOK
<1>2. ServerMoves /\ SessionsListReservations' /\ \A k \in Nat : UsedTo(k) => UsedTo(k)'
  BY <1>1, ServerAlone
<1>3. PICK new \in Work :
          new = [pc |-> "sent", user |-> client, kind |-> kind, id |-> id,
                 seats |-> S, gone |-> gone, ok |-> FALSE]
  BY <1>1 DEF Work
<1>4. new.pc = "sent" /\ new.user = client
  BY <1>3
<1>5. /\ work' \in [Workers -> Work] /\ work'[w] = new
      /\ \A v \in Workers : v # w => work'[v] = work[v]
  BY <1>t, <1>3 DEF Ask, TypeOK
<1>6. TypeOK'
  BY <1>t, <1>1, <1>5 DEF TypeOK, server, links
<1>7. AnswersAreTrue'
  <2>1. AnswerIsTrue(work[w])'
    BY <1>1, <1>4, <1>5 DEF AnswerIsTrue
  <2>2. ASSUME NEW v \in Workers, v # w PROVE AnswerIsTrue(work[v])'
    BY <1>t, <1>2, <1>5, <2>2, AnswerKept DEF AnswersAreTrue
  <2>3. QED
    BY <2>1, <2>2 DEF AnswersAreTrue
<1>8. PollsAreTrue' /\ TrackedIsListed' /\ OwnSoldHere'
  BY <1>t, <1>1, <1>2, PollKept, TrackedKept DEF PollsAreTrue, OwnSoldHere, ServerMoves
<1>9. NumbersSuffice'
  <2>1. Makers' \subseteq Makers \cup {w}
    BY <1>5 DEF Makers
  <2>2. QED
    BY <1>t, <1>1, <1>2, <2>1, NumbersKept
<1>10. QED
  BY <1>2, <1>6, <1>7, <1>8, <1>9 DEF WindowInv

LEMMA PersonStep ==
    ASSUME WindowInv, Person
    PROVE  WindowInv'
<1>t. TypeOK /\ TrackedIsListed /\ OwnSoldHere /\ WindowUsers \subseteq Users
  BY WindowAssumption DEF WindowInv
<1>c. ASSUME Cleared
      PROVE  /\ inflight' \subseteq Seats /\ own' \subseteq Seats /\ ownSold' \subseteq SoldHere
             /\ tracked' \in [Ids -> TrackedSession]
             /\ \A i \in Ids : tracked'[i].seats \subseteq Listed(i)
  BY <1>c DEF Cleared, Untracked, TrackedSession
<1>f. ASSUME faults < MaxFaults, faults' = faults + 1 PROVE faults' \in 0 .. MaxFaults
  BY <1>t, <1>f, WindowAssumption DEF TypeOK
<1>1. ASSUME NEW u \in WindowUsers, Connect(u) PROVE WindowInv'
  <2>1. PICK id \in Ids \cup {0} : id = session[u]
    BY <1>t DEF TypeOK
  <2>2. PICK B \in SUBSET Seats : B = BoughtBy(u) /\ B \subseteq SoldHere
    BY DEF BoughtBy, SoldHere
  <2>3. /\ UNCHANGED <<server, closing, poll, work, faults>> /\ client' = u /\ panel' = TRUE
        /\ inflight' = {} /\ ownSold' = B
        /\ seatMap' = [s \in Seats |-> CellOf(s, id, B)]
        /\ own' = IF id = 0 THEN {} ELSE Listed(id)
        /\ tracked' = [i \in Ids |-> IF i = id
                THEN [state |-> "ACTIVE", seats |-> Listed(i)] ELSE Untracked]
        /\ txInput' = IF id = 0 THEN txInput ELSE id
        /\ actions' = actions + 1 /\ actions' \in 0 .. MaxActions
    BY <1>1, <1>t, <2>1, <2>2, ActsBound DEF Connect
  <2>4. seatMap' \in [Seats -> Cell]
    BY <1>t, <2>3, CellType
  <2>5. \A i \in Ids : Listed(i) \in SUBSET Seats
    BY <1>t DEF Listed, TypeOK
  <2>6. /\ tracked' \in [Ids -> TrackedSession]
        /\ \A i \in Ids : tracked'[i].seats \subseteq Listed(i)
    BY <2>3, <2>5 DEF Untracked, TrackedSession
  <2>7. own' \subseteq Seats /\ txInput' \in Ids \cup {0}
    BY <1>t, <2>3, <2>5 DEF TypeOK
  <2>8. closing' \in BOOLEAN /\ faults' \in 0 .. MaxFaults
    BY <1>t, <2>3 DEF TypeOK
  <2>9. QED
    BY <2>2, <2>3, <2>4, <2>6, <2>7, <2>8, WindowKept
<1>2. CASE ConnectFails
  <2>1. /\ Cleared /\ client' = Nobody /\ faults' \in 0 .. MaxFaults
        /\ UNCHANGED <<server, panel, closing, seatMap, txInput, poll, work, actions>>
    BY <1>2, <1>f DEF ConnectFails
  <2>2. QED
    BY <1>t, <1>c, <2>1, WindowKept DEF TypeOK
<1>3. CASE Disconnect
  <2>1. /\ Cleared /\ client' = Nobody /\ panel' = FALSE /\ seatMap' = EmptyMap
        /\ UNCHANGED <<server, closing, txInput, poll, work, faults>>
        /\ actions' = actions + 1 /\ actions' \in 0 .. MaxActions
    BY <1>3, <1>t, ActsBound DEF Disconnect
  <2>2. seatMap' \in [Seats -> Cell]
    BY <2>1 DEF EmptyMap, Cell
  <2>3. QED
    BY <1>t, <1>c, <2>1, <2>2, WindowKept DEF TypeOK
<1>4. ASSUME NEW w \in Workers, NEW s \in Seats, Click(w, s) PROVE WindowInv'
  <2>1. Ask(w, "RESERVE", 0, {s}, {}) /\ inflight' \subseteq Seats /\ own' \subseteq Seats
    BY <1>4, <1>t DEF Click, TypeOK
  <2>2. QED
    BY <2>1, AskStep
<1>5. ASSUME NEW w \in Workers, NEW s \in Seats, NEW id \in Ids, Remove(w, s, id)
      PROVE  WindowInv'
  <2>1. inflight' \subseteq Seats /\ own' \subseteq Seats
    BY <1>5, <1>t DEF Remove, TypeOK
  <2>2. PICK S \in SUBSET Seats : S = tracked[id].seats \ {s}
    BY <1>t DEF TypeOK, TrackedSession
  <2>3. Ask(w, "CANCEL", id, {}, {}) \/ Ask(w, "REMOVE", id, S, {s})
    BY <1>5, <2>2 DEF Remove
  <2>4. QED
    BY <2>1, <2>3, AskStep
<1>6. ASSUME NEW s \in Seats, Deselect(s) PROVE WindowInv'
  <2>1. /\ inflight' \subseteq inflight
        /\ UNCHANGED <<server, links, picture, poll, work, faults>>
        /\ actions' = actions + 1 /\ actions' \in 0 .. MaxActions
    BY <1>6, <1>t, ActsBound DEF Deselect
  <2>2. QED
    BY <1>t, <2>1, WindowKept DEF TypeOK, links, picture, OwnSoldHere, TrackedIsListed
<1>7. ASSUME NEW w \in Workers, Confirm(w) \/ Cancel(w) PROVE WindowInv'
  <2>1. PICK id \in Ids \cup {0} : id = txInput
    BY <1>t DEF TypeOK
  <2>2. Ask(w, "CONFIRM", id, {}, {}) \/ Ask(w, "CANCEL", id, {}, {})
    BY <1>7, <2>1 DEF Confirm, Cancel
  <2>3. inflight' \subseteq Seats /\ own' \subseteq Seats
    BY <1>7, <1>t DEF Confirm, Cancel, TypeOK
  <2>4. QED
    BY <2>2, <2>3, AskStep
<1>8. CASE AskToClose
  <2>1. /\ UNCHANGED <<server, client, panel, inflight, picture, poll, work, faults>>
        /\ closing' = TRUE /\ actions' = actions + 1 /\ actions' \in 0 .. MaxActions
    BY <1>8, <1>t, ActsBound DEF AskToClose
  <2>2. QED
    BY <1>t, <2>1, WindowKept DEF TypeOK, picture, OwnSoldHere, TrackedIsListed
<1>9. CASE KeepOpen
  <2>1. /\ UNCHANGED <<server, client, panel, inflight, picture, poll, work, bounds>>
        /\ closing' = FALSE
    BY <1>9 DEF KeepOpen
  <2>2. QED
    BY <1>t, <2>1, WindowKept DEF TypeOK, picture, bounds, OwnSoldHere, TrackedIsListed
<1>10. QED
  BY <1>1, <1>2, <1>3, <1>4, <1>5, <1>6, <1>7, <1>8, <1>9 DEF Person

-----------------------------------------------------------------------------
LEMMA InitWindow == Init => WindowInv
<1> SUFFICES ASSUME Init PROVE WindowInv
  OBVIOUS
<1>1. TypeOK
  <2>1. status \in [Seats -> [state : {"AVAILABLE", "RESERVED", "SOLD"},
                              user : Users \cup {Nobody}]]
    BY DEF Init, Sale!Init, Sale!Free
  <2>2. /\ session \in [Users -> Ids \cup {0}]
        /\ object \in [Ids -> [user : Users \cup {Nobody}, seats : SUBSET Seats]]
        /\ tracked \in [Ids -> TrackedSession] /\ seatMap \in [Seats -> Cell]
    BY DEF Init, Untracked, TrackedSession, EmptyMap, Cell
  <2>3. poll \in [Pollers -> Poll] /\ work \in [Workers -> Work]
    BY Resting DEF Init
  <2>4. actions \in 0 .. MaxActions /\ faults \in 0 .. MaxFaults
    BY WindowAssumption DEF Init
  <2>5. QED
    BY <2>1, <2>2, <2>3, <2>4 DEF Init, TypeOK
<1>2. \A i \in Ids : Listed(i) = {}
  BY DEF Init, Listed
<1>3. SessionsListReservations
  BY DEF Init, SessionsListReservations
<1>4. NumbersSuffice
  <2>1. Makers = {}
    BY DEF Init, Makers, IdleWork
  <2>2. UsedTo(0)
    BY <1>2 DEF UsedTo, Ids
  <2>3. 0 + Cardinality(Makers) <= actions
    BY <2>1, FS_EmptySet DEF Init
  <2>4. QED
    BY <2>2, <2>3 DEF NumbersSuffice
<1>5. TrackedIsListed /\ OwnSoldHere
  BY DEF Init, TrackedIsListed, Untracked, OwnSoldHere
<1>6. PollsAreTrue /\ AnswersAreTrue
  <2>1. \A p \in Pollers : poll[p] = IdlePoll
    BY DEF Init
  <2>2. \A w \in Workers : work[w] = IdleWork
    BY DEF Init
  <2>3. QED
    BY <2>1, <2>2, Resting DEF PollsAreTrue, AnswersAreTrue
<1>7. QED
  BY <1>1, <1>3, <1>4, <1>5, <1>6 DEF WindowInv

\* A seat shown as bought has been sold to somebody who sits, or sat, at the
\* window: although answers and polls overtake each other, are lost, or arrive
\* when the window is connected for another user.
THEOREM SoldShownHasBeenBought == Spec => []SoldShownIsBought
<1>1. WindowInv /\ [Next]_vars => WindowInv'
  <2> SUFFICES ASSUME WindowInv, [Next]_vars PROVE WindowInv'
    OBVIOUS
  <2>1. ASSUME NEW p \in Pollers,
               \/ ReadSession(p) \/ ReadMap(p) \/ ShowPoll(p) \/ ShowPollError(p)
               \/ PollTick(p) \/ PollFails(p)
        PROVE  WindowInv'
    BY <2>1, PollWorks, PollShown
  <2>2. ASSUME NEW w \in Workers, Serve(w) \/ ShowAnswer(w) \/ LoseAnswer(w)
        PROVE  WindowInv'
    BY <2>2, ServeStep, AnswerShown
  <2>3. CASE Person
    BY <2>3, PersonStep
  <2>4. CASE \/ \E u \in WindowUsers : Expire(u)
             \/ \E u \in Users \ WindowUsers : Elsewhere(u)
    BY <2>4, OthersStep
  <2>5. CASE UNCHANGED vars
    <3>1. UNCHANGED <<server, window, poll, work, bounds>>
      BY <2>5 DEF vars
    <3>2. TypeOK /\ TrackedIsListed /\ OwnSoldHere
      BY DEF WindowInv
    <3>3. QED
      BY <3>1, <3>2, WindowKept
         DEF window, links, picture, bounds, TypeOK, OwnSoldHere, TrackedIsListed
  <2>6. QED
    BY <2>1, <2>2, <2>3, <2>4, <2>5 DEF Next, Runs
<1>2. WindowInv => SoldShownIsBought
  BY DEF WindowInv, OwnSoldHere, SoldHere, SoldShownIsBought
<1>3. QED
  BY InitWindow, <1>1, <1>2, PTL DEF Spec
=============================================================================
