-------------------------- MODULE ConnectionsProofs --------------------------
(***************************************************************************)
(* The list of threads and the sockets, for any number of connections and  *)
(* requests, however many threads cannot be started or log appends fail.   *)
(***************************************************************************)
EXTENDS Connections, TLAPS

Stopped == main.pc \in {"stopped", "exited"}

\* The listener works on a connection whose thread does not exist yet; until it
\* is entered in the list, nobody else knows the connection.
ListenerInv ==
    /\ IF listener.pc \in {"register", "start"}
       THEN listener.conn \in Clients /\ thread[listener.conn].pc = "none"
       ELSE listener.conn = NoOne
    /\ listener.pc = "start" /\ ~Stopped => listener.conn \in active
    /\ \A c \in Clients :
           /\ client[c] = "away" => sock[c] = "none"
           /\ sock[c] \in {"none", "backlog"} =>
                  thread[c].pc = "none" /\ listener.conn # c /\ c \notin subscribed

\* The lock has its owner, and while a thread looks through the list nobody
\* changes it.
LockInv ==
    /\ lock = Main <=> main.pc = "join"
    /\ \A c \in Clients :
           /\ lock = c <=> thread[c].pc = "forget"
           /\ thread[c].pc = "forget" => thread[c].others = active \ {c}

\* A socket given to the notification manager is closed when it is forgotten.
TransferInv ==
    \A c \in Clients : thread[c].transferred => c \in subscribed \/ sock[c] = "closed"

ThreadRecord == [pc : ThreadPc, subscribes : BOOLEAN, transferred : BOOLEAN,
                 others : SUBSET Clients]

ConnInv == /\ ConnTypeOK /\ ListenerInv /\ LockInv /\ TransferInv
           /\ RegistryIsExact /\ SocketsHaveOwners

LEMMA InitInv == ConnInit => ConnInv
BY ClientsAssumption, FaultsAssumption
   DEF ConnInit, ConnInv, ConnTypeOK, NoThread, ThreadPc, MainPc, ListenerInv, LockInv,
       TransferInv, RegistryIsExact, SocketsHaveOwners, Alive, Stopped

\* What Becomes does, one record at a time.
LEMMA Records ==
    ASSUME ConnTypeOK, NEW c \in Clients, NEW r \in ThreadRecord, Becomes(c, r)
    PROVE  /\ thread' \in [Clients -> ThreadRecord]
           /\ thread'[c] = r
           /\ \A d \in Clients \ {c} : thread'[d] = thread[d]
BY DEF ConnTypeOK, ThreadRecord, Becomes

LEMMA MovedRecord ==
    ASSUME ConnTypeOK, NEW c \in Clients, NEW pc \in ThreadPc
    PROVE  LET r == [thread[c] EXCEPT !.pc = pc]
           IN  r \in ThreadRecord /\ r.pc = pc /\ r.transferred = thread[c].transferred
BY DEF ConnTypeOK, ThreadRecord

LEMMA ClientsKeepInv ==
    ASSUME ConnInv, NEW c \in Clients,
           Connect(c) \/ SendRequest(c) \/ Leave(c) \/ NotifierDrops(c)
    PROVE  ConnInv'
<1>1. CASE Connect(c)
  BY <1>1 DEF Connect, ConnInv, ConnTypeOK, ListenerInv, LockInv, TransferInv,
              RegistryIsExact, SocketsHaveOwners, Alive, Stopped
<1>2. CASE SendRequest(c)
  BY <1>2 DEF SendRequest, ConnInv, ConnTypeOK, ListenerInv, LockInv, TransferInv,
              RegistryIsExact, SocketsHaveOwners, Alive, Stopped
<1>3. CASE Leave(c)
  BY <1>3 DEF Leave, ConnInv, ConnTypeOK, ListenerInv, LockInv, TransferInv,
              RegistryIsExact, SocketsHaveOwners, Alive, Stopped
<1>4. CASE NotifierDrops(c)
  <2>1. /\ subscribed' = subscribed \ {c} /\ sock' = [sock EXCEPT ![c] = "closed"]
        /\ UNCHANGED <<client, answered, listener, thread, active, lock, main, faults>>
    BY <1>4 DEF NotifierDrops, Unsubscribe
  <2>2. ConnTypeOK'
    BY <2>1 DEF ConnInv, ConnTypeOK
  <2>3. ListenerInv'
    <3>1. c \in subscribed
      BY <1>4 DEF NotifierDrops
    <3>2. QED
      BY <2>1, <3>1 DEF ConnInv, ConnTypeOK, ListenerInv, Stopped
  <2>4. LockInv' /\ RegistryIsExact'
    BY <2>1 DEF ConnInv, LockInv, RegistryIsExact, Alive
  <2>5. TransferInv' /\ SocketsHaveOwners'
    BY <2>1 DEF ConnInv, ConnTypeOK, TransferInv, SocketsHaveOwners, Alive
  <2>6. QED
    BY <2>2, <2>3, <2>4, <2>5 DEF ConnInv
<1>5. QED
  BY <1>1, <1>2, <1>3, <1>4

LEMMA ListenerKeepsInv ==
    ASSUME ConnInv, ListenerNext
    PROVE  ConnInv'
<1> USE ClientsAssumption
    DEF ConnInv, ConnTypeOK, ListenerInv, LockInv, TransferInv, RegistryIsExact,
        SocketsHaveOwners, Alive, Stopped
<1>1. CASE Loop
  BY <1>1 DEF Loop
<1>2. ASSUME NEW c \in Clients, Accept(c) PROVE ConnInv'
  BY <1>2 DEF Accept
<1>3. CASE AcceptFails
  BY <1>3 DEF AcceptFails
<1>4. CASE RegisterThread
  BY <1>4 DEF RegisterThread
<1>5. CASE StartThread
  <2> DEFINE c == listener.conn
             r == [thread[c] EXCEPT !.pc = "recv"]
  <2>1. /\ listener.conn = c /\ listener.pc = "start"
        /\ c \in Clients /\ thread[c].pc = "none" /\ sock[c] \notin {"none", "backlog"}
        /\ Stopped \/ c \in active
        /\ client[c] # "away"
    BY <1>5 DEF StartThread
  <2>2. r \in ThreadRecord /\ r.pc = "recv" /\ r.transferred = thread[c].transferred
    BY <2>1, MovedRecord DEF ThreadPc
  <2>3. /\ thread' \in [Clients -> ThreadRecord]
        /\ thread'[c] = r
        /\ \A d \in Clients \ {c} : thread'[d] = thread[d]
    BY <1>5, <2>1, <2>2, Records DEF StartThread, Goto
  <2>4. /\ listener' \in [pc : {"loop", "failed"}, conn : {NoOne}]
        /\ faults' \in [start : 0 .. MaxStartFailures, log : 0 .. MaxLogFaults]
        /\ UNCHANGED <<client, sock, answered, subscribed, active, lock, main>>
    BY <1>5, FaultsAssumption DEF StartThread
  <2> HIDE DEF c, r
  <2>5. ConnTypeOK'
    BY <2>3, <2>4 DEF ThreadRecord
  <2>6. ListenerInv'
    BY <2>1, <2>2, <2>3, <2>4
  <2>7. LockInv'
    BY <2>1, <2>2, <2>3, <2>4
  <2>8. TransferInv'
    BY <2>1, <2>2, <2>3, <2>4
  <2>9. RegistryIsExact'
    BY <2>1, <2>2, <2>3, <2>4
  <2>10. SocketsHaveOwners'
    BY <2>1, <2>2, <2>3, <2>4
  <2>11. QED
    BY <2>5, <2>6, <2>7, <2>8, <2>9, <2>10
<1>6. CASE StartFails
  <2> DEFINE c == listener.conn
             r == [thread[c] EXCEPT !.pc = "stillborn"]
  <2>1. /\ listener.conn = c /\ listener.pc = "start"
        /\ c \in Clients /\ thread[c].pc = "none" /\ sock[c] \notin {"none", "backlog"}
        /\ Stopped \/ c \in active
        /\ client[c] # "away"
    BY <1>6 DEF StartFails
  <2>2. r \in ThreadRecord /\ r.pc = "stillborn" /\ r.transferred = thread[c].transferred
    BY <2>1, MovedRecord DEF ThreadPc
  <2>3. /\ thread' \in [Clients -> ThreadRecord]
        /\ thread'[c] = r
        /\ \A d \in Clients \ {c} : thread'[d] = thread[d]
    BY <1>6, <2>1, <2>2, Records DEF StartFails, Goto
  <2>4. /\ listener' \in [pc : {"loop", "failed"}, conn : {NoOne}]
        /\ faults' \in [start : 0 .. MaxStartFailures, log : 0 .. MaxLogFaults]
        /\ UNCHANGED <<client, sock, answered, subscribed, active, lock, main>>
    BY <1>6, FaultsAssumption DEF StartFails
  <2> HIDE DEF c, r
  <2>5. ConnTypeOK'
    BY <2>3, <2>4 DEF ThreadRecord
  <2>6. ListenerInv'
    BY <2>1, <2>2, <2>3, <2>4
  <2>7. LockInv'
    BY <2>1, <2>2, <2>3, <2>4
  <2>8. TransferInv'
    BY <2>1, <2>2, <2>3, <2>4
  <2>9. RegistryIsExact'
    BY <2>1, <2>2, <2>3, <2>4
  <2>10. SocketsHaveOwners'
    BY <2>1, <2>2, <2>3, <2>4
  <2>11. QED
    BY <2>5, <2>6, <2>7, <2>8, <2>9, <2>10
<1>7. CASE LogStartFailure
  BY <1>7 DEF LogStartFailure
<1>8. CASE ListenerDies
  BY <1>8, FaultsAssumption DEF ListenerDies, LogFails
<1>9. QED
  BY <1>1, <1>2, <1>3, <1>4, <1>5, <1>6, <1>7, <1>8 DEF ListenerNext

\* What the steps of a thread have in common before it looks through the list:
\* r is what its record becomes.
LEMMA ThreadCarriesOn ==
    ASSUME ConnInv, NEW c \in Clients, Alive(c), thread[c].pc # "forget",
           NEW r \in ThreadRecord, Becomes(c, r),
           r.pc \notin {"none", "stillborn", "ended", "forget", "unregister"},
           r.transferred => c \in subscribed' \/ sock[c] = "closed",
           subscribed' \in {subscribed, subscribed \cup {c}},
           answered' \subseteq Clients,
           faults' \in [start : 0 .. MaxStartFailures, log : 0 .. MaxLogFaults],
           UNCHANGED <<client, sock, listener, active, lock, main>>
    PROVE  ConnInv'
<1> USE DEF ConnInv, Alive
<1>0. /\ thread' \in [Clients -> ThreadRecord]
      /\ thread'[c] = r
      /\ \A d \in Clients \ {c} : thread'[d] = thread[d]
  BY Records
<1>1. ConnTypeOK'
  BY <1>0 DEF ConnTypeOK, ThreadRecord
<1>2. ListenerInv'
  BY <1>0 DEF ConnTypeOK, ListenerInv, Stopped
<1>3. LockInv'
  BY <1>0 DEF ConnTypeOK, LockInv
<1>4. TransferInv'
  BY <1>0 DEF ConnTypeOK, TransferInv
<1>5. RegistryIsExact' /\ SocketsHaveOwners'
  BY <1>0 DEF ConnTypeOK, RegistryIsExact, SocketsHaveOwners
<1>6. QED
  BY <1>1, <1>2, <1>3, <1>4, <1>5

\* A program counter that moves on, and nothing else.
LEMMA Going ==
    ASSUME ConnInv, NEW c \in Clients, NEW pc \in ThreadPc,
           Alive(c), thread[c].pc # "forget",
           pc \notin {"none", "stillborn", "ended", "forget", "unregister"},
           Goto(c, pc),
           subscribed' \in {subscribed, subscribed \cup {c}},
           answered' \subseteq Clients,
           faults' \in [start : 0 .. MaxStartFailures, log : 0 .. MaxLogFaults],
           UNCHANGED <<client, sock, listener, active, lock, main>>
    PROVE  ConnInv'
<1> DEFINE r == [thread[c] EXCEPT !.pc = pc]
<1>1. r \in ThreadRecord /\ r.pc = pc /\ r.transferred = thread[c].transferred
  BY MovedRecord DEF ConnInv
<1>2. thread[c].transferred => c \in subscribed' \/ sock[c] = "closed"
  BY DEF ConnInv, TransferInv
<1>3. Becomes(c, r)
  BY DEF Goto
<1> HIDE DEF r
<1>4. QED
  BY <1>1, <1>2, <1>3, ThreadCarriesOn

\* The steps of a thread before it looks through the list.
LEMMA ServingKeepsInv ==
    ASSUME ConnInv, NEW c \in Clients,
           \/ Receive(c) \/ ReceiveFails(c) \/ Handle(c) \/ HandleFails(c)
           \/ Send(c) \/ SendFails(c) \/ LogFailure(c) \/ LogFailureFails(c)
           \/ SendError(c)
    PROVE  ConnInv'
<1> USE DEF Alive, ThreadPc
<1>a. /\ answered \subseteq Clients
      /\ faults \in [start : 0 .. MaxStartFailures, log : 0 .. MaxLogFaults]
      /\ thread[c] \in ThreadRecord
  BY DEF ConnInv, ConnTypeOK, ThreadRecord
<1>b. LogFails => faults' \in [start : 0 .. MaxStartFailures, log : 0 .. MaxLogFaults]
  BY <1>a, FaultsAssumption DEF LogFails
<1>c. thread[c].transferred => c \in subscribed \/ sock[c] = "closed"
  BY DEF ConnInv, TransferInv
<1>1. CASE Receive(c)
  <2>1. PICK data : Becomes(c, [thread[c] EXCEPT
                        !.pc = IF Valid(data) THEN "handle" ELSE "refuse",
                        !.subscribes = Valid(data) /\ IsSubscription(data)])
    BY <1>1 DEF Receive
  <2> DEFINE r == [thread[c] EXCEPT
                        !.pc = IF Valid(data) THEN "handle" ELSE "refuse",
                        !.subscribes = Valid(data) /\ IsSubscription(data)]
  <2>2. r \in ThreadRecord /\ r.pc \in {"handle", "refuse"}
        /\ r.transferred = thread[c].transferred
    BY <1>a DEF ThreadRecord
  <2> HIDE DEF r
  <2>3. QED
    BY <1>1, <1>a, <1>c, <2>1, <2>2, ThreadCarriesOn DEF Receive, r
<1>2. CASE ReceiveFails(c)
  BY <1>2, <1>a, Going DEF ReceiveFails
<1>3. CASE Handle(c)
  <2> DEFINE r == [thread[c] EXCEPT !.pc = "answer", !.transferred = thread[c].subscribes]
  <2>1. /\ r \in ThreadRecord /\ r.pc = "answer"
        /\ r.transferred => thread[c].subscribes
    BY <1>a DEF ThreadRecord
  <2>2. Becomes(c, r)
    BY <1>3 DEF Handle
  <2> HIDE DEF r
  <2>3. QED
    BY <1>3, <1>a, <2>1, <2>2, ThreadCarriesOn DEF Handle
<1>4. CASE HandleFails(c)
  BY <1>4, <1>a, <1>b, Going DEF HandleFails
<1>5. CASE Send(c)
  BY <1>5, <1>a, Going DEF Send
<1>6. CASE SendFails(c)
  BY <1>6, <1>a, Going DEF SendFails
<1>7. CASE LogFailure(c)
  BY <1>7, <1>a, Going DEF LogFailure
<1>8. CASE LogFailureFails(c)
  <2> DEFINE r == [thread[c] EXCEPT !.subscribes = FALSE,
                      !.pc = IF thread[c].subscribes THEN "failed" ELSE "close"]
  <2>1. /\ r \in ThreadRecord /\ r.pc \in {"failed", "close"}
        /\ r.transferred = thread[c].transferred
    BY <1>a DEF ThreadRecord
  <2>2. Becomes(c, r)
    BY <1>8 DEF LogFailureFails
  <2> HIDE DEF r
  <2>3. QED
    BY <1>8, <1>a, <1>b, <1>c, <2>1, <2>2, ThreadCarriesOn DEF LogFailureFails
<1>9. CASE SendError(c)
  BY <1>9, <1>a, Going DEF SendError
<1>10. QED
  BY <1>1, <1>2, <1>3, <1>4, <1>5, <1>6, <1>7, <1>8, <1>9

\* The keep-alive ends and the socket is closed.
LEMMA ClosingKeepsInv ==
    ASSUME ConnInv, NEW c \in Clients, KeepAliveEnds(c) \/ Close(c)
    PROVE  ConnInv'
<1> DEFINE pc == IF KeepAliveEnds(c) THEN "close" ELSE "unregister"
           r == [thread[c] EXCEPT !.pc = pc]
<1>1. /\ thread[c].pc \in {"keepAlive", "close"}
      /\ sock[c] \notin {"none", "backlog"} /\ client[c] # "away"
  BY DEF KeepAliveEnds, Close, ConnInv, ListenerInv
<1>2. pc \in ThreadPc /\ pc \in {"close", "unregister"} /\ Goto(c, pc)
  BY DEF KeepAliveEnds, Close, ThreadPc
<1>3. r \in ThreadRecord /\ r.pc = pc /\ r.transferred = thread[c].transferred
  BY <1>2, MovedRecord DEF ConnInv
<1>4. /\ thread' \in [Clients -> ThreadRecord]
      /\ thread'[c] = r
      /\ \A d \in Clients \ {c} : thread'[d] = thread[d]
  BY <1>2, <1>3, Records DEF ConnInv, Goto
<1>5. /\ sock' \in {sock, [sock EXCEPT ![c] = "closed"]}
      /\ subscribed' \in {subscribed, subscribed \ {c}}
      /\ c \in subscribed' \/ c \notin subscribed \/ sock'[c] = "closed"
      /\ sock'[c] = "closed" \/ c \in subscribed' \/ pc = "close"
      /\ UNCHANGED <<client, answered, listener, active, lock, main, faults>>
  BY DEF KeepAliveEnds, Unsubscribe, Close, ConnInv, ConnTypeOK, TransferInv
<1> HIDE DEF pc, r
<1>6. ConnTypeOK'
  BY <1>4, <1>5 DEF ConnInv, ConnTypeOK, ThreadRecord
<1>7. ListenerInv'
  <2>1. /\ sock'[c] \notin {"none", "backlog"}
        /\ \A d \in Clients \ {c} : sock'[d] = sock[d]
    BY <1>1, <1>5 DEF ConnInv, ConnTypeOK
  <2>2. listener.conn # c \/ listener.pc \notin {"register", "start"}
    BY <1>1 DEF ConnInv, ListenerInv
  <2>3. subscribed' \subseteq subscribed
    BY <1>5
  <2>4. QED
    BY <1>1, <1>4, <1>5, <2>1, <2>2, <2>3 DEF ConnInv, ConnTypeOK, ListenerInv, Stopped
<1>8. LockInv'
  BY <1>1, <1>2, <1>3, <1>4, <1>5 DEF ConnInv, LockInv
<1>9. TransferInv'
  BY <1>1, <1>3, <1>4, <1>5 DEF ConnInv, ConnTypeOK, TransferInv
<1>10. RegistryIsExact'
  BY <1>1, <1>2, <1>3, <1>4, <1>5 DEF ConnInv, RegistryIsExact, Alive
<1>11. SocketsHaveOwners'
  BY <1>1, <1>2, <1>3, <1>4, <1>5 DEF ConnInv, ConnTypeOK, SocketsHaveOwners, Alive
<1>12. QED
  BY <1>6, <1>7, <1>8, <1>9, <1>10, <1>11 DEF ConnInv

LEMMA LookThroughKeepsInv ==
    ASSUME ConnInv, NEW c \in Clients, LookThrough(c)
    PROVE  ConnInv'
<1> DEFINE r == [thread[c] EXCEPT !.pc = "forget", !.others = active \ {c}]
<1>1. /\ thread[c].pc = "unregister" /\ lock = NoOne /\ lock' = c /\ Becomes(c, r)
      /\ UNCHANGED <<client, sock, answered, listener, subscribed, active, main, faults>>
  BY DEF LookThrough
<1>2. /\ r \in ThreadRecord /\ r.pc = "forget" /\ r.others = active \ {c}
      /\ r.transferred = thread[c].transferred
  <2>1. thread[c] \in ThreadRecord /\ active \ {c} \in SUBSET Clients
    BY DEF ConnInv, ConnTypeOK, ThreadRecord
  <2>2. QED
    BY <2>1 DEF ThreadRecord, ThreadPc
<1>3. /\ thread' \in [Clients -> ThreadRecord]
      /\ thread'[c] = r
      /\ \A d \in Clients \ {c} : thread'[d] = thread[d]
  BY <1>1, <1>2, Records DEF ConnInv
<1> HIDE DEF r
<1>4. ConnTypeOK' /\ ListenerInv'
  BY <1>1, <1>2, <1>3 DEF ConnInv, ConnTypeOK, ListenerInv, Stopped, ThreadRecord
<1>5. LockInv'
  BY <1>1, <1>2, <1>3, ClientsAssumption DEF ConnInv, LockInv
<1>6. TransferInv' /\ RegistryIsExact'
  BY <1>1, <1>2, <1>3 DEF ConnInv, TransferInv, RegistryIsExact, Alive
<1>7. SocketsHaveOwners'
  BY <1>1, <1>2, <1>3 DEF ConnInv, SocketsHaveOwners, Alive
<1>8. QED
  BY <1>4, <1>5, <1>6, <1>7 DEF ConnInv

LEMMA ForgetKeepsInv ==
    ASSUME ConnInv, NEW c \in Clients, Forget(c)
    PROVE  ConnInv'
<1> DEFINE r == [NoThread EXCEPT !.pc = "ended"]
<1>1. /\ thread[c].pc = "forget" /\ lock = c /\ lock' = NoOne
      /\ active' = active \ {c} /\ Becomes(c, r)
      /\ UNCHANGED <<client, sock, answered, listener, subscribed, main, faults>>
  BY DEF Forget, ConnInv, LockInv
<1>2. r \in ThreadRecord /\ r.pc = "ended" /\ r.transferred = FALSE
  BY DEF NoThread, ThreadRecord, ThreadPc
<1>3. /\ thread' \in [Clients -> ThreadRecord]
      /\ thread'[c] = r
      /\ \A d \in Clients \ {c} : thread'[d] = thread[d]
  BY <1>1, <1>2, Records DEF ConnInv
<1> HIDE DEF r
<1>4. ConnTypeOK'
  BY <1>1, <1>3 DEF ConnInv, ConnTypeOK, ThreadRecord
<1>5. ListenerInv'
  BY <1>1, <1>3 DEF ConnInv, ConnTypeOK, ListenerInv, Stopped
<1>6. LockInv'
  BY <1>1, <1>2, <1>3, ClientsAssumption DEF ConnInv, LockInv
<1>7. TransferInv' /\ RegistryIsExact'
  BY <1>1, <1>2, <1>3 DEF ConnInv, TransferInv, RegistryIsExact, Alive
<1>8. SocketsHaveOwners'
  BY <1>1, <1>2, <1>3 DEF ConnInv, SocketsHaveOwners, Alive
<1>9. QED
  BY <1>4, <1>5, <1>6, <1>7, <1>8 DEF ConnInv

LEMMA StopKeepsInv ==
    ASSUME ConnInv, BeginStop \/ StopNext
    PROVE  ConnInv'
<1> USE ClientsAssumption
    DEF ConnInv, ConnTypeOK, ListenerInv, LockInv, TransferInv, RegistryIsExact,
        SocketsHaveOwners, Alive, Stopped, MainPc
<1>1. CASE BeginStop
  BY <1>1 DEF BeginStop
<1>2. CASE CloseListening
  BY <1>2 DEF CloseListening
<1>3. CASE Cleanup
  BY <1>3 DEF Cleanup
<1>4. CASE TakeLock
  BY <1>4 DEF TakeLock
<1>5. ASSUME NEW c \in Clients, JoinThread(c) PROVE ConnInv'
  BY <1>5 DEF JoinThread
<1>6. CASE ClearThreads
  BY <1>6 DEF ClearThreads
<1>7. CASE Exit
  BY <1>7 DEF Exit
<1>8. QED
  BY <1>1, <1>2, <1>3, <1>4, <1>5, <1>6, <1>7 DEF StopNext

LEMMA StutterKeepsInv == ConnInv /\ UNCHANGED connVars => ConnInv'
BY DEF connVars, ConnInv, ConnTypeOK, ListenerInv, LockInv, TransferInv,
       RegistryIsExact, SocketsHaveOwners, Alive, Stopped

\* The inductive invariant both theorems rest on.
THEOREM Invariance == ConnSpec => []ConnInv
<1>1. ConnInit => ConnInv
  BY InitInv
<1>2. ASSUME ConnInv, [ConnNext]_connVars PROVE ConnInv'
  <2>1. ASSUME NEW c \in Clients, ThreadNext(c) PROVE ConnInv'
    BY <1>2, <2>1, ServingKeepsInv, ClosingKeepsInv, LookThroughKeepsInv,
       ForgetKeepsInv DEF ThreadNext
  <2>2. QED
    BY <1>2, <2>1, ClientsKeepInv, ListenerKeepsInv, StopKeepsInv, StutterKeepsInv
       DEF ConnNext
<1>3. QED
  BY <1>1, <1>2, PTL DEF ConnSpec

\* What stop() waits for is every living thread, and the list forgets those
\* that have ended, however many connections come and go.
THEOREM RegistryStaysExact == ConnSpec => []RegistryIsExact
<1>1. ConnInv => RegistryIsExact
  BY DEF ConnInv
<1>2. QED
  BY <1>1, Invariance, PTL

\* An open socket has a thread that will close it, or is the notification
\* manager's, or its thread could not be started.
THEOREM OpenSocketsHaveOwners == ConnSpec => []SocketsHaveOwners
<1>1. ConnInv => SocketsHaveOwners
  BY DEF ConnInv
<1>2. QED
  BY <1>1, Invariance, PTL

-----------------------------------------------------------------------------
(* The client library and the rules of validate_request                     *)

\* A seat of the venue passes for one, and its place names it.
LEMMA VenueSeatsAreValid ==
    ASSUME NEW seat \in SeatsOfVenue
    PROVE  /\ ValidSeat(seat)
           /\ \A other \in SeatsOfVenue : SeatOf(seat) = SeatOf(other) => seat = other
<1>1. \A t \in SeatsOfVenue :
          \E sec \in DOMAIN Venue :
              \E r \in 0 .. Venue[sec].rows - 1, c \in 0 .. Venue[sec].cols - 1 :
                  t = [section |-> Text(sec), row |-> Number(r), col |-> Number(c)]
  BY DEF SeatsOfVenue
<1>2. PICK sec \in DOMAIN Venue :
          \E r \in 0 .. Venue[sec].rows - 1, c \in 0 .. Venue[sec].cols - 1 :
              seat = [section |-> Text(sec), row |-> Number(r), col |-> Number(c)]
  BY <1>1
<1>3. PICK r \in 0 .. Venue[sec].rows - 1, c \in 0 .. Venue[sec].cols - 1 :
          seat = [section |-> Text(sec), row |-> Number(r), col |-> Number(c)]
  BY <1>2
<1>4. /\ DOMAIN seat = {"section", "row", "col"}
      /\ seat["section"].type = "str" /\ seat["section"].text = sec
      /\ seat["row"].type = "int" /\ seat["row"].num = r
      /\ seat["col"].type = "int" /\ seat["col"].num = c
  BY <1>3 DEF Text, Number
<1>5. Venue[sec].rows \in Nat /\ Venue[sec].cols \in Nat
  BY VenueAssumption
<1>6. r >= 0 /\ r < Venue[sec].rows /\ c >= 0 /\ c < Venue[sec].cols
  BY <1>5
<1>7. ValidSeat(seat)
  BY <1>4, <1>6 DEF ValidSeat, HasSection, HasIndex, HasField
<1>8. ASSUME NEW other \in SeatsOfVenue, SeatOf(seat) = SeatOf(other) PROVE seat = other
  <2>1. PICK sec2 \in DOMAIN Venue :
            \E r2 \in 0 .. Venue[sec2].rows - 1, c2 \in 0 .. Venue[sec2].cols - 1 :
                other = [section |-> Text(sec2), row |-> Number(r2), col |-> Number(c2)]
    BY <1>1
  <2>2. PICK r2 \in 0 .. Venue[sec2].rows - 1, c2 \in 0 .. Venue[sec2].cols - 1 :
            other = [section |-> Text(sec2), row |-> Number(r2), col |-> Number(c2)]
    BY <2>1
  <2>3. SeatOf(other) = <<sec2, r2, c2>>
    BY <2>2 DEF SeatOf, Text, Number
  <2>4. SeatOf(seat) = <<sec, r, c>>
    BY <1>4 DEF SeatOf
  <2>5. sec = sec2 /\ r = r2 /\ c = c2
    BY <1>8, <2>3, <2>4
  <2>6. QED
    BY <1>3, <2>2, <2>5
<1>9. QED
  BY <1>7, <1>8

LEMMA SeatRequestsAreValid ==
    ASSUME NEW u, u # Blank, NEW seat \in SeatsOfVenue
    PROVE  Valid(ReserveSeat(u, seat))
<1> DEFINE f == [action |-> Text("RESERVE"), user_id |-> Text(u), section |-> seat.section,
                 row |-> seat.row, col |-> seat.col]
<1>1. ReserveSeat(u, seat).type = "dict" /\ ReserveSeat(u, seat).fields = f
  BY DEF ReserveSeat, Object
<1>2. /\ DOMAIN f = {"action", "user_id", "section", "row", "col"}
      /\ f["action"].type = "str" /\ f["action"].text = "RESERVE"
      /\ f["user_id"].type = "str" /\ f["user_id"].text = u
      /\ f["section"] = seat["section"] /\ f["row"] = seat["row"] /\ f["col"] = seat["col"]
  BY DEF Text
<1>3. ValidSeat(seat)
  BY VenueSeatsAreValid
<1> HIDE DEF f
<1>4. ValidSeat(f)
  BY <1>2, <1>3 DEF ValidSeat, HasSection, HasIndex, HasField
<1>5. ValidAction(f) /\ ValidUser(f)
  BY <1>2 DEF ValidAction, ValidUser, HasName, HasField, Actions, ReserveActions
<1>6. ValidPayload(f)
  BY <1>2, <1>4 DEF ValidPayload
<1>7. QED
  BY <1>1, <1>5, <1>6 DEF Valid

LEMMA BatchRequestsAreValid ==
    ASSUME NEW a \in {"RESERVE_BATCH", "RESERVE_SELECTED"}, NEW u, u # Blank,
           NEW l \in SeatLists
    PROVE  Valid(ReserveSelected(a, u, l))
<1>1. PICK n \in 1 .. SeatLimit :
          l \in [1 .. n -> SeatsOfVenue] /\ \A i, j \in 1 .. n : l[i] = l[j] => i = j
  BY DEF SeatLists
<1>n. n \in Nat /\ n \in 1 .. SeatLimit
  BY SeatLimitAssumption
<1> DEFINE items == [i \in DOMAIN l |-> Object(l[i])]
           f == [action |-> Text(a), user_id |-> Text(u), seats |-> Array(items)]
<1>2. /\ ReserveSelected(a, u, l).type = "dict"
      /\ ReserveSelected(a, u, l).fields = f
  BY DEF ReserveSelected, Object
<1>3. /\ DOMAIN items = 1 .. n
      /\ \A i \in 1 .. n : items[i].type = "dict" /\ items[i].fields = l[i]
  BY <1>1 DEF Object
<1>4. Len(items) = n
  BY <1>n, <1>3
<1>5. /\ DOMAIN f = {"action", "user_id", "seats"}
      /\ f["action"].type = "str" /\ f["action"].text = a
      /\ f["user_id"].type = "str" /\ f["user_id"].text = u
      /\ f["seats"].type = "list" /\ f["seats"].items = items
  BY DEF Text, Array
<1> HIDE DEF items, f
<1>6. \A i \in 1 .. n : l[i] \in SeatsOfVenue /\ ValidSeat(l[i])
  BY <1>1, VenueSeatsAreValid
<1>7. \A i, j \in 1 .. n : SeatOf(l[i]) = SeatOf(l[j]) => i = j
  BY <1>1, VenueSeatsAreValid
<1>8. ValidBatch(f)
  BY <1>n, <1>3, <1>4, <1>5, <1>6, <1>7 DEF ValidBatch, HasField
<1>9. ValidAction(f) /\ ValidUser(f)
  BY <1>5 DEF ValidAction, ValidUser, HasName, HasField, Actions, ReserveActions
<1>10. ValidPayload(f)
  BY <1>5, <1>8 DEF ValidPayload
<1>11. QED
  BY <1>2, <1>9, <1>10 DEF Valid

LEMMA EndRequestsAreValid ==
    ASSUME NEW a \in {"CONFIRM", "CANCEL"}, NEW u, u # Blank, NEW id, id # Blank
    PROVE  Valid(EndSession(a, u, id))
<1> DEFINE f == [action |-> Text(a), user_id |-> Text(u), transaction_id |-> Text(id)]
<1>1. EndSession(a, u, id).type = "dict" /\ EndSession(a, u, id).fields = f
  BY DEF EndSession, Object
<1>2. /\ DOMAIN f = {"action", "user_id", "transaction_id"}
      /\ f["action"].type = "str" /\ f["action"].text = a
      /\ f["user_id"].type = "str" /\ f["user_id"].text = u
      /\ f["transaction_id"].type = "str" /\ f["transaction_id"].text = id
  BY DEF Text
<1> HIDE DEF f
<1>3. ValidAction(f) /\ ValidUser(f)
  BY <1>2 DEF ValidAction, ValidUser, HasName, HasField, Actions
<1>4. ValidPayload(f)
  BY <1>2 DEF ValidPayload, HasName, HasField
<1>5. QED
  BY <1>1, <1>3, <1>4 DEF Valid

LEMMA OtherRequestsAreValid ==
    ASSUME NEW a \in {"SUBSCRIBE_NOTIFICATIONS", "QUERY", "QUERY_SEAT_MAP"}, NEW u,
           u # Blank \/ a \in {"QUERY", "QUERY_SEAT_MAP"}
    PROVE  Valid(Ask(a, u))
<1> DEFINE f == [action |-> Text(a), user_id |-> Text(u)]
<1>1. Ask(a, u).type = "dict" /\ Ask(a, u).fields = f
  BY DEF Ask, Object
<1>2. /\ DOMAIN f = {"action", "user_id"}
      /\ f["action"].type = "str" /\ f["action"].text = a
      /\ f["user_id"].type = "str" /\ f["user_id"].text = u
  BY DEF Text
<1> HIDE DEF f
<1>3. ValidAction(f) /\ ValidUser(f)
  BY <1>2 DEF ValidAction, ValidUser, HasName, HasField, Actions
<1>4. ValidPayload(f)
  BY <1>2 DEF ValidPayload
<1>5. QED
  BY <1>1, <1>3, <1>4 DEF Valid

\* Whatever the venue and the limit of a batch: no request that a method of the
\* client library makes, for a user and a session whose names are not blank, is
\* refused by validate_request.
THEOREM LibraryRequestsAreAccepted == \A data \in LibraryRequests : Valid(data)
<1> SUFFICES ASSUME NEW data \in LibraryRequests PROVE Valid(data)
  OBVIOUS
<1>b. Blank \notin Names \cup Ids
  BY RequestsAssumption
<1>1. CASE \E u \in Names, seat \in SeatsOfVenue : data = ReserveSeat(u, seat)
  BY <1>1, <1>b, SeatRequestsAreValid
<1>2. CASE \E a \in {"RESERVE_BATCH", "RESERVE_SELECTED"}, u \in Names, l \in SeatLists :
              data = ReserveSelected(a, u, l)
  BY <1>2, <1>b, BatchRequestsAreValid
<1>3. CASE \E a \in {"CONFIRM", "CANCEL"}, u \in Names, id \in Ids : data = EndSession(a, u, id)
  BY <1>3, <1>b, EndRequestsAreValid
<1>4. CASE \E u \in Names : data = Ask("SUBSCRIBE_NOTIFICATIONS", u)
  BY <1>4, <1>b, OtherRequestsAreValid
<1>5. CASE \E a \in {"QUERY", "QUERY_SEAT_MAP"}, u \in Names \cup {Blank} : data = Ask(a, u)
  BY <1>5, <1>b, OtherRequestsAreValid
<1>6. QED
  BY <1>1, <1>2, <1>3, <1>4, <1>5 DEF LibraryRequests, ClientRequests

-----------------------------------------------------------------------------
(* What a handler reads of whatever got past validate_request               *)

\* The fields of a seat that passes name a seat of the venue.
LEMMA ValidSeatsAreOfTheVenue ==
    ASSUME NEW f, HasInts(f), ValidSeat(f)
    PROVE  \E seat \in SeatsOfVenue : SeatOf(seat) = SeatOf(f)
<1> DEFINE sec == f["section"].text
           r == f["row"].num
           c == f["col"].num
           seat == [section |-> Text(sec), row |-> Number(r), col |-> Number(c)]
<1>1. sec \in DOMAIN Venue /\ r \in Int /\ c \in Int /\ r >= 0 /\ c >= 0
  BY DEF ValidSeat, HasSection, HasIndex, HasField, HasInts
<1>2. r < Venue[sec].rows /\ c < Venue[sec].cols
  BY DEF ValidSeat
<1>3. Venue[sec].rows \in Nat /\ Venue[sec].cols \in Nat
  BY <1>1, VenueAssumption
<1>4. r \in 0 .. Venue[sec].rows - 1 /\ c \in 0 .. Venue[sec].cols - 1
  BY <1>1, <1>2, <1>3
<1>5. seat \in SeatsOfVenue
  BY <1>1, <1>4 DEF SeatsOfVenue
<1>6. SeatOf(seat) = SeatOf(f)
  BY DEF SeatOf, Text, Number
<1>7. QED
  BY <1>5, <1>6

\* The readings of what the library sends.
LEMMA LibraryReadings ==
    ASSUME NEW u, NEW id
    PROVE  /\ \A seat \in SeatsOfVenue :
                  /\ Reading(ReserveSeat(u, seat)) =
                         [action |-> "RESERVE", user |-> u, id |-> Blank,
                          places |-> <<SeatOf(seat)>>]
                  /\ ~IsQuery(ReserveSeat(u, seat))
           /\ \A a \in {"CONFIRM", "CANCEL"} :
                  /\ Reading(EndSession(a, u, id)) =
                         [action |-> a, user |-> u, id |-> id, places |-> <<>>]
                  /\ ~IsQuery(EndSession(a, u, id))
           /\ Reading(Ask("SUBSCRIBE_NOTIFICATIONS", u)) =
                  [action |-> "SUBSCRIBE_NOTIFICATIONS", user |-> u, id |-> Blank,
                   places |-> <<>>]
           /\ ~IsQuery(Ask("SUBSCRIBE_NOTIFICATIONS", u))
<1>1. ASSUME NEW seat \in SeatsOfVenue
      PROVE  /\ Reading(ReserveSeat(u, seat)) =
                    [action |-> "RESERVE", user |-> u, id |-> Blank,
                     places |-> <<SeatOf(seat)>>]
             /\ ~IsQuery(ReserveSeat(u, seat))
  BY DEF Reading, ReserveSeat, Object, Text, SeatOf, IsQuery
<1>2. ASSUME NEW a \in {"CONFIRM", "CANCEL"}
      PROVE  /\ Reading(EndSession(a, u, id)) =
                    [action |-> a, user |-> u, id |-> id, places |-> <<>>]
             /\ ~IsQuery(EndSession(a, u, id))
  BY DEF Reading, EndSession, Object, Text, IsQuery
<1>3. /\ Reading(Ask("SUBSCRIBE_NOTIFICATIONS", u)) =
             [action |-> "SUBSCRIBE_NOTIFICATIONS", user |-> u, id |-> Blank,
              places |-> <<>>]
      /\ ~IsQuery(Ask("SUBSCRIBE_NOTIFICATIONS", u))
  BY DEF Reading, Ask, Object, Text, IsQuery
<1>4. QED
  BY <1>1, <1>2, <1>3

LEMMA BatchReading ==
    ASSUME NEW a \in {"RESERVE_BATCH", "RESERVE_SELECTED"}, NEW u,
           NEW n \in Nat, NEW l, DOMAIN l = 1 .. n
    PROVE  /\ Reading(ReserveSelected(a, u, l)) =
                  [action |-> a, user |-> u, id |-> Blank,
                   places |-> [i \in 1 .. n |-> SeatOf(l[i])]]
           /\ ~IsQuery(ReserveSelected(a, u, l))
<1> DEFINE items == [i \in DOMAIN l |-> Object(l[i])]
           f == [action |-> Text(a), user_id |-> Text(u), seats |-> Array(items)]
<1>1. ReserveSelected(a, u, l).fields = f
  BY DEF ReserveSelected, Object
<1>2. /\ f["action"].text = a /\ f["user_id"].text = u
      /\ f["seats"].items = items
  BY DEF Text, Array
<1>3. Len(items) = n /\ \A i \in 1 .. n : items[i].fields = l[i]
  BY DEF Object
<1> HIDE DEF items, f
<1>4. [i \in 1 .. Len(items) |-> SeatOf(items[i].fields)] = [i \in 1 .. n |-> SeatOf(l[i])]
  BY <1>3
<1>5. a \notin {"RESERVE", "CONFIRM", "CANCEL", "QUERY", "QUERY_SEAT_MAP"}
  OBVIOUS
<1>6. QED
  BY <1>1, <1>2, <1>4, <1>5 DEF Reading, IsQuery

\* The seats of a valid batch are those of a list the library could send.
LEMMA ValidBatchesAreLists ==
    ASSUME NEW f, ValidBatch(f), IsJson(Object(f))
    PROVE  \E l \in SeatLists :
               LET items == f["seats"].items
               IN  /\ Len(items) \in Nat /\ DOMAIN l = 1 .. Len(items)
                   /\ \A i \in 1 .. Len(items) : SeatOf(l[i]) = SeatOf(items[i].fields)
<1> DEFINE items == f["seats"].items
           n == Len(items)
           l == [i \in 1 .. n |->
                    CHOOSE seat \in SeatsOfVenue : SeatOf(seat) = SeatOf(items[i].fields)]
<1>1. /\ "seats" \in DOMAIN f /\ f["seats"].type = "list" /\ n \in 1 .. SeatLimit
      /\ \A i \in 1 .. n : items[i].type = "dict" /\ ValidSeat(items[i].fields)
      /\ \A i, j \in 1 .. n : SeatOf(items[i].fields) = SeatOf(items[j].fields) => i = j
  BY DEF ValidBatch, HasField
<1>2. /\ n \in Nat /\ DOMAIN items = 1 .. n
      /\ \A i \in 1 .. n : HasInts(items[i].fields)
  BY <1>1 DEF IsJson, Object, IsList
<1> HIDE DEF items
<1>3. \A i \in 1 .. n : \E seat \in SeatsOfVenue : SeatOf(seat) = SeatOf(items[i].fields)
  BY <1>1, <1>2, ValidSeatsAreOfTheVenue
<1>4. \A i \in 1 .. n : l[i] \in SeatsOfVenue /\ SeatOf(l[i]) = SeatOf(items[i].fields)
  BY <1>3
<1>5. l \in [1 .. n -> SeatsOfVenue] /\ DOMAIN l = 1 .. n
  BY <1>4
<1> HIDE DEF l
<1>6. \A i, j \in 1 .. n : l[i] = l[j] => i = j
  BY <1>1, <1>4
<1>7. l \in SeatLists
  BY <1>1, <1>5, <1>6 DEF SeatLists
<1>8. QED
  BY <1>2, <1>4, <1>5, <1>7 DEF items

LEMMA ValidRequestsReadRight ==
    ASSUME NEW data, IsJson(data), Valid(data), ~IsQuery(data)
    PROVE  ReadsLikeTheLibrarys(data)
<1> DEFINE f == data.fields
           a == f["action"].text
           u == f["user_id"].text
           requests == ClientRequests({Reading(data).user} \ {Blank},
                                      {Reading(data).id} \ {Blank})
<1>1. /\ data.type = "dict" /\ a \in Actions
      /\ a \notin {"QUERY", "QUERY_SEAT_MAP"}
      /\ "user_id" \in DOMAIN f /\ u # Blank
      /\ ValidPayload(f)
  BY DEF Valid, ValidAction, ValidUser, HasName, HasField, IsQuery
<1>2. Reading(data).user = u
  BY DEF Reading
<1>3. HasInts(f) /\ IsJson(Object(f))
  BY <1>1 DEF IsJson, Object
<1>4. SUFFICES \E x \in requests : ~IsQuery(x) /\ Reading(x) = Reading(data)
  BY DEF ReadsLikeTheLibrarys
<1>5. CASE a = "RESERVE"
  <2>1. ValidSeat(f)
    BY <1>1, <1>5 DEF ValidPayload
  <2>2. PICK seat \in SeatsOfVenue : SeatOf(seat) = SeatOf(f)
    BY <2>1, <1>3, ValidSeatsAreOfTheVenue
  <2>3. Reading(data) = [action |-> "RESERVE", user |-> u, id |-> Blank,
                         places |-> <<SeatOf(f)>>]
    BY <1>5 DEF Reading
  <2>4. Reading(ReserveSeat(u, seat)) = Reading(data) /\ ~IsQuery(ReserveSeat(u, seat))
    BY <2>2, <2>3, LibraryReadings
  <2>5. ReserveSeat(u, seat) \in requests
    BY <1>1, <1>2 DEF ClientRequests
  <2>6. QED
    BY <2>4, <2>5
<1>6. CASE a \in {"RESERVE_BATCH", "RESERVE_SELECTED"}
  <2> DEFINE items == f["seats"].items
  <2>1. ValidBatch(f)
    BY <1>1, <1>6 DEF ValidPayload
  <2>2. PICK l \in SeatLists :
            /\ Len(items) \in Nat /\ DOMAIN l = 1 .. Len(items)
            /\ \A i \in 1 .. Len(items) : SeatOf(l[i]) = SeatOf(items[i].fields)
    BY <2>1, <1>3, ValidBatchesAreLists
  <2>3. Reading(data) = [action |-> a, user |-> u, id |-> Blank,
                         places |-> [i \in 1 .. Len(items) |-> SeatOf(items[i].fields)]]
    BY <1>6 DEF Reading
  <2>4. [i \in 1 .. Len(items) |-> SeatOf(items[i].fields)]
            = [i \in 1 .. Len(items) |-> SeatOf(l[i])]
    BY <2>2
  <2> HIDE DEF items, f, a, u
  <2>a. /\ Reading(ReserveSelected(a, u, l)) =
               [action |-> a, user |-> u, id |-> Blank,
                places |-> [i \in 1 .. Len(items) |-> SeatOf(l[i])]]
        /\ ~IsQuery(ReserveSelected(a, u, l))
    BY <1>6, <2>2, BatchReading
  <2>5. /\ Reading(ReserveSelected(a, u, l)) = Reading(data)
        /\ ~IsQuery(ReserveSelected(a, u, l))
    BY <2>3, <2>4, <2>a
  <2>6. ReserveSelected(a, u, l) \in requests
    BY <1>1, <1>2, <1>6 DEF ClientRequests
  <2>7. QED
    BY <2>5, <2>6
<1>7. CASE a \in {"CONFIRM", "CANCEL"}
  <2> DEFINE id == f["transaction_id"].text
  <2>1. id # Blank
    BY <1>1, <1>7 DEF ValidPayload, HasName
  <2>2. Reading(data) = [action |-> a, user |-> u, id |-> id, places |-> <<>>]
    BY <1>7 DEF Reading
  <2>3. Reading(EndSession(a, u, id)) = Reading(data) /\ ~IsQuery(EndSession(a, u, id))
    BY <1>7, <2>2, LibraryReadings
  <2>4. Reading(data).id = id
    BY <2>2
  <2>5. EndSession(a, u, id) \in requests
    BY <1>1, <1>2, <1>7, <2>1, <2>4 DEF ClientRequests
  <2>6. QED
    BY <2>3, <2>5
<1>8. CASE a = "SUBSCRIBE_NOTIFICATIONS"
  <2>1. Reading(data) = [action |-> a, user |-> u, id |-> Blank, places |-> <<>>]
    BY <1>8 DEF Reading
  <2>2. /\ Reading(Ask("SUBSCRIBE_NOTIFICATIONS", u)) = Reading(data)
        /\ ~IsQuery(Ask("SUBSCRIBE_NOTIFICATIONS", u))
    BY <1>8, <2>1, LibraryReadings
  <2>3. Ask("SUBSCRIBE_NOTIFICATIONS", u) \in requests
    BY <1>1, <1>2 DEF ClientRequests
  <2>4. QED
    BY <2>2, <2>3
<1>9. QED
  BY <1>1, <1>5, <1>6, <1>7, <1>8 DEF Actions, ReserveActions

\* validate_request stands between whatever arrives and the handlers, for any
\* venue and any limit: it refuses nothing the library sends, and what it lets
\* through reads like something the library sends, fields it does not know
\* included.
THEOREM RequestsAreJudged == ConnSpec => []RequestsAreJudgedRight
<1>1. RequestsAreJudgedRight
  BY LibraryRequestsAreAccepted, ValidRequestsReadRight, RequestsAssumption
     DEF RequestsAreJudgedRight
<1>2. QED
  BY <1>1, PTL
=============================================================================
