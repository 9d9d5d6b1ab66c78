----------------------------- MODULE Connections -----------------------------
(***************************************************************************)
(* A connection from accept() to close(): the listener that starts a       *)
(* thread for it, the thread, which reads one request, judges it, has it   *)
(* handled and answers, the list of threads they are entered in, and       *)
(* stop(), which waits for the threads of that list.  What the handlers do *)
(* to the seats is the other modules' matter; here a handler ends.         *)
(***************************************************************************)
EXTENDS ProtocolValidator

CONSTANTS
    Clients,        \* connections, each with one client
    RequestsOf,     \* what each of them may send
    Names, Ids,     \* of users and of their sessions, as clients send them
    NoOne,          \* "no connection", "nobody has the lock"
    Main,           \* the thread that runs stop()
    MaxStartFailures, \* bound: threads that cannot be started
    MaxLogFaults    \* bound: log appends that raise OSError

ASSUME ClientsAssumption ==
    /\ NoOne \notin Clients /\ Main \notin Clients \cup {NoOne}
    /\ DOMAIN RequestsOf = Clients
\* What arrives as JSON is JSON; people and sessions have names.
ASSUME RequestsAssumption ==
    /\ \A c \in Clients : \A data \in RequestsOf[c] : IsJson(data)
    /\ Blank \notin Names \cup Ids
ASSUME FaultsAssumption == MaxStartFailures \in Nat /\ MaxLogFaults \in Nat

VARIABLES
    client,         \* the client at the other end
    sock,           \* the server's socket of a connection
    answered,       \* connections whose client was sent an answer
    listener,       \* ListenerThread.run
    thread,         \* TransactionalThread.run
    subscribed,     \* connections registered with the notification manager
    active,         \* active_threads
    lock,           \* who has active_threads_lock
    main,           \* stop(), then the end of the process
    faults          \* threads not started and log appends that raised, so far

connVars == <<client, sock, answered, listener, thread, subscribed, active,
              lock, main, faults>>

ThreadPc == {"none", "stillborn", "recv", "refuse", "handle", "answer", "failed",
             "error", "keepAlive", "close", "unregister", "forget", "ended"}
MainPc == {"serving", "stopping", "cleanup", "lock", "join",
           "stopped", "exited"}

\* subscribes: the request is a subscription; transferred: the notification
\* manager has the socket; others: what unregister_thread will leave in the list.
NoThread == [pc |-> "none", subscribes |-> FALSE, transferred |-> FALSE, others |-> {}]

ConnInit ==
    /\ client = [c \in Clients |-> "away"]
    /\ sock = [c \in Clients |-> "none"]
    /\ answered = {}
    /\ listener = [pc |-> "loop", conn |-> NoOne]
    /\ thread = [c \in Clients |-> NoThread]
    /\ subscribed = {}
    /\ active = {}
    /\ lock = NoOne
    /\ main = [pc |-> "serving", todo |-> {}]
    /\ faults = [start |-> 0, log |-> 0]

running == main.pc = "serving"
Listening == main.pc \in {"serving", "stopping"}

Becomes(c, r) == thread' = [thread EXCEPT ![c] = r]
Goto(c, pc)   == Becomes(c, [thread[c] EXCEPT !.pc = pc])
LogFails ==
    /\ faults.log < MaxLogFaults
    /\ faults' = [faults EXCEPT !.log = @ + 1]

-----------------------------------------------------------------------------
(* Clients *)

Connect(c) ==
    /\ client[c] = "away" /\ Listening
    /\ client' = [client EXCEPT ![c] = "silent"]
    /\ sock' = [sock EXCEPT ![c] = "backlog"]
    /\ UNCHANGED <<answered, listener, thread, subscribed, active, lock, main, faults>>

\* Which request shows when it is read.
SendRequest(c) ==
    /\ client[c] = "silent" /\ sock[c] # "closed"
    /\ client' = [client EXCEPT ![c] = "sent"]
    /\ UNCHANGED <<sock, answered, listener, thread, subscribed, active, lock, main, faults>>

\* With or without having sent its request, which shows when it is read, and
\* having had an answer.
Leave(c) ==
    /\ client[c] \in {"silent", "sent"}
    /\ client' = [client EXCEPT ![c] = "gone"]
    /\ UNCHANGED <<sock, answered, listener, thread, subscribed, active, lock, main, faults>>

-----------------------------------------------------------------------------
(* ListenerThread.run *)

Loop ==
    /\ listener.pc = "loop"
    /\ listener' = [listener EXCEPT !.pc = IF running THEN "accept" ELSE "ended"]
    /\ UNCHANGED <<client, sock, answered, thread, subscribed, active, lock, main, faults>>

Accept(c) ==
    /\ listener.pc = "accept" /\ Listening
    /\ sock[c] = "backlog"
    /\ sock' = [sock EXCEPT ![c] = "open"]
    /\ listener' = [pc |-> "register", conn |-> c]
    /\ UNCHANGED <<client, answered, thread, subscribed, active, lock, main, faults>>

\* The listening socket is closed: OSError, and running is False.
AcceptFails ==
    /\ listener.pc = "accept" /\ ~Listening
    /\ listener' = [listener EXCEPT !.pc = "ended"]
    /\ UNCHANGED <<client, sock, answered, thread, subscribed, active, lock, main, faults>>

RegisterThread ==
    /\ listener.pc = "register" /\ lock = NoOne
    /\ active' = active \cup {listener.conn}
    /\ listener' = [listener EXCEPT !.pc = "start"]
    /\ UNCHANGED <<client, sock, answered, thread, subscribed, lock, main, faults>>

\* The log line that follows may fail without consequences.
StartThread ==
    /\ listener.pc = "start"
    /\ Goto(listener.conn, "recv")
    /\ listener' = [pc |-> "loop", conn |-> NoOne]
    /\ UNCHANGED <<client, sock, answered, subscribed, active, lock, main, faults>>

\* RuntimeError: the entry and the socket stay.
StartFails ==
    /\ listener.pc = "start"
    /\ faults.start < MaxStartFailures
    /\ faults' = [faults EXCEPT !.start = @ + 1]
    /\ Goto(listener.conn, "stillborn")
    /\ listener' = [pc |-> IF running THEN "failed" ELSE "loop", conn |-> NoOne]
    /\ UNCHANGED <<client, sock, answered, subscribed, active, lock, main>>

LogStartFailure ==
    /\ listener.pc = "failed"
    /\ listener' = [listener EXCEPT !.pc = "loop"]
    /\ UNCHANGED <<client, sock, answered, thread, subscribed, active, lock, main, faults>>

\* Raised in the except clause, an OSError leaves run().
ListenerDies ==
    /\ listener.pc = "failed" /\ LogFails
    /\ listener' = [listener EXCEPT !.pc = "ended"]
    /\ UNCHANGED <<client, sock, answered, thread, subscribed, active, lock, main>>

ListenerNext ==
    \/ Loop
    \/ \E c \in Clients : Accept(c)
    \/ AcceptFails
    \/ RegisterThread
    \/ StartThread
    \/ StartFails
    \/ LogStartFailure
    \/ ListenerDies

-----------------------------------------------------------------------------
(* TransactionalThread.run *)

Unreachable(c) == client[c] = "gone" \/ sock[c] = "closed"

\* One recv, without a timeout: the request, a part of it or, once the client
\* has gone, nothing.  Then validate_request.
Receive(c) ==
    /\ thread[c].pc = "recv" /\ client[c] # "silent"
    /\ \E data \in RequestsOf[c] \cup {Garbage} :
           Becomes(c, [thread[c] EXCEPT
               !.pc = IF Valid(data) THEN "handle" ELSE "refuse",
               !.subscribes = Valid(data) /\ IsSubscription(data)])
    /\ UNCHANGED <<client, sock, answered, listener, subscribed, active, lock, main, faults>>

ReceiveFails(c) ==
    /\ thread[c].pc = "recv" /\ client[c] = "gone"
    /\ Goto(c, "failed")
    /\ UNCHANGED <<client, sock, answered, listener, subscribed, active, lock, main, faults>>

\* SUBSCRIBE_NOTIFICATIONS registers the socket.
Handle(c) ==
    /\ thread[c].pc = "handle"
    /\ Becomes(c, [thread[c] EXCEPT !.pc = "answer", !.transferred = thread[c].subscribes])
    /\ subscribed' = IF thread[c].subscribes THEN subscribed \cup {c} ELSE subscribed
    /\ UNCHANGED <<client, sock, answered, listener, active, lock, main, faults>>

\* The handler raises, as a log append does; subscribe() has done its work then.
HandleFails(c) ==
    /\ thread[c].pc = "handle" /\ LogFails
    /\ Goto(c, "failed")
    /\ subscribed' = IF thread[c].subscribes THEN subscribed \cup {c} ELSE subscribed
    /\ UNCHANGED <<client, sock, answered, listener, active, lock, main>>

\* Variant: nothing is sent for a request that is not valid, and the thread is
\* done with it.
SendToValid(c) ==
    /\ thread[c].pc \in {"refuse", "answer"} /\ ~Unreachable(c)
    /\ answered' = IF thread[c].pc = "answer" THEN answered \cup {c} ELSE answered
    /\ Goto(c, CASE thread[c].pc = "refuse" -> "unregister"
                  [] thread[c].transferred   -> "keepAlive"
                  [] OTHER                   -> "close")
    /\ UNCHANGED <<client, sock, listener, subscribed, active, lock, main, faults>>

\* A client that has just gone may still be sent to.
Send(c) ==
    /\ thread[c].pc \in {"refuse", "answer"} /\ sock[c] = "open"
    /\ answered' = answered \cup {c}
    /\ Goto(c, IF thread[c].transferred THEN "keepAlive" ELSE "close")
    /\ UNCHANGED <<client, sock, listener, subscribed, active, lock, main, faults>>

SendFails(c) ==
    /\ thread[c].pc \in {"refuse", "answer"} /\ Unreachable(c)
    /\ Goto(c, "failed")
    /\ UNCHANGED <<client, sock, answered, listener, subscribed, active, lock, main, faults>>

\* The except clause: of handle_subscribe, which returns then, or of run.
LogFailure(c) ==
    /\ thread[c].pc = "failed"
    /\ Goto(c, IF thread[c].subscribes THEN "close" ELSE "error")
    /\ UNCHANGED <<client, sock, answered, listener, subscribed, active, lock, main, faults>>

\* Variant: the finally clause does not close what the except clause left.
LogFailureFailsOpen(c) ==
    /\ thread[c].pc = "failed" /\ LogFails
    /\ Goto(c, "unregister")
    /\ UNCHANGED <<client, sock, answered, listener, subscribed, active, lock, main>>

\* Raised in handle_subscribe's, the OSError is run's to handle; raised in
\* run's, it leaves run by the finally clause.
LogFailureFails(c) ==
    /\ thread[c].pc = "failed" /\ LogFails
    /\ Becomes(c, [thread[c] EXCEPT !.subscribes = FALSE,
                      !.pc = IF thread[c].subscribes THEN "failed" ELSE "close"])
    /\ UNCHANGED <<client, sock, answered, listener, subscribed, active, lock, main>>

\* INTERNAL_ERROR, if it can be sent.
SendError(c) ==
    /\ thread[c].pc = "error"
    /\ answered' = IF Unreachable(c) THEN answered ELSE answered \cup {c}
    /\ Goto(c, "close")
    /\ UNCHANGED <<client, sock, listener, subscribed, active, lock, main, faults>>

\* unsubscribe, pop included.
Unsubscribe(c) ==
    /\ subscribed' = subscribed \ {c}
    /\ sock' = IF c \in subscribed THEN [sock EXCEPT ![c] = "closed"] ELSE sock

\* Variant: the keep-alive loop does not look at running.
KeepAliveUntilGone(c) ==
    /\ thread[c].pc = "keepAlive" /\ client[c] = "gone"
    /\ Unsubscribe(c)
    /\ Goto(c, "close")
    /\ UNCHANGED <<client, answered, listener, active, lock, main, faults>>

\* The client has gone, or the 600 seconds of the loop's recv are over and the
\* server is stopping or has closed the socket.
KeepAliveEnds(c) ==
    /\ thread[c].pc = "keepAlive" /\ (Unreachable(c) \/ ~running)
    /\ Unsubscribe(c)
    /\ Goto(c, "close")
    /\ UNCHANGED <<client, answered, listener, active, lock, main, faults>>

\* The notifier's send fails.
NotifierDrops(c) ==
    /\ c \in subscribed /\ Unreachable(c)
    /\ Unsubscribe(c)
    /\ UNCHANGED <<client, answered, listener, thread, active, lock, main, faults>>

Close(c) ==
    /\ thread[c].pc = "close"
    /\ sock' = IF thread[c].transferred THEN sock ELSE [sock EXCEPT ![c] = "closed"]
    /\ Goto(c, "unregister")
    /\ UNCHANGED <<client, answered, listener, subscribed, active, lock, main, faults>>

\* Variant: unregister_thread does without the lock.
LookThroughUnlocked(c) ==
    /\ thread[c].pc = "unregister"
    /\ Becomes(c, [thread[c] EXCEPT !.pc = "forget", !.others = active \ {c}])
    /\ UNCHANGED <<client, sock, answered, listener, subscribed, active, lock, main, faults>>

\* unregister_thread: the list is gone through, then replaced.
LookThrough(c) ==
    /\ thread[c].pc = "unregister" /\ lock = NoOne
    /\ lock' = c
    /\ Becomes(c, [thread[c] EXCEPT !.pc = "forget", !.others = active \ {c}])
    /\ UNCHANGED <<client, sock, answered, listener, subscribed, active, main, faults>>

Forget(c) ==
    /\ thread[c].pc = "forget"
    /\ active' = thread[c].others
    /\ lock' = NoOne
    /\ Becomes(c, [NoThread EXCEPT !.pc = "ended"])
    /\ UNCHANGED <<client, sock, answered, listener, subscribed, main, faults>>

ThreadNext(c) ==
    \/ Receive(c)      \/ ReceiveFails(c)
    \/ Handle(c)       \/ HandleFails(c)
    \/ Send(c)         \/ SendFails(c)
    \/ LogFailure(c)   \/ LogFailureFails(c)
    \/ SendError(c)
    \/ KeepAliveEnds(c)
    \/ Close(c)
    \/ LookThrough(c)  \/ Forget(c)

-----------------------------------------------------------------------------
(* stop(), and what the interpreter does after it *)

BeginStop ==
    /\ main.pc = "serving"
    /\ main' = [main EXCEPT !.pc = "stopping"]
    /\ UNCHANGED <<client, sock, answered, listener, thread, subscribed, active, lock, faults>>

\* Connections nobody has accepted are reset.
CloseListening ==
    /\ main.pc = "stopping"
    /\ main' = [main EXCEPT !.pc = "cleanup"]
    /\ sock' = [c \in Clients |-> IF sock[c] = "backlog" THEN "closed" ELSE sock[c]]
    /\ UNCHANGED <<client, answered, listener, thread, subscribed, active, lock, faults>>

\* notification_manager.cleanup, after joins of two seconds at most: the
\* listener and the monitor may not have ended.
Cleanup ==
    /\ main.pc = "cleanup"
    /\ main' = [main EXCEPT !.pc = "lock"]
    /\ subscribed' = {}
    /\ sock' = [c \in Clients |-> IF c \in subscribed THEN "closed" ELSE sock[c]]
    /\ UNCHANGED <<client, answered, listener, thread, active, lock, faults>>

TakeLock ==
    /\ main.pc = "lock" /\ lock = NoOne
    /\ lock' = Main
    /\ main' = [pc |-> "join", todo |-> active]
    /\ UNCHANGED <<client, sock, answered, listener, thread, subscribed, active, faults>>

\* Variant: a join without a timeout.
JoinUntilEnded(c) ==
    /\ main.pc = "join" /\ c \in main.todo
    /\ thread[c].pc \in {"none", "stillborn", "ended"}
    /\ main' = [main EXCEPT !.todo = @ \ {c}]
    /\ UNCHANGED <<client, sock, answered, listener, thread, subscribed, active, lock, faults>>

\* For one second at most, whatever the thread does.
JoinThread(c) ==
    /\ main.pc = "join" /\ c \in main.todo
    /\ main' = [main EXCEPT !.todo = @ \ {c}]
    /\ UNCHANGED <<client, sock, answered, listener, thread, subscribed, active, lock, faults>>

ClearThreads ==
    /\ main.pc = "join" /\ main.todo = {}
    /\ active' = {}
    /\ lock' = NoOne
    /\ main' = [main EXCEPT !.pc = "stopped"]
    /\ UNCHANGED <<client, sock, answered, listener, thread, subscribed, faults>>

\* The interpreter waits, without a limit, for every thread that is no daemon.
Exit ==
    /\ main.pc = "stopped"
    /\ listener.pc = "ended"
    /\ \A c \in Clients : thread[c].pc \in {"none", "stillborn", "ended"}
    /\ main' = [main EXCEPT !.pc = "exited"]
    /\ sock' = [c \in Clients |-> IF sock[c] = "none" THEN "none" ELSE "closed"]
    /\ UNCHANGED <<client, answered, listener, thread, subscribed, active, lock, faults>>

StopNext ==
    \/ CloseListening \/ Cleanup \/ TakeLock
    \/ \E c \in Clients : JoinThread(c)
    \/ ClearThreads \/ Exit

ConnNext ==
    \/ \E c \in Clients : \/ Connect(c) \/ SendRequest(c) \/ Leave(c)
                          \/ NotifierDrops(c) \/ ThreadNext(c)
    \/ ListenerNext
    \/ BeginStop
    \/ StopNext

\* The server's threads run; no client does anything it does not want to, and
\* nobody has to stop the server.
ConnSpec == ConnInit /\ [][ConnNext]_connVars
FairConnSpec ==
    /\ ConnSpec
    /\ \A c \in Clients : WF_connVars(ThreadNext(c))
    /\ WF_connVars(ListenerNext)
    /\ WF_connVars(StopNext)

-----------------------------------------------------------------------------
Alive(c) == thread[c].pc \notin {"none", "stillborn", "ended"}

ConnTypeOK ==
    /\ client \in [Clients -> {"away", "silent", "sent", "gone"}]
    /\ sock \in [Clients -> {"none", "backlog", "open", "closed"}]
    /\ answered \subseteq Clients /\ subscribed \subseteq Clients /\ active \subseteq Clients
    /\ listener \in [pc : {"loop", "accept", "register", "start", "failed", "ended"},
                     conn : Clients \cup {NoOne}]
    /\ thread \in [Clients -> [pc : ThreadPc, subscribes : BOOLEAN,
                                transferred : BOOLEAN, others : SUBSET Clients]]
    /\ lock \in Clients \cup {NoOne, Main}
    /\ main \in [pc : MainPc, todo : SUBSET Clients]
    /\ faults \in [start : 0 .. MaxStartFailures, log : 0 .. MaxLogFaults]

\* stop() waits for every request that is being served: until it has gone
\* through the list, every living thread is in it.  And the list forgets:
\* a thread that has ended is not in it.
RegistryIsExact ==
    \A c \in Clients :
        /\ Alive(c) /\ main.pc \notin {"stopped", "exited"} => c \in active
        /\ thread[c].pc = "ended" => c \notin active

\* Of what a thread may receive, no request the client library makes is
\* refused, and whatever else gets past validate_request is, to the handler that
\* reads it, one of the library's: for a user who has a name, and for one to
\* SeatLimit different seats of the venue, or for a session that has an id.
LibraryRequests == ClientRequests(Names, Ids)
ReadsLikeTheLibrarys(data) ==
    LET r == Reading(data)
    IN  r \in {Reading(x) : x \in {y \in ClientRequests({r.user} \ {Blank}, {r.id} \ {Blank}) :
                                     ~IsQuery(y)}}
RequestsAreJudgedRight ==
    \A c \in Clients : thread[c].pc = "recv" => \A data \in RequestsOf[c] :
        /\ data \in LibraryRequests => Valid(data)
        /\ Valid(data) => IsQuery(data) \/ ReadsLikeTheLibrarys(data)

\* A connection is not forgotten: as long as its socket is open a thread will
\* close it, or the notification manager has it.  The exception is one whose
\* thread could not be started.
SocketsHaveOwners ==
    \A c \in Clients : sock[c] = "open" =>
        \/ listener.conn = c
        \/ Alive(c) /\ thread[c].pc \notin {"unregister", "forget"}
        \/ c \in subscribed
        \/ thread[c].pc = "stillborn"

\* A client that has sent a request is answered, or at least told that the
\* connection has ended.  What a failure can do is no more than this: one
\* connection has no thread, or nobody accepts connections any more.
ClientsAreHeard ==
    \A c \in Clients : client[c] = "sent" ~>
        \/ c \in answered \/ Unreachable(c)
        \/ thread[c].pc = "stillborn"
        \/ sock[c] = "backlog" /\ listener.pc = "ended"

\* stop() comes to its end, although it waits for threads that wait for the
\* lock it has.
StopReturns == main.pc = "stopping" ~> main.pc \in {"stopped", "exited"}

\* After stop() only a client that has connected and sent nothing can keep the
\* process from ending; subscribers cannot.
OnlySilentClientsHoldTheProcess ==
    main.pc = "stopped" ~>
        \/ main.pc = "exited"
        \/ \E c \in Clients : thread[c].pc = "recv" /\ client[c] = "silent"
=============================================================================
