---------------------------- MODULE Notifications ----------------------------
(***************************************************************************)
(* Push notifications: SUBSCRIBE_NOTIFICATIONS handlers, which keep their  *)
(* connections for good, the notifier thread that sends to all of them,    *)
(* and the clients at the other end.  A user may subscribe again, from a   *)
(* new connection, at any time.                                            *)
(***************************************************************************)
EXTENDS Naturals, Sequences

CONSTANTS
    Users,
    Connections,    \* connections that ask for a subscription
    Callers,        \* which user each of them may be of: a set of functions
    None,           \* "no connection", "no user"
    Buffer,         \* notifications a socket holds that is not read from
    MaxEvents,      \* bound: notifications appended by the other threads
    MaxLogFaults    \* bound: log appends that raise OSError

ASSUME ConnectionsAssumption ==
    /\ None \notin Users \cup Connections
    /\ Callers \subseteq [Connections -> Users]
ASSUME NumbersAssumption ==
    Buffer \in Nat \ {0} /\ MaxEvents \in Nat /\ MaxLogFaults \in Nat

VARIABLES
    userOf,         \* the user that each connection's request names
    subscriber,     \* _subscribers: the connection a user is subscribed with
    queue,          \* NotificationSubscriber.queue of each connection
    open,           \* connections whose socket the server has not closed
    handler,        \* how far handle_subscribe has come
    client,         \* the client at the other end
    unread,         \* what was sent to it and it has not read
    notifier,       \* NotifierThread.run
    events,         \* events so far: the number of the last
    logFaults

vars == <<userOf, subscriber, queue, open, handler, client, unread, notifier,
          events, logFaults>>

Message == [kind : {"SUCCESS", "SUBSCRIBED", "EVENT"}, number : 0 .. MaxEvents]
Success    == [kind |-> "SUCCESS", number |-> 0]
Subscribed == [kind |-> "SUBSCRIBED", number |-> 0]
Event(n)   == [kind |-> "EVENT", number |-> n]

HandlerPc == {"none", "registered", "queued", "answered", "keepAlive", "done"}
ClientPc  == {"away", "connecting", "reading", "gone"}

\* todo: users of this round; user, conn: whose queue, then whose socket is in
\* use; holding: the notification taken off the queue.
Notifier == [pc : {"next", "get", "send", "drop", "dead"}, todo : SUBSET Users,
             user : Users \cup {None}, conn : Connections \cup {None},
             holding : Message]
Polling(todo) == [pc |-> "next", todo |-> todo, user |-> None, conn |-> None,
                  holding |-> Success]

\* append: to the queue of the user's subscription, if there is one.
AppendNotification(u, message) ==
    queue' = [c \in Connections |->
        IF c = subscriber[u] THEN Append(queue[c], message) ELSE queue[c]]

\* Variant: the user's entry is removed and its socket left open.
UnsubscribeOnly(u) ==
    subscriber' = [subscriber EXCEPT ![u] = None] /\ open' = open

\* unsubscribe: whichever connection the user is subscribed with by now.
Unsubscribe(u) ==
    /\ subscriber' = [subscriber EXCEPT ![u] = None]
    /\ open' = open \ {subscriber[u]}

Init ==
    /\ userOf \in Callers
    /\ subscriber = [u \in Users |-> None]
    /\ queue = [c \in Connections |-> <<>>]
    /\ open = {}
    /\ handler = [c \in Connections |-> "none"]
    /\ client = [c \in Connections |-> "away"]
    /\ unread = [c \in Connections |-> <<>>]
    /\ notifier = Polling({})
    /\ events = 0
    /\ logFaults = 0

-----------------------------------------------------------------------------
(* handle_subscribe *)

\* subscribe: the old socket is closed and replaced.
Subscribe(c) ==
    LET u == userOf[c]
    IN  /\ handler[c] = "none"
        /\ subscriber' = [subscriber EXCEPT ![u] = c]
        /\ open' = (open \ {subscriber[u]}) \cup {c}
        /\ handler' = [handler EXCEPT ![c] = "registered"]
        /\ client' = [client EXCEPT ![c] = "connecting"]
        /\ UNCHANGED <<userOf, queue, unread, notifier, events, logFaults>>

\* The log append raises: run() closes the socket, which is still registered.
SubscribeLogFails(c) ==
    /\ handler[c] = "registered"
    /\ logFaults < MaxLogFaults
    /\ logFaults' = logFaults + 1
    /\ open' = open \ {c}
    /\ handler' = [handler EXCEPT ![c] = "done"]
    /\ UNCHANGED <<userOf, subscriber, queue, client, unread, notifier, events>>

\* SUBSCRIBED goes to the subscription the user has by now.
QueueSubscribed(c) ==
    /\ handler[c] = "registered"
    /\ AppendNotification(userOf[c], Subscribed)
    /\ handler' = [handler EXCEPT ![c] = "queued"]
    /\ UNCHANGED <<userOf, subscriber, open, client, unread, notifier, events,
                   logFaults>>

\* A client that has gone takes what is sent to it for a while.
Sent(c, message) ==
    IF client[c] = "gone" THEN unread
    ELSE [unread EXCEPT ![c] = Append(@, message)]

AnswerSubscribe(c) ==
    /\ handler[c] = "queued"
    /\ c \in open
    /\ unread' = Sent(c, Success)
    /\ handler' = [handler EXCEPT ![c] = "answered"]
    /\ UNCHANGED <<userOf, subscriber, queue, open, client, notifier, events,
                   logFaults>>

\* send raises: the handler returns, and neither closes nor unsubscribes.
AnswerFails(c) ==
    /\ handler[c] = "queued"
    /\ c \notin open \/ client[c] = "gone"
    /\ handler' = [handler EXCEPT ![c] = "done"]
    /\ UNCHANGED <<userOf, subscriber, queue, open, client, unread, notifier,
                   events, logFaults>>

\* settimeout(600), outside the try: on a closed socket it raises at once.
StartKeepAlive(c) ==
    /\ handler[c] = "answered"
    /\ handler' = [handler EXCEPT ![c] =
                      IF c \in open THEN "keepAlive" ELSE "done"]
    /\ UNCHANGED <<userOf, subscriber, queue, open, client, unread, notifier,
                   events, logFaults>>

\* Variant: the loop ends without its finally.
KeepAliveEndsOnly(c) ==
    /\ handler[c] = "keepAlive"
    /\ client[c] = "gone" \/ c \notin open
    /\ handler' = [handler EXCEPT ![c] = "done"]
    /\ UNCHANGED <<userOf, subscriber, open, queue, client, unread, notifier,
                   events, logFaults>>

\* recv returns nothing, as the client has gone, or raises, as the socket has
\* been closed under it: the user is unsubscribed.
KeepAliveEnds(c) ==
    /\ handler[c] = "keepAlive"
    /\ client[c] = "gone" \/ c \notin open
    /\ Unsubscribe(userOf[c])
    /\ handler' = [handler EXCEPT ![c] = "done"]
    /\ UNCHANGED <<userOf, queue, client, unread, notifier, events, logFaults>>

\* TransactionalThreads and the monitor call append, which returns at once
\* unless the user is subscribed.
Notify(u) ==
    /\ events < MaxEvents
    /\ subscriber[u] # None
    /\ events' = events + 1
    /\ AppendNotification(u, Event(events + 1))
    /\ UNCHANGED <<userOf, subscriber, open, handler, client, unread, notifier,
                   logFaults>>

-----------------------------------------------------------------------------
(* NotifierThread *)

HasSubscription(u) == subscriber[u] # None

\* get_all_subscribers, each time round.
ListSubscribers ==
    /\ notifier.pc = "next" /\ notifier.todo = {}
    /\ notifier' = Polling({u \in Users : HasSubscription(u)})
    /\ UNCHANGED <<userOf, subscriber, queue, open, handler, client, unread, events, logFaults>>

\* get_next_notification looks its queue up under the lock ...
FindQueue(u) ==
    /\ notifier.pc = "next"
    /\ u \in notifier.todo
    /\ notifier' = IF HasSubscription(u)
                   THEN [notifier EXCEPT !.pc = "get", !.todo = @ \ {u},
                                         !.user = u, !.conn = subscriber[u]]
                   ELSE Polling(notifier.todo \ {u})
    /\ UNCHANGED <<userOf, subscriber, queue, open, handler, client, unread, events, logFaults>>

\* Variant: the last one first.
TakeNewest(q) == [next |-> q[Len(q)], rest |-> SubSeq(q, 1, Len(q) - 1)]

Take(q) == [next |-> Head(q), rest |-> Tail(q)]

\* ... and takes from it without; then run looks the socket up, which may be
\* that of a newer subscription, or of none.
GetNotification ==
    LET q == queue[notifier.conn]
        target == subscriber[notifier.user]
    IN  /\ notifier.pc = "get"
        /\ IF q = <<>>
           THEN /\ notifier' = Polling(notifier.todo)
                /\ UNCHANGED queue
           ELSE /\ queue' = [queue EXCEPT ![notifier.conn] = Take(q).rest]
                /\ notifier' = IF target = None THEN Polling(notifier.todo)
                               ELSE [notifier EXCEPT !.pc = "send",
                                        !.conn = target,
                                        !.holding = Take(q).next]
        /\ UNCHANGED <<userOf, subscriber, open, handler, client, unread, events,
                       logFaults>>

\* Notifications waiting in the socket of c (the answer always fits).
Backlog(c) == Len(SelectSeq(unread[c], LAMBDA m : m.kind # "SUCCESS"))

Send ==
    LET c == notifier.conn
    IN  /\ notifier.pc = "send"
        /\ c \in open
        /\ Backlog(c) < Buffer
        /\ unread' = Sent(c, notifier.holding)
        /\ notifier' = Polling(notifier.todo)
        /\ UNCHANGED <<userOf, subscriber, queue, open, handler, client, events,
                       logFaults>>

\* Variant: a socket without a timeout.
NeverTimesOut(c) == FALSE

\* sendall waits 600 s at most, the timeout the keep-alive has set long before
\* the buffer of the socket is full.
TimesOut(c) == Backlog(c) >= Buffer

SendFails ==
    LET c == notifier.conn
    IN  /\ notifier.pc = "send"
        /\ c \notin open \/ client[c] = "gone" \/ TimesOut(c)
        /\ notifier' = [notifier EXCEPT !.pc = "drop", !.holding = Success]
        /\ UNCHANGED <<userOf, subscriber, queue, open, handler, client, unread, events, logFaults>>

DropSubscriber ==
    /\ notifier.pc = "drop"
    /\ Unsubscribe(notifier.user)
    /\ notifier' = Polling(notifier.todo)
    /\ UNCHANGED <<userOf, queue, handler, client, unread, events, logFaults>>

\* A log append raises in the except clause, and ends the thread.
DropLogFails ==
    /\ notifier.pc = "drop"
    /\ logFaults < MaxLogFaults
    /\ logFaults' = logFaults + 1
    /\ Unsubscribe(notifier.user)
    /\ notifier' = [Polling({}) EXCEPT !.pc = "dead"]
    /\ UNCHANGED <<userOf, queue, handler, client, unread, events>>

-----------------------------------------------------------------------------
(* The client library *)

Rest(c, k) == [unread EXCEPT ![c] = SubSeq(@, k + 1, Len(@))]

\* subscribe_notifications: what recv returns must be the answer and nothing
\* else, or the client gives up and closes its end.
ReadAnswer(c, k) ==
    LET ok == SubSeq(unread[c], 1, k) = <<Success>>
    IN  /\ client[c] = "connecting"
        /\ client' = [client EXCEPT ![c] = IF ok THEN "reading" ELSE "gone"]
        /\ unread' = IF ok THEN Rest(c, k) ELSE [unread EXCEPT ![c] = <<>>]
        /\ UNCHANGED <<userOf, subscriber, queue, open, handler, notifier, events,
                       logFaults>>

\* read_notification: one recv takes whatever is there.
ReadNotifications(c, k) ==
    /\ client[c] = "reading"
    /\ unread' = Rest(c, k)
    /\ UNCHANGED <<userOf, subscriber, queue, open, handler, client, notifier, events,
                   logFaults>>

\* The client closes its end.  A machine that goes away without a word is a
\* client that reads no more: recv only times out, and the loop goes on, until
\* TCP has sent something in vain for so long that it takes this step instead.
Leave(c) ==
    /\ client[c] \in {"connecting", "reading"}
    /\ client' = [client EXCEPT ![c] = "gone"]
    /\ unread' = [unread EXCEPT ![c] = <<>>]
    /\ UNCHANGED <<userOf, subscriber, queue, open, handler, notifier, events,
                   logFaults>>

-----------------------------------------------------------------------------
Handle(c) ==
    \/ SubscribeLogFails(c)
    \/ QueueSubscribed(c)
    \/ AnswerSubscribe(c)
    \/ AnswerFails(c)
    \/ StartKeepAlive(c)
    \/ KeepAliveEnds(c)

Poll ==
    \/ ListSubscribers
    \/ \E u \in Users : FindQueue(u)
    \/ GetNotification
    \/ Send
    \/ SendFails
    \/ DropSubscriber

Next ==
    \/ \E c \in Connections : Subscribe(c)
    \/ \E c \in Connections : Handle(c)
    \/ \E u \in Users : Notify(u)
    \/ Poll
    \/ DropLogFails
    \/ \E c \in Connections : \E k \in 1 .. Len(unread[c]) :
           ReadAnswer(c, k) \/ ReadNotifications(c, k)
    \/ \E c \in Connections : Leave(c)

Spec == Init /\ [][Next]_vars

\* Server threads that can run do; a client may read or not.
FairSpec ==
    /\ Spec
    /\ \A c \in Connections : WF_vars(Handle(c))
    /\ WF_vars(Poll)

-----------------------------------------------------------------------------
TypeOK ==
    /\ userOf \in [Connections -> Users]
    /\ subscriber \in [Users -> Connections \cup {None}]
    /\ queue \in [Connections -> Seq(Message)]
    /\ open \subseteq Connections
    /\ handler \in [Connections -> HandlerPc]
    /\ client \in [Connections -> ClientPc]
    /\ unread \in [Connections -> Seq(Message)]
    /\ notifier \in Notifier
    /\ events \in 0 .. MaxEvents
    /\ logFaults \in 0 .. MaxLogFaults

\* The sockets that are open are those of the subscriptions: none is leaked by
\* a replacement or a drop, and none that is closed stays registered, except
\* by a handler that failed before it owned its connection.
SocketsMatchSubscriptions ==
    /\ \A c \in open : subscriber[userOf[c]] = c
    /\ \A u \in Users : HasSubscription(u) =>
           /\ userOf[subscriber[u]] = u
           /\ subscriber[u] \in open \/ handler[subscriber[u]] = "done"

\* A client is sent the events of a connection in the order they happened:
\* what is on its way to it, from its socket to its queue, is in order, with
\* what the notifier took from the queue of an older connection in between.
InHand(u) ==
    CASE notifier.user = u /\ notifier.pc = "send" -> <<notifier.holding>>
      [] /\ notifier.user = u /\ notifier.pc = "get"
         /\ notifier.conn # subscriber[u] /\ queue[notifier.conn] # <<>>
         -> <<Head(queue[notifier.conn])>>
      [] OTHER -> <<>>
OnTheWay(u) == unread[subscriber[u]] \o InHand(u) \o queue[subscriber[u]]
EventsInOrder ==
    \A u \in Users : HasSubscription(u) =>
        \A i, j \in DOMAIN OnTheWay(u) :
            LET m == OnTheWay(u)[i]
                n == OnTheWay(u)[j]
            IN  i < j /\ m.kind = "EVENT" /\ n.kind = "EVENT" => m.number < n.number

\* What is queued for a subscription is taken off the queue, whichever other
\* clients have stopped reading: none can hold the notifier up for ever.
NotificationsAreTaken ==
    \A c \in Connections :
        queue[c] # <<>> /\ subscriber[userOf[c]] = c ~>
            \/ queue[c] = <<>> \/ subscriber[userOf[c]] # c
            \/ notifier.pc = "dead"

\* The socket of a client that has closed its end is closed: the keep-alive
\* notices.
GoneClientsAreClosed ==
    \A c \in Connections :
        client[c] = "gone" /\ handler[c] = "keepAlive" ~> c \notin open

\* A subscription ends when it is replaced, or its client has gone, or sending
\* on its own connection has failed: nothing else takes it away.
SubscriptionsEndWithTheirConnection ==
    [][\A u \in Users : LET c == subscriber[u] IN
           c # None /\ subscriber'[u] = None =>
               \/ client[c] = "gone"
               \/ notifier.pc = "drop" /\ notifier.conn = c]_vars
=============================================================================
