------------------------- MODULE NotificationsProofs -------------------------
(***************************************************************************)
(* The sockets of the notification manager, for any number of users and    *)
(* connections and however many log appends fail.                          *)
(***************************************************************************)
EXTENDS Notifications, SequenceTheorems, TLAPS

\* The notifier works for a user, on a connection, whenever it is not looking
\* for the next.
NotifierBusy ==
    notifier.pc \in {"get", "send", "drop"} =>
        notifier.user \in Users /\ notifier.conn \in Connections

\* Every message constant and every event the bound allows is a Message.
LEMMA Messages ==
    /\ Success \in Message /\ Subscribed \in Message
    /\ \A n \in 1 .. MaxEvents : Event(n) \in Message
BY NumbersAssumption DEF Message, Success, Subscribed, Event

LEMMA PollingType == ASSUME NEW todo \in SUBSET Users PROVE Polling(todo) \in Notifier
BY Messages DEF Polling, Notifier

LEMMA AppendType ==
    ASSUME TypeOK, NEW u \in Users, NEW m \in Message, AppendNotification(u, m)
    PROVE  queue' \in [Connections -> Seq(Message)]
BY DEF TypeOK, AppendNotification

LEMMA UnsubscribeType ==
    ASSUME TypeOK, NEW u \in Users \cup {None}, Unsubscribe(u)
    PROVE  /\ subscriber' \in [Users -> Connections \cup {None}]
           /\ open' \subseteq Connections
BY DEF TypeOK, Unsubscribe

\* What a socket receives keeps its stream a sequence of messages.
LEMMA SentType ==
    ASSUME TypeOK, NEW c \in Connections, NEW m \in Message
    PROVE  Sent(c, m) \in [Connections -> Seq(Message)]
BY DEF TypeOK, Sent

LEMMA RestType ==
    ASSUME TypeOK, NEW c \in Connections, NEW k \in 1 .. Len(unread[c])
    PROVE  Rest(c, k) \in [Connections -> Seq(Message)]
<1>1. unread[c] \in Seq(Message) /\ Len(unread[c]) \in Nat
  BY DEF TypeOK
<1>2. SubSeq(unread[c], k + 1, Len(unread[c])) \in Seq(Message)
  BY <1>1, SubSeqProperties
<1>3. QED
  BY <1>2 DEF TypeOK, Rest

LEMMA InitType == Init => TypeOK
<1> SUFFICES ASSUME Init PROVE TypeOK
  OBVIOUS
<1>1. userOf \in [Connections -> Users]
  BY ConnectionsAssumption DEF Init
<1>2. QED
  BY <1>1, NumbersAssumption, PollingType DEF Init, TypeOK, HandlerPc, ClientPc

\* The requests in the connections do not change.
LEMMA CallersStay == ASSUME [Next]_vars PROVE userOf' = userOf
BY DEF Next, Handle, Poll, vars, Subscribe, SubscribeLogFails, QueueSubscribed,
   AnswerSubscribe, AnswerFails, StartKeepAlive, KeepAliveEnds, Notify,
   ListSubscribers, FindQueue, GetNotification, Send, SendFails, DropSubscriber,
   DropLogFails, ReadAnswer, ReadNotifications, Leave

LEMMA HandlersKeepType ==
    ASSUME TypeOK, NEW c \in Connections, Subscribe(c) \/ Handle(c)
    PROVE  TypeOK'
<1>u. userOf[c] \in Users
  BY DEF TypeOK
<1>1. CASE Subscribe(c)
  BY <1>1, <1>u DEF Subscribe, TypeOK, HandlerPc, ClientPc
<1>2. CASE SubscribeLogFails(c)
  BY <1>2, NumbersAssumption DEF SubscribeLogFails, TypeOK, HandlerPc
<1>3. CASE QueueSubscribed(c)
  <2>1. queue' \in [Connections -> Seq(Message)]
    BY <1>3, <1>u, Messages, AppendType DEF QueueSubscribed
  <2>2. QED
    BY <1>3, <2>1 DEF QueueSubscribed, TypeOK, HandlerPc
<1>4. CASE AnswerSubscribe(c)
  <2>1. unread' \in [Connections -> Seq(Message)]
    BY <1>4, Messages, SentType DEF AnswerSubscribe
  <2>2. QED
    BY <1>4, <2>1 DEF AnswerSubscribe, TypeOK, HandlerPc
<1>5. CASE AnswerFails(c)
  BY <1>5 DEF AnswerFails, TypeOK, HandlerPc
<1>6. CASE StartKeepAlive(c)
  BY <1>6 DEF StartKeepAlive, TypeOK, HandlerPc
<1>7. CASE KeepAliveEnds(c)
  <2>1. /\ subscriber' \in [Users -> Connections \cup {None}]
        /\ open' \subseteq Connections
    BY <1>7, <1>u, UnsubscribeType DEF KeepAliveEnds
  <2>2. QED
    BY <1>7, <2>1 DEF KeepAliveEnds, TypeOK, HandlerPc
<1>8. QED
  BY <1>1, <1>2, <1>3, <1>4, <1>5, <1>6, <1>7 DEF Handle

LEMMA NotifierKeepsType ==
    ASSUME TypeOK, NotifierBusy, Poll \/ DropLogFails
    PROVE  TypeOK' /\ NotifierBusy'
<1>n. /\ notifier \in Notifier /\ notifier.todo \in SUBSET Users
      /\ notifier.holding \in Message
  BY DEF TypeOK, Notifier
<1>p. ASSUME NEW todo \in SUBSET Users, notifier' = Polling(todo)
      PROVE  notifier' \in Notifier /\ NotifierBusy'
  <2>1. notifier' \in Notifier
    BY <1>p, PollingType
  <2>2. notifier'.pc = "next"
    BY <1>p DEF Polling
  <2>3. QED
    BY <2>1, <2>2 DEF NotifierBusy
<1>1. CASE ListSubscribers
  <2>1. notifier' \in Notifier /\ NotifierBusy'
    BY <1>1, <1>p DEF ListSubscribers
  <2>2. QED
    BY <1>1, <2>1 DEF ListSubscribers, TypeOK
<1>2. ASSUME NEW u \in Users, FindQueue(u) PROVE TypeOK' /\ NotifierBusy'
  <2>1. CASE HasSubscription(u)
    <3>1. notifier' \in Notifier /\ NotifierBusy'
      BY <1>2, <1>n, <2>1
         DEF FindQueue, TypeOK, Notifier, HasSubscription, NotifierBusy
    <3>2. QED
      BY <1>2, <3>1 DEF FindQueue, TypeOK
  <2>2. CASE ~HasSubscription(u)
    <3>1. notifier' \in Notifier /\ NotifierBusy'
      BY <1>2, <1>n, <1>p, <2>2 DEF FindQueue
    <3>2. QED
      BY <1>2, <3>1 DEF FindQueue, TypeOK
  <2>3. QED
    BY <2>1, <2>2
<1>3. CASE GetNotification
  <2>1. CASE queue[notifier.conn] = <<>>
    <3>1. notifier' \in Notifier /\ NotifierBusy'
      BY <1>3, <1>n, <1>p, <2>1 DEF GetNotification
    <3>2. QED
      BY <1>3, <2>1, <3>1 DEF GetNotification, TypeOK
  <2>2. CASE queue[notifier.conn] # <<>>
    <3>1. notifier.user \in Users /\ notifier.conn \in Connections
      BY <1>3 DEF GetNotification, NotifierBusy
    <3>2. /\ Take(queue[notifier.conn]).next \in Message
          /\ Take(queue[notifier.conn]).rest \in Seq(Message)
      BY <2>2, <3>1 DEF TypeOK, Take
    <3>3. queue' \in [Connections -> Seq(Message)]
      BY <1>3, <2>2, <3>2 DEF GetNotification, TypeOK
    <3>4. notifier' \in Notifier /\ NotifierBusy'
      <4>1. CASE subscriber[notifier.user] = None
        BY <1>3, <1>n, <1>p, <2>2, <4>1 DEF GetNotification
      <4>2. CASE subscriber[notifier.user] # None
        <5>1. subscriber[notifier.user] \in Connections
          BY <3>1, <4>2 DEF TypeOK
        <5>2. notifier' = [notifier EXCEPT !.pc = "send",
                              !.conn = subscriber[notifier.user],
                              !.holding = Take(queue[notifier.conn]).next]
          BY <1>3, <2>2, <4>2 DEF GetNotification
        <5>3. QED
          BY <1>n, <3>1, <3>2, <5>1, <5>2 DEF Notifier, NotifierBusy
      <4>3. QED
        BY <4>1, <4>2
    <3>5. QED
      BY <1>3, <3>3, <3>4 DEF GetNotification, TypeOK
  <2>3. QED
    BY <2>1, <2>2
<1>4. CASE Send
  <2>1. notifier.conn \in Connections
    BY <1>4 DEF Send, NotifierBusy
  <2>2. unread' \in [Connections -> Seq(Message)]
    BY <1>4, <1>n, <2>1, SentType DEF Send
  <2>3. notifier' \in Notifier /\ NotifierBusy'
    BY <1>4, <1>n, <1>p DEF Send
  <2>4. QED
    BY <1>4, <2>2, <2>3 DEF Send, TypeOK
<1>5. CASE SendFails
  <2>1. notifier' \in Notifier /\ NotifierBusy'
    BY <1>5, <1>n, Messages DEF SendFails, Notifier, NotifierBusy
  <2>2. QED
    BY <1>5, <2>1 DEF SendFails, TypeOK
<1>6. CASE DropSubscriber
  <2>1. notifier.user \in Users
    BY <1>6 DEF DropSubscriber, NotifierBusy
  <2>2. /\ subscriber' \in [Users -> Connections \cup {None}]
        /\ open' \subseteq Connections
    BY <1>6, <2>1, UnsubscribeType DEF DropSubscriber
  <2>3. notifier' \in Notifier /\ NotifierBusy'
    BY <1>6, <1>n, <1>p DEF DropSubscriber
  <2>4. QED
    BY <1>6, <2>2, <2>3 DEF DropSubscriber, TypeOK
<1>7. CASE DropLogFails
  <2>1. notifier.user \in Users
    BY <1>7 DEF DropLogFails, NotifierBusy
  <2>2. /\ subscriber' \in [Users -> Connections \cup {None}]
        /\ open' \subseteq Connections
    BY <1>7, <2>1, UnsubscribeType DEF DropLogFails
  <2>3. Polling({}) \in Notifier
    BY PollingType
  <2>4. notifier' \in Notifier /\ NotifierBusy'
    BY <1>7, <2>3 DEF DropLogFails, Notifier, NotifierBusy
  <2>5. QED
    BY <1>7, <2>2, <2>4, NumbersAssumption DEF DropLogFails, TypeOK
<1>8. QED
  BY <1>1, <1>2, <1>3, <1>4, <1>5, <1>6, <1>7 DEF Poll

LEMMA ClientsKeepType ==
    ASSUME TypeOK, NEW c \in Connections,
           \/ Leave(c)
           \/ \E k \in 1 .. Len(unread[c]) : ReadAnswer(c, k) \/ ReadNotifications(c, k)
    PROVE  TypeOK'
<1>1. CASE Leave(c)
  BY <1>1 DEF Leave, TypeOK, ClientPc
<1>2. ASSUME NEW k \in 1 .. Len(unread[c]), ReadAnswer(c, k) PROVE TypeOK'
  <2>1. unread' \in [Connections -> Seq(Message)]
    <3>1. Rest(c, k) \in [Connections -> Seq(Message)]
      BY RestType
    <3>2. [unread EXCEPT ![c] = <<>>] \in [Connections -> Seq(Message)]
      BY DEF TypeOK
    <3>3. QED
      BY <1>2, <3>1, <3>2 DEF ReadAnswer
  <2>2. client' \in [Connections -> ClientPc]
    BY <1>2 DEF ReadAnswer, TypeOK, ClientPc
  <2>3. QED
    BY <1>2, <2>1, <2>2 DEF ReadAnswer, TypeOK
<1>3. ASSUME NEW k \in 1 .. Len(unread[c]), ReadNotifications(c, k) PROVE TypeOK'
  <2>1. unread' \in [Connections -> Seq(Message)]
    BY <1>3, RestType DEF ReadNotifications
  <2>2. QED
    BY <1>3, <2>1 DEF ReadNotifications, TypeOK
<1>4. QED
  BY <1>1, <1>2, <1>3

LEMMA NotifyKeepsType ==
    ASSUME TypeOK, NEW u \in Users, Notify(u)
    PROVE  TypeOK'
<1>1. events + 1 \in 1 .. MaxEvents
  BY NumbersAssumption DEF Notify, TypeOK
<1>2. queue' \in [Connections -> Seq(Message)]
  BY <1>1, Messages, AppendType DEF Notify
<1>3. QED
  BY <1>1, <1>2 DEF Notify, TypeOK

\* Whatever is not the notifier leaves it as it is.
LEMMA NextKeepsType ==
    ASSUME TypeOK, NotifierBusy, [Next]_vars
    PROVE  TypeOK' /\ NotifierBusy'
<1>1. ASSUME NEW c \in Connections, Subscribe(c) \/ Handle(c)
      PROVE  TypeOK' /\ NotifierBusy'
  <2>1. notifier' = notifier
    BY <1>1 DEF Subscribe, Handle, SubscribeLogFails, QueueSubscribed,
       AnswerSubscribe, AnswerFails, StartKeepAlive, KeepAliveEnds
  <2>2. QED
    BY <1>1, <2>1, HandlersKeepType DEF NotifierBusy
<1>2. CASE Poll \/ DropLogFails
  BY <1>2, NotifierKeepsType
<1>3. ASSUME NEW u \in Users, Notify(u) PROVE TypeOK' /\ NotifierBusy'
  BY <1>3, NotifyKeepsType DEF Notify, NotifierBusy
<1>4. ASSUME NEW c \in Connections,
             \/ Leave(c)
             \/ \E k \in 1 .. Len(unread[c]) :
                    ReadAnswer(c, k) \/ ReadNotifications(c, k)
      PROVE  TypeOK' /\ NotifierBusy'
  <2>1. notifier' = notifier
    BY <1>4 DEF Leave, ReadAnswer, ReadNotifications
  <2>2. QED
    BY <1>4, <2>1, ClientsKeepType DEF NotifierBusy
<1>5. CASE UNCHANGED vars
  BY <1>5 DEF vars, TypeOK, NotifierBusy
<1>6. QED
  BY <1>1, <1>2, <1>3, <1>4, <1>5 DEF Next

-----------------------------------------------------------------------------
(* The invariant is inductive once the types are known: a connection is    *)
(* registered under its own user, and leaves "done" never again.           *)

SocketInv == TypeOK /\ NotifierBusy /\ SocketsMatchSubscriptions

\* unsubscribe closes what it removes.
LEMMA UnsubscribeKeepsSockets ==
    ASSUME SocketInv, NEW u \in Users, Unsubscribe(u), userOf' = userOf,
           \A c \in Connections : handler[c] = "done" => handler'[c] = "done"
    PROVE  SocketsMatchSubscriptions'
<1>1. \A c \in open' : c \in open /\ c # subscriber[u] /\ userOf[c] \in Users
  BY ConnectionsAssumption DEF Unsubscribe, SocketInv, TypeOK
<1>2. \A c \in open' : subscriber'[userOf[c]] = c
  BY <1>1 DEF Unsubscribe, SocketInv, TypeOK, SocketsMatchSubscriptions
<1>3. ASSUME NEW v \in Users, HasSubscription(v)'
      PROVE  /\ userOf[subscriber'[v]] = v
             /\ subscriber'[v] \in open' \/ handler'[subscriber'[v]] = "done"
  <2>1. v # u /\ subscriber'[v] = subscriber[v] /\ HasSubscription(v)
    BY <1>3 DEF Unsubscribe, HasSubscription, SocketInv, TypeOK
  <2>2. /\ userOf[subscriber[v]] = v
        /\ subscriber[v] \in open \/ handler[subscriber[v]] = "done"
    BY <2>1 DEF SocketInv, SocketsMatchSubscriptions
  <2>3. subscriber[v] \in Connections
    BY <2>1 DEF HasSubscription, SocketInv, TypeOK
  <2>4. subscriber[v] # subscriber[u]
    <3>1. CASE HasSubscription(u)
      BY <2>1, <2>2, <3>1 DEF SocketInv, SocketsMatchSubscriptions
    <3>2. CASE ~HasSubscription(u)
      BY <2>1, <3>2 DEF HasSubscription
    <3>3. QED
      BY <3>1, <3>2
  <2>5. QED
    BY <2>1, <2>2, <2>3, <2>4 DEF Unsubscribe
<1>4. QED
  BY <1>2, <1>3 DEF SocketsMatchSubscriptions

\* subscribe closes what it replaces.
LEMMA SubscribeKeepsSockets ==
    ASSUME SocketInv, NEW c \in Connections, Subscribe(c)
    PROVE  SocketsMatchSubscriptions'
<1> DEFINE u == userOf[c]
<1>u. u \in Users /\ userOf' = userOf
  BY DEF SocketInv, TypeOK, Subscribe
<1>1. subscriber' = [subscriber EXCEPT ![u] = c] /\ c \in open' /\ c # None
  BY ConnectionsAssumption DEF Subscribe
<1>2. ASSUME NEW d \in open' PROVE subscriber'[userOf[d]] = d
  <2>1. CASE d = c
    BY <1>1, <1>u, <2>1 DEF SocketInv, TypeOK
  <2>2. CASE d # c
    <3>1. d \in open /\ d # subscriber[u]
      BY <1>2, <2>2 DEF Subscribe
    <3>2. subscriber[userOf[d]] = d /\ userOf[d] \in Users
      BY <3>1 DEF SocketInv, TypeOK, SocketsMatchSubscriptions
    <3>3. userOf[d] # u
      BY <3>1, <3>2
    <3>4. QED
      BY <1>1, <3>2, <3>3 DEF SocketInv, TypeOK
  <2>3. QED
    BY <2>1, <2>2
<1>3. ASSUME NEW v \in Users, HasSubscription(v)'
      PROVE  /\ userOf[subscriber'[v]] = v
             /\ subscriber'[v] \in open' \/ handler'[subscriber'[v]] = "done"
  <2>1. CASE v = u
    BY <1>1, <1>u, <2>1 DEF SocketInv, TypeOK
  <2>2. CASE v # u
    <3>1. subscriber'[v] = subscriber[v] /\ HasSubscription(v)
      BY <1>1, <1>3, <2>2 DEF HasSubscription, SocketInv, TypeOK
    <3>2. /\ userOf[subscriber[v]] = v
          /\ subscriber[v] \in open \/ handler[subscriber[v]] = "done"
      BY <3>1 DEF SocketInv, SocketsMatchSubscriptions
    <3>3. subscriber[v] # c /\ subscriber[v] \in Connections
      BY <2>2, <3>1, <3>2 DEF HasSubscription, SocketInv, TypeOK
    <3>4. subscriber[v] # subscriber[u]
      <4>1. CASE HasSubscription(u)
        BY <1>u, <2>2, <3>2, <4>1 DEF SocketInv, SocketsMatchSubscriptions
      <4>2. CASE ~HasSubscription(u)
        BY <3>1, <4>2 DEF HasSubscription
      <4>3. QED
        BY <4>1, <4>2
    <3>5. QED
      BY <3>1, <3>2, <3>3, <3>4 DEF Subscribe, SocketInv, TypeOK
  <2>3. QED
    BY <2>1, <2>2
<1>4. QED
  BY <1>u, <1>2, <1>3 DEF SocketsMatchSubscriptions

LEMMA NextKeepsSockets ==
    ASSUME SocketInv, [Next]_vars
    PROVE  SocketsMatchSubscriptions'
<1>t. TypeOK /\ NotifierBusy /\ SocketsMatchSubscriptions /\ userOf' = userOf
  BY CallersStay DEF SocketInv
<1>f. ASSUME UNCHANGED <<subscriber, open>>,
             \A c \in Connections : handler[c] = "done" => handler'[c] = "done"
      PROVE  SocketsMatchSubscriptions'
  BY <1>t, <1>f DEF SocketsMatchSubscriptions, HasSubscription, TypeOK
<1>1. ASSUME NEW c \in Connections, Subscribe(c) PROVE SocketsMatchSubscriptions'
  BY <1>1, SubscribeKeepsSockets
<1>2. ASSUME NEW c \in Connections, SubscribeLogFails(c)
      PROVE  SocketsMatchSubscriptions'
  BY <1>2, <1>t
     DEF SubscribeLogFails, SocketsMatchSubscriptions, HasSubscription, TypeOK
<1>3. ASSUME NEW c \in Connections,
             \/ QueueSubscribed(c) \/ AnswerSubscribe(c) \/ AnswerFails(c)
             \/ StartKeepAlive(c)
      PROVE  SocketsMatchSubscriptions'
  <2>1. UNCHANGED <<subscriber, open>>
    BY <1>3 DEF QueueSubscribed, AnswerSubscribe, AnswerFails, StartKeepAlive
  <2>2. \A d \in Connections : handler[d] = "done" => handler'[d] = "done"
    BY <1>3, <1>t
       DEF QueueSubscribed, AnswerSubscribe, AnswerFails, StartKeepAlive, TypeOK
  <2>3. QED
    BY <1>f, <2>1, <2>2
<1>4. ASSUME NEW c \in Connections, KeepAliveEnds(c)
      PROVE  SocketsMatchSubscriptions'
  <2>1. userOf[c] \in Users /\ Unsubscribe(userOf[c])
    BY <1>4, <1>t DEF KeepAliveEnds, TypeOK
  <2>2. \A d \in Connections : handler[d] = "done" => handler'[d] = "done"
    BY <1>4, <1>t DEF KeepAliveEnds, TypeOK
  <2>3. QED
    BY <1>t, <2>1, <2>2, UnsubscribeKeepsSockets
<1>5. CASE DropSubscriber \/ DropLogFails
  <2>1. notifier.user \in Users /\ Unsubscribe(notifier.user) /\ handler' = handler
    BY <1>5, <1>t DEF DropSubscriber, DropLogFails, NotifierBusy
  <2>2. QED
    BY <1>t, <2>1, UnsubscribeKeepsSockets
<1>6. CASE \/ ListSubscribers \/ GetNotification \/ Send \/ SendFails
           \/ \E u \in Users : FindQueue(u) \/ Notify(u)
           \/ UNCHANGED vars
  <2>1. UNCHANGED <<subscriber, open, handler>>
    BY <1>6 DEF ListSubscribers, GetNotification, Send, SendFails, FindQueue,
       Notify, vars
  <2>2. QED
    BY <1>f, <2>1
<1>7. ASSUME NEW c \in Connections,
             \/ Leave(c)
             \/ \E k \in 1 .. Len(unread[c]) :
                    ReadAnswer(c, k) \/ ReadNotifications(c, k)
      PROVE  SocketsMatchSubscriptions'
  <2>1. UNCHANGED <<subscriber, open, handler>>
    BY <1>7 DEF Leave, ReadAnswer, ReadNotifications
  <2>2. QED
    BY <1>f, <2>1
<1>8. QED
  BY <1>1, <1>2, <1>3, <1>4, <1>5, <1>6, <1>7 DEF Next, Handle, Poll

\* Init => SocketInv: nobody is subscribed and nothing is open.
LEMMA InitSockets == Init => SocketInv
<1>1. Init => TypeOK
  BY InitType
<1>2. Init => NotifierBusy
  BY DEF Init, NotifierBusy, Polling
<1>3. Init => SocketsMatchSubscriptions
  BY DEF Init, SocketsMatchSubscriptions, HasSubscription
<1>4. QED
  BY <1>1, <1>2, <1>3 DEF SocketInv

\* No socket is leaked and none that is closed stays registered by
\* subscribe, unsubscribe, the keep-alive loops and the notifier, in whatever
\* order they run.
THEOREM SocketsAreNotLeaked == Spec => []SocketsMatchSubscriptions
<1>1. SocketInv /\ [Next]_vars => SocketInv'
  BY NextKeepsType, NextKeepsSockets DEF SocketInv
<1>2. SocketInv => SocketsMatchSubscriptions
  BY DEF SocketInv
<1>3. QED
  BY InitSockets, <1>1, <1>2, PTL DEF Spec

-----------------------------------------------------------------------------
(* Streams of messages.  What is said of the events of a stream is said of  *)
(* its parts: the set of their numbers, and their order.                    *)

EventNumbers(q) == {q[i].number : i \in {x \in DOMAIN q : q[x].kind = "EVENT"}}
Below(p, q) == \A a \in EventNumbers(p), b \in EventNumbers(q) : a < b
Ordered(q) ==
    \A i, j \in DOMAIN q :
        i < j /\ q[i].kind = "EVENT" /\ q[j].kind = "EVENT" =>
            q[i].number < q[j].number

LEMMA NoEvents ==
    /\ EventNumbers(<<>>) = {} /\ Ordered(<<>>)
    /\ \A m : EventNumbers(<<m>>) = IF m.kind = "EVENT" THEN {m.number} ELSE {}
    /\ \A m : Ordered(<<m>>)
<1>1. EventNumbers(<<>>) = {} /\ Ordered(<<>>)
  BY DEF EventNumbers, Ordered
<1>2. ASSUME NEW m
      PROVE  /\ EventNumbers(<<m>>) = IF m.kind = "EVENT" THEN {m.number} ELSE {}
             /\ Ordered(<<m>>)
  <2>1. DOMAIN <<m>> = {1} /\ <<m>>[1] = m
    OBVIOUS
  <2>2. QED
    BY <2>1 DEF EventNumbers, Ordered
<1>3. QED
  BY <1>1, <1>2

LEMMA EventsAppended ==
    ASSUME NEW q \in Seq(Message), NEW m \in Message
    PROVE  /\ EventNumbers(Append(q, m)) = EventNumbers(q) \cup EventNumbers(<<m>>)
           /\ Ordered(q) /\ Below(q, <<m>>) => Ordered(Append(q, m))
<1>1. /\ Len(q) \in Nat /\ DOMAIN q = 1 .. Len(q)
      /\ DOMAIN Append(q, m) = 1 .. Len(q) + 1
      /\ \A i \in DOMAIN q : Append(q, m)[i] = q[i]
      /\ Append(q, m)[Len(q) + 1] = m
  OBVIOUS
<1>2. DOMAIN Append(q, m) = DOMAIN q \cup {Len(q) + 1}
  BY <1>1
<1>3. EventNumbers(<<m>>) = IF m.kind = "EVENT" THEN {m.number} ELSE {}
  BY NoEvents
<1>4. EventNumbers(Append(q, m)) = EventNumbers(q) \cup EventNumbers(<<m>>)
  BY <1>1, <1>2, <1>3 DEF EventNumbers
<1>5. ASSUME Ordered(q), Below(q, <<m>>) PROVE Ordered(Append(q, m))
  <2> SUFFICES ASSUME NEW i \in DOMAIN Append(q, m), NEW j \in DOMAIN Append(q, m),
                      i < j, Append(q, m)[i].kind = "EVENT",
                      Append(q, m)[j].kind = "EVENT"
               PROVE  Append(q, m)[i].number < Append(q, m)[j].number
    BY DEF Ordered
  <2>1. i \in DOMAIN q /\ Append(q, m)[i] = q[i]
    BY <1>1
  <2>2. CASE j \in DOMAIN q
    BY <1>1, <1>5, <2>1, <2>2 DEF Ordered
  <2>3. CASE j \notin DOMAIN q
    BY <1>1, <1>2, <1>3, <1>5, <2>1, <2>3 DEF Below, EventNumbers
  <2>4. QED
    BY <2>2, <2>3
<1>6. QED
  BY <1>4, <1>5

\* Any end of a stream.
LEMMA EventsOfRest ==
    ASSUME NEW q \in Seq(Message), NEW r \in Seq(Message), NEW k \in Nat,
           Len(r) + k = Len(q), \A i \in 1 .. Len(r) : r[i] = q[i + k]
    PROVE  /\ EventNumbers(r) \subseteq EventNumbers(q)
           /\ Ordered(q) => Ordered(r)
<1>1. \A i \in DOMAIN r : i \in Nat /\ i + k \in DOMAIN q /\ r[i] = q[i + k]
  OBVIOUS
<1>2. EventNumbers(r) \subseteq EventNumbers(q)
  BY <1>1 DEF EventNumbers
<1>3. Ordered(q) => Ordered(r)
  BY <1>1 DEF Ordered
<1>4. QED
  BY <1>2, <1>3

LEMMA EventsTaken ==
    ASSUME NEW q \in Seq(Message), q # <<>>
    PROVE  /\ Take(q).next \in Message /\ Take(q).rest \in Seq(Message)
           /\ Take(q).next = Head(q)
           /\ EventNumbers(Take(q).rest) \subseteq EventNumbers(q)
           /\ EventNumbers(<<Take(q).next>>) \subseteq EventNumbers(q)
           /\ Ordered(q) => Ordered(Take(q).rest) /\ Below(<<Take(q).next>>, Take(q).rest)
<1> DEFINE h == Head(q)
           r == Tail(q)
<1>1. /\ h \in Message /\ r \in Seq(Message) /\ Len(r) + 1 = Len(q)
      /\ \A i \in 1 .. Len(r) : r[i] = q[i + 1]
      /\ 1 \in DOMAIN q /\ h = q[1]
      /\ Take(q).next = h /\ Take(q).rest = r
  BY HeadTailProperties DEF Take
<1> HIDE DEF h, r
<1>2. EventNumbers(r) \subseteq EventNumbers(q) /\ (Ordered(q) => Ordered(r))
  BY <1>1, EventsOfRest
<1>3. EventNumbers(<<h>>) \subseteq EventNumbers(q)
  BY <1>1, NoEvents DEF EventNumbers
<1>4. ASSUME Ordered(q) PROVE Below(<<h>>, r)
  <2>1. EventNumbers(<<h>>) = IF h.kind = "EVENT" THEN {h.number} ELSE {}
    BY NoEvents
  <2>2. \A i \in DOMAIN r : i + 1 \in DOMAIN q /\ 1 < i + 1 /\ r[i] = q[i + 1]
    BY <1>1
  <2>3. ASSUME NEW b \in EventNumbers(r), h.kind = "EVENT" PROVE h.number < b
    <3>1. PICK i \in DOMAIN r : r[i].kind = "EVENT" /\ b = r[i].number
      BY DEF EventNumbers
    <3>2. /\ i + 1 \in DOMAIN q /\ 1 < i + 1 /\ b = q[i + 1].number
          /\ q[i + 1].kind = "EVENT"
      BY <2>2, <3>1
    <3>3. QED
      BY <1>1, <1>4, <2>3, <3>2 DEF Ordered
  <2>4. QED
    BY <2>1, <2>3 DEF Below
<1>5. QED
  BY <1>1, <1>2, <1>3, <1>4 DEF h

LEMMA OrderedConcat ==
    ASSUME NEW p \in Seq(Message), NEW q \in Seq(Message)
    PROVE  /\ EventNumbers(p \o q) = EventNumbers(p) \cup EventNumbers(q)
           /\ Ordered(p) /\ Ordered(q) /\ Below(p, q) => Ordered(p \o q)
<1>1. /\ Len(p) \in Nat /\ Len(q) \in Nat
      /\ DOMAIN p = 1 .. Len(p) /\ DOMAIN q = 1 .. Len(q)
      /\ DOMAIN (p \o q) = 1 .. Len(p) + Len(q)
      /\ \A i \in DOMAIN (p \o q) :
             (p \o q)[i] = IF i <= Len(p) THEN p[i] ELSE q[i - Len(p)]
  BY ConcatProperties
<1>2. \A i \in DOMAIN (p \o q) :
          IF i <= Len(p) THEN i \in DOMAIN p ELSE i - Len(p) \in DOMAIN q
  BY <1>1
<1>3. /\ \A i \in DOMAIN p : i \in DOMAIN (p \o q) /\ (p \o q)[i] = p[i]
      /\ \A i \in DOMAIN q : /\ i + Len(p) \in DOMAIN (p \o q)
                             /\ (p \o q)[i + Len(p)] = q[i]
  BY <1>1
<1>4. EventNumbers(p \o q) \subseteq EventNumbers(p) \cup EventNumbers(q)
  BY <1>1, <1>2 DEF EventNumbers
<1>5. EventNumbers(p) \cup EventNumbers(q) \subseteq EventNumbers(p \o q)
  BY <1>3 DEF EventNumbers
<1>6. ASSUME Ordered(p), Ordered(q), Below(p, q) PROVE Ordered(p \o q)
  <2> SUFFICES ASSUME NEW i \in DOMAIN (p \o q), NEW j \in DOMAIN (p \o q), i < j,
                      (p \o q)[i].kind = "EVENT", (p \o q)[j].kind = "EVENT"
               PROVE  (p \o q)[i].number < (p \o q)[j].number
    BY DEF Ordered
  <2>1. CASE j <= Len(p)
    BY <1>1, <1>2, <1>6, <2>1 DEF Ordered
  <2>2. CASE i > Len(p)
    BY <1>1, <1>2, <1>6, <2>2 DEF Ordered
  <2>3. CASE i <= Len(p) /\ j > Len(p)
    BY <1>1, <1>2, <1>6, <2>3 DEF Below, EventNumbers
  <2>4. QED
    BY <1>1, <2>1, <2>2, <2>3
<1>7. QED
  BY <1>4, <1>5, <1>6

-----------------------------------------------------------------------------
(* Connections are used once *)

FreshConnections ==
    /\ \A c \in Connections : handler[c] = "none" => queue[c] = <<>> /\ unread[c] = <<>>
    /\ \A u \in Users : HasSubscription(u) => handler[subscriber[u]] # "none"
    /\ notifier.pc \in {"get", "send", "drop"} =>
           handler[notifier.conn] # "none" /\ userOf[notifier.conn] = notifier.user

\* What has been numbered has happened.
EventsAreOld ==
    /\ \A c \in Connections :
           EventNumbers(queue[c]) \cup EventNumbers(unread[c]) \subseteq 0 .. events
    /\ notifier.pc = "send" => EventNumbers(<<notifier.holding>>) \subseteq 0 .. events

\* EventsInOrder, part by part: what the client has not read, what the
\* notifier has in its hands, and what is queued.
StreamInOrder(u) ==
    /\ Ordered(unread[subscriber[u]]) /\ Ordered(queue[subscriber[u]])
    /\ Below(unread[subscriber[u]], InHand(u))
    /\ Below(unread[subscriber[u]], queue[subscriber[u]])
    /\ Below(InHand(u), queue[subscriber[u]])
StreamsInOrder == \A u \in Users : HasSubscription(u) => StreamInOrder(u)

EventInv == SocketInv /\ FreshConnections /\ EventsAreOld /\ StreamsInOrder

\* The connections that are written to belong to somebody.
LEMMA FreshInStep ==
    ASSUME SocketInv, FreshConnections, [Next]_vars
    PROVE  FreshConnections'
<1>t. /\ TypeOK /\ NotifierBusy /\ SocketsMatchSubscriptions
      /\ \A c \in Connections : userOf[c] \in Users /\ c # None
      /\ userOf' = userOf
  BY CallersStay, ConnectionsAssumption DEF SocketInv, TypeOK
<1>1. ASSUME NEW c \in Connections, Subscribe(c) PROVE FreshConnections'
  BY <1>1, <1>t DEF Subscribe, FreshConnections, HasSubscription, TypeOK, NotifierBusy
<1>2. ASSUME NEW c \in Connections,
             \/ SubscribeLogFails(c) \/ AnswerFails(c) \/ StartKeepAlive(c)
      PROVE  FreshConnections'
  BY <1>2, <1>t DEF SubscribeLogFails, AnswerFails, StartKeepAlive, FreshConnections,
     HasSubscription, TypeOK, NotifierBusy
<1>3. ASSUME NEW c \in Connections, QueueSubscribed(c) PROVE FreshConnections'
  BY <1>3, <1>t DEF QueueSubscribed, AppendNotification, FreshConnections,
     HasSubscription, TypeOK, NotifierBusy
<1>4. ASSUME NEW c \in Connections, AnswerSubscribe(c) PROVE FreshConnections'
  BY <1>4, <1>t DEF AnswerSubscribe, Sent, FreshConnections,
     HasSubscription, TypeOK, NotifierBusy
<1>5. ASSUME NEW c \in Connections, KeepAliveEnds(c) PROVE FreshConnections'
  BY <1>5, <1>t DEF KeepAliveEnds, Unsubscribe, FreshConnections, HasSubscription,
     TypeOK, NotifierBusy
<1>6. ASSUME NEW u \in Users, Notify(u) PROVE FreshConnections'
  BY <1>6, <1>t DEF Notify, AppendNotification, FreshConnections, HasSubscription,
     TypeOK, NotifierBusy
<1>n. notifier \in Notifier
  BY <1>t DEF TypeOK
<1>h. \A u \in Users : HasSubscription(u) =>
          /\ subscriber[u] \in Connections /\ handler[subscriber[u]] # "none"
          /\ userOf[subscriber[u]] = u
  BY <1>t DEF FreshConnections, HasSubscription, TypeOK, SocketsMatchSubscriptions
<1>k. ASSUME UNCHANGED <<handler, unread>>,
             \A u \in Users : subscriber'[u] = None \/ subscriber'[u] = subscriber[u],
             \A c \in Connections : handler[c] = "none" => queue'[c] = queue[c],
             \/ notifier'.pc \in {"next", "dead"}
             \/ handler[notifier'.conn] # "none" /\ userOf[notifier'.conn] = notifier'.user
      PROVE  FreshConnections'
  BY <1>k, <1>t DEF FreshConnections, HasSubscription
<1>7. CASE ListSubscribers \/ SendFails \/ \E u \in Users : FindQueue(u)
  <2>1. UNCHANGED <<handler, unread, subscriber, queue>>
    BY <1>7 DEF ListSubscribers, SendFails, FindQueue
  <2>2. CASE ListSubscribers
    <3>1. notifier'.pc = "next"
      BY <2>2 DEF ListSubscribers, Polling
    <3>2. QED
      BY <1>k, <2>1, <3>1
  <2>3. CASE SendFails
    <3>1. /\ notifier.pc = "send" /\ notifier'.conn = notifier.conn
          /\ notifier'.user = notifier.user
      BY <1>n, <2>3 DEF SendFails, Notifier
    <3>2. handler[notifier'.conn] # "none" /\ userOf[notifier'.conn] = notifier'.user
      BY <3>1 DEF FreshConnections
    <3>3. QED
      BY <1>k, <2>1, <3>2
  <2>4. ASSUME NEW u \in Users, FindQueue(u) PROVE FreshConnections'
    <3>1. CASE HasSubscription(u)
      <4>1. notifier'.conn = subscriber[u] /\ notifier'.user = u
        BY <1>n, <2>4, <3>1 DEF FindQueue, Notifier
      <4>2. QED
        BY <1>h, <1>k, <2>1, <3>1, <4>1
    <3>2. CASE ~HasSubscription(u)
      <4>1. notifier'.pc = "next"
        BY <2>4, <3>2 DEF FindQueue, Polling
      <4>2. QED
        BY <1>k, <2>1, <4>1
    <3>3. QED
      BY <3>1, <3>2
  <2>5. QED
    BY <1>7, <2>2, <2>3, <2>4
<1>8. CASE GetNotification
  <2>1. /\ notifier.user \in Users /\ handler[notifier.conn] # "none"
        /\ UNCHANGED <<handler, unread, subscriber>>
    BY <1>8, <1>t DEF GetNotification, NotifierBusy, FreshConnections
  <2>2. \A c \in Connections : handler[c] = "none" => queue'[c] = queue[c]
    BY <1>8, <1>t, <2>1 DEF GetNotification, TypeOK
  <2>3. CASE queue[notifier.conn] = <<>> \/ subscriber[notifier.user] = None
    <3>1. notifier'.pc = "next"
      BY <1>8, <2>3 DEF GetNotification, Polling
    <3>2. QED
      BY <1>k, <2>1, <2>2, <3>1
  <2>4. CASE queue[notifier.conn] # <<>> /\ subscriber[notifier.user] # None
    <3>1. notifier'.conn = subscriber[notifier.user] /\ notifier'.user = notifier.user
      BY <1>8, <1>n, <2>4 DEF GetNotification, Notifier
    <3>2. HasSubscription(notifier.user)
      BY <2>4 DEF HasSubscription
    <3>3. QED
      BY <1>h, <1>k, <2>1, <2>2, <3>1, <3>2
  <2>5. QED
    BY <2>3, <2>4
<1>9. CASE Send
  BY <1>9, <1>t DEF Send, Sent, Polling, FreshConnections, HasSubscription, TypeOK,
     NotifierBusy
<1>10. CASE DropSubscriber \/ DropLogFails
  <2>1. UNCHANGED <<handler, unread, queue>> /\ Unsubscribe(notifier.user)
    BY <1>10 DEF DropSubscriber, DropLogFails
  <2>2. \A u \in Users : subscriber'[u] = None \/ subscriber'[u] = subscriber[u]
    BY <1>t, <2>1 DEF Unsubscribe, TypeOK
  <2>3. notifier'.pc \in {"next", "dead"}
    BY <1>10 DEF DropSubscriber, DropLogFails, Polling
  <2>4. QED
    BY <1>k, <2>1, <2>2, <2>3
<1>11. ASSUME NEW c \in Connections, NEW k \in 1 .. Len(unread[c]),
              ReadAnswer(c, k) \/ ReadNotifications(c, k)
       PROVE  FreshConnections'
  <2>1. unread[c] # <<>>
    BY <1>t DEF TypeOK
  <2>2. \A d \in Connections : d # c => unread'[d] = unread[d]
    BY <1>11, <1>t DEF ReadAnswer, ReadNotifications, Rest, TypeOK
  <2>3. handler[c] # "none"
    BY <2>1 DEF FreshConnections
  <2>4. UNCHANGED <<handler, queue, subscriber, notifier>>
    BY <1>11 DEF ReadAnswer, ReadNotifications
  <2>5. QED
    BY <1>t, <2>2, <2>3, <2>4 DEF FreshConnections, HasSubscription
<1>12. ASSUME NEW c \in Connections, Leave(c) PROVE FreshConnections'
  BY <1>12, <1>t DEF Leave, FreshConnections, HasSubscription, TypeOK
<1>13. CASE UNCHANGED vars
  BY <1>13 DEF vars, FreshConnections, HasSubscription
<1>14. QED
  BY <1>1, <1>2, <1>3, <1>4, <1>5, <1>6, <1>7, <1>8, <1>9, <1>10, <1>11, <1>12, <1>13
     DEF Next, Handle, Poll

\* A client that has gone is sent nothing, any other the message, at the end.
LEMMA SentToOne ==
    ASSUME TypeOK, NEW c \in Connections, NEW m \in Message, unread' = Sent(c, m)
    PROVE  /\ \A d \in Connections : d # c => unread'[d] = unread[d]
           /\ unread'[c] \in {unread[c], Append(unread[c], m)}
           /\ unread[c] \in Seq(Message)
BY DEF Sent, TypeOK

\* A queue is appended to only while it is that of the subscription.
LEMMA AppendedToOne ==
    ASSUME TypeOK, NEW v \in Users, NEW m \in Message, AppendNotification(v, m)
    PROVE  \A c \in Connections :
               /\ queue[c] \in Seq(Message)
               /\ queue'[c] = IF c = subscriber[v] THEN Append(queue[c], m) ELSE queue[c]
BY DEF AppendNotification, TypeOK

LEMMA EventsSent ==
    ASSUME TypeOK, NEW c \in Connections, NEW m \in Message, unread' = Sent(c, m)
    PROVE  \A d \in Connections :
               /\ EventNumbers(unread'[d]) \subseteq EventNumbers(unread[d]) \cup EventNumbers(<<m>>)
               /\ Ordered(unread[d]) /\ (d = c => Below(unread[d], <<m>>)) => Ordered(unread'[d])
<1> SUFFICES ASSUME NEW d \in Connections
             PROVE  /\ EventNumbers(unread'[d]) \subseteq EventNumbers(unread[d]) \cup EventNumbers(<<m>>)
                    /\ Ordered(unread[d]) /\ (d = c => Below(unread[d], <<m>>)) => Ordered(unread'[d])
  OBVIOUS
<1>1. CASE d # c
  BY <1>1, SentToOne
<1>2. CASE d = c
  <2>1. unread[c] \in Seq(Message) /\ unread'[c] \in {unread[c], Append(unread[c], m)}
    BY SentToOne
  <2>2. /\ EventNumbers(Append(unread[c], m)) = EventNumbers(unread[c]) \cup EventNumbers(<<m>>)
        /\ Ordered(unread[c]) /\ Below(unread[c], <<m>>) => Ordered(Append(unread[c], m))
    BY <2>1, EventsAppended
  <2>3. QED
    BY <1>2, <2>1, <2>2
<1>3. QED
  BY <1>1, <1>2

LEMMA EventsQueued ==
    ASSUME TypeOK, NEW v \in Users, NEW m \in Message, AppendNotification(v, m)
    PROVE  \A d \in Connections :
               /\ EventNumbers(queue'[d]) \subseteq EventNumbers(queue[d]) \cup EventNumbers(<<m>>)
               /\ d # subscriber[v] => queue'[d] = queue[d]
               /\ Ordered(queue[d]) /\ Below(queue[d], <<m>>) => Ordered(queue'[d])
<1> SUFFICES ASSUME NEW d \in Connections
             PROVE  /\ EventNumbers(queue'[d]) \subseteq EventNumbers(queue[d]) \cup EventNumbers(<<m>>)
                    /\ d # subscriber[v] => queue'[d] = queue[d]
                    /\ Ordered(queue[d]) /\ Below(queue[d], <<m>>) => Ordered(queue'[d])
  OBVIOUS
<1>1. /\ queue[d] \in Seq(Message)
      /\ queue'[d] = IF d = subscriber[v] THEN Append(queue[d], m) ELSE queue[d]
  BY AppendedToOne
<1>2. /\ EventNumbers(Append(queue[d], m)) = EventNumbers(queue[d]) \cup EventNumbers(<<m>>)
      /\ Ordered(queue[d]) /\ Below(queue[d], <<m>>) => Ordered(Append(queue[d], m))
  BY <1>1, EventsAppended
<1>3. QED
  BY <1>1, <1>2

\* What the client has not read is a rest of what it had not, or nothing.
LEMMA ReadFromOne ==
    ASSUME TypeOK, NEW c \in Connections,
           \/ Leave(c)
           \/ \E k \in 1 .. Len(unread[c]) : ReadAnswer(c, k) \/ ReadNotifications(c, k)
    PROVE  /\ \A d \in Connections : d # c => unread'[d] = unread[d]
           /\ EventNumbers(unread'[c]) \subseteq EventNumbers(unread[c])
           /\ Ordered(unread[c]) => Ordered(unread'[c])
           /\ UNCHANGED <<subscriber, queue, notifier, events>>
<1>1. ASSUME unread' = [unread EXCEPT ![c] = <<>>]
      PROVE  /\ \A d \in Connections : d # c => unread'[d] = unread[d]
             /\ EventNumbers(unread'[c]) = {} /\ Ordered(unread'[c])
  BY <1>1, NoEvents DEF TypeOK
<1>2. ASSUME NEW k \in 1 .. Len(unread[c]), unread' = Rest(c, k)
      PROVE  /\ \A d \in Connections : d # c => unread'[d] = unread[d]
             /\ EventNumbers(unread'[c]) \subseteq EventNumbers(unread[c])
             /\ Ordered(unread[c]) => Ordered(unread'[c])
  <2> DEFINE q == unread[c]
             r == SubSeq(q, k + 1, Len(q))
  <2>1. q \in Seq(Message) /\ Len(q) \in Nat /\ k \in Nat /\ k <= Len(q)
    BY DEF TypeOK
  <2>2. /\ r \in Seq(Message) /\ Len(r) + k = Len(q)
        /\ \A i \in 1 .. Len(r) : r[i] = q[i + k]
    BY <2>1, SubSeqProperties
  <2>3. unread'[c] = r /\ \A d \in Connections : d # c => unread'[d] = unread[d]
    BY <1>2 DEF Rest, TypeOK
  <2> HIDE DEF q, r
  <2>4. EventNumbers(r) \subseteq EventNumbers(q) /\ (Ordered(q) => Ordered(r))
    BY <2>1, <2>2, EventsOfRest
  <2>5. QED
    BY <2>3, <2>4 DEF q
<1>3. UNCHANGED <<subscriber, queue, notifier, events>>
  BY DEF Leave, ReadAnswer, ReadNotifications
<1>4. CASE Leave(c)
  BY <1>1, <1>3, <1>4 DEF Leave
<1>5. ASSUME NEW k \in 1 .. Len(unread[c]), ReadAnswer(c, k) \/ ReadNotifications(c, k)
      PROVE  unread' = Rest(c, k) \/ unread' = [unread EXCEPT ![c] = <<>>]
  BY <1>5 DEF ReadAnswer, ReadNotifications
<1>6. QED
  BY <1>1, <1>2, <1>3, <1>4, <1>5

\* Only Notify makes an event, and gives it the next number.
LEMMA EventsAgeInStep ==
    ASSUME SocketInv, EventsAreOld, [Next]_vars
    PROVE  EventsAreOld'
<1>t. TypeOK /\ NotifierBusy /\ notifier \in Notifier /\ events \in Nat
  BY NumbersAssumption DEF SocketInv, TypeOK
<1>u. \A c \in Connections : userOf[c] \in Users
  BY <1>t DEF TypeOK
<1>k. ASSUME events' \in {events, events + 1},
             \A c \in Connections :
                 /\ EventNumbers(queue'[c]) \subseteq 0 .. events'
                 /\ EventNumbers(unread'[c]) \subseteq 0 .. events',
             \/ notifier' = notifier \/ notifier'.pc # "send"
             \/ EventNumbers(<<notifier'.holding>>) \subseteq 0 .. events'
      PROVE  EventsAreOld'
  <2>1. 0 .. events \subseteq 0 .. events'
    BY <1>k, <1>t
  <2>2. QED
    BY <1>k, <2>1 DEF EventsAreOld
<1>0. \A c \in Connections : /\ EventNumbers(queue[c]) \subseteq 0 .. events
                             /\ EventNumbers(unread[c]) \subseteq 0 .. events
  BY DEF EventsAreOld
<1>1. CASE \/ \E c \in Connections : \/ Subscribe(c) \/ SubscribeLogFails(c)
                                     \/ AnswerFails(c) \/ StartKeepAlive(c)
                                     \/ KeepAliveEnds(c)
           \/ ListSubscribers \/ SendFails \/ DropSubscriber \/ DropLogFails
           \/ \E u \in Users : FindQueue(u)
           \/ UNCHANGED vars
  <2>1. UNCHANGED <<queue, unread, events>>
    BY <1>1 DEF Subscribe, SubscribeLogFails, AnswerFails, StartKeepAlive, KeepAliveEnds,
       ListSubscribers, SendFails, DropSubscriber, DropLogFails, FindQueue, vars
  <2>2. notifier' = notifier \/ notifier'.pc # "send"
    <3>1. CASE \/ \E c \in Connections : \/ Subscribe(c) \/ SubscribeLogFails(c)
                                         \/ AnswerFails(c) \/ StartKeepAlive(c)
                                         \/ KeepAliveEnds(c)
               \/ UNCHANGED vars
      BY <3>1 DEF Subscribe, SubscribeLogFails, AnswerFails, StartKeepAlive,
         KeepAliveEnds, vars
    <3>2. CASE ListSubscribers \/ DropSubscriber \/ DropLogFails
      BY <3>2 DEF ListSubscribers, DropSubscriber, DropLogFails, Polling
    <3>a. CASE SendFails
      BY <1>t, <3>a DEF SendFails, Notifier
    <3>3. CASE \E u \in Users : FindQueue(u)
      BY <1>t, <3>3 DEF FindQueue, Polling, Notifier
    <3>4. QED
      BY <1>1, <3>1, <3>2, <3>3, <3>a
  <2>3. QED
    BY <1>0, <1>k, <2>1, <2>2
<1>2. ASSUME NEW c \in Connections, QueueSubscribed(c) PROVE EventsAreOld'
  <2>1. /\ AppendNotification(userOf[c], Subscribed)
        /\ UNCHANGED <<unread, notifier, events>>
    BY <1>2 DEF QueueSubscribed
  <2>2. EventNumbers(<<Subscribed>>) = {}
    BY NoEvents DEF Subscribed
  <2>3. \A d \in Connections : EventNumbers(queue'[d]) \subseteq EventNumbers(queue[d])
    BY <1>t, <1>u, <2>1, <2>2, Messages, EventsQueued
  <2>4. QED
    BY <1>0, <1>k, <2>1, <2>3
<1>3. ASSUME NEW u \in Users, Notify(u) PROVE EventsAreOld'
  <2>1. /\ AppendNotification(u, Event(events + 1))
        /\ UNCHANGED <<unread, notifier>> /\ events' = events + 1
        /\ events + 1 \in 1 .. MaxEvents
    BY <1>3, <1>t, NumbersAssumption DEF Notify
  <2>2. EventNumbers(<<Event(events + 1)>>) = {events + 1}
    <3>1. Event(events + 1).kind = "EVENT" /\ Event(events + 1).number = events + 1
      BY DEF Event
    <3>2. QED
      BY <3>1, NoEvents
  <2>3. Event(events + 1) \in Message
    BY <2>1, Messages
  <2>4. \A d \in Connections :
            EventNumbers(queue'[d]) \subseteq EventNumbers(queue[d]) \cup {events + 1}
    BY <1>t, <2>1, <2>2, <2>3, EventsQueued
  <2>5. 0 .. events \cup {events + 1} \subseteq 0 .. events'
    BY <1>t, <2>1
  <2>6. QED
    BY <1>0, <1>k, <2>1, <2>4, <2>5
<1>4. ASSUME NEW c \in Connections, AnswerSubscribe(c) PROVE EventsAreOld'
  <2>1. unread' = Sent(c, Success) /\ UNCHANGED <<queue, notifier, events>>
    BY <1>4 DEF AnswerSubscribe
  <2>2. EventNumbers(<<Success>>) = {}
    BY NoEvents DEF Success
  <2>3. \A d \in Connections : EventNumbers(unread'[d]) \subseteq EventNumbers(unread[d])
    BY <1>t, <2>1, <2>2, Messages, EventsSent
  <2>4. QED
    BY <1>0, <1>k, <2>1, <2>3
<1>5. CASE Send
  <2>1. /\ notifier.conn \in Connections /\ notifier.holding \in Message
        /\ EventNumbers(<<notifier.holding>>) \subseteq 0 .. events
        /\ unread' = Sent(notifier.conn, notifier.holding)
        /\ UNCHANGED <<queue, events>> /\ notifier'.pc = "next"
    BY <1>5, <1>t DEF Send, NotifierBusy, EventsAreOld, Notifier, Polling
  <2>2. \A d \in Connections : EventNumbers(unread'[d]) \subseteq 0 .. events
    BY <1>0, <1>t, <2>1, EventsSent
  <2>3. QED
    BY <1>0, <1>k, <2>1, <2>2
<1>6. CASE GetNotification
  <2>1. /\ notifier.conn \in Connections /\ queue[notifier.conn] \in Seq(Message)
        /\ UNCHANGED <<unread, events>>
    BY <1>6, <1>t DEF GetNotification, NotifierBusy, TypeOK
  <2>2. CASE queue[notifier.conn] = <<>>
    <3>1. queue' = queue /\ notifier'.pc = "next"
      BY <1>6, <2>2 DEF GetNotification, Polling
    <3>2. QED
      BY <1>0, <1>k, <2>1, <3>1
  <2>3. CASE queue[notifier.conn] # <<>>
    <3> DEFINE q == queue[notifier.conn]
    <3>1. /\ EventNumbers(Take(q).rest) \subseteq EventNumbers(q)
          /\ EventNumbers(<<Take(q).next>>) \subseteq EventNumbers(q)
      BY <2>1, <2>3, EventsTaken
    <3>2. \A d \in Connections :
              queue'[d] = IF d = notifier.conn THEN Take(q).rest ELSE queue[d]
      BY <1>6, <1>t, <2>3 DEF GetNotification, TypeOK
    <3>3. notifier'.pc = "next" \/ notifier'.holding = Take(q).next
      <4>1. CASE subscriber[notifier.user] = None
        BY <1>6, <2>3, <4>1 DEF GetNotification, Polling
      <4>2. CASE subscriber[notifier.user] # None
        BY <1>6, <1>t, <2>3, <4>2 DEF GetNotification, Notifier
      <4>3. QED
        BY <4>1, <4>2
    <3>4. \A d \in Connections : EventNumbers(queue'[d]) \subseteq EventNumbers(queue[d])
      BY <3>1, <3>2
    <3>5. EventNumbers(q) \subseteq 0 .. events
      BY <1>0, <2>1
    <3>6. QED
      BY <1>0, <1>k, <2>1, <3>1, <3>3, <3>4, <3>5
  <2>4. QED
    BY <2>2, <2>3
<1>7. ASSUME NEW c \in Connections,
             \/ Leave(c)
             \/ \E k \in 1 .. Len(unread[c]) :
                    ReadAnswer(c, k) \/ ReadNotifications(c, k)
      PROVE  EventsAreOld'
  <2>1. \A d \in Connections : EventNumbers(unread'[d]) \subseteq EventNumbers(unread[d])
    BY <1>7, <1>t, ReadFromOne
  <2>2. UNCHANGED <<queue, notifier, events>>
    BY <1>7, <1>t, ReadFromOne
  <2>3. QED
    BY <1>0, <1>k, <2>1, <2>2
<1>8. QED
  BY <1>1, <1>2, <1>3, <1>4, <1>5, <1>6, <1>7 DEF Next, Handle, Poll

-----------------------------------------------------------------------------
(* The parts of a stream                                                    *)

\* What the notifier has in its hands is a message, and old.
LEMMA HandIsOld ==
    ASSUME SocketInv, EventsAreOld, NEW u \in Users
    PROVE  /\ InHand(u) \in Seq(Message) /\ Ordered(InHand(u))
           /\ EventNumbers(InHand(u)) \subseteq 0 .. events
<1>t. TypeOK /\ NotifierBusy /\ notifier \in Notifier
  BY DEF SocketInv, TypeOK
<1>1. CASE notifier.user = u /\ notifier.pc = "send"
  <2>1. InHand(u) = <<notifier.holding>> /\ notifier.holding \in Message
    BY <1>1, <1>t DEF InHand, Notifier
  <2>2. QED
    BY <1>1, <2>1, NoEvents DEF EventsAreOld
<1>2. CASE /\ notifier.user = u /\ notifier.pc = "get"
           /\ notifier.conn # subscriber[u] /\ queue[notifier.conn] # <<>>
  <2> DEFINE q == queue[notifier.conn]
  <2>1. q \in Seq(Message) /\ EventNumbers(q) \subseteq 0 .. events
    BY <1>2, <1>t DEF NotifierBusy, TypeOK, EventsAreOld
  <2>2. InHand(u) = <<Head(q)>>
    BY <1>2 DEF InHand
  <2>3. Head(q) \in Message /\ EventNumbers(<<Head(q)>>) \subseteq EventNumbers(q)
    BY <1>2, <2>1, EventsTaken
  <2> HIDE DEF q
  <2>4. QED
    BY <2>1, <2>2, <2>3, NoEvents
<1>3. CASE ~ \/ notifier.user = u /\ notifier.pc = "send"
             \/ /\ notifier.user = u /\ notifier.pc = "get"
                /\ notifier.conn # subscriber[u] /\ queue[notifier.conn] # <<>>
  <2>1. InHand(u) = <<>>
    BY <1>3 DEF InHand
  <2>2. QED
    BY <2>1, NoEvents
<1>4. QED
  BY <1>1, <1>2, <1>3

\* The hands of the notifier do not change while it stands still: the older
\* connection it takes from is appended to no more.
LEMMA HandKept ==
    ASSUME NotifierBusy, FreshConnections, NEW u \in Users, notifier' = notifier,
           subscriber'[u] = subscriber[u],
           /\ notifier.conn \in Connections /\ userOf[notifier.conn] = u
           /\ notifier.conn # subscriber[u]
           => queue'[notifier.conn] = queue[notifier.conn]
    PROVE  InHand(u)' = InHand(u)
<1>1. CASE notifier.user = u /\ notifier.pc = "get" /\ notifier.conn # subscriber[u]
  <2>1. queue'[notifier.conn] = queue[notifier.conn]
    BY <1>1 DEF NotifierBusy, FreshConnections
  <2>2. QED
    BY <1>1, <2>1 DEF InHand
<1>2. CASE ~ (notifier.user = u /\ notifier.pc = "get" /\ notifier.conn # subscriber[u])
  BY <1>2 DEF InHand
<1>3. QED
  BY <1>1, <1>2

LEMMA AppendKeepsHand ==
    ASSUME SocketInv, FreshConnections, NEW u \in Users, NEW v \in Users,
           NEW m \in Message, AppendNotification(v, m), UNCHANGED <<subscriber, notifier>>
    PROVE  InHand(u)' = InHand(u)
<1>1. TypeOK /\ NotifierBusy /\ SocketsMatchSubscriptions /\ None \notin Connections
  BY ConnectionsAssumption DEF SocketInv
<1>2. ASSUME notifier.conn \in Connections, userOf[notifier.conn] = u,
             notifier.conn # subscriber[u]
      PROVE  queue'[notifier.conn] = queue[notifier.conn]
  <2>1. notifier.conn # subscriber[v]
    BY <1>1, <1>2 DEF SocketsMatchSubscriptions, HasSubscription
  <2>2. QED
    BY <1>1, <1>2, <2>1, AppendedToOne
<1>3. QED
  BY <1>1, <1>2, HandKept

\* A stream that loses messages stays in order.
LEMMA StreamKept ==
    ASSUME NEW u \in Users, StreamInOrder(u), subscriber'[u] = subscriber[u],
           NEW c, c = subscriber[u],
           Ordered(unread'[c]), Ordered(queue'[c]),
           EventNumbers(unread'[c]) \subseteq EventNumbers(unread[c]),
           EventNumbers(queue'[c]) \subseteq EventNumbers(queue[c]),
           InHand(u)' = InHand(u) \/ InHand(u)' = <<>>
    PROVE  StreamInOrder(u)'
<1>1. EventNumbers(InHand(u)') \subseteq EventNumbers(InHand(u))
  BY NoEvents
<1>2. /\ Below(unread[c], InHand(u)) /\ Below(unread[c], queue[c])
      /\ Below(InHand(u), queue[c])
  BY DEF StreamInOrder
<1>3. /\ Below(unread'[c], InHand(u)') /\ Below(unread'[c], queue'[c])
      /\ Below(InHand(u)', queue'[c])
  BY <1>1, <1>2 DEF Below
<1>4. QED
  BY <1>3 DEF StreamInOrder

\* A subscription is that of its user only.
LEMMA OneUser ==
    ASSUME SocketInv, NEW u \in Users, NEW v \in Users, HasSubscription(u),
           subscriber[u] = subscriber[v]
    PROVE  u = v
BY DEF SocketInv, SocketsMatchSubscriptions, HasSubscription

LEMMA SubscriptionKept ==
    ASSUME SocketInv, NEW u \in Users, HasSubscription(u)',
           UNCHANGED subscriber \/ \E v \in Users \cup {None} : Unsubscribe(v)
    PROVE  subscriber'[u] = subscriber[u] /\ HasSubscription(u)
BY DEF SocketInv, TypeOK, Unsubscribe, HasSubscription

\* The handlers: a new subscription starts with nothing on its way, and
\* neither the answer nor SUBSCRIBED is an event.
LEMMA HandlersKeepOrder ==
    ASSUME EventInv, NEW c \in Connections, Subscribe(c) \/ Handle(c)
    PROVE  StreamsInOrder'
<1>t. /\ SocketInv /\ TypeOK /\ NotifierBusy /\ FreshConnections /\ StreamsInOrder
      /\ userOf[c] \in Users
  BY DEF EventInv, SocketInv, TypeOK
<1> SUFFICES ASSUME NEW u \in Users, HasSubscription(u)' PROVE StreamInOrder(u)'
  BY DEF StreamsInOrder
<1>k. ASSUME HasSubscription(u), subscriber'[u] = subscriber[u], UNCHANGED <<queue, unread, notifier>>
      PROVE  StreamInOrder(u)'
  <2>1. StreamInOrder(u)
    BY <1>k, <1>t DEF StreamsInOrder
  <2>2. InHand(u)' = InHand(u)
    BY <1>k, <1>t, HandKept
  <2>3. QED
    BY <1>k, <2>1, <2>2 DEF StreamInOrder
<1>1. CASE Subscribe(c)
  <2>1. CASE u = userOf[c]
    <3>1. subscriber'[u] = c /\ queue'[c] = <<>> /\ unread'[c] = <<>>
      BY <1>1, <1>t, <2>1 DEF Subscribe, FreshConnections, TypeOK
    <3>2. QED
      BY <3>1, NoEvents DEF StreamInOrder, Below
  <2>2. CASE u # userOf[c]
    <3>1. subscriber'[u] = subscriber[u] /\ HasSubscription(u)
      BY <1>1, <1>t, <2>2 DEF Subscribe, HasSubscription, TypeOK
    <3>2. QED
      BY <1>1, <1>k, <3>1 DEF Subscribe
  <2>3. QED
    BY <2>1, <2>2
<1>2. CASE SubscribeLogFails(c) \/ AnswerFails(c) \/ StartKeepAlive(c) \/ KeepAliveEnds(c)
  <2>1. /\ UNCHANGED <<queue, unread, notifier>>
        /\ UNCHANGED subscriber \/ \E v \in Users \cup {None} : Unsubscribe(v)
    BY <1>2, <1>t DEF SubscribeLogFails, AnswerFails, StartKeepAlive, KeepAliveEnds
  <2>2. subscriber'[u] = subscriber[u] /\ HasSubscription(u)
    BY <1>t, <2>1, SubscriptionKept
  <2>3. QED
    BY <1>k, <2>1, <2>2
<1>3. CASE QueueSubscribed(c)
  <2>1. /\ AppendNotification(userOf[c], Subscribed) /\ HasSubscription(u)
        /\ UNCHANGED <<subscriber, unread, notifier>>
    BY <1>3 DEF QueueSubscribed, HasSubscription
  <2>2. StreamInOrder(u) /\ subscriber[u] \in Connections
    BY <1>t, <2>1 DEF StreamsInOrder, HasSubscription, TypeOK
  <2>3. EventNumbers(<<Subscribed>>) = {} /\ Subscribed \in Message
    BY NoEvents, Messages DEF Subscribed
  <2>4. \A d \in Connections :
            /\ EventNumbers(queue'[d]) \subseteq EventNumbers(queue[d])
            /\ d # subscriber[userOf[c]] => queue'[d] = queue[d]
            /\ Ordered(queue[d]) => Ordered(queue'[d])
    BY <1>t, <2>1, <2>3, EventsQueued DEF Below
  <2>6. InHand(u)' = InHand(u)
    BY <1>t, <2>1, <2>3, AppendKeepsHand
  <2>7. QED
    BY <2>1, <2>2, <2>4, <2>6, StreamKept DEF StreamInOrder
<1>4. CASE AnswerSubscribe(c)
  <2>1. /\ unread' = Sent(c, Success) /\ HasSubscription(u)
        /\ UNCHANGED <<subscriber, queue, notifier>>
    BY <1>4 DEF AnswerSubscribe, HasSubscription
  <2>2. StreamInOrder(u) /\ subscriber[u] \in Connections
    BY <1>t, <2>1 DEF StreamsInOrder, HasSubscription, TypeOK
  <2>3. EventNumbers(<<Success>>) = {} /\ Success \in Message
    BY NoEvents, Messages DEF Success
  <2>4. \A d \in Connections :
            /\ EventNumbers(unread'[d]) \subseteq EventNumbers(unread[d])
            /\ Ordered(unread[d]) => Ordered(unread'[d])
    BY <1>t, <2>1, <2>3, EventsSent DEF Below
  <2>5. InHand(u)' = InHand(u)
    BY <1>t, <2>1, HandKept
  <2>6. QED
    BY <2>1, <2>2, <2>4, <2>5, StreamKept DEF StreamInOrder
<1>5. QED
  BY <1>1, <1>2, <1>3, <1>4 DEF Handle

\* The notifier: a message moves from the head of a queue to its hands, and
\* from there to the end of what is unread, or it is lost.
LEMMA NotifierKeepsOrder ==
    ASSUME EventInv, Poll \/ DropLogFails
    PROVE  StreamsInOrder'
<1>t. /\ SocketInv /\ TypeOK /\ NotifierBusy /\ FreshConnections /\ StreamsInOrder
      /\ SocketsMatchSubscriptions /\ notifier \in Notifier
  BY DEF EventInv, SocketInv, TypeOK
<1> SUFFICES ASSUME NEW u \in Users, HasSubscription(u)' PROVE StreamInOrder(u)'
  BY DEF StreamsInOrder
<1>s. ASSUME HasSubscription(u)
      PROVE  /\ StreamInOrder(u) /\ subscriber[u] \in Connections
             /\ userOf[subscriber[u]] = u
  BY <1>s, <1>t DEF StreamsInOrder, HasSubscription, TypeOK, SocketsMatchSubscriptions
<1>k. ASSUME HasSubscription(u), subscriber'[u] = subscriber[u],
             unread'[subscriber[u]] = unread[subscriber[u]],
             queue'[subscriber[u]] = queue[subscriber[u]],
             \/ notifier'.pc \notin {"get", "send"} \/ notifier'.user # u
             \/ notifier'.pc = "get" /\ notifier'.conn = subscriber[u]
      PROVE  StreamInOrder(u)'
  <2>1. InHand(u)' = <<>>
    BY <1>k DEF InHand
  <2>2. QED
    BY <1>k, <1>s, <2>1, StreamKept DEF StreamInOrder
<1>1. CASE ListSubscribers \/ SendFails \/ DropSubscriber \/ DropLogFails
  <2>1. /\ UNCHANGED <<unread, queue>>
        /\ UNCHANGED subscriber \/ \E v \in Users \cup {None} : Unsubscribe(v)
    BY <1>1, <1>t DEF ListSubscribers, SendFails, DropSubscriber, DropLogFails,
       NotifierBusy
  <2>2. CASE ListSubscribers \/ DropSubscriber \/ DropLogFails
    <3>1. notifier'.pc \notin {"get", "send"}
      BY <2>2 DEF ListSubscribers, DropSubscriber, DropLogFails, Polling
    <3>2. QED
      BY <1>k, <1>t, <2>1, <3>1, SubscriptionKept
  <2>3. CASE SendFails
    <3>1. notifier'.pc = "drop"
      BY <1>t, <2>3 DEF SendFails, Notifier
    <3>2. QED
      BY <1>k, <1>t, <2>1, <3>1, SubscriptionKept
  <2>4. QED
    BY <1>1, <2>2, <2>3
<1>2. ASSUME NEW v \in Users, FindQueue(v) PROVE StreamInOrder(u)'
  <2>1. UNCHANGED <<unread, queue, subscriber>> /\ HasSubscription(u)
    BY <1>2 DEF FindQueue, HasSubscription
  <2>2. CASE HasSubscription(v)
    <3>1. /\ notifier'.pc = "get" /\ notifier'.user = v
          /\ notifier'.conn = subscriber[v]
      BY <1>2, <1>t, <2>2 DEF FindQueue, Notifier
    <3>2. QED
      BY <1>k, <2>1, <3>1
  <2>3. CASE ~HasSubscription(v)
    <3>1. notifier'.pc = "next"
      BY <1>2, <2>3 DEF FindQueue, Polling
    <3>2. QED
      BY <1>k, <2>1, <3>1
  <2>4. QED
    BY <2>2, <2>3
<1>3. CASE GetNotification
  <2> DEFINE v == notifier.user
             c == notifier.conn
             q == queue[c]
  <2>1. /\ v \in Users /\ c \in Connections /\ userOf[c] = v /\ q \in Seq(Message)
        /\ notifier.pc = "get" /\ UNCHANGED <<unread, subscriber>> /\ HasSubscription(u)
    BY <1>3, <1>t
       DEF GetNotification, NotifierBusy, FreshConnections, TypeOK, HasSubscription
  <2>2. CASE q = <<>>
    <3>1. queue' = queue /\ notifier'.pc = "next"
      BY <1>3, <2>2 DEF GetNotification, Polling
    <3>2. QED
      BY <1>k, <2>1, <3>1
  <2>3. CASE q # <<>>
    <3>1. \A d \in Connections :
              queue'[d] = IF d = c THEN Take(q).rest ELSE queue[d]
      BY <1>3, <1>t, <2>3 DEF GetNotification, TypeOK
    <3>2. CASE u # v
      <4>1. subscriber[u] # c
        BY <1>s, <2>1, <3>2
      <4>2. notifier'.pc = "next" \/ notifier'.user = v
        <5>1. CASE subscriber[v] = None
          BY <1>3, <2>3, <5>1 DEF GetNotification, Polling
        <5>2. CASE subscriber[v] # None
          BY <1>3, <1>t, <2>3, <5>2 DEF GetNotification, Notifier
        <5>3. QED
          BY <5>1, <5>2
      <4>3. QED
        BY <1>k, <1>s, <2>1, <3>1, <3>2, <4>1, <4>2
    <3>3. CASE u = v
      <4>1. /\ notifier'.pc = "send" /\ notifier'.user = u
            /\ notifier'.holding = Take(q).next
        BY <1>3, <1>t, <2>1, <2>3, <3>3 DEF GetNotification, Notifier, HasSubscription
      <4>2. InHand(u)' = <<Take(q).next>>
        BY <4>1 DEF InHand
      <4>3. StreamInOrder(u) /\ subscriber[u] \in Connections
        BY <1>s, <2>1
      <4>4. CASE subscriber[u] = c
        <5>1. /\ EventNumbers(Take(q).rest) \subseteq EventNumbers(q)
              /\ EventNumbers(<<Take(q).next>>) \subseteq EventNumbers(q)
              /\ Ordered(q) => Ordered(Take(q).rest) /\ Below(<<Take(q).next>>, Take(q).rest)
          BY <2>1, <2>3, EventsTaken
        <5>2. queue'[c] = Take(q).rest /\ Ordered(q) /\ Below(unread[c], q)
              /\ Ordered(unread[c])
          BY <2>1, <3>1, <4>3, <4>4 DEF StreamInOrder
        <5>3. /\ Below(unread[c], InHand(u)') /\ Below(unread[c], queue'[c])
              /\ Below(InHand(u)', queue'[c]) /\ Ordered(queue'[c])
          BY <4>2, <5>1, <5>2 DEF Below
        <5>4. QED
          BY <2>1, <4>4, <5>2, <5>3 DEF StreamInOrder
      <4>5. CASE subscriber[u] # c
        <5>1. InHand(u) = <<Take(q).next>>
          BY <2>1, <2>3, <3>3, <4>5 DEF InHand, Take
        <5>2. queue'[subscriber[u]] = queue[subscriber[u]]
          BY <3>1, <4>3, <4>5
        <5>3. QED
          BY <2>1, <4>2, <4>3, <5>1, <5>2 DEF StreamInOrder
      <4>6. QED
        BY <4>4, <4>5
    <3>4. QED
      BY <3>2, <3>3
  <2>4. QED
    BY <2>2, <2>3
<1>4. CASE Send
  <2> DEFINE c == notifier.conn
             m == notifier.holding
  <2>1. /\ c \in Connections /\ userOf[c] = notifier.user /\ m \in Message
        /\ notifier.pc = "send" /\ notifier'.pc = "next" /\ unread' = Sent(c, m)
        /\ UNCHANGED <<queue, subscriber>> /\ HasSubscription(u)
    BY <1>4, <1>t
       DEF Send, NotifierBusy, FreshConnections, Notifier, Polling, HasSubscription
  <2>2. CASE subscriber[u] # c
    <3>1. unread'[subscriber[u]] = unread[subscriber[u]]
      BY <1>s, <1>t, <2>1, <2>2, SentToOne
    <3>2. QED
      BY <1>k, <2>1, <3>1
  <2>3. CASE subscriber[u] = c
    <3>1. StreamInOrder(u) /\ notifier.user = u
      BY <1>s, <2>1, <2>3
    <3>2. InHand(u) = <<m>> /\ InHand(u)' = <<>>
      BY <2>1, <3>1 DEF InHand
    <3>3. /\ Ordered(unread[c]) /\ Ordered(queue[c]) /\ Below(unread[c], <<m>>)
          /\ Below(unread[c], queue[c]) /\ Below(<<m>>, queue[c])
      BY <2>3, <3>1, <3>2 DEF StreamInOrder
    <3>4. /\ EventNumbers(unread'[c]) \subseteq EventNumbers(unread[c]) \cup EventNumbers(<<m>>)
          /\ Ordered(unread'[c])
      BY <1>t, <2>1, <3>3, EventsSent
    <3>5. /\ Below(unread'[c], InHand(u)') /\ Below(unread'[c], queue[c])
          /\ Below(InHand(u)', queue[c])
      BY <3>2, <3>3, <3>4, NoEvents DEF Below
    <3>6. QED
      BY <2>1, <2>3, <3>3, <3>4, <3>5 DEF StreamInOrder
  <2>4. QED
    BY <2>2, <2>3
<1>5. QED
  BY <1>1, <1>2, <1>3, <1>4 DEF Poll

\* An event is newer than all that is on its way.
LEMMA NotifyKeepsOrder ==
    ASSUME EventInv, NEW v \in Users, Notify(v)
    PROVE  StreamsInOrder'
<1>t. /\ SocketInv /\ TypeOK /\ FreshConnections /\ EventsAreOld /\ StreamsInOrder
      /\ events \in Nat
  BY NumbersAssumption DEF EventInv, SocketInv, TypeOK
<1> DEFINE m == Event(events + 1)
<1>m. /\ m \in Message /\ m.kind = "EVENT" /\ m.number = events + 1
      /\ AppendNotification(v, m) /\ UNCHANGED <<subscriber, unread, notifier>>
  <2>1. events + 1 \in 1 .. MaxEvents
    BY <1>t, NumbersAssumption DEF Notify
  <2>2. QED
    BY <2>1, Messages DEF Notify, Event
<1> HIDE DEF m
<1>e. EventNumbers(<<m>>) = {events + 1}
  BY <1>m, NoEvents
<1> SUFFICES ASSUME NEW u \in Users, HasSubscription(u)' PROVE StreamInOrder(u)'
  BY DEF StreamsInOrder
<1> DEFINE c == subscriber[u]
<1>1. /\ HasSubscription(u) /\ StreamInOrder(u) /\ c \in Connections
      /\ subscriber'[u] = c
  BY <1>m, <1>t DEF HasSubscription, StreamsInOrder, TypeOK
<1>2. InHand(u)' = InHand(u)
  BY <1>m, <1>t, AppendKeepsHand
<1>3. /\ EventNumbers(queue[c]) \subseteq 0 .. events
      /\ EventNumbers(unread[c]) \subseteq 0 .. events
      /\ EventNumbers(InHand(u)) \subseteq 0 .. events
  BY <1>1, <1>t, HandIsOld DEF EventsAreOld
<1>4. /\ Below(queue[c], <<m>>) /\ Below(unread[c], <<m>>) /\ Below(InHand(u), <<m>>)
  BY <1>3, <1>e, <1>t DEF Below
<1>5. /\ EventNumbers(queue'[c]) \subseteq EventNumbers(queue[c]) \cup EventNumbers(<<m>>)
      /\ Ordered(queue[c]) => Ordered(queue'[c])
  BY <1>1, <1>4, <1>m, <1>t, EventsQueued
<1>6. /\ Ordered(unread[c]) /\ Ordered(queue[c]) /\ Below(unread[c], InHand(u))
      /\ Below(unread[c], queue[c]) /\ Below(InHand(u), queue[c])
  BY <1>1 DEF StreamInOrder
<1>7. Below(unread[c], queue'[c]) /\ Below(InHand(u), queue'[c])
  BY <1>4, <1>5, <1>6 DEF Below
<1>8. QED
  BY <1>1, <1>2, <1>5, <1>6, <1>7, <1>m DEF StreamInOrder

LEMMA StreamsInStep ==
    ASSUME EventInv, [Next]_vars
    PROVE  StreamsInOrder'
<1>t. /\ SocketInv /\ TypeOK /\ NotifierBusy /\ FreshConnections /\ StreamsInOrder
  BY DEF EventInv, SocketInv
<1>1. ASSUME NEW c \in Connections, Subscribe(c) \/ Handle(c) PROVE StreamsInOrder'
  BY <1>1, HandlersKeepOrder
<1>2. ASSUME NEW u \in Users, Notify(u) PROVE StreamsInOrder'
  BY <1>2, NotifyKeepsOrder
<1>3. CASE Poll \/ DropLogFails
  BY <1>3, NotifierKeepsOrder
<1>4. ASSUME NEW c \in Connections,
             \/ Leave(c)
             \/ \E k \in 1 .. Len(unread[c]) :
                    ReadAnswer(c, k) \/ ReadNotifications(c, k)
      PROVE  StreamsInOrder'
  <2> SUFFICES ASSUME NEW u \in Users, HasSubscription(u)' PROVE StreamInOrder(u)'
    BY DEF StreamsInOrder
  <2>1. /\ \A d \in Connections :
               /\ EventNumbers(unread'[d]) \subseteq EventNumbers(unread[d])
               /\ Ordered(unread[d]) => Ordered(unread'[d])
        /\ UNCHANGED <<subscriber, queue, notifier>>
    BY <1>4, <1>t, ReadFromOne
  <2>2. StreamInOrder(u) /\ subscriber[u] \in Connections /\ subscriber'[u] = subscriber[u]
    BY <1>t, <2>1 DEF StreamsInOrder, HasSubscription, TypeOK
  <2>3. InHand(u)' = InHand(u)
    BY <1>t, <2>1, <2>2, HandKept
  <2>4. QED
    BY <2>1, <2>2, <2>3, StreamKept DEF StreamInOrder
<1>5. CASE UNCHANGED vars
  BY <1>5, <1>t DEF vars, StreamsInOrder, StreamInOrder, HasSubscription, InHand
<1>6. QED
  BY <1>1, <1>2, <1>3, <1>4, <1>5 DEF Next

LEMMA InitEvents == Init => EventInv
<1> SUFFICES ASSUME Init PROVE EventInv
  OBVIOUS
<1>1. SocketInv
  BY InitSockets
<1>2. \A u \in Users : ~HasSubscription(u)
  BY DEF Init, HasSubscription
<1>3. FreshConnections
  BY <1>2 DEF Init, FreshConnections, Polling
<1>4. EventsAreOld
  BY NoEvents DEF Init, EventsAreOld, Polling
<1>5. StreamsInOrder
  BY <1>2 DEF StreamsInOrder
<1>6. QED
  BY <1>1, <1>3, <1>4, <1>5 DEF EventInv

\* Put together, the parts of a stream are in order.
LEMMA StreamsMakeOrder ==
    ASSUME EventInv
    PROVE  EventsInOrder
<1> SUFFICES ASSUME NEW u \in Users, HasSubscription(u) PROVE Ordered(OnTheWay(u))
  BY DEF EventsInOrder, Ordered
<1> DEFINE p == unread[subscriber[u]]
           h == InHand(u)
           q == queue[subscriber[u]]
<1>1. /\ Ordered(p) /\ Ordered(q) /\ Below(p, h) /\ Below(p, q) /\ Below(h, q)
  BY DEF EventInv, StreamsInOrder, StreamInOrder
<1>2. p \in Seq(Message) /\ q \in Seq(Message) /\ h \in Seq(Message) /\ Ordered(h)
  BY HandIsOld DEF EventInv, SocketInv, TypeOK, HasSubscription
<1> HIDE DEF p, h, q
<1>3. Ordered(p \o h) /\ EventNumbers(p \o h) = EventNumbers(p) \cup EventNumbers(h)
  BY <1>1, <1>2, OrderedConcat
<1>4. Below(p \o h, q) /\ p \o h \in Seq(Message)
  BY <1>1, <1>2, <1>3 DEF Below
<1>5. Ordered((p \o h) \o q)
  BY <1>1, <1>2, <1>3, <1>4, OrderedConcat
<1>6. OnTheWay(u) = (p \o h) \o q
  BY <1>2 DEF OnTheWay, p, h, q
<1>7. QED
  BY <1>5, <1>6

\* However often a user subscribes again, whatever the notifier holds in its
\* hands meanwhile, and whichever clients stop reading: the events on their way
\* to a client are in the order they happened.
THEOREM EventsStayInOrder == Spec => []EventsInOrder
<1>1. EventInv /\ [Next]_vars => EventInv'
  <2> SUFFICES ASSUME EventInv, [Next]_vars PROVE EventInv'
    OBVIOUS
  <2>1. SocketInv'
    BY NextKeepsType, NextKeepsSockets DEF EventInv, SocketInv
  <2>2. FreshConnections' /\ EventsAreOld'
    BY FreshInStep, EventsAgeInStep DEF EventInv
  <2>3. StreamsInOrder'
    BY StreamsInStep
  <2>4. QED
    BY <2>1, <2>2, <2>3 DEF EventInv
<1>2. EventInv => EventsInOrder
  BY StreamsMakeOrder
<1>3. QED
  BY InitEvents, <1>1, <1>2, PTL DEF Spec
=============================================================================
