------------------------------ MODULE Shutdown ------------------------------
(***************************************************************************)
(* stop(): with no new connections it saves the matrix and the sessions,   *)
(* gives every reservation back in memory, and waits for the threads.      *)
(* Requests that were accepted before, and the monitor's last sweep, go on *)
(* meanwhile; the process ends when they have: request threads are no      *)
(* daemons, the monitor is one.                                            *)
(***************************************************************************)
EXTENDS ReservationServer

VARIABLES
    phase,          \* where the process stands, from start() to its end
    stop            \* what stop() works on

shutdownVars == <<phase, stop>>

Phase == {"serving", "saveSeats", "saveSessions", "list", "release", "down"}

\* accepted: connections whose request may still arrive; swept: the monitor
\* has begun its last sweep; todo, target, snapshot: as in the monitor.
Stopping == [accepted : SUBSET Threads, swept : BOOLEAN, todo : SUBSET Target,
             target : Target, snapshot : SUBSET Seats]
NotStopping == [accepted |-> {}, swept |-> FALSE, todo |-> {},
                target |-> NoTarget, snapshot |-> {}]

\* running is False and the listener's socket closed.
BeginStop(accepted) ==
    /\ phase = "serving"
    /\ accepted \subseteq {t \in Threads : thread[t].pc = "idle"}
    /\ phase' = "saveSeats"
    /\ stop' = [NotStopping EXCEPT !.accepted = accepted]
    /\ UNCHANGED vars

\* Without any section lock: half a sale may be saved, and a seat SOLD whose
\* buyer is still to be committed.  The handler that is caught half way makes up
\* for it before the process ends, unless the process is killed.
StopSavesSeats ==
    /\ phase = "saveSeats"
    /\ SaveAllSeats(seat)
    /\ phase' = "saveSessions"
    /\ UNCHANGED <<seatVars, sessions, lastId, thread, mon, dbSessions,
                   dbPurchased, noticeVars, tickets, logFaults, stop>>

StopSavesSessions ==
    /\ phase = "saveSessions"
    /\ SaveAllSessions
    /\ phase' = "list"
    /\ UNCHANGED <<seatVars, sessions, lastId, thread, mon, dbSeat,
                   dbPurchased, noticeVars, tickets, logFaults, stop>>

-----------------------------------------------------------------------------
(* _release_all_sessions *)

ListActive ==
    /\ phase = "list"
    /\ phase' = "release"
    /\ stop' = [stop EXCEPT
           !.todo = {[user |-> u, id |-> sessions[u].id] :
                         u \in {v \in Users : HasSession(v)}}]
    /\ UNCHANGED vars

\* The seats of the next session are read before the locks are taken.
ReadSeatsToRelease(x) ==
    /\ phase = "release"
    /\ stop.target = NoTarget
    /\ x \in stop.todo
    /\ stop' = [stop EXCEPT !.todo = @ \ {x}, !.target = x,
           !.snapshot = IF OwnsSession(x.user, x.id) THEN Listed(x.user) ELSE {}]
    /\ UNCHANGED <<vars, phase>>

\* Under the table lock and the locks of those seats' sections, if the
\* session is still there.  Nothing is saved.
ReleaseSession ==
    LET u == stop.target.user
        S == {s \in stop.snapshot : seat[s] = "RESERVED"}
    IN  /\ phase = "release"
        /\ stop.target # NoTarget
        /\ TableFree /\ (stop.snapshot = {} \/ SectionsFree)
        /\ IF OwnsSession(u, stop.target.id)
           THEN /\ seat' = SetSeats(S, "AVAILABLE")
                /\ sessions' = RemoveSession(u)
                /\ sem' = ReleaseSlots([sec \in Sections |->
                                            Cardinality(S \cap SeatsOf(sec))])
           ELSE UNCHANGED <<seatVars, sessions>>
        /\ stop' = [stop EXCEPT !.target = NoTarget, !.snapshot = {}]
        /\ UNCHANGED <<lastId, thread, mon, dbVars, noticeVars, tickets,
                       logFaults, phase>>

-----------------------------------------------------------------------------
(* The other threads while the process stops *)

\* An accepted connection's request arrives: its last one.
LastRequest(t) ==
    /\ t \in stop.accepted
    /\ \E u \in Users : Receive(t, u)
    /\ stop' = [stop EXCEPT !.accepted = @ \ {t}]
    /\ UNCHANGED phase

\* The monitor was asleep inside its loop: one sweep more.
LastSweep ==
    /\ ~stop.swept
    /\ Sweep
    /\ stop' = [stop EXCEPT !.swept = TRUE]
    /\ UNCHANGED phase

\* Everything the running server does except beginning something new.
CarryOn ==
    /\ \/ \E t \in Threads : Handle(t)
       \/ mon.pc # "sleep" /\ MonitorNext
       \/ Tick
       \/ \E u \in Subscribers, type \in NotificationType : Deliver(u, type)
       \/ \E job \in tickets.jobs : WriteTicket(job)
    /\ UNCHANGED shutdownVars

\* Everything in memory is lost; the database and the ticket files are not.
ProcessEnds ==
    /\ phase' = "down"
    /\ stop' = NotStopping
    /\ seat' = [s \in Seats |-> "AVAILABLE"]
    /\ sem' = [sec \in Sections |-> Capacity(sec)]
    /\ sessions' = [u \in Users |-> NoSession]
    /\ thread' = [t \in Threads |-> Idle]
    /\ mon' = Asleep
    /\ inbox' = [u \in Subscribers |-> {}]
    /\ sectionFull' = [sec \in Sections |-> FALSE]
    /\ tickets' = [tickets EXCEPT !.counter = 0, !.jobs = {}]
    /\ UNCHANGED <<lastId, dbVars, logFaults>>

StopDone == phase = "release" /\ stop.todo = {} /\ stop.target = NoTarget

\* stop() returns, and the interpreter waits for every request thread; the
\* joins of stop() have a timeout, those of the interpreter have none.
Exit ==
    /\ StopDone
    /\ \A t \in Threads : thread[t].pc = "idle"
    /\ ProcessEnds

StopNext ==
    \/ StopSavesSeats
    \/ StopSavesSessions
    \/ ListActive
    \/ \E x \in stop.todo : ReadSeatsToRelease(x)
    \/ ReleaseSession
    \/ \E t \in Threads : LastRequest(t)
    \/ LastSweep
    \/ CarryOn
    \/ Exit
=============================================================================
