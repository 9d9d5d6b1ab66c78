---------------------------- MODULE DesktopClient ----------------------------
(***************************************************************************)
(* The desktop client: one window, whose slots run one at a time, and the  *)
(* worker threads that ask the server for it.  Workers answer in any       *)
(* order, also after the window has been disconnected, or connected for    *)
(* another user.  The server is what SeatSale promises, with the sessions  *)
(* and the two reads of QUERY_SEAT_MAP.                                    *)
(***************************************************************************)
EXTENDS Naturals, FiniteSets

CONSTANTS
    Users, Nobody, Seats,
    WindowUsers,    \* those who sit at this window, one after the other
    Pollers,        \* bound: poll workers at work at once
    Workers,        \* bound: request workers at work at once
    MaxActions,     \* bound: what people do, and the sessions they make
    MaxFaults       \* bound: answers lost in the network

ASSUME WindowAssumption ==
    /\ Nobody \notin Users /\ WindowUsers \subseteq Users
    /\ Pollers \cap Workers = {} /\ IsFiniteSet(Seats) /\ IsFiniteSet(Workers)
    /\ MaxActions \in Nat /\ MaxFaults \in Nat

VARIABLES
    status,         \* the seats, of SeatSale
    session,        \* the number of each user's session, 0 without one
    object,         \* every session there ever was: the objects live on
    client,         \* whom self.client is for, Nobody when it is None
    panel,          \* ConnectionPanel._connected
    closing,        \* _closing
    inflight,       \* _click_inflight
    own,            \* own_reserved_coords
    ownSold,        \* own_sold_coords
    seatMap,        \* seat_map_snapshot
    tracked,        \* sessions: TrackedSession by session number
    txInput,        \* the session in the input field, 0 for none
    poll,           \* PollWorker threads
    work,           \* ReserveWorker, ConfirmWorker, ... threads
    actions, faults

server  == <<status, session, object>>
links   == <<client, panel, closing>>
picture == <<own, ownSold, seatMap, tracked, txInput>>
window  == <<links, inflight, picture>>
bounds  == <<actions, faults>>
vars == <<server, window, poll, work, bounds>>

Sale == INSTANCE SeatSale

Ids  == 1 .. MaxActions
Cell == {"AVAILABLE", "RESERVED", "SOLD", "OWN_RESERVED", "OWN_SOLD"}
TrackedSession == [state : {"NONE", "ACTIVE", "CONFIRMED", "CANCELLED"},
                   seats : SUBSET Seats]
Untracked == [state |-> "NONE", seats |-> {}]

Poll == [pc : {"idle", "session", "map", "answered", "failed"},
         user : Users \cup {Nobody}, id : Ids \cup {0}, seats : SUBSET Seats,
         bought : SUBSET Seats, cells : [Seats -> Cell]]
Work == [pc : {"idle", "sent", "answered", "hung"}, user : Users \cup {Nobody},
         kind : {"RESERVE", "CONFIRM", "CANCEL", "REMOVE", "REBOOK"},
         id : Ids \cup {0}, seats : SUBSET Seats, gone : SUBSET Seats,
         ok : BOOLEAN]

EmptyMap  == [s \in Seats |-> "AVAILABLE"]
IdlePoll  == [pc |-> "idle", user |-> Nobody, id |-> 0, seats |-> {},
              bought |-> {}, cells |-> EmptyMap]
IdleWork  == [pc |-> "idle", user |-> Nobody, kind |-> "RESERVE", id |-> 0,
              seats |-> {}, gone |-> {}, ok |-> FALSE]

BoughtBy(u) == {s \in Seats : status[s] = Sale!Sold(u)}

Init ==
    /\ Sale!Init
    /\ session = [u \in Users |-> 0]
    /\ object = [i \in Ids |-> [user |-> Nobody, seats |-> {}]]
    /\ client = Nobody /\ panel = FALSE /\ closing = FALSE
    /\ inflight = {} /\ own = {} /\ ownSold = {}
    /\ seatMap = EmptyMap
    /\ tracked = [i \in Ids |-> Untracked]
    /\ txInput = 0
    /\ poll = [p \in Pollers |-> IdlePoll]
    /\ work = [w \in Workers |-> IdleWork]
    /\ actions = 0 /\ faults = 0

-----------------------------------------------------------------------------
(* The server *)

\* Sessions are numbered as they are made; every one has a seat at once.
Listed(i) == object[i].seats
Unused == {i \in Ids : Listed(i) = {}}
SessionFor(u) ==
    IF session[u] # 0 THEN session[u]
    ELSE CHOOSE i \in Unused : \A j \in Unused : i <= j

CanReserve(S) == S # {} /\ \A s \in S : status[s] = Sale!Free

ServerReserves(u, S) ==
    /\ Sale!Reserve(u, S)
    /\ object' = [object EXCEPT ![SessionFor(u)] =
                      [user |-> u, seats |-> @.seats \cup S]]
    /\ session' = [session EXCEPT ![u] = SessionFor(u)]

\* CONFIRM and CANCEL: one's own session, while it is there.
SessionIs(u, id) == id # 0 /\ session[u] = id
EndsSession(u) == session' = [session EXCEPT ![u] = 0] /\ UNCHANGED object

Expire(u) ==
    /\ session[u] # 0
    /\ Sale!GiveUp(u)
    /\ EndsSession(u)
    /\ UNCHANGED <<window, poll, work, bounds>>

\* Somebody at another client.
Elsewhere(u) ==
    /\ actions < MaxActions
    /\ actions' = actions + 1
    /\ \/ \E s \in Seats : Sale!Reserve(u, {s})
       \/ Sale!ReservedBy(u) # {} /\ (Sale!Buy(u) \/ Sale!GiveUp(u))
    /\ UNCHANGED <<session, object, window, poll, work, faults>>

\* What the worker's request does, and whether it is answered with SUCCESS.
Serves(r, ok, id) ==
    CASE r.kind \in {"RESERVE", "REBOOK"} ->
            IF CanReserve(r.seats)
            THEN ok /\ id = SessionFor(r.user) /\ ServerReserves(r.user, r.seats)
            ELSE ~ok /\ id = r.id /\ UNCHANGED server
      [] r.kind = "CONFIRM" /\ SessionIs(r.user, r.id) ->
            ok /\ id = r.id /\ Sale!Buy(r.user) /\ EndsSession(r.user)
      [] r.kind \in {"CANCEL", "REMOVE"} /\ SessionIs(r.user, r.id) ->
            ok /\ id = r.id /\ Sale!GiveUp(r.user) /\ EndsSession(r.user)
      [] OTHER -> ~ok /\ id = r.id /\ UNCHANGED server

Serve(w) ==
    /\ work[w].pc = "sent"
    /\ \E ok \in BOOLEAN, id \in Ids \cup {0} :
           /\ Serves(work[w], ok, id)
           /\ work' = [work EXCEPT ![w].pc = "answered", ![w].ok = ok, ![w].id = id]
    /\ UNCHANGED <<window, poll, bounds>>

\* The request or its answer is lost: an error, or nothing at all, as the
\* worker waits without a timeout.
LoseAnswer(w) ==
    /\ work[w].pc = "sent"
    /\ faults < MaxFaults
    /\ faults' = faults + 1
    /\ \/ UNCHANGED server
       \/ \E ok \in BOOLEAN, id \in Ids \cup {0} : Serves(work[w], ok, id)
    /\ \E pc \in {"answered", "hung"} :
           work' = [work EXCEPT ![w].pc = pc, ![w].ok = FALSE]
    /\ UNCHANGED <<window, poll, actions>>

\* QUERY_SEAT_MAP: the session and the purchases are read first ...
ReadSession(p) ==
    LET u == poll[p].user
        id == session[u]
    IN  /\ poll[p].pc = "session"
        /\ poll' = [poll EXCEPT ![p].pc = "map", ![p].id = id,
                       ![p].seats = IF id = 0 THEN {} ELSE Listed(id),
                       ![p].bought = BoughtBy(u)]
        /\ UNCHANGED <<server, window, work, bounds>>

\* ... the seats under their locks, with what the session object lists by then.
CellOf(s, id, bought) ==
    CASE status[s].state = "RESERVED" /\ id # 0 /\ s \in Listed(id) -> "OWN_RESERVED"
      [] status[s].state = "SOLD" /\ s \in bought -> "OWN_SOLD"
      [] OTHER -> status[s].state

ReadMap(p) ==
    /\ poll[p].pc = "map"
    /\ poll' = [poll EXCEPT ![p].pc = "answered", ![p].bought = {},
           ![p].cells = [s \in Seats |-> CellOf(s, poll[p].id, poll[p].bought)]]
    /\ UNCHANGED <<server, window, work, bounds>>

\* A poll that waits for ever does not keep the timer from starting others.
PollFails(p) ==
    /\ poll[p].pc \in {"session", "map"}
    /\ faults < MaxFaults
    /\ faults' = faults + 1
    /\ \E pc \in {"idle", "failed"} :
           poll' = [poll EXCEPT ![p] = [IdlePoll EXCEPT !.pc = pc]]
    /\ UNCHANGED <<server, window, work, actions>>

-----------------------------------------------------------------------------
(* What the window makes of the answers *)

\* Variant: the early return leaves the highlights.
SyncKeepsOwn(id, seats) ==
    IF id = 0 \/ seats = {}
    THEN UNCHANGED <<own, tracked, txInput>>
    ELSE /\ own' = seats
         /\ tracked' = [tracked EXCEPT ![id].seats = seats,
                ![id].state = IF @ = "NONE" THEN "ACTIVE" ELSE @]
         /\ txInput' = id

\* _sync_user_session
Sync(id, seats) ==
    IF id = 0 \/ seats = {}
    THEN own' = {} /\ UNCHANGED <<tracked, txInput>>
    ELSE /\ own' = seats
         /\ tracked' = [tracked EXCEPT ![id].seats = seats,
                ![id].state = IF @ = "NONE" THEN "ACTIVE" ELSE @]
         /\ txInput' = id

\* _on_poll_success, whoever is connected by now.
ShowPoll(p) ==
    /\ poll[p].pc = "answered"
    /\ poll' = [poll EXCEPT ![p] = IdlePoll]
    /\ IF closing THEN UNCHANGED <<panel, picture>>
       ELSE /\ seatMap' = poll[p].cells
            /\ ownSold' = {s \in Seats : poll[p].cells[s] = "OWN_SOLD"}
            /\ Sync(poll[p].id, poll[p].seats)
            /\ panel' = TRUE
    /\ UNCHANGED <<server, client, closing, inflight, work, bounds>>

\* _on_poll_error
ShowPollError(p) ==
    /\ poll[p].pc = "failed"
    /\ poll' = [poll EXCEPT ![p] = IdlePoll]
    /\ IF closing THEN UNCHANGED <<client, panel>>
       ELSE client' = Nobody /\ panel' = FALSE
    /\ UNCHANGED <<server, closing, inflight, picture, work, bounds>>

\* _track_session, and the seats appended after it.
Track(id, seats) ==
    tracked' = [tracked EXCEPT ![id].state = "ACTIVE",
                               ![id].seats = @ \cup seats]

\* Variant: a click that was refused keeps its mark.
ShowReserveMarked(r) ==
    /\ inflight' = IF r.ok THEN inflight \ r.seats ELSE inflight
    /\ IF r.ok THEN /\ Track(r.id, r.seats)
                    /\ own' = own \cup r.seats
                    /\ txInput' = r.id
       ELSE UNCHANGED <<own, tracked, txInput>>
    /\ UNCHANGED ownSold

\* _on_click_reserve_success, _on_click_reserve_error
ShowReserve(r) ==
    /\ inflight' = inflight \ r.seats
    /\ IF r.ok THEN /\ Track(r.id, r.seats)
                    /\ own' = own \cup r.seats
                    /\ txInput' = r.id
       ELSE UNCHANGED <<own, tracked, txInput>>
    /\ UNCHANGED ownSold

\* Variant: everything highlighted is counted as sold.
ShowConfirmOfAll(r) ==
    /\ IF r.ok /\ tracked[r.id].state # "NONE"
       THEN /\ tracked' = [tracked EXCEPT ![r.id].state = "CONFIRMED"]
            /\ own' = {}
            /\ ownSold' = ownSold \cup own
       ELSE UNCHANGED <<own, ownSold, tracked>>
    /\ UNCHANGED <<inflight, txInput>>

\* _on_confirm_success: a session the window does not know is left alone.
ShowConfirm(r) ==
    /\ IF r.ok /\ tracked[r.id].state # "NONE"
       THEN /\ tracked' = [tracked EXCEPT ![r.id].state = "CONFIRMED"]
            /\ own' = own \ tracked[r.id].seats
            /\ ownSold' = ownSold \cup tracked[r.id].seats
       ELSE UNCHANGED <<own, ownSold, tracked>>
    /\ UNCHANGED <<inflight, txInput>>

MarkCancelled(id) ==
    tracked' = IF tracked[id].state = "NONE" THEN tracked
               ELSE [tracked EXCEPT ![id].state = "CANCELLED"]

\* _on_cancel_success
ShowCancel(r) ==
    /\ IF r.ok THEN MarkCancelled(r.id) /\ own' = own \ tracked[r.id].seats
       ELSE UNCHANGED <<own, tracked>>
    /\ UNCHANGED <<inflight, ownSold, txInput>>

\* _on_remove_seat_cancel_done, _error; r.gone is the seat that is removed, r.seats
\* are those to keep.
ShowRemove(r) ==
    /\ IF r.ok THEN MarkCancelled(r.id) /\ UNCHANGED own
       ELSE tracked' = tracked /\ own' = own \cup r.gone
    /\ UNCHANGED <<inflight, ownSold, txInput>>

\* _on_remove_seat_rebook_done, _error
ShowRebook(r) ==
    /\ IF r.ok THEN /\ Track(r.id, r.seats)
                    /\ own' = own \cup r.seats
                    /\ txInput' = r.id
       ELSE UNCHANGED <<own, tracked, txInput>>
    /\ UNCHANGED <<inflight, ownSold>>

\* After a removal the seats to keep are asked for at once, by whoever is
\* connected by now; without a client the worker dies of it.
Rebooks(r) == ~closing /\ r.kind = "REMOVE" /\ r.ok /\ client # Nobody
Rebook(r) == [r EXCEPT !.pc = "sent", !.kind = "REBOOK", !.user = client,
                       !.id = 0, !.ok = FALSE]

ShowAnswer(w) ==
    LET r == work[w]
    IN  /\ r.pc = "answered"
        /\ work' = [work EXCEPT ![w] = IF Rebooks(r) THEN Rebook(r) ELSE IdleWork]
        /\ IF closing THEN UNCHANGED <<inflight, own, ownSold, tracked, txInput>>
           ELSE \/ r.kind = "RESERVE" /\ ShowReserve(r)
                \/ r.kind = "CONFIRM" /\ ShowConfirm(r)
                \/ r.kind = "CANCEL"  /\ ShowCancel(r)
                \/ r.kind = "REMOVE"  /\ ShowRemove(r)
                \/ r.kind = "REBOOK"  /\ ShowRebook(r)
        /\ UNCHANGED <<server, links, seatMap, poll, bounds>>

-----------------------------------------------------------------------------
(* What people do at the window *)

Acts == ~closing /\ actions < MaxActions /\ actions' = actions + 1

Cleared ==
    /\ inflight' = {} /\ own' = {} /\ ownSold' = {}
    /\ tracked' = [i \in Ids |-> Untracked]

\* _connect_client: everything is cleared, then read again before it returns.
Connect(u) ==
    LET id == session[u]
        cells == [s \in Seats |-> CellOf(s, id, BoughtBy(u))]
    IN  /\ Acts /\ ~panel
        /\ client' = u /\ panel' = TRUE
        /\ inflight' = {}
        /\ seatMap' = cells
        /\ ownSold' = BoughtBy(u)
        /\ own' = IF id = 0 THEN {} ELSE Listed(id)
        /\ tracked' = [i \in Ids |-> IF i = id
                THEN [state |-> "ACTIVE", seats |-> Listed(i)] ELSE Untracked]
        /\ txInput' = IF id = 0 THEN txInput ELSE id
        /\ UNCHANGED <<server, closing, poll, work, faults>>

ConnectFails ==
    /\ ~closing /\ ~panel
    /\ faults < MaxFaults
    /\ faults' = faults + 1
    /\ Cleared
    /\ client' = Nobody
    /\ UNCHANGED <<server, panel, closing, seatMap, txInput, poll, work,
                   actions>>

\* _disconnect_client
Disconnect ==
    /\ Acts /\ panel
    /\ Cleared
    /\ client' = Nobody /\ panel' = FALSE
    /\ seatMap' = EmptyMap
    /\ UNCHANGED <<server, closing, txInput, poll, work, faults>>

\* The timer.
PollTick(p) ==
    /\ ~closing /\ client # Nobody
    /\ poll[p].pc = "idle"
    /\ poll' = [poll EXCEPT ![p] = [IdlePoll EXCEPT !.pc = "session", !.user = client]]
    /\ UNCHANGED <<server, window, work, bounds>>

\* Each request has a thread of its own; the names of threads mean nothing.
NewWorker == CHOOSE w \in Workers : work[w].pc = "idle"

Ask(w, kind, id, S, gone) ==
    /\ Acts /\ client # Nobody
    /\ work[w].pc = "idle" /\ w = NewWorker
    /\ work' = [work EXCEPT ![w] = [pc |-> "sent", user |-> client, kind |-> kind,
                                    id |-> id, seats |-> S, gone |-> gone,
                                    ok |-> FALSE]]
    /\ UNCHANGED <<server, links, ownSold, seatMap, tracked, txInput, poll, faults>>

\* _on_seat_clicked, on a seat that is shown AVAILABLE
Click(w, s) ==
    /\ s \notin inflight /\ seatMap[s] = "AVAILABLE"
    /\ Ask(w, "RESERVE", 0, {s}, {})
    /\ inflight' = inflight \cup {s}
    /\ UNCHANGED own

\* _on_seat_double_clicked: one's own seat is removed by cancelling its whole
\* session, and reserving the others again.
Remove(w, s, id) ==
    /\ seatMap[s] = "OWN_RESERVED"
    /\ tracked[id].state = "ACTIVE" /\ s \in tracked[id].seats
    /\ \/ tracked[id].seats = {s} /\ Ask(w, "CANCEL", id, {}, {}) /\ own' = own
       \/ /\ tracked[id].seats # {s}
          /\ Ask(w, "REMOVE", id, tracked[id].seats \ {s}, {s})
          /\ own' = own \ {s}
    /\ UNCHANGED inflight

\* A seat that is pending: only the mark goes.
Deselect(s) ==
    /\ Acts /\ client # Nobody
    /\ seatMap[s] # "OWN_RESERVED" /\ s \in inflight
    /\ inflight' = inflight \ {s}
    /\ UNCHANGED <<server, links, picture, poll, work, faults>>

\* The buttons act on the session in the input field.
Confirm(w) == txInput # 0 /\ Ask(w, "CONFIRM", txInput, {}, {}) /\ UNCHANGED <<own, inflight>>
Cancel(w)  == txInput # 0 /\ Ask(w, "CANCEL", txInput, {}, {}) /\ UNCHANGED <<own, inflight>>

\* closeEvent: with reservations, a dialog asks first, and the answers that
\* arrive meanwhile are dropped.  The window closed looks the same.
AskToClose ==
    /\ Acts
    /\ closing' = TRUE
    /\ UNCHANGED <<server, client, panel, inflight, picture, poll, work, faults>>

KeepOpen ==
    /\ closing
    /\ \E id \in Ids : tracked[id].state = "ACTIVE"
    /\ closing' = FALSE
    /\ UNCHANGED <<server, client, panel, inflight, picture, poll, work, bounds>>

-----------------------------------------------------------------------------
\* Worker threads, and the slots they call.
Runs ==
    \/ \E p \in Pollers : ReadSession(p) \/ ReadMap(p) \/ ShowPoll(p) \/ ShowPollError(p)
    \/ \E w \in Workers : Serve(w) \/ ShowAnswer(w)

Person ==
    \/ \E u \in WindowUsers : Connect(u)
    \/ ConnectFails
    \/ Disconnect
    \/ \E w \in Workers, s \in Seats : Click(w, s)
    \/ \E w \in Workers, s \in Seats, id \in Ids : Remove(w, s, id)
    \/ \E s \in Seats : Deselect(s)
    \/ \E w \in Workers : Confirm(w) \/ Cancel(w)
    \/ AskToClose
    \/ KeepOpen

Next ==
    \/ Runs
    \/ Person
    \/ \E p \in Pollers : PollTick(p) \/ PollFails(p)
    \/ \E w \in Workers : LoseAnswer(w)
    \/ \E u \in WindowUsers : Expire(u)
    \/ \E u \in Users \ WindowUsers : Elsewhere(u)

Spec == Init /\ [][Next]_vars

\* The threads run, every one, and so does the timer; people may do nothing.
FairSpec ==
    /\ Spec
    /\ \A p \in Pollers : WF_vars(ReadSession(p) \/ ReadMap(p) \/ ShowPoll(p)
                                  \/ ShowPollError(p) \/ PollTick(p))
    /\ \A w \in Workers : WF_vars(Serve(w) \/ ShowAnswer(w))

-----------------------------------------------------------------------------
TypeOK ==
    /\ status \in [Seats -> [state : {"AVAILABLE", "RESERVED", "SOLD"},
                             user : Users \cup {Nobody}]]
    /\ session \in [Users -> Ids \cup {0}]
    /\ object \in [Ids -> [user : Users \cup {Nobody}, seats : SUBSET Seats]]
    /\ client \in WindowUsers \cup {Nobody}
    /\ panel \in BOOLEAN /\ closing \in BOOLEAN
    /\ inflight \subseteq Seats /\ own \subseteq Seats /\ ownSold \subseteq Seats
    /\ seatMap \in [Seats -> Cell]
    /\ tracked \in [Ids -> TrackedSession]
    /\ txInput \in Ids \cup {0}
    /\ poll \in [Pollers -> Poll]
    /\ work \in [Workers -> Work]
    /\ actions \in 0 .. MaxActions /\ faults \in 0 .. MaxFaults

\* A seat shown as bought is bought: whatever answers the window has still to
\* get, in whatever order it gets them, and whoever sits there by then.
SoldShownIsBought ==
    \A s \in ownSold : \E u \in WindowUsers : status[s] = Sale!Sold(u)

\* Once people stop, the window comes to show its user's seats and to keep
\* showing them, although answers may overtake each other.
NewestIsShown ==
    \A u \in WindowUsers :
        <>[](client = u /\ ~closing) =>
            <>[](own = Sale!ReservedBy(u) /\ ownSold = BoughtBy(u))

\* Pending, unless the answer to a click on this seat never comes.
Unsettled == {s \in inflight : \A w \in Workers :
    ~(work[w].pc = "hung" /\ work[w].kind = "RESERVE" /\ s \in work[w].seats)}

\* Once people stop, a seat can be clicked again: the pending mark of its
\* reservation goes, whether the answer is SUCCESS or an error.  Two things
\* may leave a mark: the dialog of closeEvent, which swallows the answers that
\* arrive meanwhile, and an answer that never comes.
ClicksAreSettled == <>[](Unsettled # {}) => <>closing

\* The seats highlighted as one's own have been reserved by the user who is
\* connected, not by the one before.
HighlightsAreOwn ==
    client # Nobody =>
        \A s \in own : \E i \in Ids : object[i].user = client /\ s \in Listed(i)
=============================================================================
