--------------------------- MODULE MonitorThread ---------------------------
(***************************************************************************)
(* The daemon thread that reclaims expired sessions.  Each second it asks  *)
(* the session manager for the expired sessions and expires them one by    *)
(* one.  expire_session reads the seats of the session before it has any   *)
(* lock, waits for the table lock and the locks of those seats' sections,  *)
(* and looks at the session again once it has them.                        *)
(***************************************************************************)
EXTENDS TransactionalThread

MonitorPc == {"sleep", "sweep", "expire", "notify", "dead"}

\* todo: sessions get_expired found, as user and id; target: the one being
\* expired; snapshot: the seats read without a lock; wait: ticks since then.
Target   == [user : Users \cup {Nobody}, id : Nat]
NoTarget == [user |-> Nobody, id |-> 0]
Monitor  == [pc : MonitorPc, todo : SUBSET Target, target : Target,
             snapshot : SUBSET Seats, wait : 0 .. MaxLockWait]
Asleep   == [pc |-> "sleep", todo |-> {}, target |-> NoTarget,
             snapshot |-> {}, wait |-> 0]

Expired == {u \in Users : HasSession(u) /\ IsExpired(sessions[u])}

\* get_expired.
Sweep ==
    /\ mon.pc = "sleep"
    /\ mon' = [mon EXCEPT !.pc = "sweep",
           !.todo = {[user |-> u, id |-> sessions[u].id] : u \in Expired}]
    /\ UNCHANGED <<seatVars, sessions, lastId, thread, dbVars, noticeVars,
                   tickets, logFaults>>

\* expire_session is called; a session that has gone since has no seats left
\* to look at (its locks are taken and left again without any effect).
TakeSnapshot(x) ==
    /\ mon.pc = "sweep"
    /\ x \in mon.todo
    /\ mon' = [mon EXCEPT !.pc = "expire", !.todo = @ \ {x}, !.target = x,
           !.snapshot = IF OwnsSession(x.user, x.id) THEN Listed(x.user) ELSE {}]
    /\ UNCHANGED <<seatVars, sessions, lastId, thread, dbVars, noticeVars,
                   tickets, logFaults>>

\* Variant: no locks.
MonitorNeedsNoLocks == TRUE

\* table_and_sections(the sections of the snapshot).
MonitorHasLocks == TableFree /\ (mon.snapshot = {} \/ SectionsFree)

\* Variant: no second look at the session's age once the locks are taken.
ReclaimableUnchecked(x) == OwnsSession(x.user, x.id)

Reclaimable(x) == OwnsSession(x.user, x.id) /\ IsExpired(sessions[x.user])

\* The session is still there and still expired: the RESERVED seats of the
\* snapshot are released and the session removed.
ExpireSession ==
    LET u == mon.target.user
        S == {s \in mon.snapshot : seat[s] = "RESERVED"}
        freed == SetSeats(S, "AVAILABLE")
        released == [sec \in Sections |-> Cardinality(S \cap SeatsOf(sec))]
    IN  /\ mon.pc = "expire"
        /\ MonitorHasLocks
        /\ Reclaimable(mon.target)
        /\ seat' = freed
        /\ sessions' = RemoveSession(u)
        /\ DeleteSession(u)
        /\ SaveAllSeats(freed)
        /\ sem' = ReleaseSlots(released)
        /\ NotifyAvailability(freed, {sec \in Sections : released[sec] > 0})
        /\ mon' = [mon EXCEPT !.pc = "notify", !.snapshot = {}, !.wait = 0]
        /\ UNCHANGED <<lastId, thread, dbPurchased, tickets, logFaults>>

\* It has been confirmed, cancelled or refreshed meanwhile.
SpareSession ==
    /\ mon.pc = "expire"
    /\ MonitorHasLocks
    /\ ~Reclaimable(mon.target)
    /\ mon' = [mon EXCEPT !.pc = "sweep", !.target = NoTarget,
                          !.snapshot = {}, !.wait = 0]
    /\ UNCHANGED <<seatVars, sessions, lastId, thread, dbVars, noticeVars,
                   tickets, logFaults>>

\* Without locks: the EXPIRED notification, then the log lines.
AnnounceExpiry ==
    /\ mon.pc = "notify"
    /\ inbox' = Enqueue(inbox, {mon.target.user}, "EXPIRED")
    /\ mon' = [mon EXCEPT !.pc = "sweep", !.target = NoTarget]
    /\ UNCHANGED <<seatVars, sessions, lastId, thread, dbVars, sectionFull,
                   tickets, logFaults>>

\* A log append raises out of run(), which has no handler: the thread ends.
ExpiryLogFails ==
    /\ mon.pc = "notify"
    /\ logFaults < MaxLogFaults
    /\ logFaults' = logFaults + 1
    /\ inbox' = Enqueue(inbox, {mon.target.user}, "EXPIRED")
    /\ mon' = [Asleep EXCEPT !.pc = "dead"]
    /\ UNCHANGED <<seatVars, sessions, lastId, thread, dbVars, sectionFull,
                   tickets>>

\* get_all_subscribers, of whom those are warned whose session ends soon.
Warned == {u \in Subscribers :
              HasSession(u) /\ TTL - sessions[u].age \in 1 .. WarningTicks}

\* _check_ttl_warnings, once every expired session has been dealt with.
WarnExpiring ==
    /\ mon.pc = "sweep"
    /\ mon.todo = {}
    /\ inbox' = Enqueue(inbox, Warned, "TTL_WARNING")
    /\ mon' = Asleep
    /\ UNCHANGED <<seatVars, sessions, lastId, thread, dbVars, sectionFull,
                   tickets, logFaults>>

\* The append about one of the warnings raises: those before it and that one
\* have been queued, and the thread ends.
WarnLogFails(W) ==
    /\ mon.pc = "sweep"
    /\ mon.todo = {}
    /\ W # {} /\ W \subseteq Warned
    /\ logFaults < MaxLogFaults
    /\ logFaults' = logFaults + 1
    /\ inbox' = Enqueue(inbox, W, "TTL_WARNING")
    /\ mon' = [Asleep EXCEPT !.pc = "dead"]
    /\ UNCHANGED <<seatVars, sessions, lastId, thread, dbVars, sectionFull,
                   tickets>>

MonitorNext ==
    \/ Sweep
    \/ \E x \in mon.todo : TakeSnapshot(x)
    \/ ExpireSession
    \/ SpareSession
    \/ AnnounceExpiry
    \/ ExpiryLogFails
    \/ WarnExpiring
    \/ \E W \in SUBSET Subscribers : WarnLogFails(W)
=============================================================================
