# ConcertSync: a TLA+ model of the reservation server

ConcertSync sells the seats of a concert. One Python process accepts TCP
connections, serves each of them with a thread of its own, keeps the seats in
memory and in an SQLite file, and gives back what a client reserved and did not
confirm within `RESERVATION_TTL` seconds. This directory models that server in
TLA+, from the connections it accepts to its end, with its notifications and its
desktop client, model-checks it with TLC, and proves the main results with TLAPS
for any number of users, threads, seats, sections and connections.

Paths below are relative to the repository (`src/server/...` and so on).

## 1. Inventory

| Component | State | Operations | Correct when |
|---|---|---|---|
| Seat matrix, `shared_resources/seat_matrix.py` | state of each seat: AVAILABLE, RESERVED, SOLD | handlers and monitor read and write `seats` directly | a RESERVED seat has one holder who can still confirm, cancel or lose it; SOLD is final |
| Semaphores, `shared_resources/semaphore_manager.py` | one counting semaphore per section | non-blocking `acquire`, `release`, `release_multiple` | free slots = AVAILABLE seats |
| Session manager, `server/session_manager.py` | user → session (id, list of seats, last activity) | `get_or_create`, `get_by_session_id`, `get_expired`, `get_all_active`, `set_session`, `remove`; `reset_ttl`, `is_expired` | a seat is on one list, once; a live session is not taken away |
| SQLite store, `shared_resources/sqlite_store.py` | tables seat_states, sessions, session_seats, purchased_seats | `save_all_seats`, `save_all_sessions`, `delete_session`, `save_purchased_seat`, loads | what a client was told is in the file; a sale is never there by halves |
| Transactional threads, `server/transactional_thread.py` | one request each | RESERVE, RESERVE_BATCH, RESERVE_SELECTED, CONFIRM, CANCEL, QUERY, QUERY_SEAT_MAP, SUBSCRIBE_NOTIFICATIONS | all seats of a request or none; every request answered |
| Monitor thread, `server/monitor_thread.py` | its position in a sweep | get_expired, `expire_session`, `_check_ttl_warnings` | takes expired sessions only, and everything they hold |
| Notification manager, notifier and ticket threads, `server/notification_manager.py`, `utils/ticket_generator.py` | queue per subscriber, full flag per section, ticket counter, files | `append`, `append_to_all`, subscribe, unsubscribe, `generate_ticket_id`, `generate_ticket` | one ticket per sale; a subscription lasts as long as its connection, its events arrive in order, no socket is leaked |
| Server process, `server/concert_server.py` | all of the above | `start` (`_load_persisted_state`, `_release_orphaned_reserved_seats`), `stop` | a crash or a stop at any moment loses no sale that was saved, no seat, no slot; a stop saves every sale and comes to its end |
| Listener and the life of a connection, `server/listener_thread.py`, `TransactionalThread.run`, `active_threads` | the list of request threads, its lock, the sockets | accept, register, start; recv, judge, handle, answer, close, unregister | every client that sent a request is answered or told; no socket is forgotten; the list is exact |
| Protocol validator, `utils/protocol_validator.py` | none | `validate_request` | passes what the client library makes and nothing a handler cannot work with |
| Locks, `synchronization/*.py` | table lock, a lock per section; the locks inside the shared objects | `table`, `sections`, `table_and_sections` | no deadlock, no thread waits for ever |
| Log, `shared_resources/global_log.py` | a file | `append`, which may raise OSError | a failure leaves the seats consistent |
| Client library, `client/concert_client.py` | a subscription socket | `subscribe_notifications`, `read_notification`; one-shot requests | reads what it was sent |
| Desktop client, `frontend_pyside6/` | what it highlights as reserved and bought, the sessions it tracks, clicks in flight | connect, poll, click, remove, confirm, cancel, close; worker threads that answer later | shows what its user has, whatever order the answers come in |
| Reservation table (legacy), server dashboard, load generators, scripts | none the reservations depend on | | |

How they interact: every request is one `TransactionalThread.run`; it calls the
handlers, which share the matrix, the semaphores, the sessions, the store and the
notification queues with each other and with the monitor, under the locks of
`MutexManager`. The monitor, the notifier and the ticket threads are daemon
threads of the same process. Nothing but the database and the ticket files
outlives the process.

What makes it hard:

* **State read before a lock and used after it.** `handle_reserve` looks the
  session up, then waits for its locks; `expire_session` reads the seats of a
  session, then waits for its locks. The session can be refreshed, confirmed,
  cancelled, expired or replaced in between.
* **A handler with several critical sections.** RESERVE changes memory under one
  set of locks, logs without any, and saves under another set; CONFIRM commits
  to the database once per seat and once more for the matrix.
* **Time.** A TTL can run out while the request that would renew it waits.
* **Partial failure.** A log append may raise between any two of these steps.
* **Connections that stay.** A subscriber's handler, the notifier and the handler
  of a newer subscription of the same user all use, and may close, one socket.
* **Late answers.** The desktop client asks with a thread per request and a poll
  every second; an answer may come after a newer one, or after the window was
  connected for another user.
* **The end of the process.** `stop()` saves and releases what request threads and
  the monitor are still changing, waits for threads that wait for its lock, and the
  interpreter then waits, without a limit, for every thread that is no daemon.
* **Crashes.** Matrix, sessions and purchases are saved by separate
  transactions; a restart has to make one state out of what it finds.
* **Semaphores and seats are two counts of one thing** and are kept in step by
  hand in six places.

The list of hazards, each at its line and with the properties that cover it, is
in `PROJECT.json` under "hazards".

## 2. Modules

    ServerState --> TransactionalThread --> MonitorThread --> ReservationServer
                                                                |      |
    SeatSale --> SessionSale (abstract) <---- refinement -------+      +--> Shutdown --> ConcertServer
                                                                                            |
                 LastingSale (abstract) <---- refinement -----------------------------------+
    ProtocolValidator --> Connections (from accept to close, and the joins of stop)
    LockHierarchy (the same locks, one by one)
    Notifications (subscriptions, with sockets and clients)
    SeatSale --> DesktopClient (a window in front of what SeatSale promises)

    ReservationServerTypes --> ReservationServerProofs --> AgreementProofs --> ConcertServerProofs
    LockHierarchyProofs, NotificationsProofs, ConnectionsProofs, DesktopClientProofs

| Module | Models | Correspondence |
|---|---|---|
| `ServerState` | the shared objects and their methods | `seat` = `SeatMatrix.seats`; `sem` = the semaphores' counters; `sessions` = `SessionManager._sessions`; `dbSeat`, `dbSessions`, `dbPurchased` = the tables; `inbox`, `sectionFull`, `tickets` = notification manager and tickets. One operator per method |
| `TransactionalThread` | the handlers | `thread[t].pc` is where the handler stands between two critical sections or two commits |
| `MonitorThread` | the monitor | `mon.todo` is the list of `get_expired`; `mon.snapshot` is `grouped_seats`, read before the locks |
| `ReservationServer` | the running server | `Next` interleaves all threads and the clock; the properties are here |
| `SeatSale` | what the server promises | a seat is free, reserved by one user or sold to one user; Reserve takes all seats or none; a user's reservations are bought or given up all together |
| `SessionSale` | `SeatSale` with sessions | a user's reservations belong to one session, made before or with them, which ends in the step that ends them; no session number returns. The server's `sessions` and its counter of ids are mapped to it |
| `LastingSale` | what the server promises across failures and restarts | a sale is of reserved seats, to one buyer, and for good; an unsold seat may be RESERVED or free after a restart; a process killed while it stops may leave one sale without its buyer. `lastingStatus` counts a seat as sold once the database does and its buyer is not still to be recorded; `processState` is serving, stopping or down |
| `Shutdown` | `stop()` and what goes on meanwhile | `phase` is where `stop()` stands; `stop.target`, `stop.snapshot` = the session `_release_all_sessions` works on and its seats, read before the locks; `Exit` is the end of the process |
| `ConcertServer` | crash, stop and start | `Crash` clears the memory, in any phase (`ends` counts the lives, so that a kill during `stop()` belongs to the same end); `BeginStop` and `StopNext` are `Shutdown`'s; `Start(rank)` is `_load_persisted_state`, with the rows in any order, and the orphan release |
| `ProtocolValidator` | `validate_request` and the requests of `ConcertClient` | a JSON value is a record tagged with its type, an object a function from its fields; `Valid(data)` is the verdict; one operator per rule, shared by RESERVE and the batches, which repeat it; `Reading(data)` is what the handlers take from a valid request |
| `Connections` | listener, `TransactionalThread.run`, `active_threads`, `cleanup()`, the joins | `thread[c].pc` is where `run` stands, `transferred` = `_socket_transferred`, `active` = `active_threads`, `lock` = who has `active_threads_lock`, `main` = the thread in `stop()` |
| `LockHierarchy` | the locks | each thread asks for a set of locks and takes them in the order of `acquire_section_locks`; the locks inside the store, the session manager, the notification manager, the ticket generator and the log come last |
| `DesktopClient` | the main window, its worker threads, and QUERY_SEAT_MAP | `own`, `ownSold`, `seatMap`, `tracked`, `txInput`, `inflight`, `closing`, `client` = the attributes of `ConcertMainWindow`; `poll`, `work` = the worker threads; the seats are `SeatSale`'s, which `ReservationServer` implements |
| `Notifications` | `handle_subscribe`, the notification manager with its sockets, the notifier, the client's end of a subscription | `subscriber` = `_subscribers`; `queue`, of each connection, = `NotificationSubscriber.queue`; `open` = sockets not closed; `handler[c]`, `notifier.pc` = where the handler of `c` and `NotifierThread.run` stand; `unread` = the socket's buffer; `userOf` = the user each connection will name, of which a run may leave several to choose from (`Callers`) |

### Handlers and actions

| Code | Actions |
|---|---|
| `handle_reserve`, `_do_reserve_batch` (two commands call it) | `RequestReserve` (session looked up without a lock), `ReserveSeats` or `RefuseReserve` (table lock and the sections' locks: the session is looked up again), `SaveSeats` and `SaveSessions` (all section locks, two transactions) |
| the `except` path of `handle_reserve` | `ReserveLogFails`, `Rollback`. A batch, also one of a single seat, which the validator lets pass and the window's `Rebook` sends, has no such path: its `ReserveLogFails` ends the handler with the seats RESERVED and unsaved |
| `handle_confirm` | `ConfirmSession` (tests), for each seat `SellSeat` (SOLD in memory) and `RecordBuyer` (the commit of `save_purchased_seat`, which waits for the store's lock), `CommitSale`, `AnnounceSale`; `SaleLogFails` when an append raises after the sale |
| `handle_cancel` | `CancelSession`, one critical section with one commit |
| `MonitorThread.run` | `Sweep`, then for each session `TakeSnapshot`, `ExpireSession` or `SpareSession`, `AnnounceExpiry` or `ExpiryLogFails`; then `WarnExpiring`, or `WarnLogFails` when the append about a warning raises, which ends the thread as the one about an expiry does |
| `NotifierThread.run`, the ticket thread | `Deliver`, `WriteTicket` |
| `time.time()` | `Tick` |
| `handle_subscribe` | `Subscribe` (`subscribe` under the manager's lock), `QueueSubscribed`, `AnswerSubscribe` or `AnswerFails`, `StartKeepAlive`, `KeepAliveEnds` (with `unsubscribe`); `SubscribeLogFails` when the append in `subscribe` raises |
| `NotifierThread.run`, with sockets | `ListSubscribers`; for each `FindQueue` (under the lock), `GetNotification` (off the queue, then the socket is looked up), `Send`, or `SendFails` and `DropSubscriber` or `DropLogFails` |
| `handle_query_seat_map` | `ReadSession` (session and purchases, before the locks), `ReadMap` (the seats, under them) |
| the window's `_on_...` slots | `ShowPoll`, `ShowPollError`, `ShowAnswer` (one `Show...` operator for each slot; `Rebook` is the second request of a removal) |
| what people do at the window | `Connect`, `ConnectFails`, `Disconnect`, `Click`, `Remove`, `Deselect`, `Confirm`, `Cancel`, `AskToClose`, `KeepOpen`; the timer is `PollTick` |
| `ConcertClient.send_request` | `Serve`, `LoseAnswer` (an error, or a worker that waits in `recv` for ever: `hung`), `PollFails` |
| `subscribe_notifications`, `read_notification` of the client | `ReadAnswer`, `ReadNotifications`, `Leave` |
| `stop()`, towards seats and database | `BeginStop`, `StopSavesSeats`, `StopSavesSessions`, `ListActive`, for each session `ReadSeatsToRelease` and `ReleaseSession`, `Exit`; meanwhile `LastRequest` (accepted connections), `LastSweep` (the monitor was asleep in its loop) and `CarryOn` |
| `stop()`, towards connections | `BeginStop`, `CloseListening`, `Cleanup`, `TakeLock`, `JoinThread`, `ClearThreads`, `Exit` |
| `ListenerThread.run` | `Loop`, `Accept` or `AcceptFails`, `RegisterThread`, `StartThread` or `StartFails`, then `LogStartFailure` or `ListenerDies` |
| `TransactionalThread.run` | `Receive` (`recv` and `validate_request`) or `ReceiveFails`; `Handle` or `HandleFails`; `Send` or `SendFails`; the `except` clauses `LogFailure`, `LogFailureFails`, `SendError`; `KeepAliveEnds` of a subscriber; `Close`; `LookThrough` and `Forget` (`unregister_thread`) |

### Choices that matter

* **One action per critical section.** While a handler has the table lock and
  its sections' locks nobody else can see or change what it works on, except the
  commits it makes: a crash may come between two of them, and the saving phase
  of another handler may read the matrix. Those are the places where handlers
  are cut into several actions. Which locks are taken follows from the program
  counters (`TableFree`, `SectionsFree`); whether taking them one by one can
  deadlock is the question of `LockHierarchy`.
* **A saving phase and a sale keep all section locks**, which is what the code
  takes there. A reserve in its first critical section keeps only its own, but is
  one action, so it needs no program counter of its own.
* **`TakeSnapshot` is one step**, although the monitor reads a list another
  thread may be appending to. A seat appended after the read is a seat the
  snapshot misses, which is also what a snapshot taken just before the append
  misses.
* **A seat is sold in two steps**, as `stop()`, which takes no section lock, may save
  the matrix between them: the file then has a SOLD seat whose buyer is not there yet.
  `recording` is the seat in between. The seats a RESERVE, a CANCEL or an expiry changes
  are changed in one step: the same save may catch one of these half way, and then writes
  some of the seats as they were before and some as they are after. That makes no
  difference a property could see: the handler still saves the whole matrix, or was to
  save nothing, and a restart after a kill treats such rows seat by seat: it drops a seat
  from a restored session when the file has it AVAILABLE, and gives back a RESERVED one
  that no session lists. No SOLD seat is concerned.
* **Session lists are multisets** (`seats[s]` counts how often `s` is listed):
  CANCEL releases one slot for each entry, and after a rollback a seat may be
  entered twice. The order of a list is never used.
* **Time is an age in ticks**, capped at `TTL + 1`, the first expired age.
* **`delete_session` leaves its rows in place.** It executes DELETE statements
  and closes the connection without a commit; Python's sqlite3 opens a
  transaction before a DELETE and closing rolls it back.
* **Notifications** are looked at twice. For the reservation threads, which only
  enqueue, a subscriber's queue is a set of types and the set of subscribers is
  fixed; `Notifications` has the queues as sequences, with sockets and
  subscriptions that come and go, and lets events arrive at any time.
* **A socket** holds what its client has not read. `recv` returns any prefix of
  it, `sendall` waits for room or raises, and a closed socket makes the server's
  next call on it raise (at the latest when its timeout is over). A client that has
  gone may still be sent to for a while without an error. `Leave` is a client that closes
  its connection. A machine that goes away without a word is a client that reads no more:
  `recv` only times out and the keep-alive goes on (`transactional_thread.py:681`), until
  TCP gives up sending and reports an error, which is when `Leave` happens, if ever.
* **`stop()` is modelled twice**, as its two halves touch different state: its
  saves and releases against the handlers' critical sections in `Shutdown`, its lock
  and joins against whole connections in `Connections`, where a handler is one step.
  In `Shutdown` the joins have no action: they only take time, and what ends the
  process is that every request thread has ended.
* **`StopSavesSeats` takes no section lock**, as the code does, so it may write a sale
  by halves. The handler it caught records its buyers and saves the whole matrix before
  it ends, and the interpreter waits for it, unless the process is killed. That `stop()`
  itself fails to log is left out: what it logs comes after its work.
* **A request is chosen when it is read**, not when it is sent, and one `recv` may
  return a part of it (`Garbage`). A socket that is closed while another thread
  waits in `recv` on it wakes that thread at the latest when its 600 seconds are
  over, which fairness stands for.
* **The window's slots run one at a time**, as Qt queues signals from other threads to
  the window's. `Connect` reads the seat map in one step, as nothing else happens in the
  window meanwhile (one that is never answered hangs the window, and nothing follows);
  each poll reads it in two. A window that is asked whether to close and one that is
  closed look the same: the answers that arrive are dropped.
* **Data.** Seats, users and sections are model values; a session id is the
  number of its creation (uuid4 never repeats); the text of answers, log lines and
  tickets is left out.
* Definitions whose comment says *Variant* are not part of the model: they are
  plausible mistakes, each of which makes one of the properties fail in its run,
  and show that the property depends on the code it is about.

## 3. Runs

Passing runs:

| Run | Instance | Shows |
|---|---|---|
| `safety` | 2 users, 2 threads, 2 seats of one section, TTL 1, 3 session ids, a writable tickets directory | the ownership of seats, the semaphores, memory against database, one ticket per sale when two CONFIRMs race; all of it implements `SessionSale` |
| `faults` | 2 users, 1 thread, 1 seat, 3 session ids, 1 subscriber, 1 failing log append, `FairSpec` | no slot is lost and no sale undone, rollback included; reservations end unless the failure ended the monitor; notifications and warnings are exercised |
| `liveness` | 1 user, 2 threads, 2 seats, 3 session ids, requests for one seat, `FairSpec` | requests are answered and reservations end, although two requests compete for the locks and refresh the session |
| `restarts` | 2 users, 1 thread, 2 seats, 3 session ids, requests for one seat; the process is killed, or stopped and perhaps killed while it stops, and started again | both lives together implement `LastingSale`; saved sales are final, a stop saves every sale, no RESERVED seat without a session and no slot lost after a start |
| `notifications` | 2 connections, of one user or of two, 2 events, 1 failing log append, `FairSpec` | sockets and subscriptions match, events in order, a subscriber that does not read holds up the others no longer than its timeout, connections that their clients closed are closed |
| `desktop` | 1 user at the window, 1 elsewhere, 2 seats, 2 request workers, 1 poll worker, 4 actions, 1 lost answer (an error, or none at all), `FairSpec` | what is shown as bought is bought; a seat that is being reserved can be clicked again some day; once people stop, the window shows its user's seats for good |
| `connections` | 2 connections, about 45 requests, a section of 2 seats, batches of 2 at most, 1 thread that cannot be started, 1 failing log append, `FairConnSpec` | requests are judged right; clients are answered or told; sockets have owners and the list of threads is exact; `stop()` returns, and only a client that sent nothing keeps the process alive |
| `locks` | 2 threads, 3 sections, every lock, `FairSpec` | the hierarchy, no circular wait, every critical section asked for is entered |

Runs that end in a counterexample, each against a statement of the repository:

| Run | Statement | What the code does |
|---|---|---|
| `log_fault_slots` | semaphore = available seats (`tests/concurrent_tests.py`) | the rollback of RESERVE leaves the seat on the session's list; reserved again it is listed twice and released twice |
| `late_answer` | no stale highlights of a previous user (`frontend_pyside6/main_window.py`) | a reservation answered after the window was connected for another user is highlighted as that user's |
| `resubscribe` | the old socket "is closed and replaced by the new one" (`server/notification_manager.py`) | the keep-alive of the old connection then ends and unsubscribes the user: the new connection is closed |
| `restart_owners` | restored users see their own reservations (`server/concert_server.py`) | rows of ended sessions are still there and are restored over seats others have reserved since |

More disagreements need no run, as reading the code shows them:

* The full flag of a section is computed only after a release, when the section
  is not full, so the seat availability alerts of the repository's `README.md`
  are never sent (`server/transactional_thread.py:122`).
* The ticket counter starts again with every process and names the files, so a
  ticket issued after a restart overwrites an earlier one
  (`server/notification_manager.py:68`).
* At a start the slots of expired sessions are released onto semaphores that are
  still full, and their seats no longer count as taken: the section has more slots
  than AVAILABLE seats (`server/concert_server.py:145`, against the comment at
  line 98). `restarts` checks `NoSlotIsLost`, the other direction, which holds.
* `expire_session` releases the seats it listed before it waited for its locks, but
  removes the whole session; if the wait outlasts a TTL, seats that joined
  meanwhile stay RESERVED with no session (`server/monitor_thread.py:77`). With
  `MaxLockWait = 2` in `restarts.cfg`, `ServedSeatsAreListed` fails.
* `stop()` saves the reservations before it releases them in memory, so that the
  file is "self-consistent on restart" (`server/concert_server.py:364`). A handler or
  a monitor that is caught by `stop()` saves after the release: its matrix, where the
  seats are AVAILABLE, over the saved one, and its sessions, which are gone. The
  reservations are lost with the restart, or seats stay RESERVED in the file without
  a row; the orphan release of the next start repairs the latter
  (`ServedSeatsAreListed`), and no sale is affected (`StopSavesEverySale`).
* That save may also catch a CONFIRM between the SOLD seat in memory and its buyer's
  commit (`server/transactional_thread.py:413`, `:414`), as `stop()` has no section
  lock. If the process is killed before the handler goes on, the file has a sale
  with no buyer, or with the one of an earlier CONFIRM that a kill has cut off, and a
  next start keeps it so. `LastingSale` allows it by the name of
  `EndWithinSale`; without that step `ImplementsLastingSale` fails in `restarts`.
* A RESERVE that was rolled back leaves the seat on its session's list
  (`server/transactional_thread.py:219`). If another user reserves the seat next, the
  first one's CONFIRM finds it RESERVED and buys it
  (`server/transactional_thread.py:401`). `SoldOnlyToHolder` asks that the buyer's
  list names the seat, which it then does, so that it is an ownership property only
  together with `SeatHeldExactlyOnce`, in `safety`; `faults` does not list it.
* A batch whose log append fails keeps its seats RESERVED, in memory only, and its
  client is told of an internal error (`server/transactional_thread.py:322`): they end
  with the session.
* The client of a subscription whose machine goes away in silence stays subscribed
  (`server/transactional_thread.py:681`, where a timeout only continues) until more is
  queued for it than its socket takes. `GoneClientsAreClosed` is about clients that
  close their connection.
* `send_request` sets a timeout for the connection but none for the answer
  (`client/concert_client.py:97`): if one never comes the worker waits for ever and its
  click stays pending, the exception of `ClicksAreSettled`.
* A repeated CONFIRM of a confirmed session, or CANCEL of a cancelled one, is
  answered with TRANSACTION_NOT_FOUND (`server/transactional_thread.py:387`, `:480`),
  as the session has been removed; `docs/manual-tecnico.md`, section 5, says SUCCESS.
* A thread that cannot be started stays in `active_threads` and its socket open, and
  if the log line about it fails the listener ends while the server runs on
  (`server/listener_thread.py:20`, `:32`). `ClientsAreHeard` and `SocketsHaveOwners`
  name these as their only exceptions.
* After `stop()` the process lives on for as long as a client that connected before
  keeps its connection open without sending anything
  (`server/transactional_thread.py:42`).
* The answer to a click that arrives while the window asks whether to close is
  dropped with the end of its pending mark (`frontend_pyside6/main_window.py:1334`):
  after Cancel the seat cannot be clicked until the next connect, or until a double
  click deselects it.
* No session of the desktop client ever becomes EXPIRED
  (`frontend_pyside6/models/tracked_session.py:20`).

### Bounds and why they are enough

* Two users, two threads and the monitor, in `safety`: every race in the hazard list is
  between two requests, or between a request and the monitor. The theorems
  below hold for any number.
* The runs that add something to these have less of the rest, as each ends within five
  minutes. `faults` and `restarts` have one thread, so that two users follow each other
  at any step of the monitor, of `stop()` and of the restart, but not of
  each other's requests: `SoldIsFinal`, `NoSlotIsLost` and `ImplementsLastingSale` are
  proved for any number of threads. `liveness` has one user, whose two requests
  wait for the same locks and whose sessions replace one another; two
  users do not fit, and what two users add, a refused request, one gets by asking for a
  seat it has already.
* Two seats of one section show all-or-nothing batches, partly sold sessions and
  lists that grow under the monitor's eyes; two sections show that counts are
  kept per section. `MaxBatch = 2` allows a request for both.
* `TTL = 1`: ages 0 (fresh), 1 (still alive), 2 (expired) are told apart, and a
  session can be refreshed at its last moment.
* `MaxLockWait` bounds the ticks `expire_session` may wait for its locks: 1,
  which is a wait no longer than the TTL. Critical sections take
  milliseconds and `RESERVATION_TTL` is counted in seconds, so a wait within the
  TTL is the normal case; the code does not enforce it.
* `MaxSessions` bounds the session ids issued: 3 allow a session to end and be
  replaced while a stale id is still around. The bound keeps an id for each RESERVE
  that still waits for its locks (`RequestReserve`), so that no request in progress waits
  for the bound. With 3, two RESERVEs of one user may wait at once; those of two users may
  not, while a RESERVE that waits or saves may meet anything else of the other user.
  What is missed is that both users look their sessions up before either reserves: the look
  touches the user's own session only. The theorems have no such bound.
* `MaxLogFaults`: one failing append. It is 0 in `safety`, because
  `log_fault_slots` shows that the semaphore invariant does not survive one;
  `faults` checks what does survive.
* In `notifications` two connections of one user show every way a subscription is
  replaced; two connections of two users show a client that does not read beside one
  that does. The behaviours of the run begin with either. `Buffer = 1` makes a socket
  full after one notification; two events can be in the wrong order. Deadlock is
  not checked: connections and events are bounded, and with the notifier ended
  by a failing append nothing is left to do.
* In `desktop` four actions are enough to connect, reserve two seats and remove one, or
  to confirm and reserve again before the answer; the number of sessions is bounded by
  the same constant. Each poll worker stands for any number of polls one after the
  other, so that a poll overtakes every kind of answer; with two of them (and no fault)
  the same properties hold, in a run too long to keep. `late_answer` has five actions
  and two users who sit at the window in turn. Deadlock is not checked: a closed window
  with idle workers has nothing left to do.
* `MaxEnds = 1` in `restarts`: the process ends once, and the life after a start runs
  into any of its states. A kill during `stop()` is part of the end it belongs to. With
  one thread nothing but the release of a session waits for a CONFIRM that `stop()` has
  caught. Further ends, and several requests caught by one, are covered by the theorems,
  which have no such bounds. `MaxBatch = 1` there and in `liveness`: a session lists two
  seats after two requests.
* In `connections` one client sends any request the library makes or one with
  something changed, left out or added, the other a reservation or a subscription; two
  threads are enough for each to change the list while the other goes through it,
  with the listener and `stop()` besides. Deadlock is not checked: a process that has
  ended does nothing more.
* `MaxNests = 1` in `locks`: one operation of a shared object inside each outer
  critical section, and any number outside.
* A thread that has answered is idle and takes the next request, so the number
  of requests in a behaviour is unbounded.
* Symmetry (users, threads, seats of one section) is used in runs of safety
  properties only, never where liveness is checked.

### Fairness

`FairSpec` assumes: strong fairness for a thread that waits for locks, i.e. that a
lock released again and again is at last given to each waiter (CPython's
`threading.Lock` does not promise it, but waiters are woken by the operating
system in practice); weak fairness for a thread that has what it needs, the
monitor included, as they are ordinary running threads; weak fairness for the
clock. Clients owe nothing: requests may arrive for ever or never, and refresh a
session again and again. `ReservationsEnd` holds even so because a session is
refreshed only by taking further seats, of which there are finitely many, and an
expired one is caught by the monitor.
`LockHierarchy` assumes the same of its locks, and that critical sections end.
`Notifications` assumes weak fairness of the server's threads only: a client may
stop reading for good. `NotificationsAreTaken` then depends on the 600 seconds
`handle_subscribe` sets on the socket, which bound the notifier's `sendall` too.
`Connections` assumes weak fairness of every request thread, of the listener and of
`stop()` once it has begun; weak fairness is enough for the lock of the list, since each
connection asks for it twice and no more. Nothing is assumed of clients: one may
connect and never send.
`ReservationsEndWithMonitor` uses the fairness of `ReservationsEnd`, in runs where
an append fails.
`DesktopClient` assumes weak fairness of the workers, the slots they call and the
timer; people may stop at any moment, and `NewestIsShown` and `ClicksAreSettled` are
about what follows.

## 4. Proofs

For all values of the constants (finitely many seats, and finitely many users in
`ConcertServer` and workers in `DesktopClient`; a positive TTL; in `Connections`,
requests that are JSON, and no blank names or session ids):

| Theorem | Module | Assumes | Statement |
|---|---|---|---|
| `TypeCorrect` | `ReservationServerTypes` | | `Spec => []TypeOK` |
| `SoldSeatsStaySold` | `ReservationServerProofs` | | `SoldIsFinal` |
| `SeatsAreSoldToTheirHolder` | `ReservationServerProofs` | | `SoldOnlyToHolder` |
| `LiveSessionsAreSpared` | `ReservationServerProofs` | | `MonitorSparesLiveSessions` |
| `SeatsHaveOneHolder` | `ReservationServerProofs` | no log append fails; `MaxLockWait <= TTL` | `[]SeatHeldExactlyOnce` |
| `SlotsMatchSeats` | `AgreementProofs` | no log append fails | `[]SemaphoreMatchesAvailable` |
| `CapacityIsKept` | `AgreementProofs` | | `[]NoSlotIsLost` |
| `SalesAreSavedTogether` | `AgreementProofs` | | `[]SalesAreSavedWhole` |
| `SeatsGetSaved`, `ReservationsGetSaved` | `AgreementProofs` | no log append fails | `[]SeatsAreSaved`, `[]ReservationsAreSaved` |
| `TicketsMatchSales` | `AgreementProofs` | | `[]OneTicketPerSale` |
| `ServerImplementsSessionSale` | `AgreementProofs` | no log append fails; `MaxLockWait <= TTL` | `ImplementsSessionSale`: the server implements `SessionSale` |
| `ServerImplementsSeatSale` | `AgreementProofs` | the same | its consequence: the server implements `SeatSale` |
| `ServerTypeCorrect` | `ConcertServerProofs` | | `[]ServerTypeOK`, through crashes, stops and starts, like all of this module |
| `SalesAreSaved` | `ConcertServerProofs` | | `[]SoldSeatsAreSaved` |
| `SavedSalesAreFinal` | `ConcertServerProofs` | | `SavedSaleIsFinal` |
| `StopSavesAllSales` | `ConcertServerProofs` | | `StopSavesEverySale` |
| `CapacityIsKeptAcrossRestarts` | `ConcertServerProofs` | | `[]NoSlotIsLost` |
| `ServerImplementsLastingSale` | `ConcertServerProofs` | | `ImplementsLastingSale`: with every fault and every end of the process, the server implements `LastingSale` |
| `ServedSeatsStayListed` | `ConcertServerProofs` | `MaxLockWait <= TTL` | `[]ServedSeatsAreListed` |
| `LockHierarchyRespected`, `LocksNeverDeadlock` | `LockHierarchyProofs` | | no thread waits below a lock it has; no circular wait among any threads |
| `LockingGoesOn`, `LocksAreExclusive` | `LockHierarchyProofs` | | while a thread waits, some thread can take a lock it asks for or release one (`SomebodyGoesOn`); a lock has one owner |
| `SocketsAreNotLeaked` | `NotificationsProofs` | | `[]SocketsMatchSubscriptions`, whatever the notifier, the handlers and the clients do |
| `EventsStayInOrder` | `NotificationsProofs` | | `[]EventsInOrder`, for any number of events and connections |
| `RegistryStaysExact`, `OpenSocketsHaveOwners` | `ConnectionsProofs` | | `[]RegistryIsExact`, `[]SocketsHaveOwners`, whatever fails and whatever clients send |
| `LibraryRequestsAreAccepted`, `RequestsAreJudged` | `ConnectionsProofs` | | `validate_request` passes every request the client library makes, for any venue and limits; `[]RequestsAreJudgedRight`: whatever else it passes is a query, or reads like one of these |
| `SoldShownHasBeenBought` | `DesktopClientProofs` | | `[]SoldShownIsBought`, for any number of users at the window, workers and polls, and answers that never come |

Every invariant, action property and refinement the passing runs check is one of
these; what is left to TLC alone is listed below.

### The two assumptions

*No log append fails* (`MaxLogFaults = 0`). When an append raises, the rollback of
RESERVE makes the seats AVAILABLE again and leaves them on the session's list
(`log_fault_slots`). From then on a list may name a seat that is free, or that
another user has reserved: the seat has two holders, CANCEL gives back more slots
than it frees, and a seat changes hands without a step of `SeatSale` that allows it.
The rollback saves nothing either, so that the database is behind. Theorems about
sales, buyers, tickets and lost slots do not need the assumption; that a seat which is
sold was on the buyer's list (`SeatsAreSoldToTheirHolder`) does not either, but it says
that the buyer held the seat only where no other list names it, under the assumption.

*`MaxLockWait <= TTL`*: `expire_session` gets its locks within a TTL. Otherwise the
session it listed can be refreshed and expire once more while it waits, and the seats
that joined meanwhile stay RESERVED (the remark on `expire_session` in section 3).

### The running server

The argument has three layers, each an inductive invariant on top of the one
below, so that each theorem rests on no more than it needs:

1. `SaleInv`. A thread in CONFIRM between its tests and its commit is alone: no
   other thread sells or saves, what it has still to sell is listed by its
   user's session and not yet sold, and the one seat whose buyer it has still to record
   is SOLD and listed (`SaleRecords`). From it follow the action properties about
   sold seats, with every fault and any wait of the monitor.
2. `MonitorInv`. Session ids are issued once: what the monitor remembers bears an
   id no later session has. Again with every fault.
3. Two invariants, side by side, about what that means for seats:
   * `ReachInv` (lock waits within the TTL, any fault). Every RESERVED seat is on a
     list. The monitor's snapshot is still the session's whole list if the session is
     still expired: a session that grew was refreshed, and cannot have expired again
     within the wait. `ReservedSeatsAreListed` needs this at `ExpireSession`, and it is
     not inductive without the age of the session related to `mon.wait`.
   * `HeldInv` (no log faults, any wait). What a session lists is held, once, by it
     alone. Without the rollback, seats enter a list exactly when they become
     RESERVED and leave it when they are given back or sold.

   Together they are `SeatHeldExactlyOnce`.

`AgreementProofs` relates the two to everything that is counted or stored twice:

* `SemaphoreMatchesAvailable` needs `HeldInv`: the slots CANCEL releases, one per
  entry of a list, are as many as the seats it frees because no seat is listed twice.
  `NoSlotIsLost`, with faults, needs only that no operation makes more seats AVAILABLE
  than it releases slots.
* `SeatsAreSaved` and `ReservationsAreSaved` go by the handlers that have something
  still to save. A saving phase has all section locks, and it writes all the seats
  or all the sessions: whoever saves, saves for everybody. `SalesAreSavedWhole` adds
  `SavedSoldIsSold`: the file is never ahead of the memory.
* `OneTicketPerSale`: an id leaves `sessions` with the sale, and neither returns nor is
  sold a second time, as the second CONFIRM finds no session (`SaleOfSession`); until
  its ticket is numbered only the selling thread has it (`SoldApart`).
* The refinement maps a seat on somebody's list to "reserved by them", even while a
  CONFIRM has sold it and has still to sell the others; any other SOLD seat to "sold to
  its buyer"; the rest to free. `HeldInv` makes the holder unique, so that the mapping
  is a function of the lists (`StatusIsKnown`), and `ReachInv` makes the rest free. Then
  the first critical section of RESERVE is `Sale!Reserve`, `CommitSale` is `Sale!Buy`,
  CANCEL and `ExpireSession` are `Sale!GiveUp`, and every other step leaves the seats alone.
* With sessions the same steps are `Sale!ReserveIn` and `Sale!End`; the look at the
  sessions before the locks and a request that is refused, which may both make a session
  and no reservation, are `Sale!Open`. That `CommitSale` ends the session whose seats were
  sold, and not one its user has made since, needs `SaleOfSession`. `SessionSale` implies
  `SeatSale`, so that the older theorem follows without a second look at the actions.

### Across the ends of the process

`ConcertServerProofs` takes the same steps as steps of a process that may be killed,
stopped or started between any two of them (`StepKinds`). `ServerInv` adds to `SaleInv`
that memory is empty while the process is down, that while it is up every saved sale is
a sale in memory (`MemoryKnowsSales`), and that a sale in memory is saved unless a
CONFIRM is at work on it (`SoldSeatsAreSaved`); all of it survives a start, which loads
the saved matrix and makes seats of ended reservations AVAILABLE, but no SOLD one. It
also holds in every phase of `stop()`, whose save of the seats, without locks, may be in
the middle of a sale. `SavedSaleIsFinal` lets the buyer of a saved sale change in one
case, while he is still being recorded. `ServedInv` adds `MonitorInv`, rows with issued
ids only (`RowsAreOld`), and `ReachInv` while the server serves: start() releases every
RESERVED seat no restored session lists, which establishes `ReservedSeatsAreListed`
whatever the database held. `HeldInv` is not to be had here: rows of ended sessions are
restored, and a seat then has two holders (`restart_owners`). That is why
`SeatHeldExactlyOnce` and the refinement of `SessionSale` are proved of one life of the
process, and not of several.

What the server promises across its lives is `LastingSale`, and that needs no
assumption. A seat counts as sold there when its SOLD state is in the database and its
buyer is not still being recorded, so that
a CONFIRM killed half way has sold nothing: each save of the matrix turns all the seats
that are SOLD in memory only into one `Lasting!Buy`. They are one buyer's because of
`UnsavedSalesAreOfTheSeller`: they are the seats the one thread in CONFIRM has dealt with,
and their rows in purchased_seats name its user, all but the one in `Recording`. If
`stop()` saves that one, it becomes sold later, with its buyer: `RecordBuyer` is then a
`Lasting!Buy` of its own. A kill in between is `Lasting!EndWithinSale`, of one seat as no
more than one is being recorded (`RecordingIsOne`), and only while stopping, as in a
running server nobody saves the matrix beside a CONFIRM (`SalesAreSavedWhole`, which
`LastingInv` has for that phase). `SeatsGoOneWay` says, action by
action, that the steps of a running server move a section's seats in one direction at a
time, so that each is one `Lasting!Reserve` or `Lasting!GiveUp` or leaves the unsold
seats alone; that they take none of a lasting sale is `MemoryKnowsSales`. The beginning
of a stop is `Lasting!Stop`, any other kill and the exit are `Lasting!End`, a start is
`Lasting!Start`: they leave what is sold alone. The releases and saves
of `stop()` are steps like those of the other threads.

### The other components

The lock theorems use that every lock has a rank, that a thread waits only above
what it has, and that among threads in a circle the one with the highest rank held
waits for nobody in it. From no circle among the waiting threads follows that some
waiting thread waits for none of the others (`WaitingEnds`): the owner of its lock waits
for nothing and can release the highest lock it has (`FirstAndLast`), or the lock is free.
`LocksAreExclusive` is what entitles the other modules to one action per critical section.

`SocketsMatchSubscriptions` is inductive once `NotifierBusy` is added
(`SocketInv`): while the notifier works for a user there is one, so that its
unsubscribe removes an entry and closes that entry's socket in one step. Only a
handler that has ended can leave a closed socket registered, which is why the
invariant excepts those.

`EventsInOrder` is inductive part by part (`EventInv`): unread events are older than the
one in the notifier's hands, which is older than the queued ones (`StreamsInOrder`), and
no number is in any of them that was not given (`EventsAreOld`). The difficulty is a
notifier that still works on the queue of a connection that has been replaced:
`unread` is then another connection's, and what it holds is older than whatever the
new queue has, because a queue is new when its connection is
(`FreshConnections`). The lemmas about sequences (`OrderedConcat`, `EventsOfRest` and
others) are stated once.

`RegistryIsExact` and `SocketsHaveOwners` are proved together (`ConnInv`). The list
is exact only because `unregister_thread` has the lock while it goes through the
list: `LockInv` says that what a thread in between `LookThrough` and `Forget` will
put in place of the list is still the list without it, which needs that nobody else
registers, unregisters or clears meanwhile. The sockets need `TransferInv`: one given
to the notification manager is registered there or closed, so that `Close`, which
spares it, leaves nothing open; and `ListenerInv`: until a connection is entered in
the list nobody else knows it. The type invariant `ConnTypeOK` is part of what is
proved and is not listed in the run.

`RequestsAreJudged` is about what arrives, any JSON value (`RequestsAssumption`). A
request that passes need not be one of the library's, as the validator ignores fields it
does not know. What it cannot do is to make a handler work on something else: `Reading`
is what the handlers take from a request, and for each action the proof gives the
request of the library with the same reading. That one has a name, from one to
`SeatLimit` different seats of the venue, or a session id, all of which were conditions
of the validator.

`SoldShownIsBought` needs all that the window may believe to be true (`WindowInv`): a
session it tracks lists at least the seats tracked (`TrackedIsListed`); what a poll or
an answer carries was read from the server and what was bought then still is
(`PollsAreTrue`, `AnswersAreTrue`), because a session that is over does not come back.
`NumbersSuffice` says the session numbers do not run out: each session made or about
to be made is paid for by one action of a person, so the bound of the model on
numbers keeps no request from being served.

### Model-checked only

* Everything under fairness, which the prover has no rules for: `RequestsAreAnswered`,
  `ReservationsEnd`, `ReservationsEndWithMonitor`, `LocksAreGranted`,
  `NotificationsAreTaken`, `GoneClientsAreClosed`, `NewestIsShown`, `ClicksAreSettled`,
  `ClientsAreHeard`, `StopReturns`, `OnlySilentClientsHoldTheProcess`.
* The disagreements of section 3.

## 5. Not modelled

* The counts of QUERY, one read under all section locks. QUERY_SEAT_MAP is in
  `DesktopClient`.
* Errors inside SQLite, which the store logs and swallows.
* The texts of answers and `validate_response`; that an answer longer than the send
  buffer may be cut off by `send`.
* The reservation table, the old `expire_reservation` wrapper and
  `_cleanup_stale_reservations`, which nothing fills or calls.
* What a client makes of the notifications it has received.
* In `DesktopClient`, the session without seats that a refused request may leave
  (`Sale!Open`): a poll treats it like none.
* The desktop client's widgets, activity log and database reset; the dashboard and
  the load generator: they keep no state the server depends on.

## 6. Plan

Done, in this order: `ServerState`, `TransactionalThread`, `MonitorThread`,
`ReservationServer`; the type proof; the ownership proof; `SeatSale`;
`ConcertServer`; `LockHierarchy` and its proof; the semaphore proof;
`Notifications` and its proof; `DesktopClient`; `Shutdown`, composed with
`ConcertServer`; `ProtocolValidator` and `Connections` with its proof; liveness with a
failing append; the pending marks of the window; the proofs of memory against
database, of tickets and of the refinement (`AgreementProofs`), of the ends of the
process (`ConcertServerProofs`), of the order of events, and of the window;
`SessionSale` and `LastingSale` with the proofs that the server implements them; the
proofs of the validator and of progress over locks.

Next:

1. `DesktopClient` in front of `SessionSale` itself, sessions without seats included, so
   that the window is checked against all that `ServerImplementsSessionSale` allows.
2. `StoreErrors`: a save that fails and is swallowed, a load that fails and looks
   empty; what a client told SUCCESS can rely on.
3. Answers to repeated CONFIRM and CANCEL as a run of their own.
4. What a client makes of several notifications in one `recv`.
