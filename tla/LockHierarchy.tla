--------------------------- MODULE LockHierarchy ---------------------------
(***************************************************************************)
(* The locks of the server, taken one after the other: the table lock and  *)
(* the section locks by MutexManager, and, inside them or alone, the locks *)
(* with which the shared objects protect themselves.  The handlers are     *)
(* reduced to the locks they ask for.                                      *)
(***************************************************************************)
EXTENDS Integers, FiniteSets

CONSTANTS
    Threads,        \* request threads, monitor, notifier and ticket threads
    Sections,       \* the Section enum ...
    SectionValue,   \* ... and the value of each member, which orders them
    MaxValue,       \* the largest value
    MaxNests        \* bound: inner critical sections within an outer one

Inner == {"store", "session", "notification", "tickets", "counter", "log"}
Lock  == {"table"} \cup Sections \cup Inner

ASSUME SectionsAssumption ==
    /\ Sections \cap ({"table"} \cup Inner) = {}
    /\ MaxValue \in Nat
    /\ SectionValue \in [Sections -> 0 .. MaxValue]
    /\ \A a, b \in Sections : SectionValue[a] = SectionValue[b] => a = b
ASSUME NestsAssumption == MaxNests \in Nat

VARIABLES
    want,           \* the locks each thread is still to acquire
    held,           \* the locks it has
    nests           \* inner critical sections it has begun

vars == <<want, held, nests>>

\* The table lock first, the sections by value, the objects' own locks last:
\* the store reads the sessions and writes to the log under its lock, and so
\* does the ticket generator write to the log.
Rank(l) ==
    CASE l = "table"    -> 0
      [] l \in Sections -> 1 + SectionValue[l]
      [] l = "store"    -> MaxValue + 2
      [] l = "log"      -> MaxValue + 4
      [] OTHER          -> MaxValue + 3

\* The inner critical sections of the code, by the locks they take.
InnerSections ==
    {{l} : l \in Inner} \cup
    {{"store", "session"}, {"store", "log"}, {"tickets", "log"}}

Free(l) == \A t \in Threads : l \notin held[t]

-----------------------------------------------------------------------------
Init ==
    /\ want  = [t \in Threads |-> {}]
    /\ held  = [t \in Threads |-> {}]
    /\ nests = [t \in Threads |-> 0]

Ask(t, L) == want' = [want EXCEPT ![t] = L] /\ UNCHANGED held

\* table_and_sections(S), or sections(S).
Enter(t, S, withTable) ==
    /\ want[t] = {} /\ held[t] = {}
    /\ Ask(t, IF withTable THEN S \cup {"table"} ELSE S)
    /\ nests' = [nests EXCEPT ![t] = 0]

\* Variant: an outer critical section that goes on for ever.
EnterInnerAgain(t, L) ==
    /\ want[t] = {} /\ held[t] \cap Inner = {}
    /\ Ask(t, L)
    /\ UNCHANGED nests

\* An operation of a shared object, by a thread that is in none already.
EnterInner(t, L) ==
    /\ want[t] = {} /\ held[t] \cap Inner = {}
    /\ nests[t] < MaxNests \/ held[t] = {}
    /\ Ask(t, L)
    /\ nests' = [nests EXCEPT ![t] = IF held[t] = {} THEN 0 ELSE @ + 1]

\* Variant: the section locks are taken in the order of the request.
InAnyOrder(t, l) == l \in want[t]

\* sort_sections, below the table lock.
NextLock(t, l) == l \in want[t] /\ \A k \in want[t] : Rank(l) <= Rank(k)

Acquire(t, l) ==
    /\ NextLock(t, l)
    /\ Free(l)
    /\ want' = [want EXCEPT ![t] = @ \ {l}]
    /\ held' = [held EXCEPT ![t] = @ \cup {l}]
    /\ UNCHANGED nests

\* In reverse order, once the body is done.
Release(t, l) ==
    /\ want[t] = {}
    /\ l \in held[t] /\ \A k \in held[t] : Rank(k) <= Rank(l)
    /\ held' = [held EXCEPT ![t] = @ \ {l}]
    /\ UNCHANGED <<want, nests>>

Next == \E t \in Threads :
    \/ \E S \in SUBSET Sections, withTable \in BOOLEAN : Enter(t, S, withTable)
    \/ \E L \in InnerSections : EnterInner(t, L)
    \/ \E l \in Lock : Acquire(t, l)
    \/ \E l \in Lock : Release(t, l)

\* A lock is not refused for ever to a thread that finds it free again and
\* again; the body of a critical section ends.
Fairness == \A t \in Threads :
    /\ SF_vars(\E l \in Lock : Acquire(t, l))
    /\ WF_vars(\E l \in Lock : Release(t, l))

Spec == Init /\ [][Next]_vars
FairSpec == Spec /\ Fairness

-----------------------------------------------------------------------------
TypeOK ==
    /\ want \in [Threads -> SUBSET Lock]
    /\ held \in [Threads -> SUBSET Lock]
    /\ nests \in [Threads -> Nat]

MutualExclusion ==
    \A t, u \in Threads : t # u => held[t] \cap held[u] = {}

\* No thread waits for a lock that comes before, or level with, one it holds.
HierarchyRespected ==
    \A t \in Threads : \A k \in held[t], l \in want[t] : Rank(k) < Rank(l)

\* t cannot go on before u has released a lock.
WaitsFor(t, u) == \E l \in held[u] : NextLock(t, l)

\* No deadlock: no threads all wait for one another, whichever handlers they
\* run, and however many of them there are.
NoCircularWait ==
    \A T \in SUBSET Threads : T # {} =>
        \E t \in T : \A u \in T : ~WaitsFor(t, u)

\* Every critical section that is asked for is entered.
LocksAreGranted == \A t \in Threads : want[t] # {} ~> want[t] = {}
=============================================================================
