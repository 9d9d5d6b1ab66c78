------------------------ MODULE LockHierarchyProofs ------------------------
(***************************************************************************)
(* The lock hierarchy is respected, and so no deadlock can arise, for any  *)
(* number of threads, sections and nested critical sections.               *)
(***************************************************************************)
EXTENDS LockHierarchy, TLAPS, WellFoundedInduction

\* The locks a thread is still to take come one after the other.
WantedInOrder ==
    \A t \in Threads : \A k, l \in want[t] : Rank(k) = Rank(l) => k = l

LockInv == TypeOK /\ WantedInOrder /\ HierarchyRespected

\* Ranks are numbers; the sections come after the table lock, each at its own
\* place, and before the objects' own locks.
LEMMA RankFacts ==
    /\ \A l \in Lock : Rank(l) \in 0 .. MaxValue + 4
    /\ Rank("table") = 0
    /\ \A l \in Sections : Rank(l) \in 1 .. MaxValue + 1
    /\ \A l \in Inner : Rank(l) > MaxValue + 1
    /\ \A k, l \in Sections : Rank(k) = Rank(l) => k = l
<1>1. Rank("table") = 0
  BY SectionsAssumption DEF Rank
<1>2. ASSUME NEW l \in Sections
      PROVE  Rank(l) = 1 + SectionValue[l] /\ SectionValue[l] \in 0 .. MaxValue
  <2>1. l # "table"
    BY SectionsAssumption
  <2>2. QED
    BY <2>1, SectionsAssumption DEF Rank, Inner
<1>3. ASSUME NEW l \in Inner
      PROVE  Rank(l) \in MaxValue + 2 .. MaxValue + 4
  <2>1. l # "table" /\ l \notin Sections
    BY SectionsAssumption DEF Inner
  <2>2. QED
    BY <2>1, SectionsAssumption DEF Rank, Inner
<1>4. \A l \in Sections : Rank(l) \in 1 .. MaxValue + 1
  BY <1>2, SectionsAssumption
<1>5. \A k, l \in Sections : Rank(k) = Rank(l) => k = l
  BY <1>2, SectionsAssumption
<1>6. \A l \in Inner : Rank(l) > MaxValue + 1
  BY <1>3, SectionsAssumption
<1>7. \A l \in Lock : Rank(l) \in 0 .. MaxValue + 4
  BY <1>1, <1>3, <1>4, SectionsAssumption DEF Lock
<1>8. QED
  BY <1>1, <1>4, <1>5, <1>6, <1>7

\* No inner critical section takes two locks of the same rank.
LEMMA InnerSectionsInOrder ==
    \A L \in InnerSections :
        /\ L \subseteq Inner
        /\ \A k, l \in L : Rank(k) = Rank(l) => k = l
<1>1. /\ Rank("store") = MaxValue + 2 /\ Rank("session") = MaxValue + 3
      /\ Rank("tickets") = MaxValue + 3 /\ Rank("log") = MaxValue + 4
  BY SectionsAssumption DEF Rank, Inner
<1>2. QED
  BY <1>1, SectionsAssumption DEF InnerSections, Inner

LEMMA LockInvHolds == Spec => []LockInv
<1>1. Init => LockInv
  BY DEF Init, LockInv, TypeOK, WantedInOrder, HierarchyRespected
<1>2. LockInv /\ [Next]_vars => LockInv'
  <2> SUFFICES ASSUME LockInv, [Next]_vars PROVE LockInv'
    OBVIOUS
  <2>1. ASSUME NEW t \in Threads, NEW S \in SUBSET Sections,
               NEW withTable \in BOOLEAN, Enter(t, S, withTable)
        PROVE  LockInv'
    <3> DEFINE L == IF withTable THEN S \cup {"table"} ELSE S
    <3>1. L \subseteq Lock /\ \A k, l \in L : Rank(k) = Rank(l) => k = l
      BY RankFacts, SectionsAssumption DEF Lock
    <3>2. want' = [want EXCEPT ![t] = L] /\ held' = held /\ held[t] = {}
          /\ nests' = [nests EXCEPT ![t] = 0]
      BY <2>1 DEF Enter, Ask
    <3> HIDE DEF L
    <3>3. QED
      BY <3>1, <3>2 DEF LockInv, TypeOK, WantedInOrder, HierarchyRespected
  <2>2. ASSUME NEW t \in Threads, NEW L \in InnerSections, EnterInner(t, L)
        PROVE  LockInv'
    <3>1. L \subseteq Lock /\ \A k, l \in L : Rank(k) = Rank(l) => k = l
      BY InnerSectionsInOrder DEF Lock
    <3>2. want' = [want EXCEPT ![t] = L] /\ held' = held
      BY <2>2 DEF EnterInner, Ask
    <3>3. nests' \in [Threads -> Nat]
      BY <2>2 DEF EnterInner, LockInv, TypeOK
    <3>4. \A k \in held[t], l \in L : Rank(k) < Rank(l)
      <4>1. \A k \in held[t] : Rank(k) \in 0 .. MaxValue + 1
        BY <2>2, RankFacts, SectionsAssumption
           DEF EnterInner, Lock, LockInv, TypeOK
      <4>2. \A l \in L : Rank(l) \in 0 .. MaxValue + 4 /\ Rank(l) > MaxValue + 1
        <5>1. L \subseteq Inner /\ Inner \subseteq Lock
          BY InnerSectionsInOrder DEF Lock
        <5>2. QED
          BY <5>1, RankFacts
      <4>3. QED
        BY <4>1, <4>2, SectionsAssumption
    <3>5. QED
      BY <3>1, <3>2, <3>3, <3>4 DEF LockInv, TypeOK, WantedInOrder, HierarchyRespected
  <2>3. ASSUME NEW t \in Threads, NEW l \in Lock, Acquire(t, l)
        PROVE  LockInv'
    <3>1. /\ want' = [want EXCEPT ![t] = @ \ {l}]
          /\ held' = [held EXCEPT ![t] = @ \cup {l}]
          /\ nests' = nests
      BY <2>3 DEF Acquire
    <3>2. \A k \in want[t] \ {l} : Rank(l) < Rank(k)
      <4>1. l \in want[t] /\ \A k \in want[t] : Rank(l) <= Rank(k)
        BY <2>3 DEF Acquire, NextLock
      <4>2. \A k \in want[t] : Rank(k) \in Int
        BY RankFacts DEF LockInv, TypeOK
      <4>3. QED
        BY <4>1, <4>2 DEF LockInv, WantedInOrder
    <3>3. QED
      BY <3>1, <3>2 DEF LockInv, TypeOK, WantedInOrder, HierarchyRespected
  <2>4. ASSUME NEW t \in Threads, NEW l \in Lock, Release(t, l)
        PROVE  LockInv'
    BY <2>4 DEF Release, LockInv, TypeOK, WantedInOrder,
                HierarchyRespected
  <2>5. CASE UNCHANGED vars
    BY <2>5 DEF vars, LockInv, TypeOK, WantedInOrder, HierarchyRespected
  <2>6. QED
    BY <2>1, <2>2, <2>3, <2>4, <2>5 DEF Next
<1>3. QED
  BY <1>1, <1>2, PTL DEF Spec

\* A thread that holds a lock only ever waits for a lock further down the
\* hierarchy, whatever the sections of its request and their order in it.
THEOREM LockHierarchyRespected == Spec => []HierarchyRespected
<1>1. LockInv => HierarchyRespected
  BY DEF LockInv
<1>2. QED
  BY <1>1, LockInvHolds, PTL

\* Of any locks, one comes first and one comes last.
LEMMA FirstAndLast ==
    ASSUME NEW L \in SUBSET Lock, L # {}
    PROVE  /\ \E l \in L : \A k \in L : Rank(l) <= Rank(k)
           /\ \E l \in L : \A k \in L : Rank(k) <= Rank(l)
<1> DEFINE top == MaxValue + 4
           Ranks == {Rank(l) : l \in L}
           Heights == {top - Rank(l) : l \in L}
<1>1. \A l \in L : Rank(l) \in Nat /\ top - Rank(l) \in Nat
  BY RankFacts, SectionsAssumption
<1>2. ASSUME NEW S \in SUBSET Nat, S # {}
      PROVE  \E m \in S : \A n \in S : m <= n
  <2>1. PICK m \in S : \A n \in S : ~ (<<n, m>> \in OpToRel(<, Nat))
    BY <1>2, NatLessThanWellFounded, WFMin
  <2>2. ASSUME NEW n \in S, n < m PROVE FALSE
    BY <1>2, <2>1, <2>2 DEF OpToRel
  <2>3. QED
    BY <1>2, <2>2
<1>3. /\ Ranks \in SUBSET Nat /\ Ranks # {}
      /\ Heights \in SUBSET Nat /\ Heights # {}
  BY <1>1
<1>4. PICK a \in L : \A k \in L : Rank(a) <= Rank(k)
  <2>1. PICK m \in Ranks : \A n \in Ranks : m <= n
    BY <1>2, <1>3
  <2>2. QED
    BY <2>1
<1>5. PICK z \in L : \A k \in L : top - Rank(z) <= top - Rank(k)
  <2>1. PICK m \in Heights : \A n \in Heights : m <= n
    BY <1>2, <1>3
  <2>2. QED
    BY <2>1
<1>6. top \in Nat
  BY SectionsAssumption
<1>7. \A k \in L : Rank(k) <= Rank(z)
  BY <1>1, <1>5, <1>6
<1>8. QED
  BY <1>4, <1>7

\* The hierarchy excludes deadlock: among threads that all wait for one of
\* them, the one that waits for the lock furthest down would wait for a thread
\* that waits for a lock further down still.
LEMMA HierarchyExcludesDeadlock == LockInv => NoCircularWait
<1> SUFFICES ASSUME LockInv, NEW T \in SUBSET Threads, T # {},
                    \A t \in T : \E u \in T : WaitsFor(t, u)
             PROVE  FALSE
  BY DEF NoCircularWait
<1> DEFINE Awaited == {l \in Lock : \E t \in T, u \in T : l \in held[u] /\ NextLock(t, l)}
<1>1. Awaited # {} /\ Awaited \in SUBSET Lock
  BY DEF LockInv, TypeOK, WaitsFor
<1>2. PICK l \in Awaited : \A k \in Awaited : Rank(k) <= Rank(l)
  BY <1>1, FirstAndLast
<1>3. PICK u \in T : l \in held[u]
  OBVIOUS
<1>4. PICK k \in Lock : k \in Awaited /\ NextLock(u, k)
  BY DEF LockInv, TypeOK, WaitsFor
<1>5. Rank(l) < Rank(k)
  BY <1>3, <1>4 DEF LockInv, TypeOK, HierarchyRespected, NextLock
<1>6. Rank(k) <= Rank(l) /\ Rank(k) \in Int /\ Rank(l) \in Int
  BY <1>2, <1>4, RankFacts
<1>7. QED
  BY <1>5, <1>6

\* No set of threads, of whatever size, ever waits for one another.
THEOREM LocksNeverDeadlock == Spec => []NoCircularWait
  BY LockInvHolds, HierarchyExcludesDeadlock, PTL

\* Not everybody waits: as long as a thread waits for a lock, there is one that
\* can take its next lock, or leave the critical section it is in.
SomebodyGoesOn ==
    (\E t \in Threads : want[t] # {}) =>
        \E t \in Threads, l \in Lock :
            \/ NextLock(t, l) /\ Free(l)
            \/ want[t] = {} /\ l \in held[t] /\ \A k \in held[t] : Rank(k) <= Rank(l)

LEMMA WaitingEnds == LockInv => SomebodyGoesOn
<1> SUFFICES ASSUME LockInv, \E t \in Threads : want[t] # {}
             PROVE  \E t \in Threads, l \in Lock :
                        \/ NextLock(t, l) /\ Free(l)
                        \/ /\ want[t] = {} /\ l \in held[t]
                           /\ \A k \in held[t] : Rank(k) <= Rank(l)
  BY DEF SomebodyGoesOn
<1> DEFINE Waiting == {t \in Threads : want[t] # {}}
<1>1. PICK t \in Waiting : \A u \in Waiting : ~WaitsFor(t, u)
  BY HierarchyExcludesDeadlock DEF NoCircularWait
<1>2. want[t] \in SUBSET Lock
  BY DEF LockInv, TypeOK
<1>3. PICK l \in Lock : NextLock(t, l)
  BY <1>2, FirstAndLast DEF NextLock
<1>4. CASE Free(l)
  BY <1>3, <1>4
<1>5. CASE ~Free(l)
  <2>1. PICK u \in Threads : l \in held[u]
    BY <1>5 DEF Free
  <2>2. want[u] = {}
    BY <1>1, <1>3, <2>1 DEF WaitsFor
  <2>3. held[u] \in SUBSET Lock /\ held[u] # {}
    BY <2>1 DEF LockInv, TypeOK
  <2>4. PICK m \in held[u] : \A k \in held[u] : Rank(k) <= Rank(m)
    BY <2>3, FirstAndLast
  <2>5. QED
    BY <2>2, <2>3, <2>4
<1>6. QED
  BY <1>4, <1>5

\* As long as a thread waits for a lock, some thread can take a lock it waits
\* for, or release one: the server never comes to a stand over its locks.
THEOREM LockingGoesOn == Spec => []SomebodyGoesOn
  BY LockInvHolds, WaitingEnds, PTL

\* A lock has one owner: what a critical section reads and writes under its
\* locks is its own until it leaves.
THEOREM LocksAreExclusive == Spec => []MutualExclusion
<1>1. Init => MutualExclusion
  BY DEF Init, MutualExclusion
<1>2. LockInv /\ MutualExclusion /\ [Next]_vars => MutualExclusion'
  <2> SUFFICES ASSUME LockInv, MutualExclusion, [Next]_vars PROVE MutualExclusion'
    OBVIOUS
  <2>1. ASSUME NEW t \in Threads, NEW l \in Lock, Acquire(t, l)
        PROVE  MutualExclusion'
    BY <2>1 DEF Acquire, Free, MutualExclusion, LockInv, TypeOK
  <2>2. ASSUME NEW t \in Threads, NEW l \in Lock, Release(t, l)
        PROVE  MutualExclusion'
    BY <2>2 DEF Release, MutualExclusion, LockInv, TypeOK
  <2>3. CASE held' = held
    BY <2>3 DEF MutualExclusion
  <2>4. QED
    BY <2>1, <2>2, <2>3 DEF Next, Enter, EnterInner, Ask, vars
<1>3. QED
  BY <1>1, <1>2, LockInvHolds, PTL DEF Spec
=============================================================================
