---------------------------- MODULE SrwLockProofs ----------------------------
(***************************************************************************)
(* For any number of threads that the 16-bit fields can count: the word of *)
(* an SRW lock counts its holders and exclusive waiters, holders exclude   *)
(* each other, and the lock implements RwLock.                             *)
(*                                                                         *)
(* Mutual exclusion alone is not inductive: GrabExclusive looks at owners, *)
(* GrabShared at exclusive_waiters, so both fields must be known to count  *)
(* what they stand for, and each field can only be decremented because of  *)
(* a thread that it counts.  LockInv is these facts together.  Every step  *)
(* of a thread is shown to be one of four moves between the sets counted,  *)
(* or none (StepMoves); the moves keep LockInv and are steps of RwLock.    *)
(*                                                                         *)
(* No sleeper is forgotten: WakeInv adds to LockInv where sleepers are,    *)
(* in a queue or on a list of threads to be alerted, and that a thread on  *)
(* its way to sleep saw the lock taken.                                    *)
(***************************************************************************)
EXTENDS SrwLock, QueueLemmas, FiniteSetTheorems

Writers == Holders("exclusive")
Readers == Holders("shared")

\* The part of TypeOK about the lock and the threads' places in the code
LockTypeOK ==
  /\ exclusive_waiters \in Nat
  /\ owners \in Nat
  /\ pc \in [Threads -> Pc]
  /\ mode \in [Threads -> {"exclusive", "shared"}]

LockInv == LockTypeOK /\ WordCounts /\ MutualExclusion

\* The moves: what a step of t does to the word and to the sets it counts
Wants(t) ==
  /\ t \notin Writers \union Readers \union Contenders
  /\ Contenders' = Contenders \union {t}
  /\ Writers' = Writers /\ Readers' = Readers
  /\ owners' = owners
  /\ exclusive_waiters' = exclusive_waiters + 2

TakesExclusive(t) ==
  /\ Writers = {} /\ Readers = {}
  /\ Contenders' = Contenders \ {t}
  /\ Writers' = {t} /\ Readers' = {}
  /\ owners' = 1
  /\ exclusive_waiters' = exclusive_waiters + 1 - (IF t \in Contenders THEN 2 ELSE 0)

TakesShared(t) ==
  /\ Writers = {} /\ Contenders = {} /\ t \notin Readers
  /\ Contenders' = {} /\ Writers' = {}
  /\ Readers' = Readers \union {t}
  /\ owners' = owners + 1
  /\ exclusive_waiters' = exclusive_waiters

LeavesExclusive(t) ==
  /\ Writers = {t} /\ Readers = {}
  /\ Contenders' = Contenders
  /\ Writers' = {} /\ Readers' = {}
  /\ owners' = 0
  /\ exclusive_waiters' = exclusive_waiters - 1

LeavesShared(t) ==
  /\ t \in Readers
  /\ Contenders' = Contenders
  /\ Writers' = Writers /\ Readers' = Readers \ {t}
  /\ owners' = owners - 1
  /\ exclusive_waiters' = exclusive_waiters

Stays ==
  /\ Contenders' = Contenders /\ Writers' = Writers /\ Readers' = Readers
  /\ UNCHANGED lockVars

Moves(t) ==
  \/ Wants(t) \/ TakesExclusive(t) \/ TakesShared(t)
  \/ LeavesExclusive(t) \/ LeavesShared(t) \/ Stays

-------------------------------------------------------------------------------
\* Sets of threads are finite.
LEMMA FiniteSubset ==
  ASSUME NEW A \in SUBSET Threads
  PROVE  /\ IsFiniteSet(A) /\ Cardinality(A) \in Nat
         /\ Cardinality(A) <= Cardinality(Threads)
BY FS_Subset, FS_CardinalityType, ThreadsAssumption

\* The sets the word counts are sets of threads.
LEMMA SetsOfThreads ==
  Writers \in SUBSET Threads /\ Readers \in SUBSET Threads /\ Contenders \in SUBSET Threads
BY DEF Writers, Readers, Holders, Contenders

\* The sets the word counts are finite.
LEMMA SetsFinite ==
  /\ IsFiniteSet(Writers) /\ IsFiniteSet(Readers) /\ IsFiniteSet(Contenders)
  /\ Cardinality(Writers) \in Nat /\ Cardinality(Readers) \in Nat
  /\ Cardinality(Contenders) \in Nat
BY SetsOfThreads, FiniteSubset

\* What the fields say when they are 0, and what bit 0 says
LEMMA WordSays ==
  ASSUME LockInv
  PROVE  /\ owners = 0 => Writers = {} /\ Readers = {}
         /\ exclusive_waiters = 0 => Writers = {} /\ Contenders = {}
         /\ Writers = {} => ~ HeldExclusive
         /\ \A t \in Writers : Writers = {t} /\ Readers = {} /\ HeldExclusive
<1>0. /\ owners = Cardinality(Writers) + Cardinality(Readers)
      /\ exclusive_waiters = 2 * Cardinality(Contenders) + Cardinality(Writers)
  BY DEF LockInv, WordCounts, Writers, Readers
<1>1. owners = 0 => Writers = {} /\ Readers = {}
  <2>1. owners = 0 => Cardinality(Writers) = 0 /\ Cardinality(Readers) = 0
    BY <1>0, SetsFinite
  <2> QED
    BY <2>1, SetsFinite, FS_EmptySet
<1>2. exclusive_waiters = 0 => Writers = {} /\ Contenders = {}
  <2>1. exclusive_waiters = 0 => Cardinality(Writers) = 0 /\ Cardinality(Contenders) = 0
    BY <1>0, SetsFinite
  <2> QED
    BY <2>1, SetsFinite, FS_EmptySet
<1>3. Writers = {} => ~ HeldExclusive
  <2>1. Writers = {} => Cardinality(Writers) = 0
    BY FS_EmptySet
  <2> QED
    BY <2>1, <1>0, SetsFinite DEF HeldExclusive
<1>4. ASSUME NEW t \in Writers
      PROVE  Writers = {t} /\ Readers = {} /\ HeldExclusive
  <2>1. Writers \union Readers = {t} /\ Writers \intersect Readers = {}
    BY DEF LockInv, MutualExclusion, Writers, Readers, Holders
  <2>2. Writers = {t} /\ Readers = {}
    BY <2>1
  <2>3. Cardinality(Writers) = 1
    BY <2>2, FS_Singleton
  <2>4. HeldExclusive
    BY <2>3, <1>0, SetsFinite DEF HeldExclusive
  <2> QED
    BY <2>2, <2>4
<1> QED
  BY <1>1, <1>2, <1>3, <1>4

\* Where a thread's next place in the code puts it
LEMMA Placed ==
  ASSUME LockTypeOK, NEW t \in Threads, NEW l \in Pc, NEW m \in {"exclusive", "shared"},
         pc' = [pc EXCEPT ![t] = l], mode' = [mode EXCEPT ![t] = m]
  PROVE  /\ pc' \in [Threads -> Pc] /\ mode' \in [Threads -> {"exclusive", "shared"}]
         /\ Writers' = IF l = "held" /\ m = "exclusive" THEN Writers \union {t} ELSE Writers \ {t}
         /\ Readers' = IF l = "held" /\ m = "shared" THEN Readers \union {t} ELSE Readers \ {t}
         /\ Contenders' = IF l \in {"loop", "compare", "sleep", "leave"} /\ m = "exclusive"
                          THEN Contenders \union {t} ELSE Contenders \ {t}
BY DEF LockTypeOK, Writers, Readers, Holders, Contenders

\* A step that takes t from one place to another in the same set, or in none
LEMMA StaysPut ==
  ASSUME LockTypeOK, NEW t \in Threads, NEW l \in Pc, UNCHANGED <<lockVars, mode>>,
         pc' = [pc EXCEPT ![t] = l],
         \/ pc[t] \in {"loop", "compare", "sleep", "leave"} /\ l \in {"loop", "compare", "sleep", "leave"}
         \/ /\ pc[t] \in {"idle", "wake_single", "wake_all", "alert"}
            /\ l \in {"idle", "wake_single", "wake_all", "alert"}
  PROVE  Stays
BY DEF LockTypeOK, Stays, Writers, Readers, Holders, Contenders, lockVars, Pc

\* Every step of a thread is a move.
LEMMA StepMoves ==
  ASSUME LockInv, NEW t \in Threads, Acquire(t) \/ Release(t) \/ Call(t) \/ Stray(t)
  PROVE  /\ Moves(t)
         /\ pc' \in [Threads -> Pc]
         /\ mode' \in [Threads -> {"exclusive", "shared"}]
<1> USE DEF Goto
<1>0. LockTypeOK /\ pc \in [Threads -> Pc] /\ mode \in [Threads -> {"exclusive", "shared"}]
  BY DEF LockInv, LockTypeOK
<1>a. /\ t \in Writers <=> pc[t] = "held" /\ mode[t] = "exclusive"
      /\ t \in Readers <=> pc[t] = "held" /\ mode[t] = "shared"
      /\ t \in Contenders <=> mode[t] = "exclusive" /\ pc[t] \in {"loop", "compare", "sleep", "leave"}
  BY DEF Writers, Readers, Holders, Contenders
<1>b. mode' = mode => mode' = [mode EXCEPT ![t] = mode[t]] /\ mode[t] \in {"exclusive", "shared"}
  BY <1>0
<1>1. CASE AcquireExclusive(t)
  <2>1. /\ Writers' = Writers \ {t} /\ Readers' = Readers \ {t}
        /\ Contenders' = Contenders \union {t}
    BY <1>0, <1>1, Placed DEF AcquireExclusive, Pc
  <2> QED
    BY <1>0, <1>1, <1>a, <2>1 DEF AcquireExclusive, Moves, Wants, Pc
<1>2. CASE AcquireShared(t)
  <2>1. /\ Writers' = Writers \ {t} /\ Readers' = Readers \ {t}
        /\ Contenders' = Contenders \ {t}
    BY <1>0, <1>2, Placed DEF AcquireShared, Pc
  <2> QED
    BY <1>0, <1>2, <1>a, <2>1 DEF AcquireShared, Moves, Stays, lockVars, Pc
<1>3. CASE GrabExclusive(t)
  <2>1. /\ Writers' = Writers \union {t} /\ Readers' = Readers \ {t}
        /\ Contenders' = Contenders \ {t}
    BY <1>0, <1>b, <1>3, Placed DEF GrabExclusive, Pc
  <2>2. Writers = {} /\ Readers = {} /\ ~ HeldExclusive
    BY <1>3, WordSays DEF GrabExclusive
  <2> QED
    BY <1>0, <1>3, <1>a, <2>1, <2>2 DEF GrabExclusive, Moves, TakesExclusive, Pc, LockTypeOK
<1>4. CASE GrabShared(t)
  <2>1. /\ Writers' = Writers \ {t} /\ Readers' = Readers \union {t}
        /\ Contenders' = Contenders \ {t}
    BY <1>0, <1>b, <1>4, Placed DEF GrabShared, Pc
  <2>2. Writers = {} /\ Contenders = {}
    BY <1>4, WordSays DEF GrabShared
  <2> QED
    BY <1>0, <1>4, <1>a, <2>1, <2>2 DEF GrabShared, Moves, TakesShared, Pc
<1>5. CASE MustWait(t)
  BY <1>0, <1>5, StaysPut DEF MustWait, Moves, Pc
<1>6. CASE WaitOnAddress(t)
  BY <1>0, <1>6, StaysPut DEF WaitOnAddress, Moves, Pc
<1>7. CASE Alerted(t)
  BY <1>0, <1>7, StaysPut DEF Alerted, Moves, Pc
<1>8. CASE Leave(t)
  BY <1>0, <1>8, StaysPut DEF Leave, Moves, Pc
<1>9. CASE TryAcquireExclusive(t)
  <2>1. /\ Writers' = Writers \union {t} /\ Readers' = Readers \ {t}
        /\ Contenders' = Contenders \ {t}
    BY <1>0, <1>9, Placed DEF TryAcquireExclusive, Pc
  <2>2. Writers = {} /\ Readers = {} /\ ~ HeldExclusive
    BY <1>9, WordSays DEF TryAcquireExclusive
  <2> QED
    BY <1>0, <1>9, <1>a, <2>1, <2>2 DEF TryAcquireExclusive, Moves, TakesExclusive, Pc, LockTypeOK
<1>10. CASE TryAcquireShared(t)
  <2>1. /\ Writers' = Writers \ {t} /\ Readers' = Readers \union {t}
        /\ Contenders' = Contenders \ {t}
    BY <1>0, <1>10, Placed DEF TryAcquireShared, Pc
  <2>2. Writers = {} /\ Contenders = {}
    BY <1>10, WordSays DEF TryAcquireShared
  <2> QED
    BY <1>0, <1>10, <1>a, <2>1, <2>2 DEF TryAcquireShared, Moves, TakesShared, Pc
<1>11. CASE ReleaseExclusive(t)
  <2>1. PICK l \in {"wake_single", "wake_all"} : pc' = [pc EXCEPT ![t] = l]
    BY <1>11 DEF ReleaseExclusive
  <2>2. /\ Writers' = Writers \ {t} /\ Readers' = Readers \ {t}
        /\ Contenders' = Contenders \ {t}
    BY <1>0, <1>b, <1>11, <2>1, Placed DEF ReleaseExclusive, Pc
  <2>3. Writers = {t} /\ Readers = {} /\ HeldExclusive
    BY <1>11, <1>a, WordSays DEF ReleaseExclusive
  <2> QED
    BY <1>0, <1>11, <1>a, <2>1, <2>2, <2>3
    DEF ReleaseExclusive, Moves, LeavesExclusive, Pc, LockTypeOK
<1>12. CASE ReleaseShared(t)
  <2>1. PICK l \in {"wake_single", "idle"} : pc' = [pc EXCEPT ![t] = l]
    BY <1>12 DEF ReleaseShared
  <2>2. /\ Writers' = Writers \ {t} /\ Readers' = Readers \ {t}
        /\ Contenders' = Contenders \ {t}
    BY <1>0, <1>b, <1>12, <2>1, Placed DEF ReleaseShared, Pc
  <2> QED
    BY <1>0, <1>12, <1>a, <2>1, <2>2 DEF ReleaseShared, Moves, LeavesShared, Pc
<1>13. CASE WakeAddressSingle(t) \/ WakeAddressAll(t)
  BY <1>0, <1>13, StaysPut DEF WakeAddressSingle, WakeAddressAll, Moves, Pc
<1>14. CASE SendAlert(t)
  <2>1. CASE pc' = [pc EXCEPT ![t] = "idle"]
    BY <1>0, <1>14, <2>1, StaysPut DEF SendAlert, Moves, Pc
  <2>2. CASE UNCHANGED pc
    BY <1>0, <1>14, <2>2
    DEF SendAlert, Moves, Stays, Writers, Readers, Holders, Contenders, lockVars
  <2> QED
    BY <1>14, <2>1, <2>2 DEF SendAlert
<1>15. CASE Stray(t)
  BY <1>0, <1>15 DEF Stray, Moves, Stays, Writers, Readers, Holders, Contenders, lockVars
<1> QED
  BY <1>1, <1>2, <1>3, <1>4, <1>5, <1>6, <1>7, <1>8, <1>9, <1>10, <1>11, <1>12, <1>13,
     <1>14, <1>15 DEF Acquire, Release, Call

\* The counts after a move are those of the sets after it.
LEMMA MovesCount ==
  ASSUME LockInv, NEW t \in Threads, Moves(t),
         pc' \in [Threads -> Pc], mode' \in [Threads -> {"exclusive", "shared"}]
  PROVE  LockInv'
<1> DEFINE w == Cardinality(Writers)
           r == Cardinality(Readers)
           c == Cardinality(Contenders)
<1>0. /\ owners = w + r /\ exclusive_waiters = 2 * c + w
      /\ owners \in Nat /\ exclusive_waiters \in Nat
  BY DEF LockInv, LockTypeOK, WordCounts, Writers, Readers
<1>1. w \in Nat /\ r \in Nat /\ c \in Nat
  BY SetsFinite
<1>2. SUFFICES
        /\ owners' \in Nat /\ exclusive_waiters' \in Nat
        /\ owners' = Cardinality(Writers') + Cardinality(Readers')
        /\ exclusive_waiters' = 2 * Cardinality(Contenders') + Cardinality(Writers')
        /\ \A u \in Writers' : Writers' \union Readers' = {u}
  BY DEF LockInv, LockTypeOK, WordCounts, MutualExclusion, Writers, Readers
<1>3. \A u \in Writers : Writers \union Readers = {u}
  BY DEF LockInv, MutualExclusion, Writers, Readers
<1>4. CASE Wants(t)
  <2>1. Cardinality(Contenders') = c + 1
    BY <1>4, SetsFinite, FS_AddElement DEF Wants
  <2> QED
    BY <1>0, <1>1, <1>3, <1>4, <2>1 DEF Wants
<1>5. CASE TakesExclusive(t)
  <2>1. Cardinality(Contenders') = IF t \in Contenders THEN c - 1 ELSE c
    BY <1>5, SetsFinite, FS_RemoveElement DEF TakesExclusive
  <2>2. w = 0 /\ r = 0 /\ Cardinality(Writers') = 1 /\ Cardinality(Readers') = 0
    BY <1>5, FS_EmptySet, FS_Singleton DEF TakesExclusive
  <2>3. Cardinality(Contenders') \in Nat
    <3>1. Contenders' \in SUBSET Threads
      BY <1>5, SetsOfThreads DEF TakesExclusive
    <3> QED
      BY <3>1, FiniteSubset
  <2>4. \A u \in Writers' : Writers' \union Readers' = {u}
    BY <1>5 DEF TakesExclusive
  <2>5. owners' = 1 /\ exclusive_waiters' = exclusive_waiters + 1 - (IF t \in Contenders THEN 2 ELSE 0)
    BY <1>5 DEF TakesExclusive
  <2> QED
    BY <1>0, <1>1, <2>1, <2>2, <2>3, <2>4, <2>5
<1>6. CASE TakesShared(t)
  <2>1. Cardinality(Readers') = r + 1
    BY <1>6, SetsFinite, FS_AddElement DEF TakesShared
  <2>2. Cardinality(Writers') = w /\ Cardinality(Contenders') = c
    BY <1>6 DEF TakesShared
  <2>3. owners' = owners + 1 /\ exclusive_waiters' = exclusive_waiters /\ Writers' = {}
    BY <1>6 DEF TakesShared
  <2> QED
    BY <1>0, <1>1, <2>1, <2>2, <2>3
<1>7. CASE LeavesExclusive(t)
  <2>1. w = 1 /\ r = 0 /\ Cardinality(Writers') = 0 /\ Cardinality(Readers') = 0
    BY <1>7, FS_EmptySet, FS_Singleton DEF LeavesExclusive
  <2>2. Cardinality(Contenders') = c
    BY <1>7 DEF LeavesExclusive
  <2>3. owners' = 0 /\ exclusive_waiters' = exclusive_waiters - 1 /\ Writers' = {}
    BY <1>7 DEF LeavesExclusive
  <2> QED
    BY <1>0, <1>1, <2>1, <2>2, <2>3
<1>8. CASE LeavesShared(t)
  <2>1. Cardinality(Readers') = r - 1
    BY <1>8, SetsFinite, FS_RemoveElement DEF LeavesShared
  <2>2. Cardinality(Readers') \in Nat
    <3>1. Readers' \in SUBSET Threads
      BY <1>8, SetsOfThreads DEF LeavesShared
    <3> QED
      BY <3>1, FiniteSubset
  <2>3. Writers = {}
    BY <1>8, WordSays DEF LeavesShared
  <2> QED
    BY <1>0, <1>1, <1>8, <2>1, <2>2, <2>3 DEF LeavesShared
<1>9. CASE Stays
  BY <1>0, <1>1, <1>3, <1>9 DEF Stays, lockVars
<1> QED
  BY <1>4, <1>5, <1>6, <1>7, <1>8, <1>9 DEF Moves

\* The inductive invariant holds initially.
LEMMA InitLockInv ==
  ASSUME Init PROVE LockInv
<1>1. Writers = {} /\ Readers = {} /\ Contenders = {}
  BY DEF Init, Writers, Readers, Holders, Contenders
<1>2. Cardinality(Writers) = 0 /\ Cardinality(Readers) = 0 /\ Cardinality(Contenders) = 0
  BY <1>1, FS_EmptySet
<1>3. LockTypeOK
  BY DEF Init, LockTypeOK, Pc
<1>4. MutualExclusion
  BY <1>1 DEF MutualExclusion, Writers
<1> QED
  BY <1>2, <1>3, <1>4 DEF Init, LockInv, WordCounts, Writers, Readers

\* Every step keeps the inductive invariant.
LEMMA NextLockInv ==
  ASSUME LockInv, [Next]_vars PROVE LockInv'
<1>1. CASE Next
  BY <1>1, StepMoves, MovesCount DEF Next
<1>2. CASE UNCHANGED vars
  BY <1>2 DEF vars, lockVars, LockInv, LockTypeOK, WordCounts, MutualExclusion, Holders,
              Contenders
<1> QED
  BY <1>1, <1>2

\* The word of the lock always counts its holders and exclusive callers, and a
\* thread that holds it exclusive is its only holder.
THEOREM LockInvariant == Spec => []LockInv
<1> QED
  BY InitLockInv, NextLockInv, PTL DEF Spec

\* RtlAcquireSRWLockExclusive and its counterparts exclude each other.
THEOREM Exclusion == Spec => []MutualExclusion
<1>1. LockInv => MutualExclusion
  BY DEF LockInv
<1> QED
  BY <1>1, LockInvariant, PTL

\* No interleaving of the compare-exchanges loses a count.
THEOREM Counting == Spec => []WordCounts
<1>1. LockInv => WordCounts
  BY DEF LockInv
<1> QED
  BY <1>1, LockInvariant, PTL

\* The queues hold threads, whatever the operations of the sleeping layer do.
LEMMA FutexTyped ==
  ASSUME FutexTypeOK, NEW t \in Threads, NEW a \in Addresses,
         \/ Enqueue(t, a) \/ LeaveQueue(t, a) \/ DequeueSingle(t, a) \/ DequeueAll(t, a)
         \/ TakeAlert(t) \/ AlertNext(t) \/ StrayAlert(t) \/ UNCHANGED futexVars
  PROVE  FutexTypeOK'
<1>0. /\ futex_queue \in [Addresses -> Seq(Threads)] /\ futex_queue[a] \in Seq(Threads)
      /\ tids \in [Threads -> Seq(Threads)] /\ tids[t] \in Seq(Threads)
      /\ alert \in [Threads -> BOOLEAN]
  BY DEF FutexTypeOK
<1>1. CASE Enqueue(t, a)
  <2>1. Append(futex_queue[a], t) \in Seq(Threads)
    BY <1>0, AppendProperties
  <2> QED
    BY <1>0, <1>1, <2>1 DEF Enqueue, FutexTypeOK
<1>2. CASE LeaveQueue(t, a)
  <2>1. RemoveFirst(futex_queue[a], t) \in Seq(Threads)
    BY <1>0, RemoveFirstType
  <2> QED
    BY <1>0, <1>2, <2>1 DEF LeaveQueue, FutexTypeOK
<1>3. CASE DequeueSingle(t, a)
  <2>1. futex_queue[a] # <<>> =>
          Tail(futex_queue[a]) \in Seq(Threads) /\ <<Head(futex_queue[a])>> \in Seq(Threads)
    BY <1>0, HeadTailProperties
  <2>2. <<>> \in Seq(Threads)
    OBVIOUS
  <2> QED
    BY <1>0, <1>3, <2>1, <2>2 DEF DequeueSingle, FutexTypeOK
<1>4. CASE DequeueAll(t, a)
  <2>1. <<>> \in Seq(Threads)
    OBVIOUS
  <2> QED
    BY <1>0, <1>4, <2>1 DEF DequeueAll, FutexTypeOK
<1>5. CASE AlertNext(t)
  <2>1. Head(tids[t]) \in Threads /\ Tail(tids[t]) \in Seq(Threads)
    BY <1>0, <1>5, HeadTailProperties DEF AlertNext
  <2> QED
    BY <1>0, <1>5, <2>1 DEF AlertNext, FutexTypeOK
<1>6. CASE TakeAlert(t) \/ StrayAlert(t) \/ UNCHANGED futexVars
  BY <1>0, <1>6 DEF TakeAlert, StrayAlert, FutexTypeOK, futexVars
<1> QED
  BY <1>1, <1>2, <1>3, <1>4, <1>5, <1>6

\* The lock's fields stay counts, and every variable keeps its type.
THEOREM TypeCorrect == Spec => []TypeOK
<1> DEFINE IInv == LockInv /\ TypeOK
<1>1. Init => IInv
  <2>1. ASSUME Init PROVE TypeOK
    <3>1. <<>> \in Seq(Threads)
      OBVIOUS
    <3> QED
      BY <2>1, <3>1, InitLockInv
      DEF Init, TypeOK, LockInv, LockTypeOK, FutexInit, FutexTypeOK, Word
  <2> QED
    BY <2>1, InitLockInv
<1>2. ASSUME IInv, [Next]_vars PROVE IInv'
  <2>0. LockInv' /\ LockTypeOK'
    BY <1>2, NextLockInv DEF LockInv
  <2>1. SUFFICES FutexTypeOK' /\ seen' \in [Threads -> Word]
    BY <2>0 DEF TypeOK, LockTypeOK
  <2>2. CASE UNCHANGED vars
    BY <1>2, <2>2 DEF vars, futexVars, TypeOK, FutexTypeOK
  <2>3. CASE Next
    <3>1. PICK t \in Threads : Acquire(t) \/ Release(t) \/ Call(t) \/ Stray(t)
      BY <2>3 DEF Next
    <3>2. FutexTypeOK /\ seen \in [Threads -> Word] /\ owners \in Nat /\ exclusive_waiters \in Nat
      BY <1>2 DEF TypeOK
    <3>3. "word" \in Addresses /\ "owners" \in Addresses /\ WaitAddress(t) \in Addresses
      BY AddressAssumption DEF WaitAddress
    <3>4. FutexTypeOK'
      <4>1. \E a \in Addresses :
              \/ Enqueue(t, a) \/ LeaveQueue(t, a) \/ DequeueSingle(t, a) \/ DequeueAll(t, a)
              \/ TakeAlert(t) \/ AlertNext(t) \/ StrayAlert(t) \/ UNCHANGED futexVars
        BY <3>1, <3>3
        DEF Acquire, Release, Call, Stray, GrabExclusive, GrabShared, MustWait, WaitOnAddress,
            Alerted, Leave, ReleaseExclusive, ReleaseShared, WakeAddressSingle, WakeAddressAll,
            SendAlert, AcquireExclusive, AcquireShared, TryAcquireExclusive, TryAcquireShared
      <4> QED
        BY <3>2, <4>1, FutexTyped
    <3>5. seen' \in [Threads -> Word]
      <4>1. \E w \in Word : seen' = seen \/ seen' = [seen EXCEPT ![t] = w]
        BY <3>1, <3>2
        DEF Acquire, Release, Call, Stray, GrabExclusive, GrabShared, MustWait, WaitOnAddress,
            Alerted, Leave, ReleaseExclusive, ReleaseShared, WakeAddressSingle, WakeAddressAll,
            SendAlert, AcquireExclusive, AcquireShared, TryAcquireExclusive, TryAcquireShared,
            Word, NoWord
      <4> QED
        BY <3>2, <4>1
    <3> QED
      BY <3>4, <3>5
  <2> QED
    BY <1>2, <2>2, <2>3
<1>3. IInv => TypeOK
  OBVIOUS
<1> QED
  BY <1>1, <1>2, <1>3, PTL DEF Spec

\* The two 16-bit fields of struct srw_lock never overflow into each other.
THEOREM Fitting == Spec => []FieldsFit
<1>1. ASSUME LockInv PROVE FieldsFit
  <2> DEFINE n == Cardinality(Threads)
             w == Cardinality(Writers)
             r == Cardinality(Readers)
             c == Cardinality(Contenders)
  <2>0. n \in Nat /\ 2 * n <= 65535
    BY ThreadsAssumption, FS_CardinalityType DEF USHRT_MAX
  <2>1. owners = w + r /\ exclusive_waiters = 2 * c + w
    BY <1>1 DEF LockInv, WordCounts, Writers, Readers
  <2>2. w \in Nat /\ r \in Nat /\ c \in Nat /\ w <= n /\ r <= n /\ c <= n
    BY SetsOfThreads, FiniteSubset
  <2>3. w = 0 \/ (w = 1 /\ c + w <= n)
    <3>1. CASE Writers = {}
      BY <3>1, FS_EmptySet
    <3>2. ASSUME NEW t \in Writers PROVE w = 1 /\ c + w <= n
      <4>1. Writers = {t}
        BY <1>1, WordSays
      <4>2. w = 1
        BY <4>1, FS_Singleton
      <4>3. t \notin Contenders
        BY DEF Writers, Holders, Contenders
      <4>4. Cardinality(Contenders \union {t}) = c + 1
        BY <4>3, SetsFinite, FS_AddElement
      <4>5. Contenders \union {t} \in SUBSET Threads
        BY SetsOfThreads
      <4>6. Cardinality(Contenders \union {t}) <= n
        BY <4>5, FiniteSubset
      <4> QED
        BY <4>2, <4>4, <4>6
    <3> QED
      BY <3>1, <3>2
  <2>4. owners <= 65535 /\ exclusive_waiters <= 65535
    BY <2>0, <2>1, <2>2, <2>3
  <2> QED
    BY <2>4 DEF FieldsFit, USHRT_MAX
<1> QED
  BY <1>1, LockInvariant, PTL

\* The SRW lock implements RwLock: one exclusive holder or shared holders, and no
\* new shared holder past a thread that wants the lock exclusive.
THEOREM Refinement == Spec => ImplementsRwLock
<1> USE DEF Abstract!vars
<1>1. Init => Abstract!Init
  BY DEF Init, Abstract!Init, Holders, Contenders
<1>2. ASSUME LockInv, [Next]_vars PROVE [Abstract!Next]_(Abstract!vars)
  <2>1. CASE UNCHANGED vars
    BY <2>1 DEF vars, Holders, Contenders
  <2>2. CASE Next
    <3>1. PICK t \in Threads : Acquire(t) \/ Release(t) \/ Call(t) \/ Stray(t)
      BY <2>2 DEF Next
    <3>2. Moves(t)
      BY <1>2, <3>1, StepMoves
    <3> USE DEF Writers, Readers
    <3>3. CASE Wants(t)
      BY <3>3 DEF Wants, Abstract!Next, Abstract!Want
    <3>4. CASE TakesExclusive(t)
      BY <3>4 DEF TakesExclusive, Abstract!Next, Abstract!TakeExclusive
    <3>5. CASE TakesShared(t)
      BY <3>5 DEF TakesShared, Abstract!Next, Abstract!TakeShared
    <3>6. CASE LeavesExclusive(t)
      BY <3>6 DEF LeavesExclusive, Abstract!Next, Abstract!Release
    <3>7. CASE LeavesShared(t)
      <4>1. Writers = {}
        BY <1>2, <3>7, WordSays DEF LeavesShared
      <4> QED
        BY <3>7, <4>1 DEF LeavesShared, Abstract!Next, Abstract!Release
    <3>8. CASE Stays
      BY <3>8 DEF Stays
    <3> QED
      BY <3>2, <3>3, <3>4, <3>5, <3>6, <3>7, <3>8 DEF Moves
  <2> QED
    BY <1>2, <2>1, <2>2
<1> QED
  BY <1>1, <1>2, LockInvariant, PTL DEF Spec, ImplementsRwLock, Abstract!Spec

-------------------------------------------------------------------------------
(***************************************************************************)
(* No sleeper is forgotten.  The two wake properties rest on three facts:  *)
(* a queue holds the callers that sleep on its address, each once; a       *)
(* sleeper that is no longer on its queue is on the list of a thread that  *)
(* is about to alert it; and a thread that is about to sleep has seen a    *)
(* lock it cannot have.                                                    *)
(***************************************************************************)
QueuesHoldSleepers ==
  /\ \A a \in Addresses : Distinct(futex_queue[a])
  /\ \A t \in Threads, a \in Addresses :
       Queued(t, a) => pc[t] \in {"sleep", "leave"} /\ WaitAddress(t) = a

AlertDue(t) == \E u \in Threads : pc[u] = "alert" /\ t \in ToSet(tids[u])

SleepersKnown ==
  \A t \in Threads : Asleep(t) => Queued(t, WaitAddress(t)) \/ AlertDue(t)

SeenTaken ==
  \A t \in Threads :
    pc[t] = "compare" =>
      IF mode[t] = "exclusive" THEN seen[t].owners # 0 ELSE seen[t].exclusive_waiters # 0

WakeInv ==
  QueuesHoldSleepers /\ SleepersKnown /\ SeenTaken /\ ExclusiveWakeDue /\ SharedWakeDue

\* What the sleeping layer does to the members of the queues and of the lists
LEMMA EnqueueEffect ==
  ASSUME FutexTypeOK, QueuesHoldSleepers, NEW t \in Threads, NEW a \in Addresses,
         ~ Queued(t, a), Enqueue(t, a)
  PROVE  /\ \A b \in Addresses : Distinct(futex_queue'[b])
         /\ \A b \in Addresses, u \in Threads : Queued(u, b)' <=> Queued(u, b) \/ (b = a /\ u = t)
<1>0. futex_queue \in [Addresses -> Seq(Threads)] /\ futex_queue[a] \in Seq(Threads)
  BY DEF FutexTypeOK
<1>1. /\ Distinct(Append(futex_queue[a], t))
      /\ ToSet(Append(futex_queue[a], t)) = ToSet(futex_queue[a]) \union {t}
  BY <1>0, AppendDistinct DEF QueuesHoldSleepers, Queued
<1>2. futex_queue' = [futex_queue EXCEPT ![a] = Append(futex_queue[a], t)]
  BY DEF Enqueue
<1> QED
  BY <1>0, <1>1, <1>2 DEF QueuesHoldSleepers, Queued

LEMMA LeaveQueueEffect ==
  ASSUME FutexTypeOK, QueuesHoldSleepers, NEW t \in Threads, NEW a \in Addresses,
         LeaveQueue(t, a)
  PROVE  /\ \A b \in Addresses : Distinct(futex_queue'[b])
         /\ \A b \in Addresses, u \in Threads : Queued(u, b)' <=> Queued(u, b) /\ ~ (b = a /\ u = t)
<1>0. futex_queue \in [Addresses -> Seq(Threads)] /\ futex_queue[a] \in Seq(Threads)
  BY DEF FutexTypeOK
<1>1. /\ Distinct(RemoveFirst(futex_queue[a], t))
      /\ ToSet(RemoveFirst(futex_queue[a], t)) = ToSet(futex_queue[a]) \ {t}
  BY <1>0, RemoveFirstDistinct DEF QueuesHoldSleepers
<1>2. futex_queue' = [futex_queue EXCEPT ![a] = RemoveFirst(futex_queue[a], t)]
  BY DEF LeaveQueue
<1> QED
  BY <1>0, <1>1, <1>2 DEF QueuesHoldSleepers, Queued

\* Whoever is taken off a queue is on the list of who took it.
LEMMA DequeueEffect ==
  ASSUME FutexTypeOK, QueuesHoldSleepers, NEW t \in Threads, NEW a \in Addresses,
         DequeueSingle(t, a) \/ DequeueAll(t, a)
  PROVE  /\ \A b \in Addresses : Distinct(futex_queue'[b])
         /\ \A b \in Addresses, u \in Threads :
              Queued(u, b) <=> Queued(u, b)' \/ (b = a /\ u \in ToSet(tids'[t]))
         /\ \A u \in Threads : u # t => tids'[u] = tids[u]
         /\ futex_queue[a] # <<>> => \E u \in Threads : u \in ToSet(tids'[t])
         /\ DequeueAll(t, a) => \A u \in Threads : ~ Queued(u, a)'
<1>0. /\ futex_queue \in [Addresses -> Seq(Threads)] /\ futex_queue[a] \in Seq(Threads)
      /\ tids \in [Threads -> Seq(Threads)]
  BY DEF FutexTypeOK
<1> DEFINE q == futex_queue[a]
<1>1. Distinct(<<>>) /\ ToSet(<<>>) = {}
  BY DEF Distinct, ToSet
<1>2. q # <<>> => /\ Distinct(Tail(q)) /\ Head(q) \in Threads
                  /\ ToSet(q) = {Head(q)} \union ToSet(Tail(q))
                  /\ ToSet(<<Head(q)>>) = {Head(q)}
  BY <1>0, TailDistinct, ToSetTail, ToSetShort DEF QueuesHoldSleepers
<1>3. CASE DequeueSingle(t, a) /\ q = <<>>
  <2>1. futex_queue' = futex_queue /\ tids' = [tids EXCEPT ![t] = <<>>]
    BY <1>0, <1>3 DEF DequeueSingle
  <2>2. ~ DequeueAll(t, a) \/ \A u \in Threads : ~ Queued(u, a)'
    BY <1>0, <1>1, <1>3, <2>1 DEF Queued
  <2> QED
    BY <1>0, <1>1, <1>3, <2>1, <2>2 DEF QueuesHoldSleepers, Queued
<1>4. CASE DequeueSingle(t, a) /\ q # <<>>
  <2>1. futex_queue' = [futex_queue EXCEPT ![a] = Tail(q)] /\ tids' = [tids EXCEPT ![t] = <<Head(q)>>]
    BY <1>0, <1>4 DEF DequeueSingle
  <2>2. DequeueAll(t, a) => \A u \in Threads : ~ Queued(u, a)'
    BY <1>0, <1>1 DEF DequeueAll, Queued
  <2> HIDE DEF q
  <2>3. tids'[t] = <<Head(q)>> /\ futex_queue'[a] = Tail(q)
    BY <1>0, <2>1
  <2> QED
    BY <1>0, <1>2, <1>4, <2>1, <2>2, <2>3 DEF QueuesHoldSleepers, Queued, q
<1>5. CASE DequeueAll(t, a)
  <2>1. futex_queue' = [futex_queue EXCEPT ![a] = <<>>] /\ tids' = [tids EXCEPT ![t] = q]
    BY <1>0, <1>5 DEF DequeueAll
  <2>2. q # <<>> => \E u \in Threads : u \in ToSet(q)
    BY <1>2
  <2>3. tids'[t] = q /\ futex_queue'[a] = <<>>
    BY <1>0, <2>1
  <2> QED
    BY <1>0, <1>1, <2>1, <2>2, <2>3 DEF QueuesHoldSleepers, Queued
<1> QED
  BY <1>3, <1>4, <1>5

\* One alert: its thread is awake, the others stay on the list.
LEMMA AlertEffect ==
  ASSUME FutexTypeOK, NEW t \in Threads, AlertNext(t)
  PROVE  \E h \in Threads :
           /\ ToSet(tids[t]) = {h} \union ToSet(tids'[t])
           /\ \A u \in Threads : u # t => tids'[u] = tids[u]
           /\ alert' = [alert EXCEPT ![h] = TRUE]
           /\ futex_queue' = futex_queue
<1>1. tids \in [Threads -> Seq(Threads)] /\ tids[t] \in Seq(Threads) /\ tids[t] # <<>>
  BY DEF FutexTypeOK, AlertNext
<1>2. Head(tids[t]) \in Threads /\ ToSet(tids[t]) = {Head(tids[t])} \union ToSet(Tail(tids[t]))
  BY <1>1, ToSetTail
<1>3. tids' = [tids EXCEPT ![t] = Tail(tids[t])]
  BY DEF AlertNext
<1> QED
  BY <1>1, <1>2, <1>3 DEF AlertNext

\* A step that leaves queues, lists and alerts alone, and takes t neither to sleep
\* nor out of it, keeps the queues and the sleepers.
LEMMA AwakeKeeps ==
  ASSUME TypeOK, QueuesHoldSleepers, SleepersKnown, UNCHANGED futexVars,
         NEW t \in Threads, pc[t] \notin {"sleep", "leave", "alert"},
         \E l \in Pc \ {"sleep"} : pc' = [pc EXCEPT ![t] = l],
         \E m \in {"exclusive", "shared"} : mode' = [mode EXCEPT ![t] = m]
  PROVE  /\ QueuesHoldSleepers' /\ SleepersKnown'
         /\ \A u \in Threads : Asleep(u)' <=> Asleep(u)
         /\ \A u \in Threads : u # t => pc'[u] = pc[u] /\ mode'[u] = mode[u]
         /\ \A u \in Threads : AlertDue(u) => AlertDue(u)'
<1>0. pc \in [Threads -> Pc] /\ mode \in [Threads -> {"exclusive", "shared"}]
  BY DEF TypeOK
<1>1. futex_queue' = futex_queue /\ alert' = alert /\ tids' = tids
  BY DEF futexVars
<1>2. \A u \in Threads : u # t => pc'[u] = pc[u] /\ mode'[u] = mode[u]
  BY <1>0
<1>3. pc'[t] # "sleep"
  BY <1>0
<1>4. \A u \in Threads : Asleep(u)' <=> Asleep(u)
  BY <1>0, <1>1, <1>2, <1>3 DEF Asleep
<1>5. QueuesHoldSleepers'
  BY <1>0, <1>1, <1>2 DEF QueuesHoldSleepers, Queued, WaitAddress
<1>6. \A u \in Threads : AlertDue(u) => AlertDue(u)'
  BY <1>0, <1>1, <1>2 DEF AlertDue
<1>7. SleepersKnown'
  BY <1>0, <1>1, <1>2, <1>4, <1>6 DEF SleepersKnown, Queued, WaitAddress, Asleep
<1> QED
  BY <1>2, <1>4, <1>5, <1>6, <1>7

\* A step of a thread that is awake keeps the wakes that are due, if it starts a
\* wake whenever it leaves the lock free.
LEMMA AwakeKeepsWakes ==
  ASSUME TypeOK, WakeInv, SeenTaken', UNCHANGED futexVars, NEW t \in Threads,
         NEW l \in Pc \ {"sleep"}, NEW m \in {"exclusive", "shared"},
         pc[t] \in {"idle", "loop", "compare", "held"},
         pc' = [pc EXCEPT ![t] = l], mode' = [mode EXCEPT ![t] = m],
         owners' = 0 => \/ owners = 0 /\ (t \in Contenders => t \in Contenders')
                        \/ l = "wake_single" \/ Contenders' = {},
         exclusive_waiters' = 0 => exclusive_waiters = 0 \/ l = "wake_all"
  PROVE  WakeInv'
<1>0. pc \in [Threads -> Pc] /\ mode \in [Threads -> {"exclusive", "shared"}]
  BY DEF TypeOK
<1>1. /\ QueuesHoldSleepers' /\ SleepersKnown'
      /\ \A u \in Threads : Asleep(u)' <=> Asleep(u)
      /\ \A u \in Threads : u # t => pc'[u] = pc[u] /\ mode'[u] = mode[u]
      /\ \A u \in Threads : AlertDue(u) => AlertDue(u)'
  BY AwakeKeeps DEF WakeInv
<1>2. futex_queue' = futex_queue /\ alert' = alert /\ tids' = tids /\ pc'[t] = l
  BY <1>0 DEF futexVars
<1>3. ExclusiveWakeDue'
  <2> SUFFICES ASSUME owners' = 0, NEW u \in Contenders', Asleep(u)'
               PROVE  \/ \E v \in Contenders' : ~ Asleep(v)'
                      \/ \E v \in Threads :
                           \/ pc'[v] = "wake_single"
                           \/ pc'[v] = "alert" /\ \E x \in ToSet(tids'[v]) : x \in Contenders'
    BY DEF ExclusiveWakeDue
  <2>1. CASE owners = 0 /\ (t \in Contenders => t \in Contenders')
    <3>1. \A v \in Contenders : v \in Contenders'
      BY <1>1, <2>1 DEF Contenders
    <3>2. u \in Contenders /\ Asleep(u)
      BY <1>0, <1>1 DEF Contenders, Asleep
    <3> QED
      BY <1>0, <1>1, <1>2, <2>1, <3>1, <3>2 DEF WakeInv, ExclusiveWakeDue, Contenders
  <2>2. CASE l = "wake_single"
    BY <1>2, <2>2
  <2> QED
    BY <2>1, <2>2
<1>4. SharedWakeDue'
  <2> SUFFICES ASSUME exclusive_waiters' = 0, NEW u \in Threads, mode'[u] = "shared", Asleep(u)'
               PROVE  \E v \in Threads : \/ pc'[v] = "wake_all" /\ Queued(u, "word")'
                                         \/ pc'[v] = "alert" /\ u \in ToSet(tids'[v])
    BY DEF SharedWakeDue
  <2>1. mode[u] = "shared" /\ Asleep(u) /\ u # t
    BY <1>0, <1>1 DEF Asleep
  <2>2. CASE exclusive_waiters = 0
    BY <1>0, <1>1, <1>2, <2>1, <2>2 DEF WakeInv, SharedWakeDue, Queued
  <2>3. CASE l = "wake_all"
    <3>1. Queued(u, "word")' \/ AlertDue(u)'
      BY <1>1, <1>2, <2>1 DEF SleepersKnown, WaitAddress
    <3> QED
      BY <1>2, <2>3, <3>1 DEF AlertDue
  <2> QED
    BY <2>2, <2>3
<1> QED
  BY <1>1, <1>3, <1>4 DEF WakeInv

\* A call begins, or the lock is tried.
LEMMA CallKeepsWakes ==
  ASSUME TypeOK, WakeInv, NEW t \in Threads, Call(t)
  PROVE  WakeInv'
<1>0. /\ pc \in [Threads -> Pc] /\ mode \in [Threads -> {"exclusive", "shared"}]
      /\ owners \in Nat /\ exclusive_waiters \in Nat
  BY DEF TypeOK
<1>1. PICK l \in {"loop", "held"}, m \in {"exclusive", "shared"} :
        /\ pc[t] = "idle" /\ pc' = [pc EXCEPT ![t] = l] /\ mode' = [mode EXCEPT ![t] = m]
        /\ l = "held" => owners' # 0
        /\ l = "loop" => owners' = owners
        /\ exclusive_waiters' = 0 => exclusive_waiters = 0
        /\ UNCHANGED <<seen, futexVars>>
  BY <1>0 DEF Call, AcquireExclusive, AcquireShared, TryAcquireExclusive, TryAcquireShared, Goto,
              lockVars, HeldExclusive
<1>2. SeenTaken' /\ l \in Pc \ {"sleep"} /\ t \notin Contenders
  BY <1>0, <1>1 DEF WakeInv, SeenTaken, Pc, Contenders
<1> QED
  BY <1>1, <1>2, AwakeKeepsWakes

\* The lock is taken, or found taken.
LEMMA LoopKeepsWakes ==
  ASSUME TypeOK, LockInv, WakeInv, NEW t \in Threads,
         GrabExclusive(t) \/ GrabShared(t) \/ MustWait(t)
  PROVE  WakeInv'
<1>0. /\ pc \in [Threads -> Pc] /\ mode \in [Threads -> {"exclusive", "shared"}]
      /\ owners \in Nat /\ exclusive_waiters \in Nat /\ seen \in [Threads -> Word]
  BY DEF TypeOK
<1>1. PICK l \in {"compare", "held"} :
        /\ pc[t] = "loop" /\ pc' = [pc EXCEPT ![t] = l] /\ mode' = [mode EXCEPT ![t] = mode[t]]
        /\ l = "held" => owners' # 0
        /\ l = "compare" => UNCHANGED lockVars
        /\ exclusive_waiters' = 0 => exclusive_waiters = 0
        /\ UNCHANGED futexVars
  <2>1. CASE GrabExclusive(t)
    <3>1. t \in Contenders
      BY <2>1 DEF GrabExclusive, Contenders
    <3>2. Cardinality(Contenders) # 0
      BY <3>1, SetsFinite, FS_EmptySet
    <3>3. exclusive_waiters >= 2
      BY <3>2, SetsFinite DEF LockInv, WordCounts, Writers
    <3> QED
      BY <1>0, <2>1, <3>3 DEF GrabExclusive, Goto, HeldExclusive
  <2>2. CASE GrabShared(t) \/ MustWait(t)
    BY <1>0, <2>2 DEF GrabShared, MustWait, Goto, lockVars
  <2> QED
    BY <2>1, <2>2
<1>2. SeenTaken'
  BY <1>0 DEF WakeInv, SeenTaken, GrabExclusive, GrabShared, MustWait, Goto, Word
<1>3. l = "compare" => (t \in Contenders => t \in Contenders')
  BY <1>0, <1>1 DEF Contenders
<1>4. l \in Pc \ {"sleep"} /\ mode[t] \in {"exclusive", "shared"}
  BY <1>0 DEF Pc
<1> QED
  BY <1>1, <1>2, <1>3, <1>4, AwakeKeepsWakes DEF lockVars

\* The lock is released: whoever leaves it free wakes an exclusive caller if there
\* is one, and the shared ones otherwise.
LEMMA ReleaseKeepsWakes ==
  ASSUME TypeOK, LockInv, LockInv', WakeInv, NEW t \in Threads,
         ReleaseExclusive(t) \/ ReleaseShared(t)
  PROVE  WakeInv'
<1>0. /\ pc \in [Threads -> Pc] /\ mode \in [Threads -> {"exclusive", "shared"}]
      /\ owners \in Nat /\ exclusive_waiters \in Nat
  BY DEF TypeOK
<1>1. PICK l \in {"wake_single", "wake_all", "idle"} :
        /\ pc[t] = "held" /\ pc' = [pc EXCEPT ![t] = l] /\ mode' = [mode EXCEPT ![t] = mode[t]]
        /\ owners' = 0 => l = "wake_single" \/ exclusive_waiters' = 0
        /\ exclusive_waiters' = 0 => exclusive_waiters = 0 \/ l = "wake_all"
        /\ UNCHANGED <<seen, futexVars, mode>>
  BY <1>0 DEF ReleaseExclusive, ReleaseShared, Goto
<1>2. SeenTaken'
  BY <1>0, <1>1 DEF WakeInv, SeenTaken
<1>3. exclusive_waiters' = 0 => Contenders' = {}
  <2>1. Cardinality(Contenders') \in Nat /\ IsFiniteSet(Contenders') /\ Cardinality(Writers') \in Nat
    <3>1. Contenders' \in SUBSET Threads /\ Writers' \in SUBSET Threads
      BY DEF Contenders, Writers, Holders
    <3> QED
      BY <3>1, FiniteSubset
  <2>2. exclusive_waiters' = 2 * Cardinality(Contenders') + Cardinality(Writers')
    BY DEF LockInv, WordCounts, Writers
  <2>3. exclusive_waiters' = 0 => Cardinality(Contenders') = 0
    BY <2>1, <2>2
  <2> QED
    BY <2>1, <2>3, FS_EmptySet
<1>4. l \in Pc \ {"sleep"} /\ mode[t] \in {"exclusive", "shared"}
  BY <1>0 DEF Pc
<1> QED
  BY <1>1, <1>2, <1>3, <1>4, AwakeKeepsWakes

\* RtlWaitOnAddress sleeps only on a lock that is still taken.
LEMMA SleepKeepsWakes ==
  ASSUME TypeOK, WakeInv, NEW t \in Threads, WaitOnAddress(t)
  PROVE  WakeInv'
<1>0. /\ pc \in [Threads -> Pc] /\ mode \in [Threads -> {"exclusive", "shared"}]
      /\ seen \in [Threads -> Word] /\ FutexTypeOK /\ alert \in [Threads -> BOOLEAN]
      /\ pc[t] = "compare" /\ UNCHANGED <<lockVars, mode>>
  BY DEF TypeOK, WaitOnAddress, FutexTypeOK
<1>1. CASE ~ Unchanged(t)
  <2>1. /\ pc' = [pc EXCEPT ![t] = "loop"] /\ mode' = [mode EXCEPT ![t] = mode[t]]
        /\ UNCHANGED futexVars /\ mode[t] \in {"exclusive", "shared"} /\ "loop" \in Pc \ {"sleep"}
    BY <1>0, <1>1 DEF WaitOnAddress, Goto, Pc
  <2>2. SeenTaken'
    BY <1>0, <2>1 DEF WakeInv, SeenTaken, WaitOnAddress
  <2>3. t \in Contenders => t \in Contenders'
    BY <1>0, <2>1 DEF Contenders
  <2> QED
    BY <1>0, <2>1, <2>2, <2>3, AwakeKeepsWakes DEF lockVars
<1>2. CASE Unchanged(t)
  <2> DEFINE a == WaitAddress(t)
  <2>1. /\ pc' = [pc EXCEPT ![t] = "sleep"] /\ Enqueue(t, a) /\ alert' = alert /\ tids' = tids
        /\ \A u \in Threads : pc'[u] = IF u = t THEN "sleep" ELSE pc[u]
        /\ \A u \in Threads : mode'[u] = mode[u]
    BY <1>0, <1>2 DEF WaitOnAddress, Goto, Enqueue
  <2>2. a \in Addresses /\ ~ Queued(t, a)
    BY <1>0, AddressAssumption DEF WakeInv, QueuesHoldSleepers, WaitAddress
  <2>3. /\ \A b \in Addresses : Distinct(futex_queue'[b])
        /\ \A b \in Addresses, u \in Threads : Queued(u, b)' <=> Queued(u, b) \/ (b = a /\ u = t)
    BY <1>0, <2>1, <2>2, EnqueueEffect DEF WakeInv
  <2> HIDE DEF a
  <2>4. \A u \in Threads : WaitAddress(u)' = WaitAddress(u)
    BY <2>1 DEF WaitAddress
  <2>5. QueuesHoldSleepers'
    BY <2>1, <2>2, <2>3, <2>4 DEF WakeInv, QueuesHoldSleepers, a
  <2>6. \A u \in Threads : AlertDue(u) => AlertDue(u)'
    BY <1>0, <2>1 DEF AlertDue
  <2>7. \A u \in Threads : WaitAddress(u) \in Addresses
    BY AddressAssumption DEF WaitAddress
  <2>8. SleepersKnown'
    BY <2>1, <2>2, <2>3, <2>4, <2>6, <2>7 DEF WakeInv, SleepersKnown, Asleep, a
  <2>9. SeenTaken'
    BY <1>0, <2>1 DEF WakeInv, SeenTaken, WaitOnAddress
  <2>10. /\ mode[t] = "exclusive" => owners' # 0
         /\ mode[t] = "shared" => exclusive_waiters' # 0
    BY <1>0, <1>2 DEF WakeInv, SeenTaken, Unchanged, lockVars
  <2>11. Contenders' = Contenders /\ \A u \in Threads : u # t => (Asleep(u)' <=> Asleep(u))
    BY <1>0, <2>1 DEF Contenders, Asleep
  <2>12. ExclusiveWakeDue'
    <3> SUFFICES ASSUME owners' = 0, NEW u \in Contenders', Asleep(u)'
                 PROVE  \/ \E v \in Contenders' : ~ Asleep(v)'
                        \/ \E v \in Threads :
                             \/ pc'[v] = "wake_single"
                             \/ pc'[v] = "alert" /\ \E x \in ToSet(tids'[v]) : x \in Contenders'
      BY DEF ExclusiveWakeDue
    <3>1. owners = 0 /\ mode[t] # "exclusive" /\ t \notin Contenders
      BY <1>0, <2>10 DEF lockVars, Contenders
    <3>2. \A v \in Contenders : v # t
      BY <3>1
    <3>3. u \in Contenders /\ Asleep(u) /\ Contenders \subseteq Threads
      BY <2>11, <3>2 DEF Contenders
    <3> QED
      BY <1>0, <2>1, <2>11, <3>1, <3>2, <3>3 DEF WakeInv, ExclusiveWakeDue
  <2>13. SharedWakeDue'
    <3> SUFFICES ASSUME exclusive_waiters' = 0, NEW u \in Threads, mode'[u] = "shared", Asleep(u)'
                 PROVE  \E v \in Threads : \/ pc'[v] = "wake_all" /\ Queued(u, "word")'
                                           \/ pc'[v] = "alert" /\ u \in ToSet(tids'[v])
      BY DEF SharedWakeDue
    <3>1. u # t /\ mode[u] = "shared" /\ Asleep(u) /\ exclusive_waiters = 0
      BY <1>0, <2>1, <2>10, <2>11 DEF lockVars
    <3>2. "word" \in Addresses
      BY AddressAssumption
    <3> QED
      BY <1>0, <2>1, <2>3, <3>1, <3>2 DEF WakeInv, SharedWakeDue
  <2> QED
    BY <2>5, <2>8, <2>9, <2>12, <2>13 DEF WakeInv
<1> QED
  BY <1>1, <1>2

\* A thread wakes up, and one that is awake takes its entry off the queue.
LEMMA WokenKeepsWakes ==
  ASSUME TypeOK, WakeInv, NEW t \in Threads, Alerted(t) \/ Leave(t) \/ Stray(t)
  PROVE  WakeInv'
<1>0. /\ pc \in [Threads -> Pc] /\ mode \in [Threads -> {"exclusive", "shared"}]
      /\ FutexTypeOK /\ alert \in [Threads -> BOOLEAN]
      /\ UNCHANGED <<lockVars, mode, seen, tids>>
      /\ \A u \in Threads : u # t => pc'[u] = pc[u] /\ (alert'[u] <=> alert[u])
      /\ Contenders' = Contenders
  BY DEF TypeOK, FutexTypeOK, Alerted, Leave, Stray, TakeAlert, LeaveQueue, StrayAlert, Goto,
         Contenders
<1>1. /\ \A u \in Threads : Asleep(u)' => Asleep(u) /\ (Alerted(t) \/ Leave(t) => u # t)
      /\ \A u \in Threads : pc[u] \in {"wake_single", "wake_all", "alert"} => pc'[u] = pc[u]
      /\ \A u \in Threads : pc'[u] = "compare" => pc[u] = "compare"
  BY <1>0 DEF Alerted, Leave, Stray, TakeAlert, StrayAlert, Goto, Asleep
<1>2. \A u \in Threads : WaitAddress(u)' = WaitAddress(u) /\ WaitAddress(u) \in Addresses
  BY <1>0, AddressAssumption DEF WaitAddress
<1>3. /\ \A b \in Addresses : Distinct(futex_queue'[b])
      /\ \A b \in Addresses, u \in Threads : Queued(u, b)' => Queued(u, b) /\ (Leave(t) => u # t)
      /\ \A b \in Addresses, u \in Threads : Queued(u, b) /\ ~ Queued(u, b)' => Leave(t) /\ u = t
  <2>1. CASE Alerted(t) \/ Stray(t)
    <3>1. futex_queue' = futex_queue /\ ~ Leave(t)
      BY <1>0, <2>1 DEF Alerted, Stray, TakeAlert, StrayAlert, Leave, Goto
    <3> QED
      BY <3>1 DEF WakeInv, QueuesHoldSleepers, Queued
  <2>2. CASE Leave(t)
    <3>1. LeaveQueue(t, WaitAddress(t)) /\ WaitAddress(t) \in Addresses
      BY <1>2, <2>2 DEF Leave
    <3>2. /\ \A b \in Addresses : Distinct(futex_queue'[b])
          /\ \A b \in Addresses, u \in Threads :
               Queued(u, b)' <=> Queued(u, b) /\ ~ (b = WaitAddress(t) /\ u = t)
      BY <1>0, <3>1, LeaveQueueEffect DEF WakeInv
    <3> QED
      BY <2>2, <3>2 DEF WakeInv, QueuesHoldSleepers
  <2> QED
    BY <2>1, <2>2
<1>4. QueuesHoldSleepers'
  <2>1. ASSUME NEW u \in Threads, NEW b \in Addresses, Queued(u, b)'
        PROVE  pc'[u] \in {"sleep", "leave"} /\ WaitAddress(u)' = b
    <3>1. Queued(u, b) /\ (Leave(t) => u # t)
      BY <1>3, <2>1
    <3>2. pc[u] \in {"sleep", "leave"} /\ WaitAddress(u) = b
      BY <3>1 DEF WakeInv, QueuesHoldSleepers
    <3> QED
      BY <1>0, <1>2, <3>1, <3>2 DEF Alerted, Stray, Goto
  <2> QED
    BY <1>3, <2>1 DEF QueuesHoldSleepers
<1>5. \A u \in Threads : AlertDue(u) => AlertDue(u)'
  BY <1>0, <1>1 DEF AlertDue
<1>6. SleepersKnown'
  BY <1>1, <1>2, <1>3, <1>5 DEF WakeInv, SleepersKnown
<1>7. SeenTaken'
  BY <1>0, <1>1 DEF WakeInv, SeenTaken
<1>8. ExclusiveWakeDue'
  BY <1>0, <1>1 DEF WakeInv, ExclusiveWakeDue, lockVars, Contenders
<1>9. SharedWakeDue'
  <2>1. "word" \in Addresses
    BY AddressAssumption
  <2>2. \A u \in Threads : Asleep(u)' /\ Queued(u, "word") => Queued(u, "word")'
    BY <1>1, <1>3, <2>1
  <2> QED
    BY <1>0, <1>1, <2>2 DEF WakeInv, SharedWakeDue, lockVars
<1> QED
  BY <1>4, <1>6, <1>7, <1>8, <1>9 DEF WakeInv

\* A waker takes threads off a queue: their alerts are due from then on.
LEMMA DequeueKeepsWakes ==
  ASSUME TypeOK, WakeInv, NEW t \in Threads, WakeAddressSingle(t) \/ WakeAddressAll(t)
  PROVE  WakeInv'
<1>a. PICK a \in {"owners", "word"} : a = IF pc[t] = "wake_single" THEN "owners" ELSE "word"
  OBVIOUS
<1>0. /\ pc \in [Threads -> Pc] /\ mode \in [Threads -> {"exclusive", "shared"}]
      /\ FutexTypeOK /\ alert' = alert /\ pc[t] \in {"wake_single", "wake_all"}
      /\ UNCHANGED <<lockVars, mode, seen>>
      /\ pc' = [pc EXCEPT ![t] = "alert"]
      /\ DequeueSingle(t, a) \/ DequeueAll(t, a)
      /\ pc[t] = "wake_all" => DequeueAll(t, a)
  BY <1>a DEF TypeOK, WakeAddressSingle, WakeAddressAll, Goto, DequeueSingle, DequeueAll
<1>1. a \in Addresses /\ \A u \in Threads : WaitAddress(u) \in Addresses /\ WaitAddress(u)' = WaitAddress(u)
  BY <1>0, AddressAssumption DEF WaitAddress
<1>2. /\ \A b \in Addresses : Distinct(futex_queue'[b])
      /\ \A b \in Addresses, u \in Threads :
           Queued(u, b) <=> Queued(u, b)' \/ (b = a /\ u \in ToSet(tids'[t]))
      /\ \A u \in Threads : u # t => tids'[u] = tids[u]
      /\ futex_queue[a] # <<>> => \E u \in Threads : u \in ToSet(tids'[t])
      /\ DequeueAll(t, a) => \A u \in Threads : ~ Queued(u, a)'
  BY <1>0, <1>1, DequeueEffect DEF WakeInv
<1>3. /\ \A u \in Threads : pc'[u] = IF u = t THEN "alert" ELSE pc[u]
      /\ \A u \in Threads : Asleep(u)' <=> Asleep(u)
      /\ Contenders' = Contenders
  BY <1>0 DEF Asleep, Contenders
<1>4. QueuesHoldSleepers'
  BY <1>0, <1>1, <1>2, <1>3 DEF WakeInv, QueuesHoldSleepers
<1>5. \A u \in Threads : AlertDue(u) => AlertDue(u)'
  BY <1>0, <1>2, <1>3 DEF AlertDue
<1>6. \A u \in Threads : u \in ToSet(tids'[t]) => AlertDue(u)'
  BY <1>3 DEF AlertDue
<1>7. SleepersKnown'
  BY <1>1, <1>2, <1>3, <1>5, <1>6 DEF WakeInv, SleepersKnown
<1>8. SeenTaken'
  BY <1>0, <1>3 DEF WakeInv, SeenTaken
<1>9. ExclusiveWakeDue'
  <2> SUFFICES ASSUME owners' = 0, NEW u \in Contenders, Asleep(u)
               PROVE  \/ \E v \in Contenders : ~ Asleep(v)
                      \/ \E v \in Threads : pc'[v] = "wake_single"
                      \/ \E x \in Contenders : AlertDue(x)'
    BY <1>3 DEF ExclusiveWakeDue, AlertDue, Contenders
  <2>1. owners = 0 /\ u \in Threads /\ mode[u] = "exclusive"
    BY <1>0 DEF lockVars, Contenders
  <2>2. CASE pc[t] = "wake_all"
    BY <1>2, <1>3, <1>5, <2>1, <2>2 DEF WakeInv, ExclusiveWakeDue, AlertDue, Contenders
  <2>3. CASE pc[t] = "wake_single"
    <3>1. CASE AlertDue(u)
      BY <1>5, <2>1, <3>1
    <3>2. CASE Queued(u, "owners")
      <4>1. futex_queue["owners"] # <<>> /\ a = "owners"
        BY <1>a, <2>3, <3>2 DEF Queued, ToSet
      <4>2. PICK x \in Threads : x \in ToSet(tids'[t])
        BY <1>2, <4>1
      <4>3. Queued(x, "owners")
        BY <1>1, <1>2, <4>1, <4>2
      <4>4. x \in Contenders
        BY <1>0, <1>1, <4>1, <4>3 DEF WakeInv, QueuesHoldSleepers, WaitAddress, Contenders
      <4> QED
        BY <1>6, <4>2, <4>4
    <3> QED
      BY <2>1, <3>1, <3>2 DEF WakeInv, SleepersKnown, WaitAddress
  <2> QED
    BY <1>0, <2>2, <2>3
<1>10. SharedWakeDue'
  <2> SUFFICES ASSUME exclusive_waiters' = 0, NEW u \in Threads, mode'[u] = "shared", Asleep(u)'
               PROVE  \/ AlertDue(u)'
                      \/ \E v \in Threads : pc'[v] = "wake_all" /\ Queued(u, "word")'
    BY DEF SharedWakeDue, AlertDue
  <2>1. mode[u] = "shared" /\ Asleep(u) /\ exclusive_waiters = 0 /\ "word" \in Addresses
    BY <1>0, <1>3, AddressAssumption DEF lockVars
  <2>2. CASE AlertDue(u)
    BY <1>5, <2>2
  <2>3. CASE Queued(u, "word") /\ u \in ToSet(tids'[t])
    BY <1>6, <2>3
  <2>4. CASE Queued(u, "word") /\ u \notin ToSet(tids'[t])
    <3>1. (Queued(u, "word")' /\ ~ AlertDue(u)) \/ AlertDue(u)
      BY <1>2, <2>1, <2>4
    <3>2. pc[t] # "wake_all"
      BY <1>a, <1>0, <1>2, <2>1, <2>4
    <3> QED
      BY <1>3, <1>5, <2>1, <3>1, <3>2 DEF WakeInv, SharedWakeDue, AlertDue
  <2> QED
    BY <2>1, <2>2, <2>3, <2>4 DEF WakeInv, SleepersKnown, WaitAddress
<1> QED
  BY <1>4, <1>7, <1>8, <1>9, <1>10 DEF WakeInv

\* An alert is sent, or all of them have been.
LEMMA AlertKeepsWakes ==
  ASSUME TypeOK, WakeInv, NEW t \in Threads, SendAlert(t)
  PROVE  WakeInv'
<1>0. /\ pc \in [Threads -> Pc] /\ mode \in [Threads -> {"exclusive", "shared"}]
      /\ FutexTypeOK /\ alert \in [Threads -> BOOLEAN] /\ pc[t] = "alert"
      /\ UNCHANGED <<lockVars, mode, seen>>
  BY DEF TypeOK, FutexTypeOK, SendAlert
<1>1. /\ futex_queue' = futex_queue
      /\ \A u \in Threads : u # t => pc'[u] = pc[u] /\ tids'[u] = tids[u]
      /\ pc'[t] \in {"alert", "idle"}
      /\ \A u \in Threads : Asleep(u)' => Asleep(u)
      /\ \A u \in Threads : AlertDue(u) /\ pc[u] = "sleep" => AlertDue(u)' \/ ~ Asleep(u)'
      /\ \A u \in Threads : AlertDue(u) => AlertDue(u)' \/ alert'[u]
  <2>1. CASE tids[t] = <<>>
    <3>1. pc' = [pc EXCEPT ![t] = "idle"] /\ UNCHANGED futexVars
      BY <2>1 DEF SendAlert, Goto
    <3>2. ToSet(tids[t]) = {}
      BY <2>1 DEF ToSet
    <3> QED
      BY <1>0, <3>1, <3>2 DEF futexVars, Asleep, AlertDue
  <2>2. CASE tids[t] # <<>>
    <3>1. AlertNext(t) /\ pc' = pc
      BY <2>2 DEF SendAlert
    <3>2. PICK h \in Threads :
            /\ ToSet(tids[t]) = {h} \union ToSet(tids'[t])
            /\ \A u \in Threads : u # t => tids'[u] = tids[u]
            /\ alert' = [alert EXCEPT ![h] = TRUE]
            /\ futex_queue' = futex_queue
      BY <1>0, <3>1, AlertEffect
    <3>3. \A u \in Threads : AlertDue(u) => AlertDue(u)' \/ u = h
      BY <3>1, <3>2 DEF AlertDue
    <3> QED
      BY <1>0, <3>1, <3>2, <3>3 DEF Asleep
  <2> QED
    BY <2>1, <2>2
<1>2. Contenders' = Contenders /\ \A u \in Threads : WaitAddress(u)' = WaitAddress(u)
  BY <1>0, <1>1 DEF Contenders, WaitAddress
<1>3. QueuesHoldSleepers'
  BY <1>0, <1>1, <1>2 DEF WakeInv, QueuesHoldSleepers, Queued
<1>4. SleepersKnown'
  BY <1>0, <1>1, <1>2 DEF WakeInv, SleepersKnown, Queued, Asleep
<1>5. SeenTaken'
  BY <1>0, <1>1 DEF WakeInv, SeenTaken
<1>6. ExclusiveWakeDue'
  <2> SUFFICES ASSUME owners' = 0, NEW u \in Contenders, Asleep(u)'
               PROVE  \/ \E v \in Contenders : ~ Asleep(v)'
                      \/ \E v \in Threads : pc'[v] = "wake_single"
                      \/ \E x \in Contenders : AlertDue(x)'
    BY <1>2 DEF ExclusiveWakeDue, AlertDue, Contenders
  <2>1. /\ owners = 0 /\ Asleep(u) /\ Contenders \subseteq Threads
        /\ \A x \in Contenders : AlertDue(x) => AlertDue(x)' \/ ~ Asleep(x)'
    BY <1>0, <1>1 DEF lockVars, Contenders, Asleep
  <2>2. \/ \E v \in Contenders : ~ Asleep(v)
        \/ \E v \in Threads : pc[v] = "wake_single"
        \/ \E x \in Contenders : AlertDue(x)
    BY <2>1 DEF WakeInv, ExclusiveWakeDue, AlertDue
  <2> QED
    BY <1>0, <1>1, <2>1, <2>2
<1>7. SharedWakeDue'
  <2> SUFFICES ASSUME exclusive_waiters' = 0, NEW u \in Threads, mode'[u] = "shared", Asleep(u)'
               PROVE  \/ AlertDue(u)'
                      \/ \E v \in Threads : pc'[v] = "wake_all" /\ Queued(u, "word")'
    BY DEF SharedWakeDue, AlertDue
  <2>1. mode[u] = "shared" /\ Asleep(u) /\ exclusive_waiters = 0
    BY <1>0, <1>1 DEF lockVars
  <2>2. AlertDue(u) \/ \E v \in Threads : pc[v] = "wake_all" /\ Queued(u, "word")
    BY <2>1 DEF WakeInv, SharedWakeDue, AlertDue
  <2> QED
    BY <1>0, <1>1, <2>1, <2>2 DEF Queued, Asleep
<1> QED
  BY <1>3, <1>4, <1>5, <1>6, <1>7 DEF WakeInv

\* Whatever threads call, release, sleep and wake in between, the wakes that are due
\* stay on their way.
THEOREM WakeInvariant == Spec => []WakeInv
<1>1. Init => WakeInv
  <2> SUFFICES ASSUME Init PROVE WakeInv
    OBVIOUS
  <2>1. Distinct(<<>>) /\ ToSet(<<>>) = {}
    BY DEF ToSet, Distinct
  <2>2. \A a \in Addresses : futex_queue[a] = <<>>
    BY DEF Init, FutexInit
  <2>3. \A a \in Addresses : Distinct(futex_queue[a]) /\ ToSet(futex_queue[a]) = {}
    BY <2>1, <2>2
  <2>4. \A t \in Threads : pc[t] = "idle"
    BY DEF Init
  <2>5. QueuesHoldSleepers
    BY <2>3 DEF QueuesHoldSleepers, Queued
  <2>6. \A t \in Threads : ~ Asleep(t) /\ pc[t] # "compare"
    BY <2>4 DEF Asleep
  <2> QED
    BY <2>5, <2>6 DEF WakeInv, SleepersKnown, SeenTaken, ExclusiveWakeDue, SharedWakeDue, Contenders
<1>2. ASSUME TypeOK, LockInv, LockInv', WakeInv, [Next]_vars PROVE WakeInv'
  <2>1. CASE UNCHANGED vars
    BY <1>2, <2>1 DEF vars, lockVars, futexVars, WakeInv, QueuesHoldSleepers, SleepersKnown,
       SeenTaken, ExclusiveWakeDue, SharedWakeDue, Asleep, Queued, WaitAddress, AlertDue, Contenders
  <2>2. CASE Next
    BY <1>2, <2>2, CallKeepsWakes, LoopKeepsWakes, ReleaseKeepsWakes, SleepKeepsWakes,
       WokenKeepsWakes, DequeueKeepsWakes, AlertKeepsWakes DEF Next, Acquire, Release, Call
  <2> QED
    BY <1>2, <2>1, <2>2
<1> QED
  BY <1>1, <1>2, TypeCorrect, LockInvariant, PTL DEF Spec

\* RtlReleaseSRWLockExclusive and RtlReleaseSRWLockShared lose no wake of an
\* exclusive caller, for any number of threads, also beside stray alerts.
THEOREM ExclusiveWakes == Spec => []ExclusiveWakeDue
<1>1. WakeInv => ExclusiveWakeDue
  BY DEF WakeInv
<1> QED
  BY <1>1, WakeInvariant, PTL

\* RtlReleaseSRWLockExclusive loses no wake of a shared caller, for any number of
\* threads, also beside stray alerts.
THEOREM SharedWakes == Spec => []SharedWakeDue
<1>1. WakeInv => SharedWakeDue
  BY DEF WakeInv
<1> QED
  BY <1>1, WakeInvariant, PTL
=============================================================================
