------------------------------- MODULE SrwLock -------------------------------
(***************************************************************************)
(* The slim reader/writer lock of dlls/ntdll/sync.c: one 32-bit word, of   *)
(* which the upper half counts the owners and the lower half the exclusive *)
(* waiters, its bit 0 telling that the lock is held exclusive.             *)
(*                                                                         *)
(* Every retry loop around InterlockedCompareExchange computes the new     *)
(* word from the old one alone, so its successful round is one atomic step *)
(* and its failed rounds are none.  Exclusive waiters sleep on the address *)
(* of the owners field, shared ones on that of the whole word.             *)
(***************************************************************************)
EXTENDS Futex, FiniteSets

VARIABLES
  exclusive_waiters,  \* struct srw_lock.exclusive_waiters
  owners,             \* struct srw_lock.owners
  pc,                 \* where each thread is
  mode,               \* "exclusive" or "shared": which functions it is in
  seen                \* the word that RtlWaitOnAddress compares with

lockVars == <<exclusive_waiters, owners>>
vars     == <<lockVars, pc, mode, seen, futexVars>>

\* Bit 0 and the count of exclusive_waiters
HeldExclusive == exclusive_waiters % 2 = 1

ASSUME AddressAssumption == Addresses = {"word", "owners"}

\* The fields have 16 bits; a thread holds or awaits a lock at most once.
USHRT_MAX == 65535

ASSUME ThreadsAssumption ==
  IsFiniteSet(Threads) /\ 2 * Cardinality(Threads) <= USHRT_MAX

Word == [exclusive_waiters : Nat, owners : Nat]

Pc == {"idle", "loop", "compare", "sleep", "leave", "held", "wake_single", "wake_all", "alert"}

TypeOK ==
  /\ exclusive_waiters \in Nat
  /\ owners \in Nat
  /\ pc \in [Threads -> Pc]
  /\ mode \in [Threads -> {"exclusive", "shared"}]
  /\ seen \in [Threads -> Word]
  /\ FutexTypeOK

\* RtlInitializeSRWLock
Init ==
  /\ exclusive_waiters = 0
  /\ owners = 0
  /\ pc = [t \in Threads |-> "idle"]
  /\ mode = [t \in Threads |-> "shared"]
  /\ seen = [t \in Threads |-> [exclusive_waiters |-> 0, owners |-> 0]]
  /\ FutexInit

Goto(t, l) == pc' = [pc EXCEPT ![t] = l]

NoWord == [exclusive_waiters |-> 0, owners |-> 0]

-------------------------------------------------------------------------------
\* RtlAcquireSRWLockExclusive is called: InterlockedExchangeAdd16
AcquireExclusive(t) ==
  /\ pc[t] = "idle"
  /\ exclusive_waiters' = exclusive_waiters + 2
  /\ mode' = [mode EXCEPT ![t] = "exclusive"]
  /\ Goto(t, "loop")
  /\ UNCHANGED <<owners, seen, futexVars>>

\* RtlAcquireSRWLockShared is called
AcquireShared(t) ==
  /\ pc[t] = "idle"
  /\ mode' = [mode EXCEPT ![t] = "shared"]
  /\ Goto(t, "loop")
  /\ UNCHANGED <<lockVars, seen, futexVars>>

\* Mutant of GrabExclusive: bit 0 is tested instead of owners
GrabExclusiveBit(t) ==
  /\ pc[t] = "loop" /\ mode[t] = "exclusive"
  /\ ~ HeldExclusive
  /\ owners' = 1
  /\ exclusive_waiters' = exclusive_waiters - 2 + 1
  /\ Goto(t, "held")
  /\ UNCHANGED <<mode, seen, futexVars>>

\* "Not locked exclusive or shared. We can try to grab it."
GrabExclusive(t) ==
  /\ pc[t] = "loop" /\ mode[t] = "exclusive"
  /\ owners = 0
  /\ owners' = 1
  /\ exclusive_waiters' = exclusive_waiters - 2 + (IF HeldExclusive THEN 0 ELSE 1)
  /\ Goto(t, "held")
  /\ UNCHANGED <<mode, seen, futexVars>>

\* Mutant of GrabShared: exclusive waiters are passed by
GrabSharedPastWaiters(t) ==
  /\ pc[t] = "loop" /\ mode[t] = "shared"
  /\ ~ HeldExclusive
  /\ owners' = owners + 1
  /\ Goto(t, "held")
  /\ UNCHANGED <<exclusive_waiters, mode, seen, futexVars>>

\* "Not locked exclusive, and no exclusive waiters."
GrabShared(t) ==
  /\ pc[t] = "loop" /\ mode[t] = "shared"
  /\ exclusive_waiters = 0
  /\ owners' = owners + 1
  /\ Goto(t, "held")
  /\ UNCHANGED <<exclusive_waiters, mode, seen, futexVars>>

\* The lock cannot be had: the compare-exchange of a word with itself reads it
MustWait(t) ==
  /\ pc[t] = "loop"
  /\ IF mode[t] = "exclusive" THEN owners # 0 ELSE exclusive_waiters # 0
  /\ seen' = [seen EXCEPT ![t] =
                [exclusive_waiters |-> exclusive_waiters, owners |-> owners]]
  /\ Goto(t, "compare")
  /\ UNCHANGED <<lockVars, mode, futexVars>>

\* The address a thread sleeps on, and whether it still holds what was seen
WaitAddress(t) == IF mode[t] = "exclusive" THEN "owners" ELSE "word"

\* Mutant of Unchanged: RtlWaitOnAddress does not compare
NotCompared(t) == TRUE

Unchanged(t) ==
  /\ owners = seen[t].owners
  /\ mode[t] = "shared" => exclusive_waiters = seen[t].exclusive_waiters

\* RtlWaitOnAddress under the spin lock
WaitOnAddress(t) ==
  /\ pc[t] = "compare"
  /\ IF Unchanged(t)
     THEN Enqueue(t, WaitAddress(t)) /\ Goto(t, "sleep")
     ELSE UNCHANGED futexVars /\ Goto(t, "loop")
  /\ seen' = [seen EXCEPT ![t] = NoWord]
  /\ UNCHANGED <<lockVars, mode>>

\* NtWaitForAlertByThreadId returns
Alerted(t) ==
  /\ pc[t] = "sleep"
  /\ TakeAlert(t)
  /\ Goto(t, "leave")
  /\ UNCHANGED <<lockVars, mode, seen>>

\* The end of RtlWaitOnAddress, and another turn of the loop
Leave(t) ==
  /\ pc[t] = "leave"
  /\ LeaveQueue(t, WaitAddress(t))
  /\ Goto(t, "loop")
  /\ UNCHANGED <<lockVars, mode, seen>>

\* RtlTryAcquireSRWLockExclusive that returns TRUE
TryAcquireExclusive(t) ==
  /\ pc[t] = "idle"
  /\ owners = 0
  /\ owners' = 1
  /\ exclusive_waiters' = exclusive_waiters + (IF HeldExclusive THEN 0 ELSE 1)
  /\ mode' = [mode EXCEPT ![t] = "exclusive"]
  /\ Goto(t, "held")
  /\ UNCHANGED <<seen, futexVars>>

\* RtlTryAcquireSRWLockShared that returns TRUE
TryAcquireShared(t) ==
  /\ pc[t] = "idle"
  /\ exclusive_waiters = 0
  /\ owners' = owners + 1
  /\ mode' = [mode EXCEPT ![t] = "shared"]
  /\ Goto(t, "held")
  /\ UNCHANGED <<exclusive_waiters, seen, futexVars>>

\* Mutant of ReleaseExclusive: bit 0 stays set
ReleaseKeepsBit(t) ==
  /\ pc[t] = "held" /\ mode[t] = "exclusive"
  /\ owners' = 0
  /\ Goto(t, IF exclusive_waiters # 0 THEN "wake_single" ELSE "wake_all")
  /\ UNCHANGED <<exclusive_waiters, mode, seen, futexVars>>

\* Mutant of ReleaseExclusive: an exclusive waiter is woken, or nobody
ReleaseForgetsReaders(t) ==
  /\ pc[t] = "held" /\ mode[t] = "exclusive"
  /\ owners' = 0
  /\ exclusive_waiters' = exclusive_waiters - (IF HeldExclusive THEN 1 ELSE 0)
  /\ Goto(t, "wake_single")
  /\ UNCHANGED <<mode, seen, futexVars>>

\* Mutant of ReleaseExclusive: the shared waiters are always woken first
ReleaseForgetsWriters(t) ==
  /\ pc[t] = "held" /\ mode[t] = "exclusive"
  /\ owners' = 0
  /\ exclusive_waiters' = exclusive_waiters - (IF HeldExclusive THEN 1 ELSE 0)
  /\ Goto(t, "wake_all")
  /\ UNCHANGED <<mode, seen, futexVars>>

\* RtlReleaseSRWLockExclusive up to the choice of whom to wake
ReleaseExclusive(t) ==
  /\ pc[t] = "held" /\ mode[t] = "exclusive"
  /\ owners' = 0
  /\ exclusive_waiters' = exclusive_waiters - (IF HeldExclusive THEN 1 ELSE 0)
  /\ Goto(t, IF exclusive_waiters' # 0 THEN "wake_single" ELSE "wake_all")
  /\ UNCHANGED <<mode, seen, futexVars>>

\* RtlReleaseSRWLockShared up to the wake of an exclusive waiter
ReleaseShared(t) ==
  /\ pc[t] = "held" /\ mode[t] = "shared"
  /\ owners' = owners - 1
  /\ Goto(t, IF owners' = 0 THEN "wake_single" ELSE "idle")
  /\ UNCHANGED <<exclusive_waiters, mode, seen, futexVars>>

\* RtlWakeAddressSingle( &owners ), under the spin lock
WakeAddressSingle(t) ==
  /\ pc[t] = "wake_single"
  /\ DequeueSingle(t, "owners")
  /\ Goto(t, "alert")
  /\ UNCHANGED <<lockVars, mode, seen>>

\* RtlWakeAddressAll( lock ), under the spin lock
WakeAddressAll(t) ==
  /\ pc[t] = "wake_all"
  /\ DequeueAll(t, "word")
  /\ Goto(t, "alert")
  /\ UNCHANGED <<lockVars, mode, seen>>

\* The alerts that follow, and the return
SendAlert(t) ==
  /\ pc[t] = "alert"
  /\ IF tids[t] = <<>>
     THEN Goto(t, "idle") /\ UNCHANGED futexVars
     ELSE AlertNext(t) /\ UNCHANGED pc
  /\ UNCHANGED <<lockVars, mode, seen>>

Acquire(t) ==
  \/ GrabExclusive(t) \/ GrabShared(t) \/ MustWait(t)
  \/ WaitOnAddress(t) \/ Alerted(t) \/ Leave(t)

Release(t) ==
  \/ ReleaseExclusive(t) \/ ReleaseShared(t)
  \/ WakeAddressSingle(t) \/ WakeAddressAll(t) \/ SendAlert(t)

Call(t) ==
  \/ AcquireExclusive(t) \/ AcquireShared(t)
  \/ TryAcquireExclusive(t) \/ TryAcquireShared(t)

Stray(t) == StrayAlert(t) /\ UNCHANGED <<lockVars, pc, mode, seen>>

Next == \E t \in Threads : Acquire(t) \/ Release(t) \/ Call(t) \/ Stray(t)

Spec == Init /\ [][Next]_vars

\* Threads run: a call once begun goes on, and a lock is not held for ever.
FairSpec == Spec /\ \A t \in Threads : WF_vars(Acquire(t)) /\ WF_vars(Release(t))

-------------------------------------------------------------------------------
Holders(m) == {t \in Threads : pc[t] = "held" /\ mode[t] = m}

\* The exclusive callers counted in exclusive_waiters
Contenders ==
  {t \in Threads : mode[t] = "exclusive" /\ pc[t] \in {"loop", "compare", "sleep", "leave"}}

\* A thread that holds the lock exclusive is its only holder.
MutualExclusion ==
  \A t \in Holders("exclusive") : Holders("exclusive") \union Holders("shared") = {t}

\* The word counts the threads: one unit of owners per holder, bit 0 for an
\* exclusive one, two units of exclusive_waiters per thread that wants it.
WordCounts ==
  /\ owners = Cardinality(Holders("exclusive")) + Cardinality(Holders("shared"))
  /\ exclusive_waiters = 2 * Cardinality(Contenders) + Cardinality(Holders("exclusive"))

\* The lock keeps the promises of RwLock.
Abstract == INSTANCE RwLock WITH
  exclusive <- Holders("exclusive"), shared <- Holders("shared"), wanting <- Contenders

ImplementsRwLock == Abstract!Spec

\* Both fields fit their 16 bits, so the carry-free arithmetic is that of the code.
FieldsFit == owners <= USHRT_MAX /\ exclusive_waiters <= USHRT_MAX

\* A thread asleep whom nobody has alerted
Asleep(t) == pc[t] = "sleep" /\ ~ alert[t]

\* While exclusive callers sleep and the lock is free, the wake that is due to one
\* of them is on its way, or another exclusive caller is awake.
ExclusiveWakeDue ==
  owners = 0 /\ (\E t \in Contenders : Asleep(t)) =>
    \/ \E t \in Contenders : ~ Asleep(t)
    \/ \E t \in Threads :
         \/ pc[t] = "wake_single"
         \/ pc[t] = "alert" /\ \E u \in ToSet(tids[t]) : u \in Contenders

\* A shared caller that sleeps while nobody wants the lock exclusive has its wake
\* on the way.
SharedWakeDue ==
  exclusive_waiters = 0 =>
    \A t \in Threads :
      mode[t] = "shared" /\ Asleep(t) =>
        \E u \in Threads :
          \/ pc[u] = "wake_all" /\ Queued(t, "word")
          \/ pc[u] = "alert" /\ t \in ToSet(tids[u])

\* A lock that is wanted is not left free for ever: some thread gets it.
WantedIsTaken ==
  (\E t \in Threads : pc[t] \in {"loop", "compare", "sleep", "leave"}) ~> owners # 0

\* A reader is not forgotten: once no thread wants the lock exclusive any more,
\* every shared caller gets it.
ReadersServed ==
  \A t \in Threads :
    (mode[t] = "shared" /\ pc[t] = "sleep")
      ~> (pc[t] = "held" \/ \E u \in Threads : mode[u] = "exclusive" /\ pc[u] # "idle")
=============================================================================
