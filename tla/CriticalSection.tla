--------------------------- MODULE CriticalSection ---------------------------
(***************************************************************************)
(* Critical sections and condition variables of dlls/ntdll/sync.c, over    *)
(* the address waits of Futex, as a program of several threads uses them:  *)
(* each thread works through a list of calls, and between two of its steps *)
(* any other thread may run.                                               *)
(*                                                                         *)
(* A section is passed on through LockSemaphore: who leaves it to a waiter *)
(* sets it to 1 and wakes one, and whoever first sets it back to 0 has the *)
(* section.  The fields OwningThread and RecursionCount are written by the *)
(* owner alone and compared by a thread with itself, so they change in the *)
(* step of the owner next to them.  Spinning (SpinCount) adds only failed  *)
(* attempts: it gets the section by the same change of LockCount.          *)
(***************************************************************************)
EXTENDS Futex, FiniteSets

CONSTANTS
  Programs,   \* the lists of calls that each thread may start with
  NoThread,   \* OwningThread = 0
  StartMax,   \* bound: the programs started in all
  TimeoutMax, \* bound: the condition waits that time out
  StrayMax    \* bound: the alerts that come from elsewhere

Calls == {"enter", "try", "leave", "put", "take", "wake_one", "wake_all", "wait"}

ASSUME AddressAssumption == Addresses = {"LockSemaphore", "Ptr"}
ASSUME ThreadsAssumption == IsFiniteSet(Threads)
ASSUME ProgramAssumption == Programs \in [Threads -> SUBSET Seq(Calls)]

\* How much more often a thread has the section after a call
Change(call) == IF call \in {"enter", "try"} THEN 1 ELSE IF call = "leave" THEN -1 ELSE 0

\* The calls s are proper ones for a thread that has the section d[1] times, and d[i]
\* times before the i-th of them: it leaves what it has, waits for the condition
\* inside, and has left the section as often as entered when it ends
Nested(s, d) ==
  /\ \A i \in 1..Len(s) :
       /\ d[i + 1] = d[i] + Change(s[i])
       /\ s[i] \in {"leave", "take"} => d[i] > 0
  /\ d[Len(s) + 1] = 0

ASSUME NestingAssumption ==
  \A t \in Threads : \A p \in Programs[t] :
    \E d \in [1..(Len(p) + 1) -> 0..Len(p)] : d[1] = 0 /\ Nested(p, d)

ASSUME NoThreadAssumption == NoThread \notin Threads
ASSUME BoundAssumption == {StartMax, TimeoutMax, StrayMax} \subseteq Nat

VARIABLES
  LockCount, RecursionCount, OwningThread, LockSemaphore,  \* RTL_CRITICAL_SECTION
  Ptr,       \* RTL_CONDITION_VARIABLE
  items,     \* what the section protects: the program's condition is items > 0
  todo,      \* the calls each thread has yet to make, from the one it is in
  pc,        \* where it is in that call
  value,     \* the value RtlSleepConditionVariableCS read
  timedOut,  \* its last condition wait returned STATUS_TIMEOUT
  depth,     \* how often each thread has the section
  starts, timeouts, strays  \* what the bounds count

section  == <<LockCount, RecursionCount, OwningThread, LockSemaphore, depth>>
program  == <<items, value, timedOut>>
bounds   == <<starts, timeouts, strays>>
vars     == <<section, Ptr, program, todo, pc, bounds, futexVars>>

Pc == {"call", "semaphore", "compare", "sleep", "remove", "release", "unwait", "wake", "alert"}

TypeOK ==
  /\ LockCount \in Nat \cup {-1}
  /\ RecursionCount \in Nat
  /\ OwningThread \in Threads \cup {NoThread}
  /\ LockSemaphore \in 0 .. 1
  /\ {Ptr, items, starts, timeouts, strays} \subseteq Nat
  /\ todo \in [Threads -> Seq(Calls)]
  /\ pc \in [Threads -> Pc]
  /\ value \in [Threads -> Nat]
  /\ timedOut \in [Threads -> BOOLEAN]
  /\ depth \in [Threads -> Nat]
  /\ FutexTypeOK

\* RtlInitializeCriticalSectionEx and RtlInitializeConditionVariable
Init ==
  /\ LockCount = -1 /\ RecursionCount = 0 /\ OwningThread = NoThread
  /\ LockSemaphore = 0
  /\ Ptr = 0
  /\ items = 0
  /\ todo = [t \in Threads |-> <<>>]
  /\ pc = [t \in Threads |-> "call"]
  /\ value = [t \in Threads |-> 0]
  /\ timedOut = [t \in Threads |-> FALSE]
  /\ depth = [t \in Threads |-> 0]
  /\ starts = 0 /\ timeouts = 0 /\ strays = 0
  /\ FutexInit

In(t, call, l) == todo[t] # <<>> /\ Head(todo[t]) = call /\ pc[t] = l

Goto(t, l) == pc' = [pc EXCEPT ![t] = l] /\ UNCHANGED todo

\* The call returns, and the thread goes on with the calls of rest
Continue(t, rest) ==
  /\ todo' = [todo EXCEPT ![t] = rest]
  /\ pc' = [pc EXCEPT ![t] = "call"]

Return(t) == Continue(t, Tail(todo[t]))

\* A thread starts one of the programs
Start(t) ==
  /\ todo[t] = <<>>
  /\ starts < StartMax
  /\ starts' = starts + 1
  /\ timedOut' = [timedOut EXCEPT ![t] = FALSE]
  /\ \E p \in Programs[t] : Continue(t, p)
  /\ UNCHANGED <<section, Ptr, items, value, timeouts, strays, futexVars>>

-------------------------------------------------------------------------------
\* The end of RtlEnterCriticalSection for a thread that did not have it
Own(t) ==
  /\ OwningThread' = t
  /\ RecursionCount' = 1
  /\ depth' = [depth EXCEPT ![t] = 1]

\* The thread has the section already
Recurse(t) ==
  /\ OwningThread = t
  /\ RecursionCount' = RecursionCount + 1
  /\ depth' = [depth EXCEPT ![t] = @ + 1]
  /\ UNCHANGED OwningThread

\* RtlEnterCriticalSection: InterlockedIncrement of LockCount
RtlEnterCriticalSection(t) ==
  /\ In(t, "enter", "call")
  /\ LockCount' = LockCount + 1
  /\ \/ LockCount = -1 /\ Own(t) /\ Return(t)
     \/ LockCount # -1 /\ Recurse(t) /\ Return(t)
     \/ /\ LockCount # -1 /\ OwningThread # t
        /\ Goto(t, "semaphore")
        /\ UNCHANGED <<RecursionCount, OwningThread, depth>>
  /\ UNCHANGED <<LockSemaphore, Ptr, program, bounds, futexVars>>

\* RtlTryEnterCriticalSection; a thread that does not get the section does
\* without it
RtlTryEnterCriticalSection(t) ==
  /\ In(t, "try", "call")
  /\ \/ LockCount = -1 /\ Own(t) /\ LockCount' = 0 /\ Return(t)
     \/ LockCount # -1 /\ Recurse(t) /\ LockCount' = LockCount + 1 /\ Return(t)
     \/ /\ LockCount # -1 /\ OwningThread # t
        /\ Continue(t, <<>>)
        /\ UNCHANGED <<LockCount, RecursionCount, OwningThread, depth>>
  /\ UNCHANGED <<LockSemaphore, Ptr, program, bounds, futexVars>>

\* Mutant of wait_semaphore: LockSemaphore is tested, and not reset
wait_semaphoreUnreset(t) ==
  /\ In(t, "enter", "semaphore")
  /\ \/ LockSemaphore = 1 /\ Own(t) /\ Return(t)
     \/ /\ LockSemaphore = 0 /\ Goto(t, "compare")
        /\ UNCHANGED <<OwningThread, RecursionCount, depth>>
  /\ UNCHANGED <<LockSemaphore, LockCount, Ptr, program, bounds, futexVars>>

\* wait_semaphore in RtlpWaitForCriticalSection: InterlockedCompareExchange of
\* LockSemaphore, at the head of the loop and after every time-out
wait_semaphore(t) ==
  /\ In(t, "enter", "semaphore")
  /\ \/ LockSemaphore = 1 /\ LockSemaphore' = 0 /\ Own(t) /\ Return(t)
     \/ /\ LockSemaphore = 0 /\ Goto(t, "compare")
        /\ UNCHANGED <<LockSemaphore, OwningThread, RecursionCount, depth>>
  /\ UNCHANGED <<LockCount, Ptr, program, bounds, futexVars>>

\* RtlLeaveCriticalSection up to the InterlockedDecrement; only who has the
\* section calls it
RtlLeaveCriticalSection(t) ==
  /\ In(t, "leave", "call")
  /\ RecursionCount' = RecursionCount - 1
  /\ depth' = [depth EXCEPT ![t] = @ - 1]
  /\ \/ RecursionCount > 1 /\ LockCount' = LockCount - 1 /\ Return(t) /\ UNCHANGED OwningThread
     \/ /\ RecursionCount = 1
        /\ OwningThread' = NoThread /\ Goto(t, "release") /\ UNCHANGED LockCount
  /\ UNCHANGED <<LockSemaphore, Ptr, program, bounds, futexVars>>

\* Its InterlockedDecrement: is someone waiting?
ReleaseSection(t) ==
  /\ In(t, "leave", "release")
  /\ LockCount' = LockCount - 1
  /\ \/ LockCount >= 1 /\ Goto(t, "unwait")
     \/ LockCount = 0 /\ Return(t)
  /\ UNCHANGED <<RecursionCount, OwningThread, LockSemaphore, depth>>
  /\ UNCHANGED <<Ptr, program, bounds, futexVars>>

\* RtlpUnWaitCriticalSection: InterlockedExchange of LockSemaphore
RtlpUnWaitCriticalSection(t) ==
  /\ In(t, "leave", "unwait")
  /\ LockSemaphore' = 1
  /\ Goto(t, "wake")
  /\ UNCHANGED <<LockCount, RecursionCount, OwningThread, depth>>
  /\ UNCHANGED <<Ptr, program, bounds, futexVars>>

-------------------------------------------------------------------------------
\* The program's condition: an item is there from now on
Put(t) ==
  /\ In(t, "put", "call")
  /\ items' = items + 1
  /\ Return(t)
  /\ UNCHANGED <<section, Ptr, value, timedOut, bounds, futexVars>>

\* The program takes an item, or calls RtlSleepConditionVariableCS and tries
\* again, but for once after a time-out
Take(t) ==
  /\ In(t, "take", "call")
  /\ \/ items > 0 /\ items' = items - 1 /\ Return(t) /\ UNCHANGED value
     \/ items = 0 /\ timedOut[t] /\ Return(t) /\ UNCHANGED <<items, value>>
     \/ /\ items = 0 /\ ~ timedOut[t]
        /\ value' = [value EXCEPT ![t] = Ptr]
        /\ Continue(t, <<"leave", "wait", "enter">> \o todo[t])
        /\ UNCHANGED items
  /\ UNCHANGED <<section, Ptr, timedOut, bounds, futexVars>>

\* RtlSleepConditionVariableCS has left the section
BeginWait(t) ==
  /\ In(t, "wait", "call")
  /\ Goto(t, "compare")
  /\ UNCHANGED <<section, Ptr, program, bounds, futexVars>>

\* Mutant of Signal: the value stays as it is
SignalUncounted(t) ==
  /\ In(t, "wake_one", "call") \/ In(t, "wake_all", "call")
  /\ Goto(t, "wake")
  /\ UNCHANGED <<section, Ptr, program, bounds, futexVars>>

\* RtlWakeConditionVariable and RtlWakeAllConditionVariable: the
\* InterlockedIncrement.  32 bits are more than the wakes of any run.
Signal(t) ==
  /\ In(t, "wake_one", "call") \/ In(t, "wake_all", "call")
  /\ Ptr' = Ptr + 1
  /\ Goto(t, "wake")
  /\ UNCHANGED <<section, program, bounds, futexVars>>

-------------------------------------------------------------------------------
\* The address a waiting thread waits on, and whether it still has the value
\* waited on
Address(t) == IF Head(todo[t]) = "enter" THEN "LockSemaphore" ELSE "Ptr"
Unchanged(t) == IF Address(t) = "Ptr" THEN Ptr = value[t] ELSE LockSemaphore = 0

\* RtlWaitOnAddress returns: the section is tried again, or the condition wait
\* is over
WaitReturns(t) == IF Address(t) = "LockSemaphore" THEN Goto(t, "semaphore") ELSE Return(t)

\* RtlWaitOnAddress: the comparison under the spin lock
Compare(t) ==
  /\ pc[t] = "compare"
  /\ \/ Unchanged(t) /\ Enqueue(t, Address(t)) /\ Goto(t, "sleep")
     \/ ~ Unchanged(t) /\ WaitReturns(t) /\ UNCHANGED futexVars
  /\ UNCHANGED <<section, Ptr, program, bounds>>

\* NtWaitForAlertByThreadId returns STATUS_ALERTED
Alerted(t) ==
  /\ pc[t] = "sleep"
  /\ TakeAlert(t)
  /\ Goto(t, "remove")
  /\ UNCHANGED <<section, Ptr, program, bounds>>

\* NtWaitForAlertByThreadId returns STATUS_TIMEOUT, which it may do although
\* the alert has just come, or is about to
TimesOut(t) ==
  /\ pc[t] = "sleep"
  /\ timeouts < TimeoutMax
  /\ timeouts' = timeouts + 1
  /\ timedOut' = [timedOut EXCEPT ![t] = @ \/ Address(t) = "Ptr"]
  /\ Goto(t, "remove")
  /\ UNCHANGED <<section, Ptr, items, value, starts, strays, futexVars>>

\* The end of RtlWaitOnAddress
RemoveEntry(t) ==
  /\ pc[t] = "remove"
  /\ LeaveQueue(t, Address(t))
  /\ WaitReturns(t)
  /\ UNCHANGED <<section, Ptr, program, bounds>>

\* RtlWakeAddressSingle or RtlWakeAddressAll under the spin lock
WakeAddress(t) ==
  /\ pc[t] = "wake"
  /\ CASE Head(todo[t]) = "leave"    -> DequeueSingle(t, "LockSemaphore")
       [] Head(todo[t]) = "wake_one" -> DequeueSingle(t, "Ptr")
       [] Head(todo[t]) = "wake_all" -> DequeueAll(t, "Ptr")
  /\ Goto(t, "alert")
  /\ UNCHANGED <<section, Ptr, program, bounds>>

\* The alerts, and the return
SendAlert(t) ==
  /\ pc[t] = "alert"
  /\ \/ AlertNext(t) /\ Goto(t, "alert")
     \/ tids[t] = <<>> /\ Return(t) /\ UNCHANGED futexVars
  /\ UNCHANGED <<section, Ptr, program, bounds>>

Stray(t) ==
  /\ strays < StrayMax
  /\ strays' = strays + 1
  /\ StrayAlert(t)
  /\ UNCHANGED <<section, Ptr, program, todo, pc, starts, timeouts>>

-------------------------------------------------------------------------------
\* What a running thread does by itself
Step(t) ==
  \/ RtlEnterCriticalSection(t) \/ RtlTryEnterCriticalSection(t) \/ wait_semaphore(t)
  \/ RtlLeaveCriticalSection(t) \/ ReleaseSection(t) \/ RtlpUnWaitCriticalSection(t)
  \/ Put(t) \/ Take(t) \/ BeginWait(t) \/ Signal(t)
  \/ Compare(t) \/ Alerted(t) \/ RemoveEntry(t) \/ WakeAddress(t) \/ SendAlert(t)

Next == \E t \in Threads : Step(t) \/ Start(t) \/ TimesOut(t) \/ Stray(t)

Spec == Init /\ [][Next]_vars

\* The host runs every thread that can run.  No time-out is counted on: a wait
\* for the section gives up after 5 s and tries again, which would cure any
\* wake that was lost.
FairSpec == Spec /\ \A t \in Threads : WF_vars(Step(t))

-------------------------------------------------------------------------------
\* A thread has counted itself in LockCount and waits for the section
Waits(t) == /\ todo[t] # <<>> /\ Head(todo[t]) = "enter"
            /\ pc[t] \in {"semaphore", "compare", "sleep", "remove"}

\* A thread has given the section up and not yet counted itself out, or not yet
\* passed it on
GivesUp(t) == In(t, "leave", "release")
PassesOn(t) == In(t, "leave", "unwait")

\* However leaving and entering threads overlap, the section is in one place: with
\* one thread, with one that is leaving it, or free in LockSemaphore for one that
\* waits; LockCount counts what holds or waits, RecursionCount what the owner holds.
\* (RtlEnterCriticalSection, wait_semaphore, RtlLeaveCriticalSection)
HandedOver ==
  LET owners  == {t \in Threads : depth[t] > 0}
      leaving == {t \in Threads : GivesUp(t)}
      waiting == {t \in Threads : Waits(t)}
      passing == {t \in Threads : PassesOn(t)}
  IN /\ Cardinality(owners \cup leaving \cup passing) + LockSemaphore
          = IF LockCount = -1 THEN 0 ELSE 1
     /\ LockCount + 1 = RecursionCount + Cardinality(leaving) + Cardinality(waiting)
     /\ \A t \in owners : OwningThread = t /\ RecursionCount = depth[t]
     /\ LockSemaphore = 1 => waiting # {}

\* No wake is lost between a section and a condition variable, also when it meets a
\* wait that is about to begin, that times out or that an alert from elsewhere ends:
\* every thread gets through its calls, and only one that has nothing to take stays
\* asleep.  (RtlSleepConditionVariableCS, RtlWakeConditionVariable,
\* RtlpUnWaitCriticalSection, RtlWaitOnAddress)
NobodyForgotten ==
  \A t \in Threads :
    []<>(todo[t] = <<>> \/ (In(t, "wait", "sleep") /\ items = 0))
=============================================================================
