-------------------------------- MODULE Futex --------------------------------
(***************************************************************************)
(* RtlWaitOnAddress, RtlWakeAddressSingle and RtlWakeAddressAll of         *)
(* dlls/ntdll/sync.c over the per-thread alert flag of                     *)
(* dlls/ntdll/unix/sync.c: the sleeping layer under SRW locks, critical    *)
(* sections and condition variables.                                       *)
(*                                                                         *)
(* Each spin-locked section is one step.  A waker collects the threads it  *)
(* took off the queue and alerts them after the spin lock is released, one *)
(* by one, so an alert can arrive long after its thread has left the       *)
(* queue, or has gone on to another wait.                                  *)
(***************************************************************************)
EXTENDS Integers, SequencesExt

CONSTANTS
  Threads,
  Addresses  \* the addresses waited on

VARIABLES
  futex_queue,  \* the entries of each address, by thread, in order
  alert,        \* the tid_alert_entry of each thread
  tids          \* the threads each thread has yet to alert

futexVars == <<futex_queue, alert, tids>>

FutexTypeOK ==
  /\ futex_queue \in [Addresses -> Seq(Threads)]
  /\ alert \in [Threads -> BOOLEAN]
  /\ tids \in [Threads -> Seq(Threads)]

FutexInit ==
  /\ futex_queue = [a \in Addresses |-> <<>>]
  /\ alert = [t \in Threads |-> FALSE]
  /\ tids = [t \in Threads |-> <<>>]

Queued(t, a) == t \in ToSet(futex_queue[a])

\* RtlWaitOnAddress, the value still being the one compared with: wait in line
Enqueue(t, a) ==
  /\ futex_queue' = [futex_queue EXCEPT ![a] = Append(@, t)]
  /\ UNCHANGED <<alert, tids>>

\* NtWaitForAlertByThreadId returns STATUS_ALERTED
TakeAlert(t) ==
  /\ alert[t]
  /\ alert' = [alert EXCEPT ![t] = FALSE]
  /\ UNCHANGED <<futex_queue, tids>>

\* The end of RtlWaitOnAddress: the entry is removed unless a waker did it
LeaveQueue(t, a) ==
  /\ futex_queue' = [futex_queue EXCEPT ![a] = RemoveFirst(@, t)]
  /\ UNCHANGED <<alert, tids>>

\* RtlWakeAddressSingle under the spin lock
DequeueSingle(t, a) ==
  /\ futex_queue' = [futex_queue EXCEPT ![a] = IF @ = <<>> THEN @ ELSE Tail(@)]
  /\ tids' = [tids EXCEPT ![t] = IF futex_queue[a] = <<>> THEN <<>>
                                 ELSE <<Head(futex_queue[a])>>]
  /\ UNCHANGED alert

\* Mutant of DequeueAll: the walk stops after the first entry
DequeueAllFirst(t, a) == DequeueSingle(t, a)

\* RtlWakeAddressAll under the spin lock
DequeueAll(t, a) ==
  /\ futex_queue' = [futex_queue EXCEPT ![a] = <<>>]
  /\ tids' = [tids EXCEPT ![t] = futex_queue[a]]
  /\ UNCHANGED alert

\* NtAlertThreadByThreadId, or one turn of NtAlertMultipleThreadByThreadId
AlertNext(t) ==
  /\ tids[t] # <<>>
  /\ alert' = [alert EXCEPT ![Head(tids[t])] = TRUE]
  /\ tids' = [tids EXCEPT ![t] = Tail(@)]
  /\ UNCHANGED futex_queue

\* An alert from elsewhere: a late one of an earlier wait that timed out, or a
\* program's own call of NtAlertThreadByThreadId
StrayAlert(t) ==
  /\ ~ alert[t]
  /\ alert' = [alert EXCEPT ![t] = TRUE]
  /\ UNCHANGED <<futex_queue, tids>>
=============================================================================
