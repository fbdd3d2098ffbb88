------------------------------ MODULE ServerWait ------------------------------
(***************************************************************************)
(* The wait core of the Wine server: threads that select on kernel         *)
(* synchronisation objects, and the objects that wake them.                *)
(*                                                                         *)
(*   server/thread.c     wait_on, check_wait, end_wait, wake_thread,       *)
(*                       wake_up, select_on, thread_timeout, queue_apc,    *)
(*                       suspend/resume, kill_thread                       *)
(*   server/mutex.c      do_grab, do_release, abandon_mutexes              *)
(*   server/semaphore.c  release_semaphore                                 *)
(*   server/event.c      event_sync_signal, event_op                       *)
(*                                                                         *)
(* The server is one thread: a request, a timer or a hangup is handled to  *)
(* the end before the next one is looked at.  A handler is not atomic in   *)
(* what it computes, though: wake_up() walks a queue, every wake can find  *)
(* a dead client (EPIPE), that kills the client's thread, which releases   *)
(* its mutexes, which walks other queues.  The C call stack of that        *)
(* recursion is the variable stack; a request is accepted only when it is  *)
(* empty, and every step below a request is the step of its top frame.     *)
(***************************************************************************)
EXTENDS Integers, SequencesExt

CONSTANTS
  Threads,        \* the client threads; a thread is also an object to wait on
  AutoEvents,     \* events created with manual = 0
  ManualEvents,   \* events created with manual = 1
  Mutexes,
  Semaphores,
  SemMax,         \* the semaphores' max
  CountMax,       \* bound: recursion count of a mutex
  SuspendMax,     \* MAXIMUM_SUSPEND_COUNT
  ApcMax,         \* bound: length of an APC queue
  Requests,       \* the select requests clients make
  Mortal,         \* the threads that may be killed or die
  NoThread,
  NoWait

\* Statuses, as in ntstatus.h; NotReady is the -1 of check_wait.
NotReady                == -1
STATUS_WAIT_0           == 0
STATUS_ABANDONED_WAIT_0 == 128
STATUS_USER_APC         == 192
STATUS_KERNEL_APC       == 256
STATUS_TIMEOUT          == 258
Failure                 == 512  \* any error status

Events  == AutoEvents \union ManualEvents \union Threads
Objects == Events \union Mutexes \union Semaphores

\* A deadline is never, still to come, or not after current_time.
Deadline == {"infinite", "future", "past"}

(***************************************************************************)
(* What a client passes to select: SELECT_WAIT, SELECT_WAIT_ALL or         *)
(* SELECT_SIGNAL_AND_WAIT.  The handles of one request denote different    *)
(* objects.                                                                *)
(***************************************************************************)
ObjectLists ==
  {q \in Seq(Objects) :
     Len(q) \in 1..64 /\ \A i, j \in 1..Len(q) : q[i] = q[j] => i = j}

Request ==
  [select : {"wait", "wait_all"}, objs : ObjectLists, signal : {NoThread},
   interruptible : BOOLEAN, alertable : BOOLEAN, when : Deadline]
  \union
  [select : {"signal_and_wait"}, objs : {q \in ObjectLists : Len(q) = 1},
   signal : AutoEvents \union ManualEvents \union Mutexes \union Semaphores,
   interruptible : BOOLEAN, alertable : BOOLEAN, when : Deadline]

\* A thread_wait; cookie = 0 while select_on is still setting it up, user is
\* the armed timeout.
Wait ==
  [select : {"wait", "wait_all", "signal_and_wait"}, objs : ObjectLists,
   interruptible : BOOLEAN, alertable : BOOLEAN, when : Deadline,
   user : BOOLEAN, cookie : BOOLEAN]

ASSUME ConstantsAssumption ==
  /\ SemMax \in Nat \ {0}
  /\ CountMax \in Nat \ {0}
  /\ SuspendMax \in Nat
  /\ ApcMax \in Nat
  /\ NoThread \notin Threads \union Objects
  /\ NoWait \notin Wait
  /\ Mortal \subseteq Threads

ASSUME DisjointAssumption ==
  /\ AutoEvents \intersect (ManualEvents \union Threads) = {}
  /\ ManualEvents \intersect Threads = {}
  /\ Mutexes \intersect (Events \union Semaphores) = {}
  /\ Semaphores \intersect Events = {}

ASSUME RequestsAssumption == \A r \in Requests : r \in Request

VARIABLES
  state,      \* struct thread.state
  gone,       \* the Unix thread is dead and its end of the pipes is closed
  exit_poll,  \* check_terminated() polls for the end of the Unix thread
  suspend,    \* struct thread.suspend
  system_apc, \* length of the queue of system APCs
  user_apc,   \* length of the queue of user APCs
  wait,       \* struct thread.wait: the thread_wait, or NoWait
  queue,      \* struct object.wait_queue of each object, its threads in order
  signaled,   \* struct event_sync.signaled, also of a thread's own sync
  sem,        \* struct semaphore_sync.count
  owner,      \* struct mutex_sync.owner
  count,      \* struct mutex_sync.count
  abandoned,  \* struct mutex_sync.abandoned
  stack,      \* the server's call stack: the frames still to be worked off
  out,        \* the reply the last step sent, if it sent one
  believed    \* how often a thread was told it has a mutex, less its releases

objVars    == <<signaled, sem, owner, count, abandoned>>
apcVars    == <<suspend, system_apc, user_apc>>
threadVars == <<gone, exit_poll>>
vars       == <<state, threadVars, apcVars, wait, queue, objVars, stack, out, believed>>

NoReply == [thread |-> NoThread, status |-> NotReady]

(***************************************************************************)
(* Frames.  "wake": wake_up(obj, max); "wake_thread": wake_thread(thr);    *)
(* "reset": the reset_event() of a pulse; "abandon": the loop of           *)
(* abandon_mutexes(thr); "exit" and "poll": the rest of kill_thread(thr)   *)
(* after it; "select": the rest of select_on() after signal_object(), for  *)
(* a wait of thr on obj.                                                   *)
(***************************************************************************)
Frame ==
  [op : {"wake"}, obj : Objects, thr : {NoThread}, max : Nat]
  \union [op : {"reset"}, obj : AutoEvents \union ManualEvents, thr : {NoThread}, max : {0}]
  \union [op : {"wake_thread", "abandon", "exit", "poll"}, obj : {NoThread}, thr : Threads,
          max : {0}]
  \union [op : {"select"}, obj : Objects, thr : Threads, max : {0}]

WakeFrame(o, n)  == [op |-> "wake", obj |-> o, thr |-> NoThread, max |-> n]
ThreadFrame(t)   == [op |-> "wake_thread", obj |-> NoThread, thr |-> t, max |-> 0]
ResetFrame(o)    == [op |-> "reset", obj |-> o, thr |-> NoThread, max |-> 0]
AbandonFrame(t)  == [op |-> "abandon", obj |-> NoThread, thr |-> t, max |-> 0]
ExitFrame(t)     == [op |-> "exit", obj |-> NoThread, thr |-> t, max |-> 0]
PollFrame(t)     == [op |-> "poll", obj |-> NoThread, thr |-> t, max |-> 0]
SelectFrame(t,o) == [op |-> "select", obj |-> o, thr |-> t, max |-> 0]

Status ==
  {NotReady, STATUS_USER_APC, STATUS_KERNEL_APC, STATUS_TIMEOUT, Failure}
  \union 0..63 \union 128..191

TypeOK ==
  /\ state \in [Threads -> {"RUNNING", "TERMINATED"}]
  /\ gone \in [Threads -> BOOLEAN]
  /\ exit_poll \in [Threads -> BOOLEAN]
  /\ suspend \in [Threads -> 0..SuspendMax]
  /\ system_apc \in [Threads -> 0..ApcMax]
  /\ user_apc \in [Threads -> 0..ApcMax]
  /\ wait \in [Threads -> Wait \union {NoWait}]
  /\ queue \in [Objects -> Seq(Threads)]
  /\ signaled \in [Events -> BOOLEAN]
  /\ sem \in [Semaphores -> 0..SemMax]
  /\ owner \in [Mutexes -> Threads \union {NoThread}]
  /\ count \in [Mutexes -> 0..CountMax]
  /\ abandoned \in [Mutexes -> BOOLEAN]
  /\ stack \in Seq(Frame)
  /\ out \in [thread : Threads \union {NoThread}, status : Status]
  /\ believed \in [Threads -> [Mutexes -> Int]]

Init ==
  /\ state = [t \in Threads |-> "RUNNING"]
  /\ gone = [t \in Threads |-> FALSE]
  /\ exit_poll = [t \in Threads |-> FALSE]
  /\ suspend = [t \in Threads |-> 0]
  /\ system_apc = [t \in Threads |-> 0]
  /\ user_apc = [t \in Threads |-> 0]
  /\ wait = [t \in Threads |-> NoWait]
  /\ queue = [o \in Objects |-> <<>>]
  /\ signaled = [o \in Events |-> FALSE]
  /\ sem = [s \in Semaphores |-> 0]
  /\ owner = [m \in Mutexes |-> NoThread]
  /\ count = [m \in Mutexes |-> 0]
  /\ abandoned = [m \in Mutexes |-> FALSE]
  /\ stack = <<>>
  /\ out = NoReply
  /\ believed = [t \in Threads |-> [m \in Mutexes |-> 0]]

-------------------------------------------------------------------------------
\* is_thread_suspended(), in a process that is not itself suspended
Suspended(t) == suspend[t] > 0

\* The signaled() of each type of object; a mutex is asked for the waiter t.
EventSignaled(o)     == signaled[o]
SemaphoreSignaled(o) == sem[o] > 0
MutexSignaled(o, t)  == count[o] = 0 \/ owner[o] = t

Signaled(o, t) ==
  \/ o \in Events /\ EventSignaled(o)
  \/ o \in Semaphores /\ SemaphoreSignaled(o)
  \/ o \in Mutexes /\ MutexSignaled(o, t)

\* The objects of w let the wait of t end.
ObjectsReady(t, w) ==
  IF w.select = "wait_all"
  THEN \A i \in 1..Len(w.objs) : Signaled(w.objs[i], t)
  ELSE \E i \in 1..Len(w.objs) : Signaled(w.objs[i], t)

FirstSignaled(t, w) == Min({i \in 1..Len(w.objs) : Signaled(w.objs[i], t)})

\* check_wait(): the status with which the wait w of t ends now
CheckWait(t, w) ==
  IF w.interruptible /\ system_apc[t] > 0 THEN STATUS_KERNEL_APC
  ELSE IF Suspended(t) THEN NotReady
  ELSE IF ObjectsReady(t, w)
       THEN IF w.select = "wait_all" THEN STATUS_WAIT_0 ELSE FirstSignaled(t, w) - 1
  ELSE IF w.alertable /\ user_apc[t] > 0 THEN STATUS_USER_APC
  ELSE IF w.when = "past" THEN STATUS_TIMEOUT
  ELSE NotReady

\* Mutant of Satisfied: a WAIT_ALL satisfies only its first object
SatisfiedFirst(w, status) ==
  IF status \notin 0..(Len(w.objs) - 1) THEN {} ELSE {w.objs[status + 1]}

\* The objects end_wait() tells that the wait w, ending with status, is satisfied
Satisfied(w, status) ==
  IF status \notin 0..(Len(w.objs) - 1) THEN {}
  ELSE IF w.select = "wait_all" THEN ToSet(w.objs)
  ELSE {w.objs[status + 1]}

\* the satisfied() of every object in S, for the waiter t
Grant(t, S) ==
  /\ signaled' = [o \in Events |-> signaled[o] /\ o \notin S \intersect AutoEvents]
  /\ sem' = [s \in Semaphores |-> IF s \in S THEN sem[s] - 1 ELSE sem[s]]
  /\ owner' = [m \in Mutexes |-> IF m \in S THEN t ELSE owner[m]]
  /\ count' = [m \in Mutexes |-> IF m \in S THEN count[m] + 1 ELSE count[m]]
  /\ abandoned' = [m \in Mutexes |-> abandoned[m] /\ m \notin S]

\* Mutant of FinalStatus: make_wait_abandoned() is forgotten for WAIT_ALL
FinalStatusAnyOnly(w, status) ==
  IF w.select # "wait_all" /\ \E m \in Satisfied(w, status) \intersect Mutexes : abandoned[m]
  THEN status + STATUS_ABANDONED_WAIT_0
  ELSE status

\* the status end_wait() returns: make_wait_abandoned() adds to it
FinalStatus(w, status) ==
  IF \E m \in Satisfied(w, status) \intersect Mutexes : abandoned[m]
  THEN status + STATUS_ABANDONED_WAIT_0
  ELSE status

\* Mutant of Unlink: the entries stay on the queues
UnlinkWaitOnly(t) == wait' = [wait EXCEPT ![t] = NoWait] /\ UNCHANGED queue

\* remove_queue() for every object of the wait, and thread->wait = wait->next
Unlink(t) ==
  /\ queue' = [o \in Objects |-> RemoveFirst(queue[o], t)]
  /\ wait' = [wait EXCEPT ![t] = NoWait]

\* add_queue() for every object of the wait
Link(t, w) ==
  /\ queue' = [o \in Objects |->
                 IF o \in ToSet(w.objs) THEN Append(queue[o], t) ELSE queue[o]]
  /\ wait' = [wait EXCEPT ![t] = w]

\* What the client of t concludes from a status: the mutexes it now has
Concluded(objs, all, status) ==
  LET n == IF status \in 128..191 THEN status - STATUS_ABANDONED_WAIT_0 ELSE status
  IN IF n \notin 0..(Len(objs) - 1) THEN {}
     ELSE (IF all THEN ToSet(objs) ELSE {objs[n + 1]}) \intersect Mutexes

\* A reply of status reaches the client of t
Tell(t, objs, all, status) ==
  /\ out' = [thread |-> t, status |-> status]
  /\ believed' = [believed EXCEPT ![t] =
       [m \in Mutexes |-> IF m \in Concluded(objs, all, status) THEN @[m] + 1 ELSE @[m]]]

Silent == out' = NoReply /\ UNCHANGED believed

(***************************************************************************)
(* wake_thread(t) when check_wait has returned status, and the stack that  *)
(* the caller continues with: woken after a wake, failed after the EPIPE   *)
(* of a client that is gone, on top of which kill_thread(t, 0) runs.       *)
(***************************************************************************)
WakeThread(t, status, woken, failed) ==
  LET w == wait[t] IN
  /\ Grant(t, Satisfied(w, status))
  /\ Unlink(t)
  /\ IF w.cookie /\ gone[t]
     THEN /\ state' = [state EXCEPT ![t] = "TERMINATED"]
          /\ stack' = <<AbandonFrame(t), ExitFrame(t)>> \o failed
          /\ Silent
     ELSE /\ stack' = woken
          /\ IF w.cookie
             THEN Tell(t, w.objs, w.select = "wait_all", FinalStatus(w, status))
             ELSE Silent
          /\ UNCHANGED state

-------------------------------------------------------------------------------
(* The steps of the top frame.                                             *)

Top  == Head(stack)
Rest == Tail(stack)

\* The places in the queue of o whose threads a walk over it would wake
Wakeable(o) ==
  {i \in 1..Len(queue[o]) : CheckWait(queue[o][i], wait[queue[o][i]]) # NotReady}

\* Mutant of NextWoken: the queue is walked from its tail
LastWoken(o) == queue[o][Max(Wakeable(o))]

NextWoken(o) == queue[o][Min(Wakeable(o))]

\* The loop of wake_up() up to a thread that it wakes; a wake restarts the loop.
WakeUp ==
  /\ stack # <<>> /\ Top.op = "wake" /\ Wakeable(Top.obj) # {}
  /\ LET t == NextWoken(Top.obj)
     IN WakeThread(t, CheckWait(t, wait[t]),
          IF Top.max = 1 THEN Rest
          ELSE IF Top.max = 0 THEN stack
          ELSE <<WakeFrame(Top.obj, Top.max - 1)>> \o Rest,
          stack)
  /\ UNCHANGED <<threadVars, apcVars>>

\* The loop of wake_up() reaches the end of the queue.
WakeUpDone ==
  /\ stack # <<>> /\ Top.op = "wake" /\ Wakeable(Top.obj) = {}
  /\ stack' = Rest
  /\ Silent
  /\ UNCHANGED <<state, threadVars, apcVars, wait, queue, objVars>>

\* wake_thread() called for one thread, from resume_thread() or queue_apc()
WakeOneThread ==
  /\ stack # <<>> /\ Top.op = "wake_thread"
  /\ LET t == Top.thr IN
       IF wait[t] # NoWait /\ CheckWait(t, wait[t]) # NotReady
       THEN WakeThread(t, CheckWait(t, wait[t]), Rest, Rest)
       ELSE stack' = Rest /\ Silent /\ UNCHANGED <<state, objVars, queue, wait>>
  /\ UNCHANGED <<threadVars, apcVars>>

\* The reset_event() of PULSE_EVENT
PulseReset ==
  /\ stack # <<>> /\ Top.op = "reset"
  /\ signaled' = [signaled EXCEPT ![Top.obj] = FALSE]
  /\ stack' = Rest
  /\ Silent
  /\ UNCHANGED <<state, threadVars, apcVars, wait, queue, sem, owner, count, abandoned>>

\* Mutant of AbandonMutex: no wake_up() for the mutex that came free
AbandonSilently ==
  /\ stack # <<>> /\ Top.op = "abandon"
  /\ \E m \in Mutexes :
       /\ owner[m] = Top.thr
       /\ abandoned' = [abandoned EXCEPT ![m] = TRUE]
       /\ count' = [count EXCEPT ![m] = 0]
       /\ owner' = [owner EXCEPT ![m] = NoThread]
  /\ Silent
  /\ UNCHANGED <<state, threadVars, apcVars, wait, queue, signaled, sem, stack>>

\* Mutant of AbandonMutex: the mutex stays on the thread's list
AbandonKeepsOwner ==
  /\ stack # <<>> /\ Top.op = "abandon"
  /\ \E m \in Mutexes :
       /\ owner[m] = Top.thr
       /\ abandoned' = [abandoned EXCEPT ![m] = TRUE]
       /\ count' = [count EXCEPT ![m] = 0]
       /\ stack' = <<WakeFrame(m, 0)>> \o stack
  /\ Silent
  /\ UNCHANGED <<state, threadVars, apcVars, wait, queue, signaled, sem, owner>>

\* One turn of the loop of abandon_mutexes(): the thread's mutexes go one by one,
\* newest first; the order is left open.
AbandonMutex ==
  /\ stack # <<>> /\ Top.op = "abandon"
  /\ \E m \in Mutexes :
       /\ owner[m] = Top.thr
       /\ abandoned' = [abandoned EXCEPT ![m] = TRUE]
       /\ count' = [count EXCEPT ![m] = 0]
       /\ owner' = [owner EXCEPT ![m] = NoThread]
       /\ stack' = <<WakeFrame(m, 0)>> \o stack
  /\ Silent
  /\ UNCHANGED <<state, threadVars, apcVars, wait, queue, signaled, sem>>

AbandonDone ==
  /\ stack # <<>> /\ Top.op = "abandon"
  /\ \A m \in Mutexes : owner[m] # Top.thr
  /\ stack' = Rest
  /\ Silent
  /\ UNCHANGED <<state, threadVars, apcVars, wait, queue, objVars>>

\* The end of kill_thread(): signal_sync(), cleanup_thread()
ThreadExit ==
  /\ stack # <<>> /\ Top.op = "exit"
  /\ signaled' = [signaled EXCEPT ![Top.thr] = TRUE]
  /\ system_apc' = [system_apc EXCEPT ![Top.thr] = 0]
  /\ user_apc' = [user_apc EXCEPT ![Top.thr] = 0]
  /\ stack' = <<WakeFrame(Top.thr, 0)>> \o Rest
  /\ Silent
  /\ UNCHANGED <<state, threadVars, suspend, wait, queue, sem, owner, count, abandoned>>

\* Mutant of ThreadExitViolent: no timer for check_terminated()
ThreadExitNoPoll ==
  /\ stack # <<>> /\ Top.op = "poll"
  /\ signaled' = [signaled EXCEPT ![Top.thr] = gone[Top.thr]]
  /\ stack' = <<WakeFrame(Top.thr, 0)>> \o Rest
  /\ system_apc' = [system_apc EXCEPT ![Top.thr] = 0]
  /\ user_apc' = [user_apc EXCEPT ![Top.thr] = 0]
  /\ Silent
  /\ UNCHANGED <<state, threadVars, suspend, wait, queue, sem, owner, count, abandoned>>

\* The same after a violent death: SIGQUIT, and check_terminated()
ThreadExitViolent ==
  /\ stack # <<>> /\ Top.op = "poll"
  /\ IF gone[Top.thr]
     THEN /\ signaled' = [signaled EXCEPT ![Top.thr] = TRUE]
          /\ stack' = <<WakeFrame(Top.thr, 0)>> \o Rest
          /\ UNCHANGED exit_poll
     ELSE /\ exit_poll' = [exit_poll EXCEPT ![Top.thr] = TRUE]
          /\ stack' = Rest
          /\ UNCHANGED signaled
  /\ system_apc' = [system_apc EXCEPT ![Top.thr] = 0]
  /\ user_apc' = [user_apc EXCEPT ![Top.thr] = 0]
  /\ Silent
  /\ UNCHANGED <<state, gone, suspend, wait, queue, sem, owner, count, abandoned>>

\* The APC that a select reply carries is taken off its queue.
TakeApc(t, status) ==
  /\ system_apc' = [system_apc EXCEPT ![t] = IF status = STATUS_KERNEL_APC THEN @ - 1 ELSE @]
  /\ user_apc' = [user_apc EXCEPT ![t] = IF status = STATUS_USER_APC THEN @ - 1 ELSE @]

\* select_on() after signal_object(): "check if we woke ourselves up"
SelectSelfWoken ==
  /\ stack # <<>> /\ Top.op = "select" /\ wait[Top.thr] = NoWait
  /\ Tell(Top.thr, <<Top.obj>>, FALSE, STATUS_WAIT_0)
  /\ stack' = Rest
  /\ UNCHANGED <<state, threadVars, apcVars, wait, queue, objVars>>

\* select_on() after signal_object(): the condition is already satisfied
SelectSatisfied ==
  /\ stack # <<>> /\ Top.op = "select" /\ wait[Top.thr] # NoWait
  /\ LET t == Top.thr
         w == wait[t]
         status == CheckWait(t, w)
     IN /\ status # NotReady
        /\ Grant(t, Satisfied(w, status))
        /\ Unlink(t)
        /\ TakeApc(t, status)
        /\ Tell(t, w.objs, FALSE, FinalStatus(w, status))
  /\ stack' = Rest
  /\ UNCHANGED <<state, threadVars, suspend>>

\* Mutant of SelectPending: the wait gets no cookie
SelectPendingNoCookie ==
  /\ stack # <<>> /\ Top.op = "select" /\ wait[Top.thr] # NoWait
  /\ CheckWait(Top.thr, wait[Top.thr]) = NotReady
  /\ stack' = Rest
  /\ Silent
  /\ UNCHANGED <<state, threadVars, apcVars, wait, queue, objVars>>

\* Mutant of SelectPending: no add_timeout_user() for the deadline
SelectPendingNoTimer ==
  /\ stack # <<>> /\ Top.op = "select" /\ wait[Top.thr] # NoWait
  /\ CheckWait(Top.thr, wait[Top.thr]) = NotReady
  /\ wait' = [wait EXCEPT ![Top.thr].cookie = TRUE]
  /\ stack' = Rest
  /\ Silent
  /\ UNCHANGED <<state, threadVars, apcVars, queue, objVars>>

\* Mutant of SelectPending: no check_wait() after signal_object()
SelectPendingUnchecked ==
  /\ stack # <<>> /\ Top.op = "select" /\ wait[Top.thr] # NoWait
  /\ wait' = [wait EXCEPT ![Top.thr].cookie = TRUE,
                          ![Top.thr].user = (@ \/ wait[Top.thr].when # "infinite")]
  /\ stack' = Rest
  /\ Silent
  /\ UNCHANGED <<state, threadVars, apcVars, queue, objVars>>

\* select_on() after signal_object(): now we need to wait
SelectPending ==
  /\ stack # <<>> /\ Top.op = "select" /\ wait[Top.thr] # NoWait
  /\ CheckWait(Top.thr, wait[Top.thr]) = NotReady
  /\ wait' = [wait EXCEPT ![Top.thr].cookie = TRUE,
                          ![Top.thr].user = (@ \/ wait[Top.thr].when # "infinite")]
  /\ stack' = Rest
  /\ Silent
  /\ UNCHANGED <<state, threadVars, apcVars, queue, objVars>>

-------------------------------------------------------------------------------
(* Requests: c is the thread that makes the call, "current" in the code.   *)

Idle == stack = <<>>

CanCall(c) == Idle /\ state[c] = "RUNNING" /\ ~ gone[c] /\ wait[c] = NoWait

\* event_op SET_EVENT: event_sync_signal() and its wake_up()
SetEvent(c, e) ==
  /\ CanCall(c)
  /\ signaled' = [signaled EXCEPT ![e] = TRUE]
  /\ stack' = <<WakeFrame(e, IF e \in AutoEvents THEN 1 ELSE 0)>>
  /\ Silent
  /\ UNCHANGED <<state, threadVars, apcVars, wait, queue, sem, owner, count, abandoned>>

\* event_op RESET_EVENT
ResetEvent(c, e) ==
  /\ CanCall(c)
  /\ signaled' = [signaled EXCEPT ![e] = FALSE]
  /\ Silent
  /\ UNCHANGED <<state, threadVars, apcVars, wait, queue, sem, owner, count, abandoned, stack>>

\* event_op PULSE_EVENT
PulseEvent(c, e) ==
  /\ CanCall(c)
  /\ signaled' = [signaled EXCEPT ![e] = TRUE]
  /\ stack' = <<WakeFrame(e, IF e \in AutoEvents THEN 1 ELSE 0), ResetFrame(e)>>
  /\ Silent
  /\ UNCHANGED <<state, threadVars, apcVars, wait, queue, sem, owner, count, abandoned>>

\* The state change of release_semaphore() when it does not fail, then frames
DoReleaseSemaphore(s, n, frames) ==
  /\ sem[s] + n <= SemMax
  /\ sem' = [sem EXCEPT ![s] = @ + n]
  /\ stack' = IF sem[s] # 0 THEN frames ELSE <<WakeFrame(s, n)>> \o frames

ReleaseSemaphore(c, s, n) ==
  /\ CanCall(c)
  /\ DoReleaseSemaphore(s, n, <<>>)
  /\ Silent
  /\ UNCHANGED <<state, threadVars, apcVars, wait, queue, signaled, owner, count, abandoned>>

\* The state change of do_release(c, 1) when it does not fail, then frames
DoRelease(c, m, frames) ==
  /\ count[m] # 0 /\ owner[m] = c
  /\ count' = [count EXCEPT ![m] = @ - 1]
  /\ owner' = [owner EXCEPT ![m] = IF count[m] = 1 THEN NoThread ELSE @]
  /\ stack' = IF count[m] = 1 THEN <<WakeFrame(m, 0)>> \o frames ELSE frames

ReleaseMutex(c, m) ==
  /\ CanCall(c)
  /\ DoRelease(c, m, <<>>)
  /\ out' = NoReply
  /\ believed' = [believed EXCEPT ![c][m] = @ - 1]
  /\ UNCHANGED <<state, threadVars, apcVars, wait, queue, signaled, sem, abandoned>>

NewWait(r, cookie) ==
  [select |-> r.select, objs |-> r.objs, interruptible |-> r.interruptible,
   alertable |-> r.alertable, when |-> r.when,
   user |-> cookie /\ r.when # "infinite", cookie |-> cookie]

\* Bound: no request may take a recursion count above CountMax.
CountsFit(c, r) ==
  \A m \in ToSet(r.objs) \intersect Mutexes : owner[m] = c => count[m] < CountMax

\* select with SELECT_WAIT or SELECT_WAIT_ALL: the whole of select_on()
Select(c, r) ==
  /\ CanCall(c) /\ r.select # "signal_and_wait" /\ CountsFit(c, r)
  /\ LET status == CheckWait(c, r) IN
       IF status # NotReady
       THEN /\ Grant(c, Satisfied(r, status))
            /\ TakeApc(c, status)
            /\ Tell(c, r.objs, r.select = "wait_all", FinalStatus(r, status))
            /\ UNCHANGED <<queue, wait>>
       ELSE /\ Link(c, NewWait(r, TRUE))
            /\ Silent
            /\ UNCHANGED <<objVars, system_apc, user_apc>>
  /\ UNCHANGED <<state, threadVars, suspend, stack>>

\* signal_object() of SELECT_SIGNAL_AND_WAIT would fail
SignalFails(c, o) ==
  \/ o \in Semaphores /\ sem[o] + 1 > SemMax
  \/ o \in Mutexes /\ (count[o] = 0 \/ owner[o] # c)

\* select with SELECT_SIGNAL_AND_WAIT: wait_on(), then signal_object()
SignalAndWait(c, r) ==
  /\ CanCall(c) /\ r.select = "signal_and_wait" /\ CountsFit(c, r)
  /\ ~ SignalFails(c, r.signal)
  /\ Link(c, NewWait(r, FALSE))
  /\ LET frames == <<SelectFrame(c, r.objs[1])>> IN
       \/ /\ r.signal \in AutoEvents \union ManualEvents
          /\ signaled' = [signaled EXCEPT ![r.signal] = TRUE]
          /\ stack' = <<WakeFrame(r.signal, IF r.signal \in AutoEvents THEN 1 ELSE 0)>> \o frames
          /\ UNCHANGED <<sem, owner, count, believed>>
       \/ /\ r.signal \in Semaphores
          /\ DoReleaseSemaphore(r.signal, 1, frames)
          /\ UNCHANGED <<signaled, owner, count, believed>>
       \/ /\ r.signal \in Mutexes
          /\ DoRelease(c, r.signal, frames)
          /\ believed' = [believed EXCEPT ![c][r.signal] = @ - 1]
          /\ UNCHANGED <<signaled, sem>>
  /\ out' = NoReply
  /\ UNCHANGED <<state, threadVars, apcVars, abandoned>>

\* SELECT_SIGNAL_AND_WAIT whose signal_object() fails: end_wait() with the error
SignalAndWaitFails(c, r) ==
  /\ CanCall(c) /\ r.select = "signal_and_wait"
  /\ SignalFails(c, r.signal)
  /\ out' = [thread |-> c, status |-> Failure]
  /\ UNCHANGED <<state, threadVars, apcVars, wait, queue, objVars, stack, believed>>

\* suspend_thread
SuspendThread(c, t) ==
  /\ CanCall(c) /\ state[t] = "RUNNING" /\ suspend[t] < SuspendMax
  /\ suspend' = [suspend EXCEPT ![t] = @ + 1]
  /\ Silent
  /\ UNCHANGED <<state, threadVars, system_apc, user_apc, wait, queue, objVars, stack>>

\* resume_thread, which calls wake_thread() when the count reaches 0
ResumeThread(c, t) ==
  /\ CanCall(c) /\ suspend[t] > 0
  /\ suspend' = [suspend EXCEPT ![t] = @ - 1]
  /\ stack' = IF suspend[t] = 1 THEN <<ThreadFrame(t)>> ELSE <<>>
  /\ Silent
  /\ UNCHANGED <<state, threadVars, system_apc, user_apc, wait, queue, objVars>>

\* queue_apc() of a user APC
QueueUserApc(c, t) ==
  /\ CanCall(c) /\ state[t] = "RUNNING" /\ user_apc[t] < ApcMax
  /\ user_apc' = [user_apc EXCEPT ![t] = @ + 1]
  /\ stack' = IF user_apc[t] = 0 THEN <<ThreadFrame(t)>> ELSE <<>>
  /\ Silent
  /\ UNCHANGED <<state, threadVars, suspend, system_apc, wait, queue, objVars>>

\* is_in_apc_wait()
InApcWait(t) == Suspended(t) \/ (wait[t] # NoWait /\ wait[t].interruptible)

\* Mutant of QueueSystemApc: no wake_thread() for a suspended thread
QueueSystemApcUnlessSuspended(c, t) ==
  /\ CanCall(c) /\ state[t] = "RUNNING" /\ system_apc[t] < ApcMax
  /\ system_apc' = [system_apc EXCEPT ![t] = @ + 1]
  /\ stack' = IF system_apc[t] = 0 /\ ~ Suspended(t) THEN <<ThreadFrame(t)>> ELSE <<>>
  /\ Silent
  /\ UNCHANGED <<state, threadVars, suspend, user_apc, wait, queue, objVars>>

\* queue_apc() of a system APC: it needs a SIGUSR1 unless the thread is in an
\* APC wait, and fails when the signal cannot be sent
QueueSystemApc(c, t) ==
  /\ CanCall(c) /\ state[t] = "RUNNING" /\ system_apc[t] < ApcMax
  /\ system_apc[t] > 0 \/ InApcWait(t) \/ ~ gone[t]
  /\ system_apc' = [system_apc EXCEPT ![t] = @ + 1]
  /\ stack' = IF system_apc[t] = 0 THEN <<ThreadFrame(t)>> ELSE <<>>
  /\ Silent
  /\ UNCHANGED <<state, threadVars, suspend, user_apc, wait, queue, objVars>>

\* Mutant of KillThread: no abandon_mutexes() when the thread was waiting
KillThreadNoAbandon(t, violent) ==
  /\ state[t] = "RUNNING"
  /\ state' = [state EXCEPT ![t] = "TERMINATED"]
  /\ Unlink(t)
  /\ stack' = IF wait[t] # NoWait THEN <<ExitFrame(t)>>
              ELSE <<AbandonFrame(t), IF violent THEN PollFrame(t) ELSE ExitFrame(t)>>
  /\ Silent
  /\ UNCHANGED <<threadVars, apcVars, objVars>>

\* kill_thread(): the waits end unsatisfied, the rest is left to its frames
KillThread(t, violent) ==
  /\ state[t] = "RUNNING"
  /\ state' = [state EXCEPT ![t] = "TERMINATED"]
  /\ Unlink(t)
  /\ stack' = <<AbandonFrame(t),
                IF violent /\ wait[t] = NoWait THEN PollFrame(t) ELSE ExitFrame(t)>>
  /\ Silent
  /\ UNCHANGED <<threadVars, apcVars, objVars>>

\* terminate_thread of another thread
TerminateThread(c, t) ==
  CanCall(c) /\ t \in Mortal /\ t # c /\ KillThread(t, TRUE)

-------------------------------------------------------------------------------
(* What happens by itself.                                                 *)

\* The Unix thread of t dies, from a signal, an exit or the SIGQUIT of the server.
ClientDies(t) ==
  /\ Idle /\ t \in Mortal /\ ~ gone[t]
  /\ gone' = [gone EXCEPT ![t] = TRUE]
  /\ believed' = [believed EXCEPT ![t] = [m \in Mutexes |-> 0]]
  /\ out' = NoReply
  /\ UNCHANGED <<state, exit_poll, apcVars, wait, queue, objVars, stack>>

\* thread_poll_event() with POLLHUP
Hangup(t) == Idle /\ gone[t] /\ KillThread(t, FALSE)

\* check_terminated() from its timer, once the Unix thread is dead
CheckTerminated(t) ==
  /\ Idle /\ exit_poll[t] /\ gone[t]
  /\ exit_poll' = [exit_poll EXCEPT ![t] = FALSE]
  /\ signaled' = [signaled EXCEPT ![t] = TRUE]
  /\ stack' = <<WakeFrame(t, 0)>>
  /\ Silent
  /\ UNCHANGED <<state, gone, apcVars, wait, queue, sem, owner, count, abandoned>>

\* set_current_time() passes the deadline of a wait; its timer has yet to run.
DeadlinePasses(t) ==
  /\ Idle /\ wait[t] # NoWait /\ wait[t].when = "future"
  /\ wait' = [wait EXCEPT ![t].when = "past"]
  /\ Silent
  /\ UNCHANGED <<state, threadVars, apcVars, queue, objVars, stack>>

\* thread_timeout(): a suspended thread only loses the timer
ThreadTimeout(t) ==
  /\ Idle /\ wait[t] # NoWait /\ wait[t].when = "past" /\ wait[t].user
  /\ IF Suspended(t)
     THEN /\ wait' = [wait EXCEPT ![t].user = FALSE]
          /\ Silent
          /\ UNCHANGED <<state, queue, objVars, stack>>
     ELSE WakeThread(t, STATUS_TIMEOUT, <<>>, <<>>)
  /\ UNCHANGED <<threadVars, apcVars>>

ServerStep ==
  \/ WakeUp \/ WakeUpDone \/ WakeOneThread \/ PulseReset
  \/ AbandonMutex \/ AbandonDone \/ ThreadExit \/ ThreadExitViolent
  \/ SelectSelfWoken \/ SelectSatisfied \/ SelectPending

ClientRequest ==
  \E c \in Threads :
    \/ \E e \in AutoEvents \union ManualEvents :
         SetEvent(c, e) \/ ResetEvent(c, e) \/ PulseEvent(c, e)
    \/ \E s \in Semaphores, n \in 0..SemMax : ReleaseSemaphore(c, s, n)
    \/ \E m \in Mutexes : ReleaseMutex(c, m)
    \/ \E r \in Requests : Select(c, r) \/ SignalAndWait(c, r) \/ SignalAndWaitFails(c, r)
    \/ \E t \in Threads :
         \/ SuspendThread(c, t) \/ ResumeThread(c, t)
         \/ QueueUserApc(c, t) \/ QueueSystemApc(c, t) \/ TerminateThread(c, t)

Environment ==
  \E t \in Threads :
    \/ ClientDies(t) \/ Hangup(t) \/ CheckTerminated(t)
    \/ DeadlinePasses(t) \/ ThreadTimeout(t)

Next == ServerStep \/ ClientRequest \/ Environment

(***************************************************************************)
(* The server works off what it has begun.  Its main loop handles every    *)
(* closed pipe and every expired timer in its turn, however many requests  *)
(* come in between (strong fairness: these steps wait for an empty stack); *)
(* time passes; a thread that was sent SIGQUIT dies.  The steps that bring *)
(* a wait to its end by time, and those that bring a thread to its end,    *)
(* share one condition each, which is weaker than one condition per step.  *)
(***************************************************************************)
TimePasses(t) == DeadlinePasses(t) \/ ThreadTimeout(t)

DeathGoesOn(t) ==
  \/ Hangup(t) \/ CheckTerminated(t)
  \/ state[t] = "TERMINATED" /\ ClientDies(t)

Fairness ==
  /\ WF_vars(ServerStep)
  /\ \A t \in Threads : SF_vars(TimePasses(t)) /\ SF_vars(DeathGoesOn(t))

Spec == Init /\ [][Next]_vars

FairSpec == Spec /\ Fairness

-------------------------------------------------------------------------------
(* Properties.                                                             *)

\* The wait queues and the thread_waits describe the same waits: a thread is on
\* the queue of an object exactly when its wait lists the object, once, and only
\* a running thread waits (wait_on and end_wait keep both lists).
QueueConsistent ==
  /\ \A o \in Objects :
       /\ ToSet(queue[o]) = {t \in Threads : wait[t] # NoWait /\ o \in ToSet(wait[t].objs)}
       /\ \A i, j \in 1..Len(queue[o]) : queue[o][i] = queue[o][j] => i = j
  /\ \A t \in Threads : wait[t] # NoWait => state[t] = "RUNNING"

\* A mutex has an owner exactly while its count is not 0, and a dead thread owns
\* one only until the loop of abandon_mutexes() still on the stack comes to it
\* (the assertions of do_grab and abandon_mutexes).
MutexConsistent ==
  \A m \in Mutexes :
    /\ count[m] = 0 <=> owner[m] = NoThread
    /\ owner[m] # NoThread /\ state[owner[m]] = "TERMINATED"
         => AbandonFrame(owner[m]) \in ToSet(stack)

\* What the replies of select and release_mutex told a live client about the
\* mutexes it has is what the server has recorded.
BeliefMatches ==
  Idle => \A t \in Threads, m \in Mutexes :
            state[t] = "RUNNING" /\ ~ gone[t]
              => believed[t][m] = IF owner[m] = t THEN count[m] ELSE 0

\* Between two requests no thread sleeps that its objects would let go: whatever
\* wake_up() skipped, cut off at max, or left to a thread that died was not owed
\* to another waiter.
NoLostWakeup ==
  Idle => \A t \in Threads :
            wait[t] # NoWait /\ ~ Suspended(t) => ~ ObjectsReady(t, wait[t])

\* Between two requests no thread sleeps in a wait that a queued APC should end.
NoMissedApc ==
  Idle => \A t \in Threads :
            wait[t] # NoWait =>
              /\ ~ (wait[t].interruptible /\ system_apc[t] > 0)
              /\ ~ (wait[t].alertable /\ user_apc[t] > 0 /\ ~ Suspended(t))

\* "there cannot be any thread to wake up if the count is != 0"
\* (release_semaphore, which then calls no wake_up)
NobodyToWake ==
  Idle => \A s \in Semaphores, t \in Threads :
            sem[s] # 0 /\ t \in ToSet(queue[s]) /\ ~ Suspended(t)
              => ~ ObjectsReady(t, wait[t])

\* A walk over the queue of m is on the stack, under the step that is being taken.
WalkIsToCome(m) ==
  /\ ~ (Top.op = "wake" /\ Top.obj = m)
  /\ \E f \in ToSet(stack) : f.op = "wake" /\ f.obj = m

\* A mutex that comes free goes to the first thread on its queue that can take
\* it.  A later waiter gets it past suspended threads and WAIT_ALL waits, whose
\* other objects are not all signaled; and past anyone when it waits for several
\* objects and the wake_up() of another of them, called for a thread that died
\* inside the wake_up() of the mutex, comes to it first.
\* (Proved in GrantsAreFifo for requests without a WAIT_ALL with a deadline for an
\* auto-reset event or a semaphore, which can use up the wake of another thread.)
FifoGrant ==
  \A m \in Mutexes, t \in Threads :
    owner[m] # t /\ owner'[m] = t /\ wait[t] # NoWait =>
      \A i, j \in 1..Len(queue[m]) :
        i < j /\ queue[m][j] = t =>
          LET u == queue[m][i]
          IN Suspended(u) \/ wait[u].select = "wait_all" \/ WalkIsToCome(m)

FifoGrants == [][FifoGrant]_vars

\* The abandonment of a mutex is told to the next thread that gets it, unless
\* that thread is dead too, or is in the signal step of SELECT_SIGNAL_AND_WAIT,
\* which drops the status.
AbandonmentTold ==
  \A m \in Mutexes :
    abandoned[m] /\ ~ abandoned'[m] =>
      LET t == owner'[m] IN
        \/ out'.thread = t /\ out'.status \in 128..191
        \/ state'[t] = "TERMINATED"
        \/ wait[t] # NoWait /\ ~ wait[t].cookie

AbandonmentsTold == [][AbandonmentTold]_vars

\* However wakes, deaths and abandoned mutexes nest, the handler returns: the
\* restart of wake_up() at the head of the queue does not loop.
ServerReturns == []<>Idle

\* A wait with a deadline ends, or its thread stays suspended; the timer that a
\* suspended thread lost is made good by the wake of resume_thread.
TimedWaitEnds ==
  \A t \in Threads :
    (wait[t] # NoWait /\ wait[t].when # "infinite")
      ~> (wait[t] = NoWait \/ Suspended(t))

\* Whoever waits for the end of a thread is let go: a killed thread's own sync
\* becomes signaled, after a violent death only once the Unix thread is dead.
TerminationSignaled ==
  \A t \in Threads : state[t] = "TERMINATED" ~> signaled[t]
=============================================================================
