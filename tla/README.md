# TLA+ models of Wine's waiting and waking

Wine runs a Windows program as a set of Unix processes.  What Windows keeps in
its kernel, Wine keeps in one extra process, the server (`server/`); the client
side is `ntdll`, half of it PE code (`dlls/ntdll/`), half of it Unix code
(`dlls/ntdll/unix/`).  A client thread calls the server by a request over a
pipe; the server is a single thread that takes requests, timers and hangups one
at a time.  Almost every blocking call of a program ends in one of two places:
in a *select* of the server, or in `RtlWaitOnAddress`, which never leaves the
process.  These two are modelled here, with four of the subsystems that are built
on them and keep protocols of their own: critical sections and condition
variables, the thread pool, sent messages, and asynchronous I/O.

## 1. Inventory

| Component | State | Operations | Talks to | Hard because |
|---|---|---|---|---|
| Wait core, `server/thread.c` | `thread_wait` per thread, wait queue per object, APC queues, suspend counts | `wait_on`, `check_wait`, `end_wait`, `wake_up`, `select_on`, `thread_timeout`, `queue_apc`, `kill_thread` | every waitable object; clients through `wait_fd` | a wake can fail, which kills, which releases mutexes, which wakes; timers race wakes; suspension hides waiters |
| Mutexes, semaphores, events | owner/count/abandoned, count, signaled | grab, release, abandon; release; set, reset, pulse | wait core | `max` of `wake_up`, abandonment |
| Select protocol, `unix/server.c`, `unix/thread.c` | cookies, pipe, context, APC being run | `server_select`, `wait_select_reply`, `wait_suspend` | wait core, SIGUSR1, SIGQUIT | waits nested in a signal handler share one pipe |
| Address waits, `ntdll/sync.c`, `unix/sync.c` | 256 hashed queues, one alert flag per thread | wait, wake one, wake all, alert | SRW locks, critical sections, condition variables, run-once | alerts are sent after the queue is unlocked, and are merged |
| SRW locks, `ntdll/sync.c` | one 32-bit word | acquire, try, release, shared and exclusive | address waits | lock-free word, two kinds of waiters |
| In-process sync, `server/inproc_sync.c` | ntsync descriptors | create, signal, abandon | Linux ntsync driver | the waits happen in the host's kernel |
| Critical sections and condition variables, `ntdll/sync.c` | four fields; one counter | enter, try, leave; sleep, wake one, wake all | address waits | the section is passed on in several steps; the counter is read before the section is left |
| Asyncs, `server/async.c`, and what starts them | queues of asyncs, status and hand-off flags, cancel groups | queue, hand off, terminate, cancel, complete | fds, pipes, sockets, devices, APCs | completion, cancellation and timeout race, and the client does part of the I/O |
| Named pipes | message queues of two ends | read, write, flush, disconnect | asyncs | two ends reselect each other |
| Message queues, `server/queue.c`, `win32u/message.c` | sent messages, results by sender and receiver, timeouts, wake bits and masks | send, receive, reply, time out, clean up | windows' and threads' death, hooks | results outlive either thread; a sender that waits receives, which may send |
| Thread pool | objects, groups, worker counts | submit, cancel, wait, shut down | critical sections, condition variables | objects released by their own callbacks |
| Handles, objects, fds and file locks, timers, processes and debugger, registry, windows, tokens, memory, loader | tables and trees | requests | - | listed in `PROJECT.json` with the reason they are left out or the plan for them |

What makes the modelled parts correct:

* no thread sleeps when its objects would let it go, and none is let go without
  having got them; what a client is told is what the server has recorded;
* the mutexes of a thread that dies, however it dies, go to their waiters, and
  the next owner is told;
* a suspended thread takes nothing, and misses nothing;
* every select is answered once, and in the level of nesting that asked;
* an SRW lock excludes, counts its callers correctly, and forgets no sleeper;
* a critical section is in one place at a time, and no wake of a section or a
  condition variable is lost, whatever times out or is alerted besides;
* a pool's objects are freed once nobody refers to them and not before; a pending
  callback is run, and who waits for callbacks is woken when they are done;
* a sender gets the answer to its own message, once, or learns that there is none;
* an async completes once, also when it is cancelled, times out or loses its file.

`PROJECT.json` lists the places in the code where these could go wrong
("hazards") with the properties that watch them.

## 2. Modules

| Module | Models |
|---|---|
| `ServerWait` | the wait core with mutexes, semaphores, events and threads as objects |
| `SelectProtocol` | one client thread's conversation with the server: two levels of `server_select`, the pipe, SIGUSR1, contexts, APCs, death |
| `Futex` | address waits and alerts: state and steps, without a next-state relation of its own |
| `SrwLock` | SRW locks over `Futex` |
| `RwLock` | the abstract reader/writer lock that `SrwLock` implements |
| `CriticalSection` | critical sections and condition variables over `Futex` |
| `ThreadPool` | `ntdll/threadpool.c`: pool, workers, objects, cleanup group, timers |
| `SendMessage` | sent messages: the queues and results in the server, the calls of the client threads |
| `Async` | asynchronous reads on sockets, pipes and devices: server and client |
| `MCServerWait`, `MCSelectProtocol`, `MCSrwLock`, `MCCriticalSection`, `MCThreadPool`, `MCSendMessage`, `MCAsync` | instances for TLC |
| `QueueLemmas` | lemmas on sequences used as queues and stacks |
| `ServerWaitProofs`, `SelectProtocolProofs`, `SrwLockProofs`, `CriticalSectionProofs`, `ThreadPoolProofs`, `SendMessageProofs`, `AsyncProofs` | theorems |

A definition whose comment begins "Mutant of D" is D with a plausible mistake in
it.  No specification uses these; each shows, when put in D's place, that some
property of the runs notices the mistake.

### ServerWait

The server runs one handler at a time, but what a handler does is a recursion:
`wake_up` walks a queue; `wake_thread` ends a wait, which takes its objects; the
reply may meet a closed pipe (EPIPE); `kill_thread` then ends the client, and
`abandon_mutexes` walks further queues.  The variable `stack` is the C call
stack of that recursion, one frame per function that has work left.  A request,
timer or hangup is accepted when it is empty; below that the step is the one of
the top frame:

| Frame | Steps | Code |
|---|---|---|
| `wake` | `WakeUp`, `WakeUpDone` | `wake_up`: the first thread in the queue that can be woken is, and the walk restarts; `max` counts successful wakes |
| `wake_thread` | `WakeOneThread` | `wake_thread` from `resume_thread`, `queue_apc` |
| `reset` | `PulseReset` | the second half of `PULSE_EVENT` |
| `abandon` | `AbandonMutex`, `AbandonDone` | `abandon_mutexes` |
| `exit`, `poll` | `ThreadExit`, `ThreadExitViolent` | the rest of `kill_thread`, with `check_terminated` |
| `select` | `SelectSelfWoken`, `SelectSatisfied`, `SelectPending` | `select_on` after `signal_object` |

The state is that of `struct thread`, `struct thread_wait` and the three sync
objects under their own names; `out` and `believed` record what the replies told
the clients, so that it can be compared with the server's records.  A wait
without a cookie is one that `select_on` is still setting up.

Time is not a number: a deadline is to come or past (`DeadlinePasses`), and the
timer of a wait that is past may run (`ThreadTimeout`) after any other step, as
in the main loop, where `current_time` is set before the timers are looked at.

Left out: waits nested in one another (`SelectProtocol` has them), keyed events
and `SELECT_NONE`, cooperative and process-wide suspension, the same object
twice in one request, failures of allocation.  The order in which a dying
thread's mutexes are abandoned is left open where the code has one.  The cleanup
of a dead thread's APCs is one step with the signal of its exit: no request can
come in between.

### SelectProtocol

One thread, level 1 of `server_select`, and level 2, the `wait_suspend` of the
SIGUSR1 handler on top of it.  A select request is one step, since the server
answers requests whole; everything between requests can be interleaved with what
other threads do: suspend, resume, set the context, queue APCs, set the event,
kill.  `pipe` holds the replies in `wait_fd`, `stolen` those that
`wait_select_reply` has read for the other level and will write back.

### Futex, SrwLock, RwLock

Each spin-locked section of `RtlWaitOnAddress` and `RtlWakeAddress*` is one step;
the alerts follow one by one.  `StrayAlert` stands for an alert that was meant
for an earlier wait, or that a program sends itself: every wait must survive it.
A compare-exchange loop computes the new word from the old one alone, so its
successful round is one step.  `RwLock` has no word, no queue and no sleep: three
sets of threads and four actions.

### CriticalSection

A thread is a list of calls still to make (`todo`) and its place in the first of
them (`pc`).  `RtlSleepConditionVariableCS` puts the calls it makes in front of the
list: leave, wait, enter.  Every interlocked operation and every spin-locked
section is a step.  The condition is a number of items; a consumer that finds none
sleeps, looks again when it is woken, and after a time-out looks once more and
gives up, as the workers of the thread pool do.  Waits of a section time out too
(after 5 s in the code) and are begun again.

Left out: sections whose `LockSemaphore` is a real semaphore, the shutdown of the
process (`RtlpWaitForCriticalSection` then lets everybody in), condition variables
with SRW locks, run-once.

### ThreadPool

One pool with its workers, objects that are simple callbacks, work or timers, one
cleanup group, and application threads (`Callers`) that allocate, post, wait,
cancel, set, release and close.  The pool's lock, the group's and the timer
queue's are variables; a function is a sequence of operations, one per section
that holds a lock, so every other thread may run in between.  Reference counts are
the code's own; `ReferencesCounted` compares them with what threads have still to
give back: the application's reference, pending callbacks, running ones, and the
releases in `todo`.  `TpReleaseCleanupGroupMembers` keeps the group locked while it
gathers the members one by one, as the code does; a worker can drop the last reference
to a member in between.  Worker creation may fail (`CreateMayFail`).  Releasing a lock
and sleeping on a condition variable is one step here; `CriticalSection` has the
steps of that layer.

Left out: wait and I/O objects, `TpCallbackMayRunLong`, `TpSetPoolMinThreads` and
`TpSetPoolMaxThreads`, cleanup actions of a callback, the failures of
`tp_timerqueue_lock` and `tp_threadpool_lock`.  The reference to the group is counted
before the object is submitted or joined, and the references that `tp_object_cancel`
gives back go with its locked section; nobody can see either difference, since the caller
still holds the group and a reference to the object.

### SendMessage

The server's handlers are functions of its state `srv`: the lists of sent messages,
the stacks of results, the queue bits and masks.  A client thread is a stack of
calls, since a window procedure may send and a sender that waits may receive.
Messages are plain sends, sends with a callback, notifications and low-level hook
messages, with and without a timeout or `SMTO_BLOCK`, to a window or not.  `told`
records what a sender was given.  The loops of a dying queue or window are recursive
functions over the list that they walk (`Each`), one call of `Cleanup` per element.

Left out: posted and hardware messages, timers, `PostQuitMessage`, filters, messages
that cannot be unpacked, `check_queue_bits` as the shortcut of the request that it
saves (it is taken only where the request would change nothing), and
`ReplyMessage` inside a low-level hook, since hooks do not set `receive_info`: there is
none, or it is that of the window procedure around the hook, while the server takes the
reply for one to what the thread received last, the hook's message.

### Async

Again the server is a record and its functions are those of `async.c` under their
names, its loops recursive functions over the list of asyncs (`Each`, `LoopStep`).
The server can end in two ways: at the assertion in `cancel_process_async`
(`aborted`), and where it takes the file of an async that has none (`faulted`).  A
request creates an async, perhaps queues it, and hands it off; the client then does
I/O itself (`STATUS_ALERTED`), waits for the handle, or returns.  Data, hang-ups,
timeouts, cancellation by file, by IOSB, by thread and by group, a driver that answers at once,
later or when cancelled, the closing of a socket and the termination of a thread may
come between any two of these.  A wait of the client may be alertable
(`FILE_SYNCHRONOUS_IO_ALERT`): a user APC ends it, the call returns and the handle stays
open.  A file with a port may say that it wants no completion for what succeeds at once
(`FILE_SKIP_COMPLETION_PORT_ON_SUCCESS`, `notify = "skip"`).

Left out: writes, nonblocking sockets, asyncs of the server itself, completion
callbacks, accept and connect, disconnection of pipes, the death of the process, and
completion ports beyond the fact that a completion is posted.

## 3. Runs

`tlc -config X.cfg M`; every run that passes explores its instance completely.

| Run | Instance | Checks |
|---|---|---|
| `core` | 3 threads that may die, 2 events, 2 mutexes, recursion up to 2, symmetric threads | queues and waits agree; mutexes; what clients believe; no lost wake; FIFO; abandonment is told |
| `interrupt` | 2 threads that may die, a mutex, a semaphore, SELECT_SIGNAL_AND_WAIT, WAIT_ALL, deadlines, 1 APC of each kind, suspension, all waits interruptible as the client's are; fair | belief and lost wakes around the window between `wait_on` and `signal_object` and after suspension; no APC missed; handlers return; timed waits end; death is signaled |
| `timedall`, `selfwoken` | 3 threads | violations, see below |
| `srw` | 3 threads, fair | exclusion; the word; no sleeper forgotten; `RwLock` implemented; a wanted lock is taken; readers are served |
| `select` | suspend count 2, 2 APCs of each kind, fair | one answer per wait; contexts; suspension, resumption, waits, APCs and death progress |
| `select_signal` | the call signals an object | violation, see below |
| `critsect` | 3 threads, 3 programs started, 1 time-out, 1 stray alert, fair | the section is in one place; nobody is forgotten |
| `threadpool` | 2 workers, fair; a work object that two threads post, cancel and wait for, a periodic timer, or a simple callback and a timer in one group | references; the code's assertions; waiters; pending callbacks; what is released is freed |
| `sendmessage` | 2 threads, one mortal, 4 messages, nesting up to 4; two tables of messages | results are owned; the right reply; `SendMessage` returns |
| `async` | 2 threads, one mortal, 2 asyncs, 3 files, 6 tables of asyncs, 2 cancel groups | completed once; cancel counts; what is cancelled ends |
| `async_apc` | reads of a socket with an APC and of a device | violation, see below |

Bounds.  Three threads are one to hold, one to wait ahead and one to be overlooked;
the safety properties of section 4 are proved for any number.  Two mutexes let a death
inside a wake release a second object, and a chain of three dead threads fits on the
stack.  `CountMax` and `ApcMax` bound counters the code does not bound; they are in
the guards.  `SemMax` and `SuspendMax` are the code's own limits with small values.
In `critsect` three programs are a producer between two consumers, or a third thread
that barges in; `StartMax`, `TimeoutMax` and `StrayMax` count what may happen besides.
In `threadpool` two workers are one to run and one to be woken too late, `PendingMax`
bounds the posts and `BusyMax` the count `num_busy_workers`; in `sendmessage` four
messages are two nested sends either way, or hook messages beside them; in `async` two
asyncs are one that waits behind another, and two groups one call of `NtCancelIoFile`
after another.  Deadlock is checked for the SRW lock and the thread pool; in the
others all threads may be dead, or wait for ever, as programs may.

Fairness.  `ServerWait`: weak fairness of the server's own steps, since it is one
running thread; per thread, strong fairness of time (`TimePasses`: deadlines and the
timer) and of its death (`DeathGoesOn`: SIGQUIT takes effect, the hangup, the poll of
`check_terminated`), since the main loop looks at every ready descriptor and every
expired timer in each turn, while requests in between make these steps wait for an
empty stack.  One condition for several steps is enough where they come one after the
other.  No fairness for requests.  `SelectProtocol`: weak
fairness of the server and of the client's reads, strong fairness of the delivery of
SIGUSR1 and of a request's turn in the server.  `SrwLock`: weak fairness of the steps
of a call and of the release of a held lock; none for beginning a call.
`CriticalSection`: weak fairness of a running thread; none for time-outs, which would
hide a lost wake: the code's own retry after 5 s cures one.  `ThreadPool`: a thread
gets the locks it asks for again and again (strong fairness of its operations; for a
worker together with its own steps, the return of its callback and the time-out of its
sleep); nobody has to call anything,
and no timer has to expire.  `SendMessage`: threads run, window procedures return,
timers expire, a thread with sent messages asks for them.  `Async`: threads run and
take their APCs, timers expire, a driver answers what it is given and completes what
it is asked to cancel, a socket with data is polled.

### What the violations show

* `timedall`: `release_semaphore` relies on "there cannot be any thread to wake
  up if the count is != 0".  A `WAIT_ALL` wait past its deadline counts as the one
  wake of `wake_up( obj, 1 )` although it ends with a timeout; the thread behind
  it sleeps on beside a count of 1, and later releases do not wake it.
* `selfwoken`: when `signal_object` ends the caller's own wait, `select_on` drops
  the status.  A caller that releases a mutex and waits for it with timeout 0 can
  be told that it has the mutex while another thread owns it.
* `select_signal`: `server_select` avoids a second signal only after an APC that
  came with the reply to the request; after one that ended the wait it signals
  again.
* `async_apc`: `cancel_process_async` asserts that an async is in no cancel group.  A
  device's read stays in its group until the driver completes it, but the wait of
  `NtCancelIoFile` for the group is alertable: a user APC ends it, and a second call of
  the same thread meets the assertion.  `CancelCounts` says that only the read of a
  device can bring the server there, and `AsyncEnds` leaves out what the server, once
  ended, does not do.

The `interrupt` run leaves out the requests of `selfwoken`, and the `core` and
`interrupt` runs leave out `WAIT_ALL` with a deadline, so that these are the only
places where the properties fail.

### What the passing runs leave out

Some cases that the code does not handle are excluded, each by name, so that the
properties say that nothing else goes wrong:

* `ThreadPool`, `NoForgottenWaiter`: `tp_object_wait` "Waits until all pending and running
  callbacks of a specific object have been processed", but `tp_object_cancel` wakes nobody:
  a thread in `TpWaitForWork( work, FALSE )` sleeps on after `TpWaitForWork( work, TRUE )`
  of another one has taken the last callback away (TLC finds this in 8 steps when
  `~Forgotten(t)` is checked as an invariant).  `TpCancelAsyncIoOperation` does wake in the
  same situation.  The property allows this step alone: nothing else leaves a sleeper
  behind, and the wait of a group's closing is never forgotten.
* `ThreadPool`, `Circle`: with a timer and another object in one group, a worker that
  releases the object (pool, line 2466, then group, 2236),
  `TpReleaseCleanupGroupMembers` (group, then timer queue, 2908) and the timer thread
  (timer queue, then pool, 1079) take their locks in a circle, and the run gets there.
  `ReleasedIsFreed` allows it, and no other wait without end.
* `SendMessage`, `Orphaned`: a thread killed by `TerminateThread` in a process that
  goes on leaves its queue behind, and who sent it a message that it had received
  waits for ever.
* `Async`, `missed`: an async that loses its file or its timeout while the client does
  the I/O is never ended by it afterwards; cancelling files then takes the file of an
  async that has none (`faulted`).

## 4. Theorems

Proved for every value of the constants that satisfies the named assumptions:
finitely many threads, at most 2^15 - 1 of them, for the SRW lock; disjoint kinds of
objects, positive limits and well-formed requests for the server; finitely many
threads and nested programs for critical sections; finitely many objects, workers and
callers, workers enough for the limit of the pool and any programs for the thread pool;
finitely many threads and messages, where only a hook message has no sending thread, for
sent messages; finitely many threads and asyncs for asynchronous I/O.  Hypotheses beyond
these are part of the theorem.

### ServerWaitProofs

| Theorem | States | Needs |
|---|---|---|
| `TypeCorrect`, `QueuesAgree`, `MutexesSound` | `TypeOK`, `QueueConsistent`, `MutexConsistent` | - |
| `AbandonmentsReported` | `AbandonmentsTold` | - |
| `ApcsEndWaits` | `NoMissedApc` | - |
| `WakesNotLost`, `SemaphoreWakesNobody` | `NoLostWakeup`, `NobodyToWake` | `TimedAllPlain` |
| `GrantsAreFifo` | `FifoGrants` | `TimedAllPlain` |
| `BeliefsMatch` | `BeliefMatches` | `CleanSignals` |

*The state of the server.*  None of `TypeOK`, `QueueConsistent` and `MutexConsistent`
is inductive alone: `wake_up` finds a thread through a queue and then uses its
`thread_wait` (`QueueConsistent`); the objects it takes must be signaled for it, so
that counts stay in range; the mutex it gets must not belong to a thread that nobody
will clean up after.  `IInv` conjoins the object invariant, the wait invariant, the
types, `CountsBounded` (the bound checked when a request was accepted still holds when
its wait is satisfied) and `DeadInv` (the owner of a mutex is alive, or the frame of
its `abandon_mutexes` is on the stack).  One lemma per action; the centre is
`WakeThreadKeeps`, for a wake from anywhere, with any continuation that loses no
`abandon` frame.  `QueueLemmas` proves what removal, append, push and pop do to the
elements and the distinctness of a sequence.  `AbandonmentsReported` needs `IInv` and
a look at each step that clears the flag of a mutex.

*The stack.*  `StackInv` says which frames can be below which (the rest of a select or
of a pulse only at the bottom, a `wake_thread` only alone, a wake with a limit only on
the rest of the handler that asked for it; the wakes of killed threads come on top and
have no limit) and that a wait which `select_on` has not yet checked is the last in its
queue and has its `select` frame on the stack.  `ApcInv`: while an APC is queued that a
wait lets in, the thread's `wake_thread` or the check of `select_on` is still to come.
With an empty stack that is `NoMissedApc`.

*Lost wakes.*  `LostInv` has two parts.  `WakeOwed`: when a waiter's objects are
ready, each signaled object it waits for is one whose `wake_up` is on the stack, or
the thread is watched as above.  `Supplied`: a `wake_up` with a limit is for
an auto-reset event, or for a semaphore whose count is not above what is left of the
limit, so that one that stops at its limit leaves no ready waiter behind.
That a wake takes what it was counted for is what fails for a
`WAIT_ALL` that ends by its deadline: `TimedAllPlain` says that no `WAIT_ALL` with a
deadline includes an auto-reset event or a semaphore.  Mutexes and manual-reset events
may be in one: their wakes have no limit.  The run `timedall` is a counterexample
without the hypothesis, so the theorems say that nothing else loses a wake; the
requests of `core` and `interrupt` satisfy it.

*Order.*  `FifoGrant` speaks of one step in which a waiter gets a mutex past an earlier
one.  `GivenWasFree`: the mutex was free before the step.  `TurnIsToCome`: then an earlier
waiter that is not suspended and does not wait for all of its objects was ready, and by
`WakeOwed` the `wake_up` of the mutex, or the waiter's own `wake_thread`, is on the stack.
The walk that is being taken goes from the head and would not have passed it, so it is a
walk further down; and `select_on`, when it checks its own wait, is alone on the stack
(`BaseIsAlone`).

*Beliefs.*  `Told` says that what a client believes of a mutex is what the server has
recorded, or differs by the one grant that the `select` frame on the stack has still
to report.  `CleanSignals`: a `SELECT_SIGNAL_AND_WAIT` for a mutex is not alertable, its
deadline is not past, and it gets no system APC (all waits of the client let those in,
`NtSignalAndWaitForSingleObject` in `unix/sync.c` too); then a wait that `signal_object` itself has ended (`SelectSelfWoken`) was ended by the mutex, and
the status that `select_on` drops is the one it then reports.  The run
`selfwoken` is a counterexample without it; the requests of `core` and `interrupt`
satisfy it.

### SelectProtocolProofs

`AnswersMatch` (`OneAnswer`), `ContextsAccepted` (`NotRefused`), `ContextsHandedOver`
(`ContextHandedOver`), for any `SuspendMax` and `ApcMax`, whether or not the call
signals an object.  That each level has one answer is not inductive: which reply is
whose depends on where both are.  `Talk` lists the places: the wait or reply of level
1 alone; with level 2 reading on top, the two waits, a wait and a reply, or two
replies in either order, one of them perhaps stolen.  `ContextInv`: a valid context is
that of the level 2 that runs, which has sent it already, and no reply that would end
that level is in the pipe.  `SelectInv` conjoins them with the types.

### SrwLockProofs

`Exclusion`, `Counting`, `TypeCorrect`, `Fitting`, `Refinement`, `ExclusiveWakes`,
`SharedWakes`.  `LockInv` is the conjunction of types, `MutualExclusion` and
`WordCounts`: the word excludes only because it counts, and it counts only because an
exclusive holder is alone.  Each action moves at most one thread between the three
sets that the word counts, so one lemma on cardinalities serves all actions.
`Refinement` maps the sets of holders and of exclusive callers to `RwLock`; the word's
tests `owners = 0` and `exclusive_waiters = 0` become the emptiness of these sets by
`WordCounts`.

`WakeInv` adds the address waits: queues hold nobody but sleepers, once each
(`QueuesHoldSleepers`); a sleeper is queued, alerted or on the list of someone who is
about to alert it (`SleepersKnown`); a caller that goes to sleep compared the word
with a value under which the lock was taken (`SeenTaken`).  With these
`ExclusiveWakeDue` and `SharedWakeDue` are inductive.

### CriticalSectionProofs

`SectionHandedOver` (`HandedOver`).  `SectionInv` adds to the types where the section
is and what `LockCount` counts (`PlaceInv`, with the time at which a leaving thread saw
`LockCount`), the places of the threads in their calls (`PcFits`), and that what a
thread has yet to do is nested (`ProgramsNested`).  The last follows from
`NestingAssumption`: a program leaves what it has entered, and only that.  To
leave a section that another thread owns is an error of the program.

### ThreadPoolProofs

| Theorem | States | Needs |
|---|---|---|
| `PoolCounts`, `CallbacksHaveWorkers` | `CoreInv`, `NoStrandedCallback` | - |
| `ObjectsAgree`, `ReferencesAreCounted` | `Base`, `ReferencesCounted` | - |
| `PoolIsCounted`, `AssertionsAreMet` | `PoolInv`, `AssertionsHold` | - |
| `NobodyIsForgotten` | `NoForgottenWaiter` | - |

*The pool.*  `CoreInv`: an object is in the list of its priority exactly while it has
pending callbacks (`QueueInv`), the counts of an object and of the pool are those of the
workers (`CountInv`), and a worker that is about to sleep still has the pool locked, with
nothing pending (`WorkerInv`).  Its last part, `StrandInv`, compares the number of pending
callbacks with the number of workers that are awake without one: while a worker sleeps, a
submit adds one to both, and a worker that takes a callback takes one from both.

*References.*  `ReferencesCounted` speaks of sums over what threads have to do.  Its
inductive form `ObjectInv` says of each object which operations can be to do at the
same time, by whom, and under which lock: at most one thread has to release it, to unlock
the pool after its last release, to join it to its group or to finish with it for the
group; a member is gathered by the thread that has the group locked; a `retire` is alone
with the object; a timer in the timer queue is held by the application.  `Ordered` fixes
the order of operations in `todo`, so that an operation is there once and a sum becomes a
condition.  These parts need each other, hence one lemma per action and part.

*Assertions.*  `PoolInv` adds that `objcount` is the number of objects alive, that the
pool's `refcount` is that number, the workers and the application's own, that a pool with
objects has a worker, and that the group's `refcount` is the number of objects that have
not left it.  That the assertions of `tp_threadpool_release` and `tp_group_release`, of
`tp_object_release`, `tp_object_submit` and `tp_object_execute` hold is then arithmetic.

*Waiters.*  `NoForgottenWaiter` follows step by step (`WaiterStep`) from `WaitInv`: sleeping
is the first thing that a sleeper has to do (`HeadSleeps`), and nobody sleeps for the
closing group on a member without a callback pending or running (`GroupSleeps`).  The
second is kept because an object that is being finished for the group is cancelled by no
other thread, which `ObjectInv` knows.

### SendMessageProofs

`ServerAgrees`, `TypeCorrect`, `ResultsAreOwned` (`ResultsOwned`), `RepliesAreRight`
(`RightReply`).  The invariant `IInv` has three layers.  `ServerInv` relates each result
to the lists that have it, in both directions (`SentLink`, `ReceivedLink`), and says when it
is alive and holds a hook's input (`Lives`).  `Shown`: the wake bits are what the lists
show.  `CallInv`: the results on the two stacks of a queue are those of the calls on the
thread's stack, in their order (`InStep`); without the order a reply could be taken for
another call's.  In the middle of a handler the layers hold in part: `PoppedOff`, `Unstored`
and the like say what does.  The loops of a dying queue are handled by an induction over
the list (`EachRuns`, below) with the elements still to come as part of the invariant.

### AsyncProofs

`AsyncsAgree`, `TypeCorrect`, `CompletionsPostedOnce` (`CompletedOnce`),
`CancelsAreCounted` (`CancelCounts`).  `Fits` says, of one async, which records, APC
states, IRP states and calls go together; every field of `struct async` appears in it,
since whether a completion is posted depends on `pending`, which is set at the hand-off,
by the direct result or by the driver, and each of these relies on what the others have not
yet done, and for a success also on the skip flag and on whether the call was told of it at
once.  An async that is `missed` is left out of this.  `CompletedOnce` and most of `CancelCounts` follow from it for one async.  The
other parts of the invariant relate asyncs: queues hold each once (`Lists`), and the
counts of the groups are cardinalities (`Counts`).  A function of the server changes one
async; `Touches` says so, and that the rest of the invariant is kept.

### Loops

`tlapm` does no induction over data by itself.  Where a handler walks a list, a lemma
(`EachRuns`, `ReadsRun`) shows that the recursive function of the loop has a value at each
index, and the invariant of the loop is then carried from index to index by `UpTo`, an
induction over an interval that is itself proved from a least element.  The loop's
invariant names the elements that are still to come, which are as they were.

### Only model-checked

* The liveness properties (`ServerReturns`, `TimedWaitEnds`, `TerminationSignaled`,
  `WantedIsTaken`, `ReadersServed`, `SuspensionHolds`, `ResumeReturns`,
  `WaitAnswered`, `SystemApcRuns`, `KilledEnds`, `NobodyForgotten`, `ReleasedIsFreed`,
  `SendReturns`, `AsyncEnds`), which are beyond the prover.
* `SignalsOnce` and `InOneGroup`, which are violated.

## 5. Plan

1. *The core*: `ServerWait`, `SelectProtocol`, `Futex`/`SrwLock`/`RwLock`, and the
   theorems about them.
2. *More of the system*: `CriticalSection`, `ThreadPool`, `SendMessage`, `Async`.
3. *More proofs*: the safety invariants of `ThreadPool`, `SendMessage` and `Async`.
4. *Next*: that `Futex` alone forgets no sleeper, for any code that uses it.
5. *Later*: the steps inside the spin lock of `RtlWaitOnAddress`; keyed events;
   completion ports; the two ends of a pipe; file locks; handle tables; waitable
   timers; process exit and debug events.

## 6. Not modelled

Everything that is data rather than control (registry, windows, atoms, memory,
file contents, formatting of replies), generated marshalling, the host's kernel
(ntsync, sockets, signals beyond SIGUSR1 and SIGQUIT), and the libraries outside
`server/` and `ntdll`.
