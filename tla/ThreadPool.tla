----------------------------- MODULE ThreadPool -----------------------------
(* The thread pool of dlls/ntdll/threadpool.c: one pool, one cleanup group, *)
(* simple, work and timer objects, the worker threads and the timer thread. *)
(*                                                                          *)
(* A thread's todo is what remains of the function it is in, one operation  *)
(* per critical section or interlocked access; RtlEnterCriticalSection of a *)
(* lock that the function keeps while it takes another one is in owner.     *)
(* Condition variables are what dlls/ntdll/sync.c makes of them: releasing  *)
(* the lock and going to sleep is one step, a wake reaches who sleeps.      *)
EXTENDS Naturals, Sequences, FiniteSets, SequencesExt, FiniteSetsExt

CONSTANTS
  Objects,       \* threadpool_objects
  Priority,      \* their priorities: 0 high, 1 normal, 2 low
  Callers,       \* threads of the application
  Programs,      \* applications: see program
  Workers,       \* places for worker threads
  TimerThread,   \* the thread of the timer queue
  MinWorkers, MaxWorkers,
  PendingMax,    \* bound on the callbacks an application queues for one object
  BusyMax,       \* bound on num_busy_workers, where new callbacks are queued
  CreateMayFail, \* may RtlCreateUserThread fail?
  NoThread, NoObject

Threads == Callers \union Workers \union {TimerThread}
Locks == {"pool", "group", "timer"}

ASSUME PoolAssumption ==
  /\ IsFiniteSet(Objects) /\ IsFiniteSet(Callers) /\ IsFiniteSet(Workers)
  /\ Priority \in [Objects -> 0..2]
  /\ \A p \in Programs :
       /\ p.kind \in [Objects -> {"simple", "work", "timer", "unused"}]
       /\ p.group \subseteq Objects /\ p.periodic \subseteq Objects
       /\ p.callers \subseteq Callers
  /\ MinWorkers \in Nat /\ MaxWorkers \in Nat \ {0}
  /\ PendingMax \in Nat \ {0} /\ BusyMax \in Nat \ {0}
  /\ MinWorkers <= MaxWorkers /\ Cardinality(Workers) >= MaxWorkers
  /\ CreateMayFail \in BOOLEAN
  /\ Callers \intersect Workers = {} /\ TimerThread \notin Callers \union Workers
  /\ NoThread \notin Threads /\ NoObject \notin Objects

VARIABLES
  program,     \* which objects the application uses, of which kind, those whose
               \* environment names the cleanup group, the periodic timers, and the
               \* threads that call: it never changes
  life,        \* none, alive or freed
  refcount, shutdown, pending, running, associated, member,
  appref,      \* does the application still hold the object?
  pools,       \* lists of objects with pending callbacks, by priority
  pool,        \* the other fields of the struct threadpool
  group,       \* the struct threadpool_group
  closing,     \* has TpReleaseCleanupGroupMembers been called?
  timers,      \* timers in the timer queue
  owner,       \* owners of the critical sections that are kept for several steps
  wpc,         \* where in threadpool_worker_proc a worker is
  wobj,        \* the object whose callback it runs
  wassoc,      \* instance.associated of that callback
  todo         \* operations a thread has still to do

vars == <<program, life, refcount, shutdown, pending, running, associated, member, appref,
          pools, pool, group, closing, timers, owner, wpc, wobj, wassoc, todo>>

workervars == <<wpc, wobj, wassoc>>
countvars == <<pending, running, associated>>
groupvars == <<group, closing, member>>
poolvars == <<pools, pool>>
appvars == <<program, appref>>

Kind(o) == program.kind[o]
GroupMembers == program.group
Periodic == program.periodic

Op(name, o) == [op |-> name, obj |-> o]

Init ==
  /\ program \in Programs
  /\ life = [o \in Objects |-> "none"]
  /\ refcount = [o \in Objects |-> 0]
  /\ shutdown = [o \in Objects |-> FALSE]
  /\ pending = [o \in Objects |-> 0]
  /\ running = [o \in Objects |-> 0]
  /\ associated = [o \in Objects |-> 0]
  /\ member = [o \in Objects |-> FALSE]
  /\ appref = [o \in Objects |-> FALSE]
  /\ pools = [p \in 0..2 |-> <<>>]
  /\ pool = [refcount |-> 1, objcount |-> 0, shutdown |-> FALSE,
             num_workers |-> 0, num_busy_workers |-> 0]
  /\ group = [refcount |-> 1, shutdown |-> FALSE, members |-> <<>>]
  /\ closing = FALSE
  /\ timers = {}
  /\ owner = [l \in Locks |-> NoThread]
  /\ wpc = [w \in Workers |-> "none"]
  /\ wobj = [w \in Workers |-> NoObject]
  /\ wassoc = [w \in Workers |-> FALSE]
  /\ todo = [t \in Threads |-> <<>>]

-----------------------------------------------------------------------------
(* Helpers.                                                                 *)

\* RtlEnterCriticalSection succeeds; critical sections are recursive.
Free(l, t) == owner[l] \in {NoThread, t}

At(t, name) == todo[t] # <<>> /\ Head(todo[t]).op = name
Obj(t) == Head(todo[t]).obj

HasItem == \E p \in 0..2 : pools[p] # <<>>

\* threadpool_get_next_item
NextItem == Head(pools[Min({p \in 0..2 : pools[p] # <<>>})])

\* tp_object_prio_queue, but for num_busy_workers
Queued(ps, o) == [ps EXCEPT ![Priority[o]] = Append(@, o)]
Unqueued(ps, o) == [ps EXCEPT ![Priority[o]] = RemoveFirst(@, o)]

\* object_is_finished, of given counts
Finished(o, pend, count) == pend[o] = 0 /\ count[o] = 0

\* Mutant of Woken: RtlWakeConditionVariable, which wakes only one sleeper.
WokenOne(td, o, name) ==
  LET sleepers == {t \in Threads : td[t] # <<>> /\ Head(td[t]) = Op(name, o)}
      first == CHOOSE t \in sleepers : TRUE
  IN IF sleepers = {} THEN td
     ELSE [td EXCEPT ![first] =
             <<Op(IF name = "asleep" THEN "wait" ELSE "group_wait", o)>> \o Tail(@)]

\* RtlWakeAllConditionVariable of finished_event ("asleep") or of
\* group_finished_event ("group_asleep"): sleepers look again.
Woken(td, o, name) ==
  [t \in Threads |->
     IF td[t] # <<>> /\ Head(td[t]) = Op(name, o)
     THEN <<Op(IF name = "asleep" THEN "wait" ELSE "group_wait", o)>> \o Tail(td[t])
     ELSE td[t]]

WokenIf(cond, td, o, name) == IF cond THEN Woken(td, o, name) ELSE td

\* Mutant of OneWoken: nobody is woken while some worker is awake.
OneWokenIfNeeded ==
  LET sleepers == {w \in Workers : wpc[w] = "sleep"}
      awake == {w \in Workers : wpc[w] \in {"start", "woken", "expired", "loop"}}
  IN IF sleepers = {} \/ awake # {} THEN {wpc}
     ELSE {[wpc EXCEPT ![w] = "woken"] : w \in sleepers}

\* RtlWakeConditionVariable of update_event.  The wake may be spent on a worker whose
\* sleep times out at the same time.
OneWoken ==
  LET sleepers == {w \in Workers : wpc[w] = "sleep"}
  IN IF sleepers = {} THEN {wpc}
     ELSE {[wpc EXCEPT ![w] = pc] : w \in sleepers, pc \in {"woken", "expired"}}

\* RtlWakeAllConditionVariable of update_event
AllWoken == [w \in Workers |-> IF wpc[w] = "sleep" THEN "woken" ELSE wpc[w]]

\* tp_new_worker_thread
NewWorker(busy) ==
  \E w \in Workers :
    /\ wpc[w] = "none"
    /\ wpc' = [wpc EXCEPT ![w] = "start"]
    /\ pool' = [pool EXCEPT !.refcount = @ + 1, !.num_workers = @ + 1,
                            !.num_busy_workers = busy]

\* What the last tp_object_release has to do.
Destroy(o) ==
  IF o \in GroupMembers THEN <<Op("ungroup", o), Op("unlock", o)>> ELSE <<Op("unlock", o)>>

\* Mutant of PrepareShutdown: a released timer stays in the timer queue.
PrepareNothing(o) == <<>>

\* tp_object_prepare_shutdown
PrepareShutdown(o) == IF Kind(o) = "timer" THEN <<Op("unset", o)>> ELSE <<>>

\* Is a call of the application, or of a callback, using the object?
InUse(o) ==
  \E t \in Callers \union Workers : \E x \in ToSet(todo[t]) : x.obj = o

HasOp(o, names) ==
  \E t \in Callers \union Workers : \E x \in ToSet(todo[t]) : x.obj = o /\ x.op \in names

\* The application calls between other calls, a callback for its own object.
\* An object is the application's from the end of its creation to its release.
MayCall(t, o) ==
  /\ todo[t] = <<>>
  /\ t \in Callers \/ (t \in Workers /\ wobj[t] = o)
  /\ life[o] = "alive" /\ appref[o]
  /\ ~(closing /\ o \in GroupMembers)
  /\ ~HasOp(o, {"join", "retire"})

Then(t, ops) == todo' = [todo EXCEPT ![t] = ops]
Continue(t) == Then(t, Tail(todo[t]))

-----------------------------------------------------------------------------
(* What every function does to an object: operations of a todo.             *)

\* tp_object_submit
Submit(t, o) ==
  LET busy == pool.num_busy_workers
      queued == IF pending[o] = 0 THEN busy + 1 ELSE busy
      grow == busy >= pool.num_workers /\ pool.num_workers < MaxWorkers
  IN /\ Free("pool", t)
     /\ refcount' = [refcount EXCEPT ![o] = @ + 1]
     /\ pending' = [pending EXCEPT ![o] = @ + 1]
     /\ pools' = IF pending[o] = 0 THEN Queued(pools, o) ELSE pools
     /\ \/ grow /\ NewWorker(queued)
        \/ /\ ~grow \/ CreateMayFail
           /\ pool' = [pool EXCEPT !.num_busy_workers = queued]
           /\ wpc' \in OneWoken
     /\ UNCHANGED <<appvars, life, shutdown, running, associated, groupvars, timers,
                    owner, wobj, wassoc>>

DoSubmit(t) == At(t, "submit") /\ Submit(t, Obj(t)) /\ Continue(t)

\* tp_object_initialize, the part that enters the cleanup group
DoJoin(t) ==
  /\ At(t, "join") /\ Free("group", t)
  /\ group' = [group EXCEPT !.members = Append(@, Obj(t))]
  /\ member' = [member EXCEPT ![Obj(t)] = TRUE]
  /\ Continue(t)
  /\ UNCHANGED <<appvars, life, refcount, shutdown, countvars, poolvars, closing,
                 timers, owner, workervars>>

\* tp_object_release
DoRelease(t) ==
  /\ At(t, "release")
  /\ refcount' = [refcount EXCEPT ![Obj(t)] = @ - 1]
  /\ Then(t, (IF refcount[Obj(t)] = 1 THEN Destroy(Obj(t)) ELSE <<>>) \o Tail(todo[t]))
  /\ UNCHANGED <<appvars, life, shutdown, countvars, groupvars, poolvars, timers, owner,
                 workervars>>

\* tp_object_release and tp_group_release: the object leaves the group.
DoUngroup(t) ==
  /\ At(t, "ungroup") /\ Free("group", t)
  /\ group' = [group EXCEPT !.refcount = @ - 1,
                            !.members = IF member[Obj(t)] THEN RemoveFirst(@, Obj(t)) ELSE @]
  /\ member' = [member EXCEPT ![Obj(t)] = FALSE]
  /\ Continue(t)
  /\ UNCHANGED <<appvars, life, refcount, shutdown, countvars, poolvars, closing,
                 timers, owner, workervars>>

\* tp_threadpool_unlock, and the object is freed
DoUnlock(t) ==
  /\ At(t, "unlock") /\ Free("pool", t)
  /\ pool' = [pool EXCEPT !.objcount = @ - 1, !.refcount = @ - 1]
  /\ life' = [life EXCEPT ![Obj(t)] = "freed"]
  /\ Continue(t)
  /\ UNCHANGED <<appvars, refcount, shutdown, countvars, groupvars, pools, timers,
                 owner, workervars>>

\* Mutant of DoCancel: one reference is given back for all pending callbacks.
DoCancelOnce(t) ==
  LET o == Obj(t)
  IN /\ At(t, "cancel") /\ Free("pool", t)
     /\ pending' = [pending EXCEPT ![o] = 0]
     /\ pools' = Unqueued(pools, o)
     /\ refcount' = [refcount EXCEPT ![o] = IF pending[o] > 0 THEN @ - 1 ELSE @]
     /\ Then(t, (IF refcount[o] = pending[o] THEN Destroy(o) ELSE <<>>) \o Tail(todo[t]))
     /\ UNCHANGED <<appvars, life, shutdown, running, associated, groupvars, pool,
                    timers, owner, workervars>>

\* tp_object_cancel: it takes the pending callbacks, gives their references back, and
\* wakes nobody.  The references go after the critical section is left; none of them is
\* the last, since the canceller holds one of its own or the application's.
DoCancel(t) ==
  LET o == Obj(t)
  IN /\ At(t, "cancel") /\ Free("pool", t)
     /\ pending' = [pending EXCEPT ![o] = 0]
     /\ pools' = Unqueued(pools, o)
     /\ refcount' = [refcount EXCEPT ![o] = @ - pending[o]]
     /\ Then(t, (IF refcount[o] = pending[o] THEN Destroy(o) ELSE <<>>) \o Tail(todo[t]))
     /\ UNCHANGED <<appvars, life, shutdown, running, associated, groupvars, pool,
                    timers, owner, workervars>>

\* tp_object_wait: one look, and the sleep if the object is not finished.  After the wait
\* of a group for a member it finishes with that.
DoWait(t) ==
  /\ \/ At(t, "wait") /\ IF Finished(Obj(t), pending, associated) THEN Continue(t)
                         ELSE Then(t, <<Op("asleep", Obj(t))>> \o Tail(todo[t]))
     \/ At(t, "group_wait") /\ Then(t, <<Op(IF Finished(Obj(t), pending, running) THEN "finish"
                                             ELSE "group_asleep", Obj(t))>> \o Tail(todo[t]))
  /\ Free("pool", t)
  /\ UNCHANGED <<appvars, life, refcount, shutdown, countvars, groupvars, poolvars,
                 timers, owner, workervars>>

\* tp_timerqueue_unlock
DoUnset(t) ==
  /\ At(t, "unset") /\ Free("timer", t)
  /\ timers' = timers \ {Obj(t)}
  /\ Continue(t)
  /\ UNCHANGED <<appvars, life, refcount, shutdown, countvars, groupvars, poolvars,
                 owner, workervars>>

\* TpReleaseWork, TpReleaseTimer: shutdown and release
DoRetire(t) ==
  LET o == Obj(t)
  IN /\ At(t, "retire")
     /\ shutdown' = [shutdown EXCEPT ![o] = TRUE]
     /\ appref' = [appref EXCEPT ![o] = FALSE]
     /\ refcount' = [refcount EXCEPT ![o] = @ - 1]
     /\ Then(t, (IF refcount[o] = 1 THEN Destroy(o) ELSE <<>>) \o Tail(todo[t]))
     /\ UNCHANGED <<program, life, countvars, groupvars, poolvars, timers, owner,
                    workervars>>

-----------------------------------------------------------------------------
(* What the application calls.                                              *)

\* tp_threadpool_lock: the pool has a worker.
ThreadpoolLock(c) ==
  LET locked == [pool EXCEPT !.refcount = @ + 1, !.objcount = @ + 1]
  IN /\ Free("pool", c)
     /\ IF pool.num_workers > 0 THEN pool' = locked /\ wpc' = wpc
        ELSE \E w \in Workers :
               /\ wpc[w] = "none"
               /\ wpc' = [wpc EXCEPT ![w] = "start"]
               /\ pool' = [locked EXCEPT !.refcount = @ + 1, !.num_workers = @ + 1]

\* TpSimpleTryPost, TpAllocWork, TpAllocTimer: tp_threadpool_lock, then
\* tp_object_initialize.  The group's reference is counted here, not just before the
\* object joins: till then only tp_group_release could tell, and the application does
\* not release the group of an object it is creating.
TpAlloc(c, o) ==
  /\ todo[c] = <<>> /\ life[o] = "none" /\ Kind(o) # "unused"
  /\ ~pool.shutdown /\ ~(closing /\ o \in GroupMembers)
  /\ ThreadpoolLock(c)
  /\ life' = [life EXCEPT ![o] = "alive"]
  /\ refcount' = [refcount EXCEPT ![o] = 1]
  /\ appref' = [appref EXCEPT ![o] = Kind(o) # "simple"]
  /\ group' = IF o \in GroupMembers THEN [group EXCEPT !.refcount = @ + 1] ELSE group
  /\ LET If(cond, name) == IF cond THEN <<Op(name, o)>> ELSE <<>>
     IN Then(c, If(Kind(o) = "simple", "submit") \o If(o \in GroupMembers, "join")
                \o If(Kind(o) = "simple", "release"))
  /\ UNCHANGED <<program, shutdown, countvars, member, pools, closing, timers, owner,
                 wobj, wassoc>>

TpPostWork(t, o) ==
  /\ MayCall(t, o) /\ Kind(o) = "work"
  /\ pending[o] < PendingMax /\ pool.num_busy_workers < BusyMax
  /\ Submit(t, o)
  /\ UNCHANGED todo

\* TpSetTimer: a timeout later, a timeout of zero, or none
TpSetTimerEx(t, o, when) ==
  /\ MayCall(t, o) /\ Kind(o) = "timer"
  /\ pending[o] < PendingMax /\ pool.num_busy_workers < BusyMax
  /\ Free("timer", t)
  /\ timers' = IF when = "later" \/ (when = "now" /\ o \in Periodic)
               THEN timers \union {o} ELSE timers \ {o}
  /\ Then(t, IF when = "now" THEN <<Op("submit", o)>> ELSE <<>>)
  /\ UNCHANGED <<appvars, life, refcount, shutdown, countvars, groupvars, poolvars,
                 owner, workervars>>

\* TpReleaseWork, TpReleaseTimer; no other call may be using the object.
TpRelease(t, o) ==
  /\ MayCall(t, o) /\ ~InUse(o)
  /\ Then(t, PrepareShutdown(o) \o <<Op("retire", o)>>)
  /\ UNCHANGED <<appvars, life, refcount, shutdown, countvars, groupvars, poolvars,
                 timers, owner, workervars>>

\* TpWaitForWork, TpWaitForTimer
TpWaitForObject(c, o, cancel) ==
  /\ MayCall(c, o)
  /\ Then(c, (IF cancel THEN <<Op("cancel", o)>> ELSE <<>>) \o <<Op("wait", o)>>)
  /\ UNCHANGED <<appvars, life, refcount, shutdown, countvars, groupvars, poolvars,
                 timers, owner, workervars>>

\* TpReleaseCleanupGroupMembers: the group is locked, and each of its members comes to be
\* gathered.
TpReleaseCleanupGroupMembers(c, cancel) ==
  /\ todo[c] = <<>> /\ ~closing /\ ~group.shutdown /\ Free("group", c)
  /\ \A o \in GroupMembers : Kind(o) # "simple" => ~InUse(o)
  /\ closing' = TRUE
  /\ owner' = [owner EXCEPT !["group"] = c]
  /\ Then(c, Append([i \in DOMAIN group.members |-> Op("gather", group.members[i])],
                    Op(IF cancel THEN "leavegroup_cancel" ELSE "leavegroup", NoObject)))
  /\ UNCHANGED <<appvars, life, refcount, shutdown, countvars, member, poolvars, group,
                 timers, workervars>>

\* An object whose last reference is gone is dropped from the group; the others get a
\* reference, and a timer leaves the timer queue.
DoGather(t) ==
  LET o == Obj(t)
  IN /\ At(t, "gather")
     /\ member' = [member EXCEPT ![o] = FALSE]
     /\ IF refcount[o] = 0
        THEN /\ group' = [group EXCEPT !.members = RemoveFirst(@, o)]
             /\ Continue(t)
             /\ UNCHANGED refcount
        ELSE /\ refcount' = [refcount EXCEPT ![o] = @ + 1]
             /\ Then(t, PrepareShutdown(o) \o Tail(todo[t]))
             /\ UNCHANGED group
     /\ UNCHANGED <<appvars, life, shutdown, countvars, poolvars, closing, timers,
                    owner, workervars>>

\* The members move to a list of the function, which cancels them if it is asked to and
\* then waits for one after the other.
DoLeaveGroup(t) ==
  LET each(name) == [i \in DOMAIN group.members |-> Op(name, group.members[i])]
  IN /\ At(t, "leavegroup") \/ At(t, "leavegroup_cancel")
     /\ group' = [group EXCEPT !.members = <<>>]
     /\ owner' = [owner EXCEPT !["group"] = NoThread]
     /\ Then(t, (IF At(t, "leavegroup_cancel") THEN each("cancel") ELSE <<>>)
                \o each("group_wait"))
     /\ UNCHANGED <<appvars, life, refcount, shutdown, countvars, member, poolvars,
                    closing, timers, workervars>>

\* The end of TpReleaseCleanupGroupMembers for one object: it gives back the
\* application's reference, if that is not done, and its own.
DoFinish(t) ==
  LET o == Obj(t)
      app == ~shutdown[o] /\ Kind(o) # "simple"
      refs == IF app THEN 2 ELSE 1
  IN /\ At(t, "finish")
     /\ shutdown' = [shutdown EXCEPT ![o] = TRUE]
     /\ appref' = IF app THEN [appref EXCEPT ![o] = FALSE] ELSE appref
     /\ refcount' = [refcount EXCEPT ![o] = @ - refs]
     /\ Then(t, (IF refcount[o] = refs THEN Destroy(o) ELSE <<>>) \o Tail(todo[t]))
     /\ UNCHANGED <<program, life, countvars, groupvars, poolvars, timers, owner,
                    workervars>>

TpReleaseCleanupGroup(c) ==
  /\ todo[c] = <<>> /\ ~group.shutdown
  /\ \A o \in GroupMembers : ~InUse(o) /\ ~appref[o]
  /\ group' = [group EXCEPT !.shutdown = TRUE, !.refcount = @ - 1]
  /\ UNCHANGED <<appvars, life, refcount, shutdown, countvars, member, poolvars,
                 closing, timers, owner, workervars, todo>>

\* TpReleasePool: tp_threadpool_shutdown does not enter the critical section.
TpReleasePool(c) ==
  /\ todo[c] = <<>> /\ ~pool.shutdown
  /\ \A o \in Objects : ~appref[o] /\ ~InUse(o)
  /\ pool' = [pool EXCEPT !.shutdown = TRUE, !.refcount = @ - 1]
  /\ wpc' = AllWoken
  /\ UNCHANGED <<appvars, life, refcount, shutdown, countvars, groupvars, pools, timers,
                 owner, wobj, wassoc, todo>>

-----------------------------------------------------------------------------
(* threadpool_worker_proc and the callbacks.                                *)

\* The worker has, or gets, the critical section of the pool.
InPool(w) ==
  /\ wpc[w] \in {"start", "woken", "expired", "loop"}
  /\ todo[w] = <<>> /\ Free("pool", w)

\* The sleep has timed out and the pool may shrink.
Redundant(w) ==
  /\ wpc[w] = "expired" /\ ~HasItem
  /\ \/ pool.num_workers > Max({MinWorkers, 1})
     \/ MinWorkers = 0 /\ pool.objcount = 0

\* The next item is taken, and its callback starts (tp_object_execute).
WorkerTakes(w) ==
  LET o == NextItem
      again == pending[o] > 1
  IN /\ InPool(w) /\ HasItem
     /\ pools' = IF again THEN Queued(Unqueued(pools, o), o) ELSE Unqueued(pools, o)
     /\ pool' = IF again THEN [pool EXCEPT !.num_busy_workers = @ + 1] ELSE pool
     /\ pending' = [pending EXCEPT ![o] = @ - 1]
     /\ running' = [running EXCEPT ![o] = @ + 1]
     /\ associated' = [associated EXCEPT ![o] = @ + 1]
     /\ wobj' = [wobj EXCEPT ![w] = o]
     /\ wassoc' = [wassoc EXCEPT ![w] = TRUE]
     /\ wpc' = [wpc EXCEPT ![w] = "callback"]
     /\ owner' = [owner EXCEPT !["pool"] = NoThread]
     /\ UNCHANGED <<appvars, life, refcount, shutdown, groupvars, timers, todo>>

\* TpDisassociateCallback
TpDisassociateCallback(w) ==
  LET o == wobj[w]
      left == [associated EXCEPT ![o] = @ - 1]
  IN /\ wpc[w] = "callback" /\ todo[w] = <<>> /\ wassoc[w] /\ Free("pool", w)
     /\ associated' = left
     /\ todo' = WokenIf(Finished(o, pending, left), todo, o, "asleep")
     /\ wassoc' = [wassoc EXCEPT ![w] = FALSE]
     /\ UNCHANGED <<appvars, life, refcount, shutdown, pending, running, groupvars,
                    poolvars, timers, owner, wpc, wobj>>

\* The end of tp_object_execute, and the release of the worker's reference; the
\* critical section of the pool is kept.
CallbackReturns(w) ==
  LET o == wobj[w]
      run == [running EXCEPT ![o] = @ - 1]
      assoc == IF wassoc[w] THEN [associated EXCEPT ![o] = @ - 1] ELSE associated
      woken == WokenIf(Finished(o, pending, run), todo, o, "group_asleep")
  IN /\ wpc[w] = "callback" /\ todo[w] = <<>> /\ Free("pool", w)
     /\ shutdown' = IF Kind(o) = "simple" THEN [shutdown EXCEPT ![o] = TRUE] ELSE shutdown
     /\ running' = run
     /\ associated' = assoc
     /\ pool' = [pool EXCEPT !.num_busy_workers = @ - 1]
     /\ refcount' = [refcount EXCEPT ![o] = @ - 1]
     /\ todo' = [WokenIf(wassoc[w] /\ Finished(o, pending, assoc), woken, o, "asleep")
                   EXCEPT ![w] = IF refcount[o] = 1 THEN Destroy(o) ELSE <<>>]
     /\ wobj' = [wobj EXCEPT ![w] = NoObject]
     /\ wassoc' = [wassoc EXCEPT ![w] = FALSE]
     /\ wpc' = [wpc EXCEPT ![w] = "loop"]
     /\ owner' = [owner EXCEPT !["pool"] = w]
     /\ UNCHANGED <<appvars, life, pending, groupvars, pools, timers>>

\* Nothing to do, and no shutdown seen: the worker is about to sleep ...
WorkerChecks(w) ==
  /\ InPool(w) /\ ~HasItem /\ ~Redundant(w) /\ ~pool.shutdown
  /\ wpc' = [wpc EXCEPT ![w] = "check"]
  /\ owner' = [owner EXCEPT !["pool"] = w]
  /\ UNCHANGED <<appvars, life, refcount, shutdown, countvars, groupvars, poolvars,
                 timers, wobj, wassoc, todo>>

\* ... it sleeps on update_event, and the sleep times out.
WorkerSleeps(w) ==
  /\ wpc[w] = "check"
  /\ wpc' = [wpc EXCEPT ![w] = "sleep"]
  /\ owner' = [owner EXCEPT !["pool"] = NoThread]
  /\ UNCHANGED <<appvars, life, refcount, shutdown, countvars, groupvars, poolvars,
                 timers, wobj, wassoc, todo>>

WorkerTimesOut(w) ==
  /\ wpc[w] = "sleep"
  /\ wpc' = [wpc EXCEPT ![w] = "expired"]
  /\ UNCHANGED <<appvars, life, refcount, shutdown, countvars, groupvars, poolvars,
                 timers, owner, wobj, wassoc, todo>>

\* Mutant of WorkerEnds: tp_threadpool_release is forgotten after a timeout.
WorkerEndsOnTimeout(w) ==
  /\ InPool(w) /\ ~HasItem /\ (Redundant(w) \/ pool.shutdown)
  /\ pool' = [pool EXCEPT !.num_workers = @ - 1,
                          !.refcount = IF Redundant(w) THEN @ ELSE @ - 1]
  /\ wpc' = [wpc EXCEPT ![w] = "none"]
  /\ owner' = [owner EXCEPT !["pool"] = NoThread]
  /\ UNCHANGED <<appvars, life, refcount, shutdown, countvars, groupvars, pools, timers,
                 wobj, wassoc, todo>>

WorkerEnds(w) ==
  /\ InPool(w) /\ ~HasItem /\ (Redundant(w) \/ pool.shutdown)
  /\ pool' = [pool EXCEPT !.num_workers = @ - 1, !.refcount = @ - 1]
  /\ wpc' = [wpc EXCEPT ![w] = "none"]
  /\ owner' = [owner EXCEPT !["pool"] = NoThread]
  /\ UNCHANGED <<appvars, life, refcount, shutdown, countvars, groupvars, pools, timers,
                 wobj, wassoc, todo>>

-----------------------------------------------------------------------------
(* submit_expired_timers, in the timer thread: timerqueue.cs is kept.       *)

TimerExpires(o) ==
  /\ o \in timers /\ todo[TimerThread] = <<>> /\ Free("timer", TimerThread)
  /\ pending[o] < PendingMax /\ pool.num_busy_workers < BusyMax
  /\ timers' = timers \ {o}
  /\ owner' = [owner EXCEPT !["timer"] = TimerThread]
  /\ Then(TimerThread, <<Op("submit", o), Op("rearm", o)>>)
  /\ UNCHANGED <<appvars, life, refcount, shutdown, countvars, groupvars, poolvars,
                 workervars>>

DoRearm(t) ==
  /\ At(t, "rearm")
  /\ timers' = IF Obj(t) \in Periodic /\ ~shutdown[Obj(t)]
               THEN timers \union {Obj(t)} ELSE timers
  /\ owner' = [owner EXCEPT !["timer"] = NoThread]
  /\ Continue(t)
  /\ UNCHANGED <<appvars, life, refcount, shutdown, countvars, groupvars, poolvars,
                 workervars>>

-----------------------------------------------------------------------------

Operation(t) ==
  \/ DoSubmit(t) \/ DoJoin(t) \/ DoRelease(t) \/ DoUngroup(t) \/ DoUnlock(t)
  \/ DoCancel(t) \/ DoWait(t) \/ DoUnset(t) \/ DoRetire(t)
  \/ DoGather(t) \/ DoLeaveGroup(t) \/ DoFinish(t) \/ DoRearm(t)

Call(t) ==
  \E o \in Objects :
    \/ TpPostWork(t, o) \/ TpRelease(t, o)
    \/ \E when \in {"later", "now", "never"} : TpSetTimerEx(t, o, when)

CallerStep(c) ==
  \/ \E o \in Objects : TpAlloc(c, o) \/ \E cancel \in BOOLEAN : TpWaitForObject(c, o, cancel)
  \/ \E cancel \in BOOLEAN : TpReleaseCleanupGroupMembers(c, cancel)
  \/ TpReleaseCleanupGroup(c) \/ TpReleasePool(c)

WorkerStep(w) ==
  \/ WorkerTakes(w) \/ CallbackReturns(w) \/ WorkerChecks(w) \/ WorkerSleeps(w)
  \/ WorkerEnds(w)

\* The threads stand in a circle: the worker that releases a callback has the pool and
\* asks for the group, TpReleaseCleanupGroupMembers has the group and asks for the timer
\* queue, and the timer thread has the timer queue and asks for the pool.
Circle ==
  /\ \E w \in Workers : owner["pool"] = w /\ At(w, "ungroup")
  /\ \E c \in Callers : owner["group"] = c /\ At(c, "unset")
  /\ owner["timer"] = TimerThread /\ At(TimerThread, "submit")

Ended ==
  /\ pool.shutdown /\ \A w \in Workers : wpc[w] = "none"
  /\ \A t \in Threads : todo[t] = <<>>

\* The program has ended, or will not.
Done == (Ended \/ Circle) /\ UNCHANGED vars

Next ==
  \/ \E t \in Threads : Operation(t)
  \/ \E t \in program.callers \union Workers : Call(t)
  \/ \E c \in program.callers : CallerStep(c)
  \/ \E w \in Workers : WorkerStep(w) \/ WorkerTimesOut(w) \/ TpDisassociateCallback(w)
  \/ \E o \in Objects : TimerExpires(o)
  \/ Done

Spec == Init /\ [][Next]_vars

\* A thread gets the critical sections it asks for again and again, callbacks
\* return, sleeps time out.  Nobody has to call anything, or a timer to expire.
FairSpec ==
  /\ Spec
  /\ \A t \in Callers \union {TimerThread} : SF_vars(Operation(t))
  /\ \A w \in Workers : SF_vars(Operation(w) \/ WorkerStep(w) \/ WorkerTimesOut(w))

-----------------------------------------------------------------------------
(* Properties.                                                              *)

\* The operations of these names on the object that are still to be done.
Count(o, names) ==
  LET in(t) == {i \in DOMAIN todo[t] : todo[t][i].obj = o /\ todo[t][i].op \in names}
  IN Cardinality(UNION {{t} \X in(t) : t \in Threads})

Executing(o) == Cardinality({w \in Workers : wobj[w] = o})

\* TpReleaseCleanupGroupMembers has the object in its hands, and not yet in its own list.
Gathered(o) == o \in ToSet(group.members) /\ ~member[o]

\* refcount is what threads will give back: the application's reference, one per
\* pending callback, one per callback that runs, one per release still to be done and,
\* once gathered, one of TpReleaseCleanupGroupMembers.  No thread has yet to touch an
\* object that is freed.  (tp_object_submit, tp_object_cancel, tp_object_release,
\* threadpool_worker_proc)
ReferencesCounted ==
  \A o \in Objects :
    IF life[o] = "alive"
    THEN refcount[o] = (IF appref[o] THEN 1 ELSE 0) + pending[o] + Executing(o)
                       + Count(o, {"release"}) + (IF Gathered(o) THEN 1 ELSE 0)
                       + Count(o, {"group_wait", "group_asleep", "finish"})
    ELSE refcount[o] = 0 /\ o \notin timers
         /\ \A t \in Threads : \A x \in ToSet(todo[t]) : x.obj # o

\* The assertions of the code: an object ends shut down and idle, the pool and the
\* group end shut down and empty, nothing is submitted after shutdown, a submit finds a
\* worker, an item has a pending callback, a worker that returns was counted as busy.
AssertionsHold ==
  /\ \A o \in Objects :
       /\ life[o] = "alive" /\ refcount[o] = 0 =>
            shutdown[o] /\ pending[o] = 0 /\ running[o] = 0 /\ associated[o] = 0
       /\ (\E t \in Threads : At(t, "submit") /\ Obj(t) = o) =>
            ~shutdown[o] /\ ~pool.shutdown /\ pool.num_workers > 0
       /\ \A p \in 0..2 : (o \in ToSet(pools[p])) = (p = Priority[o] /\ pending[o] > 0)
  /\ pool.refcount = 0 => pool.shutdown /\ pool.objcount = 0 /\ ~HasItem
  /\ group.refcount = 0 => group.shutdown /\ group.members = <<>>
  /\ Cardinality({w \in Workers : wpc[w] = "callback"}) <= pool.num_busy_workers

\* Who sleeps in tp_object_wait, and who sleeps there for the closing group, on an object
\* without a callback pending or running.
Forgotten(t)      == At(t, "asleep") /\ Finished(Obj(t), pending, associated)
GroupForgotten(t) == At(t, "group_asleep") /\ Finished(Obj(t), pending, running)

\* Whichever step finishes an object wakes everyone who sleeps on it, and nobody goes to
\* sleep on a finished one: tp_object_wait "Waits until all pending and running callbacks
\* of a specific object have been processed" (threadpool.c:2157).  The exception is
\* tp_object_cancel, which wakes nobody: the last pending callbacks that one thread cancels
\* leave another thread asleep in TpWaitForWork, but never the closing of the group.
ForgetsNobody ==
  \A t \in Threads :
    /\ Forgotten(t)' => Forgotten(t) \/ \E c \in Threads : DoCancel(c) /\ Obj(c) = Obj(t)
    /\ ~GroupForgotten(t)'

NoForgottenWaiter == [][ForgetsNobody]_vars

\* While a worker sleeps, every callback that is pending has a worker on its way to the
\* queue: a wake that is spent on a worker whose sleep has just timed out, or on one
\* that finds the queue empty, loses nothing (tp_object_submit,
\* RtlSleepConditionVariableCS in threadpool_worker_proc).
NoStrandedCallback ==
  (\E w \in Workers : wpc[w] = "sleep") =>
    Cardinality(UNION {{o} \X (1..pending[o]) : o \in Objects})
      <= Cardinality({w \in Workers : wpc[w] \in {"start", "woken", "expired", "loop"}})

\* What the application has released, or left to TpReleaseCleanupGroupMembers, is
\* freed in the end: pending callbacks run or are cancelled, and no thread waits for ever
\* for a critical section, unless in the one circle of locks that a timer and another
\* object in one group allow (tp_object_release, tp_timerqueue_unlock,
\* submit_expired_timers).  A pool that is released ends with its last object, also when
\* tp_threadpool_shutdown's wake comes too early for a worker.
ReleasedIsFreed ==
  []<>(\/ /\ \A o \in Objects :
               life[o] = "alive" => ~shutdown[o] /\ ~(closing /\ o \in GroupMembers)
          /\ pool.shutdown => pool.refcount = 0
       \/ Circle)

=============================================================================
