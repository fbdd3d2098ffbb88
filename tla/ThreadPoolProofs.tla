-------------------------- MODULE ThreadPoolProofs --------------------------
(* Proofs about ThreadPool: the references of an object, the assertions of   *)
(* the code, no sleeper and no callback forgotten.                          *)
EXTENDS ThreadPool, QueueLemmas, FiniteSetTheorems, TLAPS

-----------------------------------------------------------------------------
(* The inductive invariant.                                                 *)

ObjectNames == {"submit", "join", "release", "ungroup", "unlock", "cancel", "wait", "asleep",
                "group_wait", "group_asleep", "unset", "retire", "gather", "finish", "rearm"}
LeaveNames == {"leavegroup", "leavegroup_cancel"}
RefNames == {"group_wait", "group_asleep", "finish"}
Roles == {"submit", "join", "release", "ungroup", "unlock", "cancel", "waits", "ref", "unset",
          "retire", "gather", "rearm", "leave"}

Ops == [op : ObjectNames, obj : Objects] \union [op : LeaveNames, obj : {NoObject}]

\* What the thread has still to do, as a set.
Todo(t) == ToSet(todo[t])

PoolTypes ==
  /\ DOMAIN pool = {"refcount", "objcount", "shutdown", "num_workers", "num_busy_workers"}
  /\ pool.refcount \in Int /\ pool.objcount \in Int /\ pool.shutdown \in BOOLEAN
  /\ pool.num_workers \in Int /\ pool.num_busy_workers \in Int

GroupTypes ==
  /\ DOMAIN group = {"refcount", "shutdown", "members"}
  /\ group.refcount \in Int /\ group.shutdown \in BOOLEAN /\ group.members \in Seq(Objects)

WorkerTypes ==
  /\ wpc \in [Workers -> {"none", "start", "woken", "expired", "loop", "check", "sleep",
                          "callback"}]
  /\ wobj \in [Workers -> Objects \union {NoObject}]
  /\ wassoc \in [Workers -> BOOLEAN]

ObjectTypes ==
  /\ program \in Programs
  /\ life \in [Objects -> {"none", "alive", "freed"}]
  /\ refcount \in [Objects -> Int] /\ pending \in [Objects -> Int]
  /\ running \in [Objects -> Int] /\ associated \in [Objects -> Int]
  /\ shutdown \in [Objects -> BOOLEAN] /\ member \in [Objects -> BOOLEAN]
  /\ appref \in [Objects -> BOOLEAN]
  /\ pools \in [0..2 -> Seq(Objects)]
  /\ closing \in BOOLEAN
  /\ timers \subseteq Objects
  /\ owner \in [Locks -> Threads \union {NoThread}]
  /\ todo \in [Threads -> Seq(Ops)]

Types == ObjectTypes /\ PoolTypes /\ GroupTypes /\ WorkerTypes

\* An object is in the list of its priority exactly while it has pending callbacks.
QueueInv ==
  /\ \A p \in 0..2 : Distinct(pools[p])
  /\ \A o \in Objects :
       /\ pending[o] >= 0
       /\ \A p \in 0..2 : (o \in ToSet(pools[p])) = (p = Priority[o] /\ pending[o] > 0)

\* A worker has an object while it runs a callback; one that is about to sleep keeps the
\* pool locked, and nothing is pending.
WorkerInv ==
  \A w \in Workers :
    /\ (wobj[w] \in Objects) = (wpc[w] = "callback")
    /\ wassoc[w] => wpc[w] = "callback"
    /\ wpc[w] = "check" => /\ owner["pool"] = w /\ todo[w] = <<>>
                           /\ \A o \in Objects : pending[o] = 0

\* The counts of an object and of the pool are those of the workers.
RunningInv == \A o \in Objects : running[o] = Executing(o)

Associates(o) == {w \in Workers : wobj[w] = o /\ wassoc[w]}
AssociatedInv == \A o \in Objects : associated[o] = Cardinality(Associates(o))

Started == {w \in Workers : wpc[w] # "none"}
StartedInv == pool.num_workers = Cardinality(Started)

InCallback == {w \in Workers : wpc[w] = "callback"}
Waiting == {o \in Objects : pending[o] > 0}
BusyInv == Cardinality(InCallback) + Cardinality(Waiting) <= pool.num_busy_workers

CountInv == RunningInv /\ AssociatedInv /\ StartedInv /\ BusyInv

\* The part an operation plays for its object: a wait is the same before, during and
\* after the sleep.
Role(name) ==
  IF name \in RefNames THEN "ref"
  ELSE IF name \in {"wait", "asleep"} THEN "waits"
  ELSE IF name \in LeaveNames THEN "leave" ELSE name

Does(t, r, o) == \E x \in Todo(t) : x.obj = o /\ Role(x.op) = r
Some(r, o) == \E t \in Threads : Does(t, r, o)

\* What a thread has to do comes in an order, and nothing twice.
MayFollow(r, s) ==
  \/ r = "submit" /\ s \in {"join", "release", "rearm"}
  \/ r = "join" /\ s = "release"
  \/ r = "ungroup" /\ s \in {"unlock", "cancel", "waits", "ref"}
  \/ r = "unlock" /\ s \in {"cancel", "waits", "ref"}
  \/ r = "cancel" /\ s \in {"cancel", "waits", "ref"}
  \/ r = "ref" /\ s = "ref"
  \/ r = "unset" /\ s \in {"retire", "gather", "leave"}
  \/ r = "gather" /\ s \in {"gather", "leave"}

Fits(x, y) ==
  MayFollow(Role(x.op), Role(y.op)) /\ (x.obj # y.obj \/ Role(x.op) # Role(y.op))

Ordered(q) == \A i, j \in 1..Len(q) : i < j => Fits(q[i], q[j])

TodoInv ==
  \A t \in Threads :
    /\ Ordered(todo[t])
    /\ \A x \in Todo(t) : /\ t = TimerThread => x.op \in {"submit", "rearm"}
                          /\ x.op = "rearm" => t = TimerThread

\* The locks that are kept for several steps.
LockInv ==
  /\ owner["timer"] \in {NoThread, TimerThread}
  /\ todo[TimerThread] # <<>> => owner["timer"] = TimerThread
  /\ \A t \in Threads : owner["group"] = t <=> Does(t, "leave", NoObject)
  /\ owner["group"] # NoThread => closing
  /\ Distinct(group.members)

In(o) == o \in ToSet(group.members)
Closed(o) == Gathered(o) \/ Some("ref", o)
Ending(o) == Closed(o) \/ Some("retire", o) \/ Some("gather", o)

\* An object and its cleanup group.
GroupInv(o) ==
  /\ In(o) => o \in GroupMembers
  /\ member[o] => In(o)
  /\ Gathered(o) => owner["group"] # NoThread
  /\ \A t \in Threads :
       /\ Does(t, "gather", o) => owner["group"] = t /\ member[o]
       /\ owner["group"] = t /\ member[o] => Does(t, "gather", o)
       /\ Does(t, "ref", o) => owner["group"] = NoThread /\ closing /\ o \in GroupMembers
       /\ Does(t, "join", o) => o \in GroupMembers /\ ~In(o) /\ ~Some("ref", o)
       /\ Does(t, "ungroup", o) => o \in GroupMembers /\ Does(t, "unlock", o)
       /\ Does(t, "unlock", o) /\ In(o) => Does(t, "ungroup", o)

UniqueInv(o) ==
  \A t, u \in Threads : \A r \in {"release", "unlock", "join", "ref"} :
    Does(t, r, o) /\ Does(u, r, o) => t = u

One(b) == IF b THEN 1 ELSE 0

\* The references of an object that is alive, and what is left of one that is not.
References(o) ==
  One(appref[o]) + pending[o] + Executing(o) + One(Some("release", o)) + One(Closed(o))

AliveInv(o) ==
  life[o] = "alive" =>
    /\ refcount[o] = References(o)
    /\ Some("unlock", o) => refcount[o] = 0
    /\ Kind(o) # "simple" => appref[o] = ~shutdown[o]
    /\ Kind(o) = "simple" => /\ ~appref[o]
                             /\ shutdown[o] \/ Some("submit", o) \/ pending[o] > 0
                                \/ Executing(o) > 0 \/ Closed(o)

GoneInv(o) ==
  life[o] # "alive" =>
    /\ refcount[o] = 0 /\ o \notin timers /\ ~appref[o] /\ pending[o] = 0
    /\ ~In(o) /\ Executing(o) = 0
    /\ life[o] = "none" => ~shutdown[o]
    /\ \A r \in Roles : ~Some(r, o)

\* What an operation that is still to be done can rely on: of a simple callback,
SimpleInv(o) ==
  \A t \in Threads :
    /\ Does(t, "release", o) => Kind(o) = "simple"
    /\ Does(t, "submit", o) /\ Kind(o) = "simple" =>
         /\ Does(t, "release", o) /\ ~shutdown[o] /\ pending[o] = 0 /\ Executing(o) = 0
         /\ ~In(o) /\ ~Closed(o)
    /\ Does(t, "join", o) /\ Kind(o) = "simple" => Does(t, "release", o)

\* of a call for an object of the application,
CallInv(o) ==
  \A t \in Threads :
    /\ t # TimerThread /\ Kind(o) # "simple"
         /\ (Does(t, "submit", o) \/ Does(t, "join", o) \/ Does(t, "waits", o)) =>
         appref[o] /\ ~Ending(o)
    /\ Does(t, "waits", o) => Kind(o) # "simple"
    /\ Does(t, "cancel", o) => Does(t, "ref", o) \/ Does(t, "waits", o)

\* of its release,
RetireInv(o) ==
  \A t \in Threads :
    /\ Does(t, "retire", o) =>
         /\ appref[o] /\ ~Closed(o)
         /\ \A u \in Callers \union Workers : \A r \in Roles :
              Does(u, r, o) => u = t /\ r \in {"unset", "retire"}
    /\ Does(t, "unset", o) =>
         Does(t, "retire", o) \/ (owner["group"] = t /\ Gathered(o))

\* of a timer.
TimerInv(o) ==
  o \in timers \/ (\E r \in Roles : Does(TimerThread, r, o)) =>
    /\ Kind(o) = "timer" /\ appref[o] /\ ~Some("ref", o)
    /\ \A t \in Threads : Does(t, "retire", o) => Does(t, "unset", o)
    /\ Gathered(o) => Some("unset", o)

UseInv(o) == SimpleInv(o) /\ CallInv(o) /\ RetireInv(o) /\ TimerInv(o)
ObjectInv(o) == GroupInv(o) /\ UniqueInv(o) /\ AliveInv(o) /\ GoneInv(o) /\ UseInv(o)
AllObjects == \A o \in Objects : ObjectInv(o)

EndInv ==
  pool.shutdown => \A o \in Objects : ~appref[o] /\ ~Some("release", o)

\* The group still counts the object.
Grouped(o) ==
  /\ life[o] = "alive" /\ o \in GroupMembers
  /\ \A t \in Threads : Does(t, "unlock", o) => Does(t, "ungroup", o)

GroupedSet == {o \in Objects : Grouped(o)}
Alive == {o \in Objects : life[o] = "alive"}

\* What the pool counts, and the worker it has while it has objects; what the group counts.
AliveCount == pool.objcount = Cardinality(Alive)
RefInv == pool.refcount = One(~pool.shutdown) + pool.objcount + pool.num_workers
StaffInv == ~pool.shutdown /\ pool.objcount > 0 => pool.num_workers > 0
GroupCount == group.refcount = One(~group.shutdown) + Cardinality(GroupedSet)

-----------------------------------------------------------------------------
(* Facts about the constants and about what a thread has still to do.       *)

\* What is known of the constants: finite sets of objects and workers, and three kinds of
\* thread that never coincide.
LEMMA Constants ==
  /\ IsFiniteSet(Objects) /\ IsFiniteSet(Workers)
  /\ \A t \in Callers : t \in Threads /\ t \notin Workers /\ t # TimerThread
  /\ \A w \in Workers : w \in Threads /\ w # TimerThread
  /\ TimerThread \in Threads /\ NoThread \notin Threads /\ NoObject \notin Objects
  /\ \A t \in Threads : t \in Callers \union Workers \/ t = TimerThread
  /\ Priority \in [Objects -> 0..2]
BY PoolAssumption DEF Threads

\* A program calls from the callers only, and an object has one of four kinds.
LEMMA ProgramTypes ==
  ASSUME Types
  PROVE  /\ program.callers \subseteq Callers
         /\ \A o \in Objects : Kind(o) \in {"simple", "work", "timer", "unused"}
BY PoolAssumption DEF Types, ObjectTypes, Kind

\* An operation is its name and its object; only closing the group has no object.
LEMMA OpTypes ==
  /\ \A name \in ObjectNames, o \in Objects : Op(name, o) \in Ops
  /\ \A name \in LeaveNames : Op(name, NoObject) \in Ops
  /\ \A x \in Ops : x.op \in ObjectNames \union LeaveNames /\ x = Op(x.op, x.obj)
  /\ \A x \in Ops : x.op \in ObjectNames => x.obj \in Objects
  /\ \A x \in Ops : x.op \in LeaveNames => x.obj = NoObject
  /\ \A m, n, o, p : Op(m, o) = Op(n, p) <=> m = n /\ o = p
  /\ \A n, o : Op(n, o).op = n /\ Op(n, o).obj = o
BY DEF Ops, Op, ObjectNames, LeaveNames

\* The operation that a thread does next.
LEMMA Heads ==
  ASSUME NEW t \in Threads, NEW name \in ObjectNames, todo[t] \in Seq(Ops), At(t, name)
  PROVE  /\ todo[t] # <<>> /\ Head(todo[t]) \in Ops /\ Tail(todo[t]) \in Seq(Ops)
         /\ Obj(t) \in Objects /\ Head(todo[t]) = Op(name, Obj(t)) /\ Op(name, Obj(t)) \in Todo(t)
         /\ Todo(t) = {Op(name, Obj(t))} \union ToSet(Tail(todo[t]))
<1>1. todo[t] # <<>> /\ Head(todo[t]).op = name
  BY DEF At
<1>2. /\ Head(todo[t]) \in Ops /\ Tail(todo[t]) \in Seq(Ops)
      /\ Todo(t) = {Head(todo[t])} \union ToSet(Tail(todo[t]))
  BY <1>1, ToSetTail DEF Todo
<1>3. Obj(t) \in Objects /\ Head(todo[t]) = Op(name, Obj(t))
  BY <1>1, <1>2, OpTypes DEF Obj
<1> QED
  BY <1>1, <1>2, <1>3

\* What is put before the rest of a todo.
LEMMA Before ==
  ASSUME NEW p \in Seq(Ops), NEW q \in Seq(Ops)
  PROVE  p \o q \in Seq(Ops) /\ ToSet(p \o q) = ToSet(p) \union ToSet(q)
BY ToSetConcat

\* tp_object_release of the last reference leaves the group and then the pool.
LEMMA DestroyOps ==
  ASSUME NEW o \in Objects
  PROVE  /\ Destroy(o) \in Seq(Ops)
         /\ ToSet(Destroy(o)) = {Op("unlock", o)}
                                \union (IF o \in GroupMembers THEN {Op("ungroup", o)} ELSE {})
<1>1. Op("ungroup", o) \in Ops /\ Op("unlock", o) \in Ops
  BY OpTypes DEF ObjectNames
<1>2. CASE o \in GroupMembers
  <2>1. Destroy(o) = <<Op("ungroup", o), Op("unlock", o)>>
    BY <1>2 DEF Destroy
  <2>2. /\ <<Op("ungroup", o), Op("unlock", o)>> \in Seq(Ops)
        /\ ToSet(<<Op("ungroup", o), Op("unlock", o)>>) = {Op("ungroup", o), Op("unlock", o)}
    BY <1>1, ToSetShort
  <2> QED
    BY <1>2, <2>1, <2>2
<1>3. CASE o \notin GroupMembers
  <2>1. Destroy(o) = <<Op("unlock", o)>>
    BY <1>3 DEF Destroy
  <2>2. <<Op("unlock", o)>> \in Seq(Ops) /\ ToSet(<<Op("unlock", o)>>) = {Op("unlock", o)}
    BY <1>1, ToSetShort
  <2> QED
    BY <1>3, <2>1, <2>2
<1> QED
  BY <1>2, <1>3

\* Only a timer has something to undo before it is shut down.
LEMMA PrepareOps ==
  ASSUME NEW o \in Objects
  PROVE  /\ PrepareShutdown(o) \in Seq(Ops)
         /\ ToSet(PrepareShutdown(o)) = IF Kind(o) = "timer" THEN {Op("unset", o)} ELSE {}
<1>1. Op("unset", o) \in Ops
  BY OpTypes DEF ObjectNames
<1>2. /\ <<Op("unset", o)>> \in Seq(Ops) /\ ToSet(<<Op("unset", o)>>) = {Op("unset", o)}
      /\ <<>> \in Seq(Ops) /\ ToSet(<<>>) = {}
  BY <1>1, ToSetShort
<1> QED
  BY <1>2 DEF PrepareShutdown

\* The members of the group, as operations of one name.
LEMMA EachOps ==
  ASSUME NEW name \in ObjectNames, NEW m \in Seq(Objects), Distinct(m),
         NEW q, q = [i \in DOMAIN m |-> Op(name, m[i])]
  PROVE  /\ q \in Seq(Ops) /\ Distinct(q) /\ Len(q) = Len(m)
         /\ ToSet(q) = {Op(name, o) : o \in ToSet(m)}
<1>1. Len(m) \in Nat /\ DOMAIN m = 1..Len(m) /\ \A i \in 1..Len(m) : m[i] \in Objects
  BY LenProperties, ElementOfSeq
<1>2. q \in [1..Len(m) -> Ops]
  BY <1>1, OpTypes
<1>3. q \in Seq(Ops) /\ Len(q) = Len(m)
  BY <1>1, <1>2, IsASeq, LenProperties
<1>4. \A i \in 1..Len(m) : q[i] = Op(name, m[i])
  BY <1>1
<1>5. Distinct(q)
  BY <1>3, <1>4, OpTypes DEF Distinct
<1>8. ToSet(q) = {q[i] : i \in 1..Len(q)} /\ ToSet(m) = {m[i] : i \in 1..Len(m)}
  <2> HIDE DEF Ops
  <2> QED
    BY <1>3, ToSetMembers
<1>6. ToSet(q) = {q[i] : i \in 1..Len(m)} /\ ToSet(m) = {m[i] : i \in 1..Len(m)}
  BY <1>3, <1>8, Zenon
<1>7. {q[i] : i \in 1..Len(m)} = {Op(name, o) : o \in {m[i] : i \in 1..Len(m)}}
  BY <1>4
<1> QED
  BY <1>3, <1>5, <1>6, <1>7

\* The steps of the specification.
LEMMA NextSteps ==
  ASSUME Types, [Next]_vars
  PROVE  \/ UNCHANGED vars
         \/ \E t \in Threads :
              \/ DoSubmit(t)
              \/ DoJoin(t)
              \/ DoRelease(t)
              \/ DoUngroup(t)
              \/ DoUnlock(t)
              \/ DoCancel(t)
              \/ DoWait(t)
              \/ DoUnset(t)
              \/ DoRetire(t)
              \/ DoGather(t)
              \/ DoLeaveGroup(t)
              \/ DoFinish(t)
              \/ DoRearm(t)
         \/ \E t \in Callers \union Workers, o \in Objects :
              \/ TpPostWork(t, o)
              \/ TpRelease(t, o)
         \/ \E t \in Callers \union Workers, o \in Objects, when \in {"later", "now", "never"} :
              \/ TpSetTimerEx(t, o, when)
         \/ \E c \in Callers, o \in Objects :
              \/ TpAlloc(c, o)
         \/ \E c \in Callers, o \in Objects, cancel \in BOOLEAN :
              \/ TpWaitForObject(c, o, cancel)
         \/ \E c \in Callers, cancel \in BOOLEAN :
              \/ TpReleaseCleanupGroupMembers(c, cancel)
         \/ \E c \in Callers :
              \/ TpReleaseCleanupGroup(c)
              \/ TpReleasePool(c)
         \/ \E w \in Workers :
              \/ WorkerTakes(w)
              \/ CallbackReturns(w)
              \/ WorkerChecks(w)
              \/ WorkerSleeps(w)
              \/ WorkerEnds(w)
              \/ WorkerTimesOut(w)
              \/ TpDisassociateCallback(w)
         \/ \E o \in Objects :
              \/ TimerExpires(o)
<1>1. program.callers \subseteq Callers
  BY ProgramTypes
<1> QED
  BY <1>1, Zenon DEF Next, Operation, Call, CallerStep, WorkerStep, Done

\* The same operation for each member of the group is a list of operations.
LEMMA EachTypes ==
  ASSUME NEW m \in Seq(Objects), NEW name \in ObjectNames
  PROVE  [i \in DOMAIN m |-> Op(name, m[i])] \in Seq(Ops)
<1> DEFINE q == [i \in DOMAIN m |-> Op(name, m[i])]
<1>1. Len(m) \in Nat /\ DOMAIN m = 1..Len(m) /\ \A i \in 1..Len(m) : m[i] \in Objects
  BY LenProperties, ElementOfSeq
<1>2. q \in [1..Len(m) -> Ops]
  BY <1>1, OpTypes
<1>3. q \in Seq(Ops)
  <2> HIDE DEF q
  <2> QED
    BY <1>1, <1>2, IsASeq
<1> QED
  BY <1>3

\* What a new object has still to go through.
AllocOps(o) ==
  LET If(cond, name) == IF cond THEN <<Op(name, o)>> ELSE <<>>
  IN If(Kind(o) = "simple", "submit") \o If(o \in GroupMembers, "join")
     \o If(Kind(o) = "simple", "release")

\* tp_object_initialize has operations of the object left to do.
LEMMA AllocTypes ==
  ASSUME NEW o \in Objects
  PROVE  AllocOps(o) \in Seq(Ops)
<1> DEFINE p == IF Kind(o) = "simple" THEN <<Op("submit", o)>> ELSE <<>>
           q == IF o \in GroupMembers THEN <<Op("join", o)>> ELSE <<>>
           r == IF Kind(o) = "simple" THEN <<Op("release", o)>> ELSE <<>>
<1>1. Op("submit", o) \in Ops /\ Op("join", o) \in Ops /\ Op("release", o) \in Ops
  BY OpTypes DEF ObjectNames
<1>2. p \in Seq(Ops) /\ q \in Seq(Ops) /\ r \in Seq(Ops)
  BY <1>1, ToSetShort
<1>3. AllocOps(o) = p \o q \o r
  BY DEF AllocOps
<1> HIDE DEF p, q, r
<1>4. p \o q \in Seq(Ops)
  BY <1>2, Before
<1> QED
  BY <1>2, <1>3, <1>4, Before

\* Waking the threads that sleep on an object leaves lists of operations.
LEMMA WokenTypes ==
  ASSUME NEW td \in [Threads -> Seq(Ops)], NEW o \in Objects,
         NEW name \in {"asleep", "group_asleep"}, NEW cond
  PROVE  WokenIf(cond, td, o, name) \in [Threads -> Seq(Ops)]
<1> DEFINE x == Op(IF name = "asleep" THEN "wait" ELSE "group_wait", o)
<1>1. x \in Ops
  BY OpTypes DEF ObjectNames
<1> HIDE DEF x
<1>2. \A t \in Threads : td[t] # <<>> => <<x>> \o Tail(td[t]) \in Seq(Ops)
  <2> SUFFICES ASSUME NEW t \in Threads, td[t] # <<>>
               PROVE  <<x>> \o Tail(td[t]) \in Seq(Ops)
    OBVIOUS
  <2>1. Tail(td[t]) \in Seq(Ops)
    BY HeadTailProperties
  <2> QED
    BY <1>1, <2>1, ToSetPush
<1>3. Woken(td, o, name) \in [Threads -> Seq(Ops)]
  BY <1>2 DEF Woken, x
<1> QED
  BY <1>3 DEF WokenIf

\* Queueing an object and taking it out leave queues of objects.
LEMMA QueuedTypes ==
  ASSUME Types, NEW o \in Objects
  PROVE  /\ Queued(pools, o) \in [0..2 -> Seq(Objects)]
         /\ Unqueued(pools, o) \in [0..2 -> Seq(Objects)]
         /\ Queued(Unqueued(pools, o), o) \in [0..2 -> Seq(Objects)]
<1>1. Priority[o] \in 0..2 /\ pools \in [0..2 -> Seq(Objects)]
  BY Constants DEF Types, ObjectTypes
<1>2. /\ Append(pools[Priority[o]], o) \in Seq(Objects)
      /\ RemoveFirst(pools[Priority[o]], o) \in Seq(Objects)
  BY <1>1, AppendDistinct, RemoveFirstType
<1>3. /\ Queued(pools, o) \in [0..2 -> Seq(Objects)]
      /\ Unqueued(pools, o) \in [0..2 -> Seq(Objects)]
  BY <1>1, <1>2 DEF Queued, Unqueued
<1>4. Append(Unqueued(pools, o)[Priority[o]], o) \in Seq(Objects)
  BY <1>1, <1>3, AppendDistinct
<1> QED
  BY <1>1, <1>3, <1>4 DEF Queued

\* The next item is an object of the first list that has one.
LEMMA NextItemIsNext ==
  ASSUME Types, HasItem
  PROVE  NextItem \in Objects /\ \E p \in 0..2 : pools[p] # <<>> /\ NextItem \in ToSet(pools[p])
<1> DEFINE I == {p \in 0..2 : pools[p] # <<>>}
<1>1. I # {} /\ I \subseteq Nat
  BY DEF HasItem
<1>2. Min(I) \in I
  BY <1>1, MinIsMember
<1>3. PICK p \in 0..2 : p = Min(I) /\ pools[p] # <<>>
  BY <1>2
<1>4. NextItem = Head(pools[p])
  BY <1>3 DEF NextItem
<1>5. pools[p] \in Seq(Objects)
  BY DEF Types, ObjectTypes
<1>6. Head(pools[p]) \in Objects /\ Head(pools[p]) \in ToSet(pools[p])
  BY <1>3, <1>5, ToSetTail
<1> QED
  BY <1>3, <1>4, <1>6

\* tp_object_submit preserves the types.
LEMMA SubmitTypes ==
  ASSUME Types, NEW t, NEW o \in Objects, Submit(t, o), todo' \in [Threads -> Seq(Ops)]
  PROVE  Types'
<1>1. pools' \in [0..2 -> Seq(Objects)]
  BY QueuedTypes DEF Submit, Types, ObjectTypes
<1>2. PoolTypes'
  <2> DEFINE busy == pool.num_busy_workers
             queued == IF pending[o] = 0 THEN busy + 1 ELSE busy
  <2>1. \/ pool' = [pool EXCEPT !.num_busy_workers = queued]
        \/ pool' = [pool EXCEPT !.refcount = @ + 1, !.num_workers = @ + 1,
                                !.num_busy_workers = queued]
    BY DEF Submit, NewWorker
  <2>2. queued \in Int
    BY DEF Types, PoolTypes
  <2> HIDE DEF queued
  <2>3. CASE pool' = [pool EXCEPT !.num_busy_workers = queued]
    BY <2>2, <2>3 DEF Types, PoolTypes
  <2>4. CASE pool' = [pool EXCEPT !.refcount = @ + 1, !.num_workers = @ + 1,
                                  !.num_busy_workers = queued]
    BY <2>2, <2>4 DEF Types, PoolTypes
  <2> QED
    BY <2>1, <2>3, <2>4
<1>3. WorkerTypes'
  BY DEF Submit, Types, WorkerTypes, NewWorker, OneWoken
<1>4. GroupTypes'
  BY DEF Submit, Types, GroupTypes, groupvars
<1>5. ObjectTypes'
  BY <1>1 DEF Submit, Types, ObjectTypes, appvars, groupvars
<1> QED
  BY <1>2, <1>3, <1>4, <1>5 DEF Types

\* Types, and that a worker with a callback has an object.
LEMMA TypesStep ==
  ASSUME Types, WorkerInv, [Next]_vars
  PROVE  Types'
<1>1. ASSUME NEW t \in Threads, DoSubmit(t)
     PROVE  Types'
  <2>1. todo[t] \in Seq(Ops) /\ "submit" \in ObjectNames /\ At(t, "submit") /\ Submit(t, Obj(t))
    BY <1>1 DEF Types, ObjectTypes, ObjectNames, DoSubmit
  <2>2. Obj(t) \in Objects /\ Tail(todo[t]) \in Seq(Ops)
    BY <2>1, Heads
  <2>3. todo' \in [Threads -> Seq(Ops)]
    BY <2>2, <1>1 DEF DoSubmit, Then, Continue, Types, ObjectTypes
  <2> QED
    BY <2>1, <2>2, <2>3, SubmitTypes
<1>2. ASSUME NEW t \in Threads, DoJoin(t)
     PROVE  Types'
  <2>1. todo[t] \in Seq(Ops) /\ "join" \in ObjectNames /\ At(t, "join")
    BY <1>2 DEF Types, ObjectTypes, ObjectNames, DoJoin
  <2>2. Obj(t) \in Objects /\ Tail(todo[t]) \in Seq(Ops)
    BY <2>1, Heads
  <2>3. Append(group.members, Obj(t)) \in Seq(Objects)
    BY <2>2, AppendDistinct DEF Types, ObjectTypes, GroupTypes
  <2>4. GroupTypes'
    BY <2>3, <1>2 DEF DoJoin, Types, ObjectTypes, GroupTypes
  <2>5. PoolTypes'
    BY <2>2, <2>4, <1>2 DEF DoJoin, Then, Continue, Types, PoolTypes, appvars, countvars,
       groupvars, poolvars, workervars
  <2>6. WorkerTypes'
    BY <2>2, <2>4, <1>2 DEF DoJoin, Then, Continue, Types, WorkerTypes, appvars, countvars,
       groupvars, poolvars, workervars
  <2>7. ObjectTypes'
    BY <2>2, <2>4, <1>2 DEF DoJoin, Then, Continue, Types, ObjectTypes, appvars, countvars,
       groupvars, poolvars, workervars
  <2> QED
    BY <2>4, <2>5, <2>6, <2>7 DEF Types, ObjectTypes
<1>3. ASSUME NEW t \in Threads, DoRelease(t)
     PROVE  Types'
  <2>1. todo[t] \in Seq(Ops) /\ "release" \in ObjectNames /\ At(t, "release")
    BY <1>3 DEF Types, ObjectTypes, ObjectNames, DoRelease
  <2>2. Obj(t) \in Objects /\ Tail(todo[t]) \in Seq(Ops)
    BY <2>1, Heads
  <2>3. Destroy(Obj(t)) \o Tail(todo[t]) \in Seq(Ops) /\ <<>> \o Tail(todo[t]) \in Seq(Ops)
    BY <2>2, DestroyOps, Before, ToSetShort, EmptySeq
  <2>4. todo' \in [Threads -> Seq(Ops)]
    BY <2>3, <1>3 DEF DoRelease, Then, Types, ObjectTypes
  <2>5. PoolTypes'
    BY <2>2, <2>4, <1>3 DEF DoRelease, Types, PoolTypes, appvars, countvars, groupvars,
       poolvars, workervars
  <2>6. GroupTypes'
    BY <2>2, <2>4, <1>3 DEF DoRelease, Types, GroupTypes, appvars, countvars, groupvars,
       poolvars, workervars
  <2>7. WorkerTypes'
    BY <2>2, <2>4, <1>3 DEF DoRelease, Types, WorkerTypes, appvars, countvars, groupvars,
       poolvars, workervars
  <2>8. ObjectTypes'
    <3>1. refcount' \in [Objects -> Int]
      BY <2>2, <1>3 DEF DoRelease, Types, ObjectTypes
    <3> QED
      BY <3>1, <2>2, <2>4, <1>3 DEF DoRelease, Types, ObjectTypes, appvars, countvars,
         groupvars, poolvars, workervars
  <2> QED
    BY <2>5, <2>6, <2>7, <2>8 DEF Types, ObjectTypes
<1>4. ASSUME NEW t \in Threads, DoUngroup(t)
     PROVE  Types'
  <2>1. todo[t] \in Seq(Ops) /\ "ungroup" \in ObjectNames /\ At(t, "ungroup")
    BY <1>4 DEF Types, ObjectTypes, ObjectNames, DoUngroup
  <2>2. Obj(t) \in Objects /\ Tail(todo[t]) \in Seq(Ops)
    BY <2>1, Heads
  <2>3. RemoveFirst(group.members, Obj(t)) \in Seq(Objects)
    BY <2>2, RemoveFirstType DEF Types, ObjectTypes, GroupTypes
  <2>4. GroupTypes'
    BY <2>3, <1>4 DEF DoUngroup, Types, ObjectTypes, GroupTypes
  <2>5. PoolTypes'
    BY <2>2, <2>4, <1>4 DEF DoUngroup, Then, Continue, Types, PoolTypes, appvars, countvars,
       groupvars, poolvars, workervars
  <2>6. WorkerTypes'
    BY <2>2, <2>4, <1>4 DEF DoUngroup, Then, Continue, Types, WorkerTypes, appvars, countvars,
       groupvars, poolvars, workervars
  <2>7. ObjectTypes'
    BY <2>2, <2>4, <1>4 DEF DoUngroup, Then, Continue, Types, ObjectTypes, appvars, countvars,
       groupvars, poolvars, workervars
  <2> QED
    BY <2>4, <2>5, <2>6, <2>7 DEF Types, ObjectTypes
<1>5. ASSUME NEW t \in Threads, DoUnlock(t)
     PROVE  Types'
  <2>1. todo[t] \in Seq(Ops) /\ "unlock" \in ObjectNames /\ At(t, "unlock")
    BY <1>5 DEF Types, ObjectTypes, ObjectNames, DoUnlock
  <2>2. Obj(t) \in Objects /\ Tail(todo[t]) \in Seq(Ops)
    BY <2>1, Heads
  <2>3. PoolTypes'
    BY <2>1, <2>2, <1>5, Constants DEF DoUnlock, Then, Continue, Types, PoolTypes, appvars,
       countvars, groupvars, poolvars, workervars
  <2>4. GroupTypes'
    BY <2>1, <2>2, <1>5, Constants DEF DoUnlock, Then, Continue, Types, GroupTypes, appvars,
       countvars, groupvars, poolvars, workervars
  <2>5. WorkerTypes'
    BY <2>1, <2>2, <1>5, Constants DEF DoUnlock, Then, Continue, Types, WorkerTypes, appvars,
       countvars, groupvars, poolvars, workervars
  <2>6. ObjectTypes'
    BY <2>1, <2>2, <1>5, Constants DEF DoUnlock, Then, Continue, Types, ObjectTypes, appvars,
       countvars, groupvars, poolvars, workervars
  <2> QED
    BY <2>3, <2>4, <2>5, <2>6 DEF Types, ObjectTypes
<1>6. ASSUME NEW t \in Threads, DoCancel(t)
     PROVE  Types'
  <2>1. todo[t] \in Seq(Ops) /\ "cancel" \in ObjectNames /\ At(t, "cancel")
    BY <1>6 DEF Types, ObjectTypes, ObjectNames, DoCancel
  <2>2. Obj(t) \in Objects /\ Tail(todo[t]) \in Seq(Ops)
    BY <2>1, Heads
  <2>3. Destroy(Obj(t)) \o Tail(todo[t]) \in Seq(Ops) /\ <<>> \o Tail(todo[t]) \in Seq(Ops)
    BY <2>2, DestroyOps, Before, ToSetShort, EmptySeq
  <2>4. todo' \in [Threads -> Seq(Ops)]
    BY <2>3, <1>6 DEF DoCancel, Then, Types, ObjectTypes
  <2>5. pools' \in [0..2 -> Seq(Objects)]
    <3>1. RemoveFirst(pools[Priority[Obj(t)]], Obj(t)) \in Seq(Objects)
      BY <2>2, RemoveFirstType, Constants DEF Types, ObjectTypes
    <3> QED
      BY <3>1, <2>2, <1>6, Constants DEF DoCancel, Unqueued, Types, ObjectTypes
  <2>6. PoolTypes'
    BY <2>2, <2>4, <2>5, <1>6 DEF DoCancel, Types, PoolTypes, appvars, countvars, groupvars,
       poolvars, workervars
  <2>7. GroupTypes'
    BY <2>2, <2>4, <2>5, <1>6 DEF DoCancel, Types, GroupTypes, appvars, countvars, groupvars,
       poolvars, workervars
  <2>8. WorkerTypes'
    BY <2>2, <2>4, <2>5, <1>6 DEF DoCancel, Types, WorkerTypes, appvars, countvars, groupvars,
       poolvars, workervars
  <2>9. ObjectTypes'
    <3>1. refcount' \in [Objects -> Int]
      BY <2>2, <1>6 DEF DoCancel, Types, ObjectTypes
    <3>2. pending' \in [Objects -> Int]
      BY <2>2, <1>6 DEF DoCancel, Types, ObjectTypes
    <3> QED
      BY <3>1, <3>2, <2>2, <2>4, <2>5, <1>6 DEF DoCancel, Types, ObjectTypes, appvars,
         countvars, groupvars, poolvars, workervars
  <2> QED
    BY <2>6, <2>7, <2>8, <2>9 DEF Types, ObjectTypes
<1>7. ASSUME NEW t \in Threads, DoWait(t)
     PROVE  Types'
  <2>1. PICK name \in {"wait", "group_wait"} : At(t, name)
    BY <1>7 DEF DoWait
  <2>2. todo[t] \in Seq(Ops) /\ name \in ObjectNames
    BY <2>1 DEF Types, ObjectTypes, ObjectNames
  <2>3. Obj(t) \in Objects /\ Tail(todo[t]) \in Seq(Ops)
    BY <2>1, <2>2, Heads
  <2>4. \A n \in ObjectNames : <<Op(n, Obj(t))>> \o Tail(todo[t]) \in Seq(Ops)
    BY <2>3, OpTypes, ToSetPush
  <2>5. {"asleep", "finish", "group_asleep"} \subseteq ObjectNames
    BY DEF ObjectNames
  <2>6. todo' \in [Threads -> Seq(Ops)]
    <3> HIDE DEF ObjectNames
    <3> QED
      BY <2>3, <2>4, <2>5, <1>7 DEF DoWait, Then, Continue, Types, ObjectTypes
  <2>7. PoolTypes'
    BY <2>6, <1>7 DEF DoWait, Types, PoolTypes, appvars, countvars, groupvars, poolvars,
       workervars
  <2>8. GroupTypes'
    BY <2>6, <1>7 DEF DoWait, Types, GroupTypes, appvars, countvars, groupvars, poolvars,
       workervars
  <2>9. WorkerTypes'
    BY <2>6, <1>7 DEF DoWait, Types, WorkerTypes, appvars, countvars, groupvars, poolvars,
       workervars
  <2>10. ObjectTypes'
    BY <2>6, <1>7 DEF DoWait, Types, ObjectTypes, appvars, countvars, groupvars, poolvars,
       workervars
  <2> QED
    BY <2>7, <2>8, <2>9, <2>10 DEF Types, ObjectTypes
<1>8. ASSUME NEW t \in Threads, DoUnset(t)
     PROVE  Types'
  <2>1. todo[t] \in Seq(Ops) /\ "unset" \in ObjectNames /\ At(t, "unset")
    BY <1>8 DEF Types, ObjectTypes, ObjectNames, DoUnset
  <2>2. Obj(t) \in Objects /\ Tail(todo[t]) \in Seq(Ops)
    BY <2>1, Heads
  <2>3. PoolTypes'
    BY <2>1, <2>2, <1>8, Constants DEF DoUnset, Then, Continue, Types, PoolTypes, appvars,
       countvars, groupvars, poolvars, workervars
  <2>4. GroupTypes'
    BY <2>1, <2>2, <1>8, Constants DEF DoUnset, Then, Continue, Types, GroupTypes, appvars,
       countvars, groupvars, poolvars, workervars
  <2>5. WorkerTypes'
    BY <2>1, <2>2, <1>8, Constants DEF DoUnset, Then, Continue, Types, WorkerTypes, appvars,
       countvars, groupvars, poolvars, workervars
  <2>6. ObjectTypes'
    BY <2>1, <2>2, <1>8, Constants DEF DoUnset, Then, Continue, Types, ObjectTypes, appvars,
       countvars, groupvars, poolvars, workervars
  <2> QED
    BY <2>3, <2>4, <2>5, <2>6 DEF Types, ObjectTypes
<1>9. ASSUME NEW t \in Threads, DoRetire(t)
     PROVE  Types'
  <2>1. todo[t] \in Seq(Ops) /\ "retire" \in ObjectNames /\ At(t, "retire")
    BY <1>9 DEF Types, ObjectTypes, ObjectNames, DoRetire
  <2>2. Obj(t) \in Objects /\ Tail(todo[t]) \in Seq(Ops)
    BY <2>1, Heads
  <2>3. Destroy(Obj(t)) \o Tail(todo[t]) \in Seq(Ops) /\ <<>> \o Tail(todo[t]) \in Seq(Ops)
    BY <2>2, DestroyOps, Before, ToSetShort, EmptySeq
  <2>4. todo' \in [Threads -> Seq(Ops)]
    BY <2>3, <1>9 DEF DoRetire, Then, Types, ObjectTypes
  <2>5. PoolTypes'
    BY <2>2, <2>4, <1>9 DEF DoRetire, Types, PoolTypes, appvars, countvars, groupvars,
       poolvars, workervars
  <2>6. GroupTypes'
    BY <2>2, <2>4, <1>9 DEF DoRetire, Types, GroupTypes, appvars, countvars, groupvars,
       poolvars, workervars
  <2>7. WorkerTypes'
    BY <2>2, <2>4, <1>9 DEF DoRetire, Types, WorkerTypes, appvars, countvars, groupvars,
       poolvars, workervars
  <2>8. ObjectTypes'
    BY <2>2, <2>4, <1>9 DEF DoRetire, Types, ObjectTypes, appvars, countvars, groupvars,
       poolvars, workervars
  <2> QED
    BY <2>5, <2>6, <2>7, <2>8 DEF Types, ObjectTypes
<1>10. ASSUME NEW t \in Threads, DoGather(t)
     PROVE  Types'
  <2>1. todo[t] \in Seq(Ops) /\ "gather" \in ObjectNames /\ At(t, "gather")
    BY <1>10 DEF Types, ObjectTypes, ObjectNames, DoGather
  <2>2. Obj(t) \in Objects /\ Tail(todo[t]) \in Seq(Ops)
    BY <2>1, Heads
  <2>3. RemoveFirst(group.members, Obj(t)) \in Seq(Objects)
    BY <2>2, RemoveFirstType DEF Types, ObjectTypes, GroupTypes
  <2>4. GroupTypes'
    BY <2>3, <1>10 DEF DoGather, Types, ObjectTypes, GroupTypes
  <2>5. PrepareShutdown(Obj(t)) \o Tail(todo[t]) \in Seq(Ops)
    BY <2>2, PrepareOps, Before
  <2>6. todo' \in [Threads -> Seq(Ops)]
    BY <2>2, <2>5, <1>10 DEF DoGather, Then, Continue, Types, ObjectTypes
  <2>7. PoolTypes'
    BY <2>2, <2>4, <2>6, <1>10 DEF DoGather, Types, PoolTypes, appvars, countvars, groupvars,
       poolvars, workervars
  <2>8. WorkerTypes'
    BY <2>2, <2>4, <2>6, <1>10 DEF DoGather, Types, WorkerTypes, appvars, countvars,
       groupvars, poolvars, workervars
  <2>9. ObjectTypes'
    BY <2>2, <2>4, <2>6, <1>10 DEF DoGather, Types, ObjectTypes, appvars, countvars,
       groupvars, poolvars, workervars
  <2> QED
    BY <2>4, <2>7, <2>8, <2>9 DEF Types, ObjectTypes
<1>11. ASSUME NEW t \in Threads, DoLeaveGroup(t)
     PROVE  Types'
  <2>1. group.members \in Seq(Objects) /\ {"cancel", "group_wait"} \subseteq ObjectNames
    BY DEF Types, ObjectTypes, GroupTypes, ObjectNames
  <2>2. \A name \in ObjectNames : [i \in DOMAIN group.members |-> Op(name, group.members[i])] \in Seq(Ops)
    BY <2>1, EachTypes
  <2>3. todo' \in [Threads -> Seq(Ops)]
    <3> DEFINE p == [i \in DOMAIN group.members |-> Op("cancel", group.members[i])]
               q == [i \in DOMAIN group.members |-> Op("group_wait", group.members[i])]
    <3>1. p \in Seq(Ops) /\ q \in Seq(Ops) /\ <<>> \in Seq(Ops)
      BY <2>1, <2>2, EmptySeq
    <3>2. todo' = [todo EXCEPT ![t] = (IF At(t, "leavegroup_cancel") THEN p ELSE <<>>) \o q]
      BY <1>11 DEF DoLeaveGroup, Then
    <3> HIDE DEF p, q
    <3>3. p \o q \in Seq(Ops) /\ <<>> \o q \in Seq(Ops)
      BY <3>1, Before
    <3> QED
      BY <3>2, <3>3 DEF Types, ObjectTypes
  <2>4. GroupTypes'
    BY <1>11, EmptySeq DEF DoLeaveGroup, Types, ObjectTypes, GroupTypes
  <2>5. PoolTypes'
    BY <2>3, <2>4, <1>11 DEF DoLeaveGroup, Types, PoolTypes, appvars, countvars, groupvars,
       poolvars, workervars
  <2>6. WorkerTypes'
    BY <2>3, <2>4, <1>11 DEF DoLeaveGroup, Types, WorkerTypes, appvars, countvars, groupvars,
       poolvars, workervars
  <2>7. ObjectTypes'
    BY <2>3, <2>4, <1>11 DEF DoLeaveGroup, Types, ObjectTypes, appvars, countvars, groupvars,
       poolvars, workervars
  <2> QED
    BY <2>4, <2>5, <2>6, <2>7 DEF Types, ObjectTypes, Locks
<1>12. ASSUME NEW t \in Threads, DoFinish(t)
     PROVE  Types'
  <2>1. todo[t] \in Seq(Ops) /\ "finish" \in ObjectNames /\ At(t, "finish")
    BY <1>12 DEF Types, ObjectTypes, ObjectNames, DoFinish
  <2>2. Obj(t) \in Objects /\ Tail(todo[t]) \in Seq(Ops)
    BY <2>1, Heads
  <2>3. Destroy(Obj(t)) \o Tail(todo[t]) \in Seq(Ops) /\ <<>> \o Tail(todo[t]) \in Seq(Ops)
    BY <2>2, DestroyOps, Before, ToSetShort, EmptySeq
  <2>4. todo' \in [Threads -> Seq(Ops)]
    BY <2>3, <1>12 DEF DoFinish, Then, Types, ObjectTypes
  <2>5. PoolTypes'
    BY <2>2, <2>4, <1>12 DEF DoFinish, Types, PoolTypes, appvars, countvars, groupvars,
       poolvars, workervars
  <2>6. GroupTypes'
    BY <2>2, <2>4, <1>12 DEF DoFinish, Types, GroupTypes, appvars, countvars, groupvars,
       poolvars, workervars
  <2>7. WorkerTypes'
    BY <2>2, <2>4, <1>12 DEF DoFinish, Types, WorkerTypes, appvars, countvars, groupvars,
       poolvars, workervars
  <2>8. ObjectTypes'
    <3>1. refcount' \in [Objects -> Int]
      BY <2>2, <1>12 DEF DoFinish, Types, ObjectTypes
    <3> QED
      BY <3>1, <2>2, <2>4, <1>12 DEF DoFinish, Types, ObjectTypes, appvars, countvars,
         groupvars, poolvars, workervars
  <2> QED
    BY <2>5, <2>6, <2>7, <2>8 DEF Types, ObjectTypes
<1>13. ASSUME NEW t \in Threads, DoRearm(t)
     PROVE  Types'
  <2>1. todo[t] \in Seq(Ops) /\ "rearm" \in ObjectNames /\ At(t, "rearm")
    BY <1>13 DEF Types, ObjectTypes, ObjectNames, DoRearm
  <2>2. Obj(t) \in Objects /\ Tail(todo[t]) \in Seq(Ops)
    BY <2>1, Heads
  <2>3. PoolTypes'
    BY <2>1, <2>2, <1>13, Constants DEF DoRearm, Then, Continue, Types, PoolTypes, appvars,
       countvars, groupvars, poolvars, workervars
  <2>4. GroupTypes'
    BY <2>1, <2>2, <1>13, Constants DEF DoRearm, Then, Continue, Types, GroupTypes, appvars,
       countvars, groupvars, poolvars, workervars
  <2>5. WorkerTypes'
    BY <2>1, <2>2, <1>13, Constants DEF DoRearm, Then, Continue, Types, WorkerTypes, appvars,
       countvars, groupvars, poolvars, workervars
  <2>6. ObjectTypes'
    BY <2>1, <2>2, <1>13, Constants DEF DoRearm, Then, Continue, Types, ObjectTypes, appvars,
       countvars, groupvars, poolvars, workervars
  <2> QED
    BY <2>3, <2>4, <2>5, <2>6 DEF Types, ObjectTypes
<1>14. ASSUME NEW t \in Callers \union Workers, NEW o \in Objects, TpPostWork(t, o)
     PROVE  Types'
  BY <1>14, SubmitTypes DEF TpPostWork, Types, ObjectTypes
<1>15. ASSUME NEW t \in Callers \union Workers, NEW o \in Objects, TpRelease(t, o)
     PROVE  Types'
  <2>1. PrepareShutdown(o) \o <<Op("retire", o)>> \in Seq(Ops)
    <3>1. Op("retire", o) \in Ops
      BY OpTypes DEF ObjectNames
    <3>2. <<Op("retire", o)>> \in Seq(Ops)
      BY <3>1, ToSetShort
    <3> QED
      BY <3>2, PrepareOps, Before
  <2>2. todo' \in [Threads -> Seq(Ops)]
    BY <2>1, <1>15, Constants DEF TpRelease, Then, Types, ObjectTypes
  <2>3. PoolTypes'
    BY <2>2, <1>15 DEF TpRelease, Types, PoolTypes, appvars, countvars, groupvars, poolvars,
       workervars
  <2>4. GroupTypes'
    BY <2>2, <1>15 DEF TpRelease, Types, GroupTypes, appvars, countvars, groupvars, poolvars,
       workervars
  <2>5. WorkerTypes'
    BY <2>2, <1>15 DEF TpRelease, Types, WorkerTypes, appvars, countvars, groupvars, poolvars,
       workervars
  <2>6. ObjectTypes'
    BY <2>2, <1>15 DEF TpRelease, Types, ObjectTypes, appvars, countvars, groupvars, poolvars,
       workervars
  <2> QED
    BY <2>3, <2>4, <2>5, <2>6 DEF Types, ObjectTypes
<1>16. ASSUME NEW t \in Callers \union Workers, NEW o \in Objects,
              NEW when \in {"later", "now", "never"}, TpSetTimerEx(t, o, when)
     PROVE  Types'
  <2>1. Op("submit", o) \in Ops
    BY OpTypes DEF ObjectNames
  <2>2. <<Op("submit", o)>> \in Seq(Ops) /\ <<>> \in Seq(Ops)
    BY <2>1, ToSetShort
  <2>3. todo' \in [Threads -> Seq(Ops)]
    BY <2>2, <1>16, Constants DEF TpSetTimerEx, Then, Types, ObjectTypes
  <2>4. PoolTypes'
    BY <2>3, <1>16 DEF TpSetTimerEx, Types, PoolTypes, appvars, countvars, groupvars,
       poolvars, workervars
  <2>5. GroupTypes'
    BY <2>3, <1>16 DEF TpSetTimerEx, Types, GroupTypes, appvars, countvars, groupvars,
       poolvars, workervars
  <2>6. WorkerTypes'
    BY <2>3, <1>16 DEF TpSetTimerEx, Types, WorkerTypes, appvars, countvars, groupvars,
       poolvars, workervars
  <2>7. ObjectTypes'
    BY <2>3, <1>16 DEF TpSetTimerEx, Types, ObjectTypes, appvars, countvars, groupvars,
       poolvars, workervars
  <2> QED
    BY <2>4, <2>5, <2>6, <2>7 DEF Types, ObjectTypes
<1>17. ASSUME NEW c \in Callers, NEW o \in Objects, TpAlloc(c, o)
     PROVE  Types'
  <2>1. Then(c, AllocOps(o)) /\ c \in Threads
    BY <1>17, Constants, Zenon DEF TpAlloc, AllocOps
  <2>2. todo' \in [Threads -> Seq(Ops)]
    BY <2>1, AllocTypes DEF Then, Types, ObjectTypes
  <2>3. ThreadpoolLock(c)
    BY <1>17 DEF TpAlloc
  <2>4. PoolTypes'
    <3> DEFINE locked == [pool EXCEPT !.refcount = @ + 1, !.objcount = @ + 1]
    <3>1. \/ pool' = locked
          \/ pool' = [locked EXCEPT !.refcount = @ + 1, !.num_workers = @ + 1]
      BY <2>3 DEF ThreadpoolLock
    <3>2. /\ DOMAIN locked = {"refcount", "objcount", "shutdown", "num_workers",
                              "num_busy_workers"}
          /\ locked.refcount \in Int /\ locked.objcount \in Int /\ locked.shutdown \in BOOLEAN
          /\ locked.num_workers \in Int /\ locked.num_busy_workers \in Int
      BY DEF Types, PoolTypes
    <3> HIDE DEF locked
    <3>3. CASE pool' = locked
      BY <3>2, <3>3 DEF PoolTypes
    <3>4. CASE pool' = [locked EXCEPT !.refcount = @ + 1, !.num_workers = @ + 1]
      BY <3>2, <3>4 DEF PoolTypes
    <3> QED
      BY <3>1, <3>3, <3>4
  <2>6. WorkerTypes'
    BY <2>3, <1>17 DEF TpAlloc, ThreadpoolLock, Types, WorkerTypes
  <2>5. GroupTypes'
    BY <1>17 DEF TpAlloc, Types, ObjectTypes, GroupTypes
  <2>7. ObjectTypes'
    BY <2>2, <2>4, <2>5, <1>17 DEF TpAlloc, Types, ObjectTypes, appvars, countvars, groupvars,
       poolvars, workervars
  <2> QED
    BY <2>4, <2>5, <2>6, <2>7 DEF Types, ObjectTypes
<1>18. ASSUME NEW c \in Callers, NEW o \in Objects, NEW cancel \in BOOLEAN,
              TpWaitForObject(c, o, cancel)
     PROVE  Types'
  <2>1. Op("cancel", o) \in Ops /\ Op("wait", o) \in Ops
    BY OpTypes DEF ObjectNames
  <2>2. /\ <<Op("cancel", o)>> \in Seq(Ops) /\ <<Op("wait", o)>> \in Seq(Ops)
        /\ <<>> \in Seq(Ops)
    BY <2>1, ToSetShort
  <2>3. /\ <<Op("cancel", o)>> \o <<Op("wait", o)>> \in Seq(Ops)
        /\ <<>> \o <<Op("wait", o)>> \in Seq(Ops)
    BY <2>2, Before
  <2>4. todo' \in [Threads -> Seq(Ops)]
    BY <2>3, <1>18, Constants DEF TpWaitForObject, Then, Types, ObjectTypes
  <2>5. PoolTypes'
    BY <2>4, <1>18 DEF TpWaitForObject, Types, PoolTypes, appvars, countvars, groupvars,
       poolvars, workervars
  <2>6. GroupTypes'
    BY <2>4, <1>18 DEF TpWaitForObject, Types, GroupTypes, appvars, countvars, groupvars,
       poolvars, workervars
  <2>7. WorkerTypes'
    BY <2>4, <1>18 DEF TpWaitForObject, Types, WorkerTypes, appvars, countvars, groupvars,
       poolvars, workervars
  <2>8. ObjectTypes'
    BY <2>4, <1>18 DEF TpWaitForObject, Types, ObjectTypes, appvars, countvars, groupvars,
       poolvars, workervars
  <2> QED
    BY <2>5, <2>6, <2>7, <2>8 DEF Types, ObjectTypes
<1>19. ASSUME NEW c \in Callers, NEW cancel \in BOOLEAN, TpReleaseCleanupGroupMembers(c, cancel)
     PROVE  Types'
  <2>1. group.members \in Seq(Objects) /\ "gather" \in ObjectNames /\ c \in Threads
    BY Constants DEF Types, ObjectTypes, GroupTypes, ObjectNames
  <2> DEFINE p == [i \in DOMAIN group.members |-> Op("gather", group.members[i])]
             x == Op(IF cancel THEN "leavegroup_cancel" ELSE "leavegroup", NoObject)
  <2>2. p \in Seq(Ops) /\ x \in Ops
    BY <2>1, EachTypes, OpTypes DEF LeaveNames
  <2>3. todo' = [todo EXCEPT ![c] = Append(p, x)]
    BY <1>19 DEF TpReleaseCleanupGroupMembers, Then
  <2> HIDE DEF p, x
  <2>4. todo' \in [Threads -> Seq(Ops)]
    BY <2>2, <2>3, AppendDistinct DEF Types, ObjectTypes
  <2>5. PoolTypes'
    BY <2>1, <2>4, <1>19 DEF TpReleaseCleanupGroupMembers, Locks, Types, PoolTypes, appvars,
       countvars, groupvars, poolvars, workervars
  <2>6. GroupTypes'
    BY <2>1, <2>4, <1>19 DEF TpReleaseCleanupGroupMembers, Locks, Types, GroupTypes, appvars,
       countvars, groupvars, poolvars, workervars
  <2>7. WorkerTypes'
    BY <2>1, <2>4, <1>19 DEF TpReleaseCleanupGroupMembers, Locks, Types, WorkerTypes, appvars,
       countvars, groupvars, poolvars, workervars
  <2>8. ObjectTypes'
    BY <2>1, <2>4, <1>19 DEF TpReleaseCleanupGroupMembers, Locks, Types, ObjectTypes, appvars,
       countvars, groupvars, poolvars, workervars
  <2> QED
    BY <2>5, <2>6, <2>7, <2>8 DEF Types, ObjectTypes
<1>20. ASSUME NEW c \in Callers, TpReleaseCleanupGroup(c)
     PROVE  Types'
  <2>1. PoolTypes'
    BY <1>20 DEF TpReleaseCleanupGroup, Types, PoolTypes, appvars, countvars, groupvars,
       poolvars, workervars
  <2>2. GroupTypes'
    BY <1>20 DEF TpReleaseCleanupGroup, Types, GroupTypes, appvars, countvars, groupvars,
       poolvars, workervars
  <2>3. WorkerTypes'
    BY <1>20 DEF TpReleaseCleanupGroup, Types, WorkerTypes, appvars, countvars, groupvars,
       poolvars, workervars
  <2>4. ObjectTypes'
    BY <1>20 DEF TpReleaseCleanupGroup, Types, ObjectTypes, appvars, countvars, groupvars,
       poolvars, workervars
  <2> QED
    BY <2>1, <2>2, <2>3, <2>4 DEF Types, ObjectTypes
<1>21. ASSUME NEW c \in Callers, TpReleasePool(c)
     PROVE  Types'
  <2>1. PoolTypes'
    BY <1>21 DEF TpReleasePool, AllWoken, Types, PoolTypes, appvars, countvars, groupvars,
       poolvars, workervars
  <2>2. GroupTypes'
    BY <1>21 DEF TpReleasePool, AllWoken, Types, GroupTypes, appvars, countvars, groupvars,
       poolvars, workervars
  <2>3. WorkerTypes'
    BY <1>21 DEF TpReleasePool, AllWoken, Types, WorkerTypes, appvars, countvars, groupvars,
       poolvars, workervars
  <2>4. ObjectTypes'
    BY <1>21 DEF TpReleasePool, AllWoken, Types, ObjectTypes, appvars, countvars, groupvars,
       poolvars, workervars
  <2> QED
    BY <2>1, <2>2, <2>3, <2>4 DEF Types, ObjectTypes
<1>22. ASSUME NEW w \in Workers, WorkerTakes(w)
     PROVE  Types'
  <2>1. NextItem \in Objects
    BY <1>22, NextItemIsNext DEF WorkerTakes
  <2>2. pools' \in [0..2 -> Seq(Objects)]
    BY <2>1, <1>22, QueuedTypes DEF WorkerTakes
  <2>3. PoolTypes'
    BY <2>1, <2>2, <1>22 DEF WorkerTakes, Locks, Types, PoolTypes, appvars, countvars,
       groupvars, poolvars, workervars
  <2>4. GroupTypes'
    BY <2>1, <2>2, <1>22 DEF WorkerTakes, Locks, Types, GroupTypes, appvars, countvars,
       groupvars, poolvars, workervars
  <2>5. WorkerTypes'
    BY <2>1, <2>2, <1>22 DEF WorkerTakes, Locks, Types, WorkerTypes, appvars, countvars,
       groupvars, poolvars, workervars
  <2>6. ObjectTypes'
    <3>1. /\ pending' \in [Objects -> Int] /\ running' \in [Objects -> Int]
          /\ associated' \in [Objects -> Int]
      <4>1. /\ pending' = [pending EXCEPT ![NextItem] = @ - 1]
            /\ running' = [running EXCEPT ![NextItem] = @ + 1]
            /\ associated' = [associated EXCEPT ![NextItem] = @ + 1]
        BY <1>22 DEF WorkerTakes
      <4>2. pending' \in [Objects -> Int]
        BY <2>1, <4>1 DEF Types, ObjectTypes
      <4>3. running' \in [Objects -> Int]
        BY <2>1, <4>1 DEF Types, ObjectTypes
      <4>4. associated' \in [Objects -> Int]
        BY <2>1, <4>1 DEF Types, ObjectTypes
      <4> QED
        BY <4>2, <4>3, <4>4
    <3> QED
      BY <3>1, <2>1, <2>2, <1>22 DEF WorkerTakes, Locks, Types, ObjectTypes, appvars,
         countvars, groupvars, poolvars, workervars
  <2> QED
    BY <2>3, <2>4, <2>5, <2>6 DEF Types, ObjectTypes
<1>23. ASSUME NEW w \in Workers, CallbackReturns(w)
     PROVE  Types'
  <2>1. wobj[w] \in Objects /\ w \in Threads
    BY <1>23, Constants DEF CallbackReturns, WorkerInv
  <2>2. todo' \in [Threads -> Seq(Ops)]
    <3> DEFINE o == wobj[w]
               run == [running EXCEPT ![o] = @ - 1]
               assoc == IF wassoc[w] THEN [associated EXCEPT ![o] = @ - 1] ELSE associated
               one == WokenIf(Finished(o, pending, run), todo, o, "group_asleep")
               two == WokenIf(wassoc[w] /\ Finished(o, pending, assoc), one, o, "asleep")
    <3>1. one \in [Threads -> Seq(Ops)]
      BY <2>1, WokenTypes DEF Types, ObjectTypes
    <3>2. two \in [Threads -> Seq(Ops)]
      <4> HIDE DEF one, assoc
      <4> QED
        BY <2>1, <3>1, WokenTypes
    <3>3. Destroy(o) \in Seq(Ops) /\ <<>> \in Seq(Ops)
      BY <2>1, DestroyOps, EmptySeq
    <3>4. todo' = [two EXCEPT ![w] = IF refcount[o] = 1 THEN Destroy(o) ELSE <<>>]
      BY <1>23 DEF CallbackReturns
    <3> HIDE DEF two
    <3> QED
      BY <2>1, <3>2, <3>3, <3>4
  <2>3. PoolTypes'
    BY <2>1, <2>2, <1>23, Constants DEF CallbackReturns, Locks, Types, PoolTypes, appvars,
       countvars, groupvars, poolvars, workervars
  <2>4. GroupTypes'
    BY <2>1, <2>2, <1>23, Constants DEF CallbackReturns, Locks, Types, GroupTypes, appvars,
       countvars, groupvars, poolvars, workervars
  <2>5. WorkerTypes'
    BY <2>1, <2>2, <1>23, Constants DEF CallbackReturns, Locks, Types, WorkerTypes, appvars,
       countvars, groupvars, poolvars, workervars
  <2>6. ObjectTypes'
    <3>1. /\ refcount' \in [Objects -> Int] /\ running' \in [Objects -> Int]
          /\ associated' \in [Objects -> Int]
      <4>1. /\ refcount' = [refcount EXCEPT ![wobj[w]] = @ - 1]
            /\ running' = [running EXCEPT ![wobj[w]] = @ - 1]
            /\ associated' = IF wassoc[w] THEN [associated EXCEPT ![wobj[w]] = @ - 1]
                             ELSE associated
        BY <1>23 DEF CallbackReturns
      <4>2. refcount' \in [Objects -> Int]
        BY <2>1, <4>1 DEF Types, ObjectTypes
      <4>3. running' \in [Objects -> Int]
        BY <2>1, <4>1 DEF Types, ObjectTypes
      <4>4. associated' \in [Objects -> Int]
        BY <2>1, <4>1 DEF Types, ObjectTypes
      <4> QED
        BY <4>2, <4>3, <4>4
    <3> QED
      BY <3>1, <2>1, <2>2, <1>23, Constants DEF CallbackReturns, Locks, Types, ObjectTypes,
         appvars, countvars, groupvars, poolvars, workervars
  <2> QED
    BY <2>3, <2>4, <2>5, <2>6 DEF Types, ObjectTypes
<1>24. ASSUME NEW w \in Workers, WorkerChecks(w)
     PROVE  Types'
  <2>1. PoolTypes'
    BY <1>24, Constants DEF WorkerChecks, Locks, Types, PoolTypes, appvars, countvars,
       groupvars, poolvars, workervars
  <2>2. GroupTypes'
    BY <1>24, Constants DEF WorkerChecks, Locks, Types, GroupTypes, appvars, countvars,
       groupvars, poolvars, workervars
  <2>3. WorkerTypes'
    BY <1>24, Constants DEF WorkerChecks, Locks, Types, WorkerTypes, appvars, countvars,
       groupvars, poolvars, workervars
  <2>4. ObjectTypes'
    BY <1>24, Constants DEF WorkerChecks, Locks, Types, ObjectTypes, appvars, countvars,
       groupvars, poolvars, workervars
  <2> QED
    BY <2>1, <2>2, <2>3, <2>4 DEF Types, ObjectTypes
<1>25. ASSUME NEW w \in Workers, WorkerSleeps(w)
     PROVE  Types'
  <2>1. PoolTypes'
    BY <1>25, Constants DEF WorkerSleeps, Locks, Types, PoolTypes, appvars, countvars,
       groupvars, poolvars, workervars
  <2>2. GroupTypes'
    BY <1>25, Constants DEF WorkerSleeps, Locks, Types, GroupTypes, appvars, countvars,
       groupvars, poolvars, workervars
  <2>3. WorkerTypes'
    BY <1>25, Constants DEF WorkerSleeps, Locks, Types, WorkerTypes, appvars, countvars,
       groupvars, poolvars, workervars
  <2>4. ObjectTypes'
    BY <1>25, Constants DEF WorkerSleeps, Locks, Types, ObjectTypes, appvars, countvars,
       groupvars, poolvars, workervars
  <2> QED
    BY <2>1, <2>2, <2>3, <2>4 DEF Types, ObjectTypes
<1>26. ASSUME NEW w \in Workers, WorkerEnds(w)
     PROVE  Types'
  <2>1. PoolTypes'
    BY <1>26, Constants DEF WorkerEnds, Locks, Types, PoolTypes, appvars, countvars,
       groupvars, poolvars, workervars
  <2>2. GroupTypes'
    BY <1>26, Constants DEF WorkerEnds, Locks, Types, GroupTypes, appvars, countvars,
       groupvars, poolvars, workervars
  <2>3. WorkerTypes'
    BY <1>26, Constants DEF WorkerEnds, Locks, Types, WorkerTypes, appvars, countvars,
       groupvars, poolvars, workervars
  <2>4. ObjectTypes'
    BY <1>26, Constants DEF WorkerEnds, Locks, Types, ObjectTypes, appvars, countvars,
       groupvars, poolvars, workervars
  <2> QED
    BY <2>1, <2>2, <2>3, <2>4 DEF Types, ObjectTypes
<1>27. ASSUME NEW w \in Workers, WorkerTimesOut(w)
     PROVE  Types'
  <2>1. PoolTypes'
    BY <1>27, Constants DEF WorkerTimesOut, Locks, Types, PoolTypes, appvars, countvars,
       groupvars, poolvars, workervars
  <2>2. GroupTypes'
    BY <1>27, Constants DEF WorkerTimesOut, Locks, Types, GroupTypes, appvars, countvars,
       groupvars, poolvars, workervars
  <2>3. WorkerTypes'
    BY <1>27, Constants DEF WorkerTimesOut, Locks, Types, WorkerTypes, appvars, countvars,
       groupvars, poolvars, workervars
  <2>4. ObjectTypes'
    BY <1>27, Constants DEF WorkerTimesOut, Locks, Types, ObjectTypes, appvars, countvars,
       groupvars, poolvars, workervars
  <2> QED
    BY <2>1, <2>2, <2>3, <2>4 DEF Types, ObjectTypes
<1>28. ASSUME NEW w \in Workers, TpDisassociateCallback(w)
     PROVE  Types'
  <2>1. wobj[w] \in Objects
    BY <1>28 DEF TpDisassociateCallback, WorkerInv
  <2>2. todo' \in [Threads -> Seq(Ops)]
    BY <2>1, <1>28, WokenTypes DEF TpDisassociateCallback, Types, ObjectTypes
  <2>3. PoolTypes'
    BY <2>1, <2>2, <1>28 DEF TpDisassociateCallback, Types, PoolTypes, appvars, countvars,
       groupvars, poolvars, workervars
  <2>4. GroupTypes'
    BY <2>1, <2>2, <1>28 DEF TpDisassociateCallback, Types, GroupTypes, appvars, countvars,
       groupvars, poolvars, workervars
  <2>5. WorkerTypes'
    BY <2>1, <2>2, <1>28 DEF TpDisassociateCallback, Types, WorkerTypes, appvars, countvars,
       groupvars, poolvars, workervars
  <2>6. ObjectTypes'
    <3>1. associated' = [associated EXCEPT ![wobj[w]] = @ - 1]
      BY <1>28 DEF TpDisassociateCallback
    <3>2. associated' \in [Objects -> Int]
      BY <2>1, <3>1 DEF Types, ObjectTypes
    <3>3. UNCHANGED <<program, life, refcount, pending, running, shutdown, member,
                      appref, pools, closing, timers, owner>>
      BY <1>28 DEF TpDisassociateCallback, appvars, groupvars, poolvars
    <3> QED
      BY <2>2, <3>2, <3>3 DEF Types, ObjectTypes
  <2> QED
    BY <2>3, <2>4, <2>5, <2>6 DEF Types, ObjectTypes
<1>29. ASSUME NEW o \in Objects, TimerExpires(o)
     PROVE  Types'
  <2>1. Op("submit", o) \in Ops /\ Op("rearm", o) \in Ops
    BY OpTypes DEF ObjectNames
  <2>2. <<Op("submit", o), Op("rearm", o)>> \in Seq(Ops)
    BY <2>1, ToSetShort
  <2>3. todo' \in [Threads -> Seq(Ops)]
    BY <2>2, <1>29, Constants DEF TimerExpires, Then, Types, ObjectTypes
  <2>4. PoolTypes'
    BY <2>3, <1>29, Constants DEF TimerExpires, Locks, Types, PoolTypes, appvars, countvars,
       groupvars, poolvars, workervars
  <2>5. GroupTypes'
    BY <2>3, <1>29, Constants DEF TimerExpires, Locks, Types, GroupTypes, appvars, countvars,
       groupvars, poolvars, workervars
  <2>6. WorkerTypes'
    BY <2>3, <1>29, Constants DEF TimerExpires, Locks, Types, WorkerTypes, appvars, countvars,
       groupvars, poolvars, workervars
  <2>7. ObjectTypes'
    <3>1. timers' \subseteq Objects /\ owner' \in [Locks -> Threads \union {NoThread}]
      BY <1>29, Constants DEF TimerExpires, Locks, Types, ObjectTypes
    <3>2. UNCHANGED <<program, life, refcount, pending, running, associated, shutdown, member,
                      appref, pools, closing>>
      BY <1>29 DEF TimerExpires, appvars, countvars, groupvars, poolvars
    <3> QED
      BY <2>3, <3>1, <3>2 DEF Types, ObjectTypes
  <2> QED
    BY <2>4, <2>5, <2>6, <2>7 DEF Types, ObjectTypes
<1>30. CASE UNCHANGED vars
  BY <1>30 DEF Types, ObjectTypes, PoolTypes, GroupTypes, WorkerTypes, vars
<1> QED
  BY <1>1, <1>2, <1>3, <1>4, <1>5, <1>6, <1>7, <1>8, <1>9, <1>10, <1>11, <1>12, <1>13, <1>14,
     <1>15, <1>16, <1>17, <1>18, <1>19, <1>20, <1>21, <1>22, <1>23, <1>24, <1>25, <1>26,
     <1>27, <1>28, <1>29, <1>30, NextSteps

-----------------------------------------------------------------------------
(* The queues of the pool and its workers.                                  *)

\* What most steps leave alone.
CoreFrame ==
  /\ UNCHANGED <<pools, pending, running, associated, wpc, wobj, wassoc>>
  /\ owner'["pool"] = owner["pool"]
  /\ pool'.num_workers = pool.num_workers
  /\ pool'.num_busy_workers = pool.num_busy_workers

\* The steps that change a queue, a count or a worker.
CoreStep ==
  \/ CoreFrame
  \/ \E t \in Threads, o \in Objects : Submit(t, o) /\ (todo[t] # <<>> \/ MayCall(t, o))
  \/ \E t \in Threads : DoCancel(t)
  \/ \E c \in Callers, o \in Objects : TpAlloc(c, o)
  \/ \E c \in Callers : TpReleasePool(c)
  \/ \E w \in Workers : \/ WorkerTakes(w) \/ CallbackReturns(w) \/ WorkerChecks(w)
                        \/ WorkerSleeps(w) \/ WorkerEnds(w) \/ WorkerTimesOut(w)
                        \/ TpDisassociateCallback(w)

\* There are no others.
LEMMA CoreSteps ==
  ASSUME Types, [Next]_vars
  PROVE  CoreStep
<1>1. ASSUME NEW t \in Threads, DoSubmit(t)
     PROVE  CoreStep
  <2>1. todo[t] \in Seq(Ops) /\ "submit" \in ObjectNames /\ At(t, "submit") /\ Submit(t, Obj(t))
    BY <1>1 DEF Types, ObjectTypes, ObjectNames, DoSubmit
  <2>2. Obj(t) \in Objects
    BY <2>1, Heads
  <2> QED
    BY <2>1, <2>2, Zenon DEF CoreStep, At
<1>2. ASSUME NEW t \in Threads, DoJoin(t)
     PROVE  CoreStep
  BY <1>2 DEF DoJoin, CoreStep, CoreFrame, countvars, poolvars, workervars
<1>3. ASSUME NEW t \in Threads, DoRelease(t)
     PROVE  CoreStep
  BY <1>3 DEF DoRelease, CoreStep, CoreFrame, countvars, poolvars, workervars
<1>4. ASSUME NEW t \in Threads, DoUngroup(t)
     PROVE  CoreStep
  BY <1>4 DEF DoUngroup, CoreStep, CoreFrame, countvars, poolvars, workervars
<1>5. ASSUME NEW t \in Threads, DoUnlock(t)
     PROVE  CoreStep
  BY <1>5 DEF DoUnlock, CoreStep, CoreFrame, countvars, poolvars, workervars, Types, PoolTypes
<1>6. ASSUME NEW t \in Threads, DoCancel(t)
     PROVE  CoreStep
  BY <1>6, Zenon DEF CoreStep
<1>7. ASSUME NEW t \in Threads, DoWait(t)
     PROVE  CoreStep
  BY <1>7 DEF DoWait, CoreStep, CoreFrame, countvars, poolvars, workervars
<1>8. ASSUME NEW t \in Threads, DoUnset(t)
     PROVE  CoreStep
  BY <1>8 DEF DoUnset, CoreStep, CoreFrame, countvars, poolvars, workervars
<1>9. ASSUME NEW t \in Threads, DoRetire(t)
     PROVE  CoreStep
  BY <1>9 DEF DoRetire, CoreStep, CoreFrame, countvars, poolvars, workervars
<1>10. ASSUME NEW t \in Threads, DoGather(t)
     PROVE  CoreStep
  BY <1>10 DEF DoGather, CoreStep, CoreFrame, countvars, poolvars, workervars
<1>11. ASSUME NEW t \in Threads, DoLeaveGroup(t)
     PROVE  CoreStep
  BY <1>11 DEF DoLeaveGroup, CoreStep, CoreFrame, countvars, poolvars, workervars, Locks,
     Types, ObjectTypes
<1>12. ASSUME NEW t \in Threads, DoFinish(t)
     PROVE  CoreStep
  BY <1>12 DEF DoFinish, CoreStep, CoreFrame, countvars, poolvars, workervars
<1>13. ASSUME NEW t \in Threads, DoRearm(t)
     PROVE  CoreStep
  BY <1>13 DEF DoRearm, CoreStep, CoreFrame, countvars, poolvars, workervars, Locks, Types,
     ObjectTypes
<1>14. ASSUME NEW t \in Callers \union Workers, NEW o \in Objects, TpPostWork(t, o)
     PROVE  CoreStep
  BY <1>14, Zenon DEF CoreStep, TpPostWork, Threads
<1>15. ASSUME NEW t \in Callers \union Workers, NEW o \in Objects, TpRelease(t, o)
     PROVE  CoreStep
  BY <1>15 DEF TpRelease, CoreStep, CoreFrame, countvars, poolvars, workervars
<1>16. ASSUME NEW t \in Callers \union Workers, NEW o \in Objects,
              NEW when \in {"later", "now", "never"}, TpSetTimerEx(t, o, when)
     PROVE  CoreStep
  BY <1>16 DEF TpSetTimerEx, CoreStep, CoreFrame, countvars, poolvars, workervars
<1>17. ASSUME NEW c \in Callers, NEW o \in Objects, TpAlloc(c, o)
     PROVE  CoreStep
  BY <1>17, Zenon DEF CoreStep
<1>18. ASSUME NEW c \in Callers, NEW o \in Objects, NEW cancel \in BOOLEAN,
              TpWaitForObject(c, o, cancel)
     PROVE  CoreStep
  BY <1>18 DEF TpWaitForObject, CoreStep, CoreFrame, countvars, poolvars, workervars
<1>19. ASSUME NEW c \in Callers, NEW cancel \in BOOLEAN, TpReleaseCleanupGroupMembers(c, cancel)
     PROVE  CoreStep
  BY <1>19 DEF TpReleaseCleanupGroupMembers, CoreStep, CoreFrame, countvars, poolvars,
     workervars, Locks, Types, ObjectTypes
<1>20. ASSUME NEW c \in Callers, TpReleaseCleanupGroup(c)
     PROVE  CoreStep
  BY <1>20 DEF TpReleaseCleanupGroup, CoreStep, CoreFrame, countvars, poolvars, workervars
<1>21. ASSUME NEW c \in Callers, TpReleasePool(c)
     PROVE  CoreStep
  BY <1>21, Zenon DEF CoreStep
<1>22. ASSUME NEW w \in Workers, WorkerTakes(w)
     PROVE  CoreStep
  BY <1>22, Zenon DEF CoreStep
<1>23. ASSUME NEW w \in Workers, CallbackReturns(w)
     PROVE  CoreStep
  BY <1>23, Zenon DEF CoreStep
<1>24. ASSUME NEW w \in Workers, WorkerChecks(w)
     PROVE  CoreStep
  BY <1>24, Zenon DEF CoreStep
<1>25. ASSUME NEW w \in Workers, WorkerSleeps(w)
     PROVE  CoreStep
  BY <1>25, Zenon DEF CoreStep
<1>26. ASSUME NEW w \in Workers, WorkerEnds(w)
     PROVE  CoreStep
  BY <1>26, Zenon DEF CoreStep
<1>27. ASSUME NEW w \in Workers, WorkerTimesOut(w)
     PROVE  CoreStep
  BY <1>27, Zenon DEF CoreStep
<1>28. ASSUME NEW w \in Workers, TpDisassociateCallback(w)
     PROVE  CoreStep
  BY <1>28, Zenon DEF CoreStep
<1>29. ASSUME NEW o \in Objects, TimerExpires(o)
     PROVE  CoreStep
  BY <1>29 DEF TimerExpires, CoreStep, CoreFrame, countvars, poolvars, workervars, Locks,
     Types, ObjectTypes
<1>30. CASE UNCHANGED vars
  BY <1>30 DEF vars, CoreStep, CoreFrame
<1> QED
  BY <1>1, <1>2, <1>3, <1>4, <1>5, <1>6, <1>7, <1>8, <1>9, <1>10, <1>11, <1>12, <1>13, <1>14,
     <1>15, <1>16, <1>17, <1>18, <1>19, <1>20, <1>21, <1>22, <1>23, <1>24, <1>25, <1>26,
     <1>27, <1>28, <1>29, <1>30, NextSteps

\* What Queued and Unqueued do to the lists.
LEMMA QueuedLists ==
  ASSUME NEW ps \in [0..2 -> Seq(Objects)], NEW o \in Objects, \A p \in 0..2 : Distinct(ps[p])
  PROVE  /\ Unqueued(ps, o) \in [0..2 -> Seq(Objects)] /\ Queued(ps, o) \in [0..2 -> Seq(Objects)]
         /\ \A p \in 0..2 :
              /\ Distinct(Unqueued(ps, o)[p])
              /\ ToSet(Unqueued(ps, o)[p]) = IF p = Priority[o] THEN ToSet(ps[p]) \ {o}
                                             ELSE ToSet(ps[p])
              /\ ToSet(Queued(ps, o)[p]) = IF p = Priority[o] THEN ToSet(ps[p]) \union {o}
                                           ELSE ToSet(ps[p])
              /\ o \notin ToSet(ps[Priority[o]]) => Distinct(Queued(ps, o)[p])
<1> DEFINE q == Priority[o]
<1>1. q \in 0..2 /\ ps[q] \in Seq(Objects) /\ Distinct(ps[q])
  BY Constants
<1>2. /\ RemoveFirst(ps[q], o) \in Seq(Objects) /\ Distinct(RemoveFirst(ps[q], o))
      /\ ToSet(RemoveFirst(ps[q], o)) = ToSet(ps[q]) \ {o}
  BY <1>1, RemoveFirstType, RemoveFirstDistinct
<1>3. /\ Append(ps[q], o) \in Seq(Objects) /\ ToSet(Append(ps[q], o)) = ToSet(ps[q]) \union {o}
      /\ o \notin ToSet(ps[q]) => Distinct(Append(ps[q], o))
  BY <1>1, AppendDistinct
<1>4. /\ Unqueued(ps, o) = [ps EXCEPT ![q] = RemoveFirst(ps[q], o)]
      /\ Queued(ps, o) = [ps EXCEPT ![q] = Append(ps[q], o)]
  BY DEF Unqueued, Queued
<1> HIDE DEF q
<1>5. /\ Unqueued(ps, o) \in [0..2 -> Seq(Objects)] /\ Queued(ps, o) \in [0..2 -> Seq(Objects)]
  BY <1>1, <1>2, <1>3, <1>4
<1>6. ASSUME NEW p \in 0..2
      PROVE  /\ Distinct(Unqueued(ps, o)[p])
             /\ ToSet(Unqueued(ps, o)[p]) = IF p = q THEN ToSet(ps[p]) \ {o} ELSE ToSet(ps[p])
             /\ ToSet(Queued(ps, o)[p]) = IF p = q THEN ToSet(ps[p]) \union {o} ELSE ToSet(ps[p])
             /\ o \notin ToSet(ps[q]) => Distinct(Queued(ps, o)[p])
  <2>1. CASE p = q
    <3>1. Unqueued(ps, o)[p] = RemoveFirst(ps[q], o) /\ Queued(ps, o)[p] = Append(ps[q], o)
      BY <1>1, <1>4, <2>1
    <3> QED
      BY <1>2, <1>3, <2>1, <3>1
  <2>2. CASE p # q
    <3>1. Unqueued(ps, o)[p] = ps[p] /\ Queued(ps, o)[p] = ps[p]
      BY <1>1, <1>4, <2>2
    <3> QED
      BY <2>2, <3>1
  <2> QED
    BY <2>1, <2>2
<1> QED
  BY <1>5, <1>6 DEF q

\* Nothing is queued exactly while nothing is pending.
LEMMA NoItem ==
  ASSUME Types, QueueInv, ~HasItem
  PROVE  \A o \in Objects : pending[o] = 0
<1>1. \A p \in 0..2 : pools[p] = <<>>
  BY DEF HasItem
<1>2. \A p \in 0..2 : ToSet(pools[p]) = {}
  BY <1>1 DEF ToSet
<1>3. ASSUME NEW o \in Objects
      PROVE  pending[o] = 0
  <2>1. Priority[o] \in 0..2 /\ pending[o] \in Int /\ pending[o] >= 0
    BY Constants DEF QueueInv, Types, ObjectTypes
  <2>2. ~(pending[o] > 0)
    BY <1>2, <2>1 DEF QueueInv
  <2> QED
    BY <2>1, <2>2
<1> QED
  BY <1>3

\* The next item has a pending callback.
LEMMA NextItemPending ==
  ASSUME Types, QueueInv, HasItem
  PROVE  NextItem \in Objects /\ pending[NextItem] > 0
BY NextItemIsNext DEF QueueInv

\* The lists and the counts of pending callbacks stay together.
LEMMA QueueStep ==
  ASSUME Types, QueueInv, CoreStep
  PROVE  QueueInv'
<1>a. /\ pools \in [0..2 -> Seq(Objects)] /\ pending \in [Objects -> Int]
      /\ \A p \in 0..2 : Distinct(pools[p])
  BY DEF Types, ObjectTypes, QueueInv
<1>1. CASE UNCHANGED <<pools, pending>>
  BY <1>1 DEF QueueInv
<1>2. ASSUME NEW t \in Threads, NEW o \in Objects, Submit(t, o)
      PROVE  QueueInv'
  <2>1. /\ pending' = [pending EXCEPT ![o] = @ + 1]
        /\ pools' = IF pending[o] = 0 THEN Queued(pools, o) ELSE pools
    BY <1>2 DEF Submit
  <2>2. CASE pending[o] = 0
    <3>1. \A p \in 0..2 :
            /\ ToSet(pools'[p]) = IF p = Priority[o] THEN ToSet(pools[p]) \union {o}
                                  ELSE ToSet(pools[p])
            /\ o \notin ToSet(pools[Priority[o]]) => Distinct(pools'[p])
      <4>1. pools' = Queued(pools, o)
        BY <2>1, <2>2
      <4> QED
        BY <1>a, <4>1, QueuedLists
    <3>2. o \notin ToSet(pools[Priority[o]])
      BY <2>2, Constants DEF QueueInv
    <3>3. \A p \in 0..2 : Distinct(pools'[p])
      BY <3>1, <3>2
    <3>4. \A x \in Objects : pending'[x] = IF x = o THEN 1 ELSE pending[x]
      BY <1>a, <2>1, <2>2
    <3> QED
      BY <3>1, <3>3, <3>4 DEF QueueInv
  <2>3. CASE pending[o] # 0
    <3>1. pools' = pools
      BY <2>1, <2>3
    <3>2. \A x \in Objects : /\ pending'[x] > 0 <=> pending[x] > 0
                             /\ pending'[x] >= 0
      BY <1>a, <2>1, <2>3 DEF QueueInv
    <3> QED
      BY <3>1, <3>2 DEF QueueInv
  <2> QED
    BY <2>2, <2>3
<1>3. ASSUME NEW t \in Threads, DoCancel(t)
      PROVE  QueueInv'
  <2>1. todo[t] \in Seq(Ops) /\ "cancel" \in ObjectNames /\ At(t, "cancel")
    BY <1>3 DEF Types, ObjectTypes, ObjectNames, DoCancel
  <2>2. PICK o \in Objects : o = Obj(t)
    BY <2>1, Heads
  <2>3. pending' = [pending EXCEPT ![o] = 0] /\ pools' = Unqueued(pools, o)
    BY <1>3, <2>2 DEF DoCancel
  <2>4. \A p \in 0..2 :
          /\ Distinct(pools'[p])
          /\ ToSet(pools'[p]) = IF p = Priority[o] THEN ToSet(pools[p]) \ {o} ELSE ToSet(pools[p])
    BY <1>a, <2>3, QueuedLists
  <2>5. \A x \in Objects : pending'[x] = IF x = o THEN 0 ELSE pending[x]
    BY <1>a, <2>3
  <2> QED
    BY <2>4, <2>5 DEF QueueInv
<1>4. ASSUME NEW w \in Workers, WorkerTakes(w)
      PROVE  QueueInv'
  <2>1. PICK o \in Objects : o = NextItem /\ pending[o] > 0
    BY <1>4, NextItemPending DEF WorkerTakes
  <2>2. /\ pending' = [pending EXCEPT ![o] = @ - 1]
        /\ pools' = IF pending[o] > 1 THEN Queued(Unqueued(pools, o), o) ELSE Unqueued(pools, o)
    BY <1>4, <2>1 DEF WorkerTakes
  <2>3. \A x \in Objects : pending'[x] = IF x = o THEN pending[o] - 1 ELSE pending[x]
    BY <1>a, <2>2
  <2>4. PICK ps : ps = Unqueued(pools, o)
    OBVIOUS
  <2>5. /\ ps \in [0..2 -> Seq(Objects)]
        /\ \A p \in 0..2 :
             /\ Distinct(ps[p])
             /\ ToSet(ps[p]) = IF p = Priority[o] THEN ToSet(pools[p]) \ {o} ELSE ToSet(pools[p])
    BY <1>a, <2>4, QueuedLists
  <2>6. CASE pending[o] > 1
    <3>1. pools' = Queued(ps, o) /\ Priority[o] \in 0..2
      BY <2>2, <2>4, <2>6, Constants
    <3>2. o \notin ToSet(ps[Priority[o]])
      BY <2>5, <3>1
    <3>3. \A p \in 0..2 :
            /\ ToSet(pools'[p]) = IF p = Priority[o] THEN ToSet(ps[p]) \union {o} ELSE ToSet(ps[p])
            /\ o \notin ToSet(ps[Priority[o]]) => Distinct(pools'[p])
      BY <2>5, <3>1, QueuedLists
    <3>4. \A p \in 0..2 : /\ Distinct(pools'[p])
                          /\ ToSet(pools'[p]) = IF p = Priority[o]
                                                THEN (ToSet(pools[p]) \ {o}) \union {o}
                                                ELSE ToSet(pools[p])
      BY <2>5, <3>2, <3>3
    <3>5. ASSUME NEW x \in Objects, NEW p \in 0..2
          PROVE  (x \in ToSet(pools'[p])) = (p = Priority[x] /\ pending'[x] > 0)
      <4>1. (x \in ToSet(pools[p])) = (p = Priority[x] /\ pending[x] > 0)
        BY DEF QueueInv
      <4>2. CASE x = o
        <5>1. pending'[x] > 0
          BY <1>a, <2>3, <2>6, <4>2
        <5> QED
          BY <2>1, <3>4, <4>1, <4>2, <5>1
      <4>3. CASE x # o
        <5>1. pending'[x] = pending[x] /\ (x \in ToSet(pools'[p])) = (x \in ToSet(pools[p]))
          BY <2>3, <3>4, <4>3
        <5> QED
          BY <4>1, <5>1
      <4> QED
        BY <4>2, <4>3
    <3>6. \A x \in Objects : pending'[x] >= 0
      <4>1. \A x \in Objects : pending[x] >= 0
        BY DEF QueueInv
      <4>2. pending[o] \in Int /\ pending[o] - 1 >= 0
        BY <1>a, <2>6
      <4> QED
        BY <2>3, <4>1, <4>2
    <3> QED
      BY <3>4, <3>5, <3>6 DEF QueueInv
  <2>7. CASE ~(pending[o] > 1)
    <3>1. pools' = ps /\ pending[o] = 1
      BY <1>a, <2>1, <2>2, <2>4, <2>7
    <3> QED
      BY <2>3, <2>5, <3>1 DEF QueueInv
  <2> QED
    BY <2>6, <2>7
<1>5. \/ UNCHANGED <<pools, pending>>
      \/ \E t \in Threads, o \in Objects : Submit(t, o)
      \/ \E t \in Threads : DoCancel(t)
      \/ \E w \in Workers : WorkerTakes(w)
  <2>1. CoreFrame => UNCHANGED <<pools, pending>>
    BY DEF CoreFrame
  <2>2. \A c \in Callers, o \in Objects : TpAlloc(c, o) => UNCHANGED <<pools, pending>>
    BY DEF TpAlloc, countvars
  <2>3. \A c \in Callers : TpReleasePool(c) => UNCHANGED <<pools, pending>>
    BY DEF TpReleasePool, countvars
  <2>4. \A w \in Workers :
          CallbackReturns(w) \/ WorkerChecks(w) \/ WorkerSleeps(w) \/ WorkerEnds(w)
          \/ WorkerTimesOut(w) \/ TpDisassociateCallback(w) => UNCHANGED <<pools, pending>>
    BY DEF CallbackReturns, WorkerChecks, WorkerSleeps, WorkerEnds, WorkerTimesOut,
           TpDisassociateCallback, countvars, poolvars
  <2> QED
    BY <2>1, <2>2, <2>3, <2>4, Zenon DEF CoreStep
<1> QED
  BY <1>1, <1>2, <1>3, <1>4, <1>5

\* Nobody else is about to sleep when a thread gets the pool.
LEMMA NoChecker ==
  ASSUME WorkerInv, NEW t \in Threads, Free("pool", t), t \in Workers => wpc[t] # "check"
  PROVE  \A u \in Workers : wpc[u] # "check"
BY Constants DEF WorkerInv, Free

\* A worker that is about to sleep has nothing else to do.
LEMMA CheckIdle ==
  ASSUME Types, WorkerInv, [Next]_vars, NEW k \in Workers, wpc[k] = "check"
  PROVE  todo'[k] = <<>>
<1>a. todo[k] = <<>> /\ wobj[k] \notin Objects /\ k \in Threads /\ k \notin Callers
      /\ todo \in [Threads -> Seq(Ops)] /\ k # TimerThread
  BY Constants DEF WorkerInv, Types, ObjectTypes
<1>1. ASSUME NEW t \in Threads, DoSubmit(t)
     PROVE  todo'[k] = <<>>
  BY <1>1, <1>a DEF DoSubmit, Submit, At, Then, Continue
<1>2. ASSUME NEW t \in Threads, DoJoin(t)
     PROVE  todo'[k] = <<>>
  BY <1>2, <1>a DEF DoJoin, At, Then, Continue
<1>3. ASSUME NEW t \in Threads, DoRelease(t)
     PROVE  todo'[k] = <<>>
  BY <1>3, <1>a DEF DoRelease, At, Then, Continue
<1>4. ASSUME NEW t \in Threads, DoUngroup(t)
     PROVE  todo'[k] = <<>>
  BY <1>4, <1>a DEF DoUngroup, At, Then, Continue
<1>5. ASSUME NEW t \in Threads, DoUnlock(t)
     PROVE  todo'[k] = <<>>
  BY <1>5, <1>a DEF DoUnlock, At, Then, Continue
<1>6. ASSUME NEW t \in Threads, DoCancel(t)
     PROVE  todo'[k] = <<>>
  BY <1>6, <1>a DEF DoCancel, At, Then, Continue
<1>7. ASSUME NEW t \in Threads, DoWait(t)
     PROVE  todo'[k] = <<>>
  BY <1>7, <1>a DEF DoWait, At, Then, Continue
<1>8. ASSUME NEW t \in Threads, DoUnset(t)
     PROVE  todo'[k] = <<>>
  BY <1>8, <1>a DEF DoUnset, At, Then, Continue
<1>9. ASSUME NEW t \in Threads, DoRetire(t)
     PROVE  todo'[k] = <<>>
  BY <1>9, <1>a DEF DoRetire, At, Then, Continue
<1>10. ASSUME NEW t \in Threads, DoGather(t)
     PROVE  todo'[k] = <<>>
  BY <1>10, <1>a DEF DoGather, At, Then, Continue
<1>11. ASSUME NEW t \in Threads, DoLeaveGroup(t)
     PROVE  todo'[k] = <<>>
  BY <1>11, <1>a DEF DoLeaveGroup, At, Then, Continue
<1>12. ASSUME NEW t \in Threads, DoFinish(t)
     PROVE  todo'[k] = <<>>
  BY <1>12, <1>a DEF DoFinish, At, Then, Continue
<1>13. ASSUME NEW t \in Threads, DoRearm(t)
     PROVE  todo'[k] = <<>>
  BY <1>13, <1>a DEF DoRearm, At, Then, Continue
<1>14. ASSUME NEW t \in Callers \union Workers, NEW o \in Objects, TpPostWork(t, o)
     PROVE  todo'[k] = <<>>
  BY <1>14, <1>a DEF TpPostWork, MayCall, Then
<1>15. ASSUME NEW t \in Callers \union Workers, NEW o \in Objects, TpRelease(t, o)
     PROVE  todo'[k] = <<>>
  BY <1>15, <1>a DEF TpRelease, MayCall, Then
<1>16. ASSUME NEW t \in Callers \union Workers, NEW o \in Objects,
              NEW when \in {"later", "now", "never"}, TpSetTimerEx(t, o, when)
     PROVE  todo'[k] = <<>>
  BY <1>16, <1>a DEF TpSetTimerEx, MayCall, Then
<1>17. ASSUME NEW c \in Callers, NEW o \in Objects, TpAlloc(c, o)
     PROVE  todo'[k] = <<>>
  BY <1>17, <1>a DEF TpAlloc, Then
<1>18. ASSUME NEW c \in Callers, NEW o \in Objects, NEW cancel \in BOOLEAN,
              TpWaitForObject(c, o, cancel)
     PROVE  todo'[k] = <<>>
  BY <1>18, <1>a DEF TpWaitForObject, Then
<1>19. ASSUME NEW c \in Callers, NEW cancel \in BOOLEAN, TpReleaseCleanupGroupMembers(c, cancel)
     PROVE  todo'[k] = <<>>
  BY <1>19, <1>a DEF TpReleaseCleanupGroupMembers, Then
<1>20. ASSUME NEW c \in Callers, TpReleaseCleanupGroup(c)
     PROVE  todo'[k] = <<>>
  BY <1>20, <1>a DEF TpReleaseCleanupGroup, Then
<1>21. ASSUME NEW c \in Callers, TpReleasePool(c)
     PROVE  todo'[k] = <<>>
  BY <1>21, <1>a DEF TpReleasePool, Then
<1>22. ASSUME NEW w \in Workers, WorkerTakes(w)
     PROVE  todo'[k] = <<>>
  BY <1>22, <1>a DEF WorkerTakes, Then
<1>23. ASSUME NEW w \in Workers, CallbackReturns(w)
     PROVE  todo'[k] = <<>>
  <2> DEFINE o == wobj[w]
             run == [running EXCEPT ![o] = @ - 1]
             assoc == IF wassoc[w] THEN [associated EXCEPT ![o] = @ - 1] ELSE associated
             one == WokenIf(Finished(o, pending, run), todo, o, "group_asleep")
             two == WokenIf(wassoc[w] /\ Finished(o, pending, assoc), one, o, "asleep")
  <2>1. todo' = [two EXCEPT ![w] = IF refcount[o] = 1 THEN Destroy(o) ELSE <<>>] /\ w # k
    BY <1>23 DEF CallbackReturns
  <2>2. one[k] = <<>>
    BY <1>a DEF WokenIf, Woken
  <2> HIDE DEF one, assoc
  <2>3. two[k] = <<>>
    BY <1>a, <2>2 DEF WokenIf, Woken
  <2> HIDE DEF two
  <2> QED
    BY <2>1, <2>3
<1>24. ASSUME NEW w \in Workers, WorkerChecks(w)
     PROVE  todo'[k] = <<>>
  BY <1>24, <1>a DEF WorkerChecks, Then
<1>25. ASSUME NEW w \in Workers, WorkerSleeps(w)
     PROVE  todo'[k] = <<>>
  BY <1>25, <1>a DEF WorkerSleeps, Then
<1>26. ASSUME NEW w \in Workers, WorkerEnds(w)
     PROVE  todo'[k] = <<>>
  BY <1>26, <1>a DEF WorkerEnds, Then
<1>27. ASSUME NEW w \in Workers, WorkerTimesOut(w)
     PROVE  todo'[k] = <<>>
  BY <1>27, <1>a DEF WorkerTimesOut, Then
<1>28. ASSUME NEW w \in Workers, TpDisassociateCallback(w)
     PROVE  todo'[k] = <<>>
  <2>1. todo' = WokenIf(Finished(wobj[w], pending, [associated EXCEPT ![wobj[w]] = @ - 1]), todo,
                        wobj[w], "asleep")
    BY <1>28 DEF TpDisassociateCallback
  <2> QED
    BY <1>a, <2>1 DEF WokenIf, Woken
<1>29. ASSUME NEW o \in Objects, TimerExpires(o)
     PROVE  todo'[k] = <<>>
  BY <1>29, <1>a DEF TimerExpires, Then
<1>30. CASE UNCHANGED vars
  BY <1>30, <1>a DEF vars
<1> QED
  BY <1>1, <1>2, <1>3, <1>4, <1>5, <1>6, <1>7, <1>8, <1>9, <1>10, <1>11, <1>12, <1>13, <1>14,
     <1>15, <1>16, <1>17, <1>18, <1>19, <1>20, <1>21, <1>22, <1>23, <1>24, <1>25, <1>26,
     <1>27, <1>28, <1>29, <1>30, NextSteps

\* The workers keep their invariant.
LEMMA WorkerInvStep ==
  ASSUME Types, QueueInv, WorkerInv, [Next]_vars
  PROVE  WorkerInv'
<1>a. /\ wpc \in [Workers -> {"none", "start", "woken", "expired", "loop", "check", "sleep",
                              "callback"}]
      /\ wobj \in [Workers -> Objects \union {NoObject}] /\ wassoc \in [Workers -> BOOLEAN]
      /\ owner \in [Locks -> Threads \union {NoThread}] /\ NoObject \notin Objects
      /\ "pool" \in Locks
  BY Constants DEF Types, ObjectTypes, WorkerTypes, Locks
<1>b. \A u \in Workers : wpc[u] = "check" => todo'[u] = <<>>
  BY CheckIdle
<1>c. \A u \in Workers : (wobj[u] \in Objects) = (wpc[u] = "callback") /\ (wassoc[u] => wpc[u] = "callback")
  BY DEF WorkerInv
<1>1. CASE CoreFrame
  BY <1>1, <1>b DEF CoreFrame, WorkerInv
<1>2. ASSUME NEW t \in Threads, NEW o \in Objects, Submit(t, o), todo[t] # <<>> \/ MayCall(t, o)
      PROVE  WorkerInv'
  <2>1. t \in Workers => wpc[t] # "check"
    BY <1>2, Constants DEF WorkerInv, MayCall
  <2>2. \A u \in Workers : wpc[u] # "check"
    BY <1>2, <2>1, NoChecker DEF Submit
  <2>3. UNCHANGED <<wobj, wassoc>> /\ (NewWorker(pool'.num_busy_workers) \/ wpc' \in OneWoken)
    BY <1>2 DEF Submit, NewWorker, Types, PoolTypes
  <2>4. \A u \in Workers : wpc'[u] = wpc[u] \/ (wpc[u] \in {"none", "sleep"}
                                               /\ wpc'[u] \in {"start", "woken", "expired"})
    BY <1>a, <2>3 DEF NewWorker, OneWoken
  <2> QED
    BY <1>c, <2>2, <2>3, <2>4 DEF WorkerInv
<1>3. ASSUME NEW t \in Threads, DoCancel(t)
      PROVE  WorkerInv'
  <2>1. t \in Workers => wpc[t] # "check"
    BY <1>3 DEF WorkerInv, DoCancel, At
  <2>2. \A u \in Workers : wpc[u] # "check"
    BY <1>3, <2>1, NoChecker DEF DoCancel
  <2> QED
    BY <1>3, <2>2 DEF WorkerInv, DoCancel, workervars
<1>4. ASSUME NEW c \in Callers, NEW o \in Objects, TpAlloc(c, o)
      PROVE  WorkerInv'
  <2>1. \A u \in Workers : wpc[u] # "check"
    BY <1>4, NoChecker, Constants DEF TpAlloc, ThreadpoolLock
  <2>2. \A u \in Workers : wpc'[u] = wpc[u] \/ (wpc[u] = "none" /\ wpc'[u] = "start")
    BY <1>a, <1>4 DEF TpAlloc, ThreadpoolLock
  <2>3. UNCHANGED <<wobj, wassoc>>
    BY <1>4 DEF TpAlloc
  <2> QED
    BY <1>c, <2>1, <2>2, <2>3 DEF WorkerInv
<1>5. ASSUME NEW c \in Callers, TpReleasePool(c)
      PROVE  WorkerInv'
  <2>1. \A u \in Workers : wpc'[u] = wpc[u] \/ (wpc[u] = "sleep" /\ wpc'[u] = "woken")
    BY <1>a, <1>5 DEF TpReleasePool, AllWoken
  <2>2. UNCHANGED <<wobj, wassoc, owner, pending>>
    BY <1>5 DEF TpReleasePool, countvars
  <2> QED
    BY <1>b, <1>c, <2>1, <2>2 DEF WorkerInv
<1>6. ASSUME NEW w \in Workers, WorkerTakes(w)
      PROVE  WorkerInv'
  <2>1. \A u \in Workers : wpc[u] # "check"
    BY <1>6, NoChecker, Constants DEF WorkerTakes, InPool
  <2>2. NextItem \in Objects
    BY <1>6, NextItemIsNext DEF WorkerTakes
  <2>3. \A u \in Workers : /\ wpc'[u] = IF u = w THEN "callback" ELSE wpc[u]
                           /\ wobj'[u] = IF u = w THEN NextItem ELSE wobj[u]
                           /\ wassoc'[u] => u = w \/ wassoc[u]
    BY <1>a, <1>6 DEF WorkerTakes
  <2> QED
    BY <1>c, <2>1, <2>2, <2>3 DEF WorkerInv
<1>7. ASSUME NEW w \in Workers, CallbackReturns(w)
      PROVE  WorkerInv'
  <2>1. \A u \in Workers : wpc[u] # "check"
    BY <1>7, NoChecker, Constants DEF CallbackReturns
  <2>3. \A u \in Workers : /\ wpc'[u] = IF u = w THEN "loop" ELSE wpc[u]
                           /\ wobj'[u] = IF u = w THEN NoObject ELSE wobj[u]
                           /\ wassoc'[u] => u # w /\ wassoc[u]
    BY <1>a, <1>7 DEF CallbackReturns
  <2> QED
    BY <1>a, <1>c, <2>1, <2>3 DEF WorkerInv
<1>8. ASSUME NEW w \in Workers, WorkerChecks(w)
      PROVE  WorkerInv'
  <2>1. \A u \in Workers : wpc[u] # "check"
    BY <1>8, NoChecker, Constants DEF WorkerChecks, InPool
  <2>2. \A o \in Objects : pending[o] = 0
    BY <1>8, NoItem DEF WorkerChecks
  <2>3. UNCHANGED <<pending, wobj, wassoc, todo>> /\ todo[w] = <<>> /\ wpc[w] # "callback"
    BY <1>8 DEF WorkerChecks, InPool, countvars
  <2>4. owner'["pool"] = w /\ \A u \in Workers : wpc'[u] = IF u = w THEN "check" ELSE wpc[u]
    BY <1>a, <1>8 DEF WorkerChecks
  <2> QED
    BY <1>c, <2>1, <2>2, <2>3, <2>4 DEF WorkerInv
<1>9. ASSUME NEW w \in Workers, WorkerSleeps(w)
      PROVE  WorkerInv'
  <2>1. \A u \in Workers : wpc[u] = "check" => u = w
    BY <1>9 DEF WorkerSleeps, WorkerInv
  <2>3. UNCHANGED <<wobj, wassoc>> /\ wpc[w] = "check"
    BY <1>9 DEF WorkerSleeps
  <2>4. \A u \in Workers : wpc'[u] = IF u = w THEN "sleep" ELSE wpc[u]
    BY <1>a, <1>9 DEF WorkerSleeps
  <2> QED
    BY <1>c, <2>1, <2>3, <2>4 DEF WorkerInv
<1>10. ASSUME NEW w \in Workers, WorkerEnds(w)
      PROVE  WorkerInv'
  <2>1. \A u \in Workers : wpc[u] # "check"
    BY <1>10, NoChecker, Constants DEF WorkerEnds, InPool
  <2>3. UNCHANGED <<wobj, wassoc>> /\ wpc[w] # "callback"
    BY <1>10 DEF WorkerEnds, InPool
  <2>4. \A u \in Workers : wpc'[u] = IF u = w THEN "none" ELSE wpc[u]
    BY <1>a, <1>10 DEF WorkerEnds
  <2> QED
    BY <1>c, <2>1, <2>3, <2>4 DEF WorkerInv
<1>11. ASSUME NEW w \in Workers, WorkerTimesOut(w)
      PROVE  WorkerInv'
  <2>3. UNCHANGED <<wobj, wassoc, owner, pending, todo>> /\ wpc[w] = "sleep"
    BY <1>11 DEF WorkerTimesOut, countvars
  <2>4. \A u \in Workers : wpc'[u] = IF u = w THEN "expired" ELSE wpc[u]
    BY <1>a, <1>11 DEF WorkerTimesOut
  <2> QED
    BY <2>3, <2>4 DEF WorkerInv
<1>12. ASSUME NEW w \in Workers, TpDisassociateCallback(w)
      PROVE  WorkerInv'
  <2>3. UNCHANGED <<wobj, wpc, owner, pending>>
    BY <1>12 DEF TpDisassociateCallback
  <2>4. \A u \in Workers : wassoc'[u] = IF u = w THEN FALSE ELSE wassoc[u]
    BY <1>a, <1>12 DEF TpDisassociateCallback
  <2> QED
    BY <1>b, <2>3, <2>4 DEF WorkerInv
<1> QED
  BY <1>1, <1>2, <1>3, <1>4, <1>5, <1>6, <1>7, <1>8, <1>9, <1>10, <1>11, <1>12, CoreSteps,
     Zenon DEF CoreStep

\* A set that gains or loses an element.
LEMMA CardinalitySteps ==
  ASSUME NEW S, IsFiniteSet(S), NEW A, A \subseteq S
  PROVE  /\ IsFiniteSet(A) /\ Cardinality(A) \in Nat
         /\ \A x : x \notin A => /\ IsFiniteSet(A \union {x})
                                 /\ Cardinality(A \union {x}) = Cardinality(A) + 1
         /\ \A x \in A : Cardinality(A \ {x}) = Cardinality(A) - 1
BY FS_Subset, FS_CardinalityType, FS_AddElement, FS_RemoveElement

\* running counts the callbacks of an object.
LEMMA RunningStep ==
  ASSUME Types, QueueInv, WorkerInv, RunningInv, CoreStep
  PROVE  RunningInv'
<1> DEFINE E(o) == {w \in Workers : wobj[w] = o}
<1>a. /\ running \in [Objects -> Int] /\ wobj \in [Workers -> Objects \union {NoObject}]
      /\ NoObject \notin Objects /\ IsFiniteSet(Workers)
      /\ \A o \in Objects : running[o] = Cardinality(E(o))
  BY Constants DEF Types, ObjectTypes, WorkerTypes, RunningInv, Executing
<1>1. CASE UNCHANGED <<running, wobj>>
  BY <1>1 DEF RunningInv, Executing
<1>2. ASSUME NEW w \in Workers, WorkerTakes(w)
      PROVE  RunningInv'
  <2>1. PICK o \in Objects : o = NextItem
    BY <1>2, NextItemIsNext DEF WorkerTakes
  <2>2. running' = [running EXCEPT ![o] = @ + 1] /\ wobj' = [wobj EXCEPT ![w] = o]
    BY <1>2, <2>1 DEF WorkerTakes
  <2>3. wobj[w] \notin Objects
    BY <1>2 DEF WorkerTakes, InPool, WorkerInv
  <2>4. ASSUME NEW p \in Objects
        PROVE  running'[p] = Cardinality(E(p)')
    <3>1. CASE p = o
      <4>1. E(p)' = E(p) \union {w} /\ w \notin E(p) /\ E(p) \subseteq Workers
        BY <1>a, <2>2, <2>3, <3>1
      <4>2. Cardinality(E(p)') = Cardinality(E(p)) + 1
        BY <1>a, <4>1, CardinalitySteps
      <4>3. running'[p] = running[p] + 1
        BY <1>a, <2>2, <3>1
      <4> QED
        BY <1>a, <4>2, <4>3
    <3>2. CASE p # o
      <4>1. E(p)' = E(p) /\ running'[p] = running[p]
        BY <1>a, <2>2, <2>3, <3>2
      <4> QED
        BY <1>a, <4>1
    <3> QED
      BY <3>1, <3>2
  <2> QED
    BY <2>4 DEF RunningInv, Executing
<1>3. ASSUME NEW w \in Workers, CallbackReturns(w)
      PROVE  RunningInv'
  <2>1. PICK o \in Objects : o = wobj[w]
    BY <1>3 DEF CallbackReturns, WorkerInv
  <2>2. running' = [running EXCEPT ![o] = @ - 1] /\ wobj' = [wobj EXCEPT ![w] = NoObject]
    BY <1>3, <2>1 DEF CallbackReturns
  <2>4. ASSUME NEW p \in Objects
        PROVE  running'[p] = Cardinality(E(p)')
    <3>1. CASE p = o
      <4>1. E(p)' = E(p) \ {w} /\ w \in E(p) /\ E(p) \subseteq Workers
        BY <1>a, <2>1, <2>2, <3>1
      <4>2. Cardinality(E(p)') = Cardinality(E(p)) - 1
        BY <1>a, <4>1, CardinalitySteps
      <4>3. running'[p] = running[p] - 1
        BY <1>a, <2>2, <3>1
      <4> QED
        BY <1>a, <4>2, <4>3
    <3>2. CASE p # o
      <4>1. E(p)' = E(p) /\ running'[p] = running[p]
        BY <1>a, <2>1, <2>2, <3>2
      <4> QED
        BY <1>a, <4>1
    <3> QED
      BY <3>1, <3>2
  <2> QED
    BY <2>4 DEF RunningInv, Executing
<1>4. \/ UNCHANGED <<running, wobj>>
      \/ \E w \in Workers : WorkerTakes(w) \/ CallbackReturns(w)
  <2>1. CoreFrame => UNCHANGED <<running, wobj>>
    BY DEF CoreFrame
  <2>2. \A t \in Threads, o \in Objects : Submit(t, o) => UNCHANGED <<running, wobj>>
    BY DEF Submit
  <2>3. \A t \in Threads : DoCancel(t) => UNCHANGED <<running, wobj>>
    BY DEF DoCancel, workervars
  <2>4. \A c \in Callers, o \in Objects : TpAlloc(c, o) => UNCHANGED <<running, wobj>>
    BY DEF TpAlloc, countvars
  <2>5. \A c \in Callers : TpReleasePool(c) => UNCHANGED <<running, wobj>>
    BY DEF TpReleasePool, countvars
  <2>6. \A w \in Workers : WorkerChecks(w) \/ WorkerSleeps(w) \/ WorkerEnds(w)
          \/ WorkerTimesOut(w) \/ TpDisassociateCallback(w) => UNCHANGED <<running, wobj>>
    BY DEF WorkerChecks, WorkerSleeps, WorkerEnds, WorkerTimesOut, TpDisassociateCallback,
       countvars
  <2> QED
    BY <2>1, <2>2, <2>3, <2>4, <2>5, <2>6, Zenon DEF CoreStep
<1> QED
  BY <1>1, <1>2, <1>3, <1>4

\* num_associated_callbacks counts those that have not called TpDisassociateCallback.
LEMMA AssociatedStep ==
  ASSUME Types, QueueInv, WorkerInv, AssociatedInv, CoreStep
  PROVE  AssociatedInv'
<1>a. /\ associated \in [Objects -> Int] /\ wobj \in [Workers -> Objects \union {NoObject}]
      /\ wassoc \in [Workers -> BOOLEAN] /\ NoObject \notin Objects /\ IsFiniteSet(Workers)
      /\ \A o \in Objects : associated[o] = Cardinality(Associates(o))
      /\ \A o \in Objects : Associates(o) \subseteq Workers
  BY Constants DEF Types, ObjectTypes, WorkerTypes, AssociatedInv, Associates
<1>b. ASSUME NEW o \in Objects, NEW w \in Associates(o),
             associated' = [associated EXCEPT ![o] = @ - 1],
             \A p \in Objects : Associates(p)' = Associates(p) \ {w},
             \A p \in Objects : w \in Associates(p) => p = o
      PROVE  AssociatedInv'
  <2>1. Cardinality(Associates(o)') = Cardinality(Associates(o)) - 1
    BY <1>a, <1>b, CardinalitySteps
  <2>2. \A p \in Objects : p # o => Associates(p)' = Associates(p)
    BY <1>b
  <2> QED
    BY <1>a, <1>b, <2>1, <2>2 DEF AssociatedInv
<1>1. CASE UNCHANGED <<associated, wobj, wassoc>>
  BY <1>1 DEF AssociatedInv, Associates
<1>2. ASSUME NEW w \in Workers, WorkerTakes(w)
      PROVE  AssociatedInv'
  <2>1. PICK o \in Objects : o = NextItem
    BY <1>2, NextItemIsNext DEF WorkerTakes
  <2>2. /\ associated' = [associated EXCEPT ![o] = @ + 1]
        /\ wobj' = [wobj EXCEPT ![w] = o] /\ wassoc' = [wassoc EXCEPT ![w] = TRUE]
    BY <1>2, <2>1 DEF WorkerTakes
  <2>3. wobj[w] \notin Objects
    BY <1>2 DEF WorkerTakes, InPool, WorkerInv
  <2>4. Associates(o)' = Associates(o) \union {w} /\ w \notin Associates(o)
    BY <1>a, <2>2, <2>3 DEF Associates
  <2>5. Cardinality(Associates(o)') = Cardinality(Associates(o)) + 1
    BY <1>a, <2>4, CardinalitySteps
  <2>6. \A p \in Objects : p # o => Associates(p)' = Associates(p)
    BY <1>a, <2>2, <2>3 DEF Associates
  <2> QED
    BY <1>a, <2>2, <2>5, <2>6 DEF AssociatedInv
<1>3. ASSUME NEW w \in Workers, CallbackReturns(w)
      PROVE  AssociatedInv'
  <2>1. PICK o \in Objects : o = wobj[w]
    BY <1>3 DEF CallbackReturns, WorkerInv
  <2>2. /\ associated' = IF wassoc[w] THEN [associated EXCEPT ![o] = @ - 1] ELSE associated
        /\ wobj' = [wobj EXCEPT ![w] = NoObject] /\ wassoc' = [wassoc EXCEPT ![w] = FALSE]
    BY <1>3, <2>1 DEF CallbackReturns
  <2>3. \A p \in Objects : Associates(p)' = Associates(p) \ {w}
    BY <1>a, <2>2 DEF Associates
  <2>4. CASE wassoc[w]
    <3>1. w \in Associates(o) /\ \A p \in Objects : w \in Associates(p) => p = o
      BY <2>1, <2>4 DEF Associates
    <3> QED
      BY <1>b, <2>2, <2>3, <2>4, <3>1
  <2>5. CASE ~wassoc[w]
    <3>1. \A p \in Objects : w \notin Associates(p)
      BY <2>5 DEF Associates
    <3>2. \A p \in Objects : Associates(p)' = Associates(p)
      BY <2>3, <3>1
    <3> QED
      BY <1>a, <2>2, <2>5, <3>2 DEF AssociatedInv
  <2> QED
    BY <2>4, <2>5
<1>4. ASSUME NEW w \in Workers, TpDisassociateCallback(w)
      PROVE  AssociatedInv'
  <2>1. PICK o \in Objects : o = wobj[w]
    BY <1>4 DEF TpDisassociateCallback, WorkerInv
  <2>2. /\ associated' = [associated EXCEPT ![o] = @ - 1]
        /\ wobj' = wobj /\ wassoc' = [wassoc EXCEPT ![w] = FALSE] /\ wassoc[w]
    BY <1>4, <2>1 DEF TpDisassociateCallback
  <2>3. \A p \in Objects : Associates(p)' = Associates(p) \ {w}
    BY <1>a, <2>2 DEF Associates
  <2>4. w \in Associates(o) /\ \A p \in Objects : w \in Associates(p) => p = o
    BY <2>1, <2>2 DEF Associates
  <2> QED
    BY <1>b, <2>2, <2>3, <2>4
<1>5. \/ UNCHANGED <<associated, wobj, wassoc>>
      \/ \E w \in Workers : WorkerTakes(w) \/ CallbackReturns(w) \/ TpDisassociateCallback(w)
  <2>1. CoreFrame => UNCHANGED <<associated, wobj, wassoc>>
    BY DEF CoreFrame
  <2>2. \A t \in Threads, o \in Objects : Submit(t, o) => UNCHANGED <<associated, wobj, wassoc>>
    BY DEF Submit
  <2>3. \A t \in Threads : DoCancel(t) => UNCHANGED <<associated, wobj, wassoc>>
    BY DEF DoCancel, workervars
  <2>4. \A c \in Callers, o \in Objects : TpAlloc(c, o) => UNCHANGED <<associated, wobj, wassoc>>
    BY DEF TpAlloc, countvars
  <2>5. \A c \in Callers : TpReleasePool(c) => UNCHANGED <<associated, wobj, wassoc>>
    BY DEF TpReleasePool, countvars
  <2>6. \A w \in Workers : WorkerChecks(w) \/ WorkerSleeps(w) \/ WorkerEnds(w)
          \/ WorkerTimesOut(w) => UNCHANGED <<associated, wobj, wassoc>>
    BY DEF WorkerChecks, WorkerSleeps, WorkerEnds, WorkerTimesOut, countvars
  <2> QED
    BY <2>1, <2>2, <2>3, <2>4, <2>5, <2>6, Zenon DEF CoreStep
<1> QED
  BY <1>1, <1>2, <1>3, <1>4, <1>5

\* num_workers counts the workers that have started.
LEMMA StartedStep ==
  ASSUME Types, StartedInv, CoreStep
  PROVE  StartedInv'
<1>a. /\ wpc \in [Workers -> {"none", "start", "woken", "expired", "loop", "check", "sleep",
                              "callback"}]
      /\ pool.num_workers \in Int /\ pool.num_workers = Cardinality(Started)
      /\ Started \subseteq Workers /\ IsFiniteSet(Workers)
      /\ DOMAIN pool = {"refcount", "objcount", "shutdown", "num_workers", "num_busy_workers"}
  BY Constants DEF Types, WorkerTypes, PoolTypes, StartedInv, Started
<1>1. ASSUME pool'.num_workers = pool.num_workers,
             \A w \in Workers : (wpc'[w] = "none") <=> (wpc[w] = "none")
      PROVE  StartedInv'
  <2>1. Started' = Started
    BY <1>1 DEF Started
  <2> QED
    BY <1>a, <1>1, <2>1 DEF StartedInv
<1>2. ASSUME NEW w \in Workers, wpc[w] = "none", wpc' = [wpc EXCEPT ![w] = "start"],
             pool'.num_workers = pool.num_workers + 1
      PROVE  StartedInv'
  <2>1. Started' = Started \union {w} /\ w \notin Started
    BY <1>a, <1>2 DEF Started
  <2>2. Cardinality(Started') = Cardinality(Started) + 1
    BY <1>a, <2>1, CardinalitySteps
  <2> QED
    BY <1>a, <1>2, <2>2 DEF StartedInv
<1>3. CASE CoreFrame
  BY <1>1, <1>3 DEF CoreFrame
<1>4. ASSUME NEW t \in Threads, NEW o \in Objects, Submit(t, o)
      PROVE  StartedInv'
  <2>1. CASE NewWorker(IF pending[o] = 0 THEN pool.num_busy_workers + 1
                       ELSE pool.num_busy_workers)
    BY <1>a, <1>2, <2>1 DEF NewWorker
  <2>2. CASE /\ pool' = [pool EXCEPT !.num_busy_workers = IF pending[o] = 0
                                                          THEN pool.num_busy_workers + 1
                                                          ELSE pool.num_busy_workers]
             /\ wpc' \in OneWoken
    <3>1. pool'.num_workers = pool.num_workers
      BY <1>a, <2>2
    <3>2. \A w \in Workers : (wpc'[w] = "none") <=> (wpc[w] = "none")
      BY <1>a, <2>2 DEF OneWoken
    <3> QED
      BY <1>1, <3>1, <3>2
  <2> QED
    BY <1>4, <2>1, <2>2 DEF Submit
<1>5. ASSUME NEW t \in Threads, DoCancel(t)
      PROVE  StartedInv'
  BY <1>1, <1>5 DEF DoCancel, workervars
<1>6. ASSUME NEW c \in Callers, NEW o \in Objects, TpAlloc(c, o)
      PROVE  StartedInv'
  <2> DEFINE locked == [pool EXCEPT !.refcount = @ + 1, !.objcount = @ + 1]
  <2>0. /\ locked.num_workers = pool.num_workers
        /\ DOMAIN locked = {"refcount", "objcount", "shutdown", "num_workers", "num_busy_workers"}
    BY <1>a
  <2>1. CASE pool' = locked /\ wpc' = wpc
    BY <1>1, <2>0, <2>1
  <2>2. CASE \E w \in Workers : /\ wpc[w] = "none" /\ wpc' = [wpc EXCEPT ![w] = "start"]
                                /\ pool' = [locked EXCEPT !.refcount = @ + 1, !.num_workers = @ + 1]
    <3> HIDE DEF locked
    <3>1. pool'.num_workers = pool.num_workers + 1
      BY <1>a, <2>0, <2>2
    <3> QED
      BY <1>2, <2>2, <3>1
  <2> QED
    BY <1>6, <2>1, <2>2 DEF TpAlloc, ThreadpoolLock
<1>7. ASSUME NEW c \in Callers, TpReleasePool(c)
      PROVE  StartedInv'
  <2>1. \A w \in Workers : (wpc'[w] = "none") <=> (wpc[w] = "none")
    BY <1>a, <1>7 DEF TpReleasePool, AllWoken
  <2>2. pool'.num_workers = pool.num_workers
    BY <1>a, <1>7 DEF TpReleasePool
  <2> QED
    BY <1>1, <2>1, <2>2
<1>8. ASSUME NEW w \in Workers, WorkerEnds(w)
      PROVE  StartedInv'
  <2>1. wpc' = [wpc EXCEPT ![w] = "none"] /\ wpc[w] # "none"
    BY <1>8 DEF WorkerEnds, InPool
  <2>2. Started' = Started \ {w} /\ w \in Started
    BY <1>a, <2>1 DEF Started
  <2>3. Cardinality(Started') = Cardinality(Started) - 1
    BY <1>a, <2>2, CardinalitySteps
  <2>4. pool'.num_workers = pool.num_workers - 1
    BY <1>a, <1>8 DEF WorkerEnds
  <2> QED
    BY <1>a, <2>3, <2>4 DEF StartedInv
<1>9. ASSUME NEW w \in Workers,
             \/ WorkerTakes(w) \/ CallbackReturns(w) \/ WorkerChecks(w) \/ WorkerSleeps(w)
             \/ WorkerTimesOut(w) \/ TpDisassociateCallback(w)
      PROVE  StartedInv'
  <2>1. pool'.num_workers = pool.num_workers
    BY <1>a, <1>9 DEF WorkerTakes, CallbackReturns, WorkerChecks, WorkerSleeps, WorkerTimesOut,
                      TpDisassociateCallback, poolvars
  <2>2. wpc' = wpc \/ (wpc[w] # "none" /\ \E pc \in {"callback", "loop", "check", "sleep", "expired"} :
                                            wpc' = [wpc EXCEPT ![w] = pc])
    BY <1>9 DEF WorkerTakes, InPool, CallbackReturns, WorkerChecks, WorkerSleeps,
       WorkerTimesOut,
                TpDisassociateCallback
  <2>3. \A u \in Workers : (wpc'[u] = "none") <=> (wpc[u] = "none")
    BY <1>a, <2>2
  <2> QED
    BY <1>1, <2>1, <2>3
<1> QED
  BY <1>3, <1>4, <1>5, <1>6, <1>7, <1>8, <1>9, Zenon DEF CoreStep

\* num_busy_workers is at least the callbacks that run and the objects in the queues.
LEMMA BusyStep ==
  ASSUME Types, QueueInv, WorkerInv, BusyInv, CoreStep
  PROVE  BusyInv'
<1>a. /\ wpc \in [Workers -> {"none", "start", "woken", "expired", "loop", "check", "sleep",
                              "callback"}]
      /\ pending \in [Objects -> Int]
      /\ InCallback \subseteq Workers /\ IsFiniteSet(Workers)
      /\ Waiting \subseteq Objects /\ IsFiniteSet(Objects)
      /\ DOMAIN pool = {"refcount", "objcount", "shutdown", "num_workers", "num_busy_workers"}
  BY Constants DEF Types, ObjectTypes, WorkerTypes, PoolTypes, InCallback, Waiting
<1>b. /\ pool.num_busy_workers \in Int /\ Cardinality(InCallback) \in Nat
      /\ Cardinality(Waiting) \in Nat
      /\ Cardinality(InCallback) + Cardinality(Waiting) <= pool.num_busy_workers
  BY <1>a, CardinalitySteps DEF BusyInv, Types, PoolTypes
<1>1. ASSUME pool'.num_busy_workers = pool.num_busy_workers, pending' = pending,
             \A w \in Workers : (wpc'[w] = "callback") <=> (wpc[w] = "callback")
      PROVE  BusyInv'
  <2>1. InCallback' = InCallback /\ Waiting' = Waiting
    BY <1>1 DEF InCallback, Waiting
  <2> QED
    BY <1>b, <1>1, <2>1 DEF BusyInv
<1>2. CASE CoreFrame
  BY <1>1, <1>2 DEF CoreFrame
<1>3. ASSUME NEW t \in Threads, NEW o \in Objects, Submit(t, o)
      PROVE  BusyInv'
  <2>1. /\ pending' = [pending EXCEPT ![o] = @ + 1]
        /\ pool'.num_busy_workers = IF pending[o] = 0 THEN pool.num_busy_workers + 1
                                    ELSE pool.num_busy_workers
    BY <1>a, <1>3 DEF Submit, NewWorker
  <2>2. \A w \in Workers : (wpc'[w] = "callback") <=> (wpc[w] = "callback")
    BY <1>a, <1>3 DEF Submit, NewWorker, OneWoken
  <2>3. InCallback' = InCallback
    BY <2>2 DEF InCallback
  <2>4. pending[o] >= 0
    BY DEF QueueInv
  <2>5. CASE pending[o] = 0
    <3>1. Waiting' = Waiting \union {o} /\ o \notin Waiting
      BY <1>a, <2>1, <2>5 DEF Waiting
    <3>2. Cardinality(Waiting') = Cardinality(Waiting) + 1
      BY <1>a, <3>1, CardinalitySteps
    <3> QED
      BY <1>b, <2>1, <2>3, <2>5, <3>2 DEF BusyInv
  <2>6. CASE pending[o] # 0
    <3>1. Waiting' = Waiting
      BY <1>a, <2>1, <2>4, <2>6 DEF Waiting
    <3> QED
      BY <1>b, <2>1, <2>3, <2>6, <3>1 DEF BusyInv
  <2> QED
    BY <2>5, <2>6
<1>4. ASSUME NEW t \in Threads, DoCancel(t)
      PROVE  BusyInv'
  <2>1. InCallback' = InCallback /\ pool' = pool
    BY <1>4 DEF DoCancel, workervars, InCallback
  <2>2. \A x \in Objects : pending'[x] = pending[x] \/ pending'[x] = 0
    BY <1>a, <1>4 DEF DoCancel
  <2>3. Waiting' \subseteq Waiting
    BY <2>2 DEF Waiting
  <2>4. Cardinality(Waiting') <= Cardinality(Waiting) /\ Cardinality(Waiting') \in Nat
    BY <1>a, <2>3, CardinalitySteps, FS_Subset
  <2> QED
    BY <1>b, <2>1, <2>4 DEF BusyInv
<1>5. ASSUME NEW c \in Callers, NEW o \in Objects, TpAlloc(c, o)
      PROVE  BusyInv'
  <2> DEFINE locked == [pool EXCEPT !.refcount = @ + 1, !.objcount = @ + 1]
  <2>0. /\ locked.num_busy_workers = pool.num_busy_workers
        /\ DOMAIN locked = {"refcount", "objcount", "shutdown", "num_workers", "num_busy_workers"}
    BY <1>a
  <2>1. \/ pool' = locked
        \/ pool' = [locked EXCEPT !.refcount = @ + 1, !.num_workers = @ + 1]
    BY <1>5 DEF TpAlloc, ThreadpoolLock
  <2>2. \A w \in Workers : (wpc'[w] = "callback") <=> (wpc[w] = "callback")
    BY <1>a, <1>5 DEF TpAlloc, ThreadpoolLock
  <2> HIDE DEF locked
  <2>3. pool'.num_busy_workers = pool.num_busy_workers
    BY <2>0, <2>1
  <2>4. pending' = pending
    BY <1>5 DEF TpAlloc, countvars
  <2> QED
    BY <1>1, <2>2, <2>3, <2>4
<1>6. ASSUME NEW c \in Callers, TpReleasePool(c)
      PROVE  BusyInv'
  <2>1. \A w \in Workers : (wpc'[w] = "callback") <=> (wpc[w] = "callback")
    BY <1>a, <1>6 DEF TpReleasePool, AllWoken
  <2>2. pool'.num_busy_workers = pool.num_busy_workers /\ pending' = pending
    BY <1>a, <1>6 DEF TpReleasePool, countvars
  <2> QED
    BY <1>1, <2>1, <2>2
<1>7. ASSUME NEW w \in Workers, WorkerTakes(w)
      PROVE  BusyInv'
  <2>1. PICK o \in Objects : o = NextItem /\ pending[o] > 0
    BY <1>7, NextItemPending DEF WorkerTakes
  <2>2. wpc' = [wpc EXCEPT ![w] = "callback"] /\ wpc[w] # "callback"
    BY <1>7 DEF WorkerTakes, InPool
  <2>3. InCallback' = InCallback \union {w} /\ w \notin InCallback
    BY <1>a, <2>2 DEF InCallback
  <2>4. Cardinality(InCallback') = Cardinality(InCallback) + 1
    BY <1>a, <2>3, CardinalitySteps
  <2>5. pending' = [pending EXCEPT ![o] = @ - 1]
    BY <1>7, <2>1 DEF WorkerTakes
  <2>6. CASE pending[o] > 1
    <3>1. Waiting' = Waiting
      BY <1>a, <2>5, <2>6 DEF Waiting
    <3>2. pool'.num_busy_workers = pool.num_busy_workers + 1
      BY <1>a, <1>7, <2>1, <2>6 DEF WorkerTakes
    <3> QED
      BY <1>b, <2>4, <3>1, <3>2 DEF BusyInv
  <2>7. CASE ~(pending[o] > 1)
    <3>1. Waiting' = Waiting \ {o} /\ o \in Waiting
      BY <1>a, <2>1, <2>5, <2>7 DEF Waiting
    <3>2. Cardinality(Waiting') = Cardinality(Waiting) - 1
      BY <1>a, <3>1, CardinalitySteps
    <3>3. pool' = pool
      BY <1>7, <2>1, <2>7 DEF WorkerTakes
    <3> QED
      BY <1>b, <2>4, <3>2, <3>3 DEF BusyInv
  <2> QED
    BY <2>6, <2>7
<1>8. ASSUME NEW w \in Workers, CallbackReturns(w)
      PROVE  BusyInv'
  <2>1. /\ wpc' = [wpc EXCEPT ![w] = "loop"] /\ wpc[w] = "callback" /\ pending' = pending
        /\ pool'.num_busy_workers = pool.num_busy_workers - 1
    BY <1>a, <1>8 DEF CallbackReturns
  <2>2. InCallback' = InCallback \ {w} /\ w \in InCallback /\ Waiting' = Waiting
    BY <1>a, <2>1 DEF InCallback, Waiting
  <2>3. Cardinality(InCallback') = Cardinality(InCallback) - 1
    BY <1>a, <2>2, CardinalitySteps
  <2> QED
    BY <1>b, <2>1, <2>2, <2>3 DEF BusyInv
<1>9. ASSUME NEW w \in Workers,
             \/ WorkerChecks(w) \/ WorkerSleeps(w) \/ WorkerEnds(w)
             \/ WorkerTimesOut(w) \/ TpDisassociateCallback(w)
      PROVE  BusyInv'
  <2>1. pool'.num_busy_workers = pool.num_busy_workers /\ pending' = pending
    BY <1>a, <1>9 DEF WorkerChecks, WorkerSleeps, WorkerEnds, WorkerTimesOut,
                      TpDisassociateCallback, poolvars, countvars
  <2>2. wpc' = wpc \/ (wpc[w] # "callback" /\ \E pc \in {"none", "check", "sleep", "expired"} :
                                                wpc' = [wpc EXCEPT ![w] = pc])
    BY <1>9 DEF InPool, WorkerChecks, WorkerSleeps, WorkerEnds, WorkerTimesOut,
                TpDisassociateCallback
  <2>3. \A u \in Workers : (wpc'[u] = "callback") <=> (wpc[u] = "callback")
    BY <1>a, <2>2
  <2> QED
    BY <1>1, <2>1, <2>3
<1> QED
  BY <1>2, <1>3, <1>4, <1>5, <1>6, <1>7, <1>8, <1>9, Zenon DEF CoreStep

\* The callbacks that are pending, and the workers that are on their way to the queue.
Items == UNION {{o} \X (1..pending[o]) : o \in Objects}
Awake == {w \in Workers : wpc[w] \in {"start", "woken", "expired", "loop"}}
Asleep == \E w \in Workers : wpc[w] = "sleep"
StrandInv == IsFiniteSet(Items) /\ (Asleep => Cardinality(Items) <= Cardinality(Awake))

\* A pending callback is a number within the count of its object.
LEMMA ItemsMembers ==
  \A x : x \in Items <=> \E o \in Objects : \E i \in 1..pending[o] : x = <<o, i>>
BY DEF Items

\* Every pending callback keeps a worker on its way while one sleeps.
LEMMA StrandStep ==
  ASSUME Types, QueueInv, WorkerInv, StrandInv, CoreStep
  PROVE  StrandInv'
<1>a. /\ wpc \in [Workers -> {"none", "start", "woken", "expired", "loop", "check", "sleep",
                              "callback"}]
      /\ pending \in [Objects -> Int] /\ \A o \in Objects : pending[o] >= 0
      /\ Awake \subseteq Workers /\ IsFiniteSet(Workers) /\ IsFiniteSet(Items)
  BY Constants DEF Types, ObjectTypes, WorkerTypes, Awake, StrandInv, QueueInv
<1>b. /\ Cardinality(Awake) \in Nat /\ Cardinality(Items) \in Nat
      /\ Asleep => Cardinality(Items) <= Cardinality(Awake)
  BY <1>a, CardinalitySteps, FS_CardinalityType DEF StrandInv
<1>1. ASSUME pending' = pending,
             \A w \in Workers : wpc'[w] = wpc[w] \/ (wpc'[w] # "sleep" /\ w \notin Awake)
      PROVE  StrandInv'
  <2>1. Items' = Items /\ Awake \subseteq Awake' /\ Awake' \subseteq Workers /\ (Asleep' => Asleep)
    BY <1>1 DEF Items, Awake, Asleep
  <2>2. Cardinality(Awake) <= Cardinality(Awake') /\ Cardinality(Awake') \in Nat
    BY <1>a, <2>1, FS_Subset, FS_CardinalityType
  <2> QED
    BY <1>a, <1>b, <2>1, <2>2 DEF StrandInv
<1>2. ASSUME pending' = pending, \A o \in Objects : pending[o] = 0
      PROVE  StrandInv'
  <2>1. \A o \in Objects : 1..pending[o] = {}
    BY <1>2
  <2>2. Items = {}
    BY <2>1, ItemsMembers
  <2>3. Items' = Items /\ Awake' \subseteq Workers
    BY <1>2 DEF Items, Awake
  <2>4. Cardinality(Awake') \in Nat
    BY <1>a, <2>3, FS_Subset, FS_CardinalityType
  <2>5. Cardinality(Items') = 0 /\ IsFiniteSet(Items')
    BY <2>2, <2>3, FS_EmptySet
  <2> QED
    BY <2>4, <2>5 DEF StrandInv
<1>3. CASE CoreFrame
  BY <1>1, <1>3 DEF CoreFrame
<1>4. ASSUME NEW t \in Threads, NEW o \in Objects, Submit(t, o)
      PROVE  StrandInv'
  <2>1. pending' = [pending EXCEPT ![o] = @ + 1] /\ (wpc' \in OneWoken
          \/ \E w \in Workers : wpc[w] = "none" /\ wpc' = [wpc EXCEPT ![w] = "start"])
    BY <1>4 DEF Submit, NewWorker
  <2>2. PICK x : x = <<o, pending[o] + 1>>
    OBVIOUS
  <2>3. \A p \in Objects, i \in Int :
          i \in 1..pending'[p] <=> i \in 1..pending[p] \/ (p = o /\ i = pending[o] + 1)
    BY <1>a, <2>1
  <2>4. Items' = Items \union {x} /\ x \notin Items
    <3>1. \A y : y \in Items' <=> \E p \in Objects : \E i \in 1..pending'[p] : y = <<p, i>>
      BY DEF Items
    <3>2. pending[o] \in Int /\ pending[o] + 1 \in Int /\ ~(pending[o] + 1 \in 1..pending[o])
      BY <1>a
    <3>3. \A y \in Items' : y \in Items \union {x}
      BY <2>2, <2>3, <3>1, ItemsMembers
    <3>4. \A y \in Items : y \in Items'
      BY <2>3, <3>1, ItemsMembers
    <3>5. x \in Items'
      BY <2>2, <2>3, <3>1, <3>2
    <3>6. x \notin Items
      BY <2>2, <3>2, ItemsMembers
    <3> QED
      BY <3>3, <3>4, <3>5, <3>6
  <2>5. Cardinality(Items') = Cardinality(Items) + 1 /\ IsFiniteSet(Items')
    BY <1>a, <2>4, CardinalitySteps
  <2>6. CASE ~Asleep
    <3>1. ~Asleep'
      BY <1>a, <2>1, <2>6 DEF Asleep, OneWoken
    <3> QED
      BY <2>5, <3>1 DEF StrandInv
  <2>7. CASE Asleep
    <3>1. \E w \in Workers : \E pc \in {"start", "woken", "expired"} :
            wpc[w] \in {"none", "sleep"} /\ wpc' = [wpc EXCEPT ![w] = pc]
      BY <2>1, <2>7 DEF Asleep, OneWoken
    <3>2. PICK w \in Workers : \E pc \in {"start", "woken", "expired"} :
            wpc[w] \in {"none", "sleep"} /\ wpc' = [wpc EXCEPT ![w] = pc]
      BY <3>1
    <3>3. Awake' = Awake \union {w} /\ w \notin Awake
      BY <1>a, <3>2 DEF Awake
    <3>4. Cardinality(Awake') = Cardinality(Awake) + 1
      BY <1>a, <3>3, CardinalitySteps
    <3> QED
      BY <1>b, <2>5, <2>7, <3>4 DEF StrandInv
  <2> QED
    BY <2>6, <2>7
<1>5. ASSUME NEW t \in Threads, DoCancel(t)
      PROVE  StrandInv'
  <2>1. \A p \in Objects : pending'[p] \in {0, pending[p]}
    BY <1>a, <1>5 DEF DoCancel
  <2>2. \A p \in Objects : 1..pending'[p] \subseteq 1..pending[p]
    BY <1>a, <2>1
  <2>3. Items' \subseteq Items
    <3>1. \A y : y \in Items' <=> \E p \in Objects : \E i \in 1..pending'[p] : y = <<p, i>>
      BY DEF Items
    <3> QED
      BY <2>2, <3>1, ItemsMembers
  <2>4. Cardinality(Items') <= Cardinality(Items) /\ IsFiniteSet(Items') /\ Cardinality(Items') \in Nat
    BY <1>a, <2>3, FS_Subset, FS_CardinalityType
  <2>5. Awake' = Awake /\ Asleep' = Asleep
    BY <1>5 DEF DoCancel, workervars, Awake, Asleep
  <2> QED
    BY <1>b, <2>4, <2>5 DEF StrandInv
<1>6. ASSUME NEW c \in Callers, NEW o \in Objects, TpAlloc(c, o)
      PROVE  StrandInv'
  <2>1. \A w \in Workers : wpc'[w] = wpc[w] \/ (wpc'[w] # "sleep" /\ w \notin Awake)
    BY <1>a, <1>6 DEF TpAlloc, ThreadpoolLock, Awake
  <2> QED
    BY <1>1, <1>6, <2>1 DEF TpAlloc, countvars
<1>7. ASSUME NEW c \in Callers, TpReleasePool(c)
      PROVE  StrandInv'
  <2>1. \A w \in Workers : wpc'[w] = wpc[w] \/ (wpc'[w] # "sleep" /\ w \notin Awake)
    BY <1>a, <1>7 DEF TpReleasePool, AllWoken, Awake
  <2> QED
    BY <1>1, <1>7, <2>1 DEF TpReleasePool, countvars
<1>8. ASSUME NEW w \in Workers, WorkerTakes(w)
      PROVE  StrandInv'
  <2>1. PICK o \in Objects : o = NextItem /\ pending[o] > 0
    BY <1>8, NextItemPending DEF WorkerTakes
  <2>2. /\ pending' = [pending EXCEPT ![o] = @ - 1] /\ wpc' = [wpc EXCEPT ![w] = "callback"]
        /\ w \in Awake
    BY <1>8, <2>1 DEF WorkerTakes, InPool, Awake
  <2>3. Awake' = Awake \ {w} /\ (Asleep' => Asleep)
    BY <1>a, <2>2 DEF Awake, Asleep
  <2>4. Cardinality(Awake') = Cardinality(Awake) - 1
    BY <1>a, <2>2, <2>3, CardinalitySteps
  <2>5. PICK x : x = <<o, pending[o]>>
    OBVIOUS
  <2>6. \A p \in Objects, i \in Int :
          i \in 1..pending'[p] <=> i \in 1..pending[p] /\ ~(p = o /\ i = pending[o])
    BY <1>a, <2>1, <2>2
  <2>7. Items' = Items \ {x} /\ x \in Items
    <3>1. \A y : y \in Items' <=> \E p \in Objects : \E i \in 1..pending'[p] : y = <<p, i>>
      BY DEF Items
    <3>2. pending[o] \in Int /\ pending[o] \in 1..pending[o]
      BY <1>a, <2>1
    <3>3. \A y \in Items' : y \in Items /\ y # x
      BY <2>5, <2>6, <3>1, ItemsMembers
    <3>4. \A y \in Items : y # x => y \in Items'
      BY <2>5, <2>6, <3>1, ItemsMembers
    <3>6. x \in Items
      BY <2>5, <3>2, ItemsMembers
    <3> QED
      BY <3>3, <3>4, <3>6
  <2>8. Cardinality(Items') = Cardinality(Items) - 1 /\ IsFiniteSet(Items')
    BY <1>a, <2>7, CardinalitySteps, FS_Subset
  <2> QED
    BY <1>b, <2>3, <2>4, <2>8 DEF StrandInv
<1>9. ASSUME NEW w \in Workers, CallbackReturns(w)
      PROVE  StrandInv'
  <2>1. \A u \in Workers : wpc'[u] = wpc[u] \/ (wpc'[u] # "sleep" /\ u \notin Awake)
    BY <1>a, <1>9 DEF CallbackReturns, Awake
  <2> QED
    BY <1>1, <1>9, <2>1 DEF CallbackReturns
<1>10. ASSUME NEW w \in Workers, WorkerChecks(w) \/ WorkerEnds(w)
      PROVE  StrandInv'
  <2>1. \A o \in Objects : pending[o] = 0
    BY <1>10, NoItem DEF WorkerChecks, WorkerEnds
  <2> QED
    BY <1>2, <1>10, <2>1 DEF WorkerChecks, WorkerEnds, countvars
<1>11. ASSUME NEW w \in Workers, WorkerSleeps(w)
      PROVE  StrandInv'
  <2>1. \A o \in Objects : pending[o] = 0
    BY <1>11 DEF WorkerSleeps, WorkerInv
  <2> QED
    BY <1>2, <1>11, <2>1 DEF WorkerSleeps, countvars
<1>12. ASSUME NEW w \in Workers, WorkerTimesOut(w) \/ TpDisassociateCallback(w)
      PROVE  StrandInv'
  <2>1. \A u \in Workers : wpc'[u] = wpc[u] \/ (wpc'[u] # "sleep" /\ u \notin Awake)
    BY <1>a, <1>12 DEF WorkerTimesOut, TpDisassociateCallback, Awake
  <2> QED
    BY <1>1, <1>12, <2>1 DEF WorkerTimesOut, TpDisassociateCallback, countvars
<1> QED
  BY <1>3, <1>4, <1>5, <1>6, <1>7, <1>8, <1>9, <1>10, <1>11, <1>12, Zenon DEF CoreStep

\* The part of the inductive invariant that is about the pool and its workers.
CoreInv == Types /\ QueueInv /\ WorkerInv /\ CountInv /\ StrandInv

\* It holds in the initial states,
LEMMA CoreInit ==
  ASSUME Init
  PROVE  CoreInv
<1>1. Types
  <2>1. /\ \A S : <<>> \in Seq(S)
        /\ 0 \in Int /\ 1 \in Int
    BY EmptySeq
  <2>2. ObjectTypes
    BY <2>1 DEF Init, ObjectTypes
  <2>3. PoolTypes /\ GroupTypes /\ WorkerTypes
    BY <2>1 DEF Init, PoolTypes, GroupTypes, WorkerTypes
  <2> QED
    BY <2>2, <2>3 DEF Types
<1>2. QueueInv
  <2>1. \A p \in 0..2 : pools[p] = <<>>
    BY DEF Init
  <2>2. ToSet(<<>>) = {} /\ Distinct(<<>>)
    BY DEF ToSet, Distinct
  <2> QED
    BY <2>1, <2>2 DEF Init, QueueInv
<1>3. WorkerInv
  BY Constants DEF Init, WorkerInv
<1>4. CountInv
  <2>1. /\ \A o \in Objects : {w \in Workers : wobj[w] = o} = {} /\ Associates(o) = {}
        /\ Started = {} /\ InCallback = {} /\ Waiting = {}
    BY Constants DEF Init, Associates, Started, InCallback, Waiting
  <2>2. /\ \A o \in Objects : Executing(o) = 0 /\ Cardinality(Associates(o)) = 0
        /\ Cardinality(Started) = 0 /\ Cardinality(InCallback) = 0 /\ Cardinality(Waiting) = 0
    BY <2>1, FS_EmptySet DEF Executing
  <2>3. /\ \A o \in Objects : running[o] = 0 /\ associated[o] = 0
        /\ pool.num_workers = 0 /\ pool.num_busy_workers = 0
    BY DEF Init
  <2> QED
    BY <2>2, <2>3 DEF CountInv, RunningInv, AssociatedInv, StartedInv, BusyInv
<1>5. StrandInv
  <2>1. \A o \in Objects : 1..pending[o] = {}
    BY DEF Init
  <2>2. Items = {} /\ ~Asleep
    BY <2>1, ItemsMembers DEF Init, Asleep
  <2> QED
    BY <2>2, FS_EmptySet DEF StrandInv
<1> QED
  BY <1>1, <1>2, <1>3, <1>4, <1>5 DEF CoreInv

\* and every step preserves it.
LEMMA CoreNext ==
  ASSUME CoreInv, [Next]_vars
  PROVE  CoreInv'
<1>1. Types /\ QueueInv /\ WorkerInv /\ StrandInv
      /\ RunningInv /\ AssociatedInv /\ StartedInv /\ BusyInv
  BY DEF CoreInv, CountInv
<1>2. CoreStep
  BY <1>1, CoreSteps
<1>3. Types'
  BY <1>1, TypesStep
<1>4. QueueInv' /\ WorkerInv'
  BY <1>1, <1>2, QueueStep, WorkerInvStep
<1>5. RunningInv' /\ AssociatedInv'
  BY <1>1, <1>2, RunningStep, AssociatedStep
<1>6. StartedInv' /\ BusyInv' /\ StrandInv'
  BY <1>1, <1>2, StartedStep, BusyStep, StrandStep
<1> QED
  BY <1>3, <1>4, <1>5, <1>6 DEF CoreInv, CountInv

\* The queues, the counts and the workers of the pool agree in every state: an object is
\* in the list of its priority exactly while callbacks are pending, num_running_callbacks,
\* num_associated_callbacks and num_workers count what the workers do (tp_object_submit,
\* threadpool_worker_proc, tp_object_execute).
THEOREM PoolCounts == Spec => []CoreInv
<1>1. Init => CoreInv
  BY CoreInit
<1>2. CoreInv /\ [Next]_vars => CoreInv'
  BY CoreNext
<1> QED
  BY <1>1, <1>2, PTL DEF Spec

\* NoStrandedCallback: while a worker sleeps every pending callback has a worker on its
\* way to the queue, for any number of objects and workers (tp_object_submit and
\* RtlSleepConditionVariableCS in threadpool_worker_proc).
THEOREM CallbacksHaveWorkers == Spec => []NoStrandedCallback
<1>1. CoreInv => NoStrandedCallback
  BY Zenon DEF CoreInv, StrandInv, NoStrandedCallback, Items, Awake, Asleep
<1> QED
  BY <1>1, PoolCounts, PTL

-----------------------------------------------------------------------------
(* What the threads have still to do.                                       *)

\* The roles of the operations.
LEMMA RoleNames ==
  /\ Role("submit") = "submit" /\ Role("join") = "join" /\ Role("release") = "release"
  /\ Role("ungroup") = "ungroup" /\ Role("unlock") = "unlock" /\ Role("cancel") = "cancel"
  /\ Role("wait") = "waits" /\ Role("asleep") = "waits" /\ Role("unset") = "unset"
  /\ Role("group_wait") = "ref" /\ Role("group_asleep") = "ref" /\ Role("finish") = "ref"
  /\ Role("retire") = "retire" /\ Role("gather") = "gather" /\ Role("rearm") = "rearm"
  /\ Role("leavegroup") = "leave" /\ Role("leavegroup_cancel") = "leave"
  /\ \A name \in ObjectNames \union LeaveNames : Role(name) \in Roles
  /\ \A name \in ObjectNames : Role(name) # "leave"
BY DEF Role, RefNames, LeaveNames, ObjectNames, Roles

\* What follows the head of an ordered todo fits it, and is ordered.
LEMMA OrderTail ==
  ASSUME NEW q \in Seq(Ops), q # <<>>, Ordered(q)
  PROVE  Ordered(Tail(q)) /\ \A y \in ToSet(Tail(q)) : Fits(Head(q), y)
<1>1. /\ Tail(q) \in Seq(Ops) /\ Len(Tail(q)) = Len(q) - 1 /\ Len(q) \in Nat \ {0}
      /\ \A i \in 1..Len(Tail(q)) : Tail(q)[i] = q[i + 1]
  BY HeadTailProperties, LenProperties, EmptySeq
<1>2. Head(q) = q[1]
  OBVIOUS
<1>3. Ordered(Tail(q))
  <2> SUFFICES ASSUME NEW i \in 1..Len(Tail(q)), NEW j \in 1..Len(Tail(q)), i < j
               PROVE  Fits(Tail(q)[i], Tail(q)[j])
    BY DEF Ordered
  <2>1. Tail(q)[i] = q[i + 1] /\ Tail(q)[j] = q[j + 1]
    BY <1>1
  <2>2. i + 1 \in 1..Len(q) /\ j + 1 \in 1..Len(q) /\ i + 1 < j + 1
    BY <1>1
  <2> QED
    BY <2>1, <2>2 DEF Ordered
<1>4. ASSUME NEW y \in ToSet(Tail(q))
      PROVE  Fits(Head(q), y)
  <2>a. PICK rest \in Seq(Ops) : rest = Tail(q)
    BY <1>1
  <2>b. ToSet(rest) = {rest[i] : i \in 1..Len(rest)}
    BY ToSetMembers, Zenon
  <2>1. PICK i \in 1..Len(Tail(q)) : y = Tail(q)[i]
    BY <2>a, <2>b
  <2>2. y = q[i + 1] /\ i + 1 \in 1..Len(q) /\ 1 \in 1..Len(q) /\ 1 < i + 1
    BY <1>1, <2>1
  <2> QED
    BY <1>2, <2>2 DEF Ordered
<1> QED
  BY <1>3, <1>4

\* Two ordered todos, the first of which fits before the second.
LEMMA OrderConcat ==
  ASSUME NEW p \in Seq(Ops), NEW q \in Seq(Ops), Ordered(p), Ordered(q),
         \A x \in ToSet(p), y \in ToSet(q) : Fits(x, y)
  PROVE  Ordered(p \o q)
<1>1. /\ p \o q \in Seq(Ops) /\ Len(p \o q) = Len(p) + Len(q) /\ Len(p) \in Nat /\ Len(q) \in Nat
      /\ \A i \in 1..(Len(p) + Len(q)) : (p \o q)[i] = IF i <= Len(p) THEN p[i] ELSE q[i - Len(p)]
  BY ConcatProperties, LenProperties
<1> SUFFICES ASSUME NEW i \in 1..(Len(p) + Len(q)), NEW j \in 1..(Len(p) + Len(q)), i < j
             PROVE  Fits((p \o q)[i], (p \o q)[j])
  BY <1>1 DEF Ordered
<1>2. CASE j <= Len(p)
  <2>1. i \in 1..Len(p) /\ j \in 1..Len(p) /\ (p \o q)[i] = p[i] /\ (p \o q)[j] = p[j]
    BY <1>1, <1>2
  <2> QED
    BY <2>1 DEF Ordered
<1>3. CASE i > Len(p)
  <2>1. /\ i - Len(p) \in 1..Len(q) /\ j - Len(p) \in 1..Len(q) /\ i - Len(p) < j - Len(p)
        /\ (p \o q)[i] = q[i - Len(p)] /\ (p \o q)[j] = q[j - Len(p)]
    BY <1>1, <1>3
  <2> QED
    BY <2>1 DEF Ordered
<1>4. CASE i <= Len(p) /\ j > Len(p)
  <2>1. /\ i \in 1..Len(p) /\ j - Len(p) \in 1..Len(q)
        /\ (p \o q)[i] = p[i] /\ (p \o q)[j] = q[j - Len(p)]
    BY <1>1, <1>4
  <2>2. p[i] \in ToSet(p) /\ q[j - Len(p)] \in ToSet(q)
    BY <2>1, ToSetMembers
  <2> QED
    BY <2>1, <2>2
<1> QED
  BY <1>1, <1>2, <1>3, <1>4

\* Todos of at most two operations.
LEMMA OrderShort ==
  ASSUME NEW x \in Ops, NEW y \in Ops
  PROVE  Ordered(<< >>) /\ Ordered(<<x>>) /\ (Fits(x, y) => Ordered(<<x, y>>))
<1>1. /\ Len(<<x>>) = 1 /\ Len(<<x, y>>) = 2 /\ Len(<< >>) = 0
      /\ <<x, y>>[1] = x /\ <<x, y>>[2] = y
  OBVIOUS
<1>2. Ordered(<< >>) /\ Ordered(<<x>>)
  BY <1>1 DEF Ordered
<1>3. ASSUME Fits(x, y), NEW i \in 1..2, NEW j \in 1..2, i < j
      PROVE  Fits(<<x, y>>[i], <<x, y>>[j])
  <2>1. i = 1 /\ j = 2
    BY <1>3
  <2> QED
    BY <1>1, <1>3, <2>1
<1> QED
  BY <1>1, <1>2, <1>3 DEF Ordered

\* The same operation on each of the members.
LEMMA OrderEach ==
  ASSUME NEW name \in {"gather", "cancel", "group_wait"}, NEW m \in Seq(Objects), Distinct(m),
         NEW q, q = [i \in DOMAIN m |-> Op(name, m[i])]
  PROVE  Ordered(q)
<1>0. name \in ObjectNames
  BY DEF ObjectNames
<1>1. Len(q) = Len(m) /\ Len(m) \in Nat /\ DOMAIN m = 1..Len(m)
  BY <1>0, EachOps, LenProperties
<1>2. \A i \in 1..Len(m) : q[i].op = name /\ q[i].obj = m[i]
  BY <1>1 DEF Op
<1>3. MayFollow(Role(name), Role(name))
  BY RoleNames DEF MayFollow
<1>4. \A i, j \in 1..Len(m) : i < j => m[i] # m[j]
  BY <1>1 DEF Distinct
<1> QED
  BY <1>1, <1>2, <1>3, <1>4 DEF Ordered, Fits

\* The operations that a list has for an object.
Gives(p, r, o) == \E x \in ToSet(p) : x.obj = o /\ Role(x.op) = r

Replaces(t, p) ==
  \A u \in Threads : \A r, o :
    Does(u, r, o)' <=>
      \/ /\ Does(u, r, o)
         /\ ~(u = t /\ r = Role(Head(todo[t]).op) /\ o = Head(todo[t]).obj)
      \/ u = t /\ Gives(p, r, o)

\* Todos of other threads stay as they are, that of the thread loses its head and gets
\* other operations before the rest.
LEMMA Replaced ==
  ASSUME Types, TodoInv, NEW t \in Threads, todo[t] # <<>>, NEW p \in Seq(Ops), Ordered(p),
         \A x \in ToSet(p), y \in ToSet(Tail(todo[t])) : Fits(x, y),
         \A x \in ToSet(p) : t # TimerThread /\ x.op # "rearm",
         todo' = [todo EXCEPT ![t] = p \o Tail(todo[t])]
  PROVE  /\ TodoInv'
         /\ Replaces(t, p)
<1>1. todo \in [Threads -> Seq(Ops)] /\ todo[t] \in Seq(Ops) /\ Ordered(todo[t])
  BY DEF Types, ObjectTypes, TodoInv
<1>2. PICK rest \in Seq(Ops) : rest = Tail(todo[t])
  BY <1>1, ToSetTail
<1>3. /\ Ordered(rest) /\ \A y \in ToSet(rest) : Fits(Head(todo[t]), y)
      /\ ToSet(todo[t]) = {Head(todo[t])} \union ToSet(rest)
  BY <1>1, <1>2, OrderTail, ToSetTail
<1>4. Ordered(p \o rest) /\ ToSet(p \o rest) = ToSet(p) \union ToSet(rest)
  BY <1>2, <1>3, OrderConcat, Before
<1>5. todo'[t] = p \o rest /\ \A u \in Threads : u # t => todo'[u] = todo[u]
  BY <1>1, <1>2
<1>6. Todo(t)' = ToSet(p) \union ToSet(rest) /\ \A u \in Threads : u # t => Todo(u)' = Todo(u)
  BY <1>4, <1>5 DEF Todo
<1>7. Todo(t) = {Head(todo[t])} \union ToSet(rest)
  BY <1>3 DEF Todo
<1>8. TodoInv'
  <2> SUFFICES ASSUME NEW u \in Threads
               PROVE  /\ Ordered(todo'[u])
                      /\ \A x \in Todo(u)' : /\ u = TimerThread => x.op \in {"submit", "rearm"}
                                             /\ x.op = "rearm" => u = TimerThread
    BY DEF TodoInv
  <2>1. CASE u = t
    <3>1. \A x \in Todo(t) : /\ t = TimerThread => x.op \in {"submit", "rearm"}
                             /\ x.op = "rearm" => t = TimerThread
      BY DEF TodoInv
    <3> QED
      BY <1>4, <1>5, <1>6, <1>7, <2>1, <3>1
  <2>2. CASE u # t
    BY <1>5, <1>6, <2>2 DEF TodoInv
  <2> QED
    BY <2>1, <2>2
<1>9. ASSUME NEW u \in Threads, NEW r, NEW o
      PROVE  Does(u, r, o)' <=>
                \/ /\ Does(u, r, o)
                   /\ ~(u = t /\ r = Role(Head(todo[t]).op) /\ o = Head(todo[t]).obj)
                \/ u = t /\ \E x \in ToSet(p) : x.obj = o /\ Role(x.op) = r
  <2>0. Does(u, r, o)' <=> \E x \in Todo(u)' : x.obj = o /\ Role(x.op) = r
    BY DEF Does
  <2>1. CASE u = t
    <3>1. Does(u, r, o)' <=> (\E x \in ToSet(p) : x.obj = o /\ Role(x.op) = r)
                             \/ (\E x \in ToSet(rest) : x.obj = o /\ Role(x.op) = r)
      BY <1>6, <2>0, <2>1
    <3>2. (\E x \in ToSet(rest) : x.obj = o /\ Role(x.op) = r) <=>
             Does(u, r, o) /\ ~(r = Role(Head(todo[t]).op) /\ o = Head(todo[t]).obj)
      BY <1>3, <1>7, <2>1 DEF Does, Fits
    <3> QED
      BY <2>1, <3>1, <3>2
  <2>2. CASE u # t
    <3>1. Todo(u)' = Todo(u)
      BY <1>6, <2>2
    <3> QED
      BY <2>0, <2>2, <3>1 DEF Does
  <2> QED
    BY <2>1, <2>2
<1> QED
  BY <1>8, <1>9, Zenon DEF Replaces, Gives

\* The thread goes on with the rest.
LEMMA Continued ==
  ASSUME Types, TodoInv, NEW t \in Threads, todo[t] # <<>>, Continue(t)
  PROVE  /\ TodoInv'
         /\ \A u \in Threads : \A r, o :
              Does(u, r, o)' <=>
                /\ Does(u, r, o)
                /\ ~(u = t /\ r = Role(Head(todo[t]).op) /\ o = Head(todo[t]).obj)
<1>1. todo[t] \in Seq(Ops)
  BY DEF Types, ObjectTypes
<1>2. Tail(todo[t]) \in Seq(Ops) /\ Head(todo[t]) \in Ops
  BY <1>1, ToSetTail
<1>3. PICK p \in Seq(Ops) : p = << >>
  BY EmptySeq
<1>4. p \o Tail(todo[t]) = Tail(todo[t])
  BY <1>2, <1>3, ConcatEmptySeq
<1>5. ToSet(p) = {} /\ Ordered(p)
  <2>1. ToSet(<< >>) = {}
    BY DEF ToSet
  <2> QED
    BY <1>2, <1>3, <2>1, OrderShort
<1>6. todo' = [todo EXCEPT ![t] = p \o Tail(todo[t])]
  BY <1>4 DEF Continue, Then
<1>7. /\ \A x \in ToSet(p), y \in ToSet(Tail(todo[t])) : Fits(x, y)
      /\ \A x \in ToSet(p) : t # TimerThread /\ x.op # "rearm"
  BY <1>5
<1>8. TodoInv' /\ Replaces(t, p)
  BY <1>5, <1>6, <1>7, Replaced, Zenon
<1> QED
  BY <1>5, <1>8 DEF Replaces, Gives

\* A thread with nothing to do gets operations.
LEMMA Entered ==
  ASSUME Types, TodoInv, NEW t \in Threads, todo[t] = <<>>, NEW p \in Seq(Ops), Ordered(p),
         \A x \in ToSet(p) : /\ t = TimerThread => x.op \in {"submit", "rearm"}
                             /\ x.op = "rearm" => t = TimerThread,
         Then(t, p)
  PROVE  /\ TodoInv'
         /\ \A u \in Threads : \A r, o : Does(u, r, o)' <=> Does(u, r, o) \/ (u = t /\ Gives(p, r, o))
<1>1. todo \in [Threads -> Seq(Ops)]
  BY DEF Types, ObjectTypes
<1>2. todo'[t] = p /\ \A u \in Threads : u # t => todo'[u] = todo[u]
  BY <1>1 DEF Then
<1>3. Todo(t) = {} /\ Todo(t)' = ToSet(p) /\ \A u \in Threads : u # t => Todo(u)' = Todo(u)
  BY <1>2 DEF Todo, ToSet
<1>4. TodoInv'
  <2> SUFFICES ASSUME NEW u \in Threads
               PROVE  /\ Ordered(todo'[u])
                      /\ \A x \in Todo(u)' : /\ u = TimerThread => x.op \in {"submit", "rearm"}
                                             /\ x.op = "rearm" => u = TimerThread
    BY DEF TodoInv
  <2>1. CASE u = t
    BY <1>2, <1>3, <2>1
  <2>2. CASE u # t
    BY <1>2, <1>3, <2>2 DEF TodoInv
  <2> QED
    BY <2>1, <2>2
<1>5. ASSUME NEW u \in Threads, NEW r, NEW o
      PROVE  Does(u, r, o)' <=> Does(u, r, o) \/ (u = t /\ Gives(p, r, o))
  <2>0. Does(u, r, o)' <=> \E x \in Todo(u)' : x.obj = o /\ Role(x.op) = r
    BY DEF Does
  <2> QED
    BY <1>3, <2>0 DEF Does, Gives
<1> QED
  BY <1>4, <1>5

\* The todo q is p but that a sleeper looks again.
LooksAgain(p, q, x) ==
  /\ Ordered(q)
  /\ \A r, o : Gives(q, r, o) <=> Gives(p, r, o)
  /\ \A y \in ToSet(q) : y \in ToSet(p) \/ y.op \in {"wait", "group_wait"}
  /\ ToSet(p) \subseteq ToSet(q) \union {x}
  /\ q = <<>> <=> p = <<>>

\* Sleepers that look again keep their roles.
LEMMA WokenRoles ==
  ASSUME NEW td \in [Threads -> Seq(Ops)], NEW o \in Objects,
         NEW name \in {"asleep", "group_asleep"}, NEW cond, NEW td2, td2 = WokenIf(cond, td, o, name), NEW t \in Threads, Ordered(td[t])
  PROVE  LooksAgain(td[t], td2[t], Op(name, o))
<1> DEFINE y == Op(IF name = "asleep" THEN "wait" ELSE "group_wait", o)
<1>1. CASE cond /\ td[t] # <<>> /\ Head(td[t]) = Op(name, o)
  <2>1. td2[t] = <<y>> \o Tail(td[t])
    BY <1>1 DEF WokenIf, Woken
  <2>2. /\ y \in Ops /\ y.obj = o /\ Role(y.op) = Role(name) /\ y.op \in {"wait", "group_wait"}
        /\ Op(name, o).obj = o /\ Op(name, o).op = name
    BY OpTypes, RoleNames DEF ObjectNames
  <2> HIDE DEF y
  <2>3. PICK rest \in Seq(Ops) : rest = Tail(td[t])
    BY <1>1, ToSetTail
  <2>4. /\ Ordered(rest) /\ (\A z \in ToSet(rest) : Fits(Op(name, o), z))
        /\ ToSet(td[t]) = {Op(name, o)} \union ToSet(rest)
    BY <1>1, <2>3, OrderTail, ToSetTail
  <2>5. <<y>> \in Seq(Ops) /\ ToSet(<<y>>) = {y} /\ Ordered(<<y>>)
    BY <2>2, ToSetShort, OrderShort
  <2>6. \A z \in ToSet(rest) : Fits(y, z)
    BY <2>2, <2>4 DEF Fits
  <2>7. PICK h \in Seq(Ops) : h = <<y>>
    BY <2>5
  <2>8. Ordered(h \o rest) /\ ToSet(h \o rest) = {y} \union ToSet(rest)
    BY <2>3, <2>4, <2>5, <2>6, <2>7, OrderConcat, Before
  <2>9. Ordered(td2[t]) /\ ToSet(td2[t]) = {y} \union ToSet(rest)
    BY <2>1, <2>3, <2>7, <2>8
  <2>10. ToSet(<<>>) = {}
    BY DEF ToSet
  <2>11. td2[t] # <<>>
    BY <2>9, <2>10
  <2> QED
    BY <1>1, <2>2, <2>4, <2>9, <2>11 DEF Gives, LooksAgain
<1>2. CASE ~(cond /\ td[t] # <<>> /\ Head(td[t]) = Op(name, o))
  <2>1. td2[t] = td[t]
    BY <1>2 DEF WokenIf, Woken
  <2> QED
    BY <2>1 DEF LooksAgain
<1> QED
  BY <1>1, <1>2

\* The operation a thread does next, as a role, and what may come after it.
LEMMA HeadDoes ==
  ASSUME Types, TodoInv, NEW t \in Threads, NEW name \in ObjectNames, At(t, name)
  PROVE  /\ Obj(t) \in Objects /\ todo[t] # <<>> /\ Does(t, Role(name), Obj(t))
         /\ Role(Head(todo[t]).op) = Role(name) /\ Head(todo[t]).obj = Obj(t)
         /\ \A r, p : Does(t, r, p) => (r = Role(name) /\ p = Obj(t)) \/ MayFollow(Role(name), r)
         /\ \A y \in ToSet(Tail(todo[t])) : MayFollow(Role(name), Role(y.op))
<1>1. todo[t] \in Seq(Ops) /\ Ordered(todo[t])
  BY DEF Types, ObjectTypes, TodoInv
<1>2. /\ todo[t] # <<>> /\ Tail(todo[t]) \in Seq(Ops) /\ Obj(t) \in Objects
      /\ Head(todo[t]) = Op(name, Obj(t))
      /\ Todo(t) = {Op(name, Obj(t))} \union ToSet(Tail(todo[t]))
  BY <1>1, Heads
<1>3. \A y \in ToSet(Tail(todo[t])) : Fits(Head(todo[t]), y)
  BY <1>1, <1>2, OrderTail
<1>4. Op(name, Obj(t)).op = name /\ Op(name, Obj(t)).obj = Obj(t)
  BY OpTypes
<1>5. \A y \in ToSet(Tail(todo[t])) : MayFollow(Role(name), Role(y.op))
  BY <1>2, <1>3, <1>4 DEF Fits
<1> QED
  BY <1>2, <1>4, <1>5 DEF Does

\* An operation is done.
LEMMA ContinueDoes ==
  ASSUME Types, TodoInv, NEW t \in Threads, NEW name \in ObjectNames, At(t, name), Continue(t)
  PROVE  /\ TodoInv'
         /\ \A u \in Threads : \A r, p :
              Does(u, r, p)' <=> Does(u, r, p) /\ ~(u = t /\ r = Role(name) /\ p = Obj(t))
BY HeadDoes, Continued

\* An operation is done that may have been the last one of the object.
LEMMA DestroyDoes ==
  ASSUME Types, TodoInv, NEW t \in Threads, NEW name \in {"release", "cancel", "retire", "finish"},
         At(t, name), NEW cond \in BOOLEAN,
         Then(t, (IF cond THEN Destroy(Obj(t)) ELSE <<>>) \o Tail(todo[t]))
  PROVE  /\ TodoInv'
         /\ \A u \in Threads : \A r, p :
              Does(u, r, p)' <=>
                \/ Does(u, r, p) /\ ~(u = t /\ r = Role(name) /\ p = Obj(t))
                \/ /\ cond /\ u = t /\ p = Obj(t)
                   /\ r = "unlock" \/ (r = "ungroup" /\ Obj(t) \in GroupMembers)
<1>0. name \in ObjectNames
  BY DEF ObjectNames
<1>1. PICK o \in Objects : o = Obj(t)
  BY <1>0, HeadDoes
<1>2. PICK p \in Seq(Ops) : p = IF cond THEN Destroy(o) ELSE << >>
  BY DestroyOps, EmptySeq
<1>3. /\ p \in Seq(Ops)
      /\ ToSet(p) = IF cond THEN {Op("unlock", o)} \union (IF o \in GroupMembers
                                                         THEN {Op("ungroup", o)} ELSE {})
                    ELSE {}
  BY <1>2, DestroyOps, ToSetShort, EmptySeq
<1>4. /\ Op("ungroup", o) \in Ops /\ Op("unlock", o) \in Ops
      /\ Op("ungroup", o).op = "ungroup" /\ Op("ungroup", o).obj = o
      /\ Op("unlock", o).op = "unlock" /\ Op("unlock", o).obj = o
  BY OpTypes DEF ObjectNames
<1>5. Ordered(p)
  <2>1. Fits(Op("ungroup", o), Op("unlock", o))
    BY <1>4, RoleNames DEF Fits, MayFollow
  <2>2. Ordered(<< >>) /\ Ordered(<<Op("unlock", o)>>) /\ Ordered(<<Op("ungroup", o), Op("unlock", o)>>)
    BY <1>4, <2>1, OrderShort
  <2> QED
    BY <1>2, <2>2 DEF Destroy
<1>6. \A x \in ToSet(p) : /\ x.obj = o /\ x.op # "rearm"
                          /\ x.op \in {"unlock", "ungroup"} /\ Role(x.op) = x.op
  BY <1>3, <1>4, RoleNames
<1>7. /\ \A y \in ToSet(Tail(todo[t])) : MayFollow(Role(name), Role(y.op))
      /\ Role(Head(todo[t]).op) = Role(name) /\ Head(todo[t]).obj = o /\ todo[t] # <<>>
  BY <1>0, <1>1, HeadDoes
<1>8. \A x \in ToSet(p), y \in ToSet(Tail(todo[t])) : Fits(x, y)
  <2>1. \A y \in ToSet(Tail(todo[t])) : Role(y.op) \in {"cancel", "waits", "ref"}
    BY <1>7, RoleNames DEF MayFollow
  <2> QED
    BY <1>6, <2>1 DEF Fits, MayFollow
<1>9. t # TimerThread
  <2>1. Head(todo[t]) \in Todo(t) /\ Head(todo[t]).op = name
    BY <1>0, Heads, OpTypes DEF Types, ObjectTypes
  <2> QED
    BY <2>1 DEF TodoInv
<1>10. todo' = [todo EXCEPT ![t] = p \o Tail(todo[t])]
  BY <1>1, <1>2 DEF Then
<1>11. TodoInv' /\ Replaces(t, p)
  <2>1. \A x \in ToSet(p) : t # TimerThread /\ x.op # "rearm"
    BY <1>6, <1>9
  <2>2. todo[t] # <<>>
    BY <1>7
  <2> QED
    BY <1>5, <1>8, <1>10, <2>1, <2>2, Replaced, Zenon
<1>12. \A r, q : Gives(p, r, q) <=> /\ cond /\ q = o
                                    /\ r = "unlock" \/ (r = "ungroup" /\ o \in GroupMembers)
  BY <1>3, <1>4, RoleNames DEF Gives
<1> QED
  BY <1>1, <1>7, <1>11, <1>12 DEF Replaces

\* One operation, or two.
LEMMA GivesShort ==
  ASSUME NEW x \in Ops, NEW y \in Ops
  PROVE  /\ \A r, o : ~Gives(<< >>, r, o)
         /\ \A r, o : Gives(<<x>>, r, o) <=> r = Role(x.op) /\ o = x.obj
         /\ \A r, o : Gives(<<x, y>>, r, o) <=> \/ r = Role(x.op) /\ o = x.obj
                                                \/ r = Role(y.op) /\ o = y.obj
<1>1. ToSet(<< >>) = {} /\ ToSet(<<x>>) = {x} /\ ToSet(<<x, y>>) = {x, y}
  BY ToSetShort
<1>2. \A r, o : ~Gives(<< >>, r, o)
  BY <1>1 DEF Gives
<1>3. \A r, o : Gives(<<x>>, r, o) <=> r = Role(x.op) /\ o = x.obj
  BY <1>1 DEF Gives
<1>4. \A r, o : Gives(<<x, y>>, r, o) <=> \/ r = Role(x.op) /\ o = x.obj
                                          \/ r = Role(y.op) /\ o = y.obj
  BY <1>1 DEF Gives
<1> QED
  BY <1>2, <1>3, <1>4

\* One list after the other.
LEMMA GivesConcat ==
  ASSUME NEW p \in Seq(Ops), NEW q \in Seq(Ops)
  PROVE  \A r, o : Gives(p \o q, r, o) <=> Gives(p, r, o) \/ Gives(q, r, o)
BY Before DEF Gives

\* The same operation for each of some objects.
LEMMA GivesEach ==
  ASSUME NEW p, NEW name, NEW q, ToSet(p) = {Op(name, o) : o \in ToSet(q)}
  PROVE  \A r, o : Gives(p, r, o) <=> r = Role(name) /\ o \in ToSet(q)
<1>1. \A o : Op(name, o).op = name /\ Op(name, o).obj = o
  BY OpTypes
<1> SUFFICES ASSUME NEW r, NEW o
             PROVE  Gives(p, r, o) <=> r = Role(name) /\ o \in ToSet(q)
  OBVIOUS
<1>2. ASSUME Gives(p, r, o) PROVE r = Role(name) /\ o \in ToSet(q)
  <2>1. PICK x \in ToSet(p) : x.obj = o /\ Role(x.op) = r
    BY <1>2 DEF Gives
  <2>2. PICK k \in ToSet(q) : x = Op(name, k)
    BY <2>1
  <2> QED
    BY <1>1, <2>1, <2>2
<1>3. ASSUME r = Role(name), o \in ToSet(q) PROVE Gives(p, r, o)
  <2>1. Op(name, o) \in ToSet(p)
    BY <1>3
  <2> QED
    BY <1>1, <1>3, <2>1 DEF Gives
<1> QED
  BY <1>2, <1>3

\* TpReleaseWork and TpReleaseTimer begin.
LEMMA TpReleaseDoes ==
  ASSUME Types, TodoInv, NEW t \in Callers \union Workers, NEW o \in Objects, TpRelease(t, o)
  PROVE  /\ TodoInv'
         /\ \A u \in Threads : \A r, p :
              Does(u, r, p)' <=> \/ Does(u, r, p)
                                 \/ /\ u = t /\ p = o
                                    /\ r = "retire" \/ (r = "unset" /\ Kind(o) = "timer")
<1>1. /\ Op("unset", o) \in Ops /\ Op("retire", o) \in Ops
      /\ Op("unset", o).op = "unset" /\ Op("unset", o).obj = o
      /\ Op("retire", o).op = "retire" /\ Op("retire", o).obj = o
  BY OpTypes DEF ObjectNames
<1>2. t \in Threads /\ t # TimerThread /\ todo[t] = <<>>
  BY Constants DEF TpRelease, MayCall
<1>3. PICK a \in Seq(Ops) : a = PrepareShutdown(o)
  BY PrepareOps
<1>4. PICK b \in Seq(Ops) : b = <<Op("retire", o)>>
  BY <1>1, ToSetShort
<1>5. /\ Ordered(a) /\ Ordered(b)
      /\ ToSet(b) = {Op("retire", o)}
      /\ ToSet(a) = IF Kind(o) = "timer" THEN {Op("unset", o)} ELSE {}
  BY <1>1, <1>3, <1>4, OrderShort, ToSetShort, PrepareOps DEF PrepareShutdown
<1>6. Fits(Op("unset", o), Op("retire", o))
  BY <1>1, RoleNames DEF Fits, MayFollow
<1>7. PICK p \in Seq(Ops) : p = a \o b
  BY Before
<1>8. /\ Ordered(p) /\ ToSet(p) = ToSet(a) \union ToSet(b)
  BY <1>5, <1>6, <1>7, OrderConcat, Before
<1>9. \A x \in ToSet(p) : x.op \in {"unset", "retire"}
  BY <1>1, <1>5, <1>8
<1>10. \A r, q : Gives(p, r, q) <=> q = o /\ (r = "retire" \/ (r = "unset" /\ Kind(o) = "timer"))
  BY <1>1, <1>5, <1>8, RoleNames DEF Gives
<1>11. Then(t, p)
  BY <1>3, <1>4, <1>7 DEF TpRelease
<1>12. \A x \in ToSet(p) : /\ t = TimerThread => x.op \in {"submit", "rearm"}
                           /\ x.op = "rearm" => t = TimerThread
  BY <1>2, <1>9
<1>13. /\ TodoInv'
       /\ \A u \in Threads : \A r, q : Does(u, r, q)' <=> Does(u, r, q) \/ (u = t /\ Gives(p, r, q))
  BY <1>2, <1>8, <1>11, <1>12, Entered, Zenon
<1> QED
  BY <1>10, <1>13

\* TpSetTimer.
LEMMA TpSetTimerDoes ==
  ASSUME Types, TodoInv, NEW t \in Callers \union Workers, NEW o \in Objects,
         NEW when \in {"later", "now", "never"}, TpSetTimerEx(t, o, when)
  PROVE  /\ TodoInv'
         /\ \A u \in Threads : \A r, p :
              Does(u, r, p)' <=> Does(u, r, p) \/ (when = "now" /\ u = t /\ p = o /\ r = "submit")
<1>1. Op("submit", o) \in Ops /\ Op("submit", o).op = "submit" /\ Op("submit", o).obj = o
  BY OpTypes DEF ObjectNames
<1>2. t \in Threads /\ t # TimerThread /\ todo[t] = <<>>
  BY Constants DEF TpSetTimerEx, MayCall
<1>3. PICK p \in Seq(Ops) : p = IF when = "now" THEN <<Op("submit", o)>> ELSE << >>
  BY <1>1, ToSetShort, EmptySeq
<1>4. Ordered(p) /\ ToSet(p) = IF when = "now" THEN {Op("submit", o)} ELSE {}
  BY <1>1, <1>3, OrderShort, ToSetShort
<1>5. \A r, q : Gives(p, r, q) <=> when = "now" /\ q = o /\ r = "submit"
  BY <1>1, <1>4, RoleNames DEF Gives
<1>6. Then(t, p)
  BY <1>3 DEF TpSetTimerEx
<1>7. \A x \in ToSet(p) : /\ t = TimerThread => x.op \in {"submit", "rearm"}
                          /\ x.op = "rearm" => t = TimerThread
  BY <1>1, <1>2, <1>4
<1>8. /\ TodoInv'
      /\ \A u \in Threads : \A r, q : Does(u, r, q)' <=> Does(u, r, q) \/ (u = t /\ Gives(p, r, q))
  BY <1>2, <1>4, <1>6, <1>7, Entered, Zenon
<1> QED
  BY <1>5, <1>8

\* TpWaitForWork and TpWaitForTimer begin.
LEMMA TpWaitDoes ==
  ASSUME Types, TodoInv, NEW c \in Callers, NEW o \in Objects, NEW cancel \in BOOLEAN,
         TpWaitForObject(c, o, cancel)
  PROVE  /\ TodoInv'
         /\ \A u \in Threads : \A r, p :
              Does(u, r, p)' <=> \/ Does(u, r, p)
                                 \/ u = c /\ p = o /\ (r = "waits" \/ (r = "cancel" /\ cancel))
<1>1. /\ Op("cancel", o) \in Ops /\ Op("wait", o) \in Ops
      /\ Op("cancel", o).op = "cancel" /\ Op("cancel", o).obj = o
      /\ Op("wait", o).op = "wait" /\ Op("wait", o).obj = o
  BY OpTypes DEF ObjectNames
<1>2. c \in Threads /\ c # TimerThread /\ todo[c] = <<>>
  BY Constants DEF TpWaitForObject, MayCall
<1>3. PICK a \in Seq(Ops) : a = IF cancel THEN <<Op("cancel", o)>> ELSE << >>
  BY <1>1, ToSetShort, EmptySeq
<1>4. PICK b \in Seq(Ops) : b = <<Op("wait", o)>>
  BY <1>1, ToSetShort
<1>5. /\ Ordered(a) /\ Ordered(b) /\ ToSet(b) = {Op("wait", o)}
      /\ ToSet(a) = IF cancel THEN {Op("cancel", o)} ELSE {}
  BY <1>1, <1>3, <1>4, OrderShort, ToSetShort
<1>6. Fits(Op("cancel", o), Op("wait", o))
  BY <1>1, RoleNames DEF Fits, MayFollow
<1>7. PICK p \in Seq(Ops) : p = a \o b
  BY Before
<1>8. /\ Ordered(p) /\ ToSet(p) = ToSet(a) \union ToSet(b)
  BY <1>5, <1>6, <1>7, OrderConcat, Before
<1>10. \A r, q : Gives(p, r, q) <=> q = o /\ (r = "waits" \/ (r = "cancel" /\ cancel))
  BY <1>1, <1>5, <1>8, RoleNames DEF Gives
<1>11. Then(c, p)
  BY <1>3, <1>4, <1>7 DEF TpWaitForObject
<1>12. \A x \in ToSet(p) : /\ c = TimerThread => x.op \in {"submit", "rearm"}
                           /\ x.op = "rearm" => c = TimerThread
  BY <1>1, <1>2, <1>5, <1>8
<1>13. /\ TodoInv'
       /\ \A u \in Threads : \A r, q : Does(u, r, q)' <=> Does(u, r, q) \/ (u = c /\ Gives(p, r, q))
  BY <1>2, <1>8, <1>11, <1>12, Entered, Zenon
<1> QED
  BY <1>10, <1>13

\* An object is created.
LEMMA TpAllocDoes ==
  ASSUME Types, TodoInv, NEW c \in Callers, NEW o \in Objects, TpAlloc(c, o)
  PROVE  /\ TodoInv'
         /\ \A u \in Threads : \A r, p :
              Does(u, r, p)' <=>
                \/ Does(u, r, p)
                \/ /\ u = c /\ p = o
                   /\ \/ Kind(o) = "simple" /\ r \in {"submit", "release"}
                      \/ o \in GroupMembers /\ r = "join"
<1> DEFINE p == IF Kind(o) = "simple" THEN <<Op("submit", o)>> ELSE << >>
           q == IF o \in GroupMembers THEN <<Op("join", o)>> ELSE << >>
           s == IF Kind(o) = "simple" THEN <<Op("release", o)>> ELSE << >>
<1>1. /\ Op("submit", o) \in Ops /\ Op("join", o) \in Ops /\ Op("release", o) \in Ops
      /\ Op("submit", o).op = "submit" /\ Op("submit", o).obj = o
      /\ Op("join", o).op = "join" /\ Op("join", o).obj = o
      /\ Op("release", o).op = "release" /\ Op("release", o).obj = o
  BY OpTypes DEF ObjectNames
<1>2. p \in Seq(Ops) /\ q \in Seq(Ops) /\ s \in Seq(Ops)
  BY <1>1, ToSetShort, EmptySeq
<1>3. /\ Ordered(p) /\ Ordered(q) /\ Ordered(s)
      /\ ToSet(p) = IF Kind(o) = "simple" THEN {Op("submit", o)} ELSE {}
      /\ ToSet(q) = IF o \in GroupMembers THEN {Op("join", o)} ELSE {}
      /\ ToSet(s) = IF Kind(o) = "simple" THEN {Op("release", o)} ELSE {}
  BY <1>1, OrderShort, ToSetShort
<1>4. todo[c] = <<>> /\ c \in Threads /\ c # TimerThread
  BY Constants DEF TpAlloc
<1>5. Then(c, AllocOps(o)) /\ AllocOps(o) = p \o q \o s
  BY Zenon DEF TpAlloc, AllocOps
<1> HIDE DEF p, q, s
<1>6. /\ Fits(Op("submit", o), Op("join", o)) /\ Fits(Op("join", o), Op("release", o))
      /\ Fits(Op("submit", o), Op("release", o))
  BY <1>1, RoleNames DEF Fits, MayFollow
<1>7. p \o q \in Seq(Ops) /\ ToSet(p \o q) = ToSet(p) \union ToSet(q) /\ Ordered(p \o q)
  BY <1>2, <1>3, <1>6, Before, OrderConcat
<1>8. PICK a \in Seq(Ops) : a = p \o q
  BY <1>7
<1>9. PICK b \in Seq(Ops) : b = a \o s
  BY <1>2, <1>8, Before
<1>10. /\ ToSet(b) = ToSet(p) \union ToSet(q) \union ToSet(s) /\ Ordered(b)
  <2>1. \A x \in ToSet(a), y \in ToSet(s) : Fits(x, y)
    BY <1>3, <1>6, <1>7, <1>8
  <2> QED
    BY <1>2, <1>3, <1>7, <1>8, <1>9, <2>1, Before, OrderConcat
<1>11. Then(c, b)
  BY <1>5, <1>8, <1>9
<1>12. \A x \in ToSet(b) : /\ c = TimerThread => x.op \in {"submit", "rearm"}
                           /\ x.op = "rearm" => c = TimerThread
  BY <1>1, <1>3, <1>4, <1>10
<1>13. /\ TodoInv'
       /\ \A u \in Threads : \A r, k : Does(u, r, k)' <=> Does(u, r, k) \/ (u = c /\ Gives(b, r, k))
  BY <1>4, <1>10, <1>11, <1>12, Entered, Zenon
<1>14. \A r, k : Gives(b, r, k) <=> k = o /\ (\/ Kind(o) = "simple" /\ r \in {"submit", "release"}
                                              \/ o \in GroupMembers /\ r = "join")
  BY <1>1, <1>3, <1>10, RoleNames DEF Gives
<1> QED
  BY <1>13, <1>14

\* A timer expires.
LEMMA TimerExpiresDoes ==
  ASSUME Types, TodoInv, NEW o \in Objects, TimerExpires(o)
  PROVE  /\ TodoInv'
         /\ \A u \in Threads : \A r, p :
              Does(u, r, p)' <=> \/ Does(u, r, p)
                                 \/ u = TimerThread /\ p = o /\ r \in {"submit", "rearm"}
<1>1. /\ Op("submit", o) \in Ops /\ Op("rearm", o) \in Ops
      /\ Op("submit", o).op = "submit" /\ Op("submit", o).obj = o
      /\ Op("rearm", o).op = "rearm" /\ Op("rearm", o).obj = o
  BY OpTypes DEF ObjectNames
<1>2. TimerThread \in Threads /\ todo[TimerThread] = <<>>
  BY Constants DEF TimerExpires
<1>3. Fits(Op("submit", o), Op("rearm", o))
  BY <1>1, RoleNames DEF Fits, MayFollow
<1>4. PICK p \in Seq(Ops) : p = <<Op("submit", o), Op("rearm", o)>>
  BY <1>1, ToSetShort
<1>5. Ordered(p) /\ ToSet(p) = {Op("submit", o), Op("rearm", o)} /\ Then(TimerThread, p)
  BY <1>1, <1>3, <1>4, OrderShort, ToSetShort DEF TimerExpires
<1>6. \A r, q : Gives(p, r, q) <=> q = o /\ r \in {"submit", "rearm"}
  BY <1>1, <1>5, RoleNames DEF Gives
<1>7. \A x \in ToSet(p) : x.op \in {"submit", "rearm"}
  BY <1>1, <1>5
<1>8. \A x \in ToSet(p) : /\ TimerThread = TimerThread => x.op \in {"submit", "rearm"}
                          /\ x.op = "rearm" => TimerThread = TimerThread
  BY <1>7
<1>9. /\ TodoInv'
      /\ \A u \in Threads : \A r, q :
           Does(u, r, q)' <=> Does(u, r, q) \/ (u = TimerThread /\ Gives(p, r, q))
  BY <1>2, <1>5, <1>8, Entered, Zenon
<1> QED
  BY <1>6, <1>9

\* TpReleaseCleanupGroupMembers begins.
LEMMA CloseGroupDoes ==
  ASSUME Types, TodoInv, Distinct(group.members), NEW c \in Callers, NEW cancel \in BOOLEAN,
         TpReleaseCleanupGroupMembers(c, cancel)
  PROVE  /\ TodoInv'
         /\ \A u \in Threads : \A r, p :
              Does(u, r, p)' <=> \/ Does(u, r, p)
                                 \/ u = c /\ ((r = "gather" /\ In(p)) \/ (r = "leave" /\ p = NoObject))
<1>1. PICK x : x = Op(IF cancel THEN "leavegroup_cancel" ELSE "leavegroup", NoObject)
  OBVIOUS
<1>2. x \in Ops /\ x.obj = NoObject /\ Role(x.op) = "leave" /\ x.op # "rearm"
  BY <1>1, OpTypes, RoleNames DEF LeaveNames
<1>3. c \in Threads /\ c # TimerThread /\ todo[c] = <<>>
  BY Constants DEF TpReleaseCleanupGroupMembers
<1>4. PICK m \in Seq(Objects) : m = group.members
  BY DEF Types, GroupTypes
<1>5. PICK a : a = [i \in DOMAIN m |-> Op("gather", m[i])]
  OBVIOUS
<1>6. /\ a \in Seq(Ops) /\ Ordered(a) /\ ToSet(a) = {Op("gather", o) : o \in ToSet(m)}
  BY <1>4, <1>5, EachOps, OrderEach DEF ObjectNames
<1>7. \A o : Op("gather", o).op = "gather" /\ Op("gather", o).obj = o
  BY OpTypes
<1>8. PICK b \in Seq(Ops) : b = <<x>>
  BY <1>2, ToSetShort
<1>9. Ordered(b) /\ ToSet(b) = {x}
  BY <1>2, <1>8, OrderShort, ToSetShort
<1>10. \A y \in ToSet(a), z \in ToSet(b) : Fits(y, z)
  BY <1>2, <1>6, <1>7, <1>9, RoleNames DEF Fits, MayFollow
<1>11. PICK p \in Seq(Ops) : p = a \o b
  BY <1>6, Before
<1>12. Ordered(p) /\ ToSet(p) = ToSet(a) \union ToSet(b)
  BY <1>6, <1>9, <1>10, <1>11, OrderConcat, Before
<1>13. Then(c, p)
  <2>1. Append(a, x) = a \o <<x>>
    BY <1>2, <1>6, AppendIsConcat
  <2> QED
    BY <1>1, <1>4, <1>5, <1>8, <1>11, <2>1 DEF TpReleaseCleanupGroupMembers
<1>14. \A y \in ToSet(p) : /\ c = TimerThread => y.op \in {"submit", "rearm"}
                           /\ y.op = "rearm" => c = TimerThread
  BY <1>2, <1>3, <1>6, <1>7, <1>9, <1>12
<1>15. /\ TodoInv'
       /\ \A u \in Threads : \A r, q : Does(u, r, q)' <=> Does(u, r, q) \/ (u = c /\ Gives(p, r, q))
  BY <1>3, <1>12, <1>13, <1>14, Entered, Zenon
<1>16. \A r, q : Gives(p, r, q) <=> (r = "gather" /\ In(q)) \/ (r = "leave" /\ q = NoObject)
  <2>1. \A r, q : Gives(a, r, q) <=> r = "gather" /\ In(q)
    <3>1. \A r, q : Gives(a, r, q) <=> r = Role("gather") /\ q \in ToSet(m)
      BY <1>6, GivesEach, Zenon
    <3> QED
      BY <1>4, <3>1, RoleNames DEF In
  <2>2. \A r, q : Gives(b, r, q) <=> r = "leave" /\ q = NoObject
    BY <1>2, <1>8, GivesShort
  <2> QED
    BY <1>6, <1>11, <2>1, <2>2, GivesConcat
<1> QED
  BY <1>15, <1>16

\* A member is gathered.
LEMMA DoGatherDoes ==
  ASSUME Types, TodoInv, NEW t \in Threads, DoGather(t)
  PROVE  /\ TodoInv'
         /\ \A u \in Threads : \A r, p :
              Does(u, r, p)' <=>
                \/ Does(u, r, p) /\ ~(u = t /\ r = "gather" /\ p = Obj(t))
                \/ /\ u = t /\ r = "unset" /\ p = Obj(t)
                   /\ refcount[Obj(t)] # 0 /\ Kind(Obj(t)) = "timer"
<1>0. At(t, "gather") /\ "gather" \in ObjectNames /\ Role("gather") = "gather"
  BY RoleNames DEF DoGather, ObjectNames
<1>1. CASE refcount[Obj(t)] = 0
  <2>1. Continue(t)
    BY <1>1 DEF DoGather
  <2> QED
    BY <1>0, <1>1, <2>1, ContinueDoes
<1>2. CASE refcount[Obj(t)] # 0
  <2>1. PICK o \in Objects : o = Obj(t)
    BY <1>0, HeadDoes
  <2>2. PICK p \in Seq(Ops) : p = PrepareShutdown(o)
    BY PrepareOps
  <2>3. /\ Op("unset", o) \in Ops /\ Op("unset", o).op = "unset" /\ Op("unset", o).obj = o
    BY OpTypes DEF ObjectNames
  <2>4. Ordered(p) /\ ToSet(p) = IF Kind(o) = "timer" THEN {Op("unset", o)} ELSE {}
    BY <2>2, <2>3, OrderShort, PrepareOps DEF PrepareShutdown
  <2>5. /\ \A y \in ToSet(Tail(todo[t])) : MayFollow(Role("gather"), Role(y.op))
        /\ Role(Head(todo[t]).op) = "gather" /\ Head(todo[t]).obj = o /\ todo[t] # <<>>
    BY <1>0, <2>1, HeadDoes
  <2>6. \A x \in ToSet(p), y \in ToSet(Tail(todo[t])) : Fits(x, y)
    BY <1>0, <2>3, <2>4, <2>5, RoleNames DEF Fits, MayFollow
  <2>7. t # TimerThread
    <3>1. Head(todo[t]) \in Todo(t) /\ Head(todo[t]).op = "gather"
      BY <1>0, Heads, OpTypes DEF Types, ObjectTypes
    <3> QED
      BY <3>1 DEF TodoInv
  <2>8. todo' = [todo EXCEPT ![t] = p \o Tail(todo[t])]
    BY <1>2, <2>1, <2>2 DEF DoGather, Then
  <2>9. \A x \in ToSet(p) : t # TimerThread /\ x.op # "rearm"
    BY <2>3, <2>4, <2>7
  <2>10. TodoInv' /\ Replaces(t, p)
    BY <2>4, <2>5, <2>6, <2>8, <2>9, Replaced, Zenon
  <2>11. \A r, q : Gives(p, r, q) <=> r = "unset" /\ q = o /\ Kind(o) = "timer"
    BY <2>3, <2>4, RoleNames DEF Gives
  <2> QED
    BY <1>2, <2>1, <2>5, <2>10, <2>11 DEF Replaces
<1> QED
  BY <1>1, <1>2

\* The group is left: it is the last operation of the thread.
LEMMA DoLeaveGroupDoes ==
  ASSUME Types, TodoInv, Distinct(group.members), NEW t \in Threads, DoLeaveGroup(t)
  PROVE  /\ TodoInv' /\ t # TimerThread
         /\ \A r, p : Does(t, r, p) <=> r = "leave" /\ p = NoObject
         /\ \A u \in Threads : \A r, p :
              Does(u, r, p)' <=> \/ u # t /\ Does(u, r, p)
                                 \/ u = t /\ In(p) /\ (r = "ref" \/ (r = "cancel" /\ At(t, "leavegroup_cancel")))
<1>1. todo[t] \in Seq(Ops) /\ Ordered(todo[t]) /\ todo[t] # <<>> /\ Head(todo[t]).op \in LeaveNames
  BY DEF Types, ObjectTypes, TodoInv, DoLeaveGroup, At, LeaveNames
<1>2. /\ Head(todo[t]) \in Ops /\ Tail(todo[t]) \in Seq(Ops)
      /\ Todo(t) = {Head(todo[t])} \union ToSet(Tail(todo[t]))
  BY <1>1, ToSetTail DEF Todo
<1>3. Head(todo[t]).obj = NoObject /\ Role(Head(todo[t]).op) = "leave"
  BY <1>1, <1>2, OpTypes, RoleNames DEF LeaveNames
<1>4. \A y \in ToSet(Tail(todo[t])) : Fits(Head(todo[t]), y)
  BY <1>1, OrderTail
<1>5. ToSet(Tail(todo[t])) = {}
  BY <1>3, <1>4 DEF Fits, MayFollow
<1>6. \A r, p : Does(t, r, p) <=> r = "leave" /\ p = NoObject
  BY <1>2, <1>3, <1>5 DEF Does
<1>7. t # TimerThread
  BY <1>1, <1>2 DEF TodoInv, LeaveNames
<1>8. PICK m \in Seq(Objects) : m = group.members
  BY DEF Types, GroupTypes
<1>9. PICK cancels : cancels = [i \in DOMAIN m |-> Op("cancel", m[i])]
  OBVIOUS
<1>10. PICK waits : waits = [i \in DOMAIN m |-> Op("group_wait", m[i])]
  OBVIOUS
<1>11. /\ cancels \in Seq(Ops) /\ Ordered(cancels) /\ ToSet(cancels) = {Op("cancel", o) : o \in ToSet(m)}
       /\ waits \in Seq(Ops) /\ Ordered(waits) /\ ToSet(waits) = {Op("group_wait", o) : o \in ToSet(m)}
  BY <1>8, <1>9, <1>10, EachOps, OrderEach DEF ObjectNames
<1>12. \A o : /\ Op("cancel", o).op = "cancel" /\ Op("cancel", o).obj = o
              /\ Op("group_wait", o).op = "group_wait" /\ Op("group_wait", o).obj = o
  BY OpTypes
<1>13. PICK a \in Seq(Ops) : a = IF At(t, "leavegroup_cancel") THEN cancels ELSE << >>
  BY <1>11, EmptySeq
<1>14. /\ Ordered(a)
       /\ ToSet(a) = IF At(t, "leavegroup_cancel") THEN {Op("cancel", o) : o \in ToSet(m)} ELSE {}
  BY <1>2, <1>11, <1>13, OrderShort, ToSetShort
<1>15. \A y \in ToSet(a), z \in ToSet(waits) : Fits(y, z)
  BY <1>11, <1>12, <1>14, RoleNames DEF Fits, MayFollow
<1>16. PICK p \in Seq(Ops) : p = a \o waits
  BY <1>11, Before
<1>17. Ordered(p) /\ ToSet(p) = ToSet(a) \union ToSet(waits)
  BY <1>11, <1>14, <1>15, <1>16, OrderConcat, Before
<1>18. todo' = [todo EXCEPT ![t] = p]
  BY <1>8, <1>9, <1>10, <1>13, <1>16 DEF DoLeaveGroup, Then
<1>19. p \o Tail(todo[t]) = p
  <2>1. PICK rest \in Seq(Ops) : rest = Tail(todo[t])
    BY <1>2
  <2>2. ToSet(rest) = {rest[i] : i \in 1..Len(rest)} /\ Len(rest) \in Nat
    BY ToSetMembers, LenProperties
  <2>3. Len(rest) = 0
    <3> SUFFICES ASSUME Len(rest) # 0 PROVE FALSE
      OBVIOUS
    <3>1. 1 \in 1..Len(rest)
      BY <2>2
    <3>2. rest[1] \in ToSet(rest)
      BY <2>2, <3>1
    <3> QED
      BY <1>5, <2>1, <3>2
  <2>4. rest = << >>
    BY <2>3, EmptySeq
  <2> QED
    BY <2>1, <2>4, ConcatEmptySeq
<1>20. todo' = [todo EXCEPT ![t] = p \o Tail(todo[t])]
  BY <1>18, <1>19
<1>21. /\ \A x \in ToSet(p), y \in ToSet(Tail(todo[t])) : Fits(x, y)
       /\ \A x \in ToSet(p) : t # TimerThread /\ x.op # "rearm"
  BY <1>5, <1>7, <1>11, <1>12, <1>14, <1>17
<1>22. TodoInv' /\ Replaces(t, p)
  BY <1>1, <1>17, <1>20, <1>21, Replaced, Zenon
<1>23. \A r, q : Gives(p, r, q) <=> In(q) /\ (r = "ref" \/ (r = "cancel" /\ At(t, "leavegroup_cancel")))
  <2>1. \A r, q : Gives(waits, r, q) <=> r = "ref" /\ In(q)
    <3>1. \A r, q : Gives(waits, r, q) <=> r = Role("group_wait") /\ q \in ToSet(m)
      BY <1>11, GivesEach, Zenon
    <3> QED
      BY <1>8, <3>1, RoleNames DEF In
  <2>2. CASE At(t, "leavegroup_cancel")
    <3>1. \A r, q : Gives(a, r, q) <=> r = "cancel" /\ In(q)
      <4>1. \A r, q : Gives(a, r, q) <=> r = Role("cancel") /\ q \in ToSet(m)
        BY <1>14, <2>2, GivesEach, Zenon
      <4> QED
        BY <1>8, <4>1, RoleNames DEF In
    <3> QED
      BY <1>11, <1>16, <2>1, <2>2, <3>1, GivesConcat
  <2>3. CASE ~At(t, "leavegroup_cancel")
    <3>1. \A r, q : ~Gives(a, r, q)
      BY <1>14, <2>3 DEF Gives
    <3> QED
      BY <1>11, <1>16, <2>1, <2>3, <3>1, GivesConcat
  <2> QED
    BY <2>2, <2>3
<1> QED
  BY <1>3, <1>6, <1>7, <1>22, <1>23 DEF Replaces

\* The operation a thread does next becomes another one of the same role.
LEMMA Renamed ==
  ASSUME Types, TodoInv, NEW t \in Threads, NEW name \in ObjectNames, At(t, name),
         NEW next \in ObjectNames \ {"rearm"}, Role(next) = Role(name), t # TimerThread,
         Then(t, <<Op(next, Obj(t))>> \o Tail(todo[t]))
  PROVE  /\ TodoInv'
         /\ \A u \in Threads : \A r, p : Does(u, r, p)' <=> Does(u, r, p)
<1>1. PICK o \in Objects : o = Obj(t)
  BY HeadDoes
<1>2. /\ todo[t] # <<>> /\ Does(t, Role(name), o)
      /\ Role(Head(todo[t]).op) = Role(name) /\ Head(todo[t]).obj = o
  BY <1>1, HeadDoes
<1>3. Op(next, o) \in Ops /\ Op(next, o).op = next /\ Op(next, o).obj = o
  BY OpTypes
<1>4. PICK p \in Seq(Ops) : p = <<Op(next, o)>>
  BY <1>3, ToSetShort
<1>5. ToSet(p) = {Op(next, o)} /\ Ordered(p)
  BY <1>3, <1>4, ToSetShort, OrderShort
<1>6. todo[t] \in Seq(Ops) /\ Ordered(todo[t])
  BY DEF Types, ObjectTypes, TodoInv
<1>7. \A y \in ToSet(Tail(todo[t])) : Fits(Head(todo[t]), y)
  BY <1>2, <1>6, OrderTail
<1>8. \A x \in ToSet(p), y \in ToSet(Tail(todo[t])) : Fits(x, y)
  BY <1>2, <1>3, <1>5, <1>7 DEF Fits
<1>9. \A x \in ToSet(p) : t # TimerThread /\ x.op # "rearm"
  BY <1>3, <1>5
<1>10. todo' = [todo EXCEPT ![t] = p \o Tail(todo[t])]
  BY <1>1, <1>4 DEF Then
<1>11. TodoInv' /\ Replaces(t, p)
  BY <1>2, <1>5, <1>8, <1>9, <1>10, Replaced, Zenon
<1>12. \A r, q : Gives(p, r, q) <=> r = Role(name) /\ q = o
  BY <1>3, <1>5 DEF Gives
<1> QED
  BY <1>2, <1>11, <1>12 DEF Replaces

\* Only the timer thread has timer operations, and nothing else.
LEMMA TimerOnly ==
  ASSUME Types, TodoInv, NEW t \in Threads, NEW r, NEW o, Does(t, r, o)
  PROVE  /\ t = TimerThread => r \in {"submit", "rearm"}
         /\ r = "rearm" => t = TimerThread
         /\ r \in Roles
         /\ r = "leave" => o = NoObject
         /\ r # "leave" => o \in Objects
<1>1. PICK x \in Todo(t) : x.obj = o /\ Role(x.op) = r
  BY DEF Does
<1>2. x \in Ops
  <2>1. PICK q \in Seq(Ops) : q = todo[t]
    BY DEF Types, ObjectTypes
  <2>2. ToSet(q) \subseteq Ops
    BY ToSetMembers
  <2> QED
    BY <1>1, <2>1, <2>2 DEF Todo
<1>3. x.op \in ObjectNames \union LeaveNames
  BY <1>2, OpTypes
<1>4. Role(x.op) = "rearm" => x.op = "rearm"
  BY DEF Role
<1>5. Role(x.op) = "leave" => x.op \in LeaveNames
  BY <1>3, RoleNames DEF ObjectNames, LeaveNames
<1>6. t = TimerThread => x.op \in {"submit", "rearm"}
  BY <1>1 DEF TodoInv
<1>7. x.op = "rearm" => t = TimerThread
  BY <1>1 DEF TodoInv
<1>8. r \in Roles
  BY <1>1, <1>3, RoleNames
<1>9. t = TimerThread => r \in {"submit", "rearm"}
  BY <1>1, <1>6, RoleNames
<1>10. r = "leave" => o = NoObject
  BY <1>1, <1>2, <1>5, OpTypes
<1>11. r # "leave" => o \in Objects
  BY <1>1, <1>2, <1>3, OpTypes, RoleNames DEF LeaveNames
<1> QED
  BY <1>1, <1>4, <1>7, <1>8, <1>9, <1>10, <1>11

\* A look at the counts: the wait goes on in its role, or it ends.
LEMMA DoWaitDoes ==
  ASSUME Types, TodoInv, NEW t \in Threads, DoWait(t)
  PROVE  /\ TodoInv' /\ t # TimerThread
         /\ \/ \A u \in Threads : \A r, p : Does(u, r, p)' <=> Does(u, r, p)
            \/ /\ At(t, "wait") /\ Finished(Obj(t), pending, associated)
               /\ \A u \in Threads : \A r, p :
                    Does(u, r, p)' <=> Does(u, r, p) /\ ~(u = t /\ r = "waits" /\ p = Obj(t))
<1>1. /\ \A name \in {"wait", "asleep", "group_wait", "group_asleep", "finish"} :
           name \in ObjectNames \ {"rearm"}
      /\ Role("wait") = "waits" /\ Role("asleep") = "waits" /\ Role("group_wait") = "ref"
      /\ Role("group_asleep") = "ref" /\ Role("finish") = "ref"
  BY RoleNames DEF ObjectNames
<1>2. CASE At(t, "wait")
  <2>1. Does(t, "waits", Obj(t))
    BY <1>1, <1>2, HeadDoes
  <2>2. t # TimerThread
    BY <2>1, TimerOnly
  <2>3. CASE Finished(Obj(t), pending, associated)
    <3>1. Continue(t)
      BY <1>2, <2>3 DEF DoWait, At
    <3> QED
      BY <1>1, <1>2, <2>2, <2>3, <3>1, ContinueDoes
  <2>4. CASE ~Finished(Obj(t), pending, associated)
    <3>1. Then(t, <<Op("asleep", Obj(t))>> \o Tail(todo[t]))
      BY <1>2, <2>4 DEF DoWait, At
    <3> QED
      BY <1>1, <1>2, <2>2, <3>1, Renamed
  <2> QED
    BY <2>3, <2>4
<1>3. CASE At(t, "group_wait")
  <2>1. Does(t, "ref", Obj(t))
    BY <1>1, <1>3, HeadDoes
  <2>2. t # TimerThread
    BY <2>1, TimerOnly
  <2>3. PICK name \in {"finish", "group_asleep"} : Then(t, <<Op(name, Obj(t))>> \o Tail(todo[t]))
    BY <1>3 DEF DoWait, At
  <2> QED
    BY <1>1, <1>3, <2>2, <2>3, Renamed
<1> QED
  BY <1>2, <1>3 DEF DoWait

\* The todos td are as TodoInv wants them, and have the roles of todo.
Likewise(td) ==
  /\ td \in [Threads -> Seq(Ops)]
  /\ \A t \in Threads :
       /\ Ordered(td[t])
       /\ \A x \in ToSet(td[t]) : /\ t = TimerThread => x.op \in {"submit", "rearm"}
                                  /\ x.op = "rearm" => t = TimerThread
       /\ \A r, p : Gives(td[t], r, p) <=> Does(t, r, p)
       /\ td[t] = <<>> <=> todo[t] = <<>>

\* Waking who sleeps keeps them so.
LEMMA WokenLikewise ==
  ASSUME NEW td, Likewise(td), NEW o \in Objects,
         NEW name \in {"asleep", "group_asleep"}, NEW cond, NEW td2, td2 = WokenIf(cond, td, o, name)
  PROVE  Likewise(td2)
<1>1. td \in [Threads -> Seq(Ops)] /\ td2 \in [Threads -> Seq(Ops)]
  BY WokenTypes DEF Likewise
<1>2. ASSUME NEW t \in Threads
      PROVE  /\ Ordered(td2[t])
             /\ \A x \in ToSet(td2[t]) : /\ t = TimerThread => x.op \in {"submit", "rearm"}
                                         /\ x.op = "rearm" => t = TimerThread
             /\ \A r, p : Gives(td2[t], r, p) <=> Does(t, r, p)
             /\ td2[t] = <<>> <=> todo[t] = <<>>
  <2>1. /\ Ordered(td[t])
        /\ \A x \in ToSet(td[t]) : /\ t = TimerThread => x.op \in {"submit", "rearm"}
                                   /\ x.op = "rearm" => t = TimerThread
        /\ \A r, p : Gives(td[t], r, p) <=> Does(t, r, p)
        /\ td[t] = <<>> <=> todo[t] = <<>>
    BY DEF Likewise
  <2>a. Ordered(td[t])
    BY <2>1
  <2>2. LooksAgain(td[t], td2[t], Op(name, o))
    BY <1>1, <2>a, WokenRoles, Zenon
  <2>3. ASSUME NEW x \in ToSet(td2[t])
        PROVE  /\ t = TimerThread => x.op \in {"submit", "rearm"}
               /\ x.op = "rearm" => t = TimerThread
    <3>1. CASE x \in ToSet(td[t])
      BY <2>1, <3>1
    <3>2. CASE x.op \in {"wait", "group_wait"}
      <4>1. Gives(td2[t], Role(x.op), x.obj) /\ Role(x.op) \in {"waits", "ref"}
        BY <3>2, RoleNames DEF Gives
      <4>2. PICK y \in ToSet(td[t]) : Role(y.op) \in {"waits", "ref"}
        BY <2>2, <4>1 DEF LooksAgain, Gives
      <4>3. y.op \notin {"submit", "rearm"}
        BY <4>2, RoleNames
      <4> QED
        BY <2>1, <3>2, <4>3
    <3> QED
      BY <2>2, <3>1, <3>2 DEF LooksAgain
  <2> QED
    BY <2>1, <2>2, <2>3 DEF LooksAgain
<1> QED
  BY <1>1, <1>2, Zenon DEF Likewise

\* todo itself is so.
LEMMA TodoLikewise ==
  ASSUME Types, TodoInv
  PROVE  Likewise(todo)
<1>1. todo \in [Threads -> Seq(Ops)]
  BY DEF Types, ObjectTypes
<1> QED
  BY <1>1, Zenon DEF Likewise, TodoInv, Todo, Does, Gives

\* TpDisassociateCallback changes no roles.
LEMMA DisassociateDoes ==
  ASSUME Types, WorkerInv, TodoInv, NEW w \in Workers, TpDisassociateCallback(w)
  PROVE  /\ TodoInv' /\ wobj[w] \in Objects
         /\ \A u \in Threads : \A r, p : Does(u, r, p)' <=> Does(u, r, p)
<1>1. wobj[w] \in Objects
  BY DEF WorkerInv, TpDisassociateCallback
<1>2. PICK cond : todo' = WokenIf(cond, todo, wobj[w], "asleep")
  BY DEF TpDisassociateCallback
<1>3. Likewise(todo')
  BY <1>1, <1>2, TodoLikewise, WokenLikewise
<1> QED
  BY <1>1, <1>3 DEF Likewise, TodoInv, Todo, Does, Gives

\* The end of a callback may be the last of the object.
LEMMA ReturnsDoes ==
  ASSUME Types, WorkerInv, TodoInv, NEW w \in Workers, CallbackReturns(w)
  PROVE  /\ TodoInv' /\ wobj[w] \in Objects
         /\ \A u \in Threads : \A r, p :
              Does(u, r, p)' <=>
                \/ Does(u, r, p)
                \/ /\ refcount[wobj[w]] = 1 /\ u = w /\ p = wobj[w]
                   /\ r = "unlock" \/ (r = "ungroup" /\ wobj[w] \in GroupMembers)
<1>1. wobj[w] \in Objects /\ todo[w] = <<>> /\ w \in Threads /\ w # TimerThread
  BY Constants DEF WorkerInv, CallbackReturns
<1>2. PICK o \in Objects : o = wobj[w]
  BY <1>1
<1>3. PICK p \in Seq(Ops) : p = IF refcount[o] = 1 THEN Destroy(o) ELSE << >>
  BY DestroyOps, EmptySeq
<1>4. PICK c1, c2, td1, td2 :
         /\ td1 = WokenIf(c1, todo, o, "group_asleep") /\ td2 = WokenIf(c2, td1, o, "asleep")
         /\ todo' = [td2 EXCEPT ![w] = p]
  BY <1>2, <1>3 DEF CallbackReturns
<1>5. Likewise(td1)
  BY <1>4, TodoLikewise, WokenLikewise
<1>6. Likewise(td2)
  BY <1>4, <1>5, WokenLikewise
<1>7. td2 \in [Threads -> Seq(Ops)]
  BY <1>6 DEF Likewise
<1>8. todo'[w] = p /\ \A u \in Threads : u # w => todo'[u] = td2[u]
  BY <1>1, <1>4, <1>7
<1>9. /\ Op("ungroup", o) \in Ops /\ Op("unlock", o) \in Ops
      /\ Op("ungroup", o).op = "ungroup" /\ Op("ungroup", o).obj = o
      /\ Op("unlock", o).op = "unlock" /\ Op("unlock", o).obj = o
  BY OpTypes DEF ObjectNames
<1>10. /\ ToSet(p) = IF refcount[o] = 1 THEN {Op("unlock", o)} \union (IF o \in GroupMembers
                                                         THEN {Op("ungroup", o)} ELSE {})
                     ELSE {}
  BY <1>3, DestroyOps, ToSetShort, EmptySeq
<1>11. Ordered(p)
  <2>1. Fits(Op("ungroup", o), Op("unlock", o))
    BY <1>9, RoleNames DEF Fits, MayFollow
  <2>2. Ordered(<< >>) /\ Ordered(<<Op("unlock", o)>>) /\ Ordered(<<Op("ungroup", o), Op("unlock", o)>>)
    BY <1>9, <2>1, OrderShort
  <2> QED
    BY <1>3, <2>2 DEF Destroy
<1>12. \A r, q : Gives(p, r, q) <=> /\ refcount[o] = 1 /\ q = o
                                    /\ r = "unlock" \/ (r = "ungroup" /\ o \in GroupMembers)
  BY <1>9, <1>10, RoleNames DEF Gives
<1>13. \A x \in ToSet(p) : x.op \in {"ungroup", "unlock"}
  BY <1>9, <1>10
<1>14. TodoInv'
  <2> SUFFICES ASSUME NEW u \in Threads
               PROVE  /\ Ordered(todo'[u])
                      /\ \A x \in Todo(u)' : /\ u = TimerThread => x.op \in {"submit", "rearm"}
                                             /\ x.op = "rearm" => u = TimerThread
    BY DEF TodoInv
  <2>1. CASE u = w
    BY <1>1, <1>8, <1>11, <1>13, <2>1 DEF Todo
  <2>2. CASE u # w
    BY <1>6, <1>8, <2>2 DEF Todo, Likewise
  <2> QED
    BY <2>1, <2>2
<1>15. ~\E r, q : Does(w, r, q)
  <2>1. ToSet(<< >>) = {}
    BY DEF ToSet
  <2> QED
    BY <1>1, <2>1 DEF Does, Todo
<1>16. ASSUME NEW u \in Threads, NEW r, NEW q
       PROVE  Does(u, r, q)' <=> IF u = w THEN Gives(p, r, q) ELSE Does(u, r, q)
  <2>1. Does(u, r, q)' <=> Gives(todo'[u], r, q)
    BY DEF Does, Todo, Gives
  <2>2. u # w => (Gives(td2[u], r, q) <=> Does(u, r, q))
    BY <1>6 DEF Likewise
  <2> QED
    BY <1>8, <2>1, <2>2
<1> QED
  BY <1>1, <1>2, <1>12, <1>14, <1>15, <1>16

-----------------------------------------------------------------------------
(* An object, and the steps that change it.                                 *)

\* What the invariants of all objects depend on.
Still ==
  program' = program /\ owner'["group"] = owner["group"] /\ closing' = closing

\* What the invariant of an object depends on.
Same(p) ==
  /\ life'[p] = life[p] /\ refcount'[p] = refcount[p] /\ pending'[p] = pending[p]
  /\ running'[p] = running[p] /\ shutdown'[p] = shutdown[p] /\ member'[p] = member[p]
  /\ appref'[p] = appref[p]
  /\ In(p)' <=> In(p)
  /\ p \in timers' <=> p \in timers
  /\ \A t \in Threads : \A r : Does(t, r, p)' <=> Does(t, r, p)

\* An object that a step leaves alone keeps its invariant.
LEMMA SameObject ==
  ASSUME RunningInv, RunningInv', Still, NEW p \in Objects, Same(p), ObjectInv(p)
  PROVE  ObjectInv(p)'
<1>1. Kind(p)' = Kind(p) /\ GroupMembers' = GroupMembers
  BY DEF Still, Kind, GroupMembers
<1>2. Executing(p)' = Executing(p)
  BY DEF RunningInv, Same
<1>3. \A r : Some(r, p)' <=> Some(r, p)
  BY DEF Same, Some
<1>4. Gathered(p)' <=> Gathered(p)
  BY DEF Same, Gathered, In
<1>5. Closed(p)' <=> Closed(p)
  BY <1>3, <1>4 DEF Closed
<1>6. Ending(p)' <=> Ending(p)
  BY <1>3, <1>5 DEF Ending
<1>7. GroupInv(p)'
  BY <1>1, <1>3, <1>4 DEF Same, Still, GroupInv, ObjectInv
<1>8. UniqueInv(p)'
  BY DEF Same, UniqueInv, ObjectInv
<1>9. References(p)' = References(p)
  <2>1. /\ One(appref[p])' = One(appref[p]) /\ One(Closed(p))' = One(Closed(p))
        /\ One(Some("release", p))' = One(Some("release", p))
    BY <1>3, <1>5 DEF Same, One
  <2> QED
    BY <1>2, <2>1 DEF Same, References
<1>10. AliveInv(p)'
  BY <1>1, <1>2, <1>3, <1>5, <1>9 DEF Same, AliveInv, ObjectInv
<1>11. GoneInv(p)'
  BY <1>2, <1>3 DEF Same, GoneInv, ObjectInv
<1>12. SimpleInv(p)' /\ CallInv(p)'
  BY <1>1, <1>2, <1>5, <1>6 DEF Same, SimpleInv, CallInv, UseInv, ObjectInv
<1>13. RetireInv(p)'
  BY <1>4, <1>5, Constants DEF Same, Still, RetireInv, UseInv, ObjectInv
<1>14. TimerInv(p)'
  BY <1>1, <1>3, <1>4, Constants DEF Same, TimerInv, UseInv, ObjectInv
<1> QED
  BY <1>7, <1>8, <1>10, <1>11, <1>12, <1>13, <1>14 DEF UseInv, ObjectInv

Base == CoreInv /\ TodoInv /\ LockInv /\ AllObjects

\* Types of what an object has, and what is known of it.
LEMMA ObjectFacts ==
  ASSUME Base, NEW o \in Objects
  PROVE  /\ Types /\ TodoInv /\ LockInv /\ ObjectInv(o)
         /\ refcount[o] \in Int /\ pending[o] \in Nat /\ running[o] \in Nat
         /\ Executing(o) = running[o]
         /\ member[o] \in BOOLEAN /\ appref[o] \in BOOLEAN /\ shutdown[o] \in BOOLEAN
         /\ closing \in BOOLEAN /\ life[o] \in {"none", "alive", "freed"}
<1>1. Types /\ TodoInv /\ LockInv /\ ObjectInv(o) /\ RunningInv /\ QueueInv
  BY DEF Base, CoreInv, CountInv, AllObjects
<1>2. Executing(o) = running[o]
  BY <1>1 DEF RunningInv
<1>3. Executing(o) \in Nat
  <2>1. IsFiniteSet({w \in Workers : wobj[w] = o})
    BY Constants, FS_Subset
  <2> QED
    BY <2>1, FS_CardinalityType DEF Executing
<1>4. pending[o] >= 0
  BY <1>1 DEF QueueInv
<1>5. /\ refcount[o] \in Int /\ pending[o] \in Int
      /\ member[o] \in BOOLEAN /\ appref[o] \in BOOLEAN /\ shutdown[o] \in BOOLEAN
      /\ closing \in BOOLEAN /\ life[o] \in {"none", "alive", "freed"}
  BY <1>1 DEF Types, ObjectTypes
<1> QED
  BY <1>1, <1>2, <1>3, <1>4, <1>5

\* Only objects that are alive have operations that are still to be done.
LEMMA UsedIsAlive ==
  ASSUME Base, NEW o \in Objects, NEW t \in Threads, NEW r, Does(t, r, o)
  PROVE  life[o] = "alive"
<1>1. Types /\ TodoInv /\ ObjectInv(o)
  BY ObjectFacts
<1>2. r \in Roles
  BY <1>1, TimerOnly
<1> QED
  BY <1>1, <1>2 DEF ObjectInv, GoneInv, Some

\* The number of references, as a sum of what is counted.
LEMMA ReferenceSum ==
  ASSUME Base, NEW o \in Objects, life[o] = "alive"
  PROVE  /\ refcount[o] = One(appref[o]) + pending[o] + running[o]
                          + One(Some("release", o)) + One(Closed(o))
         /\ refcount[o] \in Nat
         /\ refcount[o] = 0 => /\ ~appref[o] /\ pending[o] = 0 /\ running[o] = 0
                               /\ ~Some("release", o) /\ ~Closed(o)
<1>1. refcount[o] = References(o) /\ Executing(o) = running[o]
  BY ObjectFacts DEF ObjectInv, AliveInv
<1>2. pending[o] \in Nat /\ running[o] \in Nat
  BY ObjectFacts
<1>3. One(appref[o]) \in Nat /\ (One(appref[o]) = 0 => ~appref[o])
  BY DEF One
<1>4. One(Some("release", o)) \in Nat /\ (One(Some("release", o)) = 0 => ~Some("release", o))
  BY DEF One
<1>5. One(Closed(o)) \in Nat /\ (One(Closed(o)) = 0 => ~Closed(o))
  BY DEF One
<1>6. PICK x, y, z : x = One(appref[o]) /\ y = One(Some("release", o)) /\ z = One(Closed(o))
  OBVIOUS
<1>7. refcount[o] = x + pending[o] + running[o] + y + z /\ x \in Nat /\ y \in Nat /\ z \in Nat
  BY <1>1, <1>3, <1>4, <1>5, <1>6 DEF References
<1>8. /\ refcount[o] \in Nat
      /\ refcount[o] = 0 => x = 0 /\ pending[o] = 0 /\ running[o] = 0 /\ y = 0 /\ z = 0
  <2>1. PICK a \in Nat, b \in Nat : a = pending[o] /\ b = running[o]
    BY <1>2
  <2>2. PICK n : n = refcount[o]
    OBVIOUS
  <2>3. n = x + a + b + y + z
    BY <1>7, <2>1, <2>2
  <2>4. n \in Nat /\ (n = 0 => x = 0 /\ a = 0 /\ b = 0 /\ y = 0 /\ z = 0)
    BY <1>7, <2>3
  <2> QED
    BY <2>1, <2>2, <2>4
<1> QED
  BY <1>3, <1>4, <1>5, <1>6, <1>7, <1>8

\* Nobody is about to use an object whose last reference is gone, but to destroy it.
LEMMA LastReference ==
  ASSUME Base, NEW o \in Objects, life[o] = "alive", refcount[o] = 0
  PROVE  /\ ~appref[o] /\ pending[o] = 0 /\ running[o] = 0 /\ ~Closed(o) /\ o \notin timers
         /\ \A t \in Threads : \A r \in {"submit", "join", "release", "cancel", "waits", "ref",
                                         "unset", "retire", "rearm"} : ~Does(t, r, o)
<1>1. /\ ~appref[o] /\ pending[o] = 0 /\ running[o] = 0
      /\ ~Some("release", o) /\ ~Closed(o)
  BY ReferenceSum
<1>2. /\ Types /\ TodoInv /\ SimpleInv(o) /\ CallInv(o) /\ RetireInv(o) /\ TimerInv(o)
  BY ObjectFacts DEF ObjectInv, UseInv
<1>3. ~Some("ref", o) /\ ~Gathered(o)
  BY <1>1 DEF Closed
<1>4. o \notin timers /\ \A r \in Roles : ~Does(TimerThread, r, o)
  BY <1>1, <1>2 DEF TimerInv
<1>5. ASSUME NEW t \in Threads
      PROVE  /\ ~Does(t, "submit", o) /\ ~Does(t, "join", o) /\ ~Does(t, "waits", o)
             /\ ~Does(t, "release", o) /\ ~Does(t, "ref", o) /\ ~Does(t, "retire", o)
             /\ ~Does(t, "rearm", o)
  <2>1. ~Does(t, "release", o) /\ ~Does(t, "ref", o)
    BY <1>1, <1>3 DEF Some
  <2>2. ~Does(t, "retire", o)
    BY <1>1, <1>2 DEF RetireInv
  <2>3. t = TimerThread =>
          /\ ~Does(t, "submit", o) /\ ~Does(t, "join", o) /\ ~Does(t, "waits", o)
          /\ ~Does(t, "rearm", o)
    BY <1>4 DEF Roles
  <2>4. t # TimerThread => ~Does(t, "rearm", o)
    BY <1>2, TimerOnly
  <2>5. t # TimerThread =>
          /\ ~Does(t, "submit", o) /\ ~Does(t, "join", o) /\ ~Does(t, "waits", o)
    BY <1>1, <1>2, <2>1 DEF SimpleInv, CallInv
  <2> QED
    BY <2>1, <2>2, <2>3, <2>4, <2>5
<1>6. ASSUME NEW t \in Threads
      PROVE  ~Does(t, "cancel", o) /\ ~Does(t, "unset", o)
  BY <1>2, <1>3, <1>5 DEF CallInv, RetireInv
<1> QED
  BY <1>1, <1>4, <1>5, <1>6

\* What a call of the application, or of a callback, can rely on.
LEMMA MayCallGives ==
  ASSUME Base, NEW o \in Objects, NEW t \in Callers \union Workers, MayCall(t, o)
  PROVE  /\ life[o] = "alive" /\ appref[o] /\ Kind(o) # "simple" /\ ~shutdown[o]
         /\ ~Ending(o) /\ ~Closed(o) /\ ~Gathered(o) /\ refcount[o] > 0
         /\ \A u \in Threads : \A r \in {"join", "release", "ungroup", "unlock", "ref", "unset",
                                         "retire", "gather"} : ~Does(u, r, o)
<1>1. /\ life[o] = "alive" /\ appref[o] /\ ~(closing /\ o \in GroupMembers)
      /\ ~HasOp(o, {"join", "retire"})
  BY DEF MayCall
<1>2. /\ Types /\ TodoInv /\ LockInv /\ GroupInv(o) /\ SimpleInv(o) /\ RetireInv(o) /\ AliveInv(o)
  BY ObjectFacts DEF ObjectInv, UseInv
<1>3. Kind(o) # "simple" /\ ~shutdown[o]
  BY <1>1, <1>2, ObjectFacts DEF AliveInv
<1>4. ASSUME NEW u \in Threads, NEW r \in {"join", "retire"}
      PROVE  ~Does(u, r, o)
  <2> SUFFICES ASSUME Does(u, r, o) PROVE FALSE
    OBVIOUS
  <2>1. u \in Callers \union Workers
    BY <1>2, TimerOnly, Constants
  <2>2. PICK x \in Todo(u) : x.obj = o /\ Role(x.op) = r
    BY DEF Does
  <2>3. x.op \in {"join", "retire"}
    BY <2>2 DEF Role
  <2> QED
    BY <1>1, <2>1, <2>2, <2>3 DEF HasOp, Todo
<1>5. \A u \in Threads : ~Does(u, "ref", o)
  BY <1>1, <1>2 DEF GroupInv
<1>6. ~Gathered(o)
  BY <1>1, <1>2 DEF GroupInv, LockInv, Gathered, In
<1>7. \A u \in Threads : ~Does(u, "gather", o)
  BY <1>1, <1>2, Constants DEF GroupInv, LockInv
<1>8. ~Closed(o) /\ ~Ending(o)
  BY <1>4, <1>5, <1>6, <1>7 DEF Closed, Ending, Some
<1>9. refcount[o] # 0 /\ refcount[o] \in Nat
  BY <1>1, ReferenceSum
<1>10. \A u \in Threads : ~Does(u, "unlock", o)
  BY <1>1, <1>2, <1>9 DEF AliveInv, Some
<1>11. \A u \in Threads : ~Does(u, "ungroup", o)
  BY <1>2, <1>10 DEF GroupInv
<1>12. \A u \in Threads : ~Does(u, "release", o)
  BY <1>2, <1>3 DEF SimpleInv
<1>13. \A u \in Threads : ~Does(u, "unset", o)
  BY <1>2, <1>4, <1>6 DEF RetireInv
<1> QED
  BY <1>1, <1>3, <1>4, <1>5, <1>6, <1>7, <1>8, <1>9, <1>10, <1>11, <1>12, <1>13

\* A step that changes one object.
LEMMA OneObject ==
  ASSUME Base, CoreInv', Still, NEW o \in Objects, \A p \in Objects : p # o => Same(p),
         ObjectInv(o)'
  PROVE  AllObjects'
<1>1. RunningInv /\ RunningInv' /\ \A p \in Objects : ObjectInv(p)
  BY DEF Base, CoreInv, CountInv, AllObjects
<1>2. \A p \in Objects : p # o => ObjectInv(p)'
  BY <1>1, SameObject
<1> QED
  BY <1>2 DEF AllObjects

\* What a step adds to the parts of the sum.
Adds(o, x, y, z, a, b) ==
  /\ One(appref[o])' = One(appref[o]) + x /\ pending'[o] = pending[o] + y
  /\ running'[o] = running[o] + z /\ One(Some("release", o))' = One(Some("release", o)) + a
  /\ One(Closed(o))' = One(Closed(o)) + b

\* The sum after a step.
LEMMA SumNext ==
  ASSUME Base, CoreInv', NEW o \in Objects, life[o] = "alive",
         NEW x \in Int, NEW y \in Int, NEW z \in Int, NEW a \in Int, NEW b \in Int,
         Adds(o, x, y, z, a, b), refcount'[o] = refcount[o] + (x + y + z + a + b)
  PROVE  refcount'[o] = References(o)'
<1>1. PICK i, j, k \in Nat : i = One(appref[o]) /\ j = One(Some("release", o)) /\ k = One(Closed(o))
  BY DEF One
<1>2. PICK p, r \in Nat, n \in Int : p = pending[o] /\ r = running[o] /\ n = refcount[o]
  BY ObjectFacts
<1>3. n = i + p + r + j + k
  BY <1>1, <1>2, ReferenceSum
<1>4. Executing(o)' = running'[o]
  BY DEF CoreInv, CountInv, RunningInv
<1>5. References(o)' = (i + x) + (p + y) + (r + z) + (j + a) + (k + b)
  BY <1>1, <1>2, <1>4 DEF References, Adds
<1>6. refcount'[o] = n + (x + y + z + a + b)
  BY <1>2
<1>7. n + (x + y + z + a + b) = (i + x) + (p + y) + (r + z) + (j + a) + (k + b)
  BY <1>3
<1> QED
  BY <1>5, <1>6, <1>7

\* A thread has roles while its todo is not empty.
LEMMA TodoEmpty ==
  ASSUME NEW q \in Seq(Ops)
  PROVE  q # <<>> <=> \E r, o : Gives(q, r, o)
<1>1. ToSet(<<>>) = {}
  BY DEF ToSet
<1>2. q # <<>> => Head(q) \in ToSet(q)
  BY ToSetTail
<1> QED
  BY <1>1, <1>2 DEF Gives

\* The timer thread gets nothing to do.
LEMMA TimerTodo ==
  ASSUME Types, Types', \A r, o : Does(TimerThread, r, o)' => Does(TimerThread, r, o)
  PROVE  todo'[TimerThread] # <<>> => todo[TimerThread] # <<>>
<1>1. todo[TimerThread] \in Seq(Ops) /\ todo'[TimerThread] \in Seq(Ops)
  BY Constants DEF Types, ObjectTypes
<1>2. /\ \A r, o : Does(TimerThread, r, o)' <=> Gives(todo'[TimerThread], r, o)
      /\ \A r, o : Does(TimerThread, r, o) <=> Gives(todo[TimerThread], r, o)
  BY DEF Does, Gives, Todo
<1> QED
  BY <1>1, <1>2, TodoEmpty

\* A step that keeps the locks.
LEMMA LockSame ==
  ASSUME Types, Types', LockInv, owner'["group"] = owner["group"],
         owner'["timer"] = owner["timer"], closing' = closing,
         group'.members = group.members,
         \A t \in Threads : Does(t, "leave", NoObject)' <=> Does(t, "leave", NoObject),
         \A r, o : Does(TimerThread, r, o)' => Does(TimerThread, r, o)
  PROVE  LockInv'
<1>1. todo'[TimerThread] # <<>> => todo[TimerThread] # <<>>
  BY TimerTodo
<1>2. (owner["timer"] \in {NoThread, TimerThread})' /\ (owner["group"] # NoThread => closing)'
  BY DEF LockInv
<1>3. (todo[TimerThread] # <<>> => owner["timer"] = TimerThread)'
  BY <1>1 DEF LockInv
<1>4. (\A t \in Threads : owner["group"] = t <=> Does(t, "leave", NoObject))'
  BY DEF LockInv
<1>5. Distinct(group.members)'
  BY DEF LockInv
<1> QED
  BY <1>2, <1>3, <1>4, <1>5 DEF LockInv

Kept == TodoInv' /\ LockInv' /\ AllObjects'

\* tp_object_submit, in a thread that has it to do.
LEMMA SubmitObjects ==
  ASSUME Base, CoreInv', NEW t \in Threads, DoSubmit(t)
  PROVE  Kept
<1>1. Types /\ TodoInv /\ At(t, "submit") /\ Submit(t, Obj(t)) /\ Continue(t)
      /\ "submit" \in ObjectNames /\ Role("submit") = "submit"
  BY RoleNames DEF Base, CoreInv, DoSubmit, ObjectNames
<1>2. PICK o \in Objects : o = Obj(t) /\ Does(t, "submit", o)
  BY <1>1, HeadDoes
<1>3. /\ TodoInv'
      /\ \A u \in Threads : \A r, p : Does(u, r, p)' <=> Does(u, r, p) /\ ~(u = t /\ r = "submit" /\ p = o)
  BY <1>1, <1>2, ContinueDoes
<1>4. /\ UNCHANGED <<program, life, shutdown, running, member, appref, group, closing, timers, owner>>
      /\ refcount' = [refcount EXCEPT ![o] = @ + 1] /\ pending' = [pending EXCEPT ![o] = @ + 1]
  BY <1>1, <1>2 DEF Submit, appvars, groupvars
<1>5. Still /\ LockInv'
  <2>1. "leave" # "submit" /\ Types'
    BY DEF CoreInv
  <2>2. \A u \in Threads : Does(u, "leave", NoObject)' <=> Does(u, "leave", NoObject)
    BY <1>3
  <2>3. \A r, p : Does(TimerThread, r, p)' => Does(TimerThread, r, p)
    BY <1>3, Constants
  <2> QED
    BY <1>1, <1>4, <2>1, <2>2, <2>3, LockSame DEF Still, Base
<1>6. \A p \in Objects : p # o => Same(p)
  BY <1>1, <1>3, <1>4 DEF Same, In, Types, ObjectTypes
<1>7. /\ refcount'[o] = refcount[o] + 1 /\ pending'[o] = pending[o] + 1 /\ running'[o] = running[o]
      /\ In(o)' = In(o) /\ Gathered(o)' = Gathered(o) /\ Kind(o)' = Kind(o)
      /\ GroupMembers' = GroupMembers
  BY <1>1, <1>4 DEF In, Gathered, Kind, GroupMembers, Types, ObjectTypes
<1>8. \A r : r # "submit" => (Some(r, o)' <=> Some(r, o))
  BY <1>3 DEF Some
<1>9. (Closed(o)' <=> Closed(o)) /\ (Ending(o)' <=> Ending(o))
  BY <1>7, <1>8 DEF Closed, Ending
<1>10. life[o] = "alive" /\ refcount[o] # 0 /\ refcount[o] \in Int
  BY <1>2, UsedIsAlive, LastReference, ObjectFacts
<1>11. ObjectInv(o)
  BY ObjectFacts
<1>12. GroupInv(o)' /\ UniqueInv(o)'
  BY <1>3, <1>4, <1>7, <1>8, <1>11 DEF ObjectInv, GroupInv, UniqueInv
<1>13. refcount'[o] = References(o)'
  <2>1. /\ One(appref[o])' = One(appref[o]) + 0 /\ One(Closed(o))' = One(Closed(o)) + 0
        /\ One(Some("release", o))' = One(Some("release", o)) + 0
    BY <1>4, <1>8, <1>9 DEF One
  <2>2. running'[o] = running[o] + 0 /\ refcount'[o] = refcount[o] + (0 + 1 + 0 + 0 + 0)
    BY <1>7, ObjectFacts
  <2>3. Adds(o, 0, 1, 0, 0, 0)
    BY <1>7, <2>1, <2>2 DEF Adds
  <2>4. 0 \in Int /\ 1 \in Int
    OBVIOUS
  <2> QED
    BY <1>10, <2>2, <2>3, <2>4, SumNext, Zenon
<1>14. AliveInv(o)'
  <2>1. ~Some("unlock", o)
    BY <1>10, <1>11 DEF ObjectInv, AliveInv
  <2>2. pending'[o] > 0
    BY <1>7, ObjectFacts
  <2> QED
    BY <1>4, <1>7, <1>8, <1>10, <1>11, <1>13, <2>1, <2>2 DEF ObjectInv, AliveInv
<1>15. GoneInv(o)'
  BY <1>4, <1>10 DEF GoneInv
<1>16. SimpleInv(o)'
  BY <1>2, <1>3, <1>7, <1>11 DEF ObjectInv, UseInv, SimpleInv, UniqueInv
<1>17. CallInv(o)'
  BY <1>3, <1>4, <1>7, <1>9, <1>11 DEF ObjectInv, UseInv, CallInv
<1>18. RetireInv(o)'
  BY <1>3, <1>4, <1>7, <1>9, <1>11, Constants DEF ObjectInv, UseInv, RetireInv
<1>19. TimerInv(o)'
  BY <1>3, <1>4, <1>7, <1>8, <1>11, Constants DEF ObjectInv, UseInv, TimerInv
<1> QED
  BY <1>3, <1>5, <1>6, <1>12, <1>14, <1>15, <1>16, <1>17, <1>18, <1>19, OneObject
     DEF ObjectInv, UseInv, Kept

\* TpPostWork.
LEMMA PostObjects ==
  ASSUME Base, CoreInv', NEW t \in Callers \union Workers, NEW o \in Objects, TpPostWork(t, o)
  PROVE  Kept
<1>1. Types /\ TodoInv /\ LockInv /\ Types' /\ MayCall(t, o) /\ Submit(t, o) /\ todo' = todo
  BY DEF Base, CoreInv, TpPostWork
<1>2. \A u \in Threads : \A r, p : Does(u, r, p)' <=> Does(u, r, p)
  BY <1>1 DEF Does, Todo
<1>3. TodoInv'
  BY <1>1 DEF TodoInv, Todo
<1>4. /\ UNCHANGED <<program, life, shutdown, running, member, appref, group, closing, timers, owner>>
      /\ refcount' = [refcount EXCEPT ![o] = @ + 1] /\ pending' = [pending EXCEPT ![o] = @ + 1]
  BY <1>1 DEF Submit, appvars, groupvars
<1>5. Still /\ LockInv'
  <2>1. \A u \in Threads : Does(u, "leave", NoObject)' <=> Does(u, "leave", NoObject)
    BY <1>2
  <2>2. \A r, p : Does(TimerThread, r, p)' => Does(TimerThread, r, p)
    BY <1>2, Constants
  <2> QED
    BY <1>1, <1>4, <2>1, <2>2, LockSame DEF Still
<1>6. \A p \in Objects : p # o => Same(p)
  BY <1>1, <1>2, <1>4 DEF Same, In, Types, ObjectTypes
<1>7. /\ refcount'[o] = refcount[o] + 1 /\ pending'[o] = pending[o] + 1 /\ running'[o] = running[o]
      /\ In(o)' = In(o) /\ Gathered(o)' = Gathered(o) /\ Kind(o)' = Kind(o)
      /\ GroupMembers' = GroupMembers
  BY <1>1, <1>4 DEF In, Gathered, Kind, GroupMembers, Types, ObjectTypes
<1>8. \A r : Some(r, o)' <=> Some(r, o)
  BY <1>2 DEF Some
<1>9. (Closed(o)' <=> Closed(o)) /\ (Ending(o)' <=> Ending(o))
  BY <1>7, <1>8 DEF Closed, Ending
<1>10. /\ life[o] = "alive" /\ Kind(o) # "simple"
       /\ \A u \in Threads : ~Does(u, "unlock", o)
  BY <1>1, MayCallGives
<1>10a. life[o] = "alive"
  BY <1>10
<1>11. ObjectInv(o)
  BY ObjectFacts
<1>12. GroupInv(o)' /\ UniqueInv(o)'
  BY <1>2, <1>4, <1>7, <1>8, <1>11 DEF ObjectInv, GroupInv, UniqueInv
<1>13. refcount'[o] = References(o)'
  <2>1. /\ One(appref[o])' = One(appref[o]) + 0 /\ One(Closed(o))' = One(Closed(o)) + 0
        /\ One(Some("release", o))' = One(Some("release", o)) + 0
    BY <1>4, <1>8, <1>9 DEF One
  <2>2. running'[o] = running[o] + 0 /\ refcount'[o] = refcount[o] + (0 + 1 + 0 + 0 + 0)
    BY <1>7, ObjectFacts
  <2>3. Adds(o, 0, 1, 0, 0, 0)
    BY <1>7, <2>1, <2>2 DEF Adds
  <2>4. 0 \in Int /\ 1 \in Int
    OBVIOUS
  <2> QED
    BY <1>10a, <2>2, <2>3, <2>4, SumNext, Zenon
<1>14. AliveInv(o)'
  <2>1. ~Some("unlock", o)
    BY <1>10 DEF Some
  <2> QED
    BY <1>4, <1>7, <1>8, <1>10, <1>11, <1>13, <2>1 DEF ObjectInv, AliveInv
<1>15. GoneInv(o)'
  BY <1>4, <1>10 DEF GoneInv
<1>16. SimpleInv(o)'
  BY <1>2, <1>7, <1>10, <1>11 DEF ObjectInv, UseInv, SimpleInv
<1>17. CallInv(o)'
  BY <1>2, <1>4, <1>7, <1>9, <1>11 DEF ObjectInv, UseInv, CallInv
<1>18. RetireInv(o)'
  BY <1>2, <1>4, <1>7, <1>9, <1>11, Constants DEF ObjectInv, UseInv, RetireInv
<1>19. TimerInv(o)'
  BY <1>2, <1>4, <1>7, <1>8, <1>11, Constants DEF ObjectInv, UseInv, TimerInv
<1> QED
  BY <1>3, <1>5, <1>6, <1>12, <1>14, <1>15, <1>16, <1>17, <1>18, <1>19, OneObject
     DEF ObjectInv, UseInv, Kept

\* tp_object_initialize: an object enters the group.
LEMMA JoinObjects ==
  ASSUME Base, CoreInv', NEW t \in Threads, DoJoin(t)
  PROVE  Kept
<1>1. /\ Types /\ TodoInv /\ LockInv /\ Types' /\ At(t, "join") /\ Free("group", t) /\ Continue(t)
      /\ "join" \in ObjectNames /\ Role("join") = "join"
  BY RoleNames DEF Base, CoreInv, DoJoin, ObjectNames
<1>2. PICK o \in Objects : o = Obj(t) /\ Does(t, "join", o)
  BY <1>1, HeadDoes
<1>3. /\ TodoInv'
      /\ \A u \in Threads : \A r, p : Does(u, r, p)' <=> Does(u, r, p) /\ ~(u = t /\ r = "join" /\ p = o)
  BY <1>1, <1>2, ContinueDoes
<1>4. /\ UNCHANGED <<program, life, refcount, shutdown, pending, running, appref, closing, timers, owner>>
      /\ member' = [member EXCEPT ![o] = TRUE] /\ group'.members = Append(group.members, o)
  BY <1>1, <1>2 DEF DoJoin, appvars, countvars, Types, GroupTypes
<1>5. ObjectInv(o)
  BY ObjectFacts
<1>6. o \in GroupMembers /\ ~In(o) /\ ~Some("ref", o)
  BY <1>2, <1>5 DEF ObjectInv, GroupInv
<1>7. owner["group"] = NoThread
  <2>1. ~Does(t, "leave", NoObject) /\ ~Does(t, "submit", o)
    BY <1>1, HeadDoes DEF MayFollow
  <2> QED
    BY <1>1, <2>1 DEF LockInv, Free
<1>8. Distinct(group'.members) /\ ToSet(group'.members) = ToSet(group.members) \union {o}
  BY <1>1, <1>4, <1>6, AppendDistinct DEF Types, GroupTypes, LockInv, In
<1>9. \A p \in Objects : p # o => Same(p)
  BY <1>1, <1>3, <1>4, <1>8 DEF Same, In, Types, ObjectTypes
<1>10. /\ In(o)' /\ member'[o] = TRUE /\ ~Gathered(o)' /\ ~Gathered(o) /\ Kind(o)' = Kind(o)
       /\ GroupMembers' = GroupMembers
  BY <1>1, <1>4, <1>6, <1>8 DEF In, Gathered, Kind, GroupMembers, Types, ObjectTypes
<1>11. \A r : r # "join" => (Some(r, o)' <=> Some(r, o))
  BY <1>3 DEF Some
<1>12. (Closed(o)' <=> Closed(o)) /\ (Ending(o)' <=> Ending(o))
  BY <1>10, <1>11 DEF Closed, Ending
<1>13. life[o] = "alive" /\ refcount[o] # 0 /\ ~Some("unlock", o)
  <2>1. life[o] = "alive" /\ refcount[o] # 0
    BY <1>2, UsedIsAlive, LastReference
  <2> QED
    BY <1>5, <2>1 DEF ObjectInv, AliveInv
<1>14. \A u \in Threads : ~Does(u, "join", o)'
  BY <1>2, <1>3, <1>5 DEF ObjectInv, UniqueInv
<1>15. \A u \in Threads : ~Does(u, "gather", o)
  BY <1>5, <1>7, Constants DEF ObjectInv, GroupInv
<1>16. GroupInv(o)'
  BY <1>3, <1>4, <1>5, <1>6, <1>7, <1>10, <1>13, <1>14, <1>15, Constants
     DEF ObjectInv, GroupInv, Some
<1>17. UniqueInv(o)'
  BY <1>3, <1>5 DEF ObjectInv, UniqueInv
<1>18. refcount'[o] = References(o)'
  <2>1. /\ One(appref[o])' = One(appref[o]) /\ One(Closed(o))' = One(Closed(o))
        /\ One(Some("release", o))' = One(Some("release", o))
    BY <1>4, <1>11, <1>12 DEF One
  <2>2. Executing(o)' = Executing(o)
    BY <1>4 DEF Base, CoreInv, CountInv, RunningInv
  <2>3. refcount[o] = References(o)
    BY <1>5, <1>13 DEF ObjectInv, AliveInv
  <2> QED
    BY <1>4, <2>1, <2>2, <2>3 DEF References
<1>19. AliveInv(o)'
  <2>1. Executing(o)' = Executing(o)
    BY <1>4 DEF Base, CoreInv, CountInv, RunningInv
  <2> QED
    BY <1>4, <1>5, <1>10, <1>11, <1>12, <1>13, <1>18, <2>1 DEF ObjectInv, AliveInv
<1>20. GoneInv(o)'
  BY <1>4, <1>13 DEF GoneInv
<1>21. SimpleInv(o)'
  <2>1. \A u \in Threads : Does(u, "submit", o) => Kind(o) # "simple"
    <3>1. ~Does(t, "submit", o)
      BY <1>1, HeadDoes DEF MayFollow
    <3> QED
      BY <1>2, <1>5, <3>1 DEF ObjectInv, UseInv, SimpleInv, UniqueInv
  <2> QED
    BY <1>3, <1>5, <1>10, <2>1 DEF ObjectInv, UseInv, SimpleInv
<1>22. CallInv(o)'
  BY <1>3, <1>4, <1>5, <1>10, <1>12 DEF ObjectInv, UseInv, CallInv
<1>23. RetireInv(o)'
  BY <1>3, <1>4, <1>5, <1>10, <1>12, Constants DEF ObjectInv, UseInv, RetireInv
<1>24. TimerInv(o)'
  BY <1>3, <1>4, <1>5, <1>10, <1>11, Constants DEF ObjectInv, UseInv, TimerInv
<1>25. LockInv'
  <2>1. \A u \in Threads : Does(u, "leave", NoObject)' <=> Does(u, "leave", NoObject)
    BY <1>3
  <2>2. todo'[TimerThread] # <<>> => todo[TimerThread] # <<>>
    BY <1>1, <1>3, TimerTodo, Constants
  <2> QED
    BY <1>1, <1>4, <1>8, <2>1, <2>2 DEF LockInv
<1>26. Still
  BY <1>4 DEF Still
<1> QED
  BY <1>3, <1>9, <1>16, <1>17, <1>19, <1>20, <1>21, <1>22, <1>23, <1>24, <1>25, <1>26,
     OneObject
     DEF ObjectInv, UseInv, Kept

\* The thread is done with its operation, and if that was the last of the object it has
\* to destroy it.
Drops(t, r, o, last) ==
  \A u \in Threads : \A s :
    Does(u, s, o)' <=>
      \/ Does(u, s, o) /\ ~(u = t /\ s = r)
      \/ last /\ u = t /\ (s = "unlock" \/ (s = "ungroup" /\ o \in GroupMembers))

\* The group, when a thread may have to destroy the object.
LEMMA DropGroup ==
  ASSUME Base, NEW o \in Objects, life[o] = "alive", refcount[o] # 0, NEW t \in Threads,
         NEW r \in {"release", "retire", "ref", "none"}, NEW last \in BOOLEAN,
         Drops(t, r, o, last), Still, member'[o] = member[o], In(o)' <=> In(o)
  PROVE  /\ GroupInv(o)' /\ UniqueInv(o)'
         /\ Some("unlock", o)' <=> last
         /\ \A u \in Threads : ~Does(u, "unlock", o) /\ ~Does(u, "ungroup", o)
         /\ \A s : s \notin {r, "unlock", "ungroup"} => (Some(s, o)' <=> Some(s, o))
<1>1. GroupInv(o) /\ UniqueInv(o) /\ AliveInv(o)
  BY ObjectFacts DEF ObjectInv
<1>2. \A u \in Threads : ~Does(u, "unlock", o) /\ ~Does(u, "ungroup", o)
  BY <1>1 DEF AliveInv, GroupInv, Some
<1>3. \A u \in Threads : Does(u, "unlock", o)' <=> last /\ u = t
  BY <1>2 DEF Drops
<1>4. \A u \in Threads : Does(u, "ungroup", o)' <=> last /\ u = t /\ o \in GroupMembers
  BY <1>2 DEF Drops
<1>5. \A u \in Threads : \A s \in {"gather", "join"} : Does(u, s, o)' <=> Does(u, s, o)
  BY DEF Drops
<1>6. \A u \in Threads : \A s \in {"release", "ref"} : Does(u, s, o)' => Does(u, s, o)
  BY DEF Drops
<1>7. Some("ref", o)' => Some("ref", o)
  BY <1>6 DEF Some
<1>8. (Gathered(o)' <=> Gathered(o)) /\ GroupMembers' = GroupMembers
  BY DEF Gathered, Still, GroupMembers, In
<1>9. GroupInv(o)'
  BY <1>1, <1>3, <1>4, <1>5, <1>6, <1>7, <1>8 DEF GroupInv, Still
<1>10. UniqueInv(o)'
  BY <1>1, <1>3, <1>5, <1>6 DEF UniqueInv
<1>11. Some("unlock", o)' <=> last
  BY <1>3 DEF Some
<1>12. \A s : s \notin {r, "unlock", "ungroup"} => (Some(s, o)' <=> Some(s, o))
  BY DEF Some, Drops
<1> QED
  BY <1>2, <1>9, <1>10, <1>11, <1>12

\* tp_object_release, of a simple callback.
LEMMA ReleaseObjects ==
  ASSUME Base, CoreInv', NEW t \in Threads, DoRelease(t)
  PROVE  Kept
<1>1. /\ Types /\ TodoInv /\ LockInv /\ Types' /\ At(t, "release")
      /\ "release" \in ObjectNames /\ Role("release") = "release"
  BY RoleNames DEF Base, CoreInv, DoRelease, ObjectNames
<1>2. PICK o \in Objects : o = Obj(t) /\ Does(t, "release", o)
  BY <1>1, HeadDoes
<1>3. PICK last \in BOOLEAN : last <=> refcount[o] = 1
  OBVIOUS
<1>4. /\ TodoInv'
      /\ \A u \in Threads : \A r, p :
              Does(u, r, p)' <=>
                \/ Does(u, r, p) /\ ~(u = t /\ r = "release" /\ p = o)
                \/ /\ last /\ u = t /\ p = o
                   /\ r = "unlock" \/ (r = "ungroup" /\ o \in GroupMembers)
  <2>1. Then(t, (IF last THEN Destroy(Obj(t)) ELSE <<>>) \o Tail(todo[t]))
    BY <1>2, <1>3 DEF DoRelease
  <2> QED
    BY <1>1, <1>2, <2>1, DestroyDoes
<1>5. /\ UNCHANGED <<program, life, shutdown, pending, running, member, appref, group, closing, timers, owner>>
      /\ refcount' = [refcount EXCEPT ![o] = @ - 1]
  BY <1>2 DEF DoRelease, appvars, groupvars, countvars
<1>6. Still /\ LockInv'
  <2>1. \A u \in Threads : Does(u, "leave", NoObject)' <=> Does(u, "leave", NoObject)
    BY <1>4
  <2>2. t # TimerThread
    BY <1>1, <1>2, TimerOnly
  <2>3. \A r, p : Does(TimerThread, r, p)' => Does(TimerThread, r, p)
    BY <1>4, <2>2, Constants
  <2> QED
    BY <1>1, <1>5, <2>1, <2>3, LockSame DEF Still
<1>7. \A p \in Objects : p # o => Same(p)
  <2>1. \A p \in Objects : p # o => \A u \in Threads : \A r : Does(u, r, p)' <=> Does(u, r, p)
    BY <1>4
  <2> QED
    BY <1>1, <1>5, <2>1 DEF Same, In, Types, ObjectTypes
<1>8. /\ refcount'[o] = refcount[o] - 1 /\ refcount[o] \in Int
      /\ (In(o)' <=> In(o)) /\ (Gathered(o)' <=> Gathered(o)) /\ Kind(o)' = Kind(o)
      /\ Executing(o)' = Executing(o)
  BY <1>1, <1>5 DEF In, Gathered, Kind, Types, ObjectTypes, Base, CoreInv, CountInv, RunningInv
<1>9. ObjectInv(o)
  BY ObjectFacts
<1>10. life[o] = "alive" /\ refcount[o] # 0 /\ Kind(o) = "simple" /\ ~appref[o] /\ t # TimerThread
  BY <1>1, <1>2, <1>9, UsedIsAlive, LastReference, TimerOnly
     DEF ObjectInv, UseInv, SimpleInv, AliveInv
<1>11. Drops(t, "release", o, last)
  BY <1>4 DEF Drops
<1>12. /\ GroupInv(o)' /\ UniqueInv(o)'
       /\ (Some("unlock", o)' <=> last)
       /\ \A s : s \notin {"release", "unlock", "ungroup"} => (Some(s, o)' <=> Some(s, o))
  BY <1>5, <1>6, <1>8, <1>10, <1>11, DropGroup
<1>13. Closed(o)' <=> Closed(o)
  BY <1>8, <1>12 DEF Closed
<1>14. Some("release", o) /\ ~Some("release", o)'
  <2>1. \A u \in Threads : Does(u, "release", o) => u = t
    BY <1>2, <1>9 DEF ObjectInv, UniqueInv
  <2> QED
    BY <1>2, <1>4, <2>1 DEF Some
<1>15. refcount'[o] = References(o)'
  <2>1. /\ One(appref[o])' = One(appref[o]) + 0 /\ One(Closed(o))' = One(Closed(o)) + 0
        /\ One(Some("release", o))' = One(Some("release", o)) + (-1)
    BY <1>5, <1>13, <1>14 DEF One
  <2>2. /\ running'[o] = running[o] + 0 /\ pending'[o] = pending[o] + 0
        /\ refcount'[o] = refcount[o] + (0 + 0 + 0 + (-1) + 0)
    BY <1>5, <1>8, ObjectFacts
  <2>3. Adds(o, 0, 0, 0, -1, 0)
    BY <2>1, <2>2 DEF Adds
  <2>4. 0 \in Int /\ -1 \in Int /\ life[o] = "alive"
    BY <1>10
  <2> QED
    BY <2>2, <2>3, <2>4, SumNext, Zenon
<1>16. \A u \in Threads : ~Does(u, "submit", o) /\ ~Does(u, "join", o)
  <2>1. ~Does(t, "submit", o) /\ ~Does(t, "join", o)
    BY <1>1, HeadDoes DEF MayFollow
  <2> QED
    BY <1>2, <1>9, <1>10, <2>1 DEF ObjectInv, UniqueInv, UseInv, SimpleInv
<1>17. AliveInv(o)'
  <2>1. ~Some("submit", o)
    BY <1>16 DEF Some
  <2>2. last => refcount'[o] = 0
    BY <1>3, <1>8
  <2> QED
    BY <1>5, <1>8, <1>9, <1>10, <1>12, <1>13, <1>15, <2>1, <2>2 DEF ObjectInv, AliveInv
<1>18. GoneInv(o)'
  BY <1>5, <1>10 DEF GoneInv
<1>19. SimpleInv(o)'
  BY <1>4, <1>8, <1>10, <1>16 DEF SimpleInv
<1>20. CallInv(o)'
  BY <1>4, <1>8, <1>9, <1>10 DEF ObjectInv, UseInv, CallInv
<1>21. RetireInv(o)'
  <2>1. \A u \in Threads : ~Does(u, "retire", o)
    BY <1>9, <1>10 DEF ObjectInv, UseInv, RetireInv
  <2> QED
    BY <1>4, <1>5, <1>8, <1>9, <2>1 DEF ObjectInv, UseInv, RetireInv
<1>22. TimerInv(o)'
  BY <1>4, <1>5, <1>9, <1>10, Constants DEF ObjectInv, UseInv, TimerInv
<1> QED
  BY <1>4, <1>6, <1>7, <1>12, <1>17, <1>18, <1>19, <1>20, <1>21, <1>22, OneObject
     DEF ObjectInv, UseInv, Kept

\* TpReleaseWork and TpReleaseTimer: the application gives the object up.
LEMMA RetireObjects ==
  ASSUME Base, CoreInv', NEW t \in Threads, DoRetire(t)
  PROVE  Kept
<1>1. /\ Types /\ TodoInv /\ LockInv /\ Types' /\ At(t, "retire")
      /\ "retire" \in ObjectNames /\ Role("retire") = "retire"
  BY RoleNames DEF Base, CoreInv, DoRetire, ObjectNames
<1>2. PICK o \in Objects : o = Obj(t) /\ Does(t, "retire", o)
  BY <1>1, HeadDoes
<1>3. PICK last \in BOOLEAN : last <=> refcount[o] = 1
  OBVIOUS
<1>4. /\ TodoInv'
      /\ \A u \in Threads : \A r, p :
              Does(u, r, p)' <=>
                \/ Does(u, r, p) /\ ~(u = t /\ r = "retire" /\ p = o)
                \/ /\ last /\ u = t /\ p = o
                   /\ r = "unlock" \/ (r = "ungroup" /\ o \in GroupMembers)
  <2>1. Then(t, (IF last THEN Destroy(Obj(t)) ELSE <<>>) \o Tail(todo[t]))
    BY <1>2, <1>3 DEF DoRetire
  <2> QED
    BY <1>1, <1>2, <2>1, DestroyDoes
<1>5. /\ UNCHANGED <<program, life, pending, running, member, group, closing, timers, owner>>
      /\ refcount' = [refcount EXCEPT ![o] = @ - 1]
      /\ shutdown' = [shutdown EXCEPT ![o] = TRUE] /\ appref' = [appref EXCEPT ![o] = FALSE]
  BY <1>2 DEF DoRetire, groupvars, countvars
<1>6. Still /\ LockInv'
  <2>1. \A u \in Threads : Does(u, "leave", NoObject)' <=> Does(u, "leave", NoObject)
    BY <1>4
  <2>2. t # TimerThread
    BY <1>1, <1>2, TimerOnly
  <2>3. \A r, p : Does(TimerThread, r, p)' => Does(TimerThread, r, p)
    BY <1>4, <2>2, Constants
  <2> QED
    BY <1>1, <1>5, <2>1, <2>3, LockSame DEF Still
<1>7. \A p \in Objects : p # o => Same(p)
  <2>1. \A p \in Objects : p # o => \A u \in Threads : \A r : Does(u, r, p)' <=> Does(u, r, p)
    BY <1>4
  <2> QED
    BY <1>1, <1>5, <2>1 DEF Same, In, Types, ObjectTypes
<1>8. /\ refcount'[o] = refcount[o] - 1 /\ refcount[o] \in Int /\ shutdown'[o] = TRUE /\ appref'[o] = FALSE
      /\ (In(o)' <=> In(o)) /\ (Gathered(o)' <=> Gathered(o)) /\ Kind(o)' = Kind(o)
      /\ Executing(o)' = Executing(o)
  BY <1>1, <1>5 DEF In, Gathered, Kind, Types, ObjectTypes, Base, CoreInv, CountInv, RunningInv
<1>9. ObjectInv(o)
  BY ObjectFacts
<1>10. /\ life[o] = "alive" /\ refcount[o] # 0 /\ Kind(o) # "simple" /\ appref[o] /\ ~Closed(o)
       /\ t # TimerThread
  BY <1>1, <1>2, <1>9, UsedIsAlive, LastReference, TimerOnly
     DEF ObjectInv, UseInv, RetireInv, AliveInv
<1>11. Drops(t, "retire", o, last)
  BY <1>4 DEF Drops
<1>12. /\ GroupInv(o)' /\ UniqueInv(o)'
       /\ (Some("unlock", o)' <=> last)
       /\ \A s : s \notin {"retire", "unlock", "ungroup"} => (Some(s, o)' <=> Some(s, o))
  BY <1>5, <1>6, <1>8, <1>10, <1>11, DropGroup
<1>13. Closed(o)' <=> Closed(o)
  BY <1>8, <1>12 DEF Closed
<1>14. /\ o \notin timers /\ \A r \in Roles : ~Does(TimerThread, r, o)
       /\ \A u \in Threads : \A r : Does(u, r, o) => u = t /\ r = "retire"
  <2>1. ~Does(t, "unset", o)
    BY <1>1, HeadDoes DEF MayFollow
  <2>2. o \notin timers /\ \A r \in Roles : ~Does(TimerThread, r, o)
    BY <1>2, <1>9, <2>1 DEF ObjectInv, UseInv, TimerInv
  <2>3. \A u \in Callers \union Workers : \A r \in Roles : Does(u, r, o) => u = t /\ r = "retire"
    BY <1>2, <1>9, <2>1 DEF ObjectInv, UseInv, RetireInv
  <2> QED
    BY <1>1, <2>2, <2>3, Constants, TimerOnly
<1>15. refcount'[o] = References(o)'
  <2>1. /\ One(appref[o])' = One(appref[o]) + (-1) /\ One(Closed(o))' = One(Closed(o)) + 0
        /\ One(Some("release", o))' = One(Some("release", o)) + 0
    BY <1>8, <1>10, <1>12, <1>13 DEF One
  <2>2. /\ running'[o] = running[o] + 0 /\ pending'[o] = pending[o] + 0
        /\ refcount'[o] = refcount[o] + (-1 + 0 + 0 + 0 + 0)
    BY <1>5, <1>8, ObjectFacts
  <2>3. Adds(o, -1, 0, 0, 0, 0)
    BY <2>1, <2>2 DEF Adds
  <2>4. 0 \in Int /\ -1 \in Int /\ life[o] = "alive"
    BY <1>10
  <2> QED
    BY <2>2, <2>3, <2>4, SumNext, Zenon
<1>16. AliveInv(o)'
  <2>1. last => refcount'[o] = 0
    BY <1>3, <1>8
  <2> QED
    BY <1>8, <1>10, <1>12, <1>15, <2>1 DEF AliveInv
<1>17. GoneInv(o)'
  BY <1>5, <1>10 DEF GoneInv
<1>18. \A u \in Threads : \A r : Does(u, r, o)' => u = t /\ r \in {"unlock", "ungroup"}
  BY <1>4, <1>14
<1>19. SimpleInv(o)' /\ CallInv(o)' /\ RetireInv(o)'
  BY <1>18 DEF SimpleInv, CallInv, RetireInv
<1>20. TimerInv(o)'
  BY <1>5, <1>10, <1>14, <1>18, Constants DEF TimerInv
<1> QED
  BY <1>4, <1>6, <1>7, <1>12, <1>16, <1>17, <1>19, <1>20, OneObject
     DEF ObjectInv, UseInv, Kept

\* The end of TpReleaseCleanupGroupMembers for one object.
LEMMA FinishObjects ==
  ASSUME Base, CoreInv', NEW t \in Threads, DoFinish(t)
  PROVE  Kept
<1>1. /\ Types /\ TodoInv /\ LockInv /\ Types' /\ At(t, "finish")
      /\ "finish" \in ObjectNames /\ Role("finish") = "ref"
  BY RoleNames DEF Base, CoreInv, DoFinish, ObjectNames
<1>2. PICK o \in Objects : o = Obj(t) /\ Does(t, "ref", o)
  BY <1>1, HeadDoes
<1>a. PICK app \in BOOLEAN : app <=> ~shutdown[o] /\ Kind(o) # "simple"
  OBVIOUS
<1>b. PICK refs \in {1, 2} : refs = IF app THEN 2 ELSE 1
  OBVIOUS
<1>3. PICK last \in BOOLEAN : last <=> refcount[o] = refs
  OBVIOUS
<1>4. /\ TodoInv'
      /\ \A u \in Threads : \A r, p :
              Does(u, r, p)' <=>
                \/ Does(u, r, p) /\ ~(u = t /\ r = "ref" /\ p = o)
                \/ /\ last /\ u = t /\ p = o
                   /\ r = "unlock" \/ (r = "ungroup" /\ o \in GroupMembers)
  <2>1. Then(t, (IF last THEN Destroy(Obj(t)) ELSE <<>>) \o Tail(todo[t]))
    BY <1>2, <1>3, <1>a, <1>b DEF DoFinish
  <2> QED
    BY <1>1, <1>2, <2>1, DestroyDoes
<1>5. /\ UNCHANGED <<program, life, pending, running, member, group, closing, timers, owner>>
      /\ refcount' = [refcount EXCEPT ![o] = @ - refs]
      /\ shutdown' = [shutdown EXCEPT ![o] = TRUE]
      /\ appref' = IF app THEN [appref EXCEPT ![o] = FALSE] ELSE appref
  BY <1>2, <1>a, <1>b DEF DoFinish, groupvars, countvars
<1>6. Still /\ LockInv'
  <2>1. \A u \in Threads : Does(u, "leave", NoObject)' <=> Does(u, "leave", NoObject)
    BY <1>4
  <2>2. t # TimerThread
    BY <1>1, <1>2, TimerOnly
  <2>3. \A r, p : Does(TimerThread, r, p)' => Does(TimerThread, r, p)
    BY <1>4, <2>2, Constants
  <2> QED
    BY <1>1, <1>5, <2>1, <2>3, LockSame DEF Still
<1>7. \A p \in Objects : p # o => Same(p)
  <2>1. \A p \in Objects : p # o => \A u \in Threads : \A r : Does(u, r, p)' <=> Does(u, r, p)
    BY <1>4
  <2>2. \A p \in Objects : p # o => appref'[p] = appref[p]
    BY <1>1, <1>5 DEF Types, ObjectTypes
  <2> QED
    BY <1>1, <1>5, <2>1, <2>2 DEF Same, In, Types, ObjectTypes
<1>8. /\ refcount'[o] = refcount[o] - refs /\ refcount[o] \in Int /\ shutdown'[o] = TRUE
      /\ (In(o)' <=> In(o)) /\ (Gathered(o)' <=> Gathered(o)) /\ Kind(o)' = Kind(o)
      /\ Executing(o)' = Executing(o)
  BY <1>1, <1>5 DEF In, Gathered, Kind, Types, ObjectTypes, Base, CoreInv, CountInv, RunningInv
<1>9. ObjectInv(o)
  BY ObjectFacts
<1>10. /\ life[o] = "alive" /\ refcount[o] # 0 /\ t # TimerThread
       /\ owner["group"] = NoThread /\ Some("ref", o)
  BY <1>1, <1>2, <1>9, UsedIsAlive, LastReference, TimerOnly DEF ObjectInv, GroupInv, Some
<1>11. appref[o] = app /\ appref'[o] = FALSE
  <2>1. appref[o] = app
    BY <1>9, <1>10, <1>a, ObjectFacts DEF ObjectInv, AliveInv
  <2> QED
    BY <1>1, <1>5, <2>1 DEF Types, ObjectTypes
<1>12. Drops(t, "ref", o, last)
  BY <1>4 DEF Drops
<1>13. /\ GroupInv(o)' /\ UniqueInv(o)'
       /\ (Some("unlock", o)' <=> last)
       /\ \A s : s \notin {"ref", "unlock", "ungroup"} => (Some(s, o)' <=> Some(s, o))
  BY <1>5, <1>6, <1>8, <1>10, <1>12, DropGroup
<1>14. ~Gathered(o) /\ Closed(o) /\ ~Closed(o)' /\ \A u \in Threads : Does(u, "ref", o) => u = t
  <2>1. ~Gathered(o)
    BY <1>9, <1>10 DEF ObjectInv, GroupInv
  <2>2. \A u \in Threads : Does(u, "ref", o) => u = t
    BY <1>2, <1>9 DEF ObjectInv, UniqueInv
  <2>3. ~Some("ref", o)'
    BY <1>4, <2>2 DEF Some
  <2> QED
    BY <1>8, <1>10, <2>1, <2>2, <2>3 DEF Closed
<1>15. refcount'[o] = References(o)'
  <2>1. PICK x \in {0, -1} : x = IF app THEN -1 ELSE 0
    OBVIOUS
  <2>2. One(appref[o])' = One(appref[o]) + x
    BY <1>11, <2>1 DEF One
  <2>3. /\ One(Closed(o))' = One(Closed(o)) + (-1)
        /\ One(Some("release", o))' = One(Some("release", o)) + 0
    BY <1>13, <1>14 DEF One
  <2>4. /\ running'[o] = running[o] + 0 /\ pending'[o] = pending[o] + 0
        /\ refcount'[o] = refcount[o] + (x + 0 + 0 + 0 + (-1))
    BY <1>5, <1>8, <1>b, <2>1, ObjectFacts
  <2>5. Adds(o, x, 0, 0, 0, -1)
    BY <2>2, <2>3, <2>4 DEF Adds
  <2>6. 0 \in Int /\ -1 \in Int /\ x \in Int /\ life[o] = "alive"
    BY <1>10
  <2> QED
    BY <2>4, <2>5, <2>6, SumNext, Zenon
<1>16. AliveInv(o)'
  <2>1. last => refcount'[o] = 0
    BY <1>3, <1>8, <1>b
  <2> QED
    BY <1>8, <1>10, <1>11, <1>13, <1>15, <2>1 DEF AliveInv
<1>17. GoneInv(o)'
  BY <1>5, <1>10 DEF GoneInv
<1>18. SimpleInv(o)'
  <2>1. \A u \in Threads : (Does(u, "submit", o) \/ Does(u, "join", o)) => Kind(o) # "simple"
    BY <1>9, <1>10, <1>14 DEF ObjectInv, UseInv, SimpleInv, GroupInv
  <2> QED
    BY <1>4, <1>8, <1>9, <2>1 DEF ObjectInv, UseInv, SimpleInv
<1>19. CallInv(o)'
  <2>1. Ending(o)
    BY <1>14 DEF Ending
  <2>2. \A u \in Threads : ~Does(u, "waits", o)
    BY <1>1, <1>9, <2>1, TimerOnly DEF ObjectInv, UseInv, CallInv
  <2>3. ~Does(t, "cancel", o)
    BY <1>1, HeadDoes DEF MayFollow
  <2>4. \A u \in Threads : ~Does(u, "cancel", o)
    BY <1>9, <1>14, <2>2, <2>3 DEF ObjectInv, UseInv, CallInv
  <2>5. \A u \in Threads : u # TimerThread /\ Kind(o) # "simple" =>
                              ~Does(u, "submit", o) /\ ~Does(u, "join", o)
    BY <1>9, <2>1 DEF ObjectInv, UseInv, CallInv
  <2> QED
    BY <1>4, <1>8, <2>2, <2>4, <2>5 DEF CallInv
<1>20. RetireInv(o)'
  <2>1. \A u \in Threads : ~Does(u, "retire", o) /\ ~Does(u, "unset", o)
    BY <1>9, <1>14 DEF ObjectInv, UseInv, RetireInv
  <2> QED
    BY <1>4, <2>1 DEF RetireInv
<1>21. TimerInv(o)'
  BY <1>4, <1>5, <1>9, <1>10, Constants DEF ObjectInv, UseInv, TimerInv
<1> QED
  BY <1>4, <1>6, <1>7, <1>13, <1>16, <1>17, <1>18, <1>19, <1>20, <1>21, OneObject
     DEF ObjectInv, UseInv, Kept

\* tp_object_cancel: it never gives back the last reference.
LEMMA CancelObjects ==
  ASSUME Base, CoreInv', NEW t \in Threads, DoCancel(t)
  PROVE  Kept
<1>1. /\ Types /\ TodoInv /\ LockInv /\ Types' /\ At(t, "cancel")
      /\ "cancel" \in ObjectNames /\ Role("cancel") = "cancel"
  BY RoleNames DEF Base, CoreInv, DoCancel, ObjectNames
<1>2. PICK o \in Objects : o = Obj(t) /\ Does(t, "cancel", o)
  BY <1>1, HeadDoes
<1>3. ObjectInv(o)
  BY ObjectFacts
<1>4. life[o] = "alive" /\ t # TimerThread /\ (Does(t, "ref", o) \/ Does(t, "waits", o))
  BY <1>1, <1>2, <1>3, UsedIsAlive, TimerOnly DEF ObjectInv, UseInv, CallInv
<1>5. /\ Does(t, "ref", o) => Closed(o)
      /\ Does(t, "waits", o) => appref[o] /\ Kind(o) # "simple"
  BY <1>3, <1>4 DEF ObjectInv, UseInv, CallInv, Closed, Some
<1>6. refcount[o] # pending[o] /\ refcount[o] \in Int
  <2>1. PICK i, j, k, p, r, n : /\ i = One(appref[o]) /\ j = One(Some("release", o))
                                /\ k = One(Closed(o))
                                /\ p = pending[o] /\ r = running[o] /\ n = refcount[o]
    OBVIOUS
  <2>2. i \in Nat /\ j \in Nat /\ k \in Nat /\ (i > 0 \/ k > 0)
    BY <1>4, <1>5, <2>1 DEF One
  <2>3. p \in Nat /\ r \in Nat /\ n = i + p + r + j + k
    BY <1>4, <2>1, ReferenceSum, ObjectFacts
  <2>4. n # p /\ n \in Int
    BY <2>2, <2>3
  <2> QED
    BY <2>1, <2>4
<1>7. /\ TodoInv'
      /\ \A u \in Threads : \A r, p :
           Does(u, r, p)' <=> Does(u, r, p) /\ ~(u = t /\ r = "cancel" /\ p = o)
  <2>1. PICK cond \in BOOLEAN : cond <=> refcount[o] = pending[o]
    OBVIOUS
  <2>2. Then(t, (IF cond THEN Destroy(Obj(t)) ELSE <<>>) \o Tail(todo[t]))
    BY <1>2, <2>1 DEF DoCancel
  <2>3. ~cond
    BY <1>6, <2>1
  <2>4. /\ TodoInv'
        /\ \A u \in Threads : \A r, p :
              Does(u, r, p)' <=>
                \/ Does(u, r, p) /\ ~(u = t /\ r = "cancel" /\ p = o)
                \/ /\ cond /\ u = t /\ p = o
                   /\ r = "unlock" \/ (r = "ungroup" /\ o \in GroupMembers)
    BY <1>1, <1>2, <2>2, DestroyDoes
  <2> QED
    BY <2>3, <2>4
<1>8. /\ UNCHANGED <<program, life, shutdown, running, member, appref, group, closing, timers, owner>>
      /\ refcount' = [refcount EXCEPT ![o] = @ - pending[o]]
      /\ pending' = [pending EXCEPT ![o] = 0]
  BY <1>2 DEF DoCancel, appvars, groupvars
<1>9. Still /\ LockInv'
  <2>1. \A u \in Threads : Does(u, "leave", NoObject)' <=> Does(u, "leave", NoObject)
    BY <1>7
  <2>2. \A r, p : Does(TimerThread, r, p)' => Does(TimerThread, r, p)
    BY <1>7, Constants
  <2> QED
    BY <1>1, <1>8, <2>1, <2>2, LockSame DEF Still
<1>10. \A p \in Objects : p # o => Same(p)
  <2>1. \A p \in Objects : p # o => \A u \in Threads : \A r : Does(u, r, p)' <=> Does(u, r, p)
    BY <1>7
  <2> QED
    BY <1>1, <1>8, <2>1 DEF Same, In, Types, ObjectTypes
<1>11. /\ refcount'[o] = refcount[o] - pending[o] /\ pending'[o] = 0
       /\ (In(o)' <=> In(o)) /\ (Gathered(o)' <=> Gathered(o)) /\ Kind(o)' = Kind(o)
       /\ Executing(o)' = Executing(o) /\ GroupMembers' = GroupMembers
  BY <1>1, <1>8
     DEF In, Gathered, Kind, GroupMembers, Types, ObjectTypes, Base, CoreInv, CountInv, RunningInv
<1>12. \A r : r # "cancel" => (Some(r, o)' <=> Some(r, o))
  BY <1>7 DEF Some
<1>13. (Closed(o)' <=> Closed(o)) /\ (Ending(o)' <=> Ending(o))
  BY <1>11, <1>12 DEF Closed, Ending
<1>14. GroupInv(o)' /\ UniqueInv(o)'
  BY <1>3, <1>7, <1>8, <1>11, <1>12 DEF ObjectInv, GroupInv, UniqueInv
<1>15. refcount'[o] = References(o)'
  <2>1. PICK y \in Int : y = -pending[o]
    BY ObjectFacts
  <2>2. /\ One(appref[o])' = One(appref[o]) + 0 /\ One(Closed(o))' = One(Closed(o)) + 0
        /\ One(Some("release", o))' = One(Some("release", o)) + 0
    BY <1>8, <1>12, <1>13 DEF One
  <2>3. /\ running'[o] = running[o] + 0 /\ pending'[o] = pending[o] + y
        /\ refcount'[o] = refcount[o] + (0 + y + 0 + 0 + 0)
    BY <1>8, <1>11, <2>1, ObjectFacts
  <2>4. Adds(o, 0, y, 0, 0, 0)
    BY <2>2, <2>3 DEF Adds
  <2>5. 0 \in Int /\ y \in Int /\ life[o] = "alive"
    BY <1>4
  <2> QED
    BY <2>3, <2>4, <2>5, SumNext, Zenon
<1>16. AliveInv(o)'
  <2>1. refcount[o] # 0 /\ ~Some("unlock", o)
    BY <1>2, <1>3, <1>4, LastReference DEF ObjectInv, AliveInv
  <2> QED
    BY <1>3, <1>4, <1>5, <1>8, <1>11, <1>12, <1>13, <1>15, <2>1 DEF ObjectInv, AliveInv
<1>17. GoneInv(o)'
  BY <1>4, <1>8 DEF GoneInv
<1>18. SimpleInv(o)'
  BY <1>3, <1>7, <1>8, <1>11, <1>13 DEF ObjectInv, UseInv, SimpleInv
<1>19. CallInv(o)'
  BY <1>3, <1>7, <1>8, <1>11, <1>13 DEF ObjectInv, UseInv, CallInv
<1>20. RetireInv(o)'
  BY <1>3, <1>7, <1>8, <1>11, <1>13, Constants DEF ObjectInv, UseInv, RetireInv
<1>21. TimerInv(o)'
  BY <1>3, <1>7, <1>8, <1>11, <1>12, Constants DEF ObjectInv, UseInv, TimerInv
<1> QED
  BY <1>7, <1>9, <1>10, <1>14, <1>16, <1>17, <1>18, <1>19, <1>20, <1>21, OneObject
     DEF ObjectInv, UseInv, Kept

\* A thread that does not close the group has it for itself.
LEMMA GroupFree ==
  ASSUME Types, TodoInv, LockInv, NEW t \in Threads, NEW name \in {"join", "ungroup"},
         At(t, name), Free("group", t)
  PROVE  owner["group"] = NoThread
<1>1. name \in ObjectNames /\ Role(name) = name
  BY RoleNames DEF ObjectNames
<1>2. ~Does(t, "leave", NoObject)
  BY <1>1, HeadDoes DEF MayFollow
<1> QED
  BY <1>2 DEF LockInv, Free

\* The object leaves the group.
LEMMA UngroupObjects ==
  ASSUME Base, CoreInv', NEW t \in Threads, DoUngroup(t)
  PROVE  Kept
<1>1. /\ Types /\ TodoInv /\ LockInv /\ Types' /\ At(t, "ungroup") /\ Free("group", t) /\ Continue(t)
      /\ "ungroup" \in ObjectNames /\ Role("ungroup") = "ungroup"
  BY RoleNames DEF Base, CoreInv, DoUngroup, ObjectNames
<1>2. PICK o \in Objects : o = Obj(t) /\ Does(t, "ungroup", o)
  BY <1>1, HeadDoes
<1>3. /\ TodoInv'
      /\ \A u \in Threads : \A r, p : Does(u, r, p)' <=> Does(u, r, p) /\ ~(u = t /\ r = "ungroup" /\ p = o)
  BY <1>1, <1>2, ContinueDoes
<1>4. /\ UNCHANGED <<program, life, refcount, shutdown, pending, running, appref, closing, timers, owner>>
      /\ member' = [member EXCEPT ![o] = FALSE]
      /\ group'.members = IF member[o] THEN RemoveFirst(group.members, o) ELSE group.members
  BY <1>1, <1>2 DEF DoUngroup, appvars, countvars, Types, GroupTypes
<1>5. ObjectInv(o)
  BY ObjectFacts
<1>6. owner["group"] = NoThread
  BY <1>1, GroupFree
<1>7. /\ life[o] = "alive" /\ Does(t, "unlock", o) /\ refcount[o] = 0
  BY <1>2, <1>5, UsedIsAlive DEF ObjectInv, GroupInv, AliveInv, Some
<1>8. /\ ~appref[o] /\ pending[o] = 0 /\ running[o] = 0 /\ ~Closed(o) /\ o \notin timers
      /\ \A u \in Threads : \A r \in {"submit", "join", "release", "cancel", "waits", "ref",
                                         "unset", "retire", "rearm"} : ~Does(u, r, o)
  BY <1>7, LastReference
<1>9. ~Gathered(o)
  BY <1>8 DEF Closed
<1>10. /\ Distinct(group'.members) /\ ToSet(group'.members) = ToSet(group.members) \ {o}
  <2>1. PICK m \in Seq(Objects) : m = group.members /\ Distinct(m)
    BY <1>1 DEF Types, GroupTypes, LockInv
  <2>2. Distinct(RemoveFirst(m, o)) /\ ToSet(RemoveFirst(m, o)) = ToSet(m) \ {o}
    BY <2>1, RemoveFirstDistinct
  <2>3. ~member[o] => o \notin ToSet(m)
    BY <1>9, <2>1 DEF Gathered
  <2> QED
    BY <1>4, <2>1, <2>2, <2>3
<1>11. \A p \in Objects : p # o => Same(p)
  <2>1. \A p \in Objects : p # o => \A u \in Threads : \A r : Does(u, r, p)' <=> Does(u, r, p)
    BY <1>3
  <2> QED
    BY <1>1, <1>4, <1>10, <2>1 DEF Same, In, Types, ObjectTypes
<1>12. /\ ~In(o)' /\ member'[o] = FALSE /\ ~Gathered(o)' /\ Kind(o)' = Kind(o)
       /\ GroupMembers' = GroupMembers /\ Executing(o)' = Executing(o) /\ Executing(o) = running[o]
  BY <1>1, <1>4, <1>10
     DEF In, Gathered, Kind, GroupMembers, Types, ObjectTypes, Base, CoreInv, CountInv, RunningInv
<1>13. \A r : r # "ungroup" => (Some(r, o)' <=> Some(r, o))
  BY <1>3 DEF Some
<1>14. ~Closed(o)' /\ ~Some("release", o) /\ ~Some("ref", o)
  BY <1>8, <1>12, <1>13 DEF Closed, Some
<1>15. \A u \in Threads : ~Does(u, "gather", o)
  BY <1>5, <1>6, Constants DEF ObjectInv, GroupInv
<1>16. \A u \in Threads : ~Does(u, "ungroup", o)'
  BY <1>2, <1>3, <1>5 DEF ObjectInv, GroupInv, UniqueInv
<1>17. GroupInv(o)'
  BY <1>3, <1>4, <1>6, <1>8, <1>12, <1>15, <1>16, Constants DEF GroupInv
<1>18. UniqueInv(o)'
  BY <1>3, <1>5 DEF ObjectInv, UniqueInv
<1>19. refcount'[o] = References(o)'
  <2>1. /\ One(appref[o])' = 0 /\ One(Closed(o))' = 0 /\ One(Some("release", o))' = 0
    BY <1>4, <1>8, <1>13, <1>14 DEF One
  <2> QED
    BY <1>4, <1>7, <1>8, <1>12, <2>1 DEF References
<1>20. AliveInv(o)'
  <2>1. ~Some("submit", o)
    BY <1>8 DEF Some
  <2> QED
    BY <1>4, <1>5, <1>7, <1>8, <1>12, <1>13, <1>14, <1>19, <2>1 DEF ObjectInv, AliveInv
<1>21. GoneInv(o)'
  BY <1>4, <1>7 DEF GoneInv
<1>22. SimpleInv(o)' /\ CallInv(o)' /\ RetireInv(o)'
  BY <1>3, <1>8 DEF SimpleInv, CallInv, RetireInv
<1>23. TimerInv(o)'
  BY <1>3, <1>4, <1>5, <1>8, Constants DEF ObjectInv, UseInv, TimerInv
<1>24. LockInv'
  <2>1. \A u \in Threads : Does(u, "leave", NoObject)' <=> Does(u, "leave", NoObject)
    BY <1>3
  <2>2. todo'[TimerThread] # <<>> => todo[TimerThread] # <<>>
    BY <1>1, <1>3, TimerTodo, Constants
  <2> QED
    BY <1>1, <1>4, <1>10, <2>1, <2>2 DEF LockInv
<1>25. Still
  BY <1>4 DEF Still
<1> QED
  BY <1>3, <1>11, <1>17, <1>18, <1>20, <1>21, <1>22, <1>23, <1>24, <1>25, OneObject
     DEF ObjectInv, UseInv, Kept

\* tp_threadpool_unlock: the object is freed.
LEMMA UnlockObjects ==
  ASSUME Base, CoreInv', NEW t \in Threads, DoUnlock(t)
  PROVE  Kept
<1>1. /\ Types /\ TodoInv /\ LockInv /\ Types' /\ At(t, "unlock") /\ Continue(t)
      /\ "unlock" \in ObjectNames /\ Role("unlock") = "unlock"
  BY RoleNames DEF Base, CoreInv, DoUnlock, ObjectNames
<1>2. PICK o \in Objects : o = Obj(t) /\ Does(t, "unlock", o)
  BY <1>1, HeadDoes
<1>3. /\ TodoInv'
      /\ \A u \in Threads : \A r, p : Does(u, r, p)' <=> Does(u, r, p) /\ ~(u = t /\ r = "unlock" /\ p = o)
  BY <1>1, <1>2, ContinueDoes
<1>4. /\ UNCHANGED <<program, refcount, shutdown, pending, running, appref, member, group, closing, timers,
                     owner>>
      /\ life' = [life EXCEPT ![o] = "freed"]
  BY <1>1, <1>2 DEF DoUnlock, appvars, groupvars, countvars
<1>5. ObjectInv(o)
  BY ObjectFacts
<1>6. life[o] = "alive" /\ refcount[o] = 0
  BY <1>2, <1>5, UsedIsAlive DEF ObjectInv, AliveInv, Some
<1>7. /\ ~appref[o] /\ pending[o] = 0 /\ running[o] = 0 /\ ~Closed(o) /\ o \notin timers
      /\ \A u \in Threads : \A r \in {"submit", "join", "release", "cancel", "waits", "ref",
                                         "unset", "retire", "rearm"} : ~Does(u, r, o)
  BY <1>6, LastReference
<1>8. /\ ~Does(t, "ungroup", o) /\ \A u \in Threads : Does(u, "unlock", o) => u = t
  <2>1. ~Does(t, "ungroup", o)
    BY <1>1, HeadDoes DEF MayFollow
  <2> QED
    BY <1>2, <1>5, <2>1 DEF ObjectInv, UniqueInv
<1>9. ~In(o) /\ ~member[o]
  BY <1>2, <1>5, <1>8 DEF ObjectInv, GroupInv
<1>10. \A u \in Threads : ~Does(u, "ungroup", o) /\ ~Does(u, "gather", o)
  BY <1>5, <1>8, <1>9 DEF ObjectInv, GroupInv
<1>11. \A u \in Threads : ~Does(u, "leave", o)
  BY <1>1, TimerOnly, Constants
<1>12. \A u \in Threads : \A r \in Roles : ~Does(u, r, o)'
  BY <1>3, <1>7, <1>8, <1>10, <1>11 DEF Roles
<1>13. \A p \in Objects : p # o => Same(p)
  <2>1. \A p \in Objects : p # o => \A u \in Threads : \A r : Does(u, r, p)' <=> Does(u, r, p)
    BY <1>3
  <2> QED
    BY <1>1, <1>4, <2>1 DEF Same, In, Types, ObjectTypes
<1>14. /\ ~In(o)' /\ ~member'[o] /\ ~Gathered(o)' /\ life'[o] = "freed" /\ Executing(o)' = 0
  BY <1>1, <1>4, <1>7, <1>9
     DEF In, Gathered, Types, ObjectTypes, Base, CoreInv, CountInv, RunningInv
<1>15. GroupInv(o)' /\ UniqueInv(o)'
  BY <1>12, <1>14 DEF GroupInv, UniqueInv, Roles
<1>16. AliveInv(o)'
  BY <1>14 DEF AliveInv
<1>17. GoneInv(o)'
  BY <1>4, <1>6, <1>7, <1>12, <1>14 DEF GoneInv, Some
<1>18. SimpleInv(o)' /\ CallInv(o)' /\ RetireInv(o)'
  BY <1>12 DEF SimpleInv, CallInv, RetireInv, Roles
<1>19. TimerInv(o)'
  BY <1>4, <1>7, <1>12, Constants DEF TimerInv
<1>20. Still /\ LockInv'
  <2>1. \A u \in Threads : Does(u, "leave", NoObject)' <=> Does(u, "leave", NoObject)
    BY <1>3
  <2>2. \A r, p : Does(TimerThread, r, p)' => Does(TimerThread, r, p)
    BY <1>3, Constants
  <2> QED
    BY <1>1, <1>4, <2>1, <2>2, LockSame DEF Still
<1> QED
  BY <1>3, <1>13, <1>15, <1>16, <1>17, <1>18, <1>19, <1>20, OneObject
     DEF ObjectInv, UseInv, Kept

\* The references of an object, when a step changes none of them.
LEMMA SumSame ==
  ASSUME Base, CoreInv', NEW o \in Objects, life[o] = "alive",
         refcount'[o] = refcount[o], pending'[o] = pending[o], running'[o] = running[o],
         appref'[o] = appref[o], Some("release", o)' <=> Some("release", o), Closed(o)' <=> Closed(o)
  PROVE  refcount'[o] = References(o)' /\ Executing(o)' = Executing(o)
<1>1. /\ One(appref[o])' = One(appref[o]) /\ One(Closed(o))' = One(Closed(o))
      /\ One(Some("release", o))' = One(Some("release", o))
  BY DEF One
<1>2. Executing(o)' = Executing(o)
  BY DEF Base, CoreInv, CountInv, RunningInv
<1>3. refcount[o] = References(o)
  BY ObjectFacts DEF ObjectInv, AliveInv
<1> QED
  BY <1>1, <1>2, <1>3 DEF References

\* A timer leaves the timer queue: the timer thread is not at it.
LEMMA UnsetObjects ==
  ASSUME Base, CoreInv', NEW t \in Threads, DoUnset(t)
  PROVE  Kept
<1>1. /\ Types /\ TodoInv /\ LockInv /\ Types' /\ At(t, "unset") /\ Continue(t) /\ Free("timer", t)
      /\ "unset" \in ObjectNames /\ Role("unset") = "unset"
  BY RoleNames DEF Base, CoreInv, DoUnset, ObjectNames
<1>2. PICK o \in Objects : o = Obj(t) /\ Does(t, "unset", o)
  BY <1>1, HeadDoes
<1>3. /\ TodoInv'
      /\ \A u \in Threads : \A r, p : Does(u, r, p)' <=> Does(u, r, p) /\ ~(u = t /\ r = "unset" /\ p = o)
  BY <1>1, <1>2, ContinueDoes
<1>4. /\ UNCHANGED <<program, life, refcount, shutdown, pending, running, appref, member, group, closing,
                     owner>>
      /\ timers' = timers \ {o}
  BY <1>1, <1>2 DEF DoUnset, appvars, groupvars, countvars
<1>5. ObjectInv(o)
  BY ObjectFacts
<1>6. life[o] = "alive" /\ t # TimerThread
  BY <1>1, <1>2, UsedIsAlive, TimerOnly
<1>7. \A r : ~Does(TimerThread, r, o)
  <2>1. todo[TimerThread] = <<>>
    BY <1>1, <1>6, Constants DEF LockInv, Free
  <2>2. ToSet(<<>>) = {}
    BY DEF ToSet
  <2> QED
    BY <2>1, <2>2 DEF Does, Todo
<1>8. \A p \in Objects : p # o => Same(p)
  <2>1. \A p \in Objects : p # o => \A u \in Threads : \A r : Does(u, r, p)' <=> Does(u, r, p)
    BY <1>3
  <2> QED
    BY <1>1, <1>4, <2>1 DEF Same, In, Types, ObjectTypes
<1>9. /\ (In(o)' <=> In(o)) /\ (Gathered(o)' <=> Gathered(o)) /\ Kind(o)' = Kind(o)
      /\ GroupMembers' = GroupMembers /\ o \notin timers'
  BY <1>4 DEF In, Gathered, Kind, GroupMembers
<1>10. \A r : r # "unset" => (Some(r, o)' <=> Some(r, o))
  BY <1>3 DEF Some
<1>11. (Closed(o)' <=> Closed(o)) /\ (Ending(o)' <=> Ending(o))
  BY <1>9, <1>10 DEF Closed, Ending
<1>12. GroupInv(o)' /\ UniqueInv(o)'
  BY <1>3, <1>4, <1>5, <1>9, <1>10 DEF ObjectInv, GroupInv, UniqueInv
<1>13. refcount'[o] = References(o)' /\ Executing(o)' = Executing(o)
  BY <1>4, <1>6, <1>10, <1>11, SumSame
<1>14. AliveInv(o)'
  BY <1>4, <1>5, <1>6, <1>9, <1>10, <1>11, <1>13 DEF ObjectInv, AliveInv
<1>15. GoneInv(o)'
  BY <1>4, <1>6 DEF GoneInv
<1>16. SimpleInv(o)'
  BY <1>3, <1>4, <1>5, <1>9, <1>11, <1>13 DEF ObjectInv, UseInv, SimpleInv
<1>17. CallInv(o)'
  BY <1>3, <1>4, <1>5, <1>9, <1>11 DEF ObjectInv, UseInv, CallInv
<1>18. RetireInv(o)'
  BY <1>3, <1>4, <1>5, <1>9, <1>11, Constants DEF ObjectInv, UseInv, RetireInv
<1>19. TimerInv(o)'
  BY <1>3, <1>7, <1>9, Constants DEF TimerInv
<1>20. Still /\ LockInv'
  <2>1. \A u \in Threads : Does(u, "leave", NoObject)' <=> Does(u, "leave", NoObject)
    BY <1>3
  <2>2. \A r, p : Does(TimerThread, r, p)' => Does(TimerThread, r, p)
    BY <1>3, Constants
  <2> QED
    BY <1>1, <1>4, <2>1, <2>2, LockSame DEF Still
<1> QED
  BY <1>3, <1>8, <1>12, <1>14, <1>15, <1>16, <1>17, <1>18, <1>19, <1>20, OneObject
     DEF ObjectInv, UseInv, Kept

\* A member is gathered: it is dropped if its last reference is gone, and gets a
\* reference if not.
LEMMA GatherObjects ==
  ASSUME Base, CoreInv', NEW t \in Threads, DoGather(t)
  PROVE  Kept
<1>1. /\ Types /\ TodoInv /\ LockInv /\ Types' /\ At(t, "gather")
      /\ "gather" \in ObjectNames /\ Role("gather") = "gather"
  BY RoleNames DEF Base, CoreInv, DoGather, ObjectNames
<1>2. PICK o \in Objects : o = Obj(t) /\ Does(t, "gather", o)
  BY <1>1, HeadDoes
<1>3. /\ TodoInv'
      /\ \A u \in Threads : \A r, p :
           Does(u, r, p)' <=>
             \/ Does(u, r, p) /\ ~(u = t /\ r = "gather" /\ p = o)
             \/ u = t /\ r = "unset" /\ p = o /\ refcount[o] # 0 /\ Kind(o) = "timer"
  BY <1>1, <1>2, DoGatherDoes
<1>4. /\ UNCHANGED <<program, life, shutdown, pending, running, appref, closing, timers, owner>>
      /\ member' = [member EXCEPT ![o] = FALSE]
      /\ refcount[o] = 0 => group'.members = RemoveFirst(group.members, o) /\ refcount' = refcount
      /\ refcount[o] # 0 => group' = group /\ refcount' = [refcount EXCEPT ![o] = @ + 1]
  BY <1>1, <1>2 DEF DoGather, appvars, countvars, Types, GroupTypes
<1>5. ObjectInv(o)
  BY ObjectFacts
<1>6. /\ life[o] = "alive" /\ t # TimerThread /\ owner["group"] = t /\ member[o] /\ In(o)
      /\ o \in GroupMembers /\ ~Gathered(o) /\ owner["group"] # NoThread
  BY <1>1, <1>2, <1>5, UsedIsAlive, TimerOnly, Constants DEF ObjectInv, GroupInv, Gathered
<1>7. \A u \in Threads : ~Does(u, "ref", o) /\ ~Does(u, "join", o) /\ (Does(u, "gather", o) => u = t)
  BY <1>5, <1>6 DEF ObjectInv, GroupInv
<1>8. ~Closed(o) /\ Ending(o)
  BY <1>2, <1>6, <1>7 DEF Closed, Ending, Some
<1>9. /\ Distinct(group'.members)
      /\ ToSet(group'.members) = IF refcount[o] = 0 THEN ToSet(group.members) \ {o} ELSE ToSet(group.members)
  <2>1. PICK m \in Seq(Objects) : m = group.members /\ Distinct(m)
    BY <1>1 DEF Types, GroupTypes, LockInv
  <2>2. Distinct(RemoveFirst(m, o)) /\ ToSet(RemoveFirst(m, o)) = ToSet(m) \ {o}
    BY <2>1, RemoveFirstDistinct
  <2> QED
    BY <1>4, <2>1, <2>2
<1>10. \A p \in Objects : p # o => Same(p)
  <2>1. \A p \in Objects : p # o => \A u \in Threads : \A r : Does(u, r, p)' <=> Does(u, r, p)
    BY <1>3
  <2>2. \A p \in Objects : p # o => (In(p)' <=> In(p))
    BY <1>9 DEF In
  <2>3. \A p \in Objects : p # o => refcount'[p] = refcount[p]
    BY <1>1, <1>4 DEF Types, ObjectTypes
  <2> QED
    BY <1>1, <1>4, <2>1, <2>2, <2>3 DEF Same, Types, ObjectTypes
<1>11. Still /\ LockInv'
  <2>1. \A u \in Threads : Does(u, "leave", NoObject)' <=> Does(u, "leave", NoObject)
    BY <1>3
  <2>2. \A r, p : Does(TimerThread, r, p)' => Does(TimerThread, r, p)
    BY <1>3, <1>6, Constants
  <2>3. todo'[TimerThread] # <<>> => todo[TimerThread] # <<>>
    BY <1>1, <2>2, TimerTodo
  <2> QED
    BY <1>1, <1>4, <1>9, <2>1, <2>3 DEF LockInv, Still
<1>12. /\ ~member'[o] /\ Kind(o)' = Kind(o) /\ GroupMembers' = GroupMembers
       /\ Executing(o)' = Executing(o) /\ Executing(o) = running[o]
  BY <1>1, <1>4 DEF Kind, GroupMembers, Types, ObjectTypes, Base, CoreInv, CountInv, RunningInv
<1>13. GoneInv(o)'
  BY <1>4, <1>6 DEF GoneInv
<1>14. CASE refcount[o] = 0
  <2>1. /\ ~appref[o] /\ pending[o] = 0 /\ running[o] = 0 /\ o \notin timers
        /\ \A u \in Threads : \A r \in {"submit", "join", "release", "cancel", "waits", "ref",
                                           "unset", "retire", "rearm"} : ~Does(u, r, o)
    BY <1>6, <1>14, LastReference
  <2>2. \A u \in Threads : \A r : Does(u, r, o)' <=> Does(u, r, o) /\ ~(u = t /\ r = "gather")
    BY <1>3, <1>14
  <2>3. ~In(o)' /\ ~Gathered(o)'
    BY <1>9, <1>14 DEF In, Gathered
  <2>4. \A r : r # "gather" => (Some(r, o)' <=> Some(r, o))
    BY <2>2 DEF Some
  <2>5. ~Closed(o)' /\ ~Some("release", o) /\ ~Some("submit", o)
    BY <2>1, <2>3, <2>4 DEF Closed, Some
  <2>6. GroupInv(o)'
    BY <1>4, <1>5, <1>6, <1>7, <1>12, <2>1, <2>2, <2>3 DEF ObjectInv, GroupInv
  <2>7. UniqueInv(o)'
    BY <1>5, <2>2 DEF ObjectInv, UniqueInv
  <2>8. refcount'[o] = References(o)'
    <3>1. One(appref[o])' = 0 /\ One(Closed(o))' = 0 /\ One(Some("release", o))' = 0
      BY <1>4, <2>1, <2>4, <2>5 DEF One
    <3> QED
      BY <1>4, <1>12, <1>14, <2>1, <3>1 DEF References
  <2>9. AliveInv(o)'
    BY <1>4, <1>5, <1>6, <1>8, <1>12, <1>14, <2>1, <2>4, <2>5, <2>8 DEF ObjectInv, AliveInv
  <2>10. SimpleInv(o)' /\ CallInv(o)' /\ RetireInv(o)'
    BY <2>1, <2>2 DEF SimpleInv, CallInv, RetireInv
  <2>11. TimerInv(o)'
    BY <1>4, <1>5, <1>6, <2>1, <2>2, Constants DEF ObjectInv, UseInv, TimerInv
  <2> QED
    BY <1>3, <1>10, <1>11, <1>13, <2>6, <2>7, <2>9, <2>10, <2>11, OneObject
       DEF ObjectInv, UseInv, Kept
<1>15. CASE refcount[o] # 0
  <2>1. \A u \in Threads : \A r :
           Does(u, r, o)' <=> \/ Does(u, r, o) /\ ~(u = t /\ r = "gather")
                              \/ u = t /\ r = "unset" /\ Kind(o) = "timer"
    BY <1>3, <1>15
  <2>2. In(o)' /\ Gathered(o)'
    BY <1>4, <1>6, <1>12, <1>15 DEF In, Gathered
  <2>3. \A r : r \notin {"gather", "unset"} => (Some(r, o)' <=> Some(r, o))
    BY <2>1 DEF Some
  <2>4. Closed(o)'
    BY <2>2 DEF Closed
  <2>5. \A u \in Threads : ~Does(u, "unlock", o) /\ ~Does(u, "ungroup", o)
    BY <1>5, <1>6, <1>15 DEF ObjectInv, AliveInv, GroupInv, Some
  <2>6. GroupInv(o)'
    BY <1>4, <1>6, <1>7, <1>12, <2>1, <2>2, <2>5 DEF GroupInv
  <2>7. UniqueInv(o)'
    BY <1>5, <2>1 DEF ObjectInv, UniqueInv
  <2>8. refcount'[o] = References(o)'
    <3>1. /\ One(appref[o])' = One(appref[o]) + 0 /\ One(Closed(o))' = One(Closed(o)) + 1
          /\ One(Some("release", o))' = One(Some("release", o)) + 0
      BY <1>4, <1>8, <2>3, <2>4 DEF One
    <3>2. refcount'[o] = refcount[o] + 1
      BY <1>1, <1>4, <1>15 DEF Types, ObjectTypes
    <3>3. /\ running'[o] = running[o] + 0 /\ pending'[o] = pending[o] + 0
          /\ refcount'[o] = refcount[o] + (0 + 0 + 0 + 0 + 1)
      BY <1>4, <3>2, ObjectFacts
    <3>4. Adds(o, 0, 0, 0, 0, 1)
      BY <3>1, <3>3 DEF Adds
    <3>5. 0 \in Int /\ 1 \in Int /\ life[o] = "alive"
      BY <1>6
    <3> QED
      BY <3>3, <3>4, <3>5, SumNext, Zenon
  <2>9. AliveInv(o)'
    <3>1. ~Some("unlock", o)
      BY <2>5 DEF Some
    <3> QED
      BY <1>4, <1>5, <1>6, <1>12, <2>3, <2>4, <2>8, <3>1 DEF ObjectInv, AliveInv
  <2>10. SimpleInv(o)'
    BY <1>5, <1>6, <1>7, <1>12, <2>1 DEF ObjectInv, UseInv, SimpleInv
  <2>11. \A u \in Threads : ~Does(u, "waits", o) /\ ~Does(u, "cancel", o)
    BY <1>1, <1>5, <1>7, <1>8, TimerOnly DEF ObjectInv, UseInv, CallInv
  <2>12. CallInv(o)'
    <3>1. \A u \in Threads : u # TimerThread /\ Kind(o) # "simple" => ~Does(u, "submit", o)
      BY <1>5, <1>8 DEF ObjectInv, UseInv, CallInv
    <3> QED
      BY <1>7, <1>12, <2>1, <2>11, <3>1 DEF CallInv
  <2>13. \A u \in Threads : ~Does(u, "retire", o) /\ ~Does(u, "unset", o)
    <3>1. t \in Callers \union Workers /\ "gather" \in Roles
      BY <1>6, Constants DEF Roles
    <3>2. \A u \in Threads : ~Does(u, "retire", o)
      BY <1>2, <1>5, <3>1 DEF ObjectInv, UseInv, RetireInv
    <3> QED
      BY <1>5, <1>6, <3>2 DEF ObjectInv, UseInv, RetireInv
  <2>14. RetireInv(o)'
    BY <1>4, <1>6, <2>1, <2>2, <2>13 DEF RetireInv
  <2>15. TimerInv(o)'
    <3>1. Kind(o) = "timer" => Some("unset", o)'
      BY <2>1 DEF Some
    <3> QED
      BY <1>4, <1>5, <1>6, <1>12, <2>1, <2>3, <2>13, <3>1, Constants
         DEF ObjectInv, UseInv, TimerInv
  <2> QED
    BY <1>3, <1>10, <1>11, <1>13, <2>6, <2>7, <2>9, <2>10, <2>12, <2>14, <2>15, OneObject
       DEF ObjectInv, UseInv, Kept
<1> QED
  BY <1>14, <1>15

\* submit_expired_timers ends: a periodic timer is queued again.
LEMMA RearmObjects ==
  ASSUME Base, CoreInv', NEW t \in Threads, DoRearm(t)
  PROVE  Kept
<1>1. /\ Types /\ TodoInv /\ LockInv /\ Types' /\ At(t, "rearm") /\ Continue(t)
      /\ "rearm" \in ObjectNames /\ Role("rearm") = "rearm" /\ "rearm" \in Roles
  BY RoleNames DEF Base, CoreInv, DoRearm, ObjectNames, Roles
<1>2. PICK o \in Objects : o = Obj(t) /\ Does(t, "rearm", o)
  BY <1>1, HeadDoes
<1>3. /\ TodoInv'
      /\ \A u \in Threads : \A r, p : Does(u, r, p)' <=> Does(u, r, p) /\ ~(u = t /\ r = "rearm" /\ p = o)
  BY <1>1, <1>2, ContinueDoes
<1>4. /\ UNCHANGED <<program, life, refcount, shutdown, pending, running, appref, member, group, closing>>
      /\ timers' \in {timers, timers \union {o}} /\ owner' = [owner EXCEPT !["timer"] = NoThread]
  BY <1>1, <1>2 DEF DoRearm, appvars, groupvars, countvars
<1>5. ObjectInv(o)
  BY ObjectFacts
<1>6. life[o] = "alive" /\ t = TimerThread
  BY <1>1, <1>2, UsedIsAlive, TimerOnly
<1>7. owner'["group"] = owner["group"] /\ owner'["timer"] = NoThread
  BY <1>1, <1>4 DEF Types, ObjectTypes, Locks
<1>8. \A p \in Objects : p # o => Same(p)
  <2>1. \A p \in Objects : p # o => \A u \in Threads : \A r : Does(u, r, p)' <=> Does(u, r, p)
    BY <1>3
  <2> QED
    BY <1>1, <1>4, <2>1 DEF Same, In, Types, ObjectTypes
<1>9. /\ (In(o)' <=> In(o)) /\ (Gathered(o)' <=> Gathered(o)) /\ Kind(o)' = Kind(o)
      /\ GroupMembers' = GroupMembers
  BY <1>4 DEF In, Gathered, Kind, GroupMembers
<1>10. \A r : r # "rearm" => (Some(r, o)' <=> Some(r, o))
  BY <1>3 DEF Some
<1>11. (Closed(o)' <=> Closed(o)) /\ (Ending(o)' <=> Ending(o))
  BY <1>9, <1>10 DEF Closed, Ending
<1>12. GroupInv(o)' /\ UniqueInv(o)'
  BY <1>3, <1>4, <1>5, <1>7, <1>9, <1>10 DEF ObjectInv, GroupInv, UniqueInv
<1>13. refcount'[o] = References(o)' /\ Executing(o)' = Executing(o)
  BY <1>4, <1>6, <1>10, <1>11, SumSame
<1>14. AliveInv(o)'
  BY <1>4, <1>5, <1>6, <1>9, <1>10, <1>11, <1>13 DEF ObjectInv, AliveInv
<1>15. GoneInv(o)'
  BY <1>4, <1>6 DEF GoneInv
<1>16. SimpleInv(o)'
  BY <1>3, <1>4, <1>5, <1>9, <1>11, <1>13 DEF ObjectInv, UseInv, SimpleInv
<1>17. CallInv(o)'
  BY <1>3, <1>4, <1>5, <1>9, <1>11 DEF ObjectInv, UseInv, CallInv
<1>18. RetireInv(o)'
  BY <1>3, <1>4, <1>5, <1>7, <1>9, <1>11, Constants DEF ObjectInv, UseInv, RetireInv
<1>19. TimerInv(o)'
  BY <1>1, <1>2, <1>3, <1>4, <1>5, <1>6, <1>9, <1>10 DEF ObjectInv, UseInv, TimerInv
<1>20. todo'[TimerThread] = <<>>
  <2>1. \A r, p : ~Does(TimerThread, r, p)'
    BY <1>1, <1>2, <1>3, <1>6, HeadDoes DEF MayFollow
  <2>2. \A r, p : Does(TimerThread, r, p)' <=> Gives(todo'[TimerThread], r, p)
    BY DEF Does, Gives, Todo
  <2>3. todo'[TimerThread] \in Seq(Ops)
    BY <1>1, Constants DEF Types, ObjectTypes
  <2> QED
    BY <2>1, <2>2, <2>3, TodoEmpty
<1>21. Still /\ LockInv'
  <2>1. \A u \in Threads : Does(u, "leave", NoObject)' <=> Does(u, "leave", NoObject)
    BY <1>3
  <2> QED
    BY <1>1, <1>4, <1>7, <1>20, <2>1 DEF Still, LockInv
<1> QED
  BY <1>3, <1>8, <1>12, <1>14, <1>15, <1>16, <1>17, <1>18, <1>19, <1>21, OneObject
     DEF ObjectInv, UseInv, Kept

\* A timer expires.
LEMMA ExpireObjects ==
  ASSUME Base, CoreInv', NEW o \in Objects, TimerExpires(o)
  PROVE  Kept
<1>1. Types /\ TodoInv /\ LockInv /\ Types' /\ o \in timers
  BY DEF Base, CoreInv, TimerExpires
<1>3. /\ TodoInv'
      /\ \A u \in Threads : \A r, p :
           Does(u, r, p)' <=> Does(u, r, p) \/ (u = TimerThread /\ p = o /\ r \in {"submit", "rearm"})
  BY <1>1, TimerExpiresDoes
<1>4. /\ UNCHANGED <<program, life, refcount, shutdown, pending, running, appref, member, group, closing>>
      /\ timers' = timers \ {o} /\ owner' = [owner EXCEPT !["timer"] = TimerThread]
  BY <1>1 DEF TimerExpires, appvars, groupvars, countvars
<1>5. ObjectInv(o)
  BY ObjectFacts
<1>6. /\ life[o] = "alive" /\ Kind(o) = "timer" /\ appref[o]
  BY <1>1, <1>5, ObjectFacts DEF ObjectInv, GoneInv, UseInv, TimerInv
<1>7. owner'["group"] = owner["group"] /\ owner'["timer"] = TimerThread
  BY <1>1, <1>4 DEF Types, ObjectTypes, Locks
<1>8. \A p \in Objects : p # o => Same(p)
  <2>1. \A p \in Objects : p # o => \A u \in Threads : \A r : Does(u, r, p)' <=> Does(u, r, p)
    BY <1>3
  <2> QED
    BY <1>1, <1>4, <2>1 DEF Same, In, Types, ObjectTypes
<1>9. /\ (In(o)' <=> In(o)) /\ (Gathered(o)' <=> Gathered(o)) /\ Kind(o)' = Kind(o)
      /\ GroupMembers' = GroupMembers
  BY <1>4 DEF In, Gathered, Kind, GroupMembers
<1>10. \A r : r \notin {"submit", "rearm"} => (Some(r, o)' <=> Some(r, o))
  BY <1>3 DEF Some
<1>11. (Closed(o)' <=> Closed(o)) /\ (Ending(o)' <=> Ending(o))
  BY <1>9, <1>10 DEF Closed, Ending
<1>12. GroupInv(o)' /\ UniqueInv(o)'
  BY <1>3, <1>4, <1>5, <1>7, <1>9, <1>10 DEF ObjectInv, GroupInv, UniqueInv
<1>13. refcount'[o] = References(o)' /\ Executing(o)' = Executing(o)
  BY <1>4, <1>6, <1>10, <1>11, SumSame
<1>14. AliveInv(o)'
  BY <1>4, <1>5, <1>6, <1>9, <1>10, <1>11, <1>13 DEF ObjectInv, AliveInv
<1>15. GoneInv(o)'
  BY <1>4, <1>6 DEF GoneInv
<1>16. SimpleInv(o)'
  BY <1>3, <1>5, <1>6, <1>9 DEF ObjectInv, UseInv, SimpleInv
<1>17. CallInv(o)'
  BY <1>3, <1>4, <1>5, <1>6, <1>9, <1>11 DEF ObjectInv, UseInv, CallInv
<1>18. RetireInv(o)'
  BY <1>3, <1>4, <1>5, <1>7, <1>9, <1>11, Constants DEF ObjectInv, UseInv, RetireInv
<1>19. TimerInv(o)'
  BY <1>1, <1>3, <1>4, <1>5, <1>9, <1>10 DEF ObjectInv, UseInv, TimerInv
<1>20. Still /\ LockInv'
  <2>1. \A u \in Threads : Does(u, "leave", NoObject)' <=> Does(u, "leave", NoObject)
    BY <1>3
  <2> QED
    BY <1>1, <1>4, <1>7, <2>1 DEF Still, LockInv
<1> QED
  BY <1>3, <1>8, <1>12, <1>14, <1>15, <1>16, <1>17, <1>18, <1>19, <1>20, OneObject
     DEF ObjectInv, UseInv, Kept

\* TpSetTimer.
LEMMA SetTimerObjects ==
  ASSUME Base, CoreInv', NEW t \in Callers \union Workers, NEW o \in Objects,
         NEW when \in {"later", "now", "never"}, TpSetTimerEx(t, o, when)
  PROVE  Kept
<1>1. /\ Types /\ TodoInv /\ LockInv /\ Types' /\ MayCall(t, o) /\ Kind(o) = "timer"
      /\ t \in Threads /\ t # TimerThread
  BY Constants DEF Base, CoreInv, TpSetTimerEx
<1>3. /\ TodoInv'
      /\ \A u \in Threads : \A r, p :
           Does(u, r, p)' <=> Does(u, r, p) \/ (when = "now" /\ u = t /\ p = o /\ r = "submit")
  BY <1>1, TpSetTimerDoes
<1>4. /\ UNCHANGED <<program, life, refcount, shutdown, pending, running, appref, member, group, closing,
                     owner>>
      /\ timers' \in {timers \ {o}, timers \union {o}}
  BY <1>1 DEF TpSetTimerEx, appvars, groupvars, countvars
<1>5. ObjectInv(o)
  BY ObjectFacts
<1>6. /\ life[o] = "alive" /\ appref[o] /\ ~Ending(o) /\ ~Closed(o) /\ ~Gathered(o)
      /\ \A u \in Threads : \A r \in {"join", "release", "ungroup", "unlock", "ref", "unset",
                                         "retire", "gather"} : ~Does(u, r, o)
  BY <1>1, MayCallGives
<1>8. \A p \in Objects : p # o => Same(p)
  <2>1. \A p \in Objects : p # o => \A u \in Threads : \A r : Does(u, r, p)' <=> Does(u, r, p)
    BY <1>3
  <2> QED
    BY <1>1, <1>4, <2>1 DEF Same, In, Types, ObjectTypes
<1>9. /\ (In(o)' <=> In(o)) /\ (Gathered(o)' <=> Gathered(o)) /\ Kind(o)' = Kind(o)
      /\ GroupMembers' = GroupMembers
  BY <1>4 DEF In, Gathered, Kind, GroupMembers
<1>10. \A r : r # "submit" => (Some(r, o)' <=> Some(r, o))
  BY <1>3 DEF Some
<1>11. (Closed(o)' <=> Closed(o)) /\ (Ending(o)' <=> Ending(o))
  BY <1>9, <1>10 DEF Closed, Ending
<1>12. GroupInv(o)' /\ UniqueInv(o)'
  BY <1>3, <1>4, <1>5, <1>9, <1>10 DEF ObjectInv, GroupInv, UniqueInv
<1>13. refcount'[o] = References(o)' /\ Executing(o)' = Executing(o)
  <2>1. life[o] = "alive"
    BY <1>6
  <2> QED
    BY <1>4, <1>10, <1>11, <2>1, SumSame
<1>14. AliveInv(o)'
  BY <1>1, <1>4, <1>5, <1>6, <1>9, <1>10, <1>11, <1>13 DEF ObjectInv, AliveInv
<1>15. GoneInv(o)'
  BY <1>4, <1>6 DEF GoneInv
<1>16. SimpleInv(o)'
  BY <1>1, <1>3, <1>5, <1>9 DEF ObjectInv, UseInv, SimpleInv
<1>17. CallInv(o)'
  BY <1>1, <1>3, <1>4, <1>5, <1>6, <1>9, <1>11 DEF ObjectInv, UseInv, CallInv
<1>18. RetireInv(o)'
  BY <1>3, <1>6 DEF RetireInv
<1>19. TimerInv(o)'
  BY <1>1, <1>3, <1>4, <1>6, <1>9, <1>10, Constants DEF TimerInv, Some
<1>20. Still /\ LockInv'
  <2>1. \A u \in Threads : Does(u, "leave", NoObject)' <=> Does(u, "leave", NoObject)
    BY <1>3
  <2>2. \A r, p : Does(TimerThread, r, p)' => Does(TimerThread, r, p)
    BY <1>1, <1>3, Constants
  <2> QED
    BY <1>1, <1>4, <2>1, <2>2, LockSame DEF Still
<1> QED
  BY <1>3, <1>8, <1>12, <1>14, <1>15, <1>16, <1>17, <1>18, <1>19, <1>20, OneObject
     DEF ObjectInv, UseInv, Kept

\* TpReleaseWork and TpReleaseTimer begin: no other call is using the object.
LEMMA TpReleaseObjects ==
  ASSUME Base, CoreInv', NEW t \in Callers \union Workers, NEW o \in Objects, TpRelease(t, o)
  PROVE  Kept
<1>1. /\ Types /\ TodoInv /\ LockInv /\ Types' /\ MayCall(t, o) /\ ~InUse(o)
      /\ t \in Threads /\ t # TimerThread
  BY Constants DEF Base, CoreInv, TpRelease
<1>2. \A u \in Callers \union Workers : \A r : ~Does(u, r, o)
  BY <1>1 DEF InUse, Does, Todo
<1>3. /\ TodoInv'
      /\ \A u \in Threads : \A r, p :
           Does(u, r, p)' <=> \/ Does(u, r, p)
                              \/ /\ u = t /\ p = o
                                 /\ r = "retire" \/ (r = "unset" /\ Kind(o) = "timer")
  BY <1>1, TpReleaseDoes
<1>4. UNCHANGED <<program, life, refcount, shutdown, pending, running, appref, member, group, closing,
                  owner, timers>>
  BY <1>1 DEF TpRelease, appvars, groupvars, countvars
<1>5. ObjectInv(o)
  BY ObjectFacts
<1>6. /\ life[o] = "alive" /\ appref[o] /\ Kind(o) # "simple" /\ ~Closed(o) /\ ~Gathered(o)
      /\ \A u \in Threads : \A r \in {"join", "release", "ungroup", "unlock", "ref", "unset",
                                         "retire", "gather"} : ~Does(u, r, o)
  BY <1>1, MayCallGives
<1>8. \A p \in Objects : p # o => Same(p)
  <2>1. \A p \in Objects : p # o => \A u \in Threads : \A r : Does(u, r, p)' <=> Does(u, r, p)
    BY <1>3
  <2> QED
    BY <1>1, <1>4, <2>1 DEF Same, In, Types, ObjectTypes
<1>9. /\ (In(o)' <=> In(o)) /\ (Gathered(o)' <=> Gathered(o)) /\ Kind(o)' = Kind(o)
      /\ GroupMembers' = GroupMembers
  BY <1>4 DEF In, Gathered, Kind, GroupMembers
<1>10. \A r : r \notin {"retire", "unset"} => (Some(r, o)' <=> Some(r, o))
  BY <1>3 DEF Some
<1>11. Closed(o)' <=> Closed(o)
  BY <1>9, <1>10 DEF Closed
<1>12. GroupInv(o)' /\ UniqueInv(o)'
  BY <1>3, <1>4, <1>5, <1>9, <1>10 DEF ObjectInv, GroupInv, UniqueInv
<1>13. refcount'[o] = References(o)' /\ Executing(o)' = Executing(o)
  <2>1. life[o] = "alive"
    BY <1>6
  <2> QED
    BY <1>4, <1>10, <1>11, <2>1, SumSame
<1>14. AliveInv(o)'
  BY <1>1, <1>4, <1>5, <1>6, <1>9, <1>10, <1>11, <1>13 DEF ObjectInv, AliveInv
<1>15. GoneInv(o)'
  BY <1>4, <1>6 DEF GoneInv
<1>16. SimpleInv(o)'
  BY <1>3, <1>5, <1>6, <1>9 DEF ObjectInv, UseInv, SimpleInv
<1>17. \A u \in Threads : \A r : Does(u, r, o)' =>
          u = TimerThread \/ (u = t /\ r \in {"retire", "unset"})
  BY <1>2, <1>3, Constants
<1>18. CallInv(o)'
  <2>1. \A r : Does(TimerThread, r, o)' => r \in {"submit", "rearm"}
    BY <1>1, <1>3, TimerOnly, Constants
  <2> QED
    BY <1>1, <1>17, <2>1 DEF CallInv
<1>19. RetireInv(o)'
  BY <1>3, <1>4, <1>6, <1>11, <1>17, Constants DEF RetireInv
<1>20. TimerInv(o)'
  BY <1>1, <1>3, <1>4, <1>5, <1>6, <1>9, <1>10, Constants DEF ObjectInv, UseInv, TimerInv
<1>21. Still /\ LockInv'
  <2>1. \A u \in Threads : Does(u, "leave", NoObject)' <=> Does(u, "leave", NoObject)
    BY <1>3
  <2>2. \A r, p : Does(TimerThread, r, p)' => Does(TimerThread, r, p)
    BY <1>1, <1>3, Constants
  <2> QED
    BY <1>1, <1>4, <2>1, <2>2, LockSame DEF Still
<1> QED
  BY <1>3, <1>8, <1>12, <1>14, <1>15, <1>16, <1>18, <1>19, <1>20, <1>21, OneObject
     DEF ObjectInv, UseInv, Kept

\* TpWaitForWork and TpWaitForTimer begin.
LEMMA TpWaitObjects ==
  ASSUME Base, CoreInv', NEW c \in Callers, NEW o \in Objects, NEW cancel \in BOOLEAN,
         TpWaitForObject(c, o, cancel)
  PROVE  Kept
<1>1. /\ Types /\ TodoInv /\ LockInv /\ Types' /\ MayCall(c, o)
      /\ c \in Threads /\ c # TimerThread
  BY Constants DEF Base, CoreInv, TpWaitForObject
<1>3. /\ TodoInv'
      /\ \A u \in Threads : \A r, p :
           Does(u, r, p)' <=> \/ Does(u, r, p)
                              \/ u = c /\ p = o /\ (r = "waits" \/ (r = "cancel" /\ cancel))
  BY <1>1, TpWaitDoes
<1>4. UNCHANGED <<program, life, refcount, shutdown, pending, running, appref, member, group, closing,
                  owner, timers>>
  BY <1>1 DEF TpWaitForObject, appvars, groupvars, countvars
<1>5. ObjectInv(o)
  BY ObjectFacts
<1>6. /\ life[o] = "alive" /\ appref[o] /\ Kind(o) # "simple" /\ ~Ending(o) /\ ~Closed(o) /\ ~Gathered(o)
      /\ \A u \in Threads : \A r \in {"join", "release", "ungroup", "unlock", "ref", "unset",
                                         "retire", "gather"} : ~Does(u, r, o)
  BY <1>1, MayCallGives
<1>8. \A p \in Objects : p # o => Same(p)
  <2>1. \A p \in Objects : p # o => \A u \in Threads : \A r : Does(u, r, p)' <=> Does(u, r, p)
    BY <1>3
  <2> QED
    BY <1>1, <1>4, <2>1 DEF Same, In, Types, ObjectTypes
<1>9. /\ (In(o)' <=> In(o)) /\ (Gathered(o)' <=> Gathered(o)) /\ Kind(o)' = Kind(o)
      /\ GroupMembers' = GroupMembers
  BY <1>4 DEF In, Gathered, Kind, GroupMembers
<1>10. \A r : r \notin {"waits", "cancel"} => (Some(r, o)' <=> Some(r, o))
  BY <1>3 DEF Some
<1>11. (Closed(o)' <=> Closed(o)) /\ (Ending(o)' <=> Ending(o))
  BY <1>9, <1>10 DEF Closed, Ending
<1>12. GroupInv(o)' /\ UniqueInv(o)'
  BY <1>3, <1>4, <1>5, <1>9, <1>10 DEF ObjectInv, GroupInv, UniqueInv
<1>13. refcount'[o] = References(o)' /\ Executing(o)' = Executing(o)
  <2>1. life[o] = "alive"
    BY <1>6
  <2> QED
    BY <1>4, <1>10, <1>11, <2>1, SumSame
<1>14. AliveInv(o)'
  BY <1>1, <1>4, <1>5, <1>6, <1>9, <1>10, <1>11, <1>13 DEF ObjectInv, AliveInv
<1>15. GoneInv(o)'
  BY <1>4, <1>6 DEF GoneInv
<1>16. SimpleInv(o)'
  BY <1>3, <1>5, <1>6, <1>9 DEF ObjectInv, UseInv, SimpleInv
<1>17. CallInv(o)'
  BY <1>1, <1>3, <1>4, <1>5, <1>6, <1>9, <1>11 DEF ObjectInv, UseInv, CallInv
<1>18. RetireInv(o)'
  BY <1>3, <1>6 DEF RetireInv
<1>19. TimerInv(o)'
  BY <1>1, <1>3, <1>4, <1>5, <1>6, <1>9, <1>10, Constants DEF ObjectInv, UseInv, TimerInv
<1>20. Still /\ LockInv'
  <2>1. \A u \in Threads : Does(u, "leave", NoObject)' <=> Does(u, "leave", NoObject)
    BY <1>3
  <2>2. \A r, p : Does(TimerThread, r, p)' => Does(TimerThread, r, p)
    BY <1>1, <1>3, Constants
  <2> QED
    BY <1>1, <1>4, <2>1, <2>2, LockSame DEF Still
<1> QED
  BY <1>3, <1>8, <1>12, <1>14, <1>15, <1>16, <1>17, <1>18, <1>19, <1>20, OneObject
     DEF ObjectInv, UseInv, Kept

\* An object is created.
LEMMA AllocObjects ==
  ASSUME Base, CoreInv', NEW c \in Callers, NEW o \in Objects, TpAlloc(c, o)
  PROVE  Kept
<1>1. /\ Types /\ TodoInv /\ LockInv /\ Types' /\ life[o] = "none"
      /\ c \in Threads /\ c # TimerThread
  BY Constants DEF Base, CoreInv, TpAlloc
<1>3. /\ TodoInv'
      /\ \A u \in Threads : \A r, p :
           Does(u, r, p)' <=>
             \/ Does(u, r, p)
             \/ /\ u = c /\ p = o
                /\ \/ Kind(o) = "simple" /\ r \in {"submit", "release"}
                   \/ o \in GroupMembers /\ r = "join"
  BY <1>1, TpAllocDoes
<1>4. /\ UNCHANGED <<program, shutdown, pending, running, member, closing, owner, timers>>
      /\ life' = [life EXCEPT ![o] = "alive"] /\ refcount' = [refcount EXCEPT ![o] = 1]
      /\ appref' = [appref EXCEPT ![o] = Kind(o) # "simple"]
      /\ group'.members = group.members
  BY <1>1 DEF TpAlloc, countvars, Types, GroupTypes
<1>5. ObjectInv(o)
  BY ObjectFacts
<1>6. /\ o \notin timers /\ pending[o] = 0 /\ ~In(o) /\ Executing(o) = 0 /\ ~shutdown[o]
      /\ ~member[o] /\ \A r \in Roles : ~Some(r, o)
  BY <1>1, <1>5 DEF ObjectInv, GoneInv, GroupInv
<1>7. \A u \in Threads : \A r : ~Does(u, r, o)
  BY <1>1, <1>6, TimerOnly DEF Some
<1>8. \A p \in Objects : p # o => Same(p)
  <2>1. \A p \in Objects : p # o => \A u \in Threads : \A r : Does(u, r, p)' <=> Does(u, r, p)
    BY <1>3
  <2> QED
    BY <1>1, <1>4, <2>1 DEF Same, In, Types, ObjectTypes
<1>9. /\ ~In(o)' /\ ~Gathered(o)' /\ Kind(o)' = Kind(o) /\ GroupMembers' = GroupMembers
      /\ life'[o] = "alive" /\ refcount'[o] = 1 /\ appref'[o] = (Kind(o) # "simple")
      /\ Executing(o)' = 0
  BY <1>1, <1>4, <1>6
     DEF In, Gathered, Kind, GroupMembers, Types, ObjectTypes, Base, CoreInv, CountInv, RunningInv
<1>10. \A u \in Threads : \A r :
         Does(u, r, o)' <=> /\ u = c
                            /\ \/ Kind(o) = "simple" /\ r \in {"submit", "release"}
                               \/ o \in GroupMembers /\ r = "join"
  BY <1>3, <1>7
<1>11. /\ ~Closed(o)' /\ ~Ending(o)' /\ ~Some("ref", o)' /\ ~Some("unlock", o)'
       /\ (Some("release", o)' <=> Kind(o) = "simple") /\ (Some("submit", o)' <=> Kind(o) = "simple")
  BY <1>1, <1>9, <1>10 DEF Closed, Ending, Some
<1>12. GroupInv(o)' /\ UniqueInv(o)'
  BY <1>4, <1>6, <1>9, <1>10, <1>11 DEF GroupInv, UniqueInv
<1>13. refcount'[o] = References(o)'
  <2>1. /\ One(appref[o])' = IF Kind(o) = "simple" THEN 0 ELSE 1
        /\ One(Some("release", o))' = IF Kind(o) = "simple" THEN 1 ELSE 0
        /\ One(Closed(o))' = 0
    BY <1>9, <1>11 DEF One
  <2> QED
    BY <1>4, <1>6, <1>9, <2>1 DEF References
<1>14. AliveInv(o)'
  <2>1. /\ appref'[o] \in BOOLEAN /\ shutdown'[o] = shutdown[o] /\ shutdown[o] \in BOOLEAN
        /\ appref'[o] <=> Kind(o) # "simple"
    BY <1>1, <1>4, <1>9 DEF Types, ObjectTypes
  <2>2. Kind(o) # "simple" => appref'[o] = TRUE /\ shutdown'[o] = FALSE
    BY <1>6, <2>1, Zenon
  <2>3. Kind(o) = "simple" => ~appref'[o]
    BY <2>1
  <2>4. CASE Kind(o) # "simple"
    BY <1>9, <1>11, <1>13, <2>2, <2>4 DEF AliveInv
  <2>5. CASE Kind(o) = "simple"
    BY <1>9, <1>11, <1>13, <2>3, <2>5 DEF AliveInv
  <2> QED
    BY <2>4, <2>5
<1>15. GoneInv(o)'
  BY <1>9 DEF GoneInv
<1>16. SimpleInv(o)'
  BY <1>4, <1>6, <1>9, <1>10, <1>11 DEF SimpleInv
<1>17. CallInv(o)'
  <2>1. Kind(o) # "simple" => appref'[o]
    BY <1>9
  <2> QED
    BY <1>9, <1>10, <1>11, <2>1 DEF CallInv
<1>18. RetireInv(o)'
  BY <1>10 DEF RetireInv
<1>19. TimerInv(o)'
  BY <1>1, <1>4, <1>6, <1>10, Constants DEF TimerInv
<1>20. Still /\ LockInv'
  <2>1. \A u \in Threads : Does(u, "leave", NoObject)' <=> Does(u, "leave", NoObject)
    BY <1>3
  <2>2. \A r, p : Does(TimerThread, r, p)' => Does(TimerThread, r, p)
    BY <1>1, <1>3, Constants
  <2> QED
    BY <1>1, <1>4, <2>1, <2>2, LockSame DEF Still
<1> QED
  BY <1>3, <1>8, <1>12, <1>14, <1>15, <1>16, <1>17, <1>18, <1>19, <1>20, OneObject
     DEF ObjectInv, UseInv, Kept

\* A step that leaves all objects alone.
LEMMA AllSame ==
  ASSUME Base, CoreInv', Still, \A p \in Objects : Same(p)
  PROVE  AllObjects'
<1>1. RunningInv /\ RunningInv' /\ \A p \in Objects : ObjectInv(p)
  BY DEF Base, CoreInv, CountInv, AllObjects
<1>2. \A p \in Objects : ObjectInv(p)'
  BY <1>1, SameObject
<1> QED
  BY <1>2 DEF AllObjects

\* A step that leaves alone what the invariants are about.
Untouched ==
  /\ UNCHANGED <<program, life, refcount, shutdown, pending, running, appref, member, closing,
                 timers>>
  /\ owner'["group"] = owner["group"] /\ owner'["timer"] = owner["timer"]
  /\ group'.members = group.members
  /\ \A u \in Threads : \A r, p : Does(u, r, p)' <=> Does(u, r, p)

\* It keeps them.
LEMMA UntouchedKept ==
  ASSUME Base, CoreInv', TodoInv', Untouched
  PROVE  Kept
<1>1. /\ Types /\ LockInv /\ Types'
  BY DEF Base, CoreInv
<1>2. \A p \in Objects : Same(p)
  BY DEF Same, In, Untouched
<1>3. Still
  BY DEF Still, Untouched
<1>4. LockInv'
  <2>1. \A r, p : Does(TimerThread, r, p)' => Does(TimerThread, r, p)
    BY Constants DEF Untouched
  <2> QED
    BY <1>1, <2>1, LockSame DEF Untouched
<1> QED
  BY <1>2, <1>3, <1>4, AllSame DEF Kept

\* Todos that stay as they are.
LEMMA TodoStays ==
  ASSUME TodoInv, todo' = todo
  PROVE  TodoInv' /\ \A u \in Threads : \A r, p : Does(u, r, p)' <=> Does(u, r, p)
BY DEF TodoInv, Todo, Does

\* Workers that look for an item, sleep and end, TpReleaseCleanupGroup, TpReleasePool and
\* steps that change nothing.
LEMMA WorkerObjects ==
  ASSUME Base, CoreInv',
         \/ UNCHANGED vars
         \/ \E w \in Workers : \/ WorkerChecks(w) \/ WorkerSleeps(w)
                               \/ WorkerEnds(w) \/ WorkerTimesOut(w)
         \/ \E c \in Callers : TpReleaseCleanupGroup(c) \/ TpReleasePool(c)
  PROVE  Kept
<1>1. Types /\ TodoInv
  BY DEF Base, CoreInv
<1>2. /\ UNCHANGED <<program, life, refcount, shutdown, pending, running, appref, member, closing,
                     timers, todo>>
      /\ owner' = owner \/ \E x : owner' = [owner EXCEPT !["pool"] = x]
      /\ group'.members = group.members
  <2>1. CASE UNCHANGED vars
    BY <2>1 DEF vars
  <2>2. CASE \E w \in Workers : \/ WorkerChecks(w) \/ WorkerSleeps(w)
                               \/ WorkerEnds(w) \/ WorkerTimesOut(w)
    BY <2>2 DEF WorkerChecks, WorkerSleeps, WorkerEnds, WorkerTimesOut, appvars, countvars,
                groupvars
  <2>3. CASE \E c \in Callers : TpReleaseCleanupGroup(c) \/ TpReleasePool(c)
    <3>1. ASSUME NEW c \in Callers, TpReleaseCleanupGroup(c) PROVE group'.members = group.members
      BY <1>1, <3>1 DEF TpReleaseCleanupGroup, Types, GroupTypes
    <3> QED
      BY <2>3, <3>1 DEF TpReleaseCleanupGroup, TpReleasePool, appvars, countvars, groupvars
  <2> QED
    BY <2>1, <2>2, <2>3
<1>3. owner'["group"] = owner["group"] /\ owner'["timer"] = owner["timer"]
  BY <1>1, <1>2 DEF Types, PoolTypes, GroupTypes, WorkerTypes, ObjectTypes, Locks
<1>4. TodoInv' /\ \A u \in Threads : \A r, p : Does(u, r, p)' <=> Does(u, r, p)
  BY <1>1, <1>2, TodoStays
<1>5. Untouched
  BY <1>2, <1>3, <1>4 DEF Untouched
<1> QED
  BY <1>4, <1>5, UntouchedKept

\* TpDisassociateCallback.
LEMMA DisassociateObjects ==
  ASSUME Base, CoreInv', NEW w \in Workers, TpDisassociateCallback(w)
  PROVE  Kept
<1>1. Types /\ TodoInv /\ WorkerInv
  BY DEF Base, CoreInv
<1>2. TodoInv' /\ \A u \in Threads : \A r, p : Does(u, r, p)' <=> Does(u, r, p)
  BY <1>1, DisassociateDoes
<1>3. Untouched
  BY <1>2 DEF Untouched, TpDisassociateCallback, appvars, groupvars
<1> QED
  BY <1>2, <1>3, UntouchedKept

\* tp_object_wait.
LEMMA WaitObjects ==
  ASSUME Base, CoreInv', NEW t \in Threads, DoWait(t)
  PROVE  Kept
<1>1. /\ Types /\ TodoInv /\ LockInv /\ Types'
  BY DEF Base, CoreInv
<1>2. /\ TodoInv' /\ t # TimerThread
      /\ \/ \A u \in Threads : \A r, p : Does(u, r, p)' <=> Does(u, r, p)
         \/ /\ At(t, "wait")
            /\ \A u \in Threads : \A r, p :
                 Does(u, r, p)' <=> Does(u, r, p) /\ ~(u = t /\ r = "waits" /\ p = Obj(t))
  BY <1>1, DoWaitDoes
<1>3. UNCHANGED <<program, life, refcount, shutdown, pending, running, appref, member, group, closing,
                  owner, timers>>
  BY DEF DoWait, appvars, groupvars, countvars
<1>4. CASE \A u \in Threads : \A r, p : Does(u, r, p)' <=> Does(u, r, p)
  <2>1. Untouched
    BY <1>3, <1>4 DEF Untouched
  <2> QED
    BY <1>2, <2>1, UntouchedKept
<1>5. CASE /\ At(t, "wait")
           /\ \A u \in Threads : \A r, p :
                Does(u, r, p)' <=> Does(u, r, p) /\ ~(u = t /\ r = "waits" /\ p = Obj(t))
  <2>1. "wait" \in ObjectNames /\ Role("wait") = "waits"
    BY RoleNames DEF ObjectNames
  <2>2. PICK o \in Objects : o = Obj(t) /\ Does(t, "waits", o)
    BY <1>1, <1>5, <2>1, HeadDoes
  <2>3. \A u \in Threads : \A r, p :
          Does(u, r, p)' <=> Does(u, r, p) /\ ~(u = t /\ r = "waits" /\ p = o)
    BY <1>5, <2>2
  <2>4. \A p \in Objects : p # o => Same(p)
    <3>1. \A p \in Objects : p # o => \A u \in Threads : \A r : Does(u, r, p)' <=> Does(u, r, p)
      BY <2>3
    <3> QED
      BY <1>3, <3>1 DEF Same, In
  <2>5. /\ (In(o)' <=> In(o)) /\ (Gathered(o)' <=> Gathered(o)) /\ Kind(o)' = Kind(o)
        /\ GroupMembers' = GroupMembers
    BY <1>3 DEF In, Gathered, Kind, GroupMembers
  <2>6. \A r : r # "waits" => (Some(r, o)' <=> Some(r, o))
    BY <2>3 DEF Some
  <2>7. \A r : Some(r, o)' => Some(r, o)
    BY <2>3 DEF Some
  <2>8. (Closed(o)' <=> Closed(o)) /\ (Ending(o)' <=> Ending(o))
    BY <2>5, <2>6 DEF Closed, Ending
  <2>9. life[o] = "alive"
    BY <2>2, UsedIsAlive
  <2>10. refcount'[o] = References(o)' /\ Executing(o)' = Executing(o)
    BY <1>3, <2>6, <2>8, <2>9, SumSame
  <2>11. ObjectInv(o)
    BY ObjectFacts
  <2>12. GroupInv(o)' /\ UniqueInv(o)'
    BY <1>3, <2>3, <2>5, <2>6, <2>11 DEF ObjectInv, GroupInv, UniqueInv
  <2>13. AliveInv(o)'
    BY <1>3, <2>5, <2>6, <2>8, <2>10, <2>11 DEF ObjectInv, AliveInv
  <2>14. GoneInv(o)'
    BY <1>3, <2>9 DEF GoneInv
  <2>15. SimpleInv(o)'
    BY <1>3, <2>3, <2>5, <2>8, <2>10, <2>11 DEF ObjectInv, UseInv, SimpleInv
  <2>16. ~Does(t, "cancel", o)
    BY <1>1, <1>5, <2>1, <2>2, HeadDoes DEF MayFollow
  <2>17. CallInv(o)'
    BY <1>3, <2>3, <2>5, <2>8, <2>11, <2>16 DEF ObjectInv, UseInv, CallInv
  <2>18. RetireInv(o)'
    BY <1>3, <2>3, <2>5, <2>8, <2>11, Constants DEF ObjectInv, UseInv, RetireInv
  <2>19. TimerInv(o)'
    BY <1>2, <1>3, <2>3, <2>5, <2>6, <2>11, Constants DEF ObjectInv, UseInv, TimerInv
  <2>20. Still /\ LockInv'
    <3>1. \A u \in Threads : Does(u, "leave", NoObject)' <=> Does(u, "leave", NoObject)
      BY <2>3
    <3>2. \A r, p : Does(TimerThread, r, p)' => Does(TimerThread, r, p)
      BY <2>3, Constants
    <3> QED
      BY <1>1, <1>3, <3>1, <3>2, LockSame DEF Still
  <2> QED
    BY <1>2, <2>4, <2>12, <2>13, <2>14, <2>15, <2>17, <2>18, <2>19, <2>20, OneObject
       DEF ObjectInv, UseInv, Kept
<1> QED
  BY <1>2, <1>4, <1>5

\* A worker takes the next item: a pending callback becomes one that runs.
LEMMA TakesObjects ==
  ASSUME Base, CoreInv', NEW w \in Workers, WorkerTakes(w)
  PROVE  Kept
<1>1. /\ Types /\ TodoInv /\ LockInv /\ Types' /\ QueueInv
  BY DEF Base, CoreInv
<1>2. PICK o \in Objects : o = NextItem /\ pending[o] > 0
  BY <1>1, NextItemPending DEF WorkerTakes
<1>3. /\ TodoInv'
      /\ \A u \in Threads : \A r, p : Does(u, r, p)' <=> Does(u, r, p)
  BY <1>1, TodoStays DEF WorkerTakes
<1>4. /\ UNCHANGED <<program, life, refcount, shutdown, appref, member, group, closing, timers>>
      /\ pending' = [pending EXCEPT ![o] = @ - 1] /\ running' = [running EXCEPT ![o] = @ + 1]
      /\ owner' = [owner EXCEPT !["pool"] = NoThread]
  BY <1>2 DEF WorkerTakes, appvars, groupvars
<1>5. owner'["group"] = owner["group"] /\ owner'["timer"] = owner["timer"]
  BY <1>1, <1>4 DEF Types, ObjectTypes, Locks
<1>6. \A p \in Objects : p # o => Same(p)
  BY <1>1, <1>3, <1>4 DEF Same, In, Types, ObjectTypes
<1>7. ObjectInv(o)
  BY ObjectFacts
<1>8. life[o] = "alive"
  BY <1>2, <1>7, ObjectFacts DEF ObjectInv, GoneInv
<1>9. /\ (In(o)' <=> In(o)) /\ (Gathered(o)' <=> Gathered(o)) /\ Kind(o)' = Kind(o)
      /\ GroupMembers' = GroupMembers
      /\ pending'[o] = pending[o] - 1 /\ running'[o] = running[o] + 1
      /\ Executing(o)' = running'[o]
  BY <1>1, <1>4 DEF In, Gathered, Kind, GroupMembers, Types, ObjectTypes, CoreInv, CountInv,
     RunningInv
<1>10. \A r : Some(r, o)' <=> Some(r, o)
  BY <1>3 DEF Some
<1>11. (Closed(o)' <=> Closed(o)) /\ (Ending(o)' <=> Ending(o))
  BY <1>9, <1>10 DEF Closed, Ending
<1>12. refcount'[o] = References(o)'
  <2>1. /\ One(appref[o])' = One(appref[o]) + 0 /\ One(Closed(o))' = One(Closed(o)) + 0
        /\ One(Some("release", o))' = One(Some("release", o)) + 0
    BY <1>4, <1>10, <1>11 DEF One
  <2>2. /\ running'[o] = running[o] + 1 /\ pending'[o] = pending[o] + (-1)
        /\ refcount'[o] = refcount[o] + (0 + (-1) + 1 + 0 + 0)
    BY <1>4, <1>9, ObjectFacts
  <2>3. Adds(o, 0, -1, 1, 0, 0)
    BY <2>1, <2>2 DEF Adds
  <2>4. 0 \in Int /\ -1 \in Int /\ 1 \in Int /\ life[o] = "alive"
    BY <1>8
  <2> QED
    BY <2>2, <2>3, <2>4, SumNext, Zenon
<1>13. Executing(o)' > 0
  <2>1. running[o] \in Nat
    BY ObjectFacts
  <2> QED
    BY <1>9, <2>1
<1>14. GroupInv(o)' /\ UniqueInv(o)'
  BY <1>3, <1>4, <1>5, <1>7, <1>9, <1>10 DEF ObjectInv, GroupInv, UniqueInv
<1>15. AliveInv(o)'
  BY <1>4, <1>7, <1>8, <1>9, <1>10, <1>12, <1>13 DEF ObjectInv, AliveInv
<1>16. GoneInv(o)'
  BY <1>4, <1>8 DEF GoneInv
<1>17. SimpleInv(o)'
  <2>1. Kind(o) = "simple" => \A u \in Threads : ~Does(u, "submit", o)
    BY <1>2, <1>7 DEF ObjectInv, UseInv, SimpleInv
  <2> QED
    BY <1>3, <1>7, <1>9, <2>1 DEF ObjectInv, UseInv, SimpleInv
<1>18. CallInv(o)'
  BY <1>3, <1>4, <1>7, <1>9, <1>11 DEF ObjectInv, UseInv, CallInv
<1>19. RetireInv(o)'
  BY <1>3, <1>4, <1>5, <1>7, <1>9, <1>11, Constants DEF ObjectInv, UseInv, RetireInv
<1>20. TimerInv(o)'
  BY <1>3, <1>4, <1>7, <1>9, <1>10, Constants DEF ObjectInv, UseInv, TimerInv
<1>21. Still /\ LockInv'
  <2>1. \A r, p : Does(TimerThread, r, p)' => Does(TimerThread, r, p)
    BY <1>3, Constants
  <2> QED
    BY <1>1, <1>3, <1>4, <1>5, <2>1, LockSame DEF Still
<1> QED
  BY <1>3, <1>6, <1>14, <1>15, <1>16, <1>17, <1>18, <1>19, <1>20, <1>21, OneObject
     DEF ObjectInv, UseInv, Kept

\* The end of tp_object_execute: the callback's reference goes.
LEMMA ReturnsObjects ==
  ASSUME Base, CoreInv', NEW w \in Workers, CallbackReturns(w)
  PROVE  Kept
<1>1. /\ Types /\ TodoInv /\ LockInv /\ Types' /\ WorkerInv /\ w \in Threads /\ w # TimerThread
  BY Constants DEF Base, CoreInv
<1>2. PICK o \in Objects : o = wobj[w]
  BY <1>1, ReturnsDoes
<1>3. PICK last \in BOOLEAN : last <=> refcount[o] = 1
  OBVIOUS
<1>4. /\ TodoInv'
      /\ \A u \in Threads : \A r, p :
              Does(u, r, p)' <=>
                \/ Does(u, r, p)
                \/ /\ last /\ u = w /\ p = o
                   /\ r = "unlock" \/ (r = "ungroup" /\ o \in GroupMembers)
  BY <1>1, <1>2, <1>3, ReturnsDoes
<1>5. /\ UNCHANGED <<program, life, pending, appref, member, group, closing, timers>>
      /\ refcount' = [refcount EXCEPT ![o] = @ - 1] /\ running' = [running EXCEPT ![o] = @ - 1]
      /\ shutdown' = IF Kind(o) = "simple" THEN [shutdown EXCEPT ![o] = TRUE] ELSE shutdown
      /\ owner' = [owner EXCEPT !["pool"] = w]
  BY <1>2 DEF CallbackReturns, appvars, groupvars
<1>6. owner'["group"] = owner["group"] /\ owner'["timer"] = owner["timer"]
  BY <1>1, <1>5 DEF Types, ObjectTypes, Locks
<1>7. Still /\ LockInv'
  <2>1. \A u \in Threads : Does(u, "leave", NoObject)' <=> Does(u, "leave", NoObject)
    BY <1>4
  <2>2. \A r, p : Does(TimerThread, r, p)' => Does(TimerThread, r, p)
    BY <1>1, <1>4, Constants
  <2> QED
    BY <1>1, <1>5, <1>6, <2>1, <2>2, LockSame DEF Still
<1>8. \A p \in Objects : p # o => Same(p)
  <2>1. \A p \in Objects : p # o => \A u \in Threads : \A r : Does(u, r, p)' <=> Does(u, r, p)
    BY <1>4
  <2> QED
    BY <1>1, <1>5, <2>1 DEF Same, In, Types, ObjectTypes
<1>9. /\ refcount'[o] = refcount[o] - 1 /\ running'[o] = running[o] - 1
      /\ (In(o)' <=> In(o)) /\ (Gathered(o)' <=> Gathered(o)) /\ Kind(o)' = Kind(o)
      /\ GroupMembers' = GroupMembers /\ Executing(o)' = running'[o]
      /\ Kind(o) = "simple" => shutdown'[o]
      /\ Kind(o) # "simple" => shutdown'[o] = shutdown[o]
  BY <1>1, <1>5 DEF In, Gathered, Kind, GroupMembers, Types, ObjectTypes, CoreInv, CountInv,
     RunningInv
<1>10. ObjectInv(o)
  BY ObjectFacts
<1>11. running[o] > 0
  <2>1. IsFiniteSet({v \in Workers : wobj[v] = o})
    BY Constants, FS_Subset
  <2>2. Executing(o) # 0 /\ Executing(o) \in Nat
    BY <1>2, <2>1, FS_EmptySet, FS_CardinalityType DEF Executing
  <2> QED
    BY <2>2, ObjectFacts
<1>12. life[o] = "alive"
  BY <1>10, <1>11, ObjectFacts DEF ObjectInv, GoneInv
<1>13. refcount[o] # 0
  BY <1>11, <1>12, LastReference
<1>14. Drops(w, "none", o, last)
  <2>1. \A u \in Threads : \A r : Does(u, r, o) => r # "none"
    BY <1>1, TimerOnly DEF Roles
  <2> QED
    BY <1>4, <2>1 DEF Drops
<1>15. /\ GroupInv(o)' /\ UniqueInv(o)'
       /\ (Some("unlock", o)' <=> last)
       /\ \A s : s \notin {"none", "unlock", "ungroup"} => (Some(s, o)' <=> Some(s, o))
  BY <1>5, <1>7, <1>9, <1>12, <1>13, <1>14, <1>1, DropGroup
<1>16. (Closed(o)' <=> Closed(o)) /\ (Ending(o)' <=> Ending(o))
  BY <1>9, <1>15 DEF Closed, Ending
<1>17. refcount'[o] = References(o)'
  <2>1. /\ One(appref[o])' = One(appref[o]) + 0 /\ One(Closed(o))' = One(Closed(o)) + 0
        /\ One(Some("release", o))' = One(Some("release", o)) + 0
    BY <1>5, <1>15, <1>16 DEF One
  <2>2. /\ running'[o] = running[o] + (-1) /\ pending'[o] = pending[o] + 0
        /\ refcount'[o] = refcount[o] + (0 + 0 + (-1) + 0 + 0)
    BY <1>5, <1>9, ObjectFacts
  <2>3. Adds(o, 0, 0, -1, 0, 0)
    BY <2>1, <2>2 DEF Adds
  <2>4. 0 \in Int /\ -1 \in Int /\ life[o] = "alive"
    BY <1>12
  <2> QED
    BY <2>2, <2>3, <2>4, SumNext, Zenon
<1>18. AliveInv(o)'
  <2>1. last => refcount'[o] = 0
    BY <1>3, <1>9
  <2> QED
    BY <1>5, <1>9, <1>10, <1>12, <1>15, <1>17, <2>1 DEF ObjectInv, AliveInv
<1>19. GoneInv(o)'
  BY <1>5, <1>12 DEF GoneInv
<1>20. SimpleInv(o)'
  <2>1. Kind(o) = "simple" => \A u \in Threads : ~Does(u, "submit", o)
    BY <1>10, <1>11, ObjectFacts DEF ObjectInv, UseInv, SimpleInv
  <2> QED
    BY <1>4, <1>9, <1>10, <2>1 DEF ObjectInv, UseInv, SimpleInv
<1>21. CallInv(o)'
  BY <1>4, <1>5, <1>9, <1>10, <1>16 DEF ObjectInv, UseInv, CallInv
<1>22. RetireInv(o)'
  <2>1. last => ~appref[o]
    <3>1. PICK i, j, k \in Nat : i = One(appref[o]) /\ j = One(Some("release", o)) /\ k = One(Closed(o))
      BY DEF One
    <3>2. PICK p, r \in Nat : p = pending[o] /\ r = running[o]
      BY ObjectFacts
    <3>3. refcount[o] = i + p + r + j + k
      BY <1>12, <3>1, <3>2, ReferenceSum
    <3>4. last => i = 0
      BY <1>3, <1>11, <3>2, <3>3
    <3> QED
      BY <3>1, <3>4 DEF One
  <2>2. last => \A u \in Threads : ~Does(u, "retire", o)
    BY <1>10, <2>1 DEF ObjectInv, UseInv, RetireInv
  <2>3. CASE last
    BY <1>4, <1>5, <1>6, <1>9, <1>10, <2>2, <2>3 DEF ObjectInv, UseInv, RetireInv
  <2>4. CASE ~last
    BY <1>4, <1>5, <1>6, <1>9, <1>10, <1>16, <2>4, Constants DEF ObjectInv, UseInv, RetireInv
  <2> QED
    BY <2>3, <2>4
<1>23. TimerInv(o)'
  BY <1>1, <1>4, <1>5, <1>9, <1>10, <1>15, Constants DEF ObjectInv, UseInv, TimerInv
<1> QED
  BY <1>4, <1>7, <1>8, <1>15, <1>18, <1>19, <1>20, <1>21, <1>22, <1>23, OneObject
     DEF ObjectInv, UseInv, Kept

\* TpReleaseCleanupGroupMembers begins: the members come to be gathered.
LEMMA CloseObjects ==
  ASSUME Base, CoreInv', NEW c \in Callers, NEW cancel \in BOOLEAN,
         TpReleaseCleanupGroupMembers(c, cancel)
  PROVE  Kept
<1>1. /\ Types /\ TodoInv /\ LockInv /\ Types' /\ c \in Threads /\ c # TimerThread
      /\ NoThread \notin Threads /\ Distinct(group.members)
  BY Constants DEF Base, CoreInv, LockInv
<1>2. /\ TodoInv'
      /\ \A u \in Threads : \A r, p :
           Does(u, r, p)' <=> \/ Does(u, r, p)
                              \/ u = c /\ ((r = "gather" /\ In(p)) \/ (r = "leave" /\ p = NoObject))
  BY <1>1, CloseGroupDoes
<1>3. /\ UNCHANGED <<program, life, refcount, shutdown, pending, running, appref, member, group,
                     timers>>
      /\ owner' = [owner EXCEPT !["group"] = c] /\ closing' = TRUE /\ ~closing
      /\ \A o \in GroupMembers : Kind(o) # "simple" => ~InUse(o)
  BY DEF TpReleaseCleanupGroupMembers, appvars, countvars
<1>4. owner'["group"] = c /\ owner'["timer"] = owner["timer"] /\ owner["group"] = NoThread
  BY <1>1, <1>3 DEF Types, ObjectTypes, Locks, LockInv
<1>5. \A u \in Threads : ~Does(u, "leave", NoObject)
  BY <1>1, <1>4 DEF LockInv
<1>6. LockInv'
  <2>1. \A r, p : Does(TimerThread, r, p)' => Does(TimerThread, r, p)
    BY <1>1, <1>2, Constants
  <2>2. todo'[TimerThread] # <<>> => todo[TimerThread] # <<>>
    BY <1>1, <2>1, TimerTodo
  <2>3. \A u \in Threads : Does(u, "leave", NoObject)' <=> u = c
    BY <1>2, <1>5
  <2>4. (owner["timer"] \in {NoThread, TimerThread})' /\ (owner["group"] # NoThread => closing)'
    BY <1>1, <1>3, <1>4 DEF LockInv
  <2>5. (todo[TimerThread] # <<>> => owner["timer"] = TimerThread)'
    BY <1>1, <1>4, <2>2 DEF LockInv
  <2>6. (\A u \in Threads : owner["group"] = u <=> Does(u, "leave", NoObject))'
    BY <1>4, <2>3
  <2>7. Distinct(group.members)'
    BY <1>1, <1>3
  <2> QED
    BY <2>4, <2>5, <2>6, <2>7 DEF LockInv
<1>7. ASSUME NEW o \in Objects
      PROVE  ObjectInv(o)'
  <2>1. ObjectInv(o)
    BY ObjectFacts
  <2>2. /\ ~Gathered(o) /\ \A u \in Threads : ~Does(u, "gather", o) /\ ~Does(u, "ref", o)
    BY <1>1, <1>3, <1>4, <2>1 DEF ObjectInv, GroupInv
  <2>3. In(o) <=> member[o]
    BY <2>1, <2>2 DEF ObjectInv, GroupInv, Gathered, In
  <2>4. /\ (In(o)' <=> In(o)) /\ ~Gathered(o)' /\ Kind(o)' = Kind(o) /\ GroupMembers' = GroupMembers
    BY <1>3, <2>2 DEF In, Gathered, Kind, GroupMembers
  <2>5. \A u \in Threads : \A r :
          Does(u, r, o)' <=> Does(u, r, o) \/ (u = c /\ r = "gather" /\ In(o))
    BY <1>2, Constants
  <2>6. \A r : r # "gather" => (Some(r, o)' <=> Some(r, o))
    BY <2>5 DEF Some
  <2>7. ~Closed(o) /\ ~Closed(o)'
    BY <2>2, <2>4, <2>6 DEF Closed, Some
  <2>8. In(o) /\ Kind(o) # "simple" => \A u \in Callers \union Workers : \A r : ~Does(u, r, o)
    <3>1. In(o) => o \in GroupMembers
      BY <2>1 DEF ObjectInv, GroupInv
    <3> QED
      BY <1>3, <3>1 DEF InUse, Does, Todo
  <2>9. \A u \in Threads : u = TimerThread \/ u \in Callers \union Workers
    BY Constants
  <2>10. GroupInv(o)'
    BY <1>1, <1>3, <1>4, <2>1, <2>2, <2>3, <2>4, <2>5, <2>6 DEF ObjectInv, GroupInv
  <2>11. UniqueInv(o)'
    BY <2>1, <2>5 DEF ObjectInv, UniqueInv
  <2>12. AliveInv(o)'
    <3>1. life[o] = "alive" => refcount'[o] = References(o)' /\ Executing(o)' = Executing(o)
      <4>1. Closed(o)' <=> Closed(o)
        BY <2>7
      <4> QED
        BY <1>3, <2>6, <4>1, SumSame
    <3> QED
      BY <1>3, <2>1, <2>4, <2>6, <2>7, <3>1 DEF ObjectInv, AliveInv
  <2>13. Executing(o)' = Executing(o)
    BY <1>3 DEF Base, CoreInv, CountInv, RunningInv
  <2>14. GoneInv(o)'
    <3>1. ~In(o) => \A r : Some(r, o)' <=> Some(r, o)
      BY <2>5 DEF Some
    <3> QED
      BY <1>3, <2>1, <2>4, <2>13, <3>1 DEF ObjectInv, GoneInv
  <2>15. SimpleInv(o)'
    BY <1>3, <2>1, <2>4, <2>5, <2>7, <2>13 DEF ObjectInv, UseInv, SimpleInv
  <2>16. Some("gather", o)' <=> In(o)
    BY <1>1, <2>2, <2>5 DEF Some
  <2>17. CallInv(o)'
    <3>1. Ending(o)' <=> Some("retire", o) \/ In(o)
      BY <2>6, <2>7, <2>16 DEF Ending
    <3>2. ASSUME NEW u \in Threads, u # TimerThread, Kind(o) # "simple",
                 Does(u, "submit", o) \/ Does(u, "join", o) \/ Does(u, "waits", o)
          PROVE  appref[o] /\ ~Some("retire", o) /\ ~In(o)
      BY <2>1, <2>8, <2>9, <3>2 DEF ObjectInv, UseInv, CallInv, Ending
    <3> QED
      BY <1>3, <2>1, <2>4, <2>5, <3>1, <3>2 DEF ObjectInv, UseInv, CallInv
  <2>18. \A u \in Threads : Does(u, "retire", o) => ~In(o)
    <3> SUFFICES ASSUME NEW u \in Threads, Does(u, "retire", o) PROVE ~In(o)
      OBVIOUS
    <3>1. life[o] = "alive" /\ appref[o]
      BY <2>1, UsedIsAlive DEF ObjectInv, UseInv, RetireInv
    <3>2. Kind(o) # "simple"
      BY <2>1, <3>1 DEF ObjectInv, AliveInv
    <3>3. u # TimerThread
      BY <1>1, TimerOnly
    <3> QED
      BY <2>8, <2>9, <3>2, <3>3
  <2>19. RetireInv(o)'
    BY <1>3, <2>1, <2>2, <2>5, <2>7, <2>18, Constants DEF ObjectInv, UseInv, RetireInv
  <2>20. TimerInv(o)'
    BY <1>1, <1>3, <2>1, <2>4, <2>5, <2>6, Constants DEF ObjectInv, UseInv, TimerInv
  <2> QED
    BY <2>10, <2>11, <2>12, <2>14, <2>15, <2>17, <2>19, <2>20 DEF ObjectInv, UseInv
<1> QED
  BY <1>2, <1>6, <1>7 DEF Kept, AllObjects

\* TpReleaseCleanupGroupMembers has gathered the members and unlocks the group.
LEMMA LeaveObjects ==
  ASSUME Base, CoreInv', NEW t \in Threads, DoLeaveGroup(t)
  PROVE  Kept
<1>1. /\ Types /\ TodoInv /\ LockInv /\ Types' /\ NoThread \notin Threads /\ Distinct(group.members)
  BY Constants DEF Base, CoreInv, LockInv
<1>2. PICK cancel \in BOOLEAN : cancel <=> At(t, "leavegroup_cancel")
  OBVIOUS
<1>3. /\ TodoInv' /\ t # TimerThread
      /\ \A r, p : Does(t, r, p) <=> r = "leave" /\ p = NoObject
      /\ \A u \in Threads : \A r, p :
           Does(u, r, p)' <=> \/ u # t /\ Does(u, r, p)
                              \/ u = t /\ In(p) /\ (r = "ref" \/ (r = "cancel" /\ cancel))
  BY <1>1, <1>2, DoLeaveGroupDoes
<1>4. /\ UNCHANGED <<program, life, refcount, shutdown, pending, running, appref, member, closing,
                     timers>>
      /\ owner' = [owner EXCEPT !["group"] = NoThread] /\ group'.members = <<>>
  BY <1>1 DEF DoLeaveGroup, appvars, countvars, Types, GroupTypes
<1>5. /\ owner'["group"] = NoThread /\ owner'["timer"] = owner["timer"] /\ owner["group"] = t /\ closing
  BY <1>1, <1>3, <1>4 DEF Types, ObjectTypes, Locks, LockInv
<1>6. \A u \in Threads : u # t => owner["group"] # u /\ ~Does(u, "leave", NoObject)
  BY <1>1, <1>5 DEF LockInv
<1>7. LockInv'
  <2>1. \A r, p : Does(TimerThread, r, p)' => Does(TimerThread, r, p)
    BY <1>3, Constants
  <2>2. todo'[TimerThread] # <<>> => todo[TimerThread] # <<>>
    BY <1>1, <2>1, TimerTodo
  <2>3. \A u \in Threads : ~Does(u, "leave", NoObject)'
    BY <1>3, <1>6
  <2>4. (owner["timer"] \in {NoThread, TimerThread})' /\ (owner["group"] # NoThread => closing)'
    BY <1>1, <1>5 DEF LockInv
  <2>5. (todo[TimerThread] # <<>> => owner["timer"] = TimerThread)'
    BY <1>1, <1>5, <2>2 DEF LockInv
  <2>6. (\A u \in Threads : owner["group"] = u <=> Does(u, "leave", NoObject))'
    BY <1>1, <1>5, <2>3
  <2>7. Distinct(group.members)'
    BY <1>4 DEF Distinct
  <2> QED
    BY <2>4, <2>5, <2>6, <2>7 DEF LockInv
<1>8. ASSUME NEW o \in Objects
      PROVE  ObjectInv(o)'
  <2>1. ObjectInv(o)
    BY ObjectFacts
  <2>2. \A r : ~Does(t, r, o)
    BY <1>3, Constants
  <2>3. \A u \in Threads : ~Does(u, "gather", o) /\ ~Does(u, "ref", o)
    BY <1>1, <1>5, <2>1, <2>2 DEF ObjectInv, GroupInv
  <2>4. ~member[o]
    BY <1>5, <2>1, <2>2 DEF ObjectInv, GroupInv
  <2>5. (Gathered(o) <=> In(o)) /\ (In(o) => o \in GroupMembers)
    BY <2>1, <2>4 DEF Gathered, In, ObjectInv, GroupInv
  <2>6. /\ ~In(o)' /\ ~Gathered(o)' /\ Kind(o)' = Kind(o) /\ GroupMembers' = GroupMembers
    <3>1. ToSet(<<>>) = {}
      BY DEF ToSet
    <3> QED
      BY <1>4, <3>1 DEF In, Gathered, Kind, GroupMembers
  <2>7. \A u \in Threads : \A r :
          Does(u, r, o)' <=> \/ Does(u, r, o)
                             \/ u = t /\ In(o) /\ (r = "ref" \/ (r = "cancel" /\ cancel))
    BY <1>3, <2>2
  <2>8. \A r : r \notin {"ref", "cancel"} => (Some(r, o)' <=> Some(r, o))
    BY <2>7 DEF Some
  <2>9. Some("ref", o)' <=> In(o)
    BY <2>3, <2>7 DEF Some
  <2>10. (Closed(o) <=> In(o)) /\ (Closed(o)' <=> In(o))
    BY <2>3, <2>5, <2>6, <2>9 DEF Closed, Some
  <2>11. (Closed(o)' <=> Closed(o)) /\ (Ending(o)' <=> Ending(o))
    BY <2>8, <2>10 DEF Ending
  <2>12. Executing(o)' = Executing(o)
    BY <1>4 DEF Base, CoreInv, CountInv, RunningInv
  <2>13. GroupInv(o)'
    BY <1>1, <1>4, <1>5, <2>1, <2>3, <2>4, <2>5, <2>6, <2>7, <2>9 DEF ObjectInv, GroupInv
  <2>14. UniqueInv(o)'
    BY <2>1, <2>3, <2>7 DEF ObjectInv, UniqueInv
  <2>15. AliveInv(o)'
    <3>1. life[o] = "alive" => refcount'[o] = References(o)'
      BY <1>4, <2>8, <2>11, SumSame
    <3> QED
      BY <1>4, <2>1, <2>6, <2>8, <2>11, <2>12, <3>1 DEF ObjectInv, AliveInv
  <2>16. GoneInv(o)'
    <3>1. ~In(o) => \A r : Some(r, o)' <=> Some(r, o)
      BY <2>7 DEF Some
    <3> QED
      BY <1>4, <2>1, <2>6, <2>12, <3>1 DEF ObjectInv, GoneInv
  <2>17. SimpleInv(o)'
    BY <1>4, <2>1, <2>6, <2>7, <2>11, <2>12 DEF ObjectInv, UseInv, SimpleInv
  <2>18. CallInv(o)'
    BY <1>4, <2>1, <2>6, <2>7, <2>11 DEF ObjectInv, UseInv, CallInv
  <2>19. RetireInv(o)'
    BY <1>4, <1>6, <2>1, <2>2, <2>7, <2>10, <2>11, Constants DEF ObjectInv, UseInv, RetireInv
  <2>20. TimerInv(o)'
    <3>1. o \in timers \/ (\E r \in Roles : Does(TimerThread, r, o)) => ~In(o)
      <4> SUFFICES ASSUME o \in timers \/ (\E r \in Roles : Does(TimerThread, r, o)), In(o)
                   PROVE  FALSE
        OBVIOUS
      <4>1. PICK u \in Threads : Does(u, "unset", o)
        BY <2>1, <2>5 DEF ObjectInv, UseInv, TimerInv, Some
      <4>2. Does(u, "retire", o) \/ owner["group"] = u
        BY <2>1, <4>1 DEF ObjectInv, UseInv, RetireInv
      <4>3. ~Does(u, "retire", o)
        BY <2>1, <2>10 DEF ObjectInv, UseInv, RetireInv
      <4> QED
        BY <1>5, <2>2, <4>1, <4>2, <4>3
    <3> QED
      BY <1>3, <1>4, <2>1, <2>6, <2>7, <2>9, <3>1, Constants DEF ObjectInv, UseInv, TimerInv
  <2> QED
    BY <2>13, <2>14, <2>15, <2>16, <2>17, <2>18, <2>19, <2>20 DEF ObjectInv, UseInv
<1> QED
  BY <1>3, <1>7, <1>8 DEF Kept, AllObjects

-----------------------------------------------------------------------------
(* The references of all objects.                                           *)

\* The invariant holds in the initial states,
LEMMA BaseInit ==
  ASSUME Init
  PROVE  Base
<1>1. CoreInv
  BY CoreInit
<1>2. \A t \in Threads : todo[t] = <<>>
  BY DEF Init
<1>3. ToSet(<<>>) = {}
  BY DEF ToSet
<1>4. \A t \in Threads : Todo(t) = {}
  BY <1>2, <1>3 DEF Todo
<1>5. \A t \in Threads : \A r, o : ~Does(t, r, o)
  BY <1>4 DEF Does
<1>6. \A r, o : ~Some(r, o)
  BY <1>5 DEF Some
<1>7. TodoInv
  <2>1. Ordered(<<>>)
    BY DEF Ordered
  <2> QED
    BY <1>2, <1>4, <2>1 DEF TodoInv
<1>8. group.members = <<>> /\ \A l \in Locks : owner[l] = NoThread
  BY DEF Init
<1>9. owner["group"] = NoThread /\ owner["timer"] = NoThread
  BY <1>8 DEF Locks
<1>10. LockInv
  BY <1>2, <1>5, <1>8, <1>9, Constants DEF LockInv, Distinct
<1>11. ASSUME NEW o \in Objects
       PROVE  ObjectInv(o)
  <2>1. ~In(o) /\ ~Gathered(o)
    BY <1>3, <1>8 DEF In, Gathered
  <2>2. /\ life[o] = "none" /\ refcount[o] = 0 /\ ~shutdown[o] /\ pending[o] = 0 /\ running[o] = 0
        /\ ~member[o] /\ ~appref[o] /\ o \notin timers
    BY DEF Init
  <2>3. Executing(o) = 0
    BY <1>1, <2>2 DEF CoreInv, CountInv, RunningInv
  <2>4. GroupInv(o) /\ UniqueInv(o)
    BY <1>5, <1>6, <1>9, <2>1, <2>2, Constants DEF GroupInv, UniqueInv
  <2>5. AliveInv(o)
    BY <2>2 DEF AliveInv
  <2>6. GoneInv(o)
    BY <1>6, <2>1, <2>2, <2>3 DEF GoneInv
  <2>7. UseInv(o)
    BY <1>5, <2>2, Constants DEF UseInv, SimpleInv, CallInv, RetireInv, TimerInv
  <2> QED
    BY <2>4, <2>5, <2>6, <2>7 DEF ObjectInv
<1> QED
  BY <1>1, <1>7, <1>10, <1>11 DEF Base, AllObjects

\* and every step preserves it.
LEMMA BaseNext ==
  ASSUME Base, [Next]_vars
  PROVE  Base'
<1>1. CoreInv' /\ Types
  BY CoreNext DEF Base, CoreInv
<1> SUFFICES Kept
  BY <1>1 DEF Base, Kept
<1>2. ASSUME NEW t \in Threads, DoSubmit(t)
      PROVE  Kept
  BY <1>1, <1>2, SubmitObjects
<1>3. ASSUME NEW t \in Threads, DoJoin(t)
      PROVE  Kept
  BY <1>1, <1>3, JoinObjects
<1>4. ASSUME NEW t \in Threads, DoRelease(t)
      PROVE  Kept
  BY <1>1, <1>4, ReleaseObjects
<1>5. ASSUME NEW t \in Threads, DoUngroup(t)
      PROVE  Kept
  BY <1>1, <1>5, UngroupObjects
<1>6. ASSUME NEW t \in Threads, DoUnlock(t)
      PROVE  Kept
  BY <1>1, <1>6, UnlockObjects
<1>7. ASSUME NEW t \in Threads, DoCancel(t)
      PROVE  Kept
  BY <1>1, <1>7, CancelObjects
<1>8. ASSUME NEW t \in Threads, DoWait(t)
      PROVE  Kept
  BY <1>1, <1>8, WaitObjects
<1>9. ASSUME NEW t \in Threads, DoUnset(t)
      PROVE  Kept
  BY <1>1, <1>9, UnsetObjects
<1>10. ASSUME NEW t \in Threads, DoRetire(t)
      PROVE  Kept
  BY <1>1, <1>10, RetireObjects
<1>11. ASSUME NEW t \in Threads, DoGather(t)
      PROVE  Kept
  BY <1>1, <1>11, GatherObjects
<1>12. ASSUME NEW t \in Threads, DoLeaveGroup(t)
      PROVE  Kept
  BY <1>1, <1>12, LeaveObjects
<1>13. ASSUME NEW t \in Threads, DoFinish(t)
      PROVE  Kept
  BY <1>1, <1>13, FinishObjects
<1>14. ASSUME NEW t \in Threads, DoRearm(t)
      PROVE  Kept
  BY <1>1, <1>14, RearmObjects
<1>15. ASSUME NEW t \in Callers \union Workers, NEW o \in Objects, TpPostWork(t, o)
      PROVE  Kept
  BY <1>1, <1>15, PostObjects
<1>16. ASSUME NEW t \in Callers \union Workers, NEW o \in Objects, TpRelease(t, o)
      PROVE  Kept
  BY <1>1, <1>16, TpReleaseObjects
<1>17. ASSUME NEW t \in Callers \union Workers, NEW o \in Objects,
             NEW when \in {"later", "now", "never"}, TpSetTimerEx(t, o, when)
      PROVE  Kept
  BY <1>1, <1>17, SetTimerObjects
<1>18. ASSUME NEW c \in Callers, NEW o \in Objects, TpAlloc(c, o)
      PROVE  Kept
  BY <1>1, <1>18, AllocObjects
<1>19. ASSUME NEW c \in Callers, NEW o \in Objects, NEW cancel \in BOOLEAN, TpWaitForObject(c, o, cancel)
      PROVE  Kept
  BY <1>1, <1>19, TpWaitObjects
<1>20. ASSUME NEW c \in Callers, NEW cancel \in BOOLEAN, TpReleaseCleanupGroupMembers(c, cancel)
      PROVE  Kept
  BY <1>1, <1>20, CloseObjects
<1>21. ASSUME NEW w \in Workers, WorkerTakes(w)
      PROVE  Kept
  BY <1>1, <1>21, TakesObjects
<1>22. ASSUME NEW w \in Workers, CallbackReturns(w)
      PROVE  Kept
  BY <1>1, <1>22, ReturnsObjects
<1>23. ASSUME NEW w \in Workers, TpDisassociateCallback(w)
      PROVE  Kept
  BY <1>1, <1>23, DisassociateObjects
<1>24. ASSUME NEW o \in Objects, TimerExpires(o)
      PROVE  Kept
  BY <1>1, <1>24, ExpireObjects
<1>25. ASSUME NEW w \in Workers, WorkerChecks(w)
      PROVE  Kept
  BY <1>1, <1>25, WorkerObjects
<1>26. ASSUME NEW w \in Workers, WorkerSleeps(w)
      PROVE  Kept
  BY <1>1, <1>26, WorkerObjects
<1>27. ASSUME NEW w \in Workers, WorkerEnds(w)
      PROVE  Kept
  BY <1>1, <1>27, WorkerObjects
<1>28. ASSUME NEW w \in Workers, WorkerTimesOut(w)
      PROVE  Kept
  BY <1>1, <1>28, WorkerObjects
<1>29. ASSUME NEW c \in Callers, TpReleaseCleanupGroup(c)
      PROVE  Kept
  BY <1>1, <1>29, WorkerObjects
<1>30. ASSUME NEW c \in Callers, TpReleasePool(c)
      PROVE  Kept
  BY <1>1, <1>30, WorkerObjects
<1>31. CASE UNCHANGED vars
  BY <1>1, <1>31, WorkerObjects
<1> QED
  BY <1>1, <1>2, <1>3, <1>4, <1>5, <1>6, <1>7, <1>8, <1>9, <1>10, <1>11, <1>12, <1>13,
     <1>14, <1>15, <1>16, <1>17, <1>18, <1>19, <1>20, <1>21, <1>22, <1>23, <1>24, <1>25,
     <1>26, <1>27, <1>28, <1>29, <1>30, <1>31, NextSteps

\* In every state an object and its group, its references, the threads that have still to
\* do something with it and the locks they keep agree (tp_object_submit,
\* tp_object_release, TpReleaseCleanupGroupMembers, submit_expired_timers).
THEOREM ObjectsAgree == Spec => []Base
<1>1. Init => Base
  BY BaseInit
<1>2. Base /\ [Next]_vars => Base'
  BY BaseNext
<1> QED
  BY <1>1, <1>2, PTL DEF Spec

\* One thread at most has an operation of such a role, and has it once.
LEMMA CountIsOne ==
  ASSUME Types, TodoInv, NEW o \in Objects, NEW r, NEW names,
         \A x \in Ops : x.op \in names <=> Role(x.op) = r,
         \A t, u \in Threads : Does(t, r, o) /\ Does(u, r, o) => t = u
  PROVE  Count(o, names) = One(Some(r, o))
<1> DEFINE in(t) == {i \in DOMAIN todo[t] : todo[t][i].obj = o /\ todo[t][i].op \in names}
           S == UNION {{t} \X in(t) : t \in Threads}
<1>1. \A t \in Threads : todo[t] \in Seq(Ops) /\ Ordered(todo[t])
  BY DEF Types, ObjectTypes, TodoInv
<1>2. \A t \in Threads : /\ DOMAIN todo[t] = 1..Len(todo[t]) /\ Len(todo[t]) \in Nat
                         /\ \A i \in DOMAIN todo[t] : todo[t][i] \in Ops
  BY <1>1
<1>3. \A t \in Threads : \A i \in DOMAIN todo[t] :
        i \in in(t) <=> todo[t][i].obj = o /\ Role(todo[t][i].op) = r
  BY <1>2
<1>4. \A t \in Threads : Todo(t) = {todo[t][i] : i \in DOMAIN todo[t]}
  BY DEF Todo, ToSet
<1>5. \A t \in Threads : in(t) # {} <=> Does(t, r, o)
  BY <1>3, <1>4 DEF Does
<1>6. ASSUME NEW t \in Threads, NEW i \in in(t), NEW j \in in(t)
      PROVE  i = j
  <2>1. /\ i \in 1..Len(todo[t]) /\ j \in 1..Len(todo[t]) /\ Len(todo[t]) \in Nat
        /\ todo[t][i].obj = todo[t][j].obj /\ Role(todo[t][i].op) = Role(todo[t][j].op)
    BY <1>2, <1>3
  <2>2. ~(i < j) /\ ~(j < i)
    BY <1>1, <2>1 DEF Ordered, Fits
  <2> QED
    BY <2>1, <2>2
<1>7. \A x : x \in S <=> \E t \in Threads : \E i \in in(t) : x = <<t, i>>
  OBVIOUS
<1>8. CASE Some(r, o)
  <2>1. PICK t \in Threads : Does(t, r, o)
    BY <1>8 DEF Some
  <2>2. PICK i \in in(t) : TRUE
    BY <1>5, <2>1
  <2>3. \A u \in Threads : \A j \in in(u) : u = t /\ j = i
    BY <1>5, <1>6, <2>1
  <2>4. S = {<<t, i>>}
    <3> HIDE DEF S, in
    <3> QED
      BY <1>7, <2>2, <2>3
  <2>5. Cardinality(S) = 1
    BY <2>4, FS_Singleton
  <2> QED
    BY <1>8, <2>5 DEF Count, One
<1>9. CASE ~Some(r, o)
  <2>1. \A t \in Threads : in(t) = {}
    BY <1>5, <1>9 DEF Some
  <2>2. S = {}
    BY <1>7, <2>1
  <2>3. Cardinality(S) = 0
    BY <2>2, FS_EmptySet
  <2> QED
    BY <1>9, <2>3 DEF Count, One
<1> QED
  BY <1>8, <1>9

\* ReferencesCounted: for any objects, threads and applications, refcount is what threads
\* will give back, and no thread has yet to touch an object that is freed
\* (tp_object_submit, tp_object_cancel, tp_object_release, TpReleaseCleanupGroupMembers,
\* threadpool_worker_proc).
THEOREM ReferencesAreCounted == Spec => []ReferencesCounted
<1>1. ASSUME Base
      PROVE  ReferencesCounted
  <2>1. Types /\ TodoInv
    BY <1>1 DEF Base, CoreInv
  <2>2. ASSUME NEW o \in Objects, life[o] = "alive"
        PROVE  refcount[o] = (IF appref[o] THEN 1 ELSE 0) + pending[o] + Executing(o)
                       + Count(o, {"release"}) + (IF Gathered(o) THEN 1 ELSE 0)
                       + Count(o, {"group_wait", "group_asleep", "finish"})
    <3>1. GroupInv(o) /\ UniqueInv(o)
      BY <1>1, ObjectFacts DEF ObjectInv
    <3>2. \A x \in Ops : x.op \in {"release"} <=> Role(x.op) = "release"
      BY DEF Role, RefNames, LeaveNames
    <3>3. Count(o, {"release"}) = One(Some("release", o))
      BY <2>1, <3>1, <3>2, CountIsOne DEF UniqueInv
    <3>4. \A x \in Ops : x.op \in {"group_wait", "group_asleep", "finish"} <=> Role(x.op) = "ref"
      BY RoleNames DEF Role, RefNames, LeaveNames, Ops, ObjectNames
    <3>5. Count(o, {"group_wait", "group_asleep", "finish"}) = One(Some("ref", o))
      BY <2>1, <3>1, <3>4, CountIsOne DEF UniqueInv
    <3>6. ~(Gathered(o) /\ Some("ref", o))
      BY <3>1 DEF GroupInv, Some
    <3>7. One(Closed(o)) = One(Gathered(o)) + One(Some("ref", o))
      BY <3>6 DEF Closed, One
    <3>8. PICK a, b, c, d, e \in Nat :
            /\ a = One(appref[o]) /\ b = One(Some("release", o)) /\ c = One(Gathered(o))
            /\ d = One(Some("ref", o)) /\ e = One(Closed(o))
      BY DEF One
    <3>9. PICK p, n \in Nat : p = pending[o] /\ n = running[o] /\ n = Executing(o)
      BY <1>1, ObjectFacts
    <3>10. refcount[o] = a + p + n + b + e
      BY <1>1, <2>2, <3>8, <3>9, ReferenceSum
    <3>11. a + p + n + b + e = a + p + n + b + c + d
      BY <3>7, <3>8
    <3>12. a = (IF appref[o] THEN 1 ELSE 0) /\ c = (IF Gathered(o) THEN 1 ELSE 0)
      BY <3>8 DEF One
    <3>13. refcount[o] = a + p + n + b + c + d
      BY <3>10, <3>11
    <3> QED
      BY <3>3, <3>5, <3>8, <3>9, <3>12, <3>13
  <2>3. ASSUME NEW o \in Objects, life[o] # "alive"
        PROVE  refcount[o] = 0 /\ o \notin timers
               /\ \A t \in Threads : \A x \in ToSet(todo[t]) : x.obj # o
    <3>1. refcount[o] = 0 /\ o \notin timers
      BY <1>1, <2>3, ObjectFacts DEF ObjectInv, GoneInv
    <3>2. \A t \in Threads : \A r : ~Does(t, r, o)
      BY <1>1, <2>3, UsedIsAlive
    <3> QED
      BY <3>1, <3>2 DEF Does, Todo
  <2> QED
    BY <2>2, <2>3 DEF ReferencesCounted
<1> QED
  BY <1>1, ObjectsAgree, PTL

-----------------------------------------------------------------------------
(* What the pool and the group count.                                       *)

\* The thread comes to destroy the object, if that was the last reference; nothing else
\* is about to be destroyed that was not.
Ends(t, o, last) ==
  \A u \in Threads : \A p \in Objects :
    /\ Does(u, "unlock", p)' <=> Does(u, "unlock", p) \/ (last /\ u = t /\ p = o)
    /\ Does(u, "ungroup", p)' <=>
         Does(u, "ungroup", p) \/ (last /\ u = t /\ p = o /\ o \in GroupMembers)
    /\ Does(u, "release", p)' => Does(u, "release", p)

\* What most steps do to the lives of objects.
Quiet ==
  /\ program' = program /\ life' = life /\ \A p \in Objects : appref'[p] => appref[p]
  /\ group'.refcount = group.refcount /\ group'.shutdown = group.shutdown
  /\ \E t, o, last : Ends(t, o, last) /\ (last => /\ o \in Objects /\ life[o] = "alive"
                                                  /\ refcount[o] # 0)

\* The other steps.
LEMMA QuietSteps ==
  ASSUME Base, [Next]_vars
  PROVE  \/ Quiet
         \/ \E c \in Callers, o \in Objects : TpAlloc(c, o)
         \/ \E t \in Threads : DoUngroup(t) \/ DoUnlock(t)
         \/ \E c \in Callers : TpReleaseCleanupGroup(c)
<1> DEFINE G == \/ Quiet
                \/ \E c \in Callers, o \in Objects : TpAlloc(c, o)
                \/ \E t \in Threads : DoUngroup(t) \/ DoUnlock(t)
                \/ \E c \in Callers : TpReleaseCleanupGroup(c)
<1>a. /\ Types /\ TodoInv /\ WorkerInv /\ Distinct(group.members)
      /\ GroupTypes /\ appref \in [Objects -> BOOLEAN]
      /\ \A name \in {"submit", "join", "release", "cancel", "wait", "unset", "retire", "finish",
                      "rearm"} : name \in ObjectNames
  BY DEF Base, CoreInv, LockInv, ObjectNames, Types, ObjectTypes
<1>b. ASSUME program' = program, life' = life, \A p \in Objects : appref'[p] => appref[p],
             group'.refcount = group.refcount, group'.shutdown = group.shutdown,
             NEW t, NEW o, NEW last, Ends(t, o, last),
             last => o \in Objects /\ life[o] = "alive" /\ refcount[o] # 0
      PROVE  G
  BY <1>b DEF Quiet
<1>c. ASSUME program' = program, life' = life, \A p \in Objects : appref'[p] => appref[p],
             group'.refcount = group.refcount, group'.shutdown = group.shutdown,
             Ends(NoThread, NoObject, FALSE)
      PROVE  G
  BY <1>c DEF Quiet
<1>d. \A o \in Objects : \A t \in Threads, r \in {"release", "retire", "ref", "cancel"} :
        Does(t, r, o) => life[o] = "alive" /\ refcount[o] # 0
  <2> SUFFICES ASSUME NEW o \in Objects, NEW t \in Threads,
                      NEW r \in {"release", "retire", "ref", "cancel"}, Does(t, r, o)
               PROVE  life[o] = "alive" /\ refcount[o] # 0
    OBVIOUS
  <2>1. life[o] = "alive"
    BY UsedIsAlive
  <2> QED
    BY <2>1, LastReference
<1> HIDE DEF G
<1>1. ASSUME NEW t \in Threads, DoSubmit(t)
     PROVE  G
  <2>1. /\ program' = program /\ life' = life /\ \A p \in Objects : appref'[p] => appref[p]
        /\ group'.refcount = group.refcount /\ group'.shutdown = group.shutdown
    BY <1>a, <1>1 DEF DoSubmit, GroupTypes, appvars, groupvars, Submit
  <2>2. At(t, "submit") /\ Continue(t) /\ "submit" \in ObjectNames /\ Role("submit") = "submit"
    BY <1>a, <1>1, RoleNames DEF DoSubmit
  <2>3. Ends(NoThread, NoObject, FALSE)
    BY <1>a, <2>2, ContinueDoes DEF Ends
  <2> QED
    BY <1>c, <2>1, <2>3
<1>2. ASSUME NEW t \in Threads, DoJoin(t)
     PROVE  G
  <2>1. /\ program' = program /\ life' = life /\ \A p \in Objects : appref'[p] => appref[p]
        /\ group'.refcount = group.refcount /\ group'.shutdown = group.shutdown
    BY <1>a, <1>2 DEF DoJoin, GroupTypes, appvars, groupvars
  <2>2. At(t, "join") /\ Continue(t) /\ "join" \in ObjectNames /\ Role("join") = "join"
    BY <1>a, <1>2, RoleNames DEF DoJoin
  <2>3. Ends(NoThread, NoObject, FALSE)
    BY <1>a, <2>2, ContinueDoes DEF Ends
  <2> QED
    BY <1>c, <2>1, <2>3
<1>3. ASSUME NEW t \in Threads, DoRelease(t)
     PROVE  G
  <2>1. PICK o \in Objects : o = Obj(t) /\ Does(t, "release", o) /\ At(t, "release") /\ Role("release") = "release"
    BY <1>a, <1>3, HeadDoes, RoleNames DEF DoRelease
  <2>2. PICK last \in BOOLEAN : last <=> refcount[o] = 1
    OBVIOUS
  <2>3. Then(t, (IF last THEN Destroy(Obj(t)) ELSE <<>>) \o Tail(todo[t]))
    BY <1>3, <2>1, <2>2 DEF DoRelease
  <2>4. /\ program' = program /\ life' = life /\ \A p \in Objects : appref'[p] => appref[p]
        /\ group'.refcount = group.refcount /\ group'.shutdown = group.shutdown
    BY <1>a, <2>1, <1>3 DEF DoRelease, GroupTypes, appvars, groupvars
  <2>5. Ends(t, o, last)
    BY <1>a, <2>1, <2>3, DestroyDoes DEF Ends
  <2> QED
    BY <1>b, <1>d, <2>1, <2>4, <2>5
<1>4. ASSUME NEW t \in Threads, DoUngroup(t)
     PROVE  G
  BY <1>4 DEF G
<1>5. ASSUME NEW t \in Threads, DoUnlock(t)
     PROVE  G
  BY <1>5 DEF G
<1>6. ASSUME NEW t \in Threads, DoCancel(t)
     PROVE  G
  <2>1. PICK o \in Objects : o = Obj(t) /\ Does(t, "cancel", o) /\ At(t, "cancel") /\ Role("cancel") = "cancel"
    BY <1>a, <1>6, HeadDoes, RoleNames DEF DoCancel
  <2>2. PICK last \in BOOLEAN : last <=> refcount[o] = pending[o]
    OBVIOUS
  <2>3. Then(t, (IF last THEN Destroy(Obj(t)) ELSE <<>>) \o Tail(todo[t]))
    BY <1>6, <2>1, <2>2 DEF DoCancel
  <2>4. /\ program' = program /\ life' = life /\ \A p \in Objects : appref'[p] => appref[p]
        /\ group'.refcount = group.refcount /\ group'.shutdown = group.shutdown
    BY <1>a, <2>1, <1>6 DEF DoCancel, GroupTypes, appvars, groupvars
  <2>5. Ends(t, o, last)
    BY <1>a, <2>1, <2>3, DestroyDoes DEF Ends
  <2> QED
    BY <1>b, <1>d, <2>1, <2>4, <2>5
<1>7. ASSUME NEW t \in Threads, DoWait(t)
     PROVE  G
  <2>1. /\ program' = program /\ life' = life /\ \A p \in Objects : appref'[p] => appref[p]
        /\ group'.refcount = group.refcount /\ group'.shutdown = group.shutdown
    BY <1>a, <1>7 DEF DoWait, GroupTypes, appvars, groupvars
  <2>2. Ends(NoThread, NoObject, FALSE)
    BY <1>a, <1>7, DoWaitDoes DEF Ends
  <2> QED
    BY <1>c, <2>1, <2>2
<1>8. ASSUME NEW t \in Threads, DoUnset(t)
     PROVE  G
  <2>1. /\ program' = program /\ life' = life /\ \A p \in Objects : appref'[p] => appref[p]
        /\ group'.refcount = group.refcount /\ group'.shutdown = group.shutdown
    BY <1>a, <1>8 DEF DoUnset, GroupTypes, appvars, groupvars
  <2>2. At(t, "unset") /\ Continue(t) /\ "unset" \in ObjectNames /\ Role("unset") = "unset"
    BY <1>a, <1>8, RoleNames DEF DoUnset
  <2>3. Ends(NoThread, NoObject, FALSE)
    BY <1>a, <2>2, ContinueDoes DEF Ends
  <2> QED
    BY <1>c, <2>1, <2>3
<1>9. ASSUME NEW t \in Threads, DoRetire(t)
     PROVE  G
  <2>1. PICK o \in Objects : o = Obj(t) /\ Does(t, "retire", o) /\ At(t, "retire") /\ Role("retire") = "retire"
    BY <1>a, <1>9, HeadDoes, RoleNames DEF DoRetire
  <2>2. PICK last \in BOOLEAN : last <=> refcount[o] = 1
    OBVIOUS
  <2>3. Then(t, (IF last THEN Destroy(Obj(t)) ELSE <<>>) \o Tail(todo[t]))
    BY <1>9, <2>1, <2>2 DEF DoRetire
  <2>4. /\ program' = program /\ life' = life /\ \A p \in Objects : appref'[p] => appref[p]
        /\ group'.refcount = group.refcount /\ group'.shutdown = group.shutdown
    BY <1>a, <2>1, <1>9 DEF DoRetire, GroupTypes, appvars, groupvars
  <2>5. Ends(t, o, last)
    BY <1>a, <2>1, <2>3, DestroyDoes DEF Ends
  <2> QED
    BY <1>b, <1>d, <2>1, <2>4, <2>5
<1>10. ASSUME NEW t \in Threads, DoGather(t)
     PROVE  G
  <2>1. /\ program' = program /\ life' = life /\ \A p \in Objects : appref'[p] => appref[p]
        /\ group'.refcount = group.refcount /\ group'.shutdown = group.shutdown
    BY <1>a, <1>10 DEF DoGather, GroupTypes, appvars, groupvars
  <2>2. Ends(NoThread, NoObject, FALSE)
    BY <1>a, <1>10, DoGatherDoes DEF Ends
  <2> QED
    BY <1>c, <2>1, <2>2
<1>11. ASSUME NEW t \in Threads, DoLeaveGroup(t)
     PROVE  G
  <2>1. /\ program' = program /\ life' = life /\ \A p \in Objects : appref'[p] => appref[p]
        /\ group'.refcount = group.refcount /\ group'.shutdown = group.shutdown
    BY <1>a, <1>11 DEF DoLeaveGroup, GroupTypes, appvars, groupvars
  <2>2. Ends(NoThread, NoObject, FALSE)
    BY <1>a, <1>11, DoLeaveGroupDoes DEF Ends
  <2> QED
    BY <1>c, <2>1, <2>2
<1>12. ASSUME NEW t \in Threads, DoFinish(t)
     PROVE  G
  <2>1. PICK o \in Objects : o = Obj(t) /\ Does(t, "ref", o) /\ At(t, "finish") /\ Role("finish") = "ref"
    BY <1>a, <1>12, HeadDoes, RoleNames DEF DoFinish
  <2>2. PICK last \in BOOLEAN : last <=> refcount[o] = (IF ~shutdown[o] /\ Kind(o) # "simple" THEN 2 ELSE 1)
    OBVIOUS
  <2>3. Then(t, (IF last THEN Destroy(Obj(t)) ELSE <<>>) \o Tail(todo[t]))
    BY <1>12, <2>1, <2>2 DEF DoFinish
  <2>4. /\ program' = program /\ life' = life /\ \A p \in Objects : appref'[p] => appref[p]
        /\ group'.refcount = group.refcount /\ group'.shutdown = group.shutdown
    BY <1>a, <2>1, <1>12 DEF DoFinish, GroupTypes, appvars, groupvars
  <2>5. Ends(t, o, last)
    BY <1>a, <2>1, <2>3, DestroyDoes DEF Ends
  <2> QED
    BY <1>b, <1>d, <2>1, <2>4, <2>5
<1>13. ASSUME NEW t \in Threads, DoRearm(t)
     PROVE  G
  <2>1. /\ program' = program /\ life' = life /\ \A p \in Objects : appref'[p] => appref[p]
        /\ group'.refcount = group.refcount /\ group'.shutdown = group.shutdown
    BY <1>a, <1>13 DEF DoRearm, GroupTypes, appvars, groupvars
  <2>2. At(t, "rearm") /\ Continue(t) /\ "rearm" \in ObjectNames /\ Role("rearm") = "rearm"
    BY <1>a, <1>13, RoleNames DEF DoRearm
  <2>3. Ends(NoThread, NoObject, FALSE)
    BY <1>a, <2>2, ContinueDoes DEF Ends
  <2> QED
    BY <1>c, <2>1, <2>3
<1>14. ASSUME NEW t \in Callers \union Workers, NEW o \in Objects, TpPostWork(t, o)
     PROVE  G
  <2>1. /\ program' = program /\ life' = life /\ \A p \in Objects : appref'[p] => appref[p]
        /\ group'.refcount = group.refcount /\ group'.shutdown = group.shutdown
    BY <1>a, <1>14 DEF TpPostWork, GroupTypes, appvars, groupvars, Submit
  <2>2. todo' = todo
    BY <1>14 DEF TpPostWork
  <2>3. Ends(NoThread, NoObject, FALSE)
    BY <1>a, <2>2, TodoStays DEF Ends
  <2> QED
    BY <1>c, <2>1, <2>3
<1>15. ASSUME NEW t \in Callers \union Workers, NEW o \in Objects, TpRelease(t, o)
     PROVE  G
  <2>1. /\ program' = program /\ life' = life /\ \A p \in Objects : appref'[p] => appref[p]
        /\ group'.refcount = group.refcount /\ group'.shutdown = group.shutdown
    BY <1>a, <1>15 DEF TpRelease, GroupTypes, appvars, groupvars
  <2>2. Ends(NoThread, NoObject, FALSE)
    BY <1>a, <1>15, TpReleaseDoes DEF Ends
  <2> QED
    BY <1>c, <2>1, <2>2
<1>16. ASSUME NEW t \in Callers \union Workers, NEW o \in Objects,
              NEW when \in {"later", "now", "never"}, TpSetTimerEx(t, o, when)
     PROVE  G
  <2>1. /\ program' = program /\ life' = life /\ \A p \in Objects : appref'[p] => appref[p]
        /\ group'.refcount = group.refcount /\ group'.shutdown = group.shutdown
    BY <1>a, <1>16 DEF TpSetTimerEx, GroupTypes, appvars, groupvars
  <2>2. Ends(NoThread, NoObject, FALSE)
    BY <1>a, <1>16, TpSetTimerDoes DEF Ends
  <2> QED
    BY <1>c, <2>1, <2>2
<1>17. ASSUME NEW c \in Callers, NEW o \in Objects, TpAlloc(c, o)
     PROVE  G
  BY <1>17 DEF G
<1>18. ASSUME NEW c \in Callers, NEW o \in Objects, NEW cancel \in BOOLEAN,
              TpWaitForObject(c, o, cancel)
     PROVE  G
  <2>1. /\ program' = program /\ life' = life /\ \A p \in Objects : appref'[p] => appref[p]
        /\ group'.refcount = group.refcount /\ group'.shutdown = group.shutdown
    BY <1>a, <1>18 DEF TpWaitForObject, GroupTypes, appvars, groupvars
  <2>2. Ends(NoThread, NoObject, FALSE)
    BY <1>a, <1>18, TpWaitDoes DEF Ends
  <2> QED
    BY <1>c, <2>1, <2>2
<1>19. ASSUME NEW c \in Callers, NEW cancel \in BOOLEAN, TpReleaseCleanupGroupMembers(c, cancel)
     PROVE  G
  <2>1. /\ program' = program /\ life' = life /\ \A p \in Objects : appref'[p] => appref[p]
        /\ group'.refcount = group.refcount /\ group'.shutdown = group.shutdown
    BY <1>a, <1>19 DEF TpReleaseCleanupGroupMembers, GroupTypes, appvars, groupvars
  <2>2. Ends(NoThread, NoObject, FALSE)
    BY <1>a, <1>19, CloseGroupDoes DEF Ends
  <2> QED
    BY <1>c, <2>1, <2>2
<1>20. ASSUME NEW c \in Callers, TpReleaseCleanupGroup(c)
     PROVE  G
  BY <1>20 DEF G
<1>21. ASSUME NEW c \in Callers, TpReleasePool(c)
     PROVE  G
  <2>1. /\ program' = program /\ life' = life /\ \A p \in Objects : appref'[p] => appref[p]
        /\ group'.refcount = group.refcount /\ group'.shutdown = group.shutdown
    BY <1>a, <1>21 DEF TpReleasePool, GroupTypes, appvars, groupvars
  <2>2. todo' = todo
    BY <1>21 DEF TpReleasePool
  <2>3. Ends(NoThread, NoObject, FALSE)
    BY <1>a, <2>2, TodoStays DEF Ends
  <2> QED
    BY <1>c, <2>1, <2>3
<1>22. ASSUME NEW w \in Workers, WorkerTakes(w)
     PROVE  G
  <2>1. /\ program' = program /\ life' = life /\ \A p \in Objects : appref'[p] => appref[p]
        /\ group'.refcount = group.refcount /\ group'.shutdown = group.shutdown
    BY <1>a, <1>22 DEF WorkerTakes, GroupTypes, appvars, groupvars
  <2>2. todo' = todo
    BY <1>22 DEF WorkerTakes
  <2>3. Ends(NoThread, NoObject, FALSE)
    BY <1>a, <2>2, TodoStays DEF Ends
  <2> QED
    BY <1>c, <2>1, <2>3
<1>23. ASSUME NEW w \in Workers, CallbackReturns(w)
     PROVE  G
  <2>1. PICK o \in Objects : o = wobj[w]
    BY <1>a, <1>23, ReturnsDoes
  <2>2. PICK last \in BOOLEAN : last <=> refcount[o] = 1
    OBVIOUS
  <2>3. /\ program' = program /\ life' = life /\ \A p \in Objects : appref'[p] => appref[p]
        /\ group'.refcount = group.refcount /\ group'.shutdown = group.shutdown
    BY <1>a, <1>23 DEF CallbackReturns, GroupTypes, appvars, groupvars
  <2>4. Ends(w, o, last)
    BY <1>a, <1>23, <2>1, <2>2, ReturnsDoes DEF Ends
  <2>5. last => life[o] = "alive" /\ refcount[o] # 0
    BY <2>2, ObjectFacts DEF ObjectInv, GoneInv
  <2> QED
    BY <1>b, <2>1, <2>3, <2>4, <2>5
<1>24. ASSUME NEW w \in Workers, WorkerChecks(w)
     PROVE  G
  <2>1. /\ program' = program /\ life' = life /\ \A p \in Objects : appref'[p] => appref[p]
        /\ group'.refcount = group.refcount /\ group'.shutdown = group.shutdown
    BY <1>a, <1>24 DEF WorkerChecks, GroupTypes, appvars, groupvars
  <2>2. todo' = todo
    BY <1>24 DEF WorkerChecks
  <2>3. Ends(NoThread, NoObject, FALSE)
    BY <1>a, <2>2, TodoStays DEF Ends
  <2> QED
    BY <1>c, <2>1, <2>3
<1>25. ASSUME NEW w \in Workers, WorkerSleeps(w)
     PROVE  G
  <2>1. /\ program' = program /\ life' = life /\ \A p \in Objects : appref'[p] => appref[p]
        /\ group'.refcount = group.refcount /\ group'.shutdown = group.shutdown
    BY <1>a, <1>25 DEF WorkerSleeps, GroupTypes, appvars, groupvars
  <2>2. todo' = todo
    BY <1>25 DEF WorkerSleeps
  <2>3. Ends(NoThread, NoObject, FALSE)
    BY <1>a, <2>2, TodoStays DEF Ends
  <2> QED
    BY <1>c, <2>1, <2>3
<1>26. ASSUME NEW w \in Workers, WorkerEnds(w)
     PROVE  G
  <2>1. /\ program' = program /\ life' = life /\ \A p \in Objects : appref'[p] => appref[p]
        /\ group'.refcount = group.refcount /\ group'.shutdown = group.shutdown
    BY <1>a, <1>26 DEF WorkerEnds, GroupTypes, appvars, groupvars
  <2>2. todo' = todo
    BY <1>26 DEF WorkerEnds
  <2>3. Ends(NoThread, NoObject, FALSE)
    BY <1>a, <2>2, TodoStays DEF Ends
  <2> QED
    BY <1>c, <2>1, <2>3
<1>27. ASSUME NEW w \in Workers, WorkerTimesOut(w)
     PROVE  G
  <2>1. /\ program' = program /\ life' = life /\ \A p \in Objects : appref'[p] => appref[p]
        /\ group'.refcount = group.refcount /\ group'.shutdown = group.shutdown
    BY <1>a, <1>27 DEF WorkerTimesOut, GroupTypes, appvars, groupvars
  <2>2. todo' = todo
    BY <1>27 DEF WorkerTimesOut
  <2>3. Ends(NoThread, NoObject, FALSE)
    BY <1>a, <2>2, TodoStays DEF Ends
  <2> QED
    BY <1>c, <2>1, <2>3
<1>28. ASSUME NEW w \in Workers, TpDisassociateCallback(w)
     PROVE  G
  <2>1. /\ program' = program /\ life' = life /\ \A p \in Objects : appref'[p] => appref[p]
        /\ group'.refcount = group.refcount /\ group'.shutdown = group.shutdown
    BY <1>a, <1>28 DEF TpDisassociateCallback, GroupTypes, appvars, groupvars
  <2>2. Ends(NoThread, NoObject, FALSE)
    BY <1>a, <1>28, DisassociateDoes DEF Ends
  <2> QED
    BY <1>c, <2>1, <2>2
<1>29. ASSUME NEW o \in Objects, TimerExpires(o)
     PROVE  G
  <2>1. /\ program' = program /\ life' = life /\ \A p \in Objects : appref'[p] => appref[p]
        /\ group'.refcount = group.refcount /\ group'.shutdown = group.shutdown
    BY <1>a, <1>29 DEF TimerExpires, GroupTypes, appvars, groupvars
  <2>2. Ends(NoThread, NoObject, FALSE)
    BY <1>a, <1>29, TimerExpiresDoes DEF Ends
  <2> QED
    BY <1>c, <2>1, <2>2
<1>30. ASSUME UNCHANGED vars
     PROVE  G
  <2>1. Ends(NoThread, NoObject, FALSE)
    BY <1>a, <1>30, TodoStays DEF Ends, vars
  <2> QED
    BY <1>c, <1>30, <2>1 DEF vars
<1>e. G
  BY <1>a, <1>1, <1>2, <1>3, <1>4, <1>5, <1>6, <1>7, <1>8, <1>9, <1>10, <1>11, <1>12,
     <1>13, <1>14, <1>15, <1>16, <1>17, <1>18, <1>19, <1>20, <1>21, <1>22, <1>23, <1>24,
     <1>25, <1>26, <1>27, <1>28, <1>29, <1>30, NextSteps
<1> QED
  BY <1>e DEF G

\* What most steps do to the references of the pool.
Steady ==
  /\ pool'.objcount = pool.objcount /\ pool'.shutdown = pool.shutdown
  /\ \E d \in {0, 1} : /\ pool'.refcount = pool.refcount + d
                       /\ pool'.num_workers = pool.num_workers + d

\* tp_object_submit may start a worker.
LEMMA SubmitSteady ==
  ASSUME PoolTypes, NEW t, NEW o, Submit(t, o)
  PROVE  Steady
<1>1. CASE \E busy : NewWorker(busy)
  BY <1>1 DEF NewWorker, PoolTypes, Steady
<1>2. CASE \E busy : pool' = [pool EXCEPT !.num_busy_workers = busy]
  BY <1>2 DEF PoolTypes, Steady
<1> QED
  BY <1>1, <1>2 DEF Submit

\* The other steps.
LEMMA SteadySteps ==
  ASSUME Types, [Next]_vars
  PROVE  \/ Steady
         \/ \E c \in Callers, o \in Objects : TpAlloc(c, o)
         \/ \E t \in Threads : DoUnlock(t)
         \/ \E c \in Callers : TpReleasePool(c)
         \/ \E w \in Workers : WorkerEnds(w)
<1> DEFINE G == \/ Steady
                \/ \E c \in Callers, o \in Objects : TpAlloc(c, o)
                \/ \E t \in Threads : DoUnlock(t)
                \/ \E c \in Callers : TpReleasePool(c)
                \/ \E w \in Workers : WorkerEnds(w)
<1>a. PoolTypes
  BY DEF Types
<1>b. ASSUME pool' = pool PROVE G
  BY <1>a, <1>b DEF Steady, PoolTypes
<1>c. ASSUME Steady PROVE G
  BY <1>c
<1> HIDE DEF G
<1>1. ASSUME NEW t \in Threads, DoSubmit(t)
     PROVE  G
  BY <1>a, <1>c, <1>1, SubmitSteady DEF DoSubmit
<1>2. ASSUME NEW t \in Threads, DoJoin(t)
     PROVE  G
  BY <1>b, <1>2 DEF DoJoin, poolvars
<1>3. ASSUME NEW t \in Threads, DoRelease(t)
     PROVE  G
  BY <1>b, <1>3 DEF DoRelease, poolvars
<1>4. ASSUME NEW t \in Threads, DoUngroup(t)
     PROVE  G
  BY <1>b, <1>4 DEF DoUngroup, poolvars
<1>5. ASSUME NEW t \in Threads, DoUnlock(t)
     PROVE  G
  BY <1>5 DEF G
<1>6. ASSUME NEW t \in Threads, DoCancel(t)
     PROVE  G
  BY <1>b, <1>6 DEF DoCancel, poolvars
<1>7. ASSUME NEW t \in Threads, DoWait(t)
     PROVE  G
  BY <1>b, <1>7 DEF DoWait, poolvars
<1>8. ASSUME NEW t \in Threads, DoUnset(t)
     PROVE  G
  BY <1>b, <1>8 DEF DoUnset, poolvars
<1>9. ASSUME NEW t \in Threads, DoRetire(t)
     PROVE  G
  BY <1>b, <1>9 DEF DoRetire, poolvars
<1>10. ASSUME NEW t \in Threads, DoGather(t)
     PROVE  G
  BY <1>b, <1>10 DEF DoGather, poolvars
<1>11. ASSUME NEW t \in Threads, DoLeaveGroup(t)
     PROVE  G
  BY <1>b, <1>11 DEF DoLeaveGroup, poolvars
<1>12. ASSUME NEW t \in Threads, DoFinish(t)
     PROVE  G
  BY <1>b, <1>12 DEF DoFinish, poolvars
<1>13. ASSUME NEW t \in Threads, DoRearm(t)
     PROVE  G
  BY <1>b, <1>13 DEF DoRearm, poolvars
<1>14. ASSUME NEW t \in Callers \union Workers, NEW o \in Objects, TpPostWork(t, o)
     PROVE  G
  BY <1>a, <1>c, <1>14, SubmitSteady DEF TpPostWork
<1>15. ASSUME NEW t \in Callers \union Workers, NEW o \in Objects, TpRelease(t, o)
     PROVE  G
  BY <1>b, <1>15 DEF TpRelease, poolvars
<1>16. ASSUME NEW t \in Callers \union Workers, NEW o \in Objects,
              NEW when \in {"later", "now", "never"}, TpSetTimerEx(t, o, when)
     PROVE  G
  BY <1>b, <1>16 DEF TpSetTimerEx, poolvars
<1>17. ASSUME NEW c \in Callers, NEW o \in Objects, TpAlloc(c, o)
     PROVE  G
  BY <1>17 DEF G
<1>18. ASSUME NEW c \in Callers, NEW o \in Objects, NEW cancel \in BOOLEAN,
              TpWaitForObject(c, o, cancel)
     PROVE  G
  BY <1>b, <1>18 DEF TpWaitForObject, poolvars
<1>19. ASSUME NEW c \in Callers, NEW cancel \in BOOLEAN, TpReleaseCleanupGroupMembers(c, cancel)
     PROVE  G
  BY <1>b, <1>19 DEF TpReleaseCleanupGroupMembers, poolvars
<1>20. ASSUME NEW c \in Callers, TpReleaseCleanupGroup(c)
     PROVE  G
  BY <1>b, <1>20 DEF TpReleaseCleanupGroup, poolvars
<1>21. ASSUME NEW c \in Callers, TpReleasePool(c)
     PROVE  G
  BY <1>21 DEF G
<1>22. ASSUME NEW w \in Workers, WorkerTakes(w)
     PROVE  G
  BY <1>a, <1>c, <1>22 DEF WorkerTakes, Steady, PoolTypes
<1>23. ASSUME NEW w \in Workers, CallbackReturns(w)
     PROVE  G
  BY <1>a, <1>c, <1>23 DEF CallbackReturns, Steady, PoolTypes
<1>24. ASSUME NEW w \in Workers, WorkerChecks(w)
     PROVE  G
  BY <1>b, <1>24 DEF WorkerChecks, poolvars
<1>25. ASSUME NEW w \in Workers, WorkerSleeps(w)
     PROVE  G
  BY <1>b, <1>25 DEF WorkerSleeps, poolvars
<1>26. ASSUME NEW w \in Workers, WorkerEnds(w)
     PROVE  G
  BY <1>26 DEF G
<1>27. ASSUME NEW w \in Workers, WorkerTimesOut(w)
     PROVE  G
  BY <1>b, <1>27 DEF WorkerTimesOut, poolvars
<1>28. ASSUME NEW w \in Workers, TpDisassociateCallback(w)
     PROVE  G
  BY <1>b, <1>28 DEF TpDisassociateCallback, poolvars
<1>29. ASSUME NEW o \in Objects, TimerExpires(o)
     PROVE  G
  BY <1>b, <1>29 DEF TimerExpires, poolvars
<1>30. ASSUME UNCHANGED vars
     PROVE  G
  BY <1>b, <1>30 DEF vars
<1>d. G
  BY <1>a, <1>1, <1>2, <1>3, <1>4, <1>5, <1>6, <1>7, <1>8, <1>9, <1>10, <1>11, <1>12,
     <1>13, <1>14, <1>15, <1>16, <1>17, <1>18, <1>19, <1>20, <1>21, <1>22, <1>23, <1>24,
     <1>25, <1>26, <1>27, <1>28, <1>29, <1>30, NextSteps
<1> QED
  BY <1>d DEF G

\* tp_threadpool_lock.
LEMMA LockCounts ==
  ASSUME PoolTypes, NEW c, ThreadpoolLock(c)
  PROVE  /\ pool'.objcount = pool.objcount + 1 /\ pool'.shutdown = pool.shutdown
         /\ \E d \in {0, 1} : /\ pool'.refcount = pool.refcount + 1 + d
                              /\ pool'.num_workers = pool.num_workers + d
                              /\ d = 0 => pool.num_workers > 0
<1>1. CASE pool.num_workers > 0
  <2>1. pool' = [pool EXCEPT !.refcount = @ + 1, !.objcount = @ + 1]
    BY <1>1 DEF ThreadpoolLock
  <2>2. /\ pool'.objcount = pool.objcount + 1 /\ pool'.shutdown = pool.shutdown
        /\ pool'.refcount = pool.refcount + 1 + 0 /\ pool'.num_workers = pool.num_workers + 0
    BY <2>1 DEF PoolTypes
  <2> QED
    BY <1>1, <2>2
<1>2. CASE ~(pool.num_workers > 0)
  <2>1. pool' = [[pool EXCEPT !.refcount = @ + 1, !.objcount = @ + 1]
                    EXCEPT !.refcount = @ + 1, !.num_workers = @ + 1]
    BY <1>2 DEF ThreadpoolLock
  <2>2. /\ pool'.objcount = pool.objcount + 1 /\ pool'.shutdown = pool.shutdown
        /\ pool'.refcount = pool.refcount + 1 + 1 /\ pool'.num_workers = pool.num_workers + 1
    BY <2>1 DEF PoolTypes
  <2> QED
    BY <2>2
<1> QED
  BY <1>1, <1>2

\* objcount counts the objects that are alive.
LEMMA AliveStep ==
  ASSUME Base, [Next]_vars, AliveCount
  PROVE  AliveCount'
<1>1. Types /\ TodoInv /\ PoolTypes /\ life \in [Objects -> {"none", "alive", "freed"}]
  BY DEF Base, CoreInv, Types, ObjectTypes
<1>2. IsFiniteSet(Objects) /\ Alive \subseteq Objects
  BY Constants DEF Alive
<1>3. ASSUME NEW c \in Callers, NEW o \in Objects, TpAlloc(c, o)
      PROVE  AliveCount'
  <2>1. Alive' = Alive \union {o} /\ o \notin Alive
    BY <1>1, <1>3 DEF TpAlloc, Alive
  <2>2. pool'.objcount = pool.objcount + 1
    BY <1>1, <1>3, LockCounts DEF TpAlloc
  <2> QED
    BY <1>2, <2>1, <2>2, CardinalitySteps DEF AliveCount
<1>4. ASSUME NEW t \in Threads, DoUnlock(t)
      PROVE  AliveCount'
  <2>1. At(t, "unlock") /\ "unlock" \in ObjectNames
    BY <1>4 DEF DoUnlock, ObjectNames
  <2>2. PICK o \in Objects : o = Obj(t) /\ Does(t, Role("unlock"), o)
    BY <1>1, <2>1, HeadDoes
  <2>3. life[o] = "alive"
    BY <2>2, UsedIsAlive
  <2>4. life' = [life EXCEPT ![o] = "freed"] /\ pool'.objcount = pool.objcount - 1
    BY <1>1, <1>4, <2>2 DEF DoUnlock, PoolTypes
  <2>5. Alive' = Alive \ {o} /\ o \in Alive
    BY <1>1, <2>3, <2>4 DEF Alive
  <2> QED
    BY <1>2, <2>4, <2>5, CardinalitySteps DEF AliveCount
<1>5. CASE life' = life /\ pool'.objcount = pool.objcount
  BY <1>5 DEF AliveCount, Alive
<1>6. \/ life' = life
      \/ \E c \in Callers, o \in Objects : TpAlloc(c, o)
      \/ \E t \in Threads : DoUnlock(t)
  BY QuietSteps DEF Quiet, DoUngroup, TpReleaseCleanupGroup
<1>7. \/ pool'.objcount = pool.objcount
      \/ \E c \in Callers, o \in Objects : TpAlloc(c, o)
      \/ \E t \in Threads : DoUnlock(t)
  BY <1>1, SteadySteps DEF Steady, PoolTypes, TpReleasePool, WorkerEnds
<1> QED
  BY <1>3, <1>4, <1>5, <1>6, <1>7

\* The references of the pool, and the worker it has while it has objects.
LEMMA RefStep ==
  ASSUME Base, [Next]_vars, RefInv, StaffInv
  PROVE  RefInv' /\ StaffInv'
<1>1. Types /\ PoolTypes /\ pool.num_workers \in Nat
  <2>1. IsFiniteSet(Started)
    BY Constants, FS_Subset DEF Started
  <2> QED
    BY <2>1, FS_CardinalityType DEF Base, CoreInv, CountInv, StartedInv, Types
<1>2. One(FALSE) = 0 /\ One(TRUE) = 1
  BY DEF One
<1>3. PICK e \in {0, 1} : e = One(~pool.shutdown)
  BY DEF One
<1>4. pool.refcount = e + pool.objcount + pool.num_workers
  BY <1>3 DEF RefInv
<1>5. CASE Steady
  <2>1. PICK d \in {0, 1} : /\ pool'.refcount = pool.refcount + d
                            /\ pool'.num_workers = pool.num_workers + d
    BY <1>5 DEF Steady
  <2>2. pool'.objcount = pool.objcount /\ pool'.shutdown = pool.shutdown
    BY <1>5 DEF Steady
  <2>3. One(~pool.shutdown)' = e
    BY <1>3, <2>2
  <2>4. pool'.refcount = e + pool'.objcount + pool'.num_workers
    BY <1>1, <1>4, <2>1, <2>2 DEF PoolTypes
  <2>5. StaffInv'
    BY <1>1, <2>1, <2>2 DEF StaffInv
  <2> QED
    BY <2>3, <2>4, <2>5 DEF RefInv
<1>6. ASSUME NEW c \in Callers, NEW o \in Objects, TpAlloc(c, o)
      PROVE  RefInv' /\ StaffInv'
  <2>1. ThreadpoolLock(c)
    BY <1>6 DEF TpAlloc
  <2>2. pool'.objcount = pool.objcount + 1 /\ pool'.shutdown = pool.shutdown
    BY <1>1, <2>1, LockCounts
  <2>3. PICK d \in {0, 1} : /\ pool'.refcount = pool.refcount + 1 + d
                            /\ pool'.num_workers = pool.num_workers + d
                            /\ d = 0 => pool.num_workers > 0
    BY <1>1, <2>1, LockCounts
  <2>4. One(~pool.shutdown)' = e
    BY <1>3, <2>2
  <2>5. pool'.refcount = e + pool'.objcount + pool'.num_workers /\ pool'.num_workers > 0
    BY <1>1, <1>4, <2>2, <2>3 DEF PoolTypes
  <2> QED
    BY <2>4, <2>5 DEF RefInv, StaffInv
<1>7. ASSUME NEW t \in Threads, DoUnlock(t)
      PROVE  RefInv' /\ StaffInv'
  <2>1. /\ pool'.objcount = pool.objcount - 1 /\ pool'.refcount = pool.refcount - 1
        /\ pool'.shutdown = pool.shutdown /\ pool'.num_workers = pool.num_workers
    BY <1>1, <1>7 DEF DoUnlock, PoolTypes
  <2>2. One(~pool.shutdown)' = e
    BY <1>3, <2>1
  <2>3. pool'.refcount = e + pool'.objcount + pool'.num_workers
    BY <1>1, <1>4, <2>1 DEF PoolTypes
  <2>4. StaffInv'
    BY <1>1, <2>1 DEF StaffInv, PoolTypes
  <2> QED
    BY <2>2, <2>3, <2>4 DEF RefInv
<1>8. ASSUME NEW c \in Callers, TpReleasePool(c)
      PROVE  RefInv' /\ StaffInv'
  <2>1. /\ pool'.objcount = pool.objcount /\ pool'.refcount = pool.refcount - 1
        /\ pool'.shutdown = TRUE /\ pool'.num_workers = pool.num_workers /\ ~pool.shutdown
    BY <1>1, <1>8 DEF TpReleasePool, PoolTypes
  <2>2. One(~pool.shutdown)' = 0 /\ e = 1
    BY <1>2, <1>3, <2>1 DEF One
  <2>3. pool'.refcount = 0 + pool'.objcount + pool'.num_workers
    BY <1>1, <1>4, <2>1, <2>2 DEF PoolTypes
  <2> QED
    BY <2>1, <2>2, <2>3 DEF RefInv, StaffInv
<1>9. ASSUME NEW w \in Workers, WorkerEnds(w)
      PROVE  RefInv' /\ StaffInv'
  <2>1. /\ pool'.objcount = pool.objcount /\ pool'.refcount = pool.refcount - 1
        /\ pool'.shutdown = pool.shutdown /\ pool'.num_workers = pool.num_workers - 1
    BY <1>1, <1>9 DEF WorkerEnds, PoolTypes
  <2>2. One(~pool.shutdown)' = e
    BY <1>3, <2>1
  <2>3. pool'.refcount = e + pool'.objcount + pool'.num_workers
    BY <1>1, <1>4, <2>1 DEF PoolTypes
  <2>4. \/ pool.shutdown
        \/ pool.num_workers > 1
        \/ pool.objcount = 0
    <3>1. MinWorkers \in Nat
      BY PoolAssumption
    <3>2. \E x \in {MinWorkers, 1} : \A y \in {MinWorkers, 1} : x >= y
      BY <3>1
    <3>3. /\ Max({MinWorkers, 1}) \in {MinWorkers, 1}
          /\ \A y \in {MinWorkers, 1} : Max({MinWorkers, 1}) >= y
      BY <3>2 DEF Max
    <3>4. Max({MinWorkers, 1}) \in Int /\ Max({MinWorkers, 1}) >= 1
      BY <3>1, <3>3
    <3> QED
      BY <1>1, <1>9, <3>4 DEF WorkerEnds, Redundant
  <2>5. StaffInv'
    BY <1>1, <2>1, <2>4 DEF StaffInv, PoolTypes
  <2> QED
    BY <2>2, <2>3, <2>5 DEF RefInv
<1> QED
  BY <1>1, <1>5, <1>6, <1>7, <1>8, <1>9, SteadySteps

\* The group counts its objects until they leave it.
LEMMA GroupStep ==
  ASSUME Base, [Next]_vars, GroupCount
  PROVE  GroupCount'
<1>1. /\ Types /\ TodoInv /\ GroupTypes /\ life \in [Objects -> {"none", "alive", "freed"}]
      /\ \A o \in Objects : ObjectInv(o)
  BY DEF Base, CoreInv, Types, ObjectTypes, AllObjects
<1>2. IsFiniteSet(Objects) /\ GroupedSet \subseteq Objects
  BY Constants DEF GroupedSet
<1>3. PICK n \in Int : n = Cardinality(GroupedSet)
  BY <1>2, CardinalitySteps
<1>4. PICK e \in {0, 1} : e = One(~group.shutdown)
  BY DEF One
<1>5. group.refcount = e + n
  BY <1>3, <1>4 DEF GroupCount
<1>6. ASSUME NEW o \in Objects, program' = program, life'[o] = life[o],
             \A u \in Threads : /\ Does(u, "unlock", o)' <=> Does(u, "unlock", o)
                                /\ Does(u, "ungroup", o)' <=> Does(u, "ungroup", o)
      PROVE  o \in GroupedSet' <=> o \in GroupedSet
  BY <1>6 DEF GroupedSet, Grouped, GroupMembers
<1>7. CASE Quiet
  <2>1. PICK t, p, last : Ends(t, p, last) /\ (last => /\ p \in Objects /\ life[p] = "alive"
                                                       /\ refcount[p] # 0)
    BY <1>7 DEF Quiet
  <2>2. program' = program /\ life' = life /\ GroupMembers' = GroupMembers
    BY <1>7 DEF Quiet, GroupMembers
  <2>3. ASSUME NEW o \in Objects
        PROVE  o \in GroupedSet' <=> o \in GroupedSet
    <3>1. CASE last /\ o = p
      <4>1. \A u \in Threads : ~Does(u, "unlock", o)
        BY <1>1, <2>1, <3>1 DEF ObjectInv, AliveInv, Some
      <4>2. /\ \A u \in Threads : Does(u, "unlock", o)' => u = t
            /\ t \in Threads /\ o \in GroupMembers => Does(t, "ungroup", o)'
        BY <2>1, <3>1, <4>1 DEF Ends
      <4> QED
        BY <2>2, <4>1, <4>2 DEF GroupedSet, Grouped
    <3>2. CASE ~(last /\ o = p)
      <4>1. \A u \in Threads : /\ Does(u, "unlock", o)' <=> Does(u, "unlock", o)
                               /\ Does(u, "ungroup", o)' <=> Does(u, "ungroup", o)
        BY <2>1, <3>2 DEF Ends
      <4> QED
        BY <1>6, <2>2, <4>1
    <3> QED
      BY <3>1, <3>2
  <2>4. GroupedSet' = GroupedSet
    BY <2>3 DEF GroupedSet
  <2> QED
    BY <1>7, <2>4 DEF Quiet, GroupCount
<1>8. ASSUME NEW c \in Callers, NEW o \in Objects, TpAlloc(c, o)
      PROVE  GroupCount'
  <2>1. /\ life[o] = "none" /\ life' = [life EXCEPT ![o] = "alive"] /\ program' = program
        /\ group' = IF o \in GroupMembers THEN [group EXCEPT !.refcount = @ + 1] ELSE group
    BY <1>8 DEF TpAlloc
  <2>2. \A u \in Threads : \A p : /\ Does(u, "unlock", p)' <=> Does(u, "unlock", p)
                                  /\ Does(u, "ungroup", p)' <=> Does(u, "ungroup", p)
    BY <1>1, <1>8, TpAllocDoes
  <2>3. \A u \in Threads : ~Does(u, "unlock", o)
    BY <1>1, <2>1 DEF ObjectInv, GoneInv, Some, Roles
  <2>4. \A p \in Objects : p # o => (p \in GroupedSet' <=> p \in GroupedSet)
    BY <1>1, <1>6, <2>1, <2>2
  <2>5. o \notin GroupedSet /\ (o \in GroupedSet' <=> o \in GroupMembers)
    <3>1. life'[o] = "alive" /\ GroupMembers' = GroupMembers
      BY <1>1, <2>1 DEF GroupMembers
    <3> QED
      BY <2>1, <2>2, <2>3, <3>1 DEF GroupedSet, Grouped
  <2>6. CASE o \in GroupMembers
    <3>1. GroupedSet' = GroupedSet \union {o}
      BY <2>4, <2>5, <2>6 DEF GroupedSet
    <3>2. group'.refcount = group.refcount + 1 /\ group'.shutdown = group.shutdown
      BY <1>1, <2>1, <2>6 DEF GroupTypes
    <3>3. Cardinality(GroupedSet)' = n + 1
      BY <1>2, <1>3, <2>5, <3>1, CardinalitySteps
    <3>4. One(~group.shutdown)' = e
      BY <1>4, <3>2
    <3> QED
      BY <1>5, <3>2, <3>3, <3>4 DEF GroupCount
  <2>7. CASE o \notin GroupMembers
    <3>1. GroupedSet' = GroupedSet
      BY <2>4, <2>5, <2>7 DEF GroupedSet
    <3> QED
      BY <2>1, <2>7, <3>1 DEF GroupCount
  <2> QED
    BY <2>6, <2>7
<1>9. ASSUME NEW t \in Threads, DoUngroup(t)
      PROVE  GroupCount'
  <2>1. At(t, "ungroup") /\ "ungroup" \in ObjectNames /\ Role("ungroup") = "ungroup" /\ Continue(t)
    BY <1>9, RoleNames DEF DoUngroup, ObjectNames
  <2>2. PICK o \in Objects : o = Obj(t) /\ Does(t, "ungroup", o)
    BY <1>1, <2>1, HeadDoes
  <2>3. \A u \in Threads : \A r, p :
          Does(u, r, p)' <=> Does(u, r, p) /\ ~(u = t /\ r = "ungroup" /\ p = o)
    BY <1>1, <2>1, <2>2, ContinueDoes
  <2>4. /\ program' = program /\ life' = life /\ group'.refcount = group.refcount - 1
        /\ group'.shutdown = group.shutdown
    BY <1>1, <1>9 DEF DoUngroup, appvars, GroupTypes
  <2>5. /\ o \in GroupMembers /\ Does(t, "unlock", o) /\ life[o] = "alive"
        /\ \A u \in Threads : Does(u, "unlock", o) => u = t
    BY <1>1, <2>2, UsedIsAlive DEF ObjectInv, GroupInv, UniqueInv
  <2>6. o \in GroupedSet /\ o \notin GroupedSet'
    BY <2>2, <2>3, <2>5 DEF GroupedSet, Grouped
  <2>7. \A p \in Objects : p # o => (p \in GroupedSet' <=> p \in GroupedSet)
    BY <1>6, <2>3, <2>4
  <2>8. GroupedSet' = GroupedSet \ {o}
    BY <2>6, <2>7 DEF GroupedSet
  <2>9. Cardinality(GroupedSet)' = n - 1
    BY <1>2, <1>3, <2>6, <2>8, CardinalitySteps
  <2>10. One(~group.shutdown)' = e
    BY <1>4, <2>4
  <2> QED
    BY <1>5, <2>4, <2>9, <2>10 DEF GroupCount
<1>10. ASSUME NEW t \in Threads, DoUnlock(t)
       PROVE  GroupCount'
  <2>1. At(t, "unlock") /\ "unlock" \in ObjectNames /\ Role("unlock") = "unlock" /\ Continue(t)
    BY <1>10, RoleNames DEF DoUnlock, ObjectNames
  <2>2. PICK o \in Objects : o = Obj(t) /\ Does(t, "unlock", o) /\ ~Does(t, "ungroup", o)
    BY <1>1, <2>1, HeadDoes DEF MayFollow
  <2>3. \A u \in Threads : \A r, p :
          Does(u, r, p)' <=> Does(u, r, p) /\ ~(u = t /\ r = "unlock" /\ p = o)
    BY <1>1, <2>1, <2>2, ContinueDoes
  <2>4. /\ program' = program /\ life' = [life EXCEPT ![o] = "freed"] /\ group' = group
    BY <1>10, <2>2 DEF DoUnlock, appvars, groupvars
  <2>5. o \notin GroupedSet /\ o \notin GroupedSet'
    BY <1>1, <2>2, <2>4 DEF GroupedSet, Grouped
  <2>6. \A p \in Objects : p # o => (p \in GroupedSet' <=> p \in GroupedSet)
    BY <1>1, <1>6, <2>3, <2>4
  <2>7. GroupedSet' = GroupedSet
    BY <2>5, <2>6 DEF GroupedSet
  <2> QED
    BY <2>4, <2>7 DEF GroupCount
<1>11. ASSUME NEW c \in Callers, TpReleaseCleanupGroup(c)
       PROVE  GroupCount'
  <2>1. /\ program' = program /\ life' = life /\ group'.refcount = group.refcount - 1
        /\ group'.shutdown = TRUE /\ ~group.shutdown /\ todo' = todo
    BY <1>1, <1>11 DEF TpReleaseCleanupGroup, appvars, GroupTypes
  <2>2. \A u \in Threads : \A r, p : Does(u, r, p)' <=> Does(u, r, p)
    BY <1>1, <2>1, TodoStays
  <2>3. GroupedSet' = GroupedSet
    BY <1>6, <2>1, <2>2 DEF GroupedSet
  <2>4. One(~group.shutdown)' = 0 /\ e = 1
    BY <1>4, <2>1 DEF One
  <2> QED
    BY <1>3, <1>5, <2>1, <2>3, <2>4 DEF GroupCount
<1> QED
  BY <1>7, <1>8, <1>9, <1>10, <1>11, QuietSteps

\* Nothing is created or given back by the application once the pool is released.
LEMMA EndStep ==
  ASSUME Base, [Next]_vars, EndInv
  PROVE  EndInv'
<1>1. /\ Types /\ TodoInv /\ PoolTypes
  BY DEF Base, CoreInv, Types
<1>2. ASSUME NEW c \in Callers, NEW o \in Objects, TpAlloc(c, o)
      PROVE  EndInv'
  <2>1. ~pool'.shutdown
    BY <1>1, <1>2, LockCounts DEF TpAlloc
  <2> QED
    BY <2>1 DEF EndInv
<1>3. \/ \A o \in Objects : (appref'[o] => appref[o]) /\ (Some("release", o)' => Some("release", o))
      \/ \E c \in Callers, o \in Objects : TpAlloc(c, o)
  <2>1. CASE Quiet
    BY <2>1 DEF Quiet, Ends, Some
  <2>2. ASSUME NEW t \in Threads, DoUngroup(t) \/ DoUnlock(t)
        PROVE  \A o \in Objects : (appref'[o] => appref[o]) /\ (Some("release", o)' => Some("release", o))
    <3>1. appref' = appref
      BY <2>2 DEF DoUngroup, DoUnlock, appvars
    <3>2. Continue(t) /\ todo[t] # <<>>
      BY <2>2 DEF DoUngroup, DoUnlock, At
    <3>3. \A u \in Threads : \A r, o : Does(u, r, o)' => Does(u, r, o)
      BY <1>1, <3>2, Continued
    <3> QED
      BY <3>1, <3>3 DEF Some
  <2>3. ASSUME NEW c \in Callers, TpReleaseCleanupGroup(c)
        PROVE  \A o \in Objects : (appref'[o] => appref[o]) /\ (Some("release", o)' => Some("release", o))
    <3>1. appref' = appref /\ todo' = todo
      BY <2>3 DEF TpReleaseCleanupGroup, appvars
    <3> QED
      BY <1>1, <3>1, TodoStays DEF Some
  <2> QED
    BY <2>1, <2>2, <2>3, QuietSteps
<1>4. CASE pool'.shutdown => pool.shutdown
  BY <1>2, <1>3, <1>4 DEF EndInv
<1>5. ASSUME NEW c \in Callers, TpReleasePool(c)
      PROVE  EndInv'
  <2>1. /\ \A o \in Objects : ~appref[o] /\ ~InUse(o)
        /\ appref' = appref /\ todo' = todo
    BY <1>5 DEF TpReleasePool, appvars
  <2>2. \A o \in Objects : ~Some("release", o)
    <3> SUFFICES ASSUME NEW o \in Objects, NEW t \in Threads, Does(t, "release", o)
                 PROVE  FALSE
      BY DEF Some
    <3>1. t \in Callers \union Workers
      BY <1>1, TimerOnly, Constants
    <3> QED
      BY <2>1, <3>1 DEF InUse, Does, Todo
  <2>3. \A r, o : Some(r, o)' <=> Some(r, o)
    BY <1>1, <2>1, TodoStays DEF Some
  <2> QED
    BY <2>1, <2>2, <2>3 DEF EndInv
<1>6. \/ pool'.shutdown = pool.shutdown
      \/ \E c \in Callers, o \in Objects : TpAlloc(c, o)
      \/ \E c \in Callers : TpReleasePool(c)
  BY <1>1, SteadySteps DEF Steady, PoolTypes, DoUnlock, WorkerEnds
<1> QED
  BY <1>2, <1>4, <1>5, <1>6

PoolInv == Base /\ EndInv /\ AliveCount /\ RefInv /\ StaffInv /\ GroupCount

\* In every state the pool counts its references, its objects and its workers, and the
\* group its objects; an object that is alive has a worker (tp_threadpool_lock,
\* tp_threadpool_unlock, tp_group_release, the end of threadpool_worker_proc).
THEOREM PoolIsCounted == Spec => []PoolInv
<1>1. Init => PoolInv
  <2> SUFFICES ASSUME Init PROVE PoolInv
    OBVIOUS
  <2>1. Base
    BY BaseInit
  <2>2. Alive = {} /\ GroupedSet = {}
    BY DEF Init, Alive, GroupedSet, Grouped
  <2>3. Cardinality(Alive) = 0 /\ Cardinality(GroupedSet) = 0
    BY <2>2, FS_EmptySet
  <2>4. /\ pool.refcount = 1 /\ pool.objcount = 0 /\ ~pool.shutdown /\ pool.num_workers = 0
        /\ group.refcount = 1 /\ ~group.shutdown
    BY DEF Init
  <2> QED
    BY <2>1, <2>3, <2>4 DEF PoolInv, EndInv, AliveCount, RefInv, StaffInv, GroupCount, One
<1>2. PoolInv /\ [Next]_vars => PoolInv'
  <2> SUFFICES ASSUME PoolInv, [Next]_vars PROVE PoolInv'
    OBVIOUS
  <2>1. Base /\ EndInv /\ AliveCount /\ RefInv /\ StaffInv /\ GroupCount
    BY DEF PoolInv
  <2>2. Base'
    BY <2>1, BaseNext
  <2>3. EndInv' /\ AliveCount'
    BY <2>1, EndStep, AliveStep
  <2>4. RefInv' /\ StaffInv' /\ GroupCount'
    BY <2>1, RefStep, GroupStep
  <2> QED
    BY <2>2, <2>3, <2>4 DEF PoolInv
<1> QED
  BY <1>1, <1>2, PTL DEF Spec

\* AssertionsHold: no assert of threadpool.c fails, for any objects, threads and
\* applications: objects, pool and group end shut down and idle, nothing is submitted
\* after shutdown, a submit finds a worker, an item has a pending callback
\* (tp_object_release, tp_threadpool_release, tp_group_release, tp_object_submit,
\* tp_object_execute).
THEOREM AssertionsAreMet == Spec => []AssertionsHold
<1>1. ASSUME PoolInv
      PROVE  AssertionsHold
  <2>1. /\ Base /\ EndInv /\ AliveCount /\ RefInv /\ StaffInv /\ GroupCount
        /\ Types /\ TodoInv /\ QueueInv /\ CountInv
    BY <1>1 DEF PoolInv, Base, CoreInv
  <2>2. /\ IsFiniteSet(Alive) /\ Cardinality(Alive) \in Nat
        /\ IsFiniteSet(GroupedSet) /\ Cardinality(GroupedSet) \in Nat
        /\ IsFiniteSet(Started) /\ Cardinality(Started) \in Nat
        /\ IsFiniteSet(InCallback) /\ Cardinality(InCallback) \in Nat
        /\ IsFiniteSet(Waiting) /\ Cardinality(Waiting) \in Nat
    BY Constants, FS_Subset, FS_CardinalityType
       DEF Alive, GroupedSet, Started, InCallback, Waiting
  <2>3. \A o \in Objects : life[o] = "alive" => pool.objcount > 0
    <3> SUFFICES ASSUME NEW o \in Objects, life[o] = "alive" PROVE pool.objcount > 0
      OBVIOUS
    <3>1. Cardinality(Alive) # 0
      BY <2>2, FS_EmptySet DEF Alive
    <3> QED
      BY <2>1, <2>2, <3>1 DEF AliveCount
  <2>4. ASSUME NEW o \in Objects, life[o] = "alive", refcount[o] = 0
        PROVE  shutdown[o] /\ pending[o] = 0 /\ running[o] = 0 /\ associated[o] = 0
    <3>1. /\ ~appref[o] /\ pending[o] = 0 /\ running[o] = 0 /\ ~Closed(o)
          /\ \A t \in Threads : ~Does(t, "submit", o)
      BY <2>1, <2>4, LastReference
    <3>2. Executing(o) = 0 /\ AliveInv(o) /\ shutdown[o] \in BOOLEAN /\ appref[o] \in BOOLEAN
      BY <2>1, <3>1, ObjectFacts DEF ObjectInv
    <3>3. shutdown[o]
      BY <2>4, <3>1, <3>2 DEF AliveInv, Some
    <3>4. {w \in Workers : wobj[w] = o} = {}
      <4>1. IsFiniteSet({w \in Workers : wobj[w] = o})
        BY Constants, FS_Subset
      <4> QED
        BY <3>2, <4>1, FS_EmptySet DEF Executing
    <3>5. Cardinality(Associates(o)) = 0
      BY <3>4, FS_EmptySet DEF Associates
    <3> QED
      BY <2>1, <3>1, <3>3, <3>5 DEF CountInv, AssociatedInv
  <2>5. ASSUME NEW o \in Objects, NEW t \in Threads, At(t, "submit"), Obj(t) = o
        PROVE  ~shutdown[o] /\ ~pool.shutdown /\ pool.num_workers > 0
    <3>1. Does(t, "submit", o)
      <4>1. "submit" \in ObjectNames /\ Role("submit") = "submit"
        BY RoleNames DEF ObjectNames
      <4> QED
        BY <2>1, <2>5, <4>1, HeadDoes
    <3>2. life[o] = "alive"
      BY <2>1, <3>1, UsedIsAlive
    <3>3. /\ AliveInv(o) /\ SimpleInv(o) /\ CallInv(o) /\ TimerInv(o)
          /\ shutdown[o] \in BOOLEAN /\ appref[o] \in BOOLEAN
      BY <2>1, ObjectFacts DEF ObjectInv, UseInv
    <3>4. ASSUME Kind(o) = "simple"
          PROVE  ~shutdown[o] /\ ~pool.shutdown
      BY <2>1, <3>1, <3>3, <3>4 DEF SimpleInv, EndInv, Some
    <3>5. ASSUME Kind(o) # "simple"
          PROVE  ~shutdown[o] /\ ~pool.shutdown
      <4>1. appref[o]
        BY <3>1, <3>3, <3>5 DEF CallInv, TimerInv, Roles
      <4> QED
        BY <2>1, <3>2, <3>3, <3>5, <4>1 DEF AliveInv, EndInv
    <3>6. ~shutdown[o] /\ ~pool.shutdown
      BY <3>4, <3>5
    <3> QED
      BY <2>1, <2>3, <3>2, <3>6 DEF StaffInv
  <2>6. ASSUME pool.refcount = 0
        PROVE  pool.shutdown /\ pool.objcount = 0 /\ ~HasItem
    <3>1. PICK e \in {0, 1} : e = One(~pool.shutdown)
      BY DEF One
    <3>2. pool.objcount \in Nat /\ pool.num_workers \in Nat
      BY <2>1, <2>2 DEF AliveCount, CountInv, StartedInv
    <3>3. e = 0 /\ pool.objcount = 0
      BY <2>1, <2>6, <3>1, <3>2 DEF RefInv
    <3>4. pool.shutdown
      BY <3>1, <3>3 DEF One
    <3>5. \A o \in Objects : life[o] # "alive"
      BY <2>3, <3>3
    <3>6. \A o \in Objects : pending[o] = 0
      BY <2>1, <3>5, ObjectFacts DEF ObjectInv, GoneInv
    <3>7. ~HasItem
      BY <2>1, <3>6, NextItemPending
    <3> QED
      BY <3>3, <3>4, <3>7
  <2>7. ASSUME group.refcount = 0
        PROVE  group.shutdown /\ group.members = <<>>
    <3>1. PICK e \in {0, 1} : e = One(~group.shutdown)
      BY DEF One
    <3>2. e = 0 /\ Cardinality(GroupedSet) = 0
      BY <2>1, <2>2, <2>7, <3>1 DEF GroupCount
    <3>3. group.shutdown
      BY <3>1, <3>2 DEF One
    <3>4. GroupedSet = {}
      BY <2>2, <3>2, FS_EmptySet
    <3>5. ASSUME NEW o \in Objects, In(o)
          PROVE  FALSE
      <4>1. GroupInv(o) /\ GoneInv(o)
        BY <2>1, ObjectFacts DEF ObjectInv
      <4>2. Grouped(o)
        BY <3>5, <4>1 DEF GroupInv, GoneInv, Grouped
      <4> QED
        BY <3>4, <4>2 DEF GroupedSet
    <3>6. PICK m \in Seq(Objects) : m = group.members
      BY <2>1 DEF Types, GroupTypes
    <3>7. m # <<>> => Head(m) \in Objects /\ Head(m) \in ToSet(m)
      BY ToSetTail
    <3> QED
      BY <3>3, <3>5, <3>6, <3>7 DEF In
  <2>8. Cardinality({w \in Workers : wpc[w] = "callback"}) <= pool.num_busy_workers
    <3>1. Cardinality(InCallback) <= pool.num_busy_workers
      BY <2>1, <2>2 DEF CountInv, BusyInv, Types, PoolTypes
    <3> QED
      BY <3>1 DEF InCallback
  <2>9. \A o \in Objects : \A p \in 0..2 :
          (o \in ToSet(pools[p])) = (p = Priority[o] /\ pending[o] > 0)
    BY <2>1 DEF QueueInv
  <2> QED
    BY <2>4, <2>5, <2>6, <2>7, <2>8, <2>9 DEF AssertionsHold
<1> QED
  BY <1>1, PoolIsCounted, PTL

-----------------------------------------------------------------------------
(* Who sleeps.                                                              *)

SleepNames == {"asleep", "group_asleep"}
Sleepless(q) == \A x \in ToSet(q) : x.op \notin SleepNames

\* Only what a thread does now can be a sleep.
HeadSleeps(td) == \A t \in Threads : td[t] # <<>> => Sleepless(Tail(td[t]))

\* What most steps do: nobody goes to sleep.
Calm == \A u \in Threads : todo'[u] = todo[u] \/ Sleepless(todo'[u])

\* Todos without sleeps, one after the other.
LEMMA SleeplessConcat ==
  ASSUME NEW p \in Seq(Ops), NEW q \in Seq(Ops), Sleepless(p), Sleepless(q)
  PROVE  Sleepless(p \o q)
BY ToSetConcat DEF Sleepless

\* Todos without sleeps, of one operation at most,
LEMMA SleeplessShort ==
  /\ <<>> \in Seq(Ops) /\ Sleepless(<<>>)
  /\ \A x \in Ops : <<x>> \in Seq(Ops) /\ (x.op \notin SleepNames => Sleepless(<<x>>))
<1>1. <<>> \in Seq(Ops) /\ ToSet(<<>>) = {}
  BY EmptySeq DEF ToSet
<1>2. ASSUME NEW x \in Ops
      PROVE  <<x>> \in Seq(Ops) /\ ToSet(<<x>>) = {x}
  BY ToSetShort
<1> QED
  BY <1>1, <1>2 DEF Sleepless

\* and of one for each object of a list.
LEMMA SleeplessEach ==
  ASSUME NEW name \in ObjectNames \ SleepNames, NEW m \in Seq(Objects), Distinct(m),
         NEW q, q = [i \in DOMAIN m |-> Op(name, m[i])]
  PROVE  q \in Seq(Ops) /\ Sleepless(q)
<1>1. q \in Seq(Ops) /\ ToSet(q) = {Op(name, o) : o \in ToSet(m)}
  BY EachOps
<1>2. \A o : Op(name, o).op = name
  BY OpTypes
<1> QED
  BY <1>1, <1>2 DEF Sleepless

\* A thread gets other things to do,
LEMMA CalmThen ==
  ASSUME Types, NEW t \in Threads, NEW p, Sleepless(p), Then(t, p)
  PROVE  Calm
BY DEF Then, Calm, Types, ObjectTypes

\* before the rest,
LEMMA CalmReplaced ==
  ASSUME Types, HeadSleeps(todo), NEW t \in Threads, todo[t] # <<>>, NEW p \in Seq(Ops),
         Sleepless(p), Then(t, p \o Tail(todo[t]))
  PROVE  Calm
<1>1. Tail(todo[t]) \in Seq(Ops) /\ Sleepless(Tail(todo[t]))
  BY ToSetTail DEF Types, ObjectTypes, HeadSleeps
<1>2. Sleepless(p \o Tail(todo[t]))
  BY <1>1, SleeplessConcat
<1> QED
  BY <1>2, CalmThen

\* or is done with one.
LEMMA CalmContinue ==
  ASSUME Types, HeadSleeps(todo), NEW t \in Threads, todo[t] # <<>>, Continue(t)
  PROVE  Calm
<1>1. Sleepless(Tail(todo[t]))
  BY DEF HeadSleeps
<1>2. PICK p : p = Tail(todo[t])
  OBVIOUS
<1>3. Then(t, p)
  BY <1>2 DEF Continue
<1> QED
  BY <1>1, <1>2, <1>3, CalmThen

\* A thread that waits for nothing does not sleep.
LEMMA CalmRoles ==
  ASSUME Types, NEW t \in Threads, NEW p, Then(t, p),
         \A o : ~Does(t, "waits", o)' /\ ~Does(t, "ref", o)'
  PROVE  Calm
<1>1. todo'[t] = p
  BY DEF Then, Types, ObjectTypes
<1>2. ASSUME NEW x \in ToSet(p), x.op \in SleepNames
      PROVE  FALSE
  <2>1. Role(x.op) \in {"waits", "ref"}
    BY <1>2 DEF SleepNames, Role, RefNames
  <2>2. \A r : Role(x.op) = r => Does(t, r, x.obj)'
    BY <1>1, <1>2 DEF Does, Todo
  <2> QED
    BY <2>1, <2>2
<1> QED
  BY <1>2, CalmThen DEF Sleepless

\* Sleepers that look again do not sleep.
LEMMA CalmWoken ==
  ASSUME NEW td \in [Threads -> Seq(Ops)], HeadSleeps(td), NEW o \in Objects,
         NEW name \in SleepNames, NEW cond, NEW td2, td2 = WokenIf(cond, td, o, name)
  PROVE  /\ td2 \in [Threads -> Seq(Ops)] /\ HeadSleeps(td2)
         /\ \A u \in Threads : td2[u] = td[u] \/ Sleepless(td2[u])
         /\ cond => \A u \in Threads : td2[u] # <<>> => Head(td2[u]) # Op(name, o)
<1>1. CASE ~cond
  BY <1>1 DEF WokenIf
<1>2. CASE cond
  <2>1. PICK again \in {"wait", "group_wait"} : again = IF name = "asleep" THEN "wait" ELSE "group_wait"
    OBVIOUS
  <2>2. Op(again, o) \in Ops /\ Op(again, o).op \notin SleepNames /\ Op(again, o) # Op(name, o)
    BY OpTypes DEF ObjectNames, SleepNames
  <2>3. PICK p \in Seq(Ops) : p = <<Op(again, o)>>
    BY <2>2, SleeplessShort
  <2>4. Sleepless(p)
    BY <2>2, <2>3, SleeplessShort
  <2>5. td2 = [t \in Threads |-> IF td[t] # <<>> /\ Head(td[t]) = Op(name, o)
                                 THEN p \o Tail(td[t]) ELSE td[t]]
    BY <1>2, <2>1, <2>3 DEF WokenIf, Woken
  <2>6. \A t \in Threads : td[t] # <<>> => Tail(td[t]) \in Seq(Ops) /\ Sleepless(Tail(td[t]))
    BY ToSetTail DEF HeadSleeps
  <2>7. \A t \in Threads : td[t] # <<>> =>
          /\ p \o Tail(td[t]) \in Seq(Ops) /\ Sleepless(p \o Tail(td[t]))
    BY <2>4, <2>6, SleeplessConcat, ToSetConcat
  <2>8. \A q \in Seq(Ops) : Head(p \o q) = Op(again, o)
    BY <2>2, <2>3
  <2>9. td2 \in [Threads -> Seq(Ops)]
    BY <2>5, <2>7
  <2>10. \A u \in Threads : td2[u] = td[u] \/ Sleepless(td2[u])
    BY <2>5, <2>7
  <2>11. HeadSleeps(td2)
    <3>1. \A u \in Threads : td2[u] # <<>> /\ Sleepless(td2[u]) => Sleepless(Tail(td2[u]))
      BY <2>9, ToSetTail DEF Sleepless
    <3> QED
      BY <2>10, <3>1 DEF HeadSleeps
  <2>12. \A u \in Threads : td2[u] # <<>> => Head(td2[u]) # Op(name, o)
    BY <2>2, <2>5, <2>6, <2>8
  <2> QED
    BY <2>9, <2>10, <2>11, <2>12
<1> QED
  BY <1>1, <1>2

\* Only tp_object_wait goes to sleep.
LEMMA CalmSteps ==
  ASSUME Base, HeadSleeps(todo), [Next]_vars
  PROVE  Calm \/ \E t \in Threads : DoWait(t)
<1>a. /\ Types /\ TodoInv /\ WorkerInv /\ Distinct(group.members) /\ todo \in [Threads -> Seq(Ops)]
      /\ \A r, o : Does(TimerThread, r, o) => r \notin {"waits", "ref"}
  BY TimerOnly, Constants DEF Base, CoreInv, LockInv, Types, ObjectTypes
<1>b. \A t \in Threads : todo[t] = <<>> => \A r, o : ~Does(t, r, o)
  <2>1. ToSet(<<>>) = {}
    BY DEF ToSet
  <2> QED
    BY <2>1 DEF Does, Todo
<1>c. ASSUME NEW o \in Objects, NEW cond \in BOOLEAN
      PROVE  \E p \in Seq(Ops) : p = (IF cond THEN Destroy(o) ELSE <<>>) /\ Sleepless(p)
  <2>1. Destroy(o) \in Seq(Ops) /\ Sleepless(Destroy(o))
    BY DestroyOps, OpTypes DEF Sleepless, SleepNames
  <2> QED
    BY <2>1, SleeplessShort
<1>d. ASSUME todo' = todo PROVE Calm
  BY <1>d DEF Calm
<1> DEFINE G == Calm \/ \E t \in Threads : DoWait(t)
<1>e. ASSUME Calm PROVE G
  BY <1>e
<1> HIDE DEF G
<1>1. ASSUME NEW t \in Threads, DoSubmit(t)
     PROVE  G
  <2>1. Continue(t) /\ todo[t] # <<>>
    BY <1>1 DEF DoSubmit, At
  <2> QED
    BY <1>a, <1>e, <2>1, CalmContinue
<1>2. ASSUME NEW t \in Threads, DoJoin(t)
     PROVE  G
  <2>1. Continue(t) /\ todo[t] # <<>>
    BY <1>2 DEF DoJoin, At
  <2> QED
    BY <1>a, <1>e, <2>1, CalmContinue
<1>3. ASSUME NEW t \in Threads, DoRelease(t)
     PROVE  G
  <2>1. At(t, "release") /\ todo[t] # <<>> /\ "release" \in ObjectNames
    BY <1>3 DEF DoRelease, At, ObjectNames
  <2>2. PICK o \in Objects : o = Obj(t)
    BY <1>a, <2>1, HeadDoes
  <2>3. PICK last \in BOOLEAN : last <=> refcount[o] = 1
    OBVIOUS
  <2>4. PICK p \in Seq(Ops) : p = (IF last THEN Destroy(o) ELSE <<>>) /\ Sleepless(p)
    BY <1>c
  <2>5. Then(t, p \o Tail(todo[t]))
    BY <1>3, <2>2, <2>3, <2>4 DEF DoRelease
  <2> QED
    BY <1>a, <1>e, <2>1, <2>4, <2>5, CalmReplaced
<1>4. ASSUME NEW t \in Threads, DoUngroup(t)
     PROVE  G
  <2>1. Continue(t) /\ todo[t] # <<>>
    BY <1>4 DEF DoUngroup, At
  <2> QED
    BY <1>a, <1>e, <2>1, CalmContinue
<1>5. ASSUME NEW t \in Threads, DoUnlock(t)
     PROVE  G
  <2>1. Continue(t) /\ todo[t] # <<>>
    BY <1>5 DEF DoUnlock, At
  <2> QED
    BY <1>a, <1>e, <2>1, CalmContinue
<1>6. ASSUME NEW t \in Threads, DoCancel(t)
     PROVE  G
  <2>1. At(t, "cancel") /\ todo[t] # <<>> /\ "cancel" \in ObjectNames
    BY <1>6 DEF DoCancel, At, ObjectNames
  <2>2. PICK o \in Objects : o = Obj(t)
    BY <1>a, <2>1, HeadDoes
  <2>3. PICK last \in BOOLEAN : last <=> refcount[o] = pending[o]
    OBVIOUS
  <2>4. PICK p \in Seq(Ops) : p = (IF last THEN Destroy(o) ELSE <<>>) /\ Sleepless(p)
    BY <1>c
  <2>5. Then(t, p \o Tail(todo[t]))
    BY <1>6, <2>2, <2>3, <2>4 DEF DoCancel
  <2> QED
    BY <1>a, <1>e, <2>1, <2>4, <2>5, CalmReplaced
<1>7. ASSUME NEW t \in Threads, DoWait(t)
     PROVE  G
  BY <1>7 DEF G
<1>8. ASSUME NEW t \in Threads, DoUnset(t)
     PROVE  G
  <2>1. Continue(t) /\ todo[t] # <<>>
    BY <1>8 DEF DoUnset, At
  <2> QED
    BY <1>a, <1>e, <2>1, CalmContinue
<1>9. ASSUME NEW t \in Threads, DoRetire(t)
     PROVE  G
  <2>1. At(t, "retire") /\ todo[t] # <<>> /\ "retire" \in ObjectNames
    BY <1>9 DEF DoRetire, At, ObjectNames
  <2>2. PICK o \in Objects : o = Obj(t)
    BY <1>a, <2>1, HeadDoes
  <2>3. PICK last \in BOOLEAN : last <=> refcount[o] = 1
    OBVIOUS
  <2>4. PICK p \in Seq(Ops) : p = (IF last THEN Destroy(o) ELSE <<>>) /\ Sleepless(p)
    BY <1>c
  <2>5. Then(t, p \o Tail(todo[t]))
    BY <1>9, <2>2, <2>3, <2>4 DEF DoRetire
  <2> QED
    BY <1>a, <1>e, <2>1, <2>4, <2>5, CalmReplaced
<1>10. ASSUME NEW t \in Threads, DoGather(t)
     PROVE  G
  <2>1. At(t, "gather") /\ todo[t] # <<>> /\ "gather" \in ObjectNames
    BY <1>10 DEF DoGather, At, ObjectNames
  <2>2. PICK o \in Objects : o = Obj(t)
    BY <1>a, <2>1, HeadDoes
  <2>3. Continue(t) \/ Then(t, PrepareShutdown(o) \o Tail(todo[t]))
    BY <1>10, <2>2 DEF DoGather
  <2>4. PICK p \in Seq(Ops) : p = PrepareShutdown(o) /\ Sleepless(p)
    BY PrepareOps, OpTypes DEF Sleepless, SleepNames
  <2>5. CASE Continue(t)
    BY <1>a, <1>e, <2>1, <2>5, CalmContinue
  <2>6. CASE Then(t, PrepareShutdown(o) \o Tail(todo[t]))
    <3>1. Then(t, p \o Tail(todo[t]))
      BY <2>4, <2>6
    <3> QED
      BY <1>a, <1>e, <2>1, <2>4, <3>1, CalmReplaced
  <2> QED
    BY <2>3, <2>5, <2>6
<1>11. ASSUME NEW t \in Threads, DoLeaveGroup(t)
     PROVE  G
  <2>1. PICK m \in Seq(Objects) : m = group.members
    BY <1>a DEF Types, GroupTypes
  <2>2. PICK a : a = [i \in DOMAIN m |-> Op("cancel", m[i])]
    OBVIOUS
  <2>3. PICK b : b = [i \in DOMAIN m |-> Op("group_wait", m[i])]
    OBVIOUS
  <2>4. a \in Seq(Ops) /\ b \in Seq(Ops) /\ Sleepless(a) /\ Sleepless(b)
    <3>1. "cancel" \in ObjectNames \ SleepNames /\ "group_wait" \in ObjectNames \ SleepNames
      BY DEF SleepNames, ObjectNames
    <3> QED
      BY <1>a, <2>1, <2>2, <2>3, <3>1, SleeplessEach
  <2>5. PICK p \in Seq(Ops) : p = (IF At(t, "leavegroup_cancel") THEN a ELSE <<>>) /\ Sleepless(p)
    BY <2>4, SleeplessShort
  <2>6. Then(t, p \o b)
    BY <1>11, <2>1, <2>2, <2>3, <2>5 DEF DoLeaveGroup
  <2>7. Sleepless(p \o b)
    BY <2>4, <2>5, SleeplessConcat
  <2> QED
    BY <1>a, <1>e, <2>6, <2>7, CalmThen
<1>12. ASSUME NEW t \in Threads, DoFinish(t)
     PROVE  G
  <2>1. At(t, "finish") /\ todo[t] # <<>> /\ "finish" \in ObjectNames
    BY <1>12 DEF DoFinish, At, ObjectNames
  <2>2. PICK o \in Objects : o = Obj(t)
    BY <1>a, <2>1, HeadDoes
  <2>3. PICK last \in BOOLEAN : last <=> refcount[o] = (IF ~shutdown[o] /\ Kind(o) # "simple" THEN 2 ELSE 1)
    OBVIOUS
  <2>4. PICK p \in Seq(Ops) : p = (IF last THEN Destroy(o) ELSE <<>>) /\ Sleepless(p)
    BY <1>c
  <2>5. Then(t, p \o Tail(todo[t]))
    BY <1>12, <2>2, <2>3, <2>4 DEF DoFinish
  <2> QED
    BY <1>a, <1>e, <2>1, <2>4, <2>5, CalmReplaced
<1>13. ASSUME NEW t \in Threads, DoRearm(t)
     PROVE  G
  <2>1. Continue(t) /\ todo[t] # <<>>
    BY <1>13 DEF DoRearm, At
  <2> QED
    BY <1>a, <1>e, <2>1, CalmContinue
<1>14. ASSUME NEW t \in Callers \union Workers, NEW o \in Objects, TpPostWork(t, o)
     PROVE  G
  BY <1>d, <1>e, <1>14 DEF TpPostWork
<1>15. ASSUME NEW t \in Callers \union Workers, NEW o \in Objects, TpRelease(t, o)
     PROVE  G
  <2>1. PICK p : Then(t, p) /\ todo[t] = <<>> /\ t \in Threads
    BY <1>15, Constants DEF TpRelease, MayCall
  <2>2. \A x : ~Does(t, "waits", x)' /\ ~Does(t, "ref", x)'
    BY <1>a, <1>b, <1>15, <2>1, TpReleaseDoes
  <2> QED
    BY <1>a, <1>e, <2>1, <2>2, CalmRoles
<1>16. ASSUME NEW t \in Callers \union Workers, NEW o \in Objects,
              NEW when \in {"later", "now", "never"}, TpSetTimerEx(t, o, when)
     PROVE  G
  <2>1. PICK p : Then(t, p) /\ todo[t] = <<>> /\ t \in Threads
    BY <1>16, Constants DEF TpSetTimerEx, MayCall
  <2>2. \A x : ~Does(t, "waits", x)' /\ ~Does(t, "ref", x)'
    BY <1>a, <1>b, <1>16, <2>1, TpSetTimerDoes
  <2> QED
    BY <1>a, <1>e, <2>1, <2>2, CalmRoles
<1>17. ASSUME NEW c \in Callers, NEW o \in Objects, TpAlloc(c, o)
     PROVE  G
  <2>1. PICK p : Then(c, p) /\ todo[c] = <<>> /\ c \in Threads
    BY <1>17, Constants DEF TpAlloc, MayCall
  <2>2. \A x : ~Does(c, "waits", x)' /\ ~Does(c, "ref", x)'
    BY <1>a, <1>b, <1>17, <2>1, TpAllocDoes
  <2> QED
    BY <1>a, <1>e, <2>1, <2>2, CalmRoles
<1>18. ASSUME NEW c \in Callers, NEW o \in Objects, NEW cancel \in BOOLEAN,
              TpWaitForObject(c, o, cancel)
     PROVE  G
  <2>0. /\ Op("cancel", o) \in Ops /\ Op("cancel", o).op \notin SleepNames
        /\ Op("wait", o) \in Ops /\ Op("wait", o).op \notin SleepNames
    BY OpTypes DEF SleepNames, ObjectNames
  <2>1. PICK p \in Seq(Ops) : p = (IF cancel THEN <<Op("cancel", o)>> ELSE <<>>) /\ Sleepless(p)
    BY <2>0, SleeplessShort
  <2>2. PICK q \in Seq(Ops) : q = <<Op("wait", o)>> /\ Sleepless(q)
    BY <2>0, SleeplessShort
  <2>3. Then(c, p \o q) /\ c \in Threads
    BY <1>18, <2>1, <2>2, Constants DEF TpWaitForObject
  <2>4. Sleepless(p \o q)
    BY <2>1, <2>2, SleeplessConcat
  <2> QED
    BY <1>a, <1>e, <2>3, <2>4, CalmThen
<1>19. ASSUME NEW c \in Callers, NEW cancel \in BOOLEAN, TpReleaseCleanupGroupMembers(c, cancel)
     PROVE  G
  <2>1. PICK p : Then(c, p) /\ todo[c] = <<>> /\ c \in Threads
    BY <1>19, Constants DEF TpReleaseCleanupGroupMembers, MayCall
  <2>2. \A x : ~Does(c, "waits", x)' /\ ~Does(c, "ref", x)'
    BY <1>a, <1>b, <1>19, <2>1, CloseGroupDoes
  <2> QED
    BY <1>a, <1>e, <2>1, <2>2, CalmRoles
<1>20. ASSUME NEW c \in Callers, TpReleaseCleanupGroup(c)
     PROVE  G
  BY <1>d, <1>e, <1>20 DEF TpReleaseCleanupGroup
<1>21. ASSUME NEW c \in Callers, TpReleasePool(c)
     PROVE  G
  BY <1>d, <1>e, <1>21 DEF TpReleasePool
<1>22. ASSUME NEW w \in Workers, WorkerTakes(w)
     PROVE  G
  BY <1>d, <1>e, <1>22 DEF WorkerTakes
<1>23. ASSUME NEW w \in Workers, CallbackReturns(w)
     PROVE  G
  <2>1. PICK o \in Objects : o = wobj[w]
    BY <1>a, <1>23, ReturnsDoes
  <2>2. PICK last \in BOOLEAN : last <=> refcount[o] = 1
    OBVIOUS
  <2>3. PICK p \in Seq(Ops) : p = (IF last THEN Destroy(o) ELSE <<>>) /\ Sleepless(p)
    BY <1>c
  <2>4. PICK c1, c2, td1, td2 :
          /\ td1 = WokenIf(c1, todo, o, "group_asleep") /\ td2 = WokenIf(c2, td1, o, "asleep")
          /\ todo' = [td2 EXCEPT ![w] = p]
    BY <1>23, <2>1, <2>2, <2>3 DEF CallbackReturns
  <2>5. /\ td1 \in [Threads -> Seq(Ops)] /\ HeadSleeps(td1)
        /\ \A u \in Threads : td1[u] = todo[u] \/ Sleepless(td1[u])
    BY <1>a, <2>4, CalmWoken DEF SleepNames
  <2>6. /\ td2 \in [Threads -> Seq(Ops)]
        /\ \A u \in Threads : td2[u] = td1[u] \/ Sleepless(td2[u])
    BY <2>4, <2>5, CalmWoken DEF SleepNames
  <2>7. Calm
    BY <2>3, <2>4, <2>5, <2>6 DEF Calm
  <2> QED
    BY <1>e, <2>7
<1>24. ASSUME NEW w \in Workers, WorkerChecks(w)
     PROVE  G
  BY <1>d, <1>e, <1>24 DEF WorkerChecks
<1>25. ASSUME NEW w \in Workers, WorkerSleeps(w)
     PROVE  G
  BY <1>d, <1>e, <1>25 DEF WorkerSleeps
<1>26. ASSUME NEW w \in Workers, WorkerEnds(w)
     PROVE  G
  BY <1>d, <1>e, <1>26 DEF WorkerEnds
<1>27. ASSUME NEW w \in Workers, WorkerTimesOut(w)
     PROVE  G
  BY <1>d, <1>e, <1>27 DEF WorkerTimesOut
<1>28. ASSUME NEW w \in Workers, TpDisassociateCallback(w)
     PROVE  G
  <2>1. wobj[w] \in Objects
    BY <1>a, <1>28, DisassociateDoes
  <2>2. PICK cond : todo' = WokenIf(cond, todo, wobj[w], "asleep")
    BY <1>28 DEF TpDisassociateCallback
  <2>3. Calm
    BY <1>a, <2>1, <2>2, CalmWoken DEF SleepNames, Calm
  <2> QED
    BY <1>e, <2>3
<1>29. ASSUME NEW o \in Objects, TimerExpires(o)
     PROVE  G
  <2>1. PICK p : Then(TimerThread, p) /\ TimerThread \in Threads
    BY <1>29, Constants DEF TimerExpires
  <2>2. \A x : ~Does(TimerThread, "waits", x)' /\ ~Does(TimerThread, "ref", x)'
    BY <1>a, <1>29, <2>1, TimerExpiresDoes
  <2> QED
    BY <1>a, <1>e, <2>1, <2>2, CalmRoles
<1>30. ASSUME UNCHANGED vars
     PROVE  G
  BY <1>d, <1>e, <1>30 DEF vars
<1>f. G
  BY <1>a, <1>1, <1>2, <1>3, <1>4, <1>5, <1>6, <1>7, <1>8, <1>9, <1>10, <1>11, <1>12,
     <1>13, <1>14, <1>15, <1>16, <1>17, <1>18, <1>19, <1>20, <1>21, <1>22, <1>23, <1>24,
     <1>25, <1>26, <1>27, <1>28, <1>29, <1>30, NextSteps
<1> QED
  BY <1>f DEF G

\* A sleep stays where it is: at the head.
LEMMA SleepStep ==
  ASSUME Base, Base', HeadSleeps(todo), [Next]_vars
  PROVE  HeadSleeps(todo')
<1>1. /\ Types /\ TodoInv /\ todo \in [Threads -> Seq(Ops)] /\ todo' \in [Threads -> Seq(Ops)]
  BY DEF Base, CoreInv, Types, ObjectTypes
<1>2. CASE Calm
  <2>1. \A u \in Threads : todo'[u] # <<>> /\ Sleepless(todo'[u]) => Sleepless(Tail(todo'[u]))
    BY <1>1, ToSetTail DEF Sleepless
  <2> QED
    BY <1>2, <2>1 DEF Calm, HeadSleeps
<1>3. ASSUME NEW t \in Threads, DoWait(t)
      PROVE  HeadSleeps(todo')
  <2>1. todo[t] # <<>> /\ Obj(t) \in Objects
    <3>1. "wait" \in ObjectNames /\ "group_wait" \in ObjectNames
      BY DEF ObjectNames
    <3> QED
      BY <1>1, <1>3, <3>1, HeadDoes DEF DoWait
  <2>2. Tail(todo[t]) \in Seq(Ops) /\ Sleepless(Tail(todo[t]))
    BY <1>1, <2>1, ToSetTail DEF HeadSleeps
  <2>3. \A u \in Threads : u # t => todo'[u] = todo[u]
    BY <1>1, <1>3 DEF DoWait, Then, Continue
  <2>4. CASE todo'[t] = Tail(todo[t])
    <3>1. todo'[t] # <<>> => Sleepless(Tail(todo'[t]))
      BY <1>1, <2>2, <2>4, ToSetTail DEF Sleepless
    <3> QED
      BY <2>3, <3>1 DEF HeadSleeps
  <2>5. CASE \E x \in Ops : todo'[t] = <<x>> \o Tail(todo[t])
    <3>1. PICK x \in Ops : todo'[t] = <<x>> \o Tail(todo[t])
      BY <2>5
    <3>2. Tail(todo'[t]) = Tail(todo[t])
      BY <2>2, <3>1
    <3> QED
      BY <2>2, <2>3, <3>2 DEF HeadSleeps
  <2>6. todo'[t] = Tail(todo[t]) \/ \E x \in Ops : todo'[t] = <<x>> \o Tail(todo[t])
    <3>1. \A name \in {"asleep", "finish", "group_asleep"} : Op(name, Obj(t)) \in Ops
      BY <2>1, OpTypes DEF ObjectNames
    <3>2. \/ Continue(t)
          \/ \E name \in {"asleep", "finish", "group_asleep"} :
               Then(t, <<Op(name, Obj(t))>> \o Tail(todo[t]))
      BY <1>3 DEF DoWait
    <3> QED
      BY <1>1, <3>1, <3>2 DEF Then, Continue
  <2> QED
    BY <2>4, <2>5, <2>6
<1> QED
  BY <1>2, <1>3, CalmSteps

\* What a step does to the counts of an object that somebody sleeps for.
LEMMA CountSteps ==
  ASSUME Base, [Next]_vars, NEW o \in Objects
  PROVE  \/ /\ pending'[o] = pending[o] /\ associated'[o] = associated[o]
            /\ running'[o] = running[o]
         \/ pending'[o] > 0
         \/ associated'[o] > 0 /\ running'[o] > 0
         \/ \E u \in Threads : DoCancel(u) /\ Obj(u) = o
         \/ \E w \in Workers : (CallbackReturns(w) \/ TpDisassociateCallback(w)) /\ wobj[w] = o
<1> DEFINE G == \/ /\ pending'[o] = pending[o] /\ associated'[o] = associated[o]
                   /\ running'[o] = running[o]
                \/ pending'[o] > 0
                \/ associated'[o] > 0 /\ running'[o] > 0
                \/ \E u \in Threads : DoCancel(u) /\ Obj(u) = o
                \/ \E w \in Workers : /\ CallbackReturns(w) \/ TpDisassociateCallback(w)
                                      /\ wobj[w] = o
<1>1. /\ Types /\ TodoInv /\ QueueInv /\ pending[o] \in Nat /\ running[o] \in Nat
      /\ pending \in [Objects -> Int] /\ running \in [Objects -> Int]
      /\ associated \in [Objects -> Int]
  BY ObjectFacts DEF Base, CoreInv, Types, ObjectTypes
<1>2. associated[o] \in Nat
  <2>1. IsFiniteSet(Associates(o)) /\ associated[o] = Cardinality(Associates(o))
    BY Constants, FS_Subset DEF Base, CoreInv, CountInv, AssociatedInv, Associates
  <2> QED
    BY <2>1, FS_CardinalityType
<1>3. ASSUME UNCHANGED <<pending, running, associated>>
      PROVE  G
  BY <1>3
<1>4. CASE CoreFrame
  BY <1>4 DEF CoreFrame
<1>5. ASSUME NEW t \in Threads, NEW p \in Objects, Submit(t, p)
      PROVE  G
  <2>1. pending' = [pending EXCEPT ![p] = @ + 1] /\ UNCHANGED <<running, associated>>
    BY <1>5 DEF Submit
  <2>2. CASE p = o
    <3>1. pending'[o] > 0
      BY <1>1, <2>1, <2>2
    <3> QED
      BY <3>1
  <2>3. CASE p # o
    BY <1>1, <2>1, <2>3
  <2> QED
    BY <2>2, <2>3
<1>6. ASSUME NEW u \in Threads, DoCancel(u)
      PROVE  G
  <2>1. pending' = [pending EXCEPT ![Obj(u)] = 0] /\ UNCHANGED <<running, associated>>
    BY <1>6 DEF DoCancel
  <2> QED
    BY <1>1, <1>6, <2>1
<1>7. ASSUME NEW w \in Workers, WorkerTakes(w)
      PROVE  G
  <2>1. PICK p \in Objects : p = NextItem
    BY <1>1, <1>7, NextItemPending DEF WorkerTakes
  <2>2. /\ pending' = [pending EXCEPT ![p] = @ - 1] /\ running' = [running EXCEPT ![p] = @ + 1]
        /\ associated' = [associated EXCEPT ![p] = @ + 1]
    BY <1>7, <2>1 DEF WorkerTakes
  <2>3. CASE p = o
    <3>1. associated'[o] > 0 /\ running'[o] > 0
      BY <1>1, <1>2, <2>2, <2>3
    <3> QED
      BY <3>1
  <2>4. CASE p # o
    BY <1>1, <2>2, <2>4
  <2> QED
    BY <2>3, <2>4
<1>8. ASSUME NEW w \in Workers, CallbackReturns(w) \/ TpDisassociateCallback(w)
      PROVE  G
  <2>1. CASE wobj[w] = o
    BY <1>8, <2>1
  <2>2. CASE wobj[w] # o
    <3>1. pending' = pending
      BY <1>8 DEF CallbackReturns, TpDisassociateCallback
    <3>2. running'[o] = running[o] /\ associated'[o] = associated[o]
      BY <1>1, <1>8, <2>2 DEF CallbackReturns, TpDisassociateCallback
    <3> QED
      BY <3>1, <3>2
  <2> QED
    BY <2>1, <2>2
<1>9. ASSUME \/ \E c \in Callers, p \in Objects : TpAlloc(c, p)
             \/ \E c \in Callers : TpReleasePool(c)
             \/ \E w \in Workers : \/ WorkerChecks(w) \/ WorkerSleeps(w) \/ WorkerEnds(w)
                                   \/ WorkerTimesOut(w)
      PROVE  G
  <2>1. UNCHANGED <<pending, running, associated>>
    BY <1>9 DEF TpAlloc, TpReleasePool, WorkerChecks, WorkerSleeps, WorkerEnds, WorkerTimesOut,
                countvars
  <2> QED
    BY <1>3, <2>1
<1>10. CoreStep
  BY <1>1, CoreSteps
<1> QED
  BY <1>4, <1>5, <1>6, <1>7, <1>8, <1>9, <1>10 DEF CoreStep

\* Some thread cancels the pending callbacks of o.
Cancelled(o) == \E u \in Threads : DoCancel(u) /\ Obj(u) = o

\* Who sleeps on still has something to sleep for, unless it was cancelled.
LEMMA SleepsOn ==
  ASSUME Base, HeadSleeps(todo), [Next]_vars, NEW t \in Threads, todo'[t] = todo[t],
         NEW name \in SleepNames, At(t, name),
         name = "asleep" => ~Finished(Obj(t), pending, associated),
         name = "group_asleep" => ~Finished(Obj(t), pending, running)
  PROVE  /\ name = "asleep" => ~Finished(Obj(t), pending', associated') \/ Cancelled(Obj(t))
         /\ name = "group_asleep" => ~Finished(Obj(t), pending', running')
<1>1. /\ Types /\ TodoInv /\ WorkerInv /\ todo \in [Threads -> Seq(Ops)] /\ name \in ObjectNames
  BY DEF Base, CoreInv, Types, ObjectTypes, SleepNames, ObjectNames
<1>2. PICK o \in Objects : /\ o = Obj(t) /\ todo[t] # <<>> /\ Head(todo[t]) = Op(name, o)
                           /\ Does(t, Role(name), o)
  <2>1. Head(todo[t]) = Op(name, Obj(t)) /\ Obj(t) \in Objects
    BY <1>1, Heads
  <2> QED
    BY <1>1, <2>1, HeadDoes
<1>3. /\ name = "asleep" => ~Finished(o, pending, associated)
      /\ name = "group_asleep" => ~Finished(o, pending, running)
  BY <1>2
<1>4. CASE /\ pending'[o] = pending[o] /\ associated'[o] = associated[o]
           /\ running'[o] = running[o]
  BY <1>2, <1>3, <1>4 DEF Finished
<1>5. CASE pending'[o] > 0 \/ (associated'[o] > 0 /\ running'[o] > 0)
  BY <1>2, <1>5 DEF Finished
<1>6. ASSUME NEW u \in Threads, DoCancel(u), Obj(u) = o
      PROVE  name = "asleep" /\ Cancelled(o)
  <2>1. At(u, "cancel") /\ "cancel" \in ObjectNames /\ Role("cancel") = "cancel"
    BY <1>6, RoleNames DEF DoCancel, ObjectNames
  <2>2. Does(u, "cancel", o)
    BY <1>1, <1>6, <2>1, HeadDoes
  <2>3. u # t
    BY <2>1 DEF At, SleepNames
  <2>4. ASSUME name = "group_asleep"
        PROVE  FALSE
    <3>1. Does(t, "ref", o)
      BY <1>2, <2>4, RoleNames
    <3>2. UniqueInv(o) /\ CallInv(o)
      BY ObjectFacts DEF ObjectInv, UseInv
    <3>3. Does(u, "waits", o)
      BY <2>2, <2>3, <3>1, <3>2 DEF UniqueInv, CallInv
    <3>4. Ending(o) /\ u # TimerThread
      BY <1>1, <3>1, <3>3, TimerOnly DEF Ending, Closed, Some
    <3> QED
      BY <3>2, <3>3, <3>4 DEF CallInv
  <2> QED
    BY <1>6, <2>4 DEF SleepNames, Cancelled
<1>7. ASSUME NEW w \in Workers, TpDisassociateCallback(w), wobj[w] = o
      PROVE  /\ name = "asleep" => ~Finished(o, pending', associated')
             /\ name = "group_asleep" => ~Finished(o, pending', running')
  <2>1. /\ UNCHANGED <<pending, running>>
        /\ todo' = WokenIf(Finished(o, pending, associated'), todo, o, "asleep")
    BY <1>7 DEF TpDisassociateCallback
  <2>2. Finished(o, pending, associated') => Head(todo'[t]) # Op("asleep", o)
    <3>1. PICK cond \in BOOLEAN : cond <=> Finished(o, pending, associated')
      OBVIOUS
    <3>2. todo' = WokenIf(cond, todo, o, "asleep")
      BY <2>1, <3>1 DEF WokenIf
    <3> QED
      BY <1>1, <1>2, <3>1, <3>2, CalmWoken DEF SleepNames
  <2> QED
    BY <1>2, <1>3, <2>1, <2>2 DEF Finished
<1>8. ASSUME NEW w \in Workers, CallbackReturns(w), wobj[w] = o
      PROVE  /\ name = "asleep" => ~Finished(o, pending', associated')
             /\ name = "group_asleep" => ~Finished(o, pending', running')
  <2>1. PICK c1 \in BOOLEAN, c2 \in BOOLEAN :
          /\ c1 <=> Finished(o, pending, running')
          /\ c2 <=> wassoc[w] /\ Finished(o, pending, associated')
    OBVIOUS
  <2>2. PICK td1, td2, p :
          /\ td1 = WokenIf(c1, todo, o, "group_asleep") /\ td2 = WokenIf(c2, td1, o, "asleep")
          /\ todo' = [td2 EXCEPT ![w] = p]
    <3>1. PICK f1, f2 : /\ f1 = Finished(o, pending, running')
                        /\ f2 = (wassoc[w] /\ Finished(o, pending, associated'))
      OBVIOUS
    <3>2. PICK p : todo' = [WokenIf(f2, WokenIf(f1, todo, o, "group_asleep"), o, "asleep")
                              EXCEPT ![w] = p]
      BY <1>8, <3>1 DEF CallbackReturns
    <3>3. \A td, n : WokenIf(f1, td, o, n) = WokenIf(c1, td, o, n)
      BY <2>1, <3>1 DEF WokenIf
    <3>4. \A td, n : WokenIf(f2, td, o, n) = WokenIf(c2, td, o, n)
      BY <2>1, <3>1 DEF WokenIf
    <3>5. PICK td1 : td1 = WokenIf(f1, todo, o, "group_asleep")
      OBVIOUS
    <3>6. PICK td2 : td2 = WokenIf(f2, td1, o, "asleep")
      OBVIOUS
    <3>7. /\ td1 = WokenIf(c1, todo, o, "group_asleep") /\ td2 = WokenIf(c2, td1, o, "asleep")
          /\ todo' = [td2 EXCEPT ![w] = p]
      BY <3>2, <3>3, <3>4, <3>5, <3>6
    <3> QED
      BY <3>7
  <2>3. t # w
    BY <1>2, <1>8 DEF CallbackReturns
  <2>4. /\ td1 \in [Threads -> Seq(Ops)] /\ HeadSleeps(td1)
        /\ \A u \in Threads : td1[u] = todo[u] \/ Sleepless(td1[u])
        /\ c1 => \A u \in Threads : td1[u] # <<>> => Head(td1[u]) # Op("group_asleep", o)
    BY <1>1, <2>2, CalmWoken DEF SleepNames
  <2>5. /\ td2 \in [Threads -> Seq(Ops)]
        /\ \A u \in Threads : td2[u] = td1[u] \/ Sleepless(td2[u])
        /\ c2 => \A u \in Threads : td2[u] # <<>> => Head(td2[u]) # Op("asleep", o)
    BY <2>2, <2>4, CalmWoken DEF SleepNames
  <2>6. td2[t] = todo[t]
    BY <2>2, <2>3, <2>5
  <2>7. ~Sleepless(todo[t])
    <3>1. Op(name, o) \in ToSet(todo[t]) /\ Op(name, o).op = name
      BY <1>1, <1>2, OpTypes, ToSetTail
    <3> QED
      BY <3>1 DEF Sleepless
  <2>8. td1[t] = todo[t]
    BY <2>5, <2>6, <2>7
  <2>9. (name = "asleep" => ~c2) /\ (name = "group_asleep" => ~c1)
    BY <1>2, <2>4, <2>5, <2>6, <2>8
  <2>10. pending' = pending /\ (~wassoc[w] => associated' = associated)
    BY <1>8 DEF CallbackReturns
  <2> QED
    BY <1>3, <2>1, <2>9, <2>10 DEF Finished
<1> QED
  BY <1>2, <1>4, <1>5, <1>6, <1>7, <1>8, CountSteps

\* Nobody sleeps for the closing group on a finished object.
GroupSleeps == \A t \in Threads : ~GroupForgotten(t)

\* A step leaves behind only who sleeps on what it cancels.
LEMMA WaiterStep ==
  ASSUME Base, Base', HeadSleeps(todo), HeadSleeps(todo'), GroupSleeps, [Next]_vars
  PROVE  ForgetsNobody /\ GroupSleeps'
<1>1. /\ Types /\ TodoInv /\ todo \in [Threads -> Seq(Ops)] /\ todo' \in [Threads -> Seq(Ops)]
  BY DEF Base, CoreInv, Types, ObjectTypes
<1>a. ASSUME NEW t \in Threads
      PROVE  /\ Forgotten(t)' <=> At(t, "asleep")' /\ Finished(Obj(t)', pending', associated')
             /\ GroupForgotten(t)'
                  <=> At(t, "group_asleep")' /\ Finished(Obj(t)', pending', running')
  BY DEF Forgotten, GroupForgotten, Finished
<1> SUFFICES ASSUME NEW t \in Threads
             PROVE  /\ Forgotten(t)' => Forgotten(t) \/ Cancelled(Obj(t))
                    /\ ~GroupForgotten(t)'
  BY DEF ForgetsNobody, GroupSleeps, Cancelled
<1>2. CASE todo'[t] = todo[t]
  <2>1. (\A name : At(t, name)' <=> At(t, name)) /\ Obj(t)' = Obj(t)
    BY <1>2 DEF At, Obj
  <2>2. ASSUME At(t, "asleep"), ~Forgotten(t)
        PROVE  ~Finished(Obj(t), pending', associated') \/ Cancelled(Obj(t))
    <3>1. PICK name \in SleepNames : name = "asleep"
      BY DEF SleepNames
    <3>2. At(t, name) /\ name # "group_asleep" /\ ~Finished(Obj(t), pending, associated)
      BY <2>2, <3>1 DEF Forgotten
    <3> QED
      BY <1>2, <3>1, <3>2, SleepsOn
  <2>3. ASSUME At(t, "group_asleep")
        PROVE  ~Finished(Obj(t), pending', running')
    <3>1. PICK name \in SleepNames : name = "group_asleep"
      BY DEF SleepNames
    <3>2. At(t, name) /\ name # "asleep" /\ ~Finished(Obj(t), pending, running)
      BY <2>3, <3>1 DEF GroupSleeps, GroupForgotten
    <3> QED
      BY <1>2, <3>1, <3>2, SleepsOn
  <2> QED
    BY <1>a, <2>1, <2>2, <2>3
<1>3. CASE Sleepless(todo'[t])
  <2>1. todo'[t] # <<>> => Head(todo'[t]) \in ToSet(todo'[t])
    BY <1>1, ToSetTail
  <2>2. ~At(t, "asleep")' /\ ~At(t, "group_asleep")'
    BY <1>3, <2>1 DEF Sleepless, SleepNames, At
  <2> QED
    BY <1>a, <2>2
<1>4. ASSUME NEW u \in Threads, DoWait(u), todo'[t] # todo[t], ~Sleepless(todo'[t])
      PROVE  /\ At(t, "asleep")' => ~Finished(Obj(t)', pending', associated')
             /\ At(t, "group_asleep")' => ~Finished(Obj(t)', pending', running')
  <2>1. u = t
    BY <1>1, <1>4 DEF DoWait, Then, Continue
  <2>2. todo[t] # <<>> /\ Obj(t) \in Objects
    <3>1. "wait" \in ObjectNames /\ "group_wait" \in ObjectNames
      BY DEF ObjectNames
    <3> QED
      BY <1>1, <1>4, <2>1, <3>1, HeadDoes DEF DoWait
  <2>3. Tail(todo[t]) \in Seq(Ops) /\ Sleepless(Tail(todo[t]))
    BY <1>1, <2>2, ToSetTail DEF HeadSleeps
  <2>4. UNCHANGED <<pending, running, associated>>
    BY <1>4 DEF DoWait, countvars
  <2>5. ~Continue(t)
    BY <1>1, <1>4, <2>3 DEF Continue, Then
  <2>6. \/ /\ Then(t, <<Op("asleep", Obj(t))>> \o Tail(todo[t]))
           /\ ~Finished(Obj(t), pending, associated)
        \/ /\ Then(t, <<Op("group_asleep", Obj(t))>> \o Tail(todo[t]))
           /\ ~Finished(Obj(t), pending, running)
        \/ Then(t, <<Op("finish", Obj(t))>> \o Tail(todo[t]))
    BY <1>4, <2>1, <2>5 DEF DoWait
  <2>7. ASSUME NEW name \in {"asleep", "group_asleep", "finish"},
               Then(t, <<Op(name, Obj(t))>> \o Tail(todo[t]))
        PROVE  \A other : At(t, other)' => other = name /\ Obj(t)' = Obj(t)
    <3>1. PICK x \in Ops : x = Op(name, Obj(t))
      BY <2>2, OpTypes DEF ObjectNames
    <3>2. todo'[t] = <<x>> \o Tail(todo[t])
      BY <1>1, <2>7, <3>1 DEF Then
    <3>3. Head(todo'[t]) = x
      BY <2>3, <3>2
    <3>4. x.op = name /\ x.obj = Obj(t)
      BY <3>1, OpTypes
    <3> QED
      BY <3>3, <3>4 DEF At, Obj
  <2> QED
    BY <2>4, <2>6, <2>7 DEF Finished
<1> QED
  BY <1>a, <1>2, <1>3, <1>4, CalmSteps DEF Calm

WaitInv == Base /\ HeadSleeps(todo) /\ GroupSleeps

\* NoForgottenWaiter: whichever step finishes an object wakes everyone who sleeps on it in
\* tp_object_wait, unless it cancels the object's last pending callbacks, and the closing of
\* the group is never left asleep, for any objects and threads (tp_object_wait,
\* tp_object_cancel, tp_object_execute, TpDisassociateCallback).
THEOREM NobodyIsForgotten == Spec => NoForgottenWaiter
<1>1. Init => WaitInv
  <2> SUFFICES ASSUME Init PROVE WaitInv
    OBVIOUS
  <2>1. \A t \in Threads : todo[t] = <<>>
    BY DEF Init
  <2>2. HeadSleeps(todo) /\ GroupSleeps
    BY <2>1 DEF HeadSleeps, GroupSleeps, GroupForgotten, At
  <2> QED
    BY <2>2, BaseInit DEF WaitInv
<1>2. WaitInv /\ [Next]_vars => WaitInv' /\ ForgetsNobody
  <2> SUFFICES ASSUME WaitInv, [Next]_vars PROVE WaitInv' /\ ForgetsNobody
    OBVIOUS
  <2>1. Base /\ HeadSleeps(todo) /\ GroupSleeps
    BY DEF WaitInv
  <2>2. Base'
    BY <2>1, BaseNext
  <2>3. HeadSleeps(todo')
    BY <2>1, <2>2, SleepStep
  <2>4. ForgetsNobody /\ GroupSleeps'
    BY <2>1, <2>2, <2>3, WaiterStep
  <2>5. HeadSleeps(todo)'
    BY <2>3 DEF HeadSleeps
  <2> QED
    BY <2>2, <2>4, <2>5 DEF WaitInv
<1> QED
  BY <1>1, <1>2, PTL DEF Spec, NoForgottenWaiter
=============================================================================
