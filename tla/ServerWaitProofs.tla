--------------------------- MODULE ServerWaitProofs ---------------------------
(***************************************************************************)
(* For any threads, objects and requests: the wait queues and the          *)
(* thread_waits of the server agree, its mutexes have an owner exactly     *)
(* while they are held, a dead thread's mutexes are all abandoned before   *)
(* the handler that killed it returns, and every variable keeps its type.  *)
(*                                                                         *)
(* The four are proved together, as IInv: wake_up() follows a queue to a   *)
(* thread_wait (QueueConsistent), whose objects it takes: a semaphore that *)
(* must not fall below 0, a mutex whose count must fit (CountsBounded) and *)
(* whose new owner must be alive or about to be abandoned (DeadInv).       *)
(*                                                                         *)
(* On top of IInv: an abandoned mutex is told to its next owner; and, from *)
(* what the call stack can look like (StackInv), no APC is missed, no wake *)
(* is lost (LostInv), and clients believe what is so (BeliefInv).  The     *)
(* last two hold for requests that satisfy TimedAllPlain and CleanSignals. *)
(***************************************************************************)
EXTENDS ServerWait, QueueLemmas

ObjTypeOK ==
  /\ signaled \in [Events -> BOOLEAN]
  /\ sem \in [Semaphores -> 0..SemMax]
  /\ owner \in [Mutexes -> Threads \union {NoThread}]
  /\ count \in [Mutexes -> 0..CountMax]
  /\ abandoned \in [Mutexes -> BOOLEAN]

ObjInv == ObjTypeOK /\ \A m \in Mutexes : count[m] = 0 <=> owner[m] = NoThread

WaitTypeOK ==
  /\ state \in [Threads -> {"RUNNING", "TERMINATED"}]
  /\ wait \in [Threads -> Wait \union {NoWait}]
  /\ queue \in [Objects -> Seq(Threads)]

WaitInv == WaitTypeOK /\ QueueConsistent

ApcTypeOK ==
  /\ gone \in [Threads -> BOOLEAN]
  /\ exit_poll \in [Threads -> BOOLEAN]
  /\ suspend \in [Threads -> 0..SuspendMax]
  /\ system_apc \in [Threads -> 0..ApcMax]
  /\ user_apc \in [Threads -> 0..ApcMax]

ReplyTypeOK ==
  /\ out \in [thread : Threads \union {NoThread}, status : Status]
  /\ believed \in [Threads -> [Mutexes -> Int]]

\* The bound of CountsFit still holds when a wait is satisfied.
CountsBounded ==
  \A t \in Threads : wait[t] # NoWait =>
    \A m \in ToSet(wait[t].objs) \intersect Mutexes : owner[m] = t => count[m] < CountMax

DeadInv ==
  \A m \in Mutexes :
    owner[m] # NoThread /\ state[owner[m]] = "TERMINATED" => AbandonFrame(owner[m]) \in ToSet(stack)

IInv ==
  /\ ObjInv /\ WaitInv /\ ApcTypeOK /\ ReplyTypeOK /\ stack \in Seq(Frame)
  /\ CountsBounded /\ DeadInv

-------------------------------------------------------------------------------
(* The statuses of check_wait() and what they satisfy.                     *)

Ready == {NotReady, STATUS_USER_APC, STATUS_KERNEL_APC, STATUS_TIMEOUT} \union 0..63

\* MAXIMUM_WAIT_OBJECTS keeps indices and other statuses apart.
LEMMA IndexRange ==
  ASSUME NEW n \in 1..64
  PROVE  /\ 0 \in 0..(n - 1)
         /\ \A i \in 0..(n - 1) : i \in 0..63
         /\ \A i \in 1..n : i - 1 \in 0..(n - 1) /\ (i - 1) + 1 = i
         /\ -1 \notin 0..(n - 1) /\ 192 \notin 0..(n - 1)
         /\ 256 \notin 0..(n - 1) /\ 258 \notin 0..(n - 1)
OBVIOUS

\* The objects of a request are objects, at most MAXIMUM_WAIT_OBJECTS of them.
LEMMA ObjectListMembers ==
  ASSUME NEW q \in ObjectLists
  PROVE  /\ q \in Seq(Objects) /\ Len(q) \in 1..64
         /\ ToSet(q) = {q[i] : i \in 1..Len(q)}
         /\ \A i \in 1..Len(q) : q[i] \in Objects /\ q[i] \in ToSet(q)
<1>1. q \in Seq(Objects) /\ Len(q) \in 1..64
  BY DEF ObjectLists
<1>2. ToSet(q) = {q[i] : i \in 1..Len(q)} /\ ToSet(q) \subseteq Objects
  BY <1>1, ToSetMembers
<1> QED
  BY <1>1, <1>2

\* check_wait()'s scan finds a signaled object when there is one.
LEMMA FirstSignaledIs ==
  ASSUME NEW t, NEW w, w.objs \in ObjectLists,
         \E i \in 1..Len(w.objs) : Signaled(w.objs[i], t)
  PROVE  /\ FirstSignaled(t, w) \in 1..Len(w.objs)
         /\ Signaled(w.objs[FirstSignaled(t, w)], t)
<1> DEFINE I == {i \in 1..Len(w.objs) : Signaled(w.objs[i], t)}
<1>1. I # {} /\ I \subseteq Nat
  OBVIOUS
<1>2. Min(I) \in I
  BY <1>1, MinIsMember
<1> QED
  BY <1>2 DEF FirstSignaled

\* A wait ends with an index, an APC or a timeout, and satisfies only objects
\* that are signaled for its thread.
LEMMA CheckWaitStatus ==
  ASSUME NEW t, NEW w, w.objs \in ObjectLists
  PROVE  /\ CheckWait(t, w) \in Ready
         /\ \A o \in Satisfied(w, CheckWait(t, w)) : o \in ToSet(w.objs) /\ Signaled(o, t)
         /\ CheckWait(t, w) = STATUS_KERNEL_APC => system_apc[t] > 0
         /\ CheckWait(t, w) = STATUS_USER_APC => user_apc[t] > 0
<1> USE DEF NotReady, STATUS_WAIT_0, STATUS_USER_APC, STATUS_KERNEL_APC, STATUS_TIMEOUT, Ready
<1> DEFINE st == CheckWait(t, w)
           L == 0..(Len(w.objs) - 1)
<1>1. \A i \in 1..Len(w.objs) : w.objs[i] \in ToSet(w.objs)
  BY ObjectListMembers
<1>c. Len(w.objs) \in 1..64
  BY ObjectListMembers, Zenon
<1>b. PICK n \in 1..64 : n = Len(w.objs) /\ L = 0..(n - 1)
  BY <1>c, Zenon
<1> HIDE DEF L
<1>a. /\ 0 \in L /\ \A i \in L : i \in 0..63
      /\ \A i \in 1..Len(w.objs) : i - 1 \in L /\ (i - 1) + 1 = i
      /\ -1 \notin L /\ 192 \notin L /\ 256 \notin L /\ 258 \notin L
  <2>1. L = 0..(n - 1)
    BY <1>b
  <2>2. /\ 0 \in L /\ \A i \in L : i \in 0..63
        /\ \A i \in 1..n : i - 1 \in L /\ (i - 1) + 1 = i
        /\ -1 \notin L /\ 192 \notin L /\ 256 \notin L /\ 258 \notin L
    BY <2>1
  <2> QED
    BY <1>b, <2>2, Zenon
<1>2. CASE st \in {NotReady, STATUS_USER_APC, STATUS_KERNEL_APC, STATUS_TIMEOUT}
             /\ (st = STATUS_KERNEL_APC => system_apc[t] > 0)
             /\ (st = STATUS_USER_APC => user_apc[t] > 0)
  <2>1. st \notin L
    BY <1>2, <1>a
  <2>2. Satisfied(w, st) = {}
    BY <2>1 DEF Satisfied, L
  <2> QED
    BY <1>2, <2>2
<1>3. CASE ObjectsReady(t, w) /\ w.select = "wait_all" /\ st = STATUS_WAIT_0
  <2>3. ToSet(w.objs) = {w.objs[i] : i \in 1..Len(w.objs)}
    BY ObjectListMembers, Zenon
  <2>4. \A i \in 1..Len(w.objs) : Signaled(w.objs[i], t)
    BY <1>3 DEF ObjectsReady
  <2>1. \A o \in ToSet(w.objs) : Signaled(o, t)
    BY <2>3, <2>4, Zenon
  <2>2. Satisfied(w, st) = ToSet(w.objs)
    BY <1>3, <1>a DEF Satisfied, L
  <2> QED
    BY <1>3, <2>1, <2>2
<1>4. CASE ObjectsReady(t, w) /\ w.select # "wait_all" /\ st = FirstSignaled(t, w) - 1
  <2> DEFINE i == FirstSignaled(t, w)
  <2>1. i \in 1..Len(w.objs) /\ Signaled(w.objs[i], t)
    BY <1>4, FirstSignaledIs DEF ObjectsReady
  <2> HIDE DEF i
  <2>2. st \in L /\ st + 1 = i /\ st \in 0..63
    BY <1>4, <1>a, <2>1 DEF i
  <2>3. Satisfied(w, st) = {w.objs[i]}
    BY <1>4, <2>2 DEF Satisfied, L
  <2>4. st # STATUS_KERNEL_APC /\ st # STATUS_USER_APC /\ st \in Ready
    BY <2>2
  <2> QED
    BY <1>1, <2>1, <2>3, <2>4
<1>5. \/ /\ st \in {NotReady, STATUS_USER_APC, STATUS_KERNEL_APC, STATUS_TIMEOUT}
         /\ st = STATUS_KERNEL_APC => system_apc[t] > 0
         /\ st = STATUS_USER_APC => user_apc[t] > 0
      \/ ObjectsReady(t, w) /\ w.select = "wait_all" /\ st = STATUS_WAIT_0
      \/ ObjectsReady(t, w) /\ w.select # "wait_all" /\ st = FirstSignaled(t, w) - 1
  BY DEF CheckWait
<1> QED
  BY <1>2, <1>3, <1>4, <1>5

\* make_wait_abandoned() keeps a status a status.
LEMMA FinalStatusTyped ==
  ASSUME NEW w, w.objs \in ObjectLists, NEW st \in Ready
  PROVE  FinalStatus(w, st) \in Status
<1> USE DEF NotReady, STATUS_USER_APC, STATUS_KERNEL_APC, STATUS_TIMEOUT, Failure,
            STATUS_ABANDONED_WAIT_0, Ready, Status
<1>1. \A i \in 0..(Len(w.objs) - 1) : i \in 0..63
  BY ObjectListMembers, IndexRange
<1>2. CASE Satisfied(w, st) = {}
  BY <1>2 DEF FinalStatus
<1>3. CASE Satisfied(w, st) # {}
  <2>1. st \in 0..63
    BY <1>1, <1>3 DEF Satisfied
  <2> QED
    BY <2>1 DEF FinalStatus
<1> QED
  BY <1>2, <1>3

\* A wait that times out satisfies no object.
LEMMA TimeoutSatisfies ==
  ASSUME NEW w, w.objs \in ObjectLists
  PROVE  Satisfied(w, STATUS_TIMEOUT) = {}
<1>1. 258 \notin 0..(Len(w.objs) - 1)
  BY ObjectListMembers, IndexRange
<1> QED
  BY <1>1 DEF Satisfied, STATUS_TIMEOUT

-------------------------------------------------------------------------------
(* The objects.                                                            *)

\* satisfied() of signaled objects keeps the objects sound, and gives t the mutexes.
LEMMA GrantKeeps ==
  ASSUME ObjInv, NEW t \in Threads, NEW S, Grant(t, S),
         \A o \in S : Signaled(o, t),
         \A m \in S \intersect Mutexes : owner[m] = t => count[m] < CountMax
  PROVE  /\ ObjInv'
         /\ \A m \in Mutexes : owner'[m] = IF m \in S THEN t ELSE owner[m]
         /\ \A m \in Mutexes : m \notin S => count'[m] = count[m]
<1>0. t # NoThread /\ SemMax \in Nat /\ CountMax \in Nat \ {0}
  BY ConstantsAssumption
<1>1. sem' \in [Semaphores -> 0..SemMax]
  <2> SUFFICES ASSUME NEW s \in Semaphores, s \in S
               PROVE  sem[s] - 1 \in 0..SemMax
    BY <1>0 DEF Grant, ObjInv, ObjTypeOK
  <2>1. sem[s] > 0
    BY DisjointAssumption DEF Signaled, EventSignaled, SemaphoreSignaled, MutexSignaled
  <2> QED
    BY <1>0, <2>1 DEF ObjInv, ObjTypeOK
<1>2. /\ owner' \in [Mutexes -> Threads \union {NoThread}]
      /\ \A m \in Mutexes : owner'[m] = IF m \in S THEN t ELSE owner[m]
      /\ \A m \in Mutexes : m \notin S => count'[m] = count[m]
  BY DEF Grant, ObjInv, ObjTypeOK
<1>3. ASSUME NEW m \in Mutexes
      PROVE  count'[m] \in 0..CountMax /\ (count'[m] = 0 <=> owner'[m] = NoThread)
  <2>1. CASE m \in S
    <3>1. count[m] = 0 \/ owner[m] = t
      BY <2>1, DisjointAssumption DEF Signaled, EventSignaled, SemaphoreSignaled, MutexSignaled
    <3>2. count[m] \in 0..CountMax /\ count[m] < CountMax
      BY <1>0, <2>1, <3>1 DEF ObjInv, ObjTypeOK
    <3>3. count'[m] = count[m] + 1 /\ owner'[m] = t
      BY <2>1 DEF Grant
    <3> QED
      BY <1>0, <3>2, <3>3
  <2>2. CASE m \notin S
    BY <2>2 DEF Grant, ObjInv, ObjTypeOK
  <2> QED
    BY <2>1, <2>2
<1>4. count' \in [Mutexes -> 0..CountMax]
  BY <1>3 DEF Grant
<1>5. signaled' \in [Events -> BOOLEAN] /\ abandoned' \in [Mutexes -> BOOLEAN]
  BY DEF Grant, ObjInv, ObjTypeOK
<1> QED
  BY <1>1, <1>2, <1>3, <1>4, <1>5 DEF ObjInv, ObjTypeOK

\* do_release() of a mutex that c holds
LEMMA ReleaseKeeps ==
  ASSUME ObjInv, NEW c \in Threads, NEW m \in Mutexes, NEW frames, DoRelease(c, m, frames),
         UNCHANGED <<signaled, sem, abandoned>>
  PROVE  /\ ObjInv'
         /\ \A k \in Mutexes : owner'[k] = owner[k] \/ owner'[k] = NoThread
         /\ \A k \in Mutexes : owner'[k] # NoThread => count'[k] <= count[k]
<1>0. c # NoThread /\ CountMax \in Nat \ {0} /\ count[m] \in 0..CountMax /\ count[m] # 0
  BY ConstantsAssumption DEF DoRelease, ObjInv, ObjTypeOK
<1>1. count' = [count EXCEPT ![m] = count[m] - 1] /\ count[m] - 1 \in 0..CountMax
  BY <1>0 DEF DoRelease
<1>2. owner' = [owner EXCEPT ![m] = IF count[m] = 1 THEN NoThread ELSE owner[m]] /\ owner[m] = c
  BY DEF DoRelease
<1>3. ObjTypeOK'
  BY <1>1, <1>2 DEF ObjInv, ObjTypeOK
<1>4. ASSUME NEW k \in Mutexes
      PROVE  /\ count'[k] = 0 <=> owner'[k] = NoThread
             /\ owner'[k] = owner[k] \/ owner'[k] = NoThread
             /\ owner'[k] # NoThread => count'[k] <= count[k]
  <2>1. CASE k = m
    BY <1>0, <1>1, <1>2, <2>1 DEF ObjInv, ObjTypeOK
  <2>2. CASE k # m
    BY <1>1, <1>2, <2>2 DEF ObjInv, ObjTypeOK
  <2> QED
    BY <2>1, <2>2
<1> QED
  BY <1>3, <1>4 DEF ObjInv

\* The objects that an event operation or a release of a semaphore changes
LEMMA SignalKeeps ==
  ASSUME ObjInv, UNCHANGED <<owner, count, abandoned>>,
         \/ /\ UNCHANGED sem
            /\ \E e \in Events, b \in BOOLEAN : signaled' = [signaled EXCEPT ![e] = b]
         \/ /\ UNCHANGED signaled
            /\ \E s \in Semaphores, n \in 0..SemMax :
                 sem[s] + n <= SemMax /\ sem' = [sem EXCEPT ![s] = sem[s] + n]
         \/ UNCHANGED <<signaled, sem>>
  PROVE  ObjInv'
<1>1. SemMax \in Nat
  BY ConstantsAssumption
<1> QED
  BY <1>1 DEF ObjInv, ObjTypeOK

-------------------------------------------------------------------------------
(* The waits and the queues.                                               *)

\* end_wait() takes the thread off every queue; a thread may die with it.
LEMMA UnlinkKeeps ==
  ASSUME WaitInv, NEW t \in Threads, Unlink(t),
         state' = state \/ state' = [state EXCEPT ![t] = "TERMINATED"]
  PROVE  WaitInv' /\ \A u \in Threads : wait'[u] = IF u = t THEN NoWait ELSE wait[u]
<1>0. /\ wait \in [Threads -> Wait \union {NoWait}] /\ queue \in [Objects -> Seq(Threads)]
      /\ state \in [Threads -> {"RUNNING", "TERMINATED"}]
  BY DEF WaitInv, WaitTypeOK
<1>1. \A u \in Threads : wait'[u] = IF u = t THEN NoWait ELSE wait[u]
  BY <1>0 DEF Unlink
<1>2. ASSUME NEW o \in Objects
      PROVE  /\ queue'[o] \in Seq(Threads)
             /\ ToSet(queue'[o]) = ToSet(queue[o]) \ {t}
             /\ \A i, j \in 1..Len(queue'[o]) : queue'[o][i] = queue'[o][j] => i = j
  <2>1. queue'[o] = RemoveFirst(queue[o], t) /\ queue[o] \in Seq(Threads)
    BY <1>0 DEF Unlink
  <2>2. Distinct(queue[o])
    BY DEF WaitInv, QueueConsistent, Distinct
  <2>3. RemoveFirst(queue[o], t) \in Seq(Threads)
    BY <2>1, RemoveFirstType
  <2>4. Distinct(RemoveFirst(queue[o], t)) /\ ToSet(RemoveFirst(queue[o], t)) = ToSet(queue[o]) \ {t}
    BY <2>1, <2>2, RemoveFirstDistinct
  <2> QED
    BY <2>1, <2>3, <2>4 DEF Distinct
<1>3. WaitTypeOK'
  <2>1. queue' = [o \in Objects |-> queue'[o]]
    BY DEF Unlink
  <2>2. queue' \in [Objects -> Seq(Threads)]
    BY <1>2, <2>1
  <2> QED
    BY <1>0, <2>2 DEF Unlink, WaitTypeOK
<1>4. ASSUME NEW o \in Objects
      PROVE  ToSet(queue'[o]) = {u \in Threads : wait'[u] # NoWait /\ o \in ToSet(wait'[u].objs)}
  <2>1. ToSet(queue[o]) = {u \in Threads : wait[u] # NoWait /\ o \in ToSet(wait[u].objs)}
    BY DEF WaitInv, QueueConsistent
  <2> QED
    BY <1>1, <1>2, <2>1
<1>5. ASSUME NEW u \in Threads, wait'[u] # NoWait PROVE state'[u] = "RUNNING"
  <2>1. u # t /\ wait[u] # NoWait
    BY <1>1, <1>5
  <2>2. state[u] = "RUNNING"
    BY <2>1 DEF WaitInv, QueueConsistent
  <2> QED
    BY <1>0, <2>1, <2>2
<1>6. QueueConsistent'
  BY <1>2, <1>4, <1>5 DEF QueueConsistent
<1> QED
  BY <1>1, <1>3, <1>6 DEF WaitInv

\* wait_on() puts a thread that is not waiting on the queues of its objects.
LEMMA LinkKeeps ==
  ASSUME WaitInv, NEW c \in Threads, NEW w \in Wait, Link(c, w), UNCHANGED state,
         wait[c] = NoWait, state[c] = "RUNNING"
  PROVE  WaitInv' /\ \A u \in Threads : wait'[u] = IF u = c THEN w ELSE wait[u]
<1>0. /\ wait \in [Threads -> Wait \union {NoWait}] /\ queue \in [Objects -> Seq(Threads)]
      /\ state \in [Threads -> {"RUNNING", "TERMINATED"}] /\ w # NoWait
  BY ConstantsAssumption DEF WaitInv, WaitTypeOK
<1>1. \A u \in Threads : wait'[u] = IF u = c THEN w ELSE wait[u]
  BY <1>0 DEF Link
<1>2. ASSUME NEW o \in Objects
      PROVE  /\ queue'[o] \in Seq(Threads)
             /\ ToSet(queue'[o]) = IF o \in ToSet(w.objs) THEN ToSet(queue[o]) \union {c}
                                   ELSE ToSet(queue[o])
             /\ \A i, j \in 1..Len(queue'[o]) : queue'[o][i] = queue'[o][j] => i = j
  <2>1. /\ queue'[o] = IF o \in ToSet(w.objs) THEN Append(queue[o], c) ELSE queue[o]
        /\ queue[o] \in Seq(Threads)
    BY <1>0 DEF Link
  <2>2. Distinct(queue[o]) /\ c \notin ToSet(queue[o])
    BY DEF WaitInv, QueueConsistent, Distinct
  <2>3. /\ Append(queue[o], c) \in Seq(Threads) /\ Distinct(Append(queue[o], c))
        /\ ToSet(Append(queue[o], c)) = ToSet(queue[o]) \union {c}
    BY <2>1, <2>2, AppendDistinct
  <2> QED
    BY <2>1, <2>2, <2>3 DEF Distinct
<1>3. WaitTypeOK'
  <2>1. queue' = [o \in Objects |-> queue'[o]]
    BY DEF Link
  <2>2. queue' \in [Objects -> Seq(Threads)]
    BY <1>2, <2>1
  <2> QED
    BY <1>0, <2>2 DEF Link, WaitTypeOK
<1>4. ASSUME NEW o \in Objects
      PROVE  ToSet(queue'[o]) = {u \in Threads : wait'[u] # NoWait /\ o \in ToSet(wait'[u].objs)}
  <2>1. ToSet(queue[o]) = {u \in Threads : wait[u] # NoWait /\ o \in ToSet(wait[u].objs)}
    BY DEF WaitInv, QueueConsistent
  <2>2. ASSUME NEW u \in Threads
        PROVE  u \in ToSet(queue'[o]) <=> wait'[u] # NoWait /\ o \in ToSet(wait'[u].objs)
    <3>1. CASE u = c
      <4>1. wait'[u] = w /\ u \notin ToSet(queue[o])
        BY <1>1, <2>1, <3>1
      <4> QED
        BY <1>0, <1>2, <3>1, <4>1
    <3>2. CASE u # c
      <4>1. wait'[u] = wait[u]
        BY <1>1, <3>2
      <4>2. u \in ToSet(queue'[o]) <=> u \in ToSet(queue[o])
        BY <1>2, <3>2
      <4> QED
        BY <2>1, <4>1, <4>2
    <3> QED
      BY <3>1, <3>2
  <2>3. ToSet(queue'[o]) \subseteq Threads
    BY <1>2, <2>1
  <2> QED
    BY <2>2, <2>3
<1>5. \A u \in Threads : wait'[u] # NoWait => state'[u] = "RUNNING"
  BY <1>1 DEF WaitInv, QueueConsistent
<1>6. QueueConsistent'
  BY <1>2, <1>4, <1>5 DEF QueueConsistent
<1> QED
  BY <1>1, <1>3, <1>6 DEF WaitInv

\* A step that changes a wait but not its objects
LEMMA ReviseKeeps ==
  ASSUME WaitInv, NEW t \in Threads, NEW w \in Wait, wait[t] # NoWait, w.objs = wait[t].objs,
         wait' = [wait EXCEPT ![t] = w], UNCHANGED <<queue, state>>
  PROVE  WaitInv'
<1>0. wait \in [Threads -> Wait \union {NoWait}] /\ w # NoWait
  BY ConstantsAssumption DEF WaitInv, WaitTypeOK
<1>1. \A u \in Threads : /\ wait'[u] # NoWait <=> wait[u] # NoWait
                         /\ wait[u] # NoWait => wait'[u].objs = wait[u].objs
  BY <1>0
<1>2. WaitTypeOK'
  BY <1>0 DEF WaitInv, WaitTypeOK
<1>3. QueueConsistent'
  <2>1. ASSUME NEW o \in Objects
        PROVE  {u \in Threads : wait'[u] # NoWait /\ o \in ToSet(wait'[u].objs)}
               = {u \in Threads : wait[u] # NoWait /\ o \in ToSet(wait[u].objs)}
    BY <1>1
  <2> QED
    BY <1>1, <2>1 DEF WaitInv, QueueConsistent
<1> QED
  BY <1>2, <1>3 DEF WaitInv

-------------------------------------------------------------------------------
(* Wakes.                                                                  *)

\* A reply to t, or none
LEMMA ReplyKeeps ==
  ASSUME ReplyTypeOK, NEW t \in Threads, NEW objs, NEW all, NEW st \in Status,
         Silent \/ Tell(t, objs, all, st)
  PROVE  ReplyTypeOK'
<1>1. CASE Silent
  BY <1>1 DEF Silent, NoReply, ReplyTypeOK, Status
<1>2. CASE Tell(t, objs, all, st)
  <2> DEFINE b == [m \in Mutexes |-> IF m \in Concluded(objs, all, st) THEN believed[t][m] + 1
                                     ELSE believed[t][m]]
  <2>1. out' \in [thread : Threads \union {NoThread}, status : Status]
    BY <1>2 DEF Tell
  <2>2. believed[t] \in [Mutexes -> Int]
    BY DEF ReplyTypeOK
  <2>3. believed' = [believed EXCEPT ![t] = b]
    BY <1>2 DEF Tell, ReplyTypeOK
  <2>4. b \in [Mutexes -> Int]
    BY <2>2
  <2> HIDE DEF b
  <2> QED
    BY <2>1, <2>3, <2>4 DEF ReplyTypeOK
<1> QED
  BY <1>1, <1>2

\* A thread is killed: abandon_mutexes() and the rest of kill_thread() come first.
LEMMA KillPushes ==
  ASSUME NEW q \in Seq(Frame), NEW f \in Frame, NEW g \in Frame
  PROVE  <<f, g>> \o q \in Seq(Frame) /\ ToSet(<<f, g>> \o q) = {f, g} \union ToSet(q)
<1> DEFINE p == <<f, g>>
<1>1. p \in Seq(Frame) /\ ToSet(p) = {f, g}
  BY DEF ToSet
<1> HIDE DEF p
<1>2. p \o q \in Seq(Frame) /\ ToSet(p \o q) = ToSet(p) \union ToSet(q)
  BY <1>1, ToSetConcat
<1>3. p \o q \in Seq(Frame) /\ ToSet(p \o q) = {f, g} \union ToSet(q)
  BY <1>1, <1>2, Zenon
<1> QED
  BY <1>3, Zenon DEF p

\* wake_thread(t), whatever it is called from, as long as the caller goes on with
\* every abandon_mutexes() that is under way
LEMMA WakeThreadKeeps ==
  ASSUME IInv, NEW t \in Threads, wait[t] # NoWait, NEW st,
         st = CheckWait(t, wait[t]) \/ st = STATUS_TIMEOUT,
         NEW woken \in Seq(Frame), NEW failed \in Seq(Frame),
         \A u \in Threads : AbandonFrame(u) \in ToSet(stack) =>
           AbandonFrame(u) \in ToSet(woken) /\ AbandonFrame(u) \in ToSet(failed),
         WakeThread(t, st, woken, failed), UNCHANGED <<threadVars, apcVars>>
  PROVE  IInv'
<1> DEFINE w == wait[t]
           S == Satisfied(w, st)
<1>0. w \in Wait /\ w.objs \in ObjectLists /\ state[t] = "RUNNING" /\ t # NoThread
      /\ state \in [Threads -> {"RUNNING", "TERMINATED"}]
      /\ owner \in [Mutexes -> Threads \union {NoThread}]
  BY ConstantsAssumption
  DEF IInv, WaitInv, WaitTypeOK, QueueConsistent, Wait, ObjInv, ObjTypeOK
<1>1. st \in Ready /\ \A o \in S : o \in ToSet(w.objs) /\ Signaled(o, t)
  <2>1. CASE st = CheckWait(t, w)
    BY <1>0, <2>1, CheckWaitStatus
  <2>2. CASE st = STATUS_TIMEOUT
    BY <1>0, <2>2, TimeoutSatisfies DEF Ready
  <2> QED
    BY <2>1, <2>2
<1>2. Grant(t, S) /\ Unlink(t)
  BY DEF WakeThread
<1>3. \A m \in S \intersect Mutexes : owner[m] = t => count[m] < CountMax
  BY <1>1 DEF IInv, CountsBounded
<1>4. /\ ObjInv' /\ \A m \in Mutexes : owner'[m] = IF m \in S THEN t ELSE owner[m]
      /\ \A m \in Mutexes : m \notin S => count'[m] = count[m]
  BY <1>1, <1>2, <1>3, GrantKeeps DEF IInv
<1>5. state' = state \/ state' = [state EXCEPT ![t] = "TERMINATED"]
  BY DEF WakeThread
<1>6. WaitInv' /\ \A u \in Threads : wait'[u] = IF u = t THEN NoWait ELSE wait[u]
  BY <1>2, <1>5, UnlinkKeeps DEF IInv
<1>7. ApcTypeOK'
  BY DEF IInv, ApcTypeOK, threadVars, apcVars
<1>8. ReplyTypeOK'
  <2>1. FinalStatus(w, st) \in Status
    BY <1>0, <1>1, FinalStatusTyped
  <2>2. Silent \/ Tell(t, w.objs, w.select = "wait_all", FinalStatus(w, st))
    BY DEF WakeThread
  <2> QED
    BY <2>1, <2>2, ReplyKeeps DEF IInv
<1>9. CountsBounded'
  <2> SUFFICES ASSUME NEW u \in Threads, wait'[u] # NoWait,
                      NEW m \in ToSet(wait'[u].objs) \intersect Mutexes, owner'[m] = u
               PROVE  count'[m] < CountMax
    BY DEF CountsBounded
  <2>1. u # t /\ wait'[u] = wait[u] /\ m \notin S /\ owner[m] = u
    BY <1>4, <1>6
  <2> QED
    BY <1>4, <2>1 DEF IInv, CountsBounded
<1>10. CASE state' = [state EXCEPT ![t] = "TERMINATED"]
             /\ stack' = <<AbandonFrame(t), ExitFrame(t)>> \o failed
  <2>1. AbandonFrame(t) \in Frame /\ ExitFrame(t) \in Frame
    BY DEF AbandonFrame, ExitFrame, Frame
  <2>2. stack' \in Seq(Frame) /\ ToSet(stack') = {AbandonFrame(t), ExitFrame(t)} \union ToSet(failed)
    <3>1. PICK f \in Frame, g \in Frame : f = AbandonFrame(t) /\ g = ExitFrame(t)
      BY <2>1
    <3>2. PICK s : s = stack'
      OBVIOUS
    <3>3. s = <<f, g>> \o failed
      BY <1>10, <3>1, <3>2
    <3>4. s \in Seq(Frame) /\ ToSet(s) = {f, g} \union ToSet(failed)
      BY <3>3, KillPushes, Zenon
    <3> QED
      BY <3>1, <3>2, <3>4
  <2>3. DeadInv'
    <3> SUFFICES ASSUME NEW m \in Mutexes, owner'[m] # NoThread,
                        state'[owner'[m]] = "TERMINATED"
                 PROVE  AbandonFrame(owner'[m]) \in ToSet(stack')
      BY DEF DeadInv
    <3>1. CASE owner'[m] = t
      BY <2>2, <3>1
    <3>2. CASE owner'[m] # t
      <4>1. owner'[m] = owner[m] /\ owner[m] \in Threads /\ state[owner[m]] = "TERMINATED"
        BY <1>0, <1>4, <1>10, <3>2
      <4>2. AbandonFrame(owner[m]) \in ToSet(failed)
        BY <4>1 DEF IInv, DeadInv
      <4> QED
        BY <2>2, <4>1, <4>2
    <3> QED
      BY <3>1, <3>2
  <2> QED
    BY <1>4, <1>6, <1>7, <1>8, <1>9, <2>2, <2>3 DEF IInv
<1>11. CASE state' = state /\ stack' = woken
  <2>1. DeadInv'
    <3> SUFFICES ASSUME NEW m \in Mutexes, owner'[m] # NoThread,
                        state'[owner'[m]] = "TERMINATED"
                 PROVE  AbandonFrame(owner'[m]) \in ToSet(stack')
      BY DEF DeadInv
    <3>1. owner'[m] = owner[m] /\ owner[m] \in Threads /\ state[owner[m]] = "TERMINATED"
      BY <1>0, <1>4, <1>11
    <3> QED
      BY <1>11, <3>1 DEF IInv, DeadInv
  <2> QED
    BY <1>4, <1>6, <1>7, <1>8, <1>9, <1>11, <2>1 DEF IInv
<1> QED
  BY <1>10, <1>11 DEF WakeThread

-------------------------------------------------------------------------------
(* The stack.                                                              *)

\* What the operation of a frame says about its fields
LEMMA FrameFields ==
  ASSUME NEW f \in Frame
  PROVE  /\ f.op = "wake" => f.obj \in Objects /\ f.max \in Nat
         /\ f.op = "reset" => f.obj \in AutoEvents \union ManualEvents
         /\ f.op \in {"wake_thread", "abandon", "exit", "poll", "select"} => f.thr \in Threads
         /\ f.op = "select" => f.obj \in Objects
         /\ f.op = "abandon" => f = AbandonFrame(f.thr)
BY DEF Frame, AbandonFrame

\* The frames that handlers push are frames.
LEMMA FramesTyped ==
  /\ \A o \in Objects, n \in Nat : WakeFrame(o, n) \in Frame
  /\ \A o \in AutoEvents \union ManualEvents : ResetFrame(o) \in Frame
  /\ \A t \in Threads : /\ ThreadFrame(t) \in Frame /\ AbandonFrame(t) \in Frame
                        /\ ExitFrame(t) \in Frame /\ PollFrame(t) \in Frame
  /\ \A t \in Threads, o \in Objects : SelectFrame(t, o) \in Frame
BY DEF Frame, WakeFrame, ResetFrame, ThreadFrame, AbandonFrame, ExitFrame, PollFrame, SelectFrame

\* Every abandon_mutexes() under way is still to be worked off after the step.
AbandonsStay == \A u \in Threads : AbandonFrame(u) \in ToSet(stack) => AbandonFrame(u) \in ToSet(stack')

\* A return loses the top frame, and no abandon_mutexes() but its own.
LEMMA PopFrame ==
  ASSUME stack \in Seq(Frame), stack # <<>>
  PROVE  /\ Top \in Frame /\ Rest \in Seq(Frame)
         /\ ToSet(stack) = {Top} \union ToSet(Rest)
         /\ Top.op # "abandon" =>
              \A u \in Threads : AbandonFrame(u) \in ToSet(stack) => AbandonFrame(u) \in ToSet(Rest)
<1>1. Top \in Frame /\ Rest \in Seq(Frame) /\ ToSet(stack) = {Top} \union ToSet(Rest)
  BY ToSetTail DEF Top, Rest
<1>2. \A u : AbandonFrame(u).op = "abandon"
  BY DEF AbandonFrame
<1> QED
  BY <1>1, <1>2

\* A call loses no abandon_mutexes().
LEMMA PushKeeps ==
  ASSUME NEW q \in Seq(Frame), NEW f \in Frame, NEW s, s = <<f>> \o q
  PROVE  s \in Seq(Frame) /\ \A u \in Threads : AbandonFrame(u) \in ToSet(q) => AbandonFrame(u) \in ToSet(s)
<1>1. s \in Seq(Frame) /\ ToSet(s) = {f} \union ToSet(q)
  BY ToSetPush, Zenon
<1> QED
  BY <1>1, Zenon

\* An idle server has no abandon_mutexes() to lose.
LEMMA IdleKeeps ==
  ASSUME stack = <<>>
  PROVE  AbandonsStay
BY DEF AbandonsStay, ToSet

\* A step that kills nobody
LEMMA DeadKeeps ==
  ASSUME IInv, UNCHANGED state, AbandonsStay,
         \A m \in Mutexes : \/ owner'[m] = owner[m] \/ owner'[m] = NoThread
                            \/ owner'[m] \in Threads /\ state[owner'[m]] = "RUNNING"
  PROVE  DeadInv'
<1> SUFFICES ASSUME NEW m \in Mutexes, owner'[m] # NoThread, state'[owner'[m]] = "TERMINATED"
             PROVE  AbandonFrame(owner'[m]) \in ToSet(stack')
  BY DEF DeadInv
<1>1. owner'[m] = owner[m] /\ owner[m] \in Threads /\ state[owner[m]] = "TERMINATED"
  BY DEF IInv, ObjInv, ObjTypeOK
<1> QED
  BY <1>1 DEF AbandonsStay, IInv, DeadInv

\* A step that gives no mutex away and starts no wait
LEMMA CountsKeep ==
  ASSUME IInv,
         \A u \in Threads : wait'[u] # NoWait => wait[u] # NoWait /\ wait'[u].objs = wait[u].objs,
         \A m \in Mutexes : owner'[m] # NoThread => owner'[m] = owner[m] /\ count'[m] <= count[m],
         ObjTypeOK'
  PROVE  CountsBounded'
<1> SUFFICES ASSUME NEW u \in Threads, wait'[u] # NoWait,
                    NEW m \in ToSet(wait'[u].objs) \intersect Mutexes, owner'[m] = u
             PROVE  count'[m] < CountMax
  BY DEF CountsBounded
<1>1. u # NoThread /\ CountMax \in Nat
  BY ConstantsAssumption
<1>2. owner[m] = u /\ count'[m] <= count[m] /\ wait[u] # NoWait /\ m \in ToSet(wait[u].objs)
  BY <1>1
<1>3. count[m] < CountMax
  BY <1>2 DEF IInv, CountsBounded
<1>4. count[m] \in 0..CountMax /\ count'[m] \in 0..CountMax
  BY DEF IInv, ObjInv, ObjTypeOK
<1> QED
  BY <1>1, <1>2, <1>3, <1>4

\* A step that touches neither waits nor mutexes
LEMMA QuietStep ==
  ASSUME IInv, UNCHANGED <<state, wait, queue, owner, count>>, ObjInv',
         ApcTypeOK', ReplyTypeOK', stack' \in Seq(Frame), AbandonsStay
  PROVE  IInv'
<1>1. WaitInv'
  BY DEF IInv, WaitInv, WaitTypeOK, QueueConsistent
<1>2. DeadInv'
  BY DeadKeeps
<1>3. CountsBounded'
  <2>1. ObjTypeOK' /\ \A m \in Mutexes : count'[m] <= count[m]
    BY DEF ObjInv, ObjTypeOK, IInv
  <2> QED
    BY <2>1, CountsKeep
<1> QED
  BY <1>1, <1>2, <1>3 DEF IInv

\* A step without a reply keeps the types of the replies.
LEMMA SilentKeeps ==
  ASSUME ReplyTypeOK, Silent
  PROVE  ReplyTypeOK'
BY DEF Silent, NoReply, ReplyTypeOK, Status

-------------------------------------------------------------------------------
(* The steps of the top frame.                                             *)

\* The thread that wake_up() comes to is a waiting thread.
LEMMA NextWokenIs ==
  ASSUME IInv, NEW o \in Objects, Wakeable(o) # {}
  PROVE  NextWoken(o) \in Threads /\ wait[NextWoken(o)] # NoWait
<1>1. queue[o] \in Seq(Threads)
  BY DEF IInv, WaitInv, WaitTypeOK
<1>2. Wakeable(o) \subseteq Nat /\ Wakeable(o) \subseteq 1..Len(queue[o])
  BY <1>1 DEF Wakeable
<1>3. Min(Wakeable(o)) \in 1..Len(queue[o])
  BY <1>2, MinIsMember
<1>4. NextWoken(o) \in ToSet(queue[o])
  BY <1>1, <1>3, ToSetMembers DEF NextWoken
<1> QED
  BY <1>4 DEF IInv, WaitInv, QueueConsistent

\* A turn of the loop of wake_up() that wakes a thread
LEMMA WakeUpKeeps ==
  ASSUME IInv, WakeUp
  PROVE  IInv'
<1> DEFINE t == NextWoken(Top.obj)
           woken == IF Top.max = 1 THEN Rest
                    ELSE IF Top.max = 0 THEN stack
                    ELSE <<WakeFrame(Top.obj, Top.max - 1)>> \o Rest
<1>1. /\ stack \in Seq(Frame) /\ stack # <<>> /\ Top.op = "wake" /\ Wakeable(Top.obj) # {}
      /\ WakeThread(t, CheckWait(t, wait[t]), woken, stack)
      /\ UNCHANGED <<threadVars, apcVars>>
  BY DEF WakeUp, IInv
<1>2. /\ Top \in Frame /\ Rest \in Seq(Frame)
      /\ \A u \in Threads : AbandonFrame(u) \in ToSet(stack) => AbandonFrame(u) \in ToSet(Rest)
  BY <1>1, PopFrame
<1>3. Top.obj \in Objects /\ Top.max \in Nat
  BY <1>1, <1>2, FrameFields
<1>4. t \in Threads /\ wait[t] # NoWait
  BY <1>1, <1>3, NextWokenIs
<1>5. /\ woken \in Seq(Frame)
      /\ \A u \in Threads : AbandonFrame(u) \in ToSet(stack) => AbandonFrame(u) \in ToSet(woken)
  <2>1. CASE Top.max = 1
    BY <1>2, <2>1
  <2>2. CASE Top.max = 0
    BY <1>1, <2>2
  <2>3. CASE Top.max # 1 /\ Top.max # 0
    <3> DEFINE f == WakeFrame(Top.obj, Top.max - 1)
    <3>1. Top.max - 1 \in Nat
      BY <1>3, <2>3
    <3>2. f \in Frame
      BY <1>3, <3>1, FramesTyped
    <3>3. woken = <<f>> \o Rest
      BY <2>3
    <3> HIDE DEF f, woken
    <3> QED
      BY <1>2, <3>2, <3>3, PushKeeps
  <2> QED
    BY <2>1, <2>2, <2>3
<1> HIDE DEF t, woken
<1> QED
  BY <1>1, <1>4, <1>5, WakeThreadKeeps

\* The end of the loop of wake_up()
LEMMA WakeUpDoneKeeps ==
  ASSUME IInv, WakeUpDone
  PROVE  IInv'
<1>1. /\ stack' \in Seq(Frame) /\ AbandonsStay
  BY PopFrame DEF WakeUpDone, IInv, AbandonsStay
<1>2. ObjInv'
  BY SignalKeeps DEF WakeUpDone, IInv, objVars
<1>3. ApcTypeOK' /\ ReplyTypeOK'
  BY SilentKeeps DEF WakeUpDone, IInv, ApcTypeOK, threadVars, apcVars
<1> QED
  BY <1>1, <1>2, <1>3, QuietStep DEF WakeUpDone, objVars

\* wake_thread() from resume_thread() or queue_apc()
LEMMA WakeOneThreadKeeps ==
  ASSUME IInv, WakeOneThread
  PROVE  IInv'
<1> DEFINE t == Top.thr
<1>1. /\ stack \in Seq(Frame) /\ stack # <<>> /\ Top.op = "wake_thread"
      /\ UNCHANGED <<threadVars, apcVars>>
  BY DEF WakeOneThread, IInv
<1>2. /\ Top \in Frame /\ Rest \in Seq(Frame)
      /\ \A u \in Threads : AbandonFrame(u) \in ToSet(stack) => AbandonFrame(u) \in ToSet(Rest)
  BY <1>1, PopFrame
<1>3. t \in Threads
  BY <1>1, <1>2, FrameFields
<1>4. CASE wait[t] # NoWait /\ WakeThread(t, CheckWait(t, wait[t]), Rest, Rest)
  <2> HIDE DEF t
  <2> QED
    BY <1>1, <1>2, <1>3, <1>4, WakeThreadKeeps
<1>5. CASE stack' = Rest /\ Silent /\ UNCHANGED <<state, objVars, queue, wait>>
  <2>1. ObjInv'
    BY <1>5, SignalKeeps DEF IInv, objVars
  <2>2. ApcTypeOK' /\ ReplyTypeOK'
    BY <1>1, <1>5, SilentKeeps DEF IInv, ApcTypeOK, threadVars, apcVars
  <2> QED
    BY <1>2, <1>5, <2>1, <2>2, QuietStep DEF objVars, AbandonsStay
<1> QED
  BY <1>4, <1>5 DEF WakeOneThread

\* The reset_event() of a pulse
LEMMA PulseResetKeeps ==
  ASSUME IInv, PulseReset
  PROVE  IInv'
<1>1. stack \in Seq(Frame) /\ stack # <<>> /\ Top.op = "reset" /\ stack' = Rest
  BY DEF PulseReset, IInv
<1>2. stack' \in Seq(Frame) /\ AbandonsStay /\ Top \in Frame
  BY <1>1, PopFrame DEF AbandonsStay
<1>3. Top.obj \in Events
  BY <1>1, <1>2, FrameFields DEF Events
<1>4. ObjInv'
  BY <1>3, SignalKeeps DEF PulseReset, IInv
<1>5. ApcTypeOK' /\ ReplyTypeOK'
  BY SilentKeeps DEF PulseReset, IInv, ApcTypeOK, threadVars, apcVars
<1> QED
  BY <1>2, <1>4, <1>5, QuietStep DEF PulseReset

\* A turn of the loop of abandon_mutexes()
LEMMA AbandonMutexKeeps ==
  ASSUME IInv, AbandonMutex
  PROVE  IInv'
<1>1. PICK m \in Mutexes :
        /\ owner[m] = Top.thr
        /\ abandoned' = [abandoned EXCEPT ![m] = TRUE]
        /\ count' = [count EXCEPT ![m] = 0]
        /\ owner' = [owner EXCEPT ![m] = NoThread]
        /\ stack' = <<WakeFrame(m, 0)>> \o stack
  BY DEF AbandonMutex
<1>2. /\ Silent
      /\ UNCHANGED <<state, threadVars, apcVars, wait, queue, signaled, sem>>
      /\ stack \in Seq(Frame)
  BY DEF AbandonMutex, IInv
<1>3. stack' \in Seq(Frame) /\ AbandonsStay
  <2> DEFINE f == WakeFrame(m, 0)
  <2>1. f \in Frame /\ stack' = <<f>> \o stack
    BY <1>1, FramesTyped DEF Objects
  <2> HIDE DEF f
  <2> QED
    BY <1>2, <2>1, PushKeeps DEF AbandonsStay
<1>4. /\ CountMax \in Nat
      /\ \A k \in Mutexes : count[k] \in 0..CountMax
  BY ConstantsAssumption DEF IInv, ObjInv, ObjTypeOK
<1>5. ObjInv'
  BY <1>1, <1>2, <1>4 DEF IInv, ObjInv, ObjTypeOK
<1>6. \A k \in Mutexes :
        /\ owner'[k] = owner[k] \/ owner'[k] = NoThread
        /\ owner'[k] # NoThread => owner'[k] = owner[k] /\ count'[k] <= count[k]
  BY <1>1, <1>4 DEF IInv, ObjInv, ObjTypeOK
<1>7. DeadInv'
  BY <1>2, <1>3, <1>6, DeadKeeps
<1>8. CountsBounded'
  BY <1>2, <1>5, <1>6, CountsKeep DEF ObjInv
<1>9. WaitInv'
  BY <1>2 DEF IInv, WaitInv, WaitTypeOK, QueueConsistent
<1>10. ApcTypeOK' /\ ReplyTypeOK'
  BY <1>2, SilentKeeps DEF IInv, ApcTypeOK, threadVars, apcVars
<1> QED
  BY <1>3, <1>5, <1>7, <1>8, <1>9, <1>10 DEF IInv

\* abandon_mutexes() returns only when the thread owns no mutex.
LEMMA AbandonDoneKeeps ==
  ASSUME IInv, AbandonDone
  PROVE  IInv'
<1>1. /\ stack \in Seq(Frame) /\ stack # <<>> /\ Top.op = "abandon" /\ stack' = Rest
      /\ \A m \in Mutexes : owner[m] # Top.thr
      /\ UNCHANGED <<state, threadVars, apcVars, wait, queue, objVars>>
  BY DEF AbandonDone, IInv
<1>2. stack' \in Seq(Frame) /\ ToSet(stack) = {Top} \union ToSet(stack') /\ Top \in Frame
  BY <1>1, PopFrame
<1>3. Top = AbandonFrame(Top.thr)
  BY <1>1, <1>2, FrameFields
<1>4. DeadInv'
  <2> SUFFICES ASSUME NEW m \in Mutexes, owner[m] # NoThread, state[owner[m]] = "TERMINATED"
               PROVE  AbandonFrame(owner[m]) \in ToSet(stack')
    BY <1>1 DEF DeadInv, objVars
  <2>1. AbandonFrame(owner[m]) \in ToSet(stack)
    BY DEF IInv, DeadInv
  <2>2. AbandonFrame(owner[m]) # AbandonFrame(Top.thr)
    BY <1>1 DEF AbandonFrame
  <2> QED
    BY <1>2, <1>3, <2>1, <2>2
<1>5. ObjInv' /\ WaitInv' /\ CountsBounded'
  BY <1>1 DEF IInv, ObjInv, ObjTypeOK, WaitInv, WaitTypeOK, QueueConsistent, CountsBounded, objVars
<1>6. ApcTypeOK' /\ ReplyTypeOK'
  BY <1>1, SilentKeeps DEF AbandonDone, IInv, ApcTypeOK, threadVars, apcVars
<1> QED
  BY <1>2, <1>4, <1>5, <1>6 DEF IInv

\* The end of a thread: its APCs go, its own sync may become signaled.
LEMMA ThreadExitKeeps ==
  ASSUME IInv, ThreadExit \/ ThreadExitViolent
  PROVE  IInv'
<1> DEFINE t == Top.thr
<1>1. /\ stack \in Seq(Frame) /\ stack # <<>> /\ Top.op \in {"exit", "poll"}
      /\ stack' = Rest \/ stack' = <<WakeFrame(t, 0)>> \o Rest
      /\ signaled' = signaled \/ signaled' = [signaled EXCEPT ![t] = TRUE]
      /\ exit_poll' = exit_poll \/ exit_poll' = [exit_poll EXCEPT ![t] = TRUE]
      /\ system_apc' = [system_apc EXCEPT ![t] = 0]
      /\ user_apc' = [user_apc EXCEPT ![t] = 0]
      /\ Silent
      /\ UNCHANGED <<state, gone, suspend, wait, queue, sem, owner, count, abandoned>>
  BY DEF ThreadExit, ThreadExitViolent, IInv, threadVars
<1>2. /\ Top \in Frame /\ Rest \in Seq(Frame)
      /\ \A u \in Threads : AbandonFrame(u) \in ToSet(stack) => AbandonFrame(u) \in ToSet(Rest)
  BY <1>1, PopFrame
<1>3. t \in Threads
  BY <1>1, <1>2, FrameFields
<1>4. t \in Events /\ t \in Objects
  BY <1>3 DEF Events, Objects
<1>5. stack' \in Seq(Frame) /\ AbandonsStay
  <2>1. CASE stack' = Rest
    BY <1>2, <2>1 DEF AbandonsStay
  <2>2. CASE stack' = <<WakeFrame(t, 0)>> \o Rest
    <3> DEFINE f == WakeFrame(t, 0)
    <3>1. f \in Frame /\ stack' = <<f>> \o Rest
      BY <1>4, <2>2, FramesTyped
    <3> HIDE DEF f
    <3> QED
      BY <1>2, <3>1, PushKeeps DEF AbandonsStay
  <2> QED
    BY <1>1, <2>1, <2>2
<1>6. ObjInv'
  BY <1>1, <1>4, SignalKeeps DEF IInv
<1>7. ApcTypeOK'
  <2>1. 0 \in 0..ApcMax
    BY ConstantsAssumption
  <2> QED
    BY <1>1, <1>3, <2>1 DEF IInv, ApcTypeOK
<1>8. ReplyTypeOK'
  BY <1>1, SilentKeeps DEF IInv
<1> QED
  BY <1>1, <1>5, <1>6, <1>7, <1>8, QuietStep

\* select_on() finds that its own signal ended the wait.
LEMMA SelectSelfWokenKeeps ==
  ASSUME IInv, SelectSelfWoken
  PROVE  IInv'
<1>1. /\ stack \in Seq(Frame) /\ stack # <<>> /\ Top.op = "select" /\ stack' = Rest
      /\ Tell(Top.thr, <<Top.obj>>, FALSE, STATUS_WAIT_0)
      /\ UNCHANGED <<state, threadVars, apcVars, wait, queue, objVars>>
  BY DEF SelectSelfWoken, IInv
<1>2. stack' \in Seq(Frame) /\ AbandonsStay /\ Top \in Frame
  BY <1>1, PopFrame DEF AbandonsStay
<1>3. Top.thr \in Threads
  BY <1>1, <1>2, FrameFields
<1>4. STATUS_WAIT_0 \in Status
  BY DEF Status, STATUS_WAIT_0
<1>5. ReplyTypeOK'
  BY <1>1, <1>3, <1>4, ReplyKeeps DEF IInv
<1>6. ObjInv' /\ ApcTypeOK'
  BY <1>1, SignalKeeps DEF IInv, objVars, ApcTypeOK, threadVars, apcVars
<1> QED
  BY <1>1, <1>2, <1>5, <1>6, QuietStep DEF objVars

\* The reply takes an APC off a queue only when there is one.
LEMMA TakeApcKeeps ==
  ASSUME ApcTypeOK, NEW t \in Threads, NEW st, TakeApc(t, st),
         st = STATUS_KERNEL_APC => system_apc[t] > 0,
         st = STATUS_USER_APC => user_apc[t] > 0,
         UNCHANGED <<threadVars, suspend>>
  PROVE  ApcTypeOK'
<1>1. /\ ApcMax \in Nat /\ system_apc[t] \in 0..ApcMax /\ user_apc[t] \in 0..ApcMax
  BY ConstantsAssumption DEF ApcTypeOK
<1>2. /\ (IF st = STATUS_KERNEL_APC THEN system_apc[t] - 1 ELSE system_apc[t]) \in 0..ApcMax
      /\ (IF st = STATUS_USER_APC THEN user_apc[t] - 1 ELSE user_apc[t]) \in 0..ApcMax
  BY <1>1
<1> QED
  BY <1>2 DEF TakeApc, ApcTypeOK, threadVars

\* select_on() ends its wait at once.
LEMMA SelectSatisfiedKeeps ==
  ASSUME IInv, SelectSatisfied
  PROVE  IInv'
<1> DEFINE t == Top.thr
           w == wait[t]
           st == CheckWait(t, w)
           S == Satisfied(w, st)
<1>1. /\ stack \in Seq(Frame) /\ stack # <<>> /\ Top.op = "select" /\ wait[t] # NoWait
      /\ Grant(t, S) /\ Unlink(t) /\ TakeApc(t, st) /\ Tell(t, w.objs, FALSE, FinalStatus(w, st))
      /\ stack' = Rest
      /\ UNCHANGED <<state, threadVars, suspend>>
  BY DEF SelectSatisfied, IInv
<1>2. stack' \in Seq(Frame) /\ AbandonsStay /\ Top \in Frame
  BY <1>1, PopFrame DEF AbandonsStay
<1>3. t \in Threads /\ t # NoThread
  BY <1>1, <1>2, FrameFields, ConstantsAssumption
<1>4. w \in Wait /\ w.objs \in ObjectLists /\ state[t] = "RUNNING"
  BY <1>1, <1>3 DEF IInv, WaitInv, WaitTypeOK, QueueConsistent, Wait
<1> HIDE DEF t, w
<1>5. /\ st \in Ready /\ \A o \in S : o \in ToSet(w.objs) /\ Signaled(o, t)
      /\ st = STATUS_KERNEL_APC => system_apc[t] > 0
      /\ st = STATUS_USER_APC => user_apc[t] > 0
  BY <1>4, CheckWaitStatus
<1> HIDE DEF st, S
<1>6. \A m \in S \intersect Mutexes : owner[m] = t => count[m] < CountMax
  BY <1>1, <1>3, <1>5 DEF IInv, CountsBounded, w
<1>7. /\ ObjInv' /\ \A m \in Mutexes : owner'[m] = IF m \in S THEN t ELSE owner[m]
      /\ \A m \in Mutexes : m \notin S => count'[m] = count[m]
  BY <1>1, <1>3, <1>5, <1>6, GrantKeeps DEF IInv
<1>8. WaitInv' /\ \A u \in Threads : wait'[u] = IF u = t THEN NoWait ELSE wait[u]
  BY <1>1, <1>3, UnlinkKeeps DEF IInv
<1>9. ApcTypeOK'
  BY <1>1, <1>3, <1>5, TakeApcKeeps DEF IInv
<1>10. ReplyTypeOK'
  <2>1. FinalStatus(w, st) \in Status
    BY <1>4, <1>5, FinalStatusTyped
  <2> QED
    BY <1>1, <1>3, <2>1, ReplyKeeps DEF IInv
<1>11. CountsBounded'
  <2> SUFFICES ASSUME NEW u \in Threads, wait'[u] # NoWait,
                      NEW m \in ToSet(wait'[u].objs) \intersect Mutexes, owner'[m] = u
               PROVE  count'[m] < CountMax
    BY DEF CountsBounded
  <2>1. u # t /\ wait'[u] = wait[u] /\ m \notin S /\ owner[m] = u
    BY <1>7, <1>8
  <2> QED
    BY <1>7, <2>1 DEF IInv, CountsBounded
<1>12. DeadInv'
  BY <1>1, <1>2, <1>3, <1>4, <1>7, DeadKeeps
<1> QED
  BY <1>2, <1>7, <1>8, <1>9, <1>10, <1>11, <1>12 DEF IInv

\* A step that rewrites a wait of t but not its objects, and nothing else but the stack
LEMMA RevisedStep ==
  ASSUME IInv, NEW t \in Threads, NEW w \in Wait, wait[t] # NoWait, w.objs = wait[t].objs,
         wait' = [wait EXCEPT ![t] = w], Silent, stack' \in Seq(Frame), AbandonsStay,
         UNCHANGED <<state, threadVars, apcVars, queue, objVars>>
  PROVE  IInv'
<1>1. WaitInv'
  BY ReviseKeeps DEF IInv
<1>2. ObjInv' /\ ApcTypeOK' /\ ReplyTypeOK'
  BY SilentKeeps, SignalKeeps DEF IInv, ApcTypeOK, threadVars, apcVars, objVars
<1>3. DeadInv'
  BY DeadKeeps DEF objVars
<1>4. CountsBounded'
  <2>1. \A u \in Threads : wait'[u] # NoWait => wait[u] # NoWait /\ wait'[u].objs = wait[u].objs
    BY DEF IInv, WaitInv, WaitTypeOK
  <2>2. ObjTypeOK' /\ \A m \in Mutexes : owner'[m] = owner[m] /\ count'[m] <= count[m]
    BY <1>2 DEF IInv, ObjInv, ObjTypeOK, objVars
  <2> QED
    BY <2>1, <2>2, CountsKeep
<1> QED
  BY <1>1, <1>2, <1>3, <1>4 DEF IInv

\* select_on() leaves its wait pending.
LEMMA SelectPendingKeeps ==
  ASSUME IInv, SelectPending
  PROVE  IInv'
<1> DEFINE t == Top.thr
           w == [wait[t] EXCEPT !.cookie = TRUE, !.user = @ \/ wait[t].when # "infinite"]
<1>1. /\ stack \in Seq(Frame) /\ stack # <<>> /\ Top.op = "select" /\ wait[t] # NoWait
      /\ stack' = Rest /\ Silent
      /\ UNCHANGED <<state, threadVars, apcVars, queue, objVars>>
  BY DEF SelectPending, IInv
<1>2. stack' \in Seq(Frame) /\ AbandonsStay /\ Top \in Frame
  BY <1>1, PopFrame DEF AbandonsStay
<1>3. t \in Threads
  BY <1>1, <1>2, FrameFields
<1>4. wait[t] \in Wait /\ wait \in [Threads -> Wait \union {NoWait}]
  BY <1>1, <1>3 DEF IInv, WaitInv, WaitTypeOK
<1>5. w \in Wait /\ w.objs = wait[t].objs
  BY <1>4 DEF Wait
<1>6. wait' = [wait EXCEPT ![t] = w]
  BY <1>3, <1>4 DEF SelectPending
<1> HIDE DEF t, w
<1> QED
  BY <1>1, <1>2, <1>3, <1>5, <1>6, RevisedStep

-------------------------------------------------------------------------------
(* The requests and what happens by itself.                                *)

\* A request that changes no thread_wait and no mutex
LEMMA SimpleRequest ==
  ASSUME IInv, Idle, UNCHANGED <<state, wait, queue, owner, count>>, ObjInv', ApcTypeOK', Silent,
         \/ stack' = <<>>
         \/ \E f \in Frame : stack' = <<f>>
         \/ \E f \in Frame : \E g \in Frame : stack' = <<f, g>>
  PROVE  IInv'
<1>0. stack' \in Seq(Frame)
  <2>1. CASE stack' = <<>>
    BY <2>1
  <2>2. ASSUME NEW f \in Frame, stack' = <<f>> PROVE stack' \in Seq(Frame)
    BY <2>2, ToSetShort, Zenon
  <2>3. ASSUME NEW f \in Frame, NEW g \in Frame, stack' = <<f, g>> PROVE stack' \in Seq(Frame)
    BY <2>3, ToSetShort, Zenon
  <2> QED
    BY <2>1, <2>2, <2>3
<1>1. stack' \in Seq(Frame) /\ AbandonsStay
  BY <1>0, IdleKeeps DEF Idle
<1>2. ReplyTypeOK'
  BY SilentKeeps DEF IInv
<1> QED
  BY <1>1, <1>2, QuietStep

\* event_op
LEMMA EventKeeps ==
  ASSUME IInv, NEW c \in Threads, NEW e \in AutoEvents \union ManualEvents,
         SetEvent(c, e) \/ ResetEvent(c, e) \/ PulseEvent(c, e)
  PROVE  IInv'
<1>1. /\ Idle /\ Silent
      /\ UNCHANGED <<state, threadVars, apcVars, wait, queue, sem, owner, count, abandoned>>
      /\ \E b \in BOOLEAN : signaled' = [signaled EXCEPT ![e] = b]
  BY DEF SetEvent, ResetEvent, PulseEvent, CanCall
<1>2. e \in Events /\ e \in Objects
  BY DEF Events, Objects
<1>3. ObjInv'
  BY <1>1, <1>2, SignalKeeps DEF IInv
<1>4. ApcTypeOK'
  BY <1>1 DEF IInv, ApcTypeOK, threadVars, apcVars
<1> DEFINE f == WakeFrame(e, IF e \in AutoEvents THEN 1 ELSE 0)
           g == ResetFrame(e)
<1>5. f \in Frame /\ g \in Frame
  BY <1>2, FramesTyped
<1>6. stack' = <<>> \/ stack' = <<f>> \/ stack' = <<f, g>>
  BY DEF SetEvent, ResetEvent, PulseEvent, CanCall, Idle
<1> HIDE DEF f, g
<1> QED
  BY <1>1, <1>3, <1>4, <1>5, <1>6, SimpleRequest

\* release_semaphore
LEMMA ReleaseSemaphoreKeeps ==
  ASSUME IInv, NEW c \in Threads, NEW s \in Semaphores, NEW n \in 0..SemMax,
         ReleaseSemaphore(c, s, n)
  PROVE  IInv'
<1>1. /\ Idle /\ Silent
      /\ UNCHANGED <<state, threadVars, apcVars, wait, queue, signaled, owner, count, abandoned>>
      /\ sem[s] + n <= SemMax /\ sem' = [sem EXCEPT ![s] = sem[s] + n]
  BY DEF ReleaseSemaphore, DoReleaseSemaphore, CanCall
<1>2. ObjInv'
  BY <1>1, SignalKeeps DEF IInv
<1>3. ApcTypeOK'
  BY <1>1 DEF IInv, ApcTypeOK, threadVars, apcVars
<1> DEFINE f == WakeFrame(s, n)
<1>4. f \in Frame
  BY FramesTyped DEF Objects
<1>5. stack' = <<>> \/ stack' = <<f>>
  BY DEF ReleaseSemaphore, DoReleaseSemaphore
<1> HIDE DEF f
<1> QED
  BY <1>1, <1>2, <1>3, <1>4, <1>5, SimpleRequest

\* suspend_thread, resume_thread and queue_apc
LEMMA ApcRequestKeeps ==
  ASSUME IInv, NEW c \in Threads, NEW t \in Threads,
         \/ SuspendThread(c, t) \/ ResumeThread(c, t)
         \/ QueueUserApc(c, t) \/ QueueSystemApc(c, t)
  PROVE  IInv'
<1>1. /\ Idle /\ Silent
      /\ UNCHANGED <<state, threadVars, wait, queue, objVars>>
  BY DEF SuspendThread, ResumeThread, QueueUserApc, QueueSystemApc, CanCall
<1>2. ObjInv'
  BY <1>1, SignalKeeps DEF IInv, objVars
<1>3. ApcTypeOK'
  <2>1. /\ SuspendMax \in Nat /\ ApcMax \in Nat
        /\ suspend[t] \in 0..SuspendMax
        /\ system_apc[t] \in 0..ApcMax /\ user_apc[t] \in 0..ApcMax
    BY ConstantsAssumption DEF IInv, ApcTypeOK
  <2>2. CASE SuspendThread(c, t)
    BY <2>1, <2>2 DEF SuspendThread, IInv, ApcTypeOK, threadVars
  <2>3. CASE ResumeThread(c, t)
    BY <2>1, <2>3 DEF ResumeThread, IInv, ApcTypeOK, threadVars
  <2>4. CASE QueueUserApc(c, t)
    BY <2>1, <2>4 DEF QueueUserApc, IInv, ApcTypeOK, threadVars
  <2>5. CASE QueueSystemApc(c, t)
    BY <2>1, <2>5 DEF QueueSystemApc, IInv, ApcTypeOK, threadVars
  <2> QED
    BY <2>2, <2>3, <2>4, <2>5
<1> DEFINE f == ThreadFrame(t)
<1>4. f \in Frame
  BY FramesTyped
<1>5. stack' = <<>> \/ stack' = <<f>>
  BY <1>1 DEF SuspendThread, ResumeThread, QueueUserApc, QueueSystemApc, Idle
<1> HIDE DEF f
<1> QED
  BY <1>1, <1>2, <1>3, <1>4, <1>5, SimpleRequest DEF objVars

\* release_mutex gives the mutex back, or lowers its count.
LEMMA ReleaseMutexKeeps ==
  ASSUME IInv, NEW c \in Threads, NEW m \in Mutexes, ReleaseMutex(c, m)
  PROVE  IInv'
<1>1. /\ Idle /\ DoRelease(c, m, <<>>)
      /\ UNCHANGED <<state, threadVars, apcVars, wait, queue, signaled, sem, abandoned>>
  BY DEF ReleaseMutex, CanCall
<1>2. /\ ObjInv'
      /\ \A k \in Mutexes : owner'[k] = owner[k] \/ owner'[k] = NoThread
      /\ \A k \in Mutexes : owner'[k] # NoThread => count'[k] <= count[k]
  BY <1>1, ReleaseKeeps DEF IInv
<1>3. AbandonsStay
  BY <1>1, IdleKeeps DEF Idle
<1>4. DeadInv'
  BY <1>1, <1>2, <1>3, DeadKeeps
<1>5. CountsBounded'
  BY <1>1, <1>2, CountsKeep DEF ObjInv
<1>6. stack' \in Seq(Frame)
  <2> DEFINE f == WakeFrame(m, 0)
  <2>1. f \in Frame
    BY FramesTyped DEF Objects
  <2>2. stack' = <<>> \/ stack' = <<f>>
    BY <1>1 DEF DoRelease
  <2> HIDE DEF f
  <2> QED
    BY <2>1, <2>2, ToSetShort, Zenon
<1>7. WaitInv' /\ ApcTypeOK'
  BY <1>1 DEF IInv, WaitInv, WaitTypeOK, QueueConsistent, ApcTypeOK, threadVars, apcVars
<1>8. ReplyTypeOK'
  BY DEF ReleaseMutex, IInv, ReplyTypeOK, NoReply, Status
<1> QED
  BY <1>2, <1>4, <1>5, <1>6, <1>7, <1>8 DEF IInv

\* A request makes a thread_wait with its objects.
LEMMA NewWaitTyped ==
  ASSUME NEW r \in Request, NEW b \in BOOLEAN
  PROVE  NewWait(r, b) \in Wait /\ NewWait(r, b).objs = r.objs /\ r.objs \in ObjectLists
BY DEF NewWait, Request, Wait

\* A thread starts to wait for objects whose mutexes it may still take.
LEMMA LinkBounded ==
  ASSUME IInv, NEW c \in Threads, NEW r \in Request, NEW b \in BOOLEAN, CountsFit(c, r),
         \A u \in Threads : wait'[u] = IF u = c THEN NewWait(r, b) ELSE wait[u],
         \A m \in Mutexes : owner'[m] # NoThread => owner'[m] = owner[m] /\ count'[m] <= count[m],
         ObjTypeOK'
  PROVE  CountsBounded'
<1> SUFFICES ASSUME NEW u \in Threads, wait'[u] # NoWait,
                    NEW m \in ToSet(wait'[u].objs) \intersect Mutexes, owner'[m] = u
             PROVE  count'[m] < CountMax
  BY DEF CountsBounded
<1>1. u # NoThread /\ CountMax \in Nat
  BY ConstantsAssumption
<1>2. owner[m] = u /\ count'[m] <= count[m]
  BY <1>1
<1>3. count[m] < CountMax
  <2>1. CASE u = c
    <3>1. wait'[u].objs = r.objs
      BY <2>1, NewWaitTyped
    <3> QED
      BY <1>2, <2>1, <3>1 DEF CountsFit
  <2>2. CASE u # c
    BY <1>2, <2>2 DEF IInv, CountsBounded
  <2> QED
    BY <2>1, <2>2
<1>4. count[m] \in 0..CountMax /\ count'[m] \in 0..CountMax
  BY DEF IInv, ObjInv, ObjTypeOK
<1> QED
  BY <1>1, <1>2, <1>3, <1>4

\* select with SELECT_WAIT or SELECT_WAIT_ALL
LEMMA SelectKeeps ==
  ASSUME IInv, NEW c \in Threads, NEW r \in Request, Select(c, r)
  PROVE  IInv'
<1> DEFINE st == CheckWait(c, r)
           S == Satisfied(r, st)
<1>1. /\ Idle /\ state[c] = "RUNNING" /\ wait[c] = NoWait /\ CountsFit(c, r)
      /\ UNCHANGED <<state, threadVars, suspend, stack>>
  BY DEF Select, CanCall
<1>2. r.objs \in ObjectLists /\ NewWait(r, TRUE) \in Wait /\ c # NoThread
  BY NewWaitTyped, ConstantsAssumption
<1>3. stack' \in Seq(Frame) /\ AbandonsStay
  BY <1>1, IdleKeeps DEF IInv, Idle
<1>4. CASE /\ Grant(c, S) /\ TakeApc(c, st)
           /\ Tell(c, r.objs, r.select = "wait_all", FinalStatus(r, st))
           /\ UNCHANGED <<queue, wait>>
  <2>1. /\ st \in Ready /\ \A o \in S : o \in ToSet(r.objs) /\ Signaled(o, c)
        /\ st = STATUS_KERNEL_APC => system_apc[c] > 0
        /\ st = STATUS_USER_APC => user_apc[c] > 0
    BY <1>2, CheckWaitStatus
  <2> HIDE DEF st, S
  <2>2. \A m \in S \intersect Mutexes : owner[m] = c => count[m] < CountMax
    BY <1>1, <2>1 DEF CountsFit
  <2>3. /\ ObjInv' /\ \A m \in Mutexes : owner'[m] = IF m \in S THEN c ELSE owner[m]
        /\ \A m \in Mutexes : m \notin S => count'[m] = count[m]
    BY <1>4, <2>1, <2>2, GrantKeeps DEF IInv
  <2>4. ApcTypeOK'
    BY <1>1, <1>4, <2>1, TakeApcKeeps DEF IInv
  <2>5. ReplyTypeOK'
    <3>1. FinalStatus(r, st) \in Status
      BY <1>2, <2>1, FinalStatusTyped
    <3> QED
      BY <1>4, <3>1, ReplyKeeps DEF IInv
  <2>6. WaitInv'
    BY <1>1, <1>4 DEF IInv, WaitInv, WaitTypeOK, QueueConsistent
  <2>7. CountsBounded'
    <3> SUFFICES ASSUME NEW u \in Threads, wait[u] # NoWait,
                        NEW m \in ToSet(wait[u].objs) \intersect Mutexes, owner'[m] = u
                 PROVE  count'[m] < CountMax
      BY <1>4 DEF CountsBounded
    <3>1. m \notin S /\ owner[m] = u
      BY <1>1, <2>3
    <3> QED
      BY <2>3, <3>1 DEF IInv, CountsBounded
  <2>8. DeadInv'
    BY <1>1, <1>3, <2>3, DeadKeeps
  <2> QED
    BY <1>3, <2>3, <2>4, <2>5, <2>6, <2>7, <2>8 DEF IInv
<1>5. CASE Link(c, NewWait(r, TRUE)) /\ Silent /\ UNCHANGED <<objVars, system_apc, user_apc>>
  <2>1. WaitInv' /\ \A u \in Threads : wait'[u] = IF u = c THEN NewWait(r, TRUE) ELSE wait[u]
    BY <1>1, <1>2, <1>5, LinkKeeps DEF IInv
  <2>2. ObjInv' /\ ApcTypeOK' /\ ReplyTypeOK'
    BY <1>1, <1>5, SilentKeeps, SignalKeeps DEF IInv, ApcTypeOK, threadVars, objVars
  <2>3. DeadInv'
    BY <1>1, <1>3, <1>5, DeadKeeps DEF objVars
  <2>4. CountsBounded'
    <3>1. ObjTypeOK' /\ \A m \in Mutexes : owner'[m] = owner[m] /\ count'[m] <= count[m]
      BY <1>5, <2>2 DEF IInv, ObjInv, ObjTypeOK, objVars
    <3> QED
      BY <1>1, <2>1, <3>1, LinkBounded
  <2> QED
    BY <1>3, <2>1, <2>2, <2>3, <2>4 DEF IInv
<1> QED
  BY <1>4, <1>5 DEF Select

\* The first half of SELECT_SIGNAL_AND_WAIT
LEMMA SignalAndWaitKeeps ==
  ASSUME IInv, NEW c \in Threads, NEW r \in Request, SignalAndWait(c, r)
  PROVE  IInv'
<1> DEFINE g == SelectFrame(c, r.objs[1])
           s == r.signal
<1>1. /\ Idle /\ state[c] = "RUNNING" /\ wait[c] = NoWait /\ CountsFit(c, r)
      /\ Link(c, NewWait(r, FALSE)) /\ out' = NoReply
      /\ UNCHANGED <<state, threadVars, apcVars, abandoned>>
  BY DEF SignalAndWait, CanCall
<1>2. r.objs \in ObjectLists /\ NewWait(r, FALSE) \in Wait
  BY NewWaitTyped
<1>3. AbandonsStay
  BY <1>1, IdleKeeps DEF Idle
<1>4. g \in Frame
  <2>1. r.objs[1] \in Objects
    BY <1>2, ObjectListMembers
  <2> QED
    BY <2>1, FramesTyped
<1>5. \/ /\ s \in AutoEvents \union ManualEvents
         /\ signaled' = [signaled EXCEPT ![s] = TRUE]
         /\ stack' = <<WakeFrame(s, IF s \in AutoEvents THEN 1 ELSE 0)>> \o <<g>>
         /\ UNCHANGED <<sem, owner, count, believed>>
      \/ /\ s \in Semaphores /\ DoReleaseSemaphore(s, 1, <<g>>)
         /\ UNCHANGED <<signaled, owner, count, believed>>
      \/ /\ s \in Mutexes /\ DoRelease(c, s, <<g>>)
         /\ believed' = [believed EXCEPT ![c][s] = @ - 1]
         /\ UNCHANGED <<signaled, sem>>
  BY DEF SignalAndWait
<1> HIDE DEF g, s
<1>6. WaitInv' /\ \A u \in Threads : wait'[u] = IF u = c THEN NewWait(r, FALSE) ELSE wait[u]
  BY <1>1, <1>2, LinkKeeps DEF IInv
<1>7. /\ ObjInv' /\ ReplyTypeOK'
      /\ \A k \in Mutexes : owner'[k] = owner[k] \/ owner'[k] = NoThread
      /\ \A k \in Mutexes : owner'[k] # NoThread => count'[k] <= count[k]
  <2>0. \A k \in Mutexes : count[k] <= count[k]
    BY DEF IInv, ObjInv, ObjTypeOK
  <2>1. UNCHANGED believed => ReplyTypeOK'
    BY <1>1 DEF IInv, ReplyTypeOK, NoReply, Status
  <2>2. CASE s \in AutoEvents \union ManualEvents /\ signaled' = [signaled EXCEPT ![s] = TRUE]
             /\ UNCHANGED <<sem, owner, count, believed>>
    <3>1. s \in Events
      BY <2>2 DEF Events
    <3> QED
      BY <1>1, <2>0, <2>1, <2>2, <3>1, SignalKeeps DEF IInv
  <2>3. CASE s \in Semaphores /\ DoReleaseSemaphore(s, 1, <<g>>)
             /\ UNCHANGED <<signaled, owner, count, believed>>
    <3>1. 1 \in 0..SemMax
      BY ConstantsAssumption
    <3>2. sem[s] + 1 <= SemMax /\ sem' = [sem EXCEPT ![s] = sem[s] + 1]
      BY <2>3 DEF DoReleaseSemaphore
    <3> QED
      BY <1>1, <2>0, <2>1, <2>3, <3>1, <3>2, SignalKeeps DEF IInv
  <2>4. CASE s \in Mutexes /\ DoRelease(c, s, <<g>>)
             /\ believed' = [believed EXCEPT ![c][s] = @ - 1] /\ UNCHANGED <<signaled, sem>>
    <3>1. ReplyTypeOK'
      BY <1>1, <2>4 DEF IInv, ReplyTypeOK, NoReply, Status
    <3> QED
      BY <1>1, <2>4, <3>1, ReleaseKeeps DEF IInv
  <2> QED
    BY <1>5, <2>2, <2>3, <2>4
<1>8. stack' \in Seq(Frame)
  <2>1. PICK f \in Frame : stack' = <<f>> \o <<g>> \/ stack' = <<g>>
    <3>1. CASE s \in AutoEvents \union ManualEvents
               /\ stack' = <<WakeFrame(s, IF s \in AutoEvents THEN 1 ELSE 0)>> \o <<g>>
      <4>1. WakeFrame(s, IF s \in AutoEvents THEN 1 ELSE 0) \in Frame
        BY <3>1, FramesTyped DEF Objects, Events
      <4> QED
        BY <3>1, <4>1
    <3>2. CASE s \in Semaphores /\ DoReleaseSemaphore(s, 1, <<g>>)
      <4>1. WakeFrame(s, 1) \in Frame
        BY <3>2, FramesTyped DEF Objects
      <4> QED
        BY <1>4, <3>2, <4>1 DEF DoReleaseSemaphore
    <3>3. CASE s \in Mutexes /\ DoRelease(c, s, <<g>>)
      <4>1. WakeFrame(s, 0) \in Frame
        BY <3>3, FramesTyped DEF Objects
      <4> QED
        BY <1>4, <3>3, <4>1 DEF DoRelease
    <3> QED
      BY <1>5, <3>1, <3>2, <3>3
  <2>2. <<g>> \in Seq(Frame)
    BY <1>4
  <2> QED
    BY <2>1, <2>2, PushKeeps
<1>9. DeadInv'
  BY <1>1, <1>3, <1>7, DeadKeeps
<1>10. CountsBounded'
  BY <1>1, <1>6, <1>7, LinkBounded DEF ObjInv
<1>11. ApcTypeOK'
  BY <1>1 DEF IInv, ApcTypeOK, threadVars, apcVars
<1> QED
  BY <1>6, <1>7, <1>8, <1>9, <1>10, <1>11 DEF IInv

\* SELECT_SIGNAL_AND_WAIT that fails
LEMMA SignalAndWaitFailsKeeps ==
  ASSUME IInv, NEW c \in Threads, NEW r \in Request, SignalAndWaitFails(c, r)
  PROVE  IInv'
<1>1. /\ Idle /\ out' = [thread |-> c, status |-> Failure]
      /\ UNCHANGED <<state, threadVars, apcVars, wait, queue, objVars, stack, believed>>
  BY DEF SignalAndWaitFails, CanCall
<1>2. ReplyTypeOK'
  BY <1>1 DEF IInv, ReplyTypeOK, Status
<1>3. ObjInv' /\ ApcTypeOK' /\ AbandonsStay /\ stack' \in Seq(Frame)
  BY <1>1, SignalKeeps DEF IInv, ApcTypeOK, threadVars, apcVars, objVars, AbandonsStay
<1> QED
  BY <1>1, <1>2, <1>3, QuietStep DEF objVars

\* kill_thread() begins: nobody else is dying, as the server was idle.
LEMMA KillThreadKeeps ==
  ASSUME IInv, Idle, NEW t \in Threads, NEW violent, KillThread(t, violent)
  PROVE  IInv'
<1>1. /\ state' = [state EXCEPT ![t] = "TERMINATED"] /\ Unlink(t) /\ Silent
      /\ UNCHANGED <<threadVars, apcVars, objVars>>
  BY DEF KillThread
<1>2. WaitInv' /\ \A u \in Threads : wait'[u] = IF u = t THEN NoWait ELSE wait[u]
  BY <1>1, UnlinkKeeps DEF IInv
<1>3. ObjInv' /\ ApcTypeOK' /\ ReplyTypeOK'
  BY <1>1, SilentKeeps, SignalKeeps DEF IInv, ApcTypeOK, threadVars, apcVars, objVars
<1> DEFINE f == AbandonFrame(t)
           g == IF violent /\ wait[t] = NoWait THEN PollFrame(t) ELSE ExitFrame(t)
<1>4. f \in Frame /\ g \in Frame /\ stack' = <<f, g>>
  BY FramesTyped DEF KillThread
<1>5. stack' \in Seq(Frame) /\ AbandonFrame(t) \in ToSet(stack')
  <2> HIDE DEF f, g
  <2>1. stack' \in Seq(Frame) /\ ToSet(stack') = {f, g}
    BY <1>4, ToSetShort, Zenon
  <2> QED
    BY <2>1 DEF f
<1>6. CountsBounded'
  <2>1. \A u \in Threads : wait'[u] # NoWait => wait[u] # NoWait /\ wait'[u].objs = wait[u].objs
    BY <1>2
  <2>2. ObjTypeOK' /\ \A m \in Mutexes : owner'[m] = owner[m] /\ count'[m] <= count[m]
    BY <1>1, <1>3 DEF IInv, ObjInv, ObjTypeOK, objVars
  <2> QED
    BY <2>1, <2>2, CountsKeep
<1>7. DeadInv'
  <2> SUFFICES ASSUME NEW m \in Mutexes, owner[m] # NoThread, state'[owner[m]] = "TERMINATED"
               PROVE  AbandonFrame(owner[m]) \in ToSet(stack')
    BY <1>1 DEF DeadInv, objVars
  <2>1. owner[m] \in Threads /\ state \in [Threads -> {"RUNNING", "TERMINATED"}]
    BY DEF IInv, ObjInv, ObjTypeOK, WaitInv, WaitTypeOK
  <2>2. CASE owner[m] = t
    BY <1>5, <2>2
  <2>3. CASE owner[m] # t
    <3>1. state[owner[m]] = "TERMINATED"
      BY <1>1, <2>1, <2>3
    <3>2. AbandonFrame(owner[m]) \in ToSet(<<>>)
      BY <3>1 DEF IInv, DeadInv, Idle
    <3> QED
      BY <3>2 DEF ToSet
  <2> QED
    BY <2>2, <2>3
<1> QED
  BY <1>2, <1>3, <1>5, <1>6, <1>7 DEF IInv

\* The death of a Unix thread
LEMMA ClientDiesKeeps ==
  ASSUME IInv, NEW t \in Threads, ClientDies(t)
  PROVE  IInv'
<1>1. /\ gone' = [gone EXCEPT ![t] = TRUE] /\ out' = NoReply
      /\ believed' = [believed EXCEPT ![t] = [m \in Mutexes |-> 0]]
      /\ UNCHANGED <<state, exit_poll, apcVars, wait, queue, objVars, stack>>
  BY DEF ClientDies
<1>2. ApcTypeOK' /\ ReplyTypeOK'
  BY <1>1 DEF IInv, ApcTypeOK, ReplyTypeOK, apcVars, NoReply, Status
<1>3. ObjInv' /\ AbandonsStay /\ stack' \in Seq(Frame)
  BY <1>1, SignalKeeps DEF IInv, objVars, AbandonsStay
<1> QED
  BY <1>1, <1>2, <1>3, QuietStep DEF objVars

\* check_terminated() from its timer
LEMMA CheckTerminatedKeeps ==
  ASSUME IInv, NEW t \in Threads, CheckTerminated(t)
  PROVE  IInv'
<1>1. /\ Idle /\ Silent /\ exit_poll' = [exit_poll EXCEPT ![t] = FALSE]
      /\ signaled' = [signaled EXCEPT ![t] = TRUE]
      /\ UNCHANGED <<state, gone, apcVars, wait, queue, sem, owner, count, abandoned>>
  BY DEF CheckTerminated
<1>2. t \in Events /\ t \in Objects
  BY DEF Events, Objects
<1>3. ObjInv'
  BY <1>1, <1>2, SignalKeeps DEF IInv
<1>4. ApcTypeOK'
  BY <1>1 DEF IInv, ApcTypeOK, apcVars
<1> DEFINE f == WakeFrame(t, 0)
<1>5. f \in Frame /\ stack' = <<f>>
  BY <1>2, FramesTyped DEF CheckTerminated
<1> HIDE DEF f
<1> QED
  BY <1>1, <1>3, <1>4, <1>5, SimpleRequest

\* Time, and thread_timeout()
LEMMA TimerKeeps ==
  ASSUME IInv, NEW t \in Threads, DeadlinePasses(t) \/ ThreadTimeout(t)
  PROVE  IInv'
<1>1. /\ wait[t] # NoWait /\ UNCHANGED <<threadVars, apcVars>> /\ Idle
      /\ wait[t] \in Wait /\ wait \in [Threads -> Wait \union {NoWait}]
  BY DEF DeadlinePasses, ThreadTimeout, IInv, WaitInv, WaitTypeOK
<1>2. ASSUME NEW w \in Wait, w.objs = wait[t].objs, wait' = [wait EXCEPT ![t] = w],
             Silent, UNCHANGED <<state, queue, objVars, stack>>
      PROVE  IInv'
  <2>1. stack' \in Seq(Frame) /\ AbandonsStay
    BY <1>1, <1>2, IdleKeeps DEF IInv, Idle
  <2> QED
    BY <1>1, <1>2, <2>1, RevisedStep
<1>3. CASE DeadlinePasses(t)
  <2> DEFINE w == [wait[t] EXCEPT !.when = "past"]
  <2>1. w \in Wait /\ w.objs = wait[t].objs
    BY <1>1 DEF Wait, Deadline
  <2>2. wait' = [wait EXCEPT ![t] = w] /\ Silent /\ UNCHANGED <<state, queue, objVars, stack>>
    BY <1>1, <1>3 DEF DeadlinePasses
  <2> HIDE DEF w
  <2> QED
    BY <1>2, <2>1, <2>2
<1>4. CASE ThreadTimeout(t) /\ Suspended(t)
  <2> DEFINE w == [wait[t] EXCEPT !.user = FALSE]
  <2>1. w \in Wait /\ w.objs = wait[t].objs
    BY <1>1 DEF Wait
  <2>2. wait' = [wait EXCEPT ![t] = w] /\ Silent /\ UNCHANGED <<state, queue, objVars, stack>>
    BY <1>1, <1>4 DEF ThreadTimeout
  <2> HIDE DEF w
  <2> QED
    BY <1>2, <2>1, <2>2
<1>5. CASE ThreadTimeout(t) /\ ~ Suspended(t)
  <2>1. WakeThread(t, STATUS_TIMEOUT, <<>>, <<>>)
    BY <1>5 DEF ThreadTimeout
  <2>2. \A u \in Threads : AbandonFrame(u) \notin ToSet(stack)
    BY <1>1 DEF Idle, ToSet
  <2>3. <<>> \in Seq(Frame)
    OBVIOUS
  <2> QED
    BY <1>1, <2>1, <2>2, <2>3, WakeThreadKeeps
<1> QED
  BY <1>3, <1>4, <1>5

-------------------------------------------------------------------------------
(* The theorems.                                                           *)

\* The inductive invariant holds initially.
LEMMA InitHolds == Init => IInv
<1> SUFFICES ASSUME Init PROVE IInv
  OBVIOUS
<1>1. /\ 0 \in 0..SemMax /\ 0 \in 0..CountMax /\ 0 \in 0..SuspendMax /\ 0 \in 0..ApcMax
  BY ConstantsAssumption
<1>2. ObjInv
  BY <1>1 DEF Init, ObjInv, ObjTypeOK
<1>3. WaitInv
  <2>1. WaitTypeOK
    BY DEF Init, WaitTypeOK
  <2>2. \A o \in Objects : queue[o] = <<>> /\ ToSet(queue[o]) = {}
    BY DEF Init, ToSet
  <2>3. \A t \in Threads : wait[t] = NoWait
    BY DEF Init
  <2> QED
    BY <2>1, <2>2, <2>3 DEF WaitInv, QueueConsistent
<1>4. ApcTypeOK /\ ReplyTypeOK
  BY <1>1 DEF Init, ApcTypeOK, ReplyTypeOK, NoReply, Status
<1>5. CountsBounded /\ DeadInv /\ stack \in Seq(Frame)
  BY DEF Init, CountsBounded, DeadInv
<1> QED
  BY <1>2, <1>3, <1>4, <1>5 DEF IInv

\* Every step below a request keeps the inductive invariant.
LEMMA ServerStepKeeps ==
  ASSUME IInv, ServerStep
  PROVE  IInv'
BY WakeUpKeeps, WakeUpDoneKeeps, WakeOneThreadKeeps, PulseResetKeeps, AbandonMutexKeeps,
   AbandonDoneKeeps, ThreadExitKeeps, SelectSelfWokenKeeps, SelectSatisfiedKeeps,
   SelectPendingKeeps DEF ServerStep

\* Every request keeps the inductive invariant.
LEMMA ClientRequestKeeps ==
  ASSUME IInv, ClientRequest
  PROVE  IInv'
<1>1. PICK c \in Threads :
        \/ \E e \in AutoEvents \union ManualEvents :
             SetEvent(c, e) \/ ResetEvent(c, e) \/ PulseEvent(c, e)
        \/ \E s \in Semaphores, n \in 0..SemMax : ReleaseSemaphore(c, s, n)
        \/ \E m \in Mutexes : ReleaseMutex(c, m)
        \/ \E r \in Requests : Select(c, r) \/ SignalAndWait(c, r) \/ SignalAndWaitFails(c, r)
        \/ \E t \in Threads :
             \/ SuspendThread(c, t) \/ ResumeThread(c, t)
             \/ QueueUserApc(c, t) \/ QueueSystemApc(c, t) \/ TerminateThread(c, t)
  BY DEF ClientRequest
<1>2. ASSUME NEW r \in Requests, Select(c, r) \/ SignalAndWait(c, r) \/ SignalAndWaitFails(c, r)
      PROVE  IInv'
  <2>1. r \in Request
    BY RequestsAssumption
  <2> QED
    BY <1>2, <2>1, SelectKeeps, SignalAndWaitKeeps, SignalAndWaitFailsKeeps
<1>3. ASSUME NEW t \in Threads, TerminateThread(c, t)
      PROVE  IInv'
  <2>1. Idle /\ KillThread(t, TRUE)
    BY <1>3 DEF TerminateThread, CanCall
  <2> QED
    BY <2>1, KillThreadKeeps
<1> QED
  BY <1>1, <1>2, <1>3, EventKeeps, ReleaseSemaphoreKeeps, ReleaseMutexKeeps, ApcRequestKeeps

\* What happens by itself keeps the inductive invariant.
LEMMA EnvironmentKeeps ==
  ASSUME IInv, Environment
  PROVE  IInv'
<1>1. PICK t \in Threads : \/ ClientDies(t) \/ Hangup(t) \/ CheckTerminated(t)
                           \/ DeadlinePasses(t) \/ ThreadTimeout(t)
  BY DEF Environment
<1>2. CASE Hangup(t)
  <2>1. Idle /\ KillThread(t, FALSE)
    BY <1>2 DEF Hangup
  <2> QED
    BY <2>1, KillThreadKeeps
<1> QED
  BY <1>1, <1>2, ClientDiesKeeps, CheckTerminatedKeeps, TimerKeeps

\* So does a step that changes nothing.
LEMMA StutterKeeps ==
  ASSUME IInv, UNCHANGED vars
  PROVE  IInv'
<1> USE DEF vars, threadVars, apcVars, objVars
<1>1. ObjInv' /\ WaitInv'
  BY DEF IInv, ObjInv, ObjTypeOK, WaitInv, WaitTypeOK, QueueConsistent
<1>2. ApcTypeOK' /\ ReplyTypeOK'
  BY DEF IInv, ApcTypeOK, ReplyTypeOK
<1>3. CountsBounded' /\ DeadInv' /\ stack' \in Seq(Frame)
  BY DEF IInv, CountsBounded, DeadInv
<1> QED
  BY <1>1, <1>2, <1>3 DEF IInv

\* The inductive invariant holds in every state of the server.
THEOREM WaitCoreInvariant == Spec => []IInv
<1>1. IInv /\ [Next]_vars => IInv'
  BY ServerStepKeeps, ClientRequestKeeps, EnvironmentKeeps, StutterKeeps DEF Next
<1> QED
  BY <1>1, InitHolds, PTL DEF Spec

\* Every variable keeps its type: in particular no semaphore count, recursion
\* count or suspend count of the server leaves its range, whatever is nested in
\* a wake_up().
THEOREM TypeCorrect == Spec => []TypeOK
<1>1. IInv => TypeOK
  BY DEF IInv, ObjInv, ObjTypeOK, WaitInv, WaitTypeOK, ApcTypeOK, ReplyTypeOK, TypeOK
<1> QED
  BY <1>1, WaitCoreInvariant, PTL

\* wait_on() and end_wait() keep the wait queues of the objects and the
\* thread_waits of the threads in step, in every state of every handler.
THEOREM QueuesAgree == Spec => []QueueConsistent
<1>1. IInv => QueueConsistent
  BY DEF IInv, WaitInv
<1> QED
  BY <1>1, WaitCoreInvariant, PTL

\* A mutex has an owner exactly while its count is not 0, and abandon_mutexes()
\* is still to come to each mutex of a dead thread: the assertions of do_grab()
\* and abandon_mutexes() hold, and no mutex is left to a thread that is gone.
THEOREM MutexesSound == Spec => []MutexConsistent
<1>1. IInv => MutexConsistent
  BY DEF IInv, ObjInv, DeadInv, MutexConsistent
<1> QED
  BY <1>1, WaitCoreInvariant, PTL

-------------------------------------------------------------------------------
(* Abandoned mutexes.                                                      *)

\* Who gets an abandoned mutex has it in its status.
LEMMA GrantTells ==
  ASSUME ObjInv, NEW t \in Threads, NEW w, w.objs \in ObjectLists, NEW st, Grant(t, Satisfied(w, st)),
         NEW m \in Mutexes, abandoned[m], ~ abandoned'[m]
  PROVE  owner'[m] = t /\ FinalStatus(w, st) \in 128..191
<1>1. m \in Satisfied(w, st) /\ owner'[m] = t
  BY DEF Grant, ObjInv, ObjTypeOK
<1>2. st \in 0..63
  BY <1>1, ObjectListMembers, IndexRange DEF Satisfied
<1>3. FinalStatus(w, st) = st + 128
  BY <1>1 DEF FinalStatus, STATUS_ABANDONED_WAIT_0
<1> QED
  BY <1>1, <1>2, <1>3

\* wake_thread()
LEMMA WakeThreadTells ==
  ASSUME IInv, NEW t \in Threads, wait[t] # NoWait, NEW st, NEW woken, NEW failed,
         WakeThread(t, st, woken, failed)
  PROVE  AbandonmentTold
<1> SUFFICES ASSUME NEW m \in Mutexes, abandoned[m], ~ abandoned'[m]
             PROVE  LET u == owner'[m] IN
                      \/ out'.thread = u /\ out'.status \in 128..191
                      \/ state'[u] = "TERMINATED"
                      \/ wait[u] # NoWait /\ ~ wait[u].cookie
  BY DEF AbandonmentTold
<1>1. wait[t].objs \in ObjectLists /\ state \in [Threads -> {"RUNNING", "TERMINATED"}]
  BY DEF IInv, WaitInv, WaitTypeOK, Wait
<1>2. Grant(t, Satisfied(wait[t], st))
  BY DEF WakeThread
<1>3. owner'[m] = t /\ FinalStatus(wait[t], st) \in 128..191
  BY <1>1, <1>2, GrantTells DEF IInv
<1>4. \/ state'[t] = "TERMINATED"
      \/ ~ wait[t].cookie
      \/ out' = [thread |-> t, status |-> FinalStatus(wait[t], st)]
  BY <1>1 DEF WakeThread, Tell
<1> QED
  BY <1>3, <1>4

\* select_on() that ends at once
LEMMA SelectTells ==
  ASSUME IInv, NEW c \in Threads, NEW w, w.objs \in ObjectLists, NEW st, NEW all,
         Grant(c, Satisfied(w, st)), Tell(c, w.objs, all, FinalStatus(w, st))
  PROVE  AbandonmentTold
<1> SUFFICES ASSUME NEW m \in Mutexes, abandoned[m], ~ abandoned'[m]
             PROVE  out'.thread = owner'[m] /\ out'.status \in 128..191
  BY DEF AbandonmentTold
<1>1. owner'[m] = c /\ FinalStatus(w, st) \in 128..191
  BY GrantTells DEF IInv
<1>2. out' = [thread |-> c, status |-> FinalStatus(w, st)]
  BY DEF Tell
<1> QED
  BY <1>1, <1>2

\* The abandonment of a mutex is told to the live thread that gets it next, whatever wakes,
\* deaths and walks of wake_up() come between.  (mutex_do_abandon, mutex_satisfied, end_wait)
THEOREM AbandonmentsReported == Spec => AbandonmentsTold
<1>1. ASSUME IInv, Next PROVE AbandonmentTold
  <2>1. \A m \in Mutexes : abandoned \in [Mutexes -> BOOLEAN]
    BY <1>1 DEF IInv, ObjInv, ObjTypeOK
  <2>2. ASSUME UNCHANGED abandoned PROVE AbandonmentTold
    BY <2>2 DEF AbandonmentTold
  <2>3. CASE ServerStep
    <3>1. CASE WakeUp
      <4> DEFINE t == NextWoken(Top.obj)
      <4>1. stack \in Seq(Frame) /\ stack # <<>> /\ Top.op = "wake" /\ Wakeable(Top.obj) # {}
        BY <1>1, <3>1 DEF WakeUp, IInv
      <4>2. Top.obj \in Objects
        BY <4>1, PopFrame, FrameFields
      <4>3. t \in Threads /\ wait[t] # NoWait
        BY <1>1, <4>1, <4>2, NextWokenIs
      <4>4. \E woken : WakeThread(t, CheckWait(t, wait[t]), woken, stack)
        BY <3>1 DEF WakeUp
      <4> HIDE DEF t
      <4> QED
        BY <1>1, <4>3, <4>4, WakeThreadTells
    <3>2. CASE WakeOneThread
      <4> DEFINE t == Top.thr
      <4>1. stack \in Seq(Frame) /\ stack # <<>> /\ Top.op = "wake_thread"
        BY <1>1, <3>2 DEF WakeOneThread, IInv
      <4>2. t \in Threads
        BY <4>1, PopFrame, FrameFields
      <4>3. \/ wait[t] # NoWait /\ WakeThread(t, CheckWait(t, wait[t]), Rest, Rest)
            \/ UNCHANGED objVars
        BY <3>2 DEF WakeOneThread
      <4> HIDE DEF t
      <4> QED
        BY <1>1, <2>2, <4>2, <4>3, WakeThreadTells DEF objVars
    <3>3. CASE SelectSatisfied
      <4> DEFINE t == Top.thr
                 w == wait[t]
                 st == CheckWait(t, w)
      <4>1. stack \in Seq(Frame) /\ stack # <<>> /\ Top.op = "select" /\ w # NoWait
        BY <1>1, <3>3 DEF SelectSatisfied, IInv
      <4>2. t \in Threads
        BY <4>1, PopFrame, FrameFields
      <4>3. w.objs \in ObjectLists
        BY <1>1, <4>1, <4>2 DEF IInv, WaitInv, WaitTypeOK, Wait
      <4>4. Grant(t, Satisfied(w, st)) /\ Tell(t, w.objs, FALSE, FinalStatus(w, st))
        BY <3>3 DEF SelectSatisfied
      <4> HIDE DEF t, w, st
      <4> QED
        BY <1>1, <4>2, <4>3, <4>4, SelectTells
    <3>4. CASE AbandonMutex
      <4>1. \A k \in Mutexes : abandoned[k] => abandoned'[k]
        BY <2>1, <3>4 DEF AbandonMutex
      <4> QED
        BY <4>1 DEF AbandonmentTold
    <3>5. CASE WakeUpDone \/ PulseReset \/ AbandonDone \/ ThreadExit \/ ThreadExitViolent
               \/ SelectSelfWoken \/ SelectPending
      BY <2>2, <3>5 DEF WakeUpDone, PulseReset, AbandonDone, ThreadExit, ThreadExitViolent,
                        SelectSelfWoken, SelectPending, objVars
    <3> QED
      BY <2>3, <3>1, <3>2, <3>3, <3>4, <3>5 DEF ServerStep
  <2>4. CASE ClientRequest
    <3>1. ASSUME NEW c \in Threads, NEW r \in Requests, Select(c, r) PROVE AbandonmentTold
      <4> DEFINE st == CheckWait(c, r)
      <4>1. r.objs \in ObjectLists
        BY RequestsAssumption DEF Request
      <4>2. \/ /\ Grant(c, Satisfied(r, st))
               /\ Tell(c, r.objs, r.select = "wait_all", FinalStatus(r, st))
            \/ UNCHANGED objVars
        BY <3>1 DEF Select
      <4> HIDE DEF st
      <4> QED
        BY <1>1, <2>2, <4>1, <4>2, SelectTells DEF objVars
    <3>2. ASSUME NEW c \in Threads, NEW r \in Requests, SignalAndWait(c, r) \/ SignalAndWaitFails(c, r)
          PROVE  AbandonmentTold
      BY <2>2, <3>2 DEF SignalAndWait, SignalAndWaitFails, objVars
    <3>3. ASSUME NEW c \in Threads,
                 \/ \E e \in AutoEvents \union ManualEvents :
                      SetEvent(c, e) \/ ResetEvent(c, e) \/ PulseEvent(c, e)
                 \/ \E s \in Semaphores, n \in 0..SemMax : ReleaseSemaphore(c, s, n)
                 \/ \E m \in Mutexes : ReleaseMutex(c, m)
          PROVE  AbandonmentTold
      BY <2>2, <3>3 DEF SetEvent, ResetEvent, PulseEvent, ReleaseSemaphore, ReleaseMutex
    <3>4. ASSUME NEW c \in Threads, NEW t \in Threads,
                 \/ SuspendThread(c, t) \/ ResumeThread(c, t)
                 \/ QueueUserApc(c, t) \/ QueueSystemApc(c, t) \/ TerminateThread(c, t)
          PROVE  AbandonmentTold
      BY <2>2, <3>4 DEF SuspendThread, ResumeThread, QueueUserApc, QueueSystemApc, TerminateThread,
                        KillThread, objVars
    <3> QED
      BY <2>4, <3>1, <3>2, <3>3, <3>4 DEF ClientRequest
  <2>5. CASE Environment
    <3>1. PICK t \in Threads : \/ ClientDies(t) \/ Hangup(t) \/ CheckTerminated(t)
                               \/ DeadlinePasses(t) \/ ThreadTimeout(t)
      BY <2>5 DEF Environment
    <3>2. CASE ThreadTimeout(t)
      <4>1. wait[t] # NoWait /\ (UNCHANGED objVars \/ WakeThread(t, STATUS_TIMEOUT, <<>>, <<>>))
        BY <3>2 DEF ThreadTimeout
      <4> QED
        BY <1>1, <2>2, <4>1, WakeThreadTells DEF objVars
    <3>3. CASE ClientDies(t) \/ Hangup(t) \/ CheckTerminated(t) \/ DeadlinePasses(t)
      BY <2>2, <3>3 DEF ClientDies, Hangup, KillThread, CheckTerminated, DeadlinePasses, objVars
    <3> QED
      BY <3>1, <3>2, <3>3
  <2> QED
    BY <1>1, <2>3, <2>4, <2>5 DEF Next
<1>2. IInv /\ [Next]_vars => [AbandonmentTold]_vars
  BY <1>1
<1> QED
  BY <1>2, WaitCoreInvariant, PTL DEF Spec, AbandonmentsTold

-------------------------------------------------------------------------------
(* Wakes that are still to come.                                           *)

\* A walk of wake_up() over the queue of o is still to come, or to go on.
Called(o) == \E f \in ToSet(stack) : f.op = "wake" /\ f.obj = o

\* select_on() has not come to its check_wait() for the wait of t.
Unchecked(t) == wait[t] # NoWait /\ ~ wait[t].cookie

\* t itself will be looked at.
Watched(t) == ThreadFrame(t) \in ToSet(stack) \/ Unchecked(t)

(***************************************************************************)
(* The call stack: what a request begins is at its bottom.  A wake_up()    *)
(* that is to stop after max threads has only the end of a pulse or of a   *)
(* select under it, and then wakes one thread.  The wakes of killed        *)
(* threads come on top, and have no max.                                   *)
(***************************************************************************)
Base(f)    == f.op \in {"select", "reset", "wake_thread"}
Limited(f) == f.op = "wake" /\ f.max > 0

Shape(q) ==
  \A i \in 1..Len(q) :
    /\ Base(q[i]) => i = Len(q)
    /\ q[i].op = "wake_thread" => i = 1
    /\ Limited(q[i]) => /\ \A j \in 1..Len(q) : i < j => Base(q[j])
                        /\ i # Len(q) => q[i].max = 1

\* What wake_up() stops at suffices for what was signaled.
Supplied ==
  \A f \in ToSet(stack) : Limited(f) =>
    /\ f.obj \in AutoEvents \union Semaphores
    /\ f.obj \in Semaphores => sem[f.obj] <= f.max

\* A wait that is not checked has its select_on() on the stack, and was queued last.
UncheckedLast ==
  /\ \A t \in Threads : Unchecked(t) =>
       /\ wait[t].select = "signal_and_wait" /\ Len(wait[t].objs) = 1
       /\ SelectFrame(t, wait[t].objs[1]) \in ToSet(stack)
  /\ \A o \in Objects : \A i \in 1..Len(queue[o]) : Unchecked(queue[o][i]) => i = Len(queue[o])

StackInv == Shape(stack) /\ UncheckedLast

\* A queued APC that should end the wait of t
ApcOwed(t) ==
  /\ wait[t] # NoWait
  /\ \/ wait[t].interruptible /\ system_apc[t] > 0
     \/ wait[t].alertable /\ user_apc[t] > 0 /\ ~ Suspended(t)

ApcInv == \A t \in Threads : ApcOwed(t) => Watched(t)

\* An object of a wait is signaled only while a wake that it is owed is still to come.
Wanted(t, i) ==
  Watched(t) \/ (IF wait[t].select = "wait_all"
                 THEN \E o \in ToSet(wait[t].objs) : Called(o)
                 ELSE Called(wait[t].objs[i]))

WakeOwed(t) ==
  wait[t] # NoWait /\ ~ Suspended(t) /\ ObjectsReady(t, wait[t]) =>
    \A i \in 1..Len(wait[t].objs) : Signaled(wait[t].objs[i], t) => Wanted(t, i)

LostInv == Supplied /\ \A t \in Threads : WakeOwed(t)

\* No WAIT_ALL for what only some of its waiters can have may time out.
TimedAllPlain ==
  \A r \in Requests : r.select = "wait_all" /\ r.when # "infinite" =>
    ToSet(r.objs) \intersect (AutoEvents \union Semaphores) = {}

TimedInv ==
  \A t \in Threads : wait[t] # NoWait /\ wait[t].select = "wait_all" /\ wait[t].when # "infinite" =>
    ToSet(wait[t].objs) \intersect (AutoEvents \union Semaphores) = {}

\* A SELECT_SIGNAL_AND_WAIT for a mutex is ended at once by nothing but the mutex: it is not
\* alertable, its timeout is not 0, and its thread gets no system APC.
CleanSignals ==
  \A r \in Requests : r.select = "signal_and_wait" /\ r.objs[1] \in Mutexes =>
    (r.interruptible => ApcMax = 0) /\ ~ r.alertable /\ r.when # "past"

CleanInv ==
  \A t \in Threads : Unchecked(t) /\ wait[t].objs[1] \in Mutexes =>
    (wait[t].interruptible => ApcMax = 0) /\ ~ wait[t].alertable /\ wait[t].when # "past"

\* t has got m while it signaled, which the end of its select_on() will tell it.
Untold(t, m) == SelectFrame(t, m) \in ToSet(stack) /\ wait[t] = NoWait

\* How often t has m
Held(t, m) == IF owner[m] = t THEN count[m] ELSE 0

Told ==
  \A t \in Threads, m \in Mutexes : state[t] = "RUNNING" /\ ~ gone[t] =>
    believed[t][m] + (IF Untold(t, m) THEN 1 ELSE 0) = Held(t, m)

\* The rest of a select_on() is for the wait that it has not checked, or for one that is over.
SelectOwed ==
  \A t \in Threads, o \in Objects : SelectFrame(t, o) \in ToSet(stack) =>
    wait[t] = NoWait \/ (Unchecked(t) /\ wait[t].objs[1] = o)

\* Only a killed thread's mutexes are abandoned.
Doomed == \A t \in Threads : AbandonFrame(t) \in ToSet(stack) => state[t] = "TERMINATED"

BeliefInv == CleanInv /\ SelectOwed /\ Doomed /\ Told

(* The call stack.                                                         *)

\* The steps of a handler, or of none, leave what is under the top frame.
Advances == \A f \in ToSet(stack) : f # Top => f \in ToSet(stack')

\* What the shape says when the top frame is worked off
LEMMA ShapeTail ==
  ASSUME NEW q \in Seq(Frame), q # <<>>, Shape(q)
  PROVE  /\ Shape(Tail(q))
         /\ Base(Head(q)) => Tail(q) = <<>>
         /\ Limited(Head(q)) => \A f \in ToSet(Tail(q)) : Base(f)
         /\ Limited(Head(q)) /\ Tail(q) # <<>> => Head(q).max = 1
         /\ \A f \in ToSet(Tail(q)) : f.op # "wake_thread"
<1>1. /\ Len(q) \in Nat \ {0} /\ Head(q) = q[1] /\ Tail(q) \in Seq(Frame) /\ Len(Tail(q)) = Len(q) - 1
      /\ \A i \in 1..Len(Tail(q)) : Tail(q)[i] = q[i + 1]
  BY HeadTailProperties, EmptySeq, LenProperties
<1>2. \A i \in 1..Len(q) :
        /\ Base(q[i]) => i = Len(q)
        /\ q[i].op = "wake_thread" => i = 1
        /\ Limited(q[i]) => \A j \in 1..Len(q) : i < j => Base(q[j])
        /\ Limited(q[i]) /\ i # Len(q) => q[i].max = 1
  BY DEF Shape
<1> DEFINE s == Tail(q)
<1>a. ToSet(s) = {s[i] : i \in 1..Len(s)}
  BY <1>1, ToSetMembers
<1>b. /\ s \in Seq(Frame) /\ Len(s) = Len(q) - 1
      /\ \A i \in 1..Len(s) : s[i] = q[i + 1] /\ i + 1 \in 1..Len(q)
  BY <1>1
<1>3. /\ s \in Seq(Frame) /\ Len(s) = Len(q) - 1
      /\ \A i \in 1..Len(s) : s[i] = q[i + 1] /\ i + 1 \in 1..Len(q)
      /\ ToSet(s) = {s[i] : i \in 1..Len(s)}
  BY <1>a, <1>b
<1>4. Len(s) = 0 => s = <<>>
  BY <1>3, EmptySeq
<1> HIDE DEF s
<1>5. ASSUME NEW i \in 1..Len(s)
      PROVE  /\ Base(s[i]) => i = Len(s)
             /\ s[i].op # "wake_thread"
             /\ Limited(s[i]) => \A j \in 1..Len(s) : i < j => Base(s[j])
             /\ Limited(s[i]) /\ i # Len(s) => s[i].max = 1
             /\ Limited(Head(q)) => Base(s[i])
  <2>1. s[i] = q[i + 1] /\ i + 1 \in 1..Len(q) /\ i \in Nat
    BY <1>3
  <2>2. \A j \in 1..Len(s) : i < j => j + 1 \in 1..Len(q) /\ i + 1 < j + 1 /\ s[j] = q[j + 1]
    BY <1>3
  <2>3. 1 \in 1..Len(q) /\ 1 < i + 1 /\ i + 1 # 1 /\ (i + 1 = Len(q) <=> i = Len(s))
    BY <1>1, <1>3, <2>1
  <2>4. /\ Base(s[i]) => i = Len(s)
        /\ s[i].op # "wake_thread"
        /\ Limited(s[i]) /\ i # Len(s) => s[i].max = 1
    BY <1>2, <2>1, <2>3
  <2>5. Limited(s[i]) => \A j \in 1..Len(s) : i < j => Base(s[j])
    BY <1>2, <2>1, <2>2
  <2>6. Limited(Head(q)) => Base(s[i])
    BY <1>1, <1>2, <2>1, <2>3
  <2> QED
    BY <2>4, <2>5, <2>6
<1>6. Shape(s)
  BY <1>5 DEF Shape
<1>7. Base(Head(q)) => s = <<>>
  BY <1>1, <1>2, <1>3, <1>4
<1>8. Limited(Head(q)) /\ s # <<>> => Head(q).max = 1
  <2>1. 1 \in 1..Len(q) /\ (s # <<>> => 1 # Len(q))
    BY <1>1, <1>3, <1>4
  <2> QED
    BY <1>1, <1>2, <2>1
<1> QED
  BY <1>3, <1>5, <1>6, <1>7, <1>8 DEF s

\* The frames of a killed thread, and a walk without a max, go on top of any other.
LEMMA ShapePush ==
  ASSUME NEW q \in Seq(Frame), Shape(q), \A f \in ToSet(q) : f.op # "wake_thread",
         NEW g \in Frame, ~ Base(g), ~ Limited(g), NEW s, s = <<g>> \o q
  PROVE  Shape(s) /\ s \in Seq(Frame) /\ ToSet(s) = {g} \union ToSet(q)
<1>0. s \in Seq(Frame) /\ ToSet(s) = {g} \union ToSet(q)
  BY ToSetPush, Zenon
<1>1. /\ Len(s) = Len(q) + 1 /\ Len(q) \in Nat /\ s[1] = g
      /\ \A i \in 2..Len(s) : s[i] = q[i - 1] /\ i - 1 \in 1..Len(q)
  <2> DEFINE p == <<g>>
  <2>1. p \in Seq(Frame) /\ Len(p) = 1 /\ p[1] = g
    OBVIOUS
  <2> HIDE DEF p
  <2>2. /\ Len(p \o q) = Len(p) + Len(q)
        /\ \A i \in 1..(Len(p) + Len(q)) :
             (p \o q)[i] = IF i <= Len(p) THEN p[i] ELSE q[i - Len(p)]
    BY <2>1, ConcatProperties, Zenon
  <2>3. s = p \o q
    BY DEF p
  <2> QED
    BY <2>1, <2>2, <2>3, LenProperties
<1>2. \A i \in 1..Len(q) :
        /\ Base(q[i]) => i = Len(q)
        /\ Limited(q[i]) => \A j \in 1..Len(q) : i < j => Base(q[j])
        /\ Limited(q[i]) /\ i # Len(q) => q[i].max = 1
        /\ q[i].op # "wake_thread"
  BY ToSetMembers DEF Shape
<1>3. ASSUME NEW i \in 1..Len(s)
      PROVE  /\ Base(s[i]) => i = Len(s)
             /\ s[i].op # "wake_thread"
             /\ Limited(s[i]) => \A j \in 1..Len(s) : i < j => Base(s[j])
             /\ Limited(s[i]) /\ i # Len(s) => s[i].max = 1
  <2>1. CASE i = 1
    BY <1>1, <2>1 DEF Base
  <2>2. CASE i # 1
    <3>1. i \in 2..Len(s) /\ s[i] = q[i - 1] /\ i - 1 \in 1..Len(q)
      BY <1>1, <2>2
    <3>2. \A j \in 1..Len(s) : i < j => j - 1 \in 1..Len(q) /\ i - 1 < j - 1 /\ s[j] = q[j - 1]
      BY <1>1, <3>1
    <3> QED
      BY <1>1, <1>2, <3>1, <3>2
  <2> QED
    BY <2>1, <2>2
<1>4. Shape(s)
  BY <1>3 DEF Shape
<1> QED
  BY <1>0, <1>4

\* What a request begins with
LEMMA ShapeShort ==
  ASSUME NEW f \in Frame, NEW g \in Frame
  PROVE  /\ Shape(<<>>) /\ Shape(<<f>>)
         /\ ~ Base(f) /\ (Limited(f) => f.max = 1 /\ Base(g)) /\ ~ Limited(g) /\ g.op # "wake_thread"
              => Shape(<<f, g>>)
BY DEF Shape, Base, Limited

\* What the frames are
LEMMA FrameKinds ==
  /\ \A t : /\ ~ Base(AbandonFrame(t)) /\ ~ Limited(AbandonFrame(t)) /\ AbandonFrame(t).op = "abandon"
            /\ ~ Base(ExitFrame(t)) /\ ~ Limited(ExitFrame(t)) /\ ExitFrame(t).op = "exit"
            /\ ~ Base(PollFrame(t)) /\ ~ Limited(PollFrame(t)) /\ PollFrame(t).op = "poll"
            /\ ThreadFrame(t).op = "wake_thread" /\ ThreadFrame(t).thr = t
  /\ \A o, n : /\ WakeFrame(o, n).op = "wake" /\ WakeFrame(o, n).obj = o /\ WakeFrame(o, n).max = n
               /\ ~ Base(WakeFrame(o, n))
               /\ Limited(WakeFrame(o, n)) <=> n > 0
               /\ ~ Limited(WakeFrame(o, 0))
  /\ \A o : ResetFrame(o).op = "reset" /\ Base(ResetFrame(o)) /\ ~ Limited(ResetFrame(o))
  /\ \A t, o : /\ SelectFrame(t, o).op = "select" /\ Base(SelectFrame(t, o)) /\ ~ Limited(SelectFrame(t, o))
               /\ SelectFrame(t, o).thr = t /\ SelectFrame(t, o).obj = o
BY DEF AbandonFrame, ExitFrame, PollFrame, ThreadFrame, WakeFrame, ResetFrame, SelectFrame, Base, Limited

\* A thread is killed on top of q.
LEMMA KilledStack ==
  ASSUME NEW q \in Seq(Frame), Shape(q), \A f \in ToSet(q) : f.op # "wake_thread",
         NEW t \in Threads, NEW s, s = <<AbandonFrame(t), ExitFrame(t)>> \o q
  PROVE  Shape(s) /\ s \in Seq(Frame) /\ ToSet(s) = {AbandonFrame(t), ExitFrame(t)} \union ToSet(q)
<1>1. PICK a \in Frame : a = AbandonFrame(t)
  BY FramesTyped
<1>2. PICK e \in Frame : e = ExitFrame(t)
  BY FramesTyped
<1>3. ~ Base(a) /\ ~ Limited(a) /\ ~ Base(e) /\ ~ Limited(e) /\ e.op # "wake_thread"
  BY <1>1, <1>2, FrameKinds
<1>4. PICK r : r = <<e>> \o q
  OBVIOUS
<1>5. Shape(r) /\ r \in Seq(Frame) /\ ToSet(r) = {e} \union ToSet(q)
  BY <1>3, <1>4, ShapePush
<1>6. s = <<a>> \o r
  <2>1. <<a>> \in Seq(Frame) /\ <<e>> \in Seq(Frame) /\ <<a, e>> = <<a>> \o <<e>>
    OBVIOUS
  <2>2. \A x, y \in Seq(Frame) : (x \o y) \o q = x \o (y \o q)
    BY ConcatAssociative
  <2> QED
    BY <1>1, <1>2, <1>4, <2>1, <2>2
<1>7. \A f \in ToSet(r) : f.op # "wake_thread"
  BY <1>3, <1>5
<1>8. Shape(s) /\ s \in Seq(Frame) /\ ToSet(s) = {a} \union ToSet(r)
  BY <1>3, <1>5, <1>6, <1>7, ShapePush
<1> QED
  BY <1>1, <1>2, <1>5, <1>8

\* The top frame and what is under it
LEMMA TopFacts ==
  ASSUME IInv, Shape(stack), stack # <<>>
  PROVE  /\ Top \in Frame /\ Rest \in Seq(Frame) /\ Shape(Rest)
         /\ ToSet(stack) = {Top} \union ToSet(Rest)
         /\ Base(Top) => Rest = <<>>
         /\ Limited(Top) => \A f \in ToSet(Rest) : Base(f)
         /\ Limited(Top) /\ Rest # <<>> => Top.max = 1
         /\ \A f \in ToSet(Rest) : f.op # "wake_thread"
<1>1. stack \in Seq(Frame)
  BY DEF IInv
<1> QED
  BY <1>1, PopFrame, ShapeTail DEF Top, Rest

\* A return from the top frame
LEMMA PopStack ==
  ASSUME IInv, Shape(stack), stack # <<>>, stack' = Rest
  PROVE  Shape(stack') /\ Advances /\ ToSet(stack') = ToSet(Rest)
BY TopFacts DEF Advances

\* The server's stack after a turn of the loop of wake_up()
LEMMA WakeUpStack ==
  ASSUME IInv, Shape(stack), WakeUp
  PROVE  /\ Shape(stack') /\ Advances
         /\ \/ Top.max = 1 /\ ToSet(stack') = ToSet(Rest)
            \/ Top.max = 0 /\ ToSet(stack') = ToSet(stack)
            \/ Top.max > 1 /\ Rest = <<>> /\ ToSet(stack') = {WakeFrame(Top.obj, Top.max - 1)}
            \/ ToSet(stack') = ToSet(stack) \union
                 {AbandonFrame(NextWoken(Top.obj)), ExitFrame(NextWoken(Top.obj))}
<1>0. stack # <<>> /\ Top.op = "wake" /\ Wakeable(Top.obj) # {} /\ stack \in Seq(Frame)
  BY DEF WakeUp, IInv
<1>1. /\ Top \in Frame /\ Rest \in Seq(Frame) /\ Shape(Rest) /\ ToSet(stack) = {Top} \union ToSet(Rest)
      /\ Limited(Top) /\ Rest # <<>> => Top.max = 1
      /\ \A f \in ToSet(Rest) : f.op # "wake_thread"
  BY <1>0, TopFacts
<1>2. Top.obj \in Objects /\ Top.max \in Nat
  BY <1>0, <1>1, FrameFields
<1>3. PICK t \in Threads : t = NextWoken(Top.obj)
  BY <1>0, <1>2, NextWokenIs
<1>4. \/ stack' = <<AbandonFrame(t), ExitFrame(t)>> \o stack
      \/ stack' = IF Top.max = 1 THEN Rest ELSE IF Top.max = 0 THEN stack
                  ELSE <<WakeFrame(Top.obj, Top.max - 1)>> \o Rest
  BY <1>3 DEF WakeUp, WakeThread
<1>5. CASE stack' = <<AbandonFrame(t), ExitFrame(t)>> \o stack
  <2>1. \A f \in ToSet(stack) : f.op # "wake_thread"
    BY <1>0, <1>1
  <2>2. PICK s : s = stack'
    OBVIOUS
  <2>3. Shape(s) /\ ToSet(s) = {AbandonFrame(t), ExitFrame(t)} \union ToSet(stack)
    BY <1>0, <1>5, <2>1, <2>2, KilledStack
  <2> QED
    BY <1>3, <2>2, <2>3 DEF Advances
<1>6. CASE Top.max = 1 /\ stack' = Rest
  BY <1>0, <1>6, PopStack
<1>7. CASE Top.max = 0 /\ stack' = stack
  BY <1>7 DEF Advances
<1>8. CASE Top.max # 0 /\ Top.max # 1 /\ stack' = <<WakeFrame(Top.obj, Top.max - 1)>> \o Rest
  <2>1. Limited(Top) /\ Top.max > 1
    <3>1. Top.op = "wake" /\ Top.max \in Nat
      BY <1>0, <1>2
    <3> QED
      BY <1>8, <3>1 DEF Limited
  <2>a. Rest = <<>>
    BY <1>1, <2>1
  <2>b. ToSet(<<>>) = {}
    BY DEF ToSet
  <2>2. Rest = <<>> /\ ToSet(stack) = {Top}
    BY <1>1, <2>a, <2>b
  <2>3. PICK f : f = WakeFrame(Top.obj, Top.max - 1)
    OBVIOUS
  <2>4. f \in Frame
    BY <1>2, <2>1, <2>3, FramesTyped
  <2>5. stack' = <<f>>
    BY <1>8, <2>2, <2>3
  <2>6. Shape(<<f>>) /\ ToSet(<<f>>) = {f}
    BY <2>4, ShapeShort, ToSetShort
  <2> QED
    BY <2>1, <2>2, <2>3, <2>5, <2>6 DEF Advances
<1> QED
  BY <1>4, <1>5, <1>6, <1>7, <1>8

\* The server's stack after any other step of the top frame
LEMMA ServerStack ==
  ASSUME IInv, Shape(stack), ServerStep, ~ WakeUp
  PROVE  /\ Shape(stack') /\ Advances
         /\ Top.op \in {"reset", "wake_thread", "select"} => Rest = <<>>
         /\ Top.op \in {"wake", "reset", "select"} => stack' = Rest
         /\ \A f \in ToSet(stack') : Limited(f) \/ Base(f) => f \in ToSet(stack)
<1>0. /\ stack # <<>> /\ stack \in Seq(Frame)
      /\ Top.op \in {"wake", "reset", "select", "wake_thread", "abandon", "exit", "poll"}
  BY DEF IInv, ServerStep, WakeUpDone, WakeOneThread, PulseReset, AbandonMutex, AbandonDone,
         ThreadExit, ThreadExitViolent, SelectSelfWoken, SelectSatisfied, SelectPending
<1>1. /\ Top \in Frame /\ Rest \in Seq(Frame) /\ Shape(Rest) /\ ToSet(stack) = {Top} \union ToSet(Rest)
      /\ Base(Top) => Rest = <<>>
      /\ \A f \in ToSet(Rest) : f.op # "wake_thread"
  BY <1>0, TopFacts
<1>2. Top.op \in {"reset", "wake_thread", "select"} => Rest = <<>>
  BY <1>1 DEF Base
<1>3. CASE stack' = Rest
  BY <1>0, <1>1, <1>2, <1>3, PopStack
<1>4. ASSUME NEW g \in Frame, ~ Base(g), ~ Limited(g), NEW q \in Seq(Frame), Shape(q),
             \A f \in ToSet(q) : f.op # "wake_thread", Top.op \in {"abandon", "exit", "poll"},
             q = stack \/ q = Rest, stack' = <<g>> \o q
      PROVE  /\ Shape(stack') /\ Advances
             /\ \A f \in ToSet(stack') : Limited(f) \/ Base(f) => f \in ToSet(stack)
  <2>1. PICK s : s = stack'
    OBVIOUS
  <2>2. Shape(s) /\ ToSet(s) = {g} \union ToSet(q)
    BY <1>4, <2>1, ShapePush
  <2> QED
    BY <1>1, <1>4, <2>1, <2>2 DEF Advances
<1>5. CASE AbandonMutex
  <2>1. PICK m \in Mutexes : stack' = <<WakeFrame(m, 0)>> \o stack
    BY <1>5 DEF AbandonMutex
  <2>2. Top.op = "abandon"
    BY <1>5 DEF AbandonMutex
  <2>3. PICK g \in Frame : g = WakeFrame(m, 0)
    BY FramesTyped DEF Objects
  <2>4. ~ Base(g) /\ ~ Limited(g)
    BY <2>3, FrameKinds
  <2>5. \A f \in ToSet(stack) : f.op # "wake_thread"
    BY <1>1, <2>2
  <2> QED
    BY <1>0, <1>4, <2>1, <2>2, <2>3, <2>4, <2>5
<1>6. CASE Top.op \in {"exit", "poll"} /\ stack' = <<WakeFrame(Top.thr, 0)>> \o Rest
  <2>1. Top.thr \in Objects
    BY <1>1, <1>6, FrameFields DEF Objects, Events
  <2>2. PICK g \in Frame : g = WakeFrame(Top.thr, 0)
    BY <2>1, FramesTyped
  <2>3. ~ Base(g) /\ ~ Limited(g)
    BY <2>2, FrameKinds
  <2> QED
    BY <1>1, <1>4, <1>6, <2>2, <2>3
<1>7. CASE WakeOneThread
  <2>1. Top.op = "wake_thread" /\ Rest = <<>>
    BY <1>2, <1>7 DEF WakeOneThread
  <2>2. Top.thr \in Threads
    BY <1>1, <2>1, FrameFields
  <2>3. PICK t \in Threads : t = Top.thr
    BY <2>2
  <2>4. stack' = Rest \/ stack' = <<AbandonFrame(t), ExitFrame(t)>> \o Rest
    BY <1>7, <2>3 DEF WakeOneThread, WakeThread
  <2>5. CASE stack' = <<AbandonFrame(t), ExitFrame(t)>> \o Rest
    <3>1. PICK s : s = stack'
      OBVIOUS
    <3>2. Shape(s) /\ ToSet(s) = {AbandonFrame(t), ExitFrame(t)} \union ToSet(Rest)
      BY <1>1, <2>5, <3>1, KilledStack
    <3> QED
      BY <1>1, <2>1, <3>1, <3>2, FrameKinds DEF Advances
  <2> QED
    BY <1>3, <2>4, <2>5
<1>8. \/ stack' = Rest \/ AbandonMutex \/ WakeOneThread
      \/ Top.op \in {"exit", "poll"} /\ stack' = <<WakeFrame(Top.thr, 0)>> \o Rest
  BY DEF ServerStep, WakeUpDone, PulseReset, AbandonDone, ThreadExit, ThreadExitViolent,
         SelectSelfWoken, SelectSatisfied, SelectPending
<1>9. Top.op \in {"wake", "reset", "select"} => stack' = Rest
  BY DEF ServerStep, WakeUpDone, PulseReset, AbandonDone, ThreadExit, ThreadExitViolent,
         SelectSelfWoken, SelectSatisfied, SelectPending, AbandonMutex, WakeOneThread
<1> QED
  BY <1>2, <1>3, <1>5, <1>6, <1>7, <1>8, <1>9

\* A request begins with one frame, with two or with none.
LEMMA BeginStack ==
  ASSUME NEW f \in Frame, NEW g \in Frame, f.op \in {"wake", "abandon"}, ~ Limited(g),
         g.op \notin {"wake_thread", "wake"}, Limited(f) => f.max = 1 /\ Base(g),
         stack' = <<f, g>>, Limited(f) => f.obj \in AutoEvents \union Semaphores,
         Limited(f) /\ f.obj \in Semaphores => sem'[f.obj] <= f.max
  PROVE  Shape(stack') /\ Supplied' /\ ToSet(stack') = {f, g}
<1>1. Shape(<<f, g>>) /\ ToSet(<<f, g>>) = {f, g}
  BY ShapeShort, ToSetShort DEF Base
<1> QED
  BY <1>1 DEF Supplied

LEMMA BeginOne ==
  ASSUME NEW f \in Frame, stack' = <<f>>, Limited(f) => f.obj \in AutoEvents \union Semaphores,
         Limited(f) /\ f.obj \in Semaphores => sem'[f.obj] <= f.max
  PROVE  Shape(stack') /\ Supplied' /\ ToSet(stack') = {f}
<1>1. Shape(<<f>>) /\ ToSet(<<f>>) = {f}
  BY ShapeShort, ToSetShort
<1> QED
  BY <1>1 DEF Supplied

LEMMA BeginNone ==
  ASSUME stack' = <<>>
  PROVE  Shape(stack') /\ Supplied' /\ ToSet(stack') = {}
<1>1. Shape(<<>>) /\ ToSet(<<>>) = {}
  BY DEF Shape, ToSet
<1> QED
  BY <1>1 DEF Supplied

\* signal_object() and its like: the frames of an event, a semaphore or a mutex, on top of
\* nothing or of a select
LEMMA SignalStack ==
  ASSUME IInv, NEW o \in AutoEvents \union ManualEvents \union Semaphores \union Mutexes,
         NEW n \in Nat, n = 0 \/ (o \in AutoEvents /\ n = 1) \/ (o \in Semaphores /\ sem'[o] <= n),
         stack' = <<WakeFrame(o, n)>>
  PROVE  Shape(stack') /\ Supplied' /\ Called(o)'
<1>1. PICK f \in Frame : f = WakeFrame(o, n)
  BY FramesTyped DEF Objects, Events
<1>2. f.op = "wake" /\ f.obj = o /\ f.max = n /\ (Limited(f) => n > 0)
  BY <1>1, FrameKinds
<1>3. AutoEvents \intersect Semaphores = {}
  BY DisjointAssumption DEF Events
<1>4. Shape(stack') /\ Supplied' /\ ToSet(stack') = {f}
  BY <1>1, <1>2, <1>3, BeginOne
<1> QED
  BY <1>2, <1>4 DEF Called

LEMMA SignalSelectStack ==
  ASSUME IInv, NEW o \in AutoEvents \union ManualEvents \union Semaphores \union Mutexes,
         NEW n \in {0, 1}, n = 0 \/ o \in AutoEvents \/ (o \in Semaphores /\ sem'[o] <= n),
         NEW g \in Frame, g.op \in {"select", "reset"}, stack' = <<WakeFrame(o, n), g>>
  PROVE  Shape(stack') /\ Supplied' /\ Called(o)' /\ g \in ToSet(stack')
<1>1. PICK f \in Frame : f = WakeFrame(o, n)
  BY FramesTyped DEF Objects, Events
<1>2. f.op = "wake" /\ f.obj = o /\ f.max = n /\ (Limited(f) => n > 0)
  BY <1>1, FrameKinds
<1>3. AutoEvents \intersect Semaphores = {}
  BY DisjointAssumption DEF Events
<1>4. ~ Limited(g) /\ Base(g)
  BY DEF Limited, Base
<1>5. Shape(stack') /\ Supplied' /\ ToSet(stack') = {f, g}
  BY <1>1, <1>2, <1>3, <1>4, BeginStack
<1> QED
  BY <1>2, <1>5 DEF Called

\* kill_thread()
LEMMA KillStack ==
  ASSUME NEW t \in Threads, NEW violent, KillThread(t, violent)
  PROVE  Shape(stack') /\ Supplied'
<1>1. PICK f \in Frame : f = AbandonFrame(t)
  BY FramesTyped
<1>2. PICK g \in Frame : g \in {PollFrame(t), ExitFrame(t)} /\ stack' = <<f, g>>
  BY <1>1, FramesTyped DEF KillThread
<1>3. f.op = "abandon" /\ ~ Limited(f) /\ ~ Limited(g) /\ g.op \in {"poll", "exit"}
  BY <1>1, <1>2, FrameKinds
<1> QED
  BY <1>2, <1>3, BeginStack

\* What becomes signaled for a waiting thread is called.
Calls ==
  \A o \in Objects, u \in Threads :
    wait'[u] # NoWait /\ ~ Unchecked(u)' /\ Signaled(o, u)' => Signaled(o, u) \/ Called(o)'

\* Who is signaled when only o changes
LEMMA OneSignaled ==
  ASSUME ObjInv, NEW o \in Objects, Called(o)', UNCHANGED <<owner, count>>,
         \/ o \in Events /\ UNCHANGED sem /\ \E b : signaled' = [signaled EXCEPT ![o] = b]
         \/ o \in Semaphores /\ UNCHANGED signaled /\ \E n : sem' = [sem EXCEPT ![o] = n]
  PROVE  Calls
<1> SUFFICES ASSUME NEW p \in Objects, NEW u \in Threads, Signaled(p, u)', p # o
             PROVE  Signaled(p, u)
  BY DEF Calls
<1>1. /\ p \in Events => signaled'[p] = signaled[p]
      /\ p \in Semaphores => sem'[p] = sem[p]
  BY DEF ObjInv, ObjTypeOK
<1> QED
  BY <1>1 DEF Signaled, EventSignaled, SemaphoreSignaled, MutexSignaled

\* Nothing becomes signaled.
LEMMA NoneSignaled ==
  ASSUME ObjInv,
         \/ UNCHANGED <<signaled, sem, owner, count>>
         \/ UNCHANGED <<sem, owner, count>> /\ \E e \in Events : signaled' = [signaled EXCEPT ![e] = FALSE]
  PROVE  Calls
<1>1. ASSUME NEW p \in Objects, NEW u \in Threads, Signaled(p, u)' PROVE Signaled(p, u)
  <2>1. p \in Events => (signaled'[p] => signaled[p])
    BY DEF ObjInv, ObjTypeOK
  <2> QED
    BY <1>1, <2>1 DEF Signaled, EventSignaled, SemaphoreSignaled, MutexSignaled
<1> QED
  BY <1>1 DEF Calls

\* do_release()
LEMMA ReleaseSignals ==
  ASSUME ObjInv, NEW c \in Threads, NEW m \in Mutexes, NEW frames, DoRelease(c, m, frames),
         UNCHANGED <<signaled, sem>>, wait'[c] = NoWait \/ Unchecked(c)', count[m] = 1 => Called(m)'
  PROVE  Calls
<1> SUFFICES ASSUME NEW o \in Objects, NEW u \in Threads, Signaled(o, u)', u # c, o = m, count[m] # 1
             PROVE  Signaled(o, u)
  BY DEF DoRelease, Signaled,
         EventSignaled, SemaphoreSignaled, MutexSignaled, Calls, ObjInv, ObjTypeOK
<1>1. /\ owner[m] = c /\ count[m] \in Nat /\ count[m] # 0 /\ c # NoThread
      /\ count' = [count EXCEPT ![m] = count[m] - 1] /\ owner' = owner
      /\ m \in DOMAIN count
  BY ConstantsAssumption DEF DoRelease, ObjInv, ObjTypeOK
<1>2. m \notin Events /\ m \notin Semaphores
  BY DisjointAssumption
<1>3. count'[m] # 0 /\ owner'[m] = c
  BY <1>1
<1> QED
  BY <1>2, <1>3 DEF Signaled, EventSignaled, SemaphoreSignaled, MutexSignaled

-------------------------------------------------------------------------------
(* The waits that are under way.                                           *)

\* A step leaves the wait of u as it is, but for its times, or ends it.
SameWait(u) ==
  \/ wait'[u] = NoWait
  \/ /\ wait[u] # NoWait /\ wait'[u] # NoWait
     /\ wait'[u].select = wait[u].select /\ wait'[u].objs = wait[u].objs
     /\ wait'[u].interruptible = wait[u].interruptible /\ wait'[u].alertable = wait[u].alertable
     /\ wait'[u].cookie = wait[u].cookie

\* The top frame is the one f, so far as the server is at work.
AtTop(f) == stack # <<>> /\ Top = f

\* A step that starts no wait
LEMMA SameWaitsKeep ==
  ASSUME IInv, StackInv, ApcInv, Shape(stack'), Advances, \A u \in Threads : SameWait(u),
         \A u \in Threads, o \in Objects : AtTop(SelectFrame(u, o)) => ~ Unchecked(u)',
         \A u \in Threads : ApcOwed(u)' =>
           \/ ApcOwed(u) /\ ~ AtTop(ThreadFrame(u))
           \/ ThreadFrame(u) \in ToSet(stack'),
         \A o \in Objects : queue'[o] = queue[o] \/ \E t : queue'[o] = RemoveFirst(queue[o], t)
  PROVE  StackInv' /\ ApcInv'
<1>0. \A f \in ToSet(stack) : stack # <<>>
  BY DEF ToSet
<1>1. ASSUME NEW u \in Threads, Unchecked(u)'
      PROVE  Unchecked(u) /\ wait'[u].select = wait[u].select /\ wait'[u].objs = wait[u].objs
  BY <1>1 DEF SameWait, Unchecked
<1>2. ASSUME NEW u \in Threads, Unchecked(u)'
      PROVE  /\ wait'[u].select = "signal_and_wait" /\ Len(wait'[u].objs) = 1
             /\ SelectFrame(u, wait'[u].objs[1]) \in ToSet(stack')
  <2> DEFINE o == wait[u].objs[1]
  <2>1. /\ wait[u].select = "signal_and_wait" /\ Len(wait[u].objs) = 1
        /\ SelectFrame(u, o) \in ToSet(stack) /\ wait[u] # NoWait
    BY <1>1, <1>2 DEF StackInv, UncheckedLast, Unchecked
  <2>2. o \in Objects
    <3>1. wait[u].objs \in ObjectLists
      BY <2>1 DEF IInv, WaitInv, WaitTypeOK, Wait
    <3> QED
      BY <2>1, <3>1, ObjectListMembers
  <2>3. ~ AtTop(SelectFrame(u, o))
    BY <1>2, <2>2
  <2>4. SelectFrame(u, o) \in ToSet(stack')
    BY <1>0, <2>1, <2>3 DEF Advances, AtTop
  <2> QED
    BY <1>1, <1>2, <2>1, <2>4
<1>3. ASSUME NEW o \in Objects
      PROVE  (\A i \in 1..Len(queue[o]) : Unchecked(queue[o][i]) => i = Len(queue[o]))'
  <2>1. queue[o] \in Seq(Threads)
    BY DEF IInv, WaitInv, WaitTypeOK
  <2>2. PICK U : U = {u \in Threads : Unchecked(u)}
    OBVIOUS
  <2>3. \A i \in 1..Len(queue[o]) : queue[o][i] \in U => i = Len(queue[o])
    BY <2>2 DEF StackInv, UncheckedLast
  <2>4. queue'[o] \in Seq(Threads) /\ \A i \in 1..Len(queue'[o]) : queue'[o][i] \in U => i = Len(queue'[o])
    <3>1. CASE queue'[o] = queue[o]
      BY <2>1, <2>3, <3>1
    <3>2. ASSUME NEW t, queue'[o] = RemoveFirst(queue[o], t)
          PROVE  /\ queue'[o] \in Seq(Threads)
                 /\ \A i \in 1..Len(queue'[o]) : queue'[o][i] \in U => i = Len(queue'[o])
      <4>1. PICK q : q = queue[o]
        OBVIOUS
      <4>2. RemoveFirst(q, t) \in Seq(Threads)
        BY <2>1, <4>1, RemoveFirstType
      <4>3. \A i \in 1..Len(RemoveFirst(q, t)) :
              RemoveFirst(q, t)[i] \in U => i = Len(RemoveFirst(q, t))
        BY <2>1, <2>3, <4>1, RemoveFirstLast
      <4> QED
        BY <3>2, <4>1, <4>2, <4>3
    <3> QED
      BY <3>1, <3>2
  <2>5. \A i \in 1..Len(queue'[o]) : queue'[o][i] \in Threads
    BY <2>4, ElementOfSeq
  <2>6. \A u \in Threads : wait'[u] # NoWait /\ ~ wait'[u].cookie => u \in U
    BY <1>1, <2>2 DEF Unchecked
  <2> QED
    BY <2>4, <2>5, <2>6 DEF Unchecked
<1>4. UncheckedLast'
  BY <1>2, <1>3 DEF UncheckedLast
<1>5. ASSUME NEW u \in Threads, ApcOwed(u)' PROVE Watched(u)'
  <2>1. CASE ThreadFrame(u) \in ToSet(stack')
    BY <2>1 DEF Watched
  <2>2. CASE ApcOwed(u) /\ ~ AtTop(ThreadFrame(u))
    <3>1. ThreadFrame(u) \in ToSet(stack) \/ Unchecked(u)
      BY <2>2 DEF ApcInv, Watched
    <3>2. ThreadFrame(u) \in ToSet(stack) => ThreadFrame(u) \in ToSet(stack')
      BY <1>0, <2>2 DEF Advances, AtTop
    <3>3. Unchecked(u) => Unchecked(u)'
      BY <1>5 DEF SameWait, Unchecked, ApcOwed
    <3> QED
      BY <3>1, <3>2, <3>3 DEF Watched
  <2> QED
    BY <1>5, <2>1, <2>2
<1> QED
  BY <1>4, <1>5 DEF StackInv, ApcInv

\* A wait that ends or goes on otherwise unchanged owes its thread no other APC.
LEMMA NoNewApc ==
  ASSUME NEW u \in Threads, SameWait(u), ApcOwed(u)',
         system_apc'[u] > 0 => system_apc[u] > 0, user_apc'[u] > 0 => user_apc[u] > 0,
         ~ Suspended(u)' => ~ Suspended(u)
  PROVE  ApcOwed(u)
BY DEF SameWait, ApcOwed

\* end_wait() and wake_thread() end one wait and leave the others.
LEMMA UnlinkSame ==
  ASSUME IInv, NEW t \in Threads, Unlink(t)
  PROVE  /\ wait'[t] = NoWait
         /\ \A u \in Threads : SameWait(u) /\ (u # t => wait'[u] = wait[u])
         /\ \A o \in Objects : queue'[o] = RemoveFirst(queue[o], t)
BY DEF Unlink, SameWait, IInv, WaitInv, WaitTypeOK

\* So does a step that changes no wait.
LEMMA QuietSame ==
  ASSUME UNCHANGED <<wait, queue>>
  PROVE  /\ \A u \in Threads : SameWait(u) /\ wait'[u] = wait[u]
         /\ \A o \in Objects : queue'[o] = queue[o]
BY DEF SameWait

\* check_wait() gives no status only to a wait that nothing should end.
LEMMA NotReadyMeans ==
  ASSUME NEW t, NEW w, w.objs \in ObjectLists, CheckWait(t, w) = NotReady
  PROVE  /\ ~ (w.interruptible /\ system_apc[t] > 0)
         /\ ~ Suspended(t) => /\ ~ ObjectsReady(t, w)
                              /\ ~ (w.alertable /\ user_apc[t] > 0)
                              /\ w.when # "past"
<1> USE DEF NotReady, STATUS_WAIT_0, STATUS_USER_APC, STATUS_KERNEL_APC, STATUS_TIMEOUT
<1>1. ObjectsReady(t, w) /\ w.select # "wait_all" => FirstSignaled(t, w) - 1 # -1
  <2>1. ObjectsReady(t, w) /\ w.select # "wait_all" => FirstSignaled(t, w) \in 1..Len(w.objs)
    BY FirstSignaledIs DEF ObjectsReady
  <2> QED
    BY <2>1, ObjectListMembers
<1> QED
  BY <1>1 DEF CheckWait

\* wake_up() and wake_thread() for a thread that the step wakes
LEMMA WokenKeeps ==
  ASSUME IInv, StackInv, ApcInv, Shape(stack'), Advances, NEW t \in Threads, Unlink(t),
         \A u \in Threads : /\ system_apc'[u] > 0 => system_apc[u] > 0
                            /\ user_apc'[u] > 0 => user_apc[u] > 0
                            /\ suspend'[u] = suspend[u],
         stack # <<>> => Top.thr = t \/ Top.op \notin {"select", "wake_thread"}
  PROVE  StackInv' /\ ApcInv'
<1>1. /\ wait'[t] = NoWait /\ \A u \in Threads : SameWait(u)
      /\ \A o \in Objects : queue'[o] = RemoveFirst(queue[o], t)
  BY UnlinkSame
<1>2. \A u \in Threads, o \in Objects : AtTop(SelectFrame(u, o)) => ~ Unchecked(u)'
  BY <1>1, FrameKinds DEF AtTop, Unchecked
<1>3. ASSUME NEW u \in Threads, ApcOwed(u)' PROVE ApcOwed(u) /\ ~ AtTop(ThreadFrame(u))
  <2>1. u # t
    BY <1>1, <1>3 DEF ApcOwed
  <2>2. ApcOwed(u)
    BY <1>1, <1>3, NoNewApc DEF Suspended
  <2>3. ~ AtTop(ThreadFrame(u))
    BY <2>1, FrameKinds DEF AtTop
  <2> QED
    BY <2>2, <2>3
<1> QED
  BY <1>1, <1>2, <1>3, SameWaitsKeep

\* A step of a handler that changes no wait
LEMMA QuietKeeps ==
  ASSUME IInv, StackInv, ApcInv, Shape(stack'), Advances, UNCHANGED <<wait, queue>>,
         \A u \in Threads : /\ system_apc'[u] > 0 => system_apc[u] > 0
                            /\ user_apc'[u] > 0 => user_apc[u] > 0
                            /\ ~ Suspended(u)' => ~ Suspended(u),
         stack # <<>> => /\ Top.op = "select" => wait[Top.thr] = NoWait
                         /\ Top.op = "wake_thread" => ~ ApcOwed(Top.thr)
  PROVE  StackInv' /\ ApcInv'
<1>1. /\ \A u \in Threads : SameWait(u) /\ wait'[u] = wait[u]
      /\ \A o \in Objects : queue'[o] = queue[o]
  BY QuietSame
<1>2. \A u \in Threads, o \in Objects : AtTop(SelectFrame(u, o)) => ~ Unchecked(u)'
  BY <1>1, FrameKinds DEF AtTop, Unchecked
<1>3. ASSUME NEW u \in Threads, ApcOwed(u)' PROVE ApcOwed(u) /\ ~ AtTop(ThreadFrame(u))
  <2>1. ApcOwed(u)
    BY <1>1, <1>3, NoNewApc
  <2> QED
    BY <2>1, FrameKinds DEF AtTop
<1> QED
  BY <1>1, <1>2, <1>3, SameWaitsKeep

\* Every step below a request
LEMMA ServerStepWatches ==
  ASSUME IInv, StackInv, ApcInv, ServerStep
  PROVE  StackInv' /\ ApcInv'
<1>0. stack # <<>> /\ Shape(stack)
  BY DEF StackInv, ServerStep, WakeUp, WakeUpDone, WakeOneThread, PulseReset, AbandonMutex, AbandonDone,
         ThreadExit, ThreadExitViolent, SelectSelfWoken, SelectSatisfied, SelectPending
<1>1. /\ Top \in Frame /\ Rest \in Seq(Frame) /\ ToSet(stack) = {Top} \union ToSet(Rest)
      /\ Base(Top) => Rest = <<>>
  BY <1>0, TopFacts
<1>2. Shape(stack') /\ Advances
  BY <1>0, WakeUpStack, ServerStack
<1>3. ApcTypeOK /\ ToSet(<<>>) = {}
  BY DEF IInv, ToSet
<1>4. CASE WakeUp
  <2>1. Top.op = "wake" /\ Wakeable(Top.obj) # {} /\ UNCHANGED apcVars
    BY <1>4 DEF WakeUp
  <2>2. Top.obj \in Objects
    BY <1>1, <2>1, FrameFields
  <2>3. PICK t \in Threads : t = NextWoken(Top.obj)
    BY <2>1, <2>2, NextWokenIs
  <2>4. Unlink(t)
    BY <1>4, <2>3 DEF WakeUp, WakeThread
  <2> QED
    BY <1>2, <2>1, <2>4, WokenKeeps DEF apcVars
<1>5. CASE WakeOneThread
  <2>1. Top.op = "wake_thread" /\ UNCHANGED apcVars
    BY <1>5 DEF WakeOneThread
  <2>2. PICK t \in Threads : t = Top.thr
    BY <1>1, <2>1, FrameFields
  <2>3. CASE Unlink(t)
    BY <1>2, <2>1, <2>2, <2>3, WokenKeeps DEF apcVars
  <2>4. CASE UNCHANGED <<wait, queue>> /\ ~ (wait[t] # NoWait /\ CheckWait(t, wait[t]) # NotReady)
    <3>1. ~ ApcOwed(t)
      <4>1. ASSUME ApcOwed(t) PROVE FALSE
        <5>1. wait[t] # NoWait /\ wait[t].objs \in ObjectLists
          BY <4>1 DEF ApcOwed, IInv, WaitInv, WaitTypeOK, Wait
        <5> QED
          BY <2>4, <4>1, <5>1, NotReadyMeans DEF ApcOwed
      <4> QED
        BY <4>1
    <3> QED
      BY <1>2, <2>1, <2>2, <2>4, <3>1, QuietKeeps DEF apcVars, Suspended
  <2> QED
    BY <1>5, <2>2, <2>3, <2>4 DEF WakeOneThread, WakeThread
<1>6. CASE SelectSatisfied
  <2>1. Top.op = "select" /\ UNCHANGED suspend
    BY <1>6 DEF SelectSatisfied
  <2>2. PICK t \in Threads : t = Top.thr
    BY <1>1, <2>1, FrameFields
  <2>3. Unlink(t) /\ \E st : TakeApc(t, st)
    BY <1>6, <2>2 DEF SelectSatisfied
  <2>4. \A u \in Threads : /\ system_apc'[u] > 0 => system_apc[u] > 0
                           /\ user_apc'[u] > 0 => user_apc[u] > 0
    BY <1>3, <2>3, ConstantsAssumption DEF TakeApc, ApcTypeOK
  <2> QED
    BY <1>2, <2>1, <2>2, <2>3, <2>4, WokenKeeps
<1>7. CASE SelectPending
  <2>1. Top.op = "select" /\ UNCHANGED <<apcVars, queue>> /\ stack' = <<>>
    BY <1>1, <1>7 DEF SelectPending, Base
  <2>2. PICK t \in Threads : t = Top.thr
    BY <1>1, <2>1, FrameFields
  <2>3. /\ wait[t] # NoWait /\ CheckWait(t, wait[t]) = NotReady /\ wait[t].objs \in ObjectLists
        /\ wait \in [Threads -> Wait \union {NoWait}]
    BY <1>7, <2>2 DEF SelectPending, IInv, WaitInv, WaitTypeOK, Wait
  <2>4. /\ \A u \in Threads : u # t => wait'[u] = wait[u]
        /\ wait'[t].cookie /\ wait'[t].interruptible = wait[t].interruptible
        /\ wait'[t].alertable = wait[t].alertable
    BY <1>7, <2>2, <2>3 DEF SelectPending, Wait
  <2>5. ToSet(stack) = {Top}
    BY <1>1, <1>3, <2>1 DEF Base
  <2>6. ASSUME NEW u \in Threads PROVE ~ Unchecked(u)'
    <3>1. CASE u = t
      BY <2>4, <3>1 DEF Unchecked
    <3>2. CASE u # t
      <4>1. ~ Unchecked(u)
        BY <2>2, <2>5, <3>2, FrameKinds DEF StackInv, UncheckedLast
      <4> QED
        BY <2>4, <3>2, <4>1 DEF Unchecked
    <3> QED
      BY <3>1, <3>2
  <2>7. ASSUME NEW u \in Threads PROVE ~ ApcOwed(u)'
    <3>1. CASE u = t
      BY <2>1, <2>3, <2>4, <3>1, NotReadyMeans DEF ApcOwed, apcVars, Suspended
    <3>2. CASE u # t
      <4>1. ~ Unchecked(u)
        BY <2>2, <2>5, <3>2, FrameKinds DEF StackInv, UncheckedLast
      <4>2. ThreadFrame(u) \notin ToSet(stack)
        BY <2>1, <2>5, FrameKinds
      <4>3. ~ ApcOwed(u)
        BY <4>1, <4>2 DEF ApcInv, Watched
      <4> QED
        BY <2>1, <2>4, <3>2, <4>3 DEF ApcOwed, apcVars, Suspended
    <3> QED
      BY <3>1, <3>2
  <2>8. \A o \in Objects : \A i \in 1..Len(queue[o]) : queue[o][i] \in Threads
    BY ElementOfSeq DEF IInv, WaitInv, WaitTypeOK
  <2>9. UncheckedLast'
    BY <2>1, <2>6, <2>8 DEF UncheckedLast, Unchecked
  <2> QED
    BY <1>2, <2>7, <2>9 DEF StackInv, ApcInv
<1>8. CASE WakeUpDone \/ PulseReset \/ AbandonMutex \/ AbandonDone \/ SelectSelfWoken
  <2>1. UNCHANGED <<wait, queue>> /\ UNCHANGED apcVars
    BY <1>8 DEF WakeUpDone, PulseReset, AbandonMutex, AbandonDone, SelectSelfWoken
  <2>2. Top.op # "wake_thread" /\ (Top.op = "select" => wait[Top.thr] = NoWait)
    BY <1>8 DEF WakeUpDone, PulseReset, AbandonMutex, AbandonDone, SelectSelfWoken
  <2> QED
    BY <1>2, <2>1, <2>2, QuietKeeps DEF apcVars, Suspended
<1>9. CASE ThreadExit \/ ThreadExitViolent
  <2>1. UNCHANGED <<wait, queue>> /\ UNCHANGED suspend /\ Top.op \in {"exit", "poll"}
    BY <1>9 DEF ThreadExit, ThreadExitViolent
  <2>2. /\ system_apc' = [system_apc EXCEPT ![Top.thr] = 0]
        /\ user_apc' = [user_apc EXCEPT ![Top.thr] = 0]
    BY <1>9 DEF ThreadExit, ThreadExitViolent
  <2>3. \A u \in Threads : /\ system_apc'[u] > 0 => system_apc[u] > 0
                           /\ user_apc'[u] > 0 => user_apc[u] > 0
    BY <1>3, <2>2, ConstantsAssumption DEF ApcTypeOK
  <2> QED
    BY <1>2, <2>1, <2>3, QuietKeeps DEF Suspended
<1> QED
  BY <1>4, <1>5, <1>6, <1>7, <1>8, <1>9 DEF ServerStep

\* Between two requests nothing is still to come.
LEMMA IdleMeans ==
  ASSUME Idle, StackInv, ApcInv
  PROVE  /\ ToSet(stack) = {} /\ Advances
         /\ \A f : ~ AtTop(f)
         /\ \A o : ~ Called(o)
         /\ \A u \in Threads : ~ Unchecked(u) /\ ~ Watched(u) /\ ~ ApcOwed(u)
<1>1. ToSet(stack) = {}
  BY DEF Idle, ToSet
<1>2. \A u \in Threads : ~ Unchecked(u)
  BY <1>1 DEF StackInv, UncheckedLast
<1> QED
  BY <1>1, <1>2 DEF Idle, Advances, AtTop, Called, Watched, ApcInv

\* What a request on an object begins, which changes no wait by itself
LEMMA ObjectRequestBegins ==
  ASSUME IInv, NEW c \in Threads,
         \/ \E e \in AutoEvents \union ManualEvents :
              SetEvent(c, e) \/ ResetEvent(c, e) \/ PulseEvent(c, e)
         \/ \E s \in Semaphores, n \in 0..SemMax : ReleaseSemaphore(c, s, n)
         \/ \E m \in Mutexes : ReleaseMutex(c, m)
         \/ \E r \in Requests : SignalAndWaitFails(c, r)
  PROVE  Shape(stack') /\ Supplied' /\ Calls /\ UNCHANGED <<wait, queue, suspend, system_apc, user_apc>>
<1> USE DEF CanCall, Idle
<1>0. ObjInv /\ AutoEvents \union ManualEvents \subseteq Events /\ Events \subseteq Objects
      /\ Semaphores \subseteq Objects /\ Mutexes \subseteq Objects /\ 0 \in Nat /\ 1 \in Nat
      /\ AutoEvents \intersect ManualEvents = {}
  BY DisjointAssumption DEF IInv, Events, Objects
<1>1. ASSUME NEW e \in AutoEvents \union ManualEvents, SetEvent(c, e) \/ PulseEvent(c, e)
      PROVE  Shape(stack') /\ Supplied' /\ Calls
  <2>1. PICK n \in {0, 1} : n = IF e \in AutoEvents THEN 1 ELSE 0
    OBVIOUS
  <2>2. Shape(stack') /\ Supplied' /\ Called(e)'
    <3>1. CASE SetEvent(c, e)
      <4>1. stack' = <<WakeFrame(e, n)>>
        BY <2>1, <3>1 DEF SetEvent
      <4>2. e \in AutoEvents \union ManualEvents \union Semaphores \union Mutexes /\ n \in Nat
            /\ (n = 0 \/ (e \in AutoEvents /\ n = 1))
        BY <2>1
      <4> QED
        BY <4>1, <4>2, SignalStack
    <3>2. CASE PulseEvent(c, e)
      <4>1. PICK g \in Frame : g = ResetFrame(e)
        BY FramesTyped
      <4>2. g.op = "reset"
        BY <4>1, FrameKinds
      <4>3. stack' = <<WakeFrame(e, n), g>>
        BY <2>1, <3>2, <4>1 DEF PulseEvent
      <4>4. e \in AutoEvents \union ManualEvents \union Semaphores \union Mutexes
            /\ (n = 0 \/ e \in AutoEvents)
        BY <2>1
      <4> QED
        BY <4>2, <4>3, <4>4, SignalSelectStack
    <3> QED
      BY <1>1, <3>1, <3>2
  <2>3. UNCHANGED <<sem, owner, count>> /\ signaled' = [signaled EXCEPT ![e] = TRUE]
    BY <1>1 DEF SetEvent, PulseEvent
  <2> QED
    BY <1>0, <2>2, <2>3, OneSignaled
<1>2. ASSUME NEW e \in AutoEvents \union ManualEvents, ResetEvent(c, e)
      PROVE  Shape(stack') /\ Supplied' /\ Calls
  <2>1. stack' = <<>> /\ UNCHANGED <<sem, owner, count>> /\ signaled' = [signaled EXCEPT ![e] = FALSE]
    BY <1>2 DEF ResetEvent
  <2> QED
    BY <1>0, <2>1, BeginNone, NoneSignaled
<1>3. ASSUME NEW s \in Semaphores, NEW n \in 0..SemMax, ReleaseSemaphore(c, s, n)
      PROVE  Shape(stack') /\ Supplied' /\ Calls
  <2>1. /\ UNCHANGED <<signaled, owner, count>> /\ sem' = [sem EXCEPT ![s] = sem[s] + n]
        /\ sem[s] # 0 => stack' = <<>>
        /\ sem[s] = 0 => stack' = <<WakeFrame(s, n)>>
        /\ sem \in [Semaphores -> Nat] /\ n \in Nat
    BY <1>0, <1>3, ConstantsAssumption DEF ReleaseSemaphore, DoReleaseSemaphore, ObjInv, ObjTypeOK
  <2>2. CASE sem[s] = 0
    <3>1. stack' = <<WakeFrame(s, n)>> /\ sem'[s] <= n
      BY <2>1, <2>2
    <3>2. Shape(stack') /\ Supplied' /\ Called(s)'
      BY <2>1, <3>1, SignalStack
    <3> QED
      BY <1>0, <2>1, <3>2, OneSignaled
  <2>3. CASE sem[s] # 0
    <3>1. ASSUME NEW o \in Objects, NEW u \in Threads, Signaled(o, u)' PROVE Signaled(o, u)
      <4>1. o \in Semaphores => (sem'[o] > 0 => sem[o] > 0)
        BY <2>1, <2>3
      <4> QED
        BY <2>1, <3>1, <4>1 DEF Signaled, EventSignaled, SemaphoreSignaled, MutexSignaled
    <3> QED
      BY <2>1, <2>3, <3>1, BeginNone DEF Calls
  <2> QED
    BY <2>2, <2>3
<1>4. ASSUME NEW m \in Mutexes, ReleaseMutex(c, m)
      PROVE  Shape(stack') /\ Supplied' /\ Calls
  <2>1. /\ DoRelease(c, m, <<>>) /\ UNCHANGED <<signaled, sem>> /\ wait'[c] = NoWait
        /\ count[m] = 1 => stack' = <<WakeFrame(m, 0)>>
        /\ count[m] # 1 => stack' = <<>>
    BY <1>4 DEF ReleaseMutex, DoRelease
  <2>2. Shape(stack') /\ Supplied' /\ (count[m] = 1 => Called(m)')
    <3>1. PICK n \in Nat : n = 0
      OBVIOUS
    <3>4. m \in AutoEvents \union ManualEvents \union Semaphores \union Mutexes
          /\ (n = 0 \/ (m \in AutoEvents /\ n = 1))
      BY <3>1
    <3>2. CASE count[m] = 1
      BY <2>1, <3>1, <3>2, <3>4, SignalStack
    <3>3. CASE count[m] # 1
      BY <2>1, <3>3, BeginNone
    <3> QED
      BY <3>2, <3>3
  <2> QED
    BY <1>0, <2>1, <2>2, ReleaseSignals
<1>5. ASSUME NEW r \in Requests, SignalAndWaitFails(c, r)
      PROVE  Shape(stack') /\ Supplied' /\ Calls
  BY <1>0, <1>5, BeginNone, NoneSignaled DEF SignalAndWaitFails, objVars
<1>6. UNCHANGED <<wait, queue, suspend, system_apc, user_apc>>
  BY DEF SetEvent, ResetEvent, PulseEvent, ReleaseSemaphore, ReleaseMutex, SignalAndWaitFails, apcVars
<1> QED
  BY <1>1, <1>2, <1>3, <1>4, <1>5, <1>6

\* What a request on a thread begins: a wake_thread(), if it may end its wait
LEMMA ThreadRequestBegins ==
  ASSUME IInv, NEW c \in Threads, NEW t \in Threads,
         SuspendThread(c, t) \/ ResumeThread(c, t) \/ QueueUserApc(c, t) \/ QueueSystemApc(c, t)
  PROVE  /\ Shape(stack') /\ Supplied' /\ Calls /\ UNCHANGED <<wait, queue, objVars>>
         /\ \A u \in Threads : \/ ThreadFrame(u) \in ToSet(stack')
                               \/ /\ system_apc'[u] > 0 => system_apc[u] > 0
                                  /\ user_apc'[u] > 0 => user_apc[u] > 0
                                  /\ ~ Suspended(u)' => ~ Suspended(u)
<1>0. stack = <<>> /\ ApcTypeOK /\ ObjInv
  BY DEF CanCall, Idle, SuspendThread, ResumeThread, QueueUserApc, QueueSystemApc, IInv
<1>1. UNCHANGED <<wait, queue>> /\ UNCHANGED objVars
  BY DEF SuspendThread, ResumeThread, QueueUserApc, QueueSystemApc
<1>2. Calls
  BY <1>0, <1>1, NoneSignaled DEF objVars
<1>3. PICK f \in Frame : f = ThreadFrame(t)
  BY FramesTyped
<1>4. ~ Limited(f)
  BY <1>3, FrameKinds DEF Limited
<1>5. stack' = <<f>> \/ stack' = <<>>
  BY <1>0, <1>3 DEF SuspendThread, ResumeThread, QueueUserApc, QueueSystemApc
<1>6. Shape(stack') /\ Supplied' /\ (stack' = <<f>> => f \in ToSet(stack'))
  BY <1>4, <1>5, BeginOne, BeginNone
<1>7. ASSUME NEW u \in Threads, u # t \/ stack' # <<f>>
      PROVE  /\ system_apc'[u] > 0 => system_apc[u] > 0
             /\ user_apc'[u] > 0 => user_apc[u] > 0
             /\ suspend'[u] = 0 => suspend[u] = 0
  <2>1. /\ system_apc[u] \in Nat /\ user_apc[u] \in Nat /\ suspend[u] \in Nat
        /\ system_apc \in [Threads -> Nat] /\ user_apc \in [Threads -> Nat] /\ suspend \in [Threads -> Nat]
    BY <1>0, ConstantsAssumption DEF ApcTypeOK
  <2>2. CASE SuspendThread(c, t)
    BY <2>1, <2>2 DEF SuspendThread
  <2>3. CASE ResumeThread(c, t)
    BY <1>3, <1>7, <2>1, <2>3 DEF ResumeThread
  <2>4. CASE QueueUserApc(c, t)
    BY <1>3, <1>7, <2>1, <2>4 DEF QueueUserApc
  <2>5. CASE QueueSystemApc(c, t)
    BY <1>3, <1>7, <2>1, <2>5 DEF QueueSystemApc
  <2> QED
    BY <2>2, <2>3, <2>4, <2>5
<1>8. \A u \in Threads : suspend'[u] \in Nat /\ suspend[u] \in Nat
  <2>1. suspend \in [Threads -> Nat]
    BY <1>0, ConstantsAssumption DEF ApcTypeOK
  <2>2. suspend' = suspend \/ \E n \in Nat : suspend' = [suspend EXCEPT ![t] = n]
    BY <2>1 DEF SuspendThread, ResumeThread, QueueUserApc, QueueSystemApc
  <2> QED
    BY <2>1, <2>2
<1>9. \A u \in Threads : \/ ThreadFrame(u) \in ToSet(stack')
                         \/ /\ system_apc'[u] > 0 => system_apc[u] > 0
                            /\ user_apc'[u] > 0 => user_apc[u] > 0
                            /\ ~ Suspended(u)' => ~ Suspended(u)
  BY <1>3, <1>6, <1>7, <1>8 DEF Suspended
<1> QED
  BY <1>1, <1>2, <1>6, <1>9

\* What begins by itself and ends no wait
LEMMA EnvironmentBegins ==
  ASSUME IInv, NEW t \in Threads,
         ClientDies(t) \/ CheckTerminated(t) \/ DeadlinePasses(t) \/ (ThreadTimeout(t) /\ Suspended(t))
  PROVE  /\ Shape(stack') /\ Supplied' /\ Calls /\ UNCHANGED <<queue, suspend, system_apc, user_apc>>
         /\ \A u \in Threads : SameWait(u) /\ (wait'[u] = NoWait => wait[u] = NoWait)
<1>0. ObjInv /\ stack = <<>> /\ Threads \subseteq Objects /\ Threads \subseteq Events
      /\ wait \in [Threads -> Wait \union {NoWait}] /\ NoWait \notin Wait
  BY ConstantsAssumption DEF IInv, WaitInv, WaitTypeOK, Idle, ClientDies, CheckTerminated, DeadlinePasses,
     ThreadTimeout, Objects, Events
<1>1. UNCHANGED <<queue, suspend, system_apc, user_apc>>
  BY DEF ClientDies, CheckTerminated, DeadlinePasses, ThreadTimeout, apcVars
<1>2. CASE CheckTerminated(t)
  <2>1. PICK f \in Frame : f = WakeFrame(t, 0)
    BY <1>0, FramesTyped
  <2>2. f.op = "wake" /\ f.obj = t /\ ~ Limited(f)
    BY <2>1, FrameKinds DEF Limited
  <2>3. Shape(stack') /\ Supplied' /\ ToSet(stack') = {f}
    BY <1>2, <2>1, <2>2, BeginOne DEF CheckTerminated
  <2>4. Called(t)'
    BY <2>2, <2>3 DEF Called
  <2>5. UNCHANGED <<sem, owner, count>> /\ signaled' = [signaled EXCEPT ![t] = TRUE] /\ UNCHANGED wait
    BY <1>2 DEF CheckTerminated
  <2>6. Calls
    BY <1>0, <2>4, <2>5, OneSignaled
  <2> QED
    BY <1>1, <2>3, <2>5, <2>6 DEF SameWait
<1>3. CASE ~ CheckTerminated(t)
  <2>1. stack' = <<>> /\ UNCHANGED objVars
    BY <1>0, <1>3 DEF ClientDies, DeadlinePasses, ThreadTimeout
  <2>2. Shape(stack') /\ Supplied' /\ Calls
    BY <1>0, <2>1, BeginNone, NoneSignaled DEF objVars
  <2>3. ASSUME NEW u \in Threads PROVE SameWait(u) /\ (wait'[u] = NoWait => wait[u] = NoWait)
    <3>1. CASE wait'[u] = wait[u]
      BY <3>1 DEF SameWait
    <3>2. CASE u = t /\ (DeadlinePasses(t) \/ (ThreadTimeout(t) /\ Suspended(t)))
      <4>1. wait[u] \in Wait
        BY <1>0, <3>2 DEF DeadlinePasses, ThreadTimeout
      <4>2. \/ wait'[u] = [wait[u] EXCEPT !.when = "past"]
            \/ wait'[u] = [wait[u] EXCEPT !.user = FALSE]
        BY <1>0, <3>2 DEF DeadlinePasses, ThreadTimeout
      <4>3. wait'[u] \in Wait
        BY <4>1, <4>2 DEF Wait, Deadline
      <4> QED
        BY <1>0, <4>1, <4>2, <4>3 DEF SameWait, Wait
    <3> QED
      BY <1>0, <1>3, <3>1, <3>2 DEF ClientDies, DeadlinePasses, ThreadTimeout
  <2> QED
    BY <1>1, <2>2, <2>3
<1> QED
  BY <1>2, <1>3

\* What starts between two requests and starts no wait
LEMMA BegunKeeps ==
  ASSUME IInv, StackInv, ApcInv, Idle, Shape(stack'), \A u \in Threads : SameWait(u), UNCHANGED queue,
         \A u \in Threads : \/ ThreadFrame(u) \in ToSet(stack')
                            \/ /\ system_apc'[u] > 0 => system_apc[u] > 0
                               /\ user_apc'[u] > 0 => user_apc[u] > 0
                               /\ ~ Suspended(u)' => ~ Suspended(u)
  PROVE  StackInv' /\ ApcInv'
<1>1. Advances /\ \A f : ~ AtTop(f)
  BY IdleMeans
<1>2. ASSUME NEW u \in Threads, ApcOwed(u)' PROVE ApcOwed(u) \/ ThreadFrame(u) \in ToSet(stack')
  BY <1>2, NoNewApc
<1> QED
  BY <1>1, <1>2, SameWaitsKeep

\* wait_on(): one more wait
LEMMA LinkSame ==
  ASSUME IInv, NEW c \in Threads, NEW w, Link(c, w)
  PROVE  wait'[c] = w /\ \A u \in Threads : u # c => wait'[u] = wait[u]
BY DEF Link, IInv, WaitInv, WaitTypeOK

\* select_on() that has to wait
LEMMA SelectLinks ==
  ASSUME IInv, StackInv, ApcInv, NEW c \in Threads, NEW r \in Requests, Select(c, r),
         CheckWait(c, r) = NotReady
  PROVE  StackInv' /\ ApcInv'
<1>1. /\ Idle /\ stack' = <<>> /\ Link(c, NewWait(r, TRUE)) /\ UNCHANGED apcVars
      /\ r.objs \in ObjectLists
  BY RequestsAssumption DEF Select, CanCall, Idle, apcVars, Request
<1>2. wait'[c] = NewWait(r, TRUE) /\ \A u \in Threads : u # c => wait'[u] = wait[u]
  BY <1>1, LinkSame
<1>3. \A u \in Threads : ~ Unchecked(u) /\ ~ ApcOwed(u)
  BY <1>1, IdleMeans
<1>4. \A u \in Threads : ~ Unchecked(u)'
  BY <1>2, <1>3 DEF Unchecked, NewWait
<1>5. ASSUME NEW u \in Threads PROVE ~ ApcOwed(u)'
  <2>1. CASE u = c
    <3>1. /\ ~ (r.interruptible /\ system_apc[c] > 0)
          /\ ~ Suspended(c) => ~ (r.alertable /\ user_apc[c] > 0)
      BY <1>1, NotReadyMeans
    <3> QED
      BY <1>1, <1>2, <2>1, <3>1 DEF ApcOwed, apcVars, Suspended, NewWait
  <2>2. CASE u # c
    BY <1>1, <1>2, <1>3, <2>2 DEF ApcOwed, apcVars, Suspended
  <2> QED
    BY <2>1, <2>2
<1>6. \A o \in Objects : \A i \in 1..Len(queue'[o]) : queue'[o][i] \in Threads
  <2>1. WaitTypeOK'
    BY RequestsAssumption, SelectKeeps DEF IInv, WaitInv
  <2> QED
    BY <2>1, ElementOfSeq DEF WaitTypeOK
<1>7. UncheckedLast'
  BY <1>4, <1>6 DEF UncheckedLast, Unchecked
<1> QED
  BY <1>1, <1>5, <1>7, BeginNone DEF StackInv, ApcInv

\* What SELECT_SIGNAL_AND_WAIT begins: its signal_object() on top of the rest of select_on()
LEMMA SignalAndWaitBegins ==
  ASSUME IInv, NEW c \in Threads, NEW r \in Requests, SignalAndWait(c, r), r \in Request
  PROVE  /\ Shape(stack') /\ Supplied' /\ Calls
         /\ SelectFrame(c, r.objs[1]) \in ToSet(stack')
<1> USE DEF CanCall, Idle
<1>0. /\ ObjInv /\ stack = <<>> /\ Link(c, NewWait(r, FALSE)) /\ UNCHANGED apcVars
      /\ r.objs \in ObjectLists /\ Len(r.objs) = 1
      /\ r.signal \in AutoEvents \union ManualEvents \union Mutexes \union Semaphores
      /\ AutoEvents \union ManualEvents \subseteq Events /\ Events \subseteq Objects
      /\ Semaphores \subseteq Objects /\ Mutexes \subseteq Objects
      /\ AutoEvents \intersect ManualEvents = {}
  BY DisjointAssumption DEF SignalAndWait, Request, IInv, Events, Objects
<1>1. PICK g \in Frame : g = SelectFrame(c, r.objs[1])
  <2>1. r.objs[1] \in Objects
    BY <1>0, ObjectListMembers
  <2> QED
    BY <2>1, FramesTyped
<1>2. g.op = "select" /\ ~ Limited(g)
  BY <1>1, FrameKinds DEF Limited
<1>3. Unchecked(c)'
  <2>1. wait'[c] = NewWait(r, FALSE)
    BY <1>0, LinkSame
  <2>2. WaitTypeOK'
    BY SignalAndWaitKeeps DEF IInv, WaitInv
  <2>3. NewWait(r, FALSE) \in Wait
    BY NewWaitTyped
  <2>4. NewWait(r, FALSE) # NoWait
    BY <2>3, ConstantsAssumption
  <2> QED
    BY <2>1, <2>4 DEF Unchecked, NewWait
<1>4. CASE r.signal \in AutoEvents \union ManualEvents
  <2>1. PICK o \in AutoEvents \union ManualEvents : o = r.signal
    BY <1>4
  <2>2. PICK n \in {0, 1} : n = IF o \in AutoEvents THEN 1 ELSE 0
    OBVIOUS
  <2>3. o \notin Semaphores /\ o \notin Mutexes
    BY DisjointAssumption DEF Events
  <2>4. /\ signaled' = [signaled EXCEPT ![o] = TRUE] /\ UNCHANGED <<sem, owner, count>>
        /\ stack' = <<WakeFrame(o, n), g>>
    BY <1>1, <2>1, <2>2, <2>3 DEF SignalAndWait
  <2>5. o \in AutoEvents \union ManualEvents \union Semaphores \union Mutexes
        /\ (n = 0 \/ o \in AutoEvents)
    BY <2>2
  <2>6. Shape(stack') /\ Supplied' /\ Called(o)' /\ g \in ToSet(stack')
    BY <1>2, <2>4, <2>5, SignalSelectStack
  <2>7. Calls
    BY <1>0, <2>4, <2>6, OneSignaled
  <2> QED
    BY <1>1, <2>6, <2>7
<1>5. CASE r.signal \in Semaphores
  <2>1. PICK o \in Semaphores : o = r.signal
    BY <1>5
  <2>3. o \notin AutoEvents \union ManualEvents /\ o \notin Mutexes
    BY DisjointAssumption DEF Events
  <2>4. /\ sem' = [sem EXCEPT ![o] = sem[o] + 1] /\ UNCHANGED <<signaled, owner, count>>
        /\ sem[o] # 0 => stack' = <<g>>
        /\ sem[o] = 0 => stack' = <<WakeFrame(o, 1), g>>
        /\ sem \in [Semaphores -> Nat]
    BY <1>0, <1>1, <2>1, <2>3, ConstantsAssumption DEF SignalAndWait, DoReleaseSemaphore, ObjInv, ObjTypeOK
  <2>5. CASE sem[o] = 0
    <3>1. PICK n \in {0, 1} : n = 1
      OBVIOUS
    <3>2. o \in AutoEvents \union ManualEvents \union Semaphores \union Mutexes
          /\ (n = 0 \/ o \in AutoEvents \/ (o \in Semaphores /\ sem'[o] <= n))
      BY <2>4, <2>5, <3>1
    <3>3. stack' = <<WakeFrame(o, n), g>>
      BY <2>4, <2>5, <3>1
    <3>4. Shape(stack') /\ Supplied' /\ Called(o)' /\ g \in ToSet(stack')
      BY <1>2, <3>2, <3>3, SignalSelectStack
    <3>5. Calls
      BY <1>0, <2>4, <3>4, OneSignaled
    <3> QED
      BY <1>1, <3>4, <3>5
  <2>6. CASE sem[o] # 0
    <3>1. Shape(stack') /\ Supplied' /\ g \in ToSet(stack')
      BY <1>2, <2>4, <2>6, BeginOne
    <3>2. ASSUME NEW p \in Objects, NEW u \in Threads, Signaled(p, u)' PROVE Signaled(p, u)
      <4>1. p \in Semaphores => (sem'[p] > 0 => sem[p] > 0)
        BY <2>4, <2>6
      <4> QED
        BY <2>4, <3>2, <4>1 DEF Signaled, EventSignaled, SemaphoreSignaled, MutexSignaled
    <3> QED
      BY <1>1, <3>1, <3>2 DEF Calls
  <2> QED
    BY <2>5, <2>6
<1>6. CASE r.signal \in Mutexes
  <2>1. PICK o \in Mutexes : o = r.signal
    BY <1>6
  <2>3. o \notin AutoEvents \union ManualEvents /\ o \notin Semaphores
    BY DisjointAssumption DEF Events
  <2>4. /\ DoRelease(c, o, <<g>>) /\ UNCHANGED <<signaled, sem>>
        /\ count[o] # 1 => stack' = <<g>>
        /\ count[o] = 1 => stack' = <<WakeFrame(o, 0), g>>
    BY <1>1, <2>1, <2>3 DEF SignalAndWait, DoRelease
  <2>5. Shape(stack') /\ Supplied' /\ g \in ToSet(stack') /\ (count[o] = 1 => Called(o)')
    <3>1. PICK n \in {0, 1} : n = 0
      OBVIOUS
    <3>2. o \in AutoEvents \union ManualEvents \union Semaphores \union Mutexes
      OBVIOUS
    <3>3. CASE count[o] = 1
      BY <1>2, <2>4, <3>1, <3>2, <3>3, SignalSelectStack
    <3>4. CASE count[o] # 1
      BY <1>2, <2>4, <3>4, BeginOne
    <3> QED
      BY <3>3, <3>4
  <2>6. Calls
    BY <1>0, <1>3, <2>4, <2>5, ReleaseSignals
  <2> QED
    BY <1>1, <2>5, <2>6
<1> QED
  BY <1>0, <1>4, <1>5, <1>6

LEMMA SignalAndWaitWatches ==
  ASSUME IInv, StackInv, ApcInv, NEW c \in Threads, NEW r \in Requests, SignalAndWait(c, r)
  PROVE  StackInv' /\ ApcInv'
<1>0. /\ Idle /\ Link(c, NewWait(r, FALSE)) /\ UNCHANGED apcVars /\ wait[c] = NoWait
      /\ r \in Request /\ r.select = "signal_and_wait"
  BY RequestsAssumption DEF SignalAndWait, CanCall
<1>1. r.objs \in ObjectLists /\ Len(r.objs) = 1
  BY <1>0 DEF Request
<1>2. wait'[c] = NewWait(r, FALSE) /\ \A u \in Threads : u # c => wait'[u] = wait[u]
  BY <1>0, LinkSame
<1>3. \A u \in Threads : ~ Unchecked(u) /\ ~ ApcOwed(u)
  BY <1>0, IdleMeans
<1>4. Shape(stack') /\ SelectFrame(c, r.objs[1]) \in ToSet(stack')
  BY <1>0, SignalAndWaitBegins
<1>5. wait'[c] # NoWait
  BY <1>0, <1>2, NewWaitTyped, ConstantsAssumption
<1>6. Unchecked(c)' /\ \A u \in Threads : u # c => ~ Unchecked(u)'
  BY <1>2, <1>3, <1>5 DEF Unchecked, NewWait
<1>7. ASSUME NEW u \in Threads, ApcOwed(u)' PROVE Watched(u)'
  <2>1. CASE u = c
    BY <1>6, <2>1 DEF Watched
  <2>2. CASE u # c
    BY <1>0, <1>2, <1>3, <1>7, <2>2 DEF ApcOwed, apcVars, Suspended
  <2> QED
    BY <2>1, <2>2
<1>8. ASSUME NEW o \in Objects, NEW i \in 1..Len(queue'[o]), Unchecked(queue[o][i])'
      PROVE  i = Len(queue'[o])
  <2>0. IInv'
    BY <1>0, SignalAndWaitKeeps
  <2>1. WaitTypeOK' /\ queue[o] \in Seq(Threads)
    BY <2>0 DEF IInv, WaitInv, WaitTypeOK
  <2>2. queue'[o][i] = c
    <3>1. queue'[o][i] \in Threads
      BY <2>1, <1>8, ElementOfSeq DEF WaitTypeOK
    <3> QED
      BY <1>6, <1>8, <3>1 DEF Unchecked
  <2>3. \A j \in 1..Len(queue[o]) : queue[o][j] # c
    <3>1. c \notin ToSet(queue[o])
      BY <1>0 DEF IInv, WaitInv, QueueConsistent
    <3> QED
      BY <3>1 DEF ToSet
  <2>4. queue'[o] = queue[o] \/ queue'[o] = Append(queue[o], c)
    BY <1>0 DEF Link
  <2> QED
    BY <2>1, <2>2, <2>3, <2>4
<1>9. UncheckedLast'
  BY <1>0, <1>1, <1>2, <1>4, <1>6, <1>8 DEF UncheckedLast, NewWait
<1> QED
  BY <1>4, <1>7, <1>9 DEF StackInv, ApcInv

\* kill_thread() and thread_timeout() end a wait.
LEMMA EndingWatches ==
  ASSUME IInv, StackInv, ApcInv, NEW t \in Threads,
         \/ Idle /\ \E violent : KillThread(t, violent)
         \/ ThreadTimeout(t) /\ ~ Suspended(t)
  PROVE  StackInv' /\ ApcInv'
<1>1. Idle /\ Unlink(t) /\ UNCHANGED apcVars
  BY DEF KillThread, ThreadTimeout, WakeThread
<1>2. Shape(stack')
  <2>1. CASE Idle /\ \E violent : KillThread(t, violent)
    BY <2>1, KillStack
  <2>2. CASE ThreadTimeout(t) /\ ~ Suspended(t)
    <3>1. CASE stack' = <<>>
      BY <3>1, BeginNone
    <3>2. CASE stack' # <<>>
      <4>1. stack' = <<AbandonFrame(t), ExitFrame(t)>>
        BY <2>2, <3>2 DEF ThreadTimeout, WakeThread
      <4>2. PICK f \in Frame, g \in Frame : f = AbandonFrame(t) /\ g = ExitFrame(t)
        BY FramesTyped
      <4>3. f.op = "abandon" /\ ~ Limited(f) /\ ~ Limited(g) /\ g.op = "exit"
        BY <4>2, FrameKinds DEF Limited
      <4> QED
        BY <4>1, <4>2, <4>3, BeginStack
    <3> QED
      BY <3>1, <3>2
  <2> QED
    BY <2>1, <2>2
<1> QED
  BY <1>1, <1>2, IdleMeans, WokenKeeps DEF apcVars, Idle

\* Every request
LEMMA ClientRequestWatches ==
  ASSUME IInv, StackInv, ApcInv, ClientRequest
  PROVE  StackInv' /\ ApcInv'
<1>1. PICK c \in Threads :
        \/ \/ \E e \in AutoEvents \union ManualEvents :
                SetEvent(c, e) \/ ResetEvent(c, e) \/ PulseEvent(c, e)
           \/ \E s \in Semaphores, n \in 0..SemMax : ReleaseSemaphore(c, s, n)
           \/ \E m \in Mutexes : ReleaseMutex(c, m)
           \/ \E r \in Requests : SignalAndWaitFails(c, r)
        \/ \E r \in Requests : Select(c, r) \/ SignalAndWait(c, r)
        \/ \E t \in Threads : SuspendThread(c, t) \/ ResumeThread(c, t)
                              \/ QueueUserApc(c, t) \/ QueueSystemApc(c, t)
        \/ \E t \in Threads : TerminateThread(c, t)
  BY DEF ClientRequest
<1>2. CASE \/ \E e \in AutoEvents \union ManualEvents :
                SetEvent(c, e) \/ ResetEvent(c, e) \/ PulseEvent(c, e)
           \/ \E s \in Semaphores, n \in 0..SemMax : ReleaseSemaphore(c, s, n)
           \/ \E m \in Mutexes : ReleaseMutex(c, m)
           \/ \E r \in Requests : SignalAndWaitFails(c, r)
  <2>1. Shape(stack') /\ UNCHANGED <<wait, queue, suspend, system_apc, user_apc>>
    BY <1>2, ObjectRequestBegins
  <2>2. Idle
    BY <1>2 DEF SetEvent, ResetEvent, PulseEvent, ReleaseSemaphore, ReleaseMutex, SignalAndWaitFails, CanCall
  <2> QED
    BY <2>1, <2>2, QuietSame, BegunKeeps DEF Suspended
<1>3. ASSUME NEW r \in Requests, Select(c, r) \/ SignalAndWait(c, r)
      PROVE  StackInv' /\ ApcInv'
  <2>1. CASE Select(c, r) /\ CheckWait(c, r) # NotReady
    <3>1. /\ Idle /\ stack' = <<>> /\ UNCHANGED suspend /\ TakeApc(c, CheckWait(c, r))
          /\ UNCHANGED <<wait, queue>> /\ ApcTypeOK
      BY <2>1 DEF Select, CanCall, Idle, IInv
    <3>2. \A u \in Threads : /\ system_apc'[u] > 0 => system_apc[u] > 0
                             /\ user_apc'[u] > 0 => user_apc[u] > 0
      BY <3>1, ConstantsAssumption DEF TakeApc, ApcTypeOK
    <3> QED
      BY <3>1, <3>2, QuietSame, BeginNone, BegunKeeps DEF Suspended
  <2> QED
    BY <1>3, <2>1, SelectLinks, SignalAndWaitWatches
<1>4. ASSUME NEW t \in Threads,
             SuspendThread(c, t) \/ ResumeThread(c, t) \/ QueueUserApc(c, t) \/ QueueSystemApc(c, t)
      PROVE  StackInv' /\ ApcInv'
  <2>1. Idle
    BY <1>4 DEF SuspendThread, ResumeThread, QueueUserApc, QueueSystemApc, CanCall
  <2> QED
    BY <1>4, <2>1, ThreadRequestBegins, QuietSame, BegunKeeps
<1>5. ASSUME NEW t \in Threads, TerminateThread(c, t) PROVE StackInv' /\ ApcInv'
  BY <1>5, EndingWatches DEF TerminateThread, CanCall
<1> QED
  BY <1>1, <1>2, <1>3, <1>4, <1>5

\* What happens by itself
LEMMA EnvironmentWatches ==
  ASSUME IInv, StackInv, ApcInv, Environment
  PROVE  StackInv' /\ ApcInv'
<1>1. PICK t \in Threads : \/ ClientDies(t) \/ Hangup(t) \/ CheckTerminated(t)
                           \/ DeadlinePasses(t) \/ ThreadTimeout(t)
  BY DEF Environment
<1>2. CASE Hangup(t) \/ (ThreadTimeout(t) /\ ~ Suspended(t))
  BY <1>2, EndingWatches DEF Hangup
<1>3. CASE ClientDies(t) \/ CheckTerminated(t) \/ DeadlinePasses(t) \/ (ThreadTimeout(t) /\ Suspended(t))
  <2>1. Idle
    BY <1>3 DEF ClientDies, CheckTerminated, DeadlinePasses, ThreadTimeout
  <2> QED
    BY <1>3, <2>1, EnvironmentBegins, BegunKeeps DEF Suspended
<1> QED
  BY <1>1, <1>2, <1>3

\* The steps that change nothing
LEMMA StutterWatches ==
  ASSUME StackInv, ApcInv, UNCHANGED vars
  PROVE  StackInv' /\ ApcInv'
<1>1. UNCHANGED <<stack, wait, queue, suspend, system_apc, user_apc>>
  BY DEF vars, apcVars
<1>2. UncheckedLast'
  BY <1>1 DEF StackInv, UncheckedLast, Unchecked
<1>3. ApcInv'
  BY <1>1 DEF ApcInv, ApcOwed, Suspended, Watched, Unchecked
<1> QED
  BY <1>1, <1>2, <1>3 DEF StackInv

LEMMA InitWatches == Init => StackInv /\ ApcInv
<1> SUFFICES ASSUME Init PROVE StackInv /\ ApcInv
  OBVIOUS
<1>1. /\ stack = <<>> /\ \A u \in Threads : wait[u] = NoWait
      /\ \A o \in Objects : queue[o] = <<>>
  BY DEF Init
<1>2. Shape(stack)
  BY <1>1 DEF Shape
<1>3. UncheckedLast
  BY <1>1 DEF UncheckedLast, Unchecked
<1> QED
  BY <1>1, <1>2, <1>3 DEF StackInv, ApcInv, ApcOwed

(***************************************************************************)
(* The server's call stack keeps its shape through every nesting of wakes, *)
(* deaths and abandoned mutexes (wake_up, kill_thread, abandon_mutexes,    *)
(* select_on), and a queued APC that should end a wait is never left to    *)
(* nobody: wake_thread() for that thread or the check_wait() of its        *)
(* select_on() is still to come (queue_apc, resume_thread).                *)
(***************************************************************************)
THEOREM WatchInvariant == Spec => [](StackInv /\ ApcInv)
<1>1. IInv /\ (StackInv /\ ApcInv) /\ [Next]_vars => (StackInv /\ ApcInv)'
  BY ServerStepWatches, ClientRequestWatches, EnvironmentWatches, StutterWatches DEF Next
<1> QED
  BY <1>1, InitWatches, WaitCoreInvariant, PTL DEF Spec

\* Between two requests no thread sleeps in a wait that a queued APC should end, whatever the
\* order in which it was queued, the thread was suspended and resumed, and others died
\* (queue_apc, resume_thread, check_wait).
THEOREM ApcsEndWaits == Spec => []NoMissedApc
<1>1. StackInv /\ ApcInv => NoMissedApc
  <2>1. ASSUME StackInv, ApcInv, Idle PROVE \A u \in Threads : ~ ApcOwed(u)
    BY <2>1, IdleMeans
  <2> QED
    BY <2>1 DEF NoMissedApc, ApcOwed
<1> QED
  BY <1>1, WatchInvariant, PTL

-------------------------------------------------------------------------------
(* Lost wakes.                                                             *)

\* satisfied() signals nothing to another thread, and no count rises.
LEMMA GrantCalls ==
  ASSUME IInv, NEW t \in Threads, NEW S, Grant(t, S), wait'[t] = NoWait
  PROVE  /\ Calls
         /\ \A o \in Objects, u \in Threads : u # t /\ Signaled(o, u)' => Signaled(o, u)
         /\ \A s \in Semaphores : sem'[s] <= sem[s]
<1>0. ObjInv
  BY DEF IInv
<1>1. \A s \in Semaphores : sem'[s] <= sem[s] /\ (sem'[s] > 0 => sem[s] > 0)
  <2>1. \A s \in Semaphores : sem[s] \in Nat
    BY <1>0, ConstantsAssumption DEF ObjInv, ObjTypeOK
  <2> QED
    BY <2>1 DEF Grant
<1>2. \A e \in Events : signaled'[e] => signaled[e]
  BY DEF Grant
<1>3. ASSUME NEW m \in Mutexes, NEW u \in Threads, u # t, count'[m] = 0 \/ owner'[m] = u
      PROVE  count[m] = 0 \/ owner[m] = u
  <2>1. count[m] \in Nat
    BY <1>0, ConstantsAssumption DEF ObjInv, ObjTypeOK
  <2>2. m \in S => count'[m] = count[m] + 1 /\ owner'[m] = t
    BY DEF Grant
  <2>3. m \notin S => count'[m] = count[m] /\ owner'[m] = owner[m]
    BY DEF Grant
  <2> QED
    BY <1>3, <2>1, <2>2, <2>3
<1>4. \A o \in Objects, u \in Threads : u # t /\ Signaled(o, u)' => Signaled(o, u)
  BY <1>1, <1>2, <1>3 DEF Signaled, EventSignaled, SemaphoreSignaled, MutexSignaled
<1> QED
  BY <1>1, <1>4 DEF Calls

\* A wait that a step leaves, and whose objects it does not signal, does not become ready.
LEMMA NotMoreReady ==
  ASSUME IInv, NEW u \in Threads, SameWait(u), wait'[u] # NoWait, ObjectsReady(u, wait[u])',
         \A o \in Objects : Signaled(o, u)' => Signaled(o, u)
  PROVE  ObjectsReady(u, wait[u])
<1>1. wait[u] # NoWait /\ wait'[u].select = wait[u].select /\ wait'[u].objs = wait[u].objs
  BY DEF SameWait
<1>2. wait[u].objs \in ObjectLists
  BY <1>1 DEF IInv, WaitInv, WaitTypeOK, Wait
<1>3. \A i \in 1..Len(wait[u].objs) : wait[u].objs[i] \in Objects
  BY <1>2, ObjectListMembers
<1>4. \A i \in 1..Len(wait[u].objs) : Signaled(wait[u].objs[i], u)' => Signaled(wait[u].objs[i], u)
  BY <1>1, <1>3 DEF Signaled, EventSignaled, SemaphoreSignaled, MutexSignaled
<1> QED
  BY <1>1, <1>4 DEF ObjectsReady

\* A wait that a step leaves is owed a wake only if it was, or if one of its objects is called.
LEMMA OwedKept ==
  ASSUME IInv, NEW u \in Threads, WakeOwed(u), SameWait(u), Calls,
         ~ Suspended(u)' => ~ Suspended(u),
         wait'[u] # NoWait /\ Watched(u) => Watched(u)',
         wait'[u] # NoWait =>
           \A o \in ToSet(wait[u].objs) : Called(o) /\ Signaled(o, u)' => Called(o)'
  PROVE  WakeOwed(u)'
<1> SUFFICES ASSUME wait'[u] # NoWait, ~ Suspended(u)', ObjectsReady(u, wait[u])',
                    NEW i \in 1..Len(wait'[u].objs), Signaled(wait[u].objs[i], u)', ~ Watched(u)'
             PROVE  Wanted(u, i)'
  BY DEF WakeOwed, Wanted
<1>1. wait[u] # NoWait /\ wait'[u].select = wait[u].select /\ wait'[u].objs = wait[u].objs
  BY DEF SameWait
<1>2. wait[u].objs \in ObjectLists
  BY <1>1 DEF IInv, WaitInv, WaitTypeOK, Wait
<1>3. PICK q : q = wait[u].objs
  OBVIOUS
<1>4. \A j \in 1..Len(q) : q[j] \in Objects /\ q[j] \in ToSet(q)
  BY <1>2, <1>3, ObjectListMembers DEF ToSet
<1>5. ~ Suspended(u) /\ ~ Watched(u) /\ ~ Unchecked(u)'
  BY DEF Watched
<1>6. \A j \in 1..Len(q) : Signaled(q[j], u)' => Signaled(q[j], u) \/ Called(q[j])'
  BY <1>4, <1>5 DEF Calls
<1>7. \A j \in 1..Len(q) : Called(q[j]) /\ Signaled(q[j], u)' => Called(q[j])'
  BY <1>3, <1>4
<1>8. Signaled(q[i], u)' /\ i \in 1..Len(q)
  BY <1>1, <1>3 DEF Signaled, EventSignaled, SemaphoreSignaled, MutexSignaled
<1>9. CASE wait[u].select = "wait_all"
  <2>1. ASSUME \A j \in 1..Len(q) : ~ Called(q[j])' PROVE FALSE
    <3>1. \A j \in 1..Len(q) : Signaled(q[j], u)'
      BY <1>1, <1>3, <1>9 DEF ObjectsReady, Signaled,
                              EventSignaled, SemaphoreSignaled, MutexSignaled
    <3>2. ObjectsReady(u, wait[u])
      BY <1>3, <1>6, <1>9, <2>1, <3>1 DEF ObjectsReady
    <3>3. Wanted(u, i)
      BY <1>1, <1>3, <1>5, <1>6, <1>8, <2>1, <3>2 DEF WakeOwed
    <3>4. PICK o \in ToSet(q) : Called(o)
      BY <1>3, <1>5, <1>9, <3>3 DEF Wanted
    <3>6. ToSet(q) = {q[j] : j \in 1..Len(q)}
      BY <1>2, <1>3, ObjectListMembers, Zenon
    <3>5. PICK j \in 1..Len(q) : o = q[j]
      BY <3>4, <3>6
    <3> QED
      BY <1>7, <2>1, <3>1, <3>4, <3>5
  <2>2. PICK j \in 1..Len(q) : Called(q[j])'
    BY <2>1
  <2>3. \E o \in ToSet(q) : Called(o)'
    BY <1>4, <2>2
  <2> QED
    BY <1>1, <1>3, <1>9, <2>3 DEF Wanted
<1>10. CASE wait[u].select # "wait_all"
  <2>1. Called(q[i])'
    <3>1. CASE Signaled(q[i], u)
      <4>1. ObjectsReady(u, wait[u])
        BY <1>3, <1>8, <1>10, <3>1 DEF ObjectsReady
      <4>2. Wanted(u, i)
        BY <1>1, <1>3, <1>5, <1>8, <3>1, <4>1 DEF WakeOwed
      <4> QED
        BY <1>3, <1>5, <1>7, <1>8, <1>10, <4>2 DEF Wanted
    <3> QED
      BY <1>6, <1>8, <3>1
  <2> QED
    BY <1>1, <1>3, <1>10, <2>1 DEF Wanted, Called
<1> QED
  BY <1>9, <1>10

\* What is under the top frame goes on.
LEMMA WatchedKept ==
  ASSUME Advances, NEW u \in Threads, SameWait(u), ~ AtTop(ThreadFrame(u)),
         wait'[u] # NoWait, Watched(u)
  PROVE  Watched(u)'
<1>1. ThreadFrame(u) \in ToSet(stack) => stack # <<>>
  BY DEF ToSet
<1>2. ThreadFrame(u) \in ToSet(stack) => ThreadFrame(u) \in ToSet(stack')
  BY <1>1 DEF Advances, AtTop
<1>3. Unchecked(u) => Unchecked(u)'
  BY DEF SameWait, Unchecked
<1> QED
  BY <1>2, <1>3 DEF Watched

LEMMA CalledKept ==
  ASSUME Advances, NEW o, Called(o), ~ (Top.op = "wake" /\ Top.obj = o)
  PROVE  Called(o)'
BY DEF Advances, Called

\* A step whose top frame is no wake_up() leaves every wait that it does not end as much to be woken.
LEMMA OthersOwed ==
  ASSUME IInv, Calls, Advances, NEW u \in Threads, WakeOwed(u), SameWait(u), ~ Suspended(u)' => ~ Suspended(u),
         ~ AtTop(ThreadFrame(u)), stack # <<>> => Top.op # "wake"
  PROVE  WakeOwed(u)'
<1>1. wait'[u] # NoWait /\ Watched(u) => Watched(u)'
  BY WatchedKept
<1>2. ASSUME NEW o, Called(o) PROVE Called(o)'
  <2>1. stack # <<>>
    BY <1>2 DEF Called, ToSet
  <2> QED
    BY <1>2, <2>1, CalledKept
<1> QED
  BY <1>1, <1>2, OwedKept

\* A wait that is not ready is owed nothing.
LEMMA NotReadyOwed ==
  ASSUME NEW u \in Threads, wait'[u] # NoWait /\ ~ Suspended(u)' => ~ ObjectsReady(u, wait[u])'
  PROVE  WakeOwed(u)'
BY DEF WakeOwed

\* The loop of wake_up() has passed over threads that it could not wake.
LEMMA NextWokenFirst ==
  ASSUME IInv, NEW o \in Objects, Wakeable(o) # {}
  PROVE  \E k \in 1..Len(queue[o]) :
           /\ queue[o][k] = NextWoken(o)
           /\ CheckWait(NextWoken(o), wait[NextWoken(o)]) # NotReady
           /\ \A i \in 1..Len(queue[o]) :
                i < k => CheckWait(queue[o][i], wait[queue[o][i]]) = NotReady
<1>1. queue[o] \in Seq(Threads) /\ Len(queue[o]) \in Nat
  BY DEF IInv, WaitInv, WaitTypeOK
<1>2. PICK W : W = Wakeable(o)
  OBVIOUS
<1>3. W \subseteq Nat /\ W # {} /\ W \subseteq 1..Len(queue[o])
  BY <1>1, <1>2 DEF Wakeable
<1>4. Min(W) \in W /\ \A y \in W : Min(W) <= y
  BY <1>3, MinIsMember
<1>5. PICK k : k = Min(W)
  OBVIOUS
<1>6. k \in W /\ (\A y \in W : k <= y) /\ queue[o][k] = NextWoken(o)
  BY <1>2, <1>4, <1>5 DEF NextWoken
<1>7. \A i \in 1..Len(queue[o]) : i < k => i \notin W
  BY <1>1, <1>3, <1>6
<1> QED
  BY <1>2, <1>3, <1>6, <1>7 DEF Wakeable

\* check_wait() once more: the wait ends for its objects, or with nothing satisfied.
LEMMA CheckWaitCases ==
  ASSUME NEW t, NEW w, w.objs \in ObjectLists, CheckWait(t, w) # NotReady
  PROVE  \/ w.interruptible /\ system_apc[t] > 0
         \/ ~ Suspended(t) /\ w.alertable /\ user_apc[t] > 0
         \/ ~ Suspended(t) /\ ObjectsReady(t, w) /\ w.select = "wait_all"
            /\ Satisfied(w, CheckWait(t, w)) = ToSet(w.objs)
         \/ /\ ~ Suspended(t) /\ ObjectsReady(t, w) /\ w.select # "wait_all"
            /\ \E i \in 1..Len(w.objs) : /\ Signaled(w.objs[i], t)
                                         /\ Satisfied(w, CheckWait(t, w)) = {w.objs[i]}
         \/ ~ Suspended(t) /\ ~ ObjectsReady(t, w) /\ w.when = "past"
<1> USE DEF NotReady, STATUS_WAIT_0, STATUS_USER_APC, STATUS_KERNEL_APC, STATUS_TIMEOUT
<1>1. CASE ~ (w.interruptible /\ system_apc[t] > 0) /\ ~ Suspended(t) /\ ObjectsReady(t, w)
  <2>1. /\ 0 \in 0..(Len(w.objs) - 1)
        /\ \A i \in 1..Len(w.objs) : i - 1 \in 0..(Len(w.objs) - 1) /\ (i - 1) + 1 = i
    BY ObjectListMembers, IndexRange
  <2>2. CASE w.select = "wait_all"
    <3>1. CheckWait(t, w) = 0
      BY <1>1, <2>2 DEF CheckWait
    <3> QED
      BY <1>1, <2>1, <2>2, <3>1 DEF Satisfied
  <2>3. CASE w.select # "wait_all"
    <3>1. PICK i : i = FirstSignaled(t, w)
      OBVIOUS
    <3>2. i \in 1..Len(w.objs) /\ Signaled(w.objs[i], t)
      BY <1>1, <2>3, <3>1, FirstSignaledIs DEF ObjectsReady
    <3>3. CheckWait(t, w) = i - 1
      BY <1>1, <2>3, <3>1 DEF CheckWait
    <3>4. Satisfied(w, CheckWait(t, w)) = {w.objs[i]}
      BY <2>1, <2>3, <3>2, <3>3 DEF Satisfied
    <3> QED
      BY <1>1, <2>3, <3>2, <3>4
  <2> QED
    BY <2>2, <2>3
<1> QED
  BY <1>1 DEF CheckWait

\* The thread that a wake_up() with a max wakes takes what was signaled, unless its own
\* select_on() has yet to check its wait.
LEMMA WokenTakes ==
  ASSUME IInv, StackInv, ApcInv, LostInv, TimedInv, stack # <<>>, Limited(Top), Wakeable(Top.obj) # {},
         NEW t \in Threads, t = NextWoken(Top.obj), ~ Unchecked(t), Signaled(Top.obj, t)
  PROVE  Top.obj \in Satisfied(wait[t], CheckWait(t, wait[t]))
<1>1. /\ Top \in Frame /\ ToSet(stack) = {Top} \union ToSet(Rest) /\ Top.op = "wake"
      /\ \A f \in ToSet(Rest) : f.op # "wake" /\ f.op # "wake_thread"
  BY TopFacts DEF StackInv, Base, Limited
<1>2. PICK o \in AutoEvents \union Semaphores : o = Top.obj
  BY <1>1 DEF LostInv, Supplied
<1>3. o \in Objects
  BY <1>1, <1>2, FrameFields
<1>4. wait[t] # NoWait /\ wait[t].objs \in ObjectLists /\ CheckWait(t, wait[t]) # NotReady
      /\ t \in ToSet(queue[o])
  <2>1. wait[t] # NoWait
    BY <1>2, <1>3, NextWokenIs
  <2>2. PICK k \in 1..Len(queue[o]) : queue[o][k] = t /\ CheckWait(t, wait[t]) # NotReady
    BY <1>2, <1>3, NextWokenFirst
  <2>3. queue[o] \in Seq(Threads)
    BY <1>3 DEF IInv, WaitInv, WaitTypeOK
  <2> QED
    BY <2>1, <2>2, <2>3, ToSetMembers DEF IInv, WaitInv, WaitTypeOK, Wait
<1>5. o \in ToSet(wait[t].objs)
  BY <1>3, <1>4 DEF IInv, WaitInv, QueueConsistent
<1>6. ~ Watched(t)
  BY <1>1, FrameKinds DEF Watched
<1>7. ~ ApcOwed(t)
  BY <1>6 DEF ApcInv
<1>8. \A p : Called(p) => p = o
  BY <1>1, <1>2 DEF Called
<1>9. PICK q : q = wait[t].objs
  OBVIOUS
<1>10. PICK j \in 1..Len(q) : q[j] = o
  <2>2. q \in ObjectLists
    BY <1>4, <1>9
  <2>1. ToSet(q) = {q[i] : i \in 1..Len(q)}
    BY <2>2, ObjectListMembers, Zenon
  <2> QED
    BY <1>5, <1>9, <2>1
<1>11. CASE ObjectsReady(t, wait[t]) /\ wait[t].select = "wait_all"
            /\ Satisfied(wait[t], CheckWait(t, wait[t])) = ToSet(wait[t].objs)
  BY <1>2, <1>5, <1>11
<1>12. CASE /\ ~ Suspended(t) /\ ObjectsReady(t, wait[t]) /\ wait[t].select # "wait_all"
            /\ \E i \in 1..Len(q) : /\ Signaled(q[i], t)
                                    /\ Satisfied(wait[t], CheckWait(t, wait[t])) = {q[i]}
  <2>1. PICK i \in 1..Len(q) : /\ Signaled(q[i], t)
                               /\ Satisfied(wait[t], CheckWait(t, wait[t])) = {q[i]}
    BY <1>12
  <2>2. Wanted(t, i)
    BY <1>4, <1>9, <1>12, <2>1 DEF LostInv, WakeOwed
  <2>3. Called(q[i])
    BY <1>6, <1>9, <1>12, <2>2 DEF Wanted
  <2> QED
    BY <1>2, <1>8, <2>1, <2>3
<1>13. CASE ~ ObjectsReady(t, wait[t]) /\ wait[t].when = "past"
  <2>1. Signaled(q[j], t)
    BY <1>2, <1>10
  <2>2. wait[t].select = "wait_all"
    BY <1>9, <1>10, <1>13, <2>1 DEF ObjectsReady
  <2>3. ToSet(wait[t].objs) \intersect (AutoEvents \union Semaphores) = {}
    BY <1>4, <1>13, <2>2 DEF TimedInv
  <2> QED
    BY <1>5, <2>3
<1> QED
  BY <1>4, <1>7, <1>9, <1>11, <1>12, <1>13, CheckWaitCases DEF ApcOwed

\* A wake that wake_up() stops at was for the last of what was signaled: nobody who is left on
\* the queue could have had it.
LEMMA WakeUpOwed ==
  ASSUME IInv, StackInv, ApcInv, LostInv, TimedInv, WakeUp
  PROVE  LostInv'
<1>0. stack # <<>> /\ Top.op = "wake" /\ Wakeable(Top.obj) # {} /\ UNCHANGED apcVars
  BY DEF WakeUp
<1>1. /\ Top \in Frame /\ ToSet(stack) = {Top} \union ToSet(Rest)
      /\ Limited(Top) => \A f \in ToSet(Rest) : Base(f) /\ ~ Limited(f) /\ f.op # "wake"
      /\ Limited(Top) /\ Rest # <<>> => Top.max = 1
      /\ \A f \in ToSet(Rest) : f.op # "wake_thread"
  BY <1>0, TopFacts DEF StackInv, Base, Limited
<1>2. PICK o \in Objects : o = Top.obj
  BY <1>0, <1>1, FrameFields
<1>3. PICK t \in Threads : t = NextWoken(o) /\ wait[t] # NoWait
  BY <1>0, <1>2, NextWokenIs
<1>4. PICK S : S = Satisfied(wait[t], CheckWait(t, wait[t]))
  OBVIOUS
<1>5. Grant(t, S) /\ Unlink(t)
  BY <1>2, <1>3, <1>4 DEF WakeUp, WakeThread
<1>6. /\ wait'[t] = NoWait
      /\ \A u \in Threads : SameWait(u) /\ (u # t => wait'[u] = wait[u])
  BY <1>5, UnlinkSame
<1>7. /\ Calls
      /\ \A p \in Objects, u \in Threads : u # t /\ Signaled(p, u)' => Signaled(p, u)
      /\ \A s \in Semaphores : sem'[s] <= sem[s]
  BY <1>5, <1>6, GrantCalls
<1>8. /\ Advances
      /\ \/ Top.max = 1 /\ ToSet(stack') = ToSet(Rest)
         \/ Top.max = 0 /\ ToSet(stack') = ToSet(stack)
         \/ Top.max > 1 /\ Rest = <<>> /\ ToSet(stack') = {WakeFrame(o, Top.max - 1)}
         \/ ToSet(stack') = ToSet(stack) \union {AbandonFrame(t), ExitFrame(t)}
  BY <1>2, <1>3, WakeUpStack DEF StackInv
<1>9. Top.max \in Nat
  BY <1>0, <1>1, FrameFields
<1>10. Limited(Top) => /\ o \in AutoEvents \union Semaphores
                       /\ o \in Semaphores => sem[o] <= Top.max /\ sem[o] \in Nat
                       /\ o \notin Mutexes /\ o \notin ManualEvents \union Threads
                       /\ o \in AutoEvents => o \in Events /\ o \notin Semaphores
                       /\ o \in Semaphores => o \notin Events
  <2>1. \A s \in Semaphores : sem[s] \in Nat
    BY ConstantsAssumption DEF IInv, ObjInv, ObjTypeOK
  <2>2. Limited(Top) => /\ o \in AutoEvents \union Semaphores
                        /\ o \in Semaphores => sem[o] <= Top.max
    BY <1>1, <1>2 DEF LostInv, Supplied
  <2> QED
    BY <2>1, <2>2, DisjointAssumption DEF Events
<1>11. Limited(Top) /\ ~ Unchecked(t) /\ Signaled(o, t) => o \in S
  BY <1>0, <1>2, <1>3, <1>4, WokenTakes
<1>12. Limited(Top) /\ o \in S => /\ o \in AutoEvents => ~ signaled'[o]
                                  /\ o \in Semaphores => sem'[o] = sem[o] - 1
  BY <1>5, <1>10 DEF Grant
<1>13. Supplied'
  <2>1. CASE Top.max > 1 /\ Rest = <<>> /\ ToSet(stack') = {WakeFrame(o, Top.max - 1)}
    <3>1. Limited(Top)
      BY <1>0, <1>9, <2>1 DEF Limited
    <3>2. ~ Unchecked(t)
      <4>1. ToSet(Rest) = {}
        BY <2>1 DEF ToSet
      <4>2. \A f \in ToSet(stack) : f.op = "wake"
        BY <1>0, <1>1, <4>1
      <4> QED
        BY <4>2, FrameKinds DEF StackInv, UncheckedLast
    <3>3. o \in Semaphores => sem'[o] <= Top.max - 1
      <4>1. CASE o \in Semaphores /\ sem[o] > 0
        <5>1. o \in S
          BY <1>11, <3>1, <3>2, <4>1 DEF Signaled, EventSignaled, SemaphoreSignaled, MutexSignaled
        <5> QED
          BY <1>9, <1>10, <1>12, <3>1, <4>1, <5>1
      <4>2. CASE o \in Semaphores /\ ~ sem[o] > 0
        <5>1. sem'[o] <= sem[o] /\ sem[o] = 0
          BY <1>7, <1>10, <3>1, <4>2
        <5>2. sem'[o] = sem[o] \/ sem'[o] = sem[o] - 1
          BY <1>5, <4>2 DEF Grant
        <5> QED
          BY <1>9, <2>1, <5>1, <5>2
      <4> QED
        BY <4>1, <4>2
    <3>4. PICK f : f = WakeFrame(o, Top.max - 1)
      OBVIOUS
    <3>5. f.obj = o /\ f.max = Top.max - 1
      BY <3>4, FrameKinds
    <3> QED
      BY <1>10, <2>1, <3>1, <3>3, <3>4, <3>5 DEF Supplied
  <2>2. CASE ~ (Top.max > 1 /\ Rest = <<>> /\ ToSet(stack') = {WakeFrame(o, Top.max - 1)})
    <3>1. \A f \in ToSet(stack') : Limited(f) => f \in ToSet(stack)
      BY <1>1, <1>8, <2>2, FrameKinds
    <3>2. \A f \in ToSet(stack') : Limited(f) =>
            /\ f.obj \in AutoEvents \union Semaphores
            /\ f.obj \in Semaphores => sem[f.obj] <= f.max
      BY <3>1 DEF LostInv, Supplied
    <3>3. \A f \in ToSet(stack') : Limited(f) /\ f.obj \in Semaphores => sem'[f.obj] <= f.max
      <4>1. ASSUME NEW f \in ToSet(stack'), Limited(f), f.obj \in Semaphores PROVE sem'[f.obj] <= f.max
        <5>1. f \in Frame /\ f.op = "wake"
          <6>1. stack \in Seq(Frame)
            BY DEF IInv
          <6>2. ToSet(stack) \subseteq Frame
            BY <6>1, ToSetMembers
          <6> QED
            BY <3>1, <4>1, <6>2 DEF Limited
        <5>2. f.max \in Nat
          BY <5>1, FrameFields
        <5>3. sem[f.obj] \in Nat /\ (sem'[f.obj] = sem[f.obj] \/ sem'[f.obj] = sem[f.obj] - 1)
          BY <1>5, <4>1, ConstantsAssumption DEF Grant, IInv, ObjInv, ObjTypeOK
        <5> QED
          BY <3>2, <4>1, <5>2, <5>3
      <4> QED
        BY <4>1
    <3> QED
      BY <3>2, <3>3 DEF Supplied
  <2> QED
    BY <2>1, <2>2
<1>14. ASSUME NEW u \in Threads PROVE WakeOwed(u)'
  <2>1. CASE wait'[u] = NoWait
    BY <2>1 DEF WakeOwed
  <2>2. CASE wait'[u] # NoWait /\ Top.max = 1 /\ ToSet(stack') = ToSet(Rest)
             /\ o \in ToSet(wait[u].objs) /\ Signaled(o, u)'
    <3>1. u # t /\ wait[u] # NoWait /\ Limited(Top) /\ Signaled(o, u)
      BY <1>0, <1>6, <1>7, <2>2 DEF SameWait, Limited
    <3>2. queue[o] \in Seq(Threads) /\ u \in ToSet(queue[o])
      BY <2>2, <3>1 DEF IInv, WaitInv, WaitTypeOK, QueueConsistent
    <3>3. PICK j \in 1..Len(queue[o]) : queue[o][j] = u
      BY <3>2, ToSetMembers
    <3>4. PICK k \in 1..Len(queue[o]) :
            /\ queue[o][k] = t
            /\ \A i \in 1..Len(queue[o]) :
                 i < k => CheckWait(queue[o][i], wait[queue[o][i]]) = NotReady
      BY <1>0, <1>2, <1>3, NextWokenFirst
    <3>5. CASE j < k
      <4>1. wait[u].objs \in ObjectLists /\ CheckWait(u, wait[u]) = NotReady
        BY <3>1, <3>3, <3>4, <3>5 DEF IInv, WaitInv, WaitTypeOK, Wait
      <4>2. ~ Suspended(u) => ~ ObjectsReady(u, wait[u])
        BY <4>1, NotReadyMeans
      <4>3. ~ Suspended(u)' => ~ Suspended(u)
        BY <1>0 DEF apcVars, Suspended
      <4>4. ~ Suspended(u)' => ~ ObjectsReady(u, wait[u])'
        BY <1>6, <1>7, <2>2, <3>1, <4>2, <4>3, NotMoreReady
      <4> QED
        BY <4>4, NotReadyOwed
    <3>6. CASE ~ j < k
      <4>1. k # Len(queue[o])
        BY <3>1, <3>2, <3>3, <3>4, <3>6, LenProperties
      <4>2. ~ Unchecked(t)
        BY <3>4, <4>1 DEF StackInv, UncheckedLast
      <4>3. Signaled(o, t)
        BY <1>10, <3>1 DEF Signaled, EventSignaled, SemaphoreSignaled, MutexSignaled
      <4>4. o \in S
        BY <1>11, <3>1, <4>2, <4>3
      <4>5. ~ Signaled(o, u)'
        BY <1>10, <1>12, <2>2, <3>1, <4>4 DEF Signaled,
                                              EventSignaled, SemaphoreSignaled, MutexSignaled
      <4> QED
        BY <2>2, <4>5
    <3> QED
      BY <3>5, <3>6
  <2>3. CASE ~ (wait'[u] # NoWait /\ Top.max = 1 /\ ToSet(stack') = ToSet(Rest)
                /\ o \in ToSet(wait[u].objs) /\ Signaled(o, u)')
    <3>1. ASSUME wait'[u] # NoWait, NEW p \in ToSet(wait[u].objs), Called(p), Signaled(p, u)'
          PROVE  Called(p)'
      <4>1. CASE p # o
        BY <1>2, <1>8, <3>1, <4>1, CalledKept
      <4>2. CASE p = o
        <5>1. \E f \in ToSet(stack') : f.op = "wake" /\ f.obj = o
          BY <1>0, <1>1, <1>2, <1>8, <2>3, <3>1, <4>2, FrameKinds
        <5> QED
          BY <4>2, <5>1 DEF Called
      <4> QED
        BY <4>1, <4>2
    <3>2. ~ AtTop(ThreadFrame(u))
      BY <1>0, FrameKinds DEF AtTop
    <3>3. wait'[u] # NoWait /\ Watched(u) => Watched(u)'
      BY <1>6, <1>8, <3>2, WatchedKept
    <3>4. WakeOwed(u) /\ (~ Suspended(u)' => ~ Suspended(u))
      BY <1>0 DEF LostInv, apcVars, Suspended
    <3> QED
      BY <1>6, <1>7, <3>1, <3>3, <3>4, OwedKept
  <2> QED
    BY <2>1, <2>2, <2>3
<1> QED
  BY <1>13, <1>14 DEF LostInv

\* No wake_up() with a max is begun, and no count rises.
LEMMA SuppliedKept ==
  ASSUME IInv, IInv', Supplied, \A f \in ToSet(stack') : Limited(f) => f \in ToSet(stack),
         \A s \in Semaphores : sem'[s] <= sem[s]
  PROVE  Supplied'
<1>1. ToSet(stack) \subseteq Frame
  <2>1. stack \in Seq(Frame)
    BY DEF IInv
  <2> QED
    BY <2>1, ToSetMembers
<1>2. \A s \in Semaphores : sem[s] \in Nat /\ sem'[s] \in Nat
  BY ConstantsAssumption DEF IInv, ObjInv, ObjTypeOK
<1>3. ASSUME NEW f \in ToSet(stack'), Limited(f)
      PROVE  /\ f.obj \in AutoEvents \union Semaphores
             /\ f.obj \in Semaphores => sem'[f.obj] <= f.max
  <2>1. /\ f.obj \in AutoEvents \union Semaphores
        /\ f.obj \in Semaphores => sem[f.obj] <= f.max
    BY <1>3 DEF Supplied
  <2>2. f.max \in Nat
    BY <1>1, <1>3, FrameFields DEF Limited
  <2> QED
    BY <1>2, <2>1, <2>2
<1> QED
  BY <1>3 DEF Supplied

\* Every other step below a request
LEMMA OtherStepOwed ==
  ASSUME IInv, IInv', StackInv, LostInv, ServerStep, ~ WakeUp
  PROVE  LostInv'
<1>0. stack # <<>> /\ Shape(stack)
  BY DEF StackInv, ServerStep, WakeUp, WakeUpDone, WakeOneThread, PulseReset, AbandonMutex, AbandonDone,
         ThreadExit, ThreadExitViolent, SelectSelfWoken, SelectSatisfied, SelectPending
<1>1. /\ Top \in Frame /\ Rest \in Seq(Frame) /\ ToSet(stack) = {Top} \union ToSet(Rest)
      /\ Base(Top) => Rest = <<>>
  BY <1>0, TopFacts
<1>2. Advances /\ \A f \in ToSet(stack') : Limited(f) => f \in ToSet(stack)
  BY <1>0, ServerStack
<1>3. ObjInv /\ Supplied /\ UNCHANGED suspend
  BY DEF IInv, LostInv, ServerStep, WakeUp, WakeUpDone, WakeOneThread, PulseReset, AbandonMutex, AbandonDone,
         ThreadExit, ThreadExitViolent, SelectSelfWoken, SelectSatisfied, SelectPending, apcVars
<1>4. \A u \in Threads : WakeOwed(u) /\ (~ Suspended(u)' => ~ Suspended(u))
  BY <1>3 DEF LostInv, Suspended
<1>5. \A s \in Semaphores : sem[s] \in Nat /\ sem[s] <= sem[s]
  BY <1>3, ConstantsAssumption DEF ObjInv, ObjTypeOK
<1>6. CASE WakeUpDone
  <2>1. /\ Top.op = "wake" /\ Wakeable(Top.obj) = {} /\ UNCHANGED <<wait, queue>>
        /\ UNCHANGED objVars
    BY <1>6 DEF WakeUpDone
  <2>2. PICK o \in Objects : o = Top.obj
    BY <1>1, <2>1, FrameFields
  <2>3. Calls /\ Supplied'
    BY <1>2, <1>3, <1>5, <2>1, NoneSignaled, SuppliedKept DEF objVars
  <2>4. ASSUME NEW u \in Threads PROVE WakeOwed(u)'
    <3>0. SameWait(u) /\ wait'[u] = wait[u]
      BY <2>1, QuietSame
    <3>1. CASE wait[u] # NoWait /\ o \in ToSet(wait[u].objs)
      <4>1. queue[o] \in Seq(Threads) /\ u \in ToSet(queue[o]) /\ wait[u].objs \in ObjectLists
        BY <3>1 DEF IInv, WaitInv, WaitTypeOK, QueueConsistent, Wait
      <4>2. PICK j \in 1..Len(queue[o]) : queue[o][j] = u
        BY <4>1, ToSetMembers
      <4>3. CheckWait(u, wait[u]) = NotReady
        BY <2>1, <2>2, <4>2 DEF Wakeable
      <4>4. ~ Suspended(u) => ~ ObjectsReady(u, wait[u])
        BY <4>1, <4>3, NotReadyMeans
      <4>5. \A p \in Objects : Signaled(p, u)' => Signaled(p, u)
        BY <2>1 DEF objVars, Signaled, EventSignaled, SemaphoreSignaled, MutexSignaled
      <4>6. wait'[u] # NoWait /\ ~ Suspended(u)' => ~ ObjectsReady(u, wait[u])'
        BY <1>4, <3>0, <4>4, <4>5, NotMoreReady
      <4> QED
        BY <4>6, NotReadyOwed
    <3>2. CASE ~ (wait[u] # NoWait /\ o \in ToSet(wait[u].objs))
      <4>1. wait'[u] # NoWait => \A p \in ToSet(wait[u].objs) : Called(p) /\ Signaled(p, u)' => Called(p)'
        BY <1>2, <2>2, <3>0, <3>2, CalledKept
      <4>2. ~ AtTop(ThreadFrame(u))
        BY <2>1, FrameKinds DEF AtTop
      <4>3. wait'[u] # NoWait /\ Watched(u) => Watched(u)'
        BY <1>2, <3>0, <4>2, WatchedKept
      <4> QED
        BY <1>4, <2>3, <3>0, <4>1, <4>3, OwedKept
    <3> QED
      BY <3>1, <3>2
  <2> QED
    BY <2>3, <2>4 DEF LostInv
<1>7. ASSUME NEW t \in Threads, NEW S, Grant(t, S), Unlink(t), Top.op # "wake",
             \A u \in Threads : AtTop(ThreadFrame(u)) => u = t
      PROVE  LostInv'
  <2>1. wait'[t] = NoWait /\ \A u \in Threads : SameWait(u)
    BY <1>7, UnlinkSame
  <2>2. Calls /\ \A s \in Semaphores : sem'[s] <= sem[s]
    BY <1>7, <2>1, GrantCalls
  <2>3. Supplied'
    BY <1>2, <1>3, <2>2, SuppliedKept
  <2>4. ASSUME NEW u \in Threads PROVE WakeOwed(u)'
    <3>1. CASE u = t
      BY <2>1, <3>1 DEF WakeOwed
    <3>2. CASE u # t
      BY <1>2, <1>4, <1>7, <2>1, <2>2, <3>2, OthersOwed
    <3> QED
      BY <3>1, <3>2
  <2> QED
    BY <2>3, <2>4 DEF LostInv
<1>8. CASE WakeOneThread
  <2>1. Top.op = "wake_thread"
    BY <1>8 DEF WakeOneThread
  <2>2. PICK t \in Threads : t = Top.thr
    BY <1>1, <2>1, FrameFields
  <2>3. \A u \in Threads : AtTop(ThreadFrame(u)) => u = t
    BY <2>2, FrameKinds DEF AtTop
  <2>4. CASE \E st : Grant(t, Satisfied(wait[t], st)) /\ Unlink(t)
    BY <1>7, <2>1, <2>3, <2>4
  <2>5. CASE /\ UNCHANGED <<wait, queue>> /\ UNCHANGED objVars
             /\ wait[t] # NoWait => CheckWait(t, wait[t]) = NotReady
    <3>1. Calls /\ Supplied'
      BY <1>2, <1>3, <1>5, <2>5, NoneSignaled, SuppliedKept DEF objVars
    <3>2. ASSUME NEW u \in Threads PROVE WakeOwed(u)'
      <4>0. SameWait(u) /\ wait'[u] = wait[u]
        BY <2>5, QuietSame
      <4>1. CASE u = t /\ wait[u] # NoWait
        <5>1. wait[u].objs \in ObjectLists
          BY <4>1 DEF IInv, WaitInv, WaitTypeOK, Wait
        <5>2. ~ Suspended(u) => ~ ObjectsReady(u, wait[u])
          BY <2>5, <4>1, <5>1, NotReadyMeans
        <5>3. \A p \in Objects : Signaled(p, u)' => Signaled(p, u)
          BY <2>5 DEF objVars, Signaled, EventSignaled, SemaphoreSignaled, MutexSignaled
        <5>4. wait'[u] # NoWait /\ ~ Suspended(u)' => ~ ObjectsReady(u, wait[u])'
          BY <1>4, <4>0, <5>2, <5>3, NotMoreReady
        <5> QED
          BY <5>4, NotReadyOwed
      <4>2. CASE u = t /\ wait[u] = NoWait
        BY <4>0, <4>2 DEF WakeOwed
      <4>3. CASE u # t
        BY <1>2, <1>4, <2>1, <2>3, <3>1, <4>0, <4>3, OthersOwed
      <4> QED
        BY <4>1, <4>2, <4>3
    <3> QED
      BY <3>1, <3>2 DEF LostInv
  <2> QED
    BY <1>8, <2>2, <2>4, <2>5 DEF WakeOneThread, WakeThread
<1>9. CASE SelectSatisfied
  <2>1. Top.op = "select"
    BY <1>9 DEF SelectSatisfied
  <2>2. PICK t \in Threads : t = Top.thr
    BY <1>1, <2>1, FrameFields
  <2>3. \A u \in Threads : ~ AtTop(ThreadFrame(u))
    BY <2>1, FrameKinds DEF AtTop
  <2>4. PICK S : Grant(t, S) /\ Unlink(t)
    BY <1>9, <2>2 DEF SelectSatisfied
  <2> QED
    BY <1>7, <2>1, <2>3, <2>4
<1>10. CASE SelectPending
  <2>1. Top.op = "select" /\ UNCHANGED objVars /\ wait \in [Threads -> Wait \union {NoWait}]
    BY <1>10 DEF SelectPending, IInv, WaitInv, WaitTypeOK
  <2>2. PICK t \in Threads : t = Top.thr
    BY <1>1, <2>1, FrameFields
  <2>3. wait[t] # NoWait /\ CheckWait(t, wait[t]) = NotReady /\ wait[t] \in Wait
    BY <1>10, <2>1, <2>2 DEF SelectPending
  <2>4. /\ \A u \in Threads : u # t => wait'[u] = wait[u]
        /\ wait'[t].select = wait[t].select /\ wait'[t].objs = wait[t].objs
    BY <1>10, <2>1, <2>2, <2>3 DEF SelectPending, Wait
  <2>5. Calls /\ Supplied'
    BY <1>2, <1>3, <1>5, <2>1, NoneSignaled, SuppliedKept DEF objVars
  <2>6. ASSUME NEW u \in Threads PROVE WakeOwed(u)'
    <3>1. CASE u = t
      <4>1. ~ Suspended(t) => ~ ObjectsReady(t, wait[t])
        BY <2>3, NotReadyMeans DEF Wait
      <4>2. ~ Suspended(t)' => ~ ObjectsReady(t, wait[t])'
        BY <1>3, <2>1, <2>4, <4>1 DEF Suspended, ObjectsReady, Signaled,
                                      EventSignaled, SemaphoreSignaled, MutexSignaled, objVars
      <4> QED
        BY <3>1, <4>2, NotReadyOwed
    <3>2. CASE u # t
      <4>1. SameWait(u)
        BY <2>4, <3>2 DEF SameWait
      <4>2. ~ AtTop(ThreadFrame(u))
        BY <2>1, FrameKinds DEF AtTop
      <4> QED
        BY <1>2, <1>4, <2>1, <2>5, <4>1, <4>2, OthersOwed
    <3> QED
      BY <3>1, <3>2
  <2> QED
    BY <2>5, <2>6 DEF LostInv
<1>11. CASE PulseReset \/ AbandonMutex \/ AbandonDone \/ SelectSelfWoken \/ ThreadExit \/ ThreadExitViolent
  <2>1. UNCHANGED <<wait, queue>> /\ UNCHANGED sem /\ Top.op \notin {"wake", "wake_thread"}
    BY <1>11 DEF PulseReset, AbandonMutex, AbandonDone, SelectSelfWoken, ThreadExit, ThreadExitViolent, objVars
  <2>2. Supplied'
    BY <1>2, <1>3, <1>5, <2>1, SuppliedKept
  <2>3. Calls
    <3>1. CASE AbandonDone \/ SelectSelfWoken
      BY <1>3, <3>1, NoneSignaled DEF AbandonDone, SelectSelfWoken, objVars
    <3>2. CASE PulseReset
      <4>1. Top.obj \in Events
        BY <1>1, <3>2, FrameFields DEF PulseReset, Events
      <4> QED
        BY <1>3, <3>2, <4>1, NoneSignaled DEF PulseReset
    <3>3. CASE AbandonMutex
      <4>1. PICK m \in Mutexes :
              /\ count' = [count EXCEPT ![m] = 0] /\ owner' = [owner EXCEPT ![m] = NoThread]
              /\ stack' = <<WakeFrame(m, 0)>> \o stack /\ UNCHANGED <<signaled, sem>>
        BY <3>3 DEF AbandonMutex
      <4>2. Called(m)'
        <5>1. PICK f \in Frame : f = WakeFrame(m, 0)
          BY FramesTyped DEF Objects
        <5>2. stack \in Seq(Frame)
          BY DEF IInv
        <5>3. PICK s : s = stack'
          OBVIOUS
        <5>4. f \in ToSet(s)
          <6>1. PICK q \in Seq(Frame) : q = stack
            BY <5>2
          <6>2. s = <<f>> \o q
            BY <4>1, <5>1, <5>3, <6>1
          <6>3. ToSet(s) = {f} \union ToSet(q)
            BY <6>2, ToSetPush
          <6> QED
            BY <6>3
        <5> QED
          BY <5>1, <5>3, <5>4, FrameKinds DEF Called
      <4>3. ASSUME NEW p \in Objects, NEW u \in Threads, p # m, Signaled(p, u)' PROVE Signaled(p, u)
        BY <1>3, <4>1, <4>3 DEF Signaled,
                                EventSignaled, SemaphoreSignaled, MutexSignaled, ObjInv, ObjTypeOK
      <4> QED
        BY <4>2, <4>3 DEF Calls
    <3>4. CASE ThreadExit \/ ThreadExitViolent
      <4>0. Top.thr \in Threads /\ Threads \subseteq Events /\ Events \subseteq Objects
        BY <1>1, <3>4, FrameFields DEF ThreadExit, ThreadExitViolent, Events, Objects
      <4>1. PICK t \in Threads : t = Top.thr
        BY <4>0
      <4>2. UNCHANGED <<owner, count>>
        BY <3>4 DEF ThreadExit, ThreadExitViolent
      <4>3. CASE UNCHANGED signaled
        BY <1>3, <2>1, <4>2, <4>3, NoneSignaled
      <4>4. CASE signaled' = [signaled EXCEPT ![t] = TRUE] /\ stack' = <<WakeFrame(t, 0)>> \o Rest
        <5>1. PICK f \in Frame : f = WakeFrame(t, 0)
          BY <4>0, FramesTyped
        <5>3. PICK s : s = stack'
          OBVIOUS
        <5>4. f \in ToSet(s)
          <6>1. PICK q \in Seq(Frame) : q = Rest
            BY <1>1
          <6>2. s = <<f>> \o q
            BY <4>4, <5>1, <5>3, <6>1
          <6>3. ToSet(s) = {f} \union ToSet(q)
            BY <6>2, ToSetPush
          <6> QED
            BY <6>3
        <5>5. Called(t)'
          BY <5>1, <5>3, <5>4, FrameKinds DEF Called
        <5> QED
          BY <1>3, <2>1, <4>0, <4>2, <4>4, <5>5, OneSignaled
      <4> QED
        BY <3>4, <4>1, <4>3, <4>4 DEF ThreadExit, ThreadExitViolent
    <3> QED
      BY <1>11, <3>1, <3>2, <3>3, <3>4
  <2>4. ASSUME NEW u \in Threads PROVE WakeOwed(u)'
    <3>1. SameWait(u)
      BY <2>1, QuietSame
    <3>2. ~ AtTop(ThreadFrame(u))
      BY <2>1, FrameKinds DEF AtTop
    <3> QED
      BY <1>2, <1>4, <2>1, <2>3, <3>1, <3>2, OthersOwed
  <2> QED
    BY <2>2, <2>4 DEF LostInv
<1> QED
  BY <1>6, <1>8, <1>9, <1>10, <1>11 DEF ServerStep

\* Between two requests a wait is not ready, so that what is begun owes it a wake only by its frame.
LEMMA BegunOwed ==
  ASSUME IInv, StackInv, ApcInv, LostInv, Idle, Supplied', Calls,
         \A u \in Threads : \/ SameWait(u) /\ (ThreadFrame(u) \in ToSet(stack') \/ (~ Suspended(u)' => ~ Suspended(u)))
                            \/ Unchecked(u)'
                            \/ ~ Suspended(u)' => ~ ObjectsReady(u, wait[u])'
  PROVE  LostInv'
<1>1. Advances /\ \A u \in Threads : ~ AtTop(ThreadFrame(u))
  BY IdleMeans
<1>2. ASSUME NEW u \in Threads PROVE WakeOwed(u)'
  <2>1. CASE ThreadFrame(u) \in ToSet(stack') \/ Unchecked(u)'
    BY <2>1 DEF WakeOwed, Wanted, Watched
  <2>2. CASE ~ Suspended(u)' => ~ ObjectsReady(u, wait[u])'
    BY <2>2, NotReadyOwed
  <2>3. CASE SameWait(u) /\ (~ Suspended(u)' => ~ Suspended(u))
    <3>1. WakeOwed(u)
      BY DEF LostInv
    <3> QED
      BY <1>1, <2>3, <3>1, OthersOwed DEF Idle
  <2> QED
    BY <2>1, <2>2, <2>3
<1> QED
  BY <1>2 DEF LostInv

LEMMA ClientRequestOwed ==
  ASSUME IInv, StackInv, ApcInv, LostInv, ClientRequest
  PROVE  LostInv'
<1>1. PICK c \in Threads :
        \/ \/ \E e \in AutoEvents \union ManualEvents :
                SetEvent(c, e) \/ ResetEvent(c, e) \/ PulseEvent(c, e)
           \/ \E s \in Semaphores, n \in 0..SemMax : ReleaseSemaphore(c, s, n)
           \/ \E m \in Mutexes : ReleaseMutex(c, m)
           \/ \E r \in Requests : SignalAndWaitFails(c, r)
        \/ \E r \in Requests : Select(c, r) \/ SignalAndWait(c, r)
        \/ \E t \in Threads : SuspendThread(c, t) \/ ResumeThread(c, t)
                              \/ QueueUserApc(c, t) \/ QueueSystemApc(c, t)
        \/ \E t \in Threads : TerminateThread(c, t)
  BY DEF ClientRequest
<1>0. ObjInv
  BY DEF IInv
<1>2. CASE \/ \E e \in AutoEvents \union ManualEvents :
                SetEvent(c, e) \/ ResetEvent(c, e) \/ PulseEvent(c, e)
           \/ \E s \in Semaphores, n \in 0..SemMax : ReleaseSemaphore(c, s, n)
           \/ \E m \in Mutexes : ReleaseMutex(c, m)
           \/ \E r \in Requests : SignalAndWaitFails(c, r)
  <2>1. Supplied' /\ Calls /\ UNCHANGED <<wait, queue, suspend>>
    BY <1>2, ObjectRequestBegins
  <2>2. Idle
    BY <1>2 DEF SetEvent, ResetEvent, PulseEvent, ReleaseSemaphore, ReleaseMutex, SignalAndWaitFails, CanCall
  <2>3. \A u \in Threads : SameWait(u) /\ (~ Suspended(u)' => ~ Suspended(u))
    BY <2>1, QuietSame DEF Suspended
  <2> QED
    BY <2>1, <2>2, <2>3, BegunOwed
<1>3. ASSUME NEW r \in Requests, Select(c, r), CheckWait(c, r) # NotReady
      PROVE  LostInv'
  <2>1. /\ Idle /\ stack' = <<>> /\ UNCHANGED suspend /\ wait'[c] = NoWait
        /\ UNCHANGED <<wait, queue>> /\ \E S : Grant(c, S)
    BY <1>3 DEF Select, CanCall, Idle
  <2>2. Supplied' /\ Calls
    BY <2>1, GrantCalls, BeginNone
  <2>3. \A u \in Threads : SameWait(u) /\ (~ Suspended(u)' => ~ Suspended(u))
    BY <2>1, QuietSame DEF Suspended
  <2> QED
    BY <2>1, <2>2, <2>3, BegunOwed
<1>4. ASSUME NEW r \in Requests, Select(c, r), CheckWait(c, r) = NotReady
      PROVE  LostInv'
  <2>1. /\ Idle /\ stack' = <<>> /\ Link(c, NewWait(r, TRUE)) /\ UNCHANGED suspend /\ UNCHANGED objVars
        /\ r.objs \in ObjectLists
    BY <1>4, RequestsAssumption DEF Select, CanCall, Idle, Request
  <2>2. wait'[c] = NewWait(r, TRUE) /\ \A u \in Threads : u # c => wait'[u] = wait[u]
    BY <2>1, LinkSame
  <2>3. Supplied' /\ Calls
    BY <1>0, <2>1, BeginNone, NoneSignaled DEF objVars
  <2>4. ~ Suspended(c) => ~ ObjectsReady(c, r)
    BY <1>4, <2>1, NotReadyMeans
  <2>5. ~ Suspended(c)' => ~ ObjectsReady(c, wait[c])'
    BY <2>1, <2>2, <2>4 DEF Suspended, ObjectsReady, Signaled,
                            EventSignaled, SemaphoreSignaled, MutexSignaled, objVars, NewWait
  <2>6. \A u \in Threads : u # c => SameWait(u) /\ (~ Suspended(u)' => ~ Suspended(u))
    BY <2>1, <2>2 DEF Suspended, SameWait
  <2> QED
    BY <2>1, <2>3, <2>5, <2>6, BegunOwed
<1>5. ASSUME NEW r \in Requests, SignalAndWait(c, r)
      PROVE  LostInv'
  <2>1. Idle /\ Link(c, NewWait(r, FALSE)) /\ UNCHANGED apcVars /\ r \in Request
    BY <1>5, RequestsAssumption DEF SignalAndWait, CanCall
  <2>2. wait'[c] = NewWait(r, FALSE) /\ \A u \in Threads : u # c => wait'[u] = wait[u]
    BY <2>1, LinkSame
  <2>3. Supplied' /\ Calls
    BY <1>5, <2>1, SignalAndWaitBegins
  <2>4. wait'[c] # NoWait
    BY <2>1, <2>2, NewWaitTyped, ConstantsAssumption
  <2>5. Unchecked(c)'
    BY <2>2, <2>4 DEF Unchecked, NewWait
  <2>6. \A u \in Threads : u # c => SameWait(u) /\ (~ Suspended(u)' => ~ Suspended(u))
    BY <2>1, <2>2 DEF Suspended, SameWait, apcVars
  <2> QED
    BY <2>1, <2>3, <2>5, <2>6, BegunOwed
<1>6. ASSUME NEW t \in Threads,
             SuspendThread(c, t) \/ ResumeThread(c, t) \/ QueueUserApc(c, t) \/ QueueSystemApc(c, t)
      PROVE  LostInv'
  <2>1. Idle
    BY <1>6 DEF SuspendThread, ResumeThread, QueueUserApc, QueueSystemApc, CanCall
  <2>2. /\ Supplied' /\ Calls /\ UNCHANGED <<wait, queue>>
        /\ \A u \in Threads : ThreadFrame(u) \in ToSet(stack') \/ (~ Suspended(u)' => ~ Suspended(u))
    BY <1>6, ThreadRequestBegins
  <2> QED
    BY <2>1, <2>2, QuietSame, BegunOwed
<1>7. ASSUME NEW t \in Threads, TerminateThread(c, t) PROVE LostInv'
  <2>1. Idle /\ Unlink(t) /\ KillThread(t, TRUE) /\ UNCHANGED apcVars /\ UNCHANGED objVars
    BY <1>7 DEF TerminateThread, CanCall, KillThread
  <2>2. Supplied' /\ Calls
    BY <1>0, <2>1, KillStack, NoneSignaled DEF objVars
  <2> QED
    BY <2>1, <2>2, UnlinkSame, BegunOwed DEF apcVars, Suspended
<1> QED
  BY <1>1, <1>2, <1>3, <1>4, <1>5, <1>6, <1>7

LEMMA EnvironmentOwed ==
  ASSUME IInv, StackInv, ApcInv, LostInv, Environment
  PROVE  LostInv'
<1>0. ObjInv
  BY DEF IInv
<1>1. PICK t \in Threads : \/ ClientDies(t) \/ Hangup(t) \/ CheckTerminated(t)
                           \/ DeadlinePasses(t) \/ ThreadTimeout(t)
  BY DEF Environment
<1>2. CASE Hangup(t)
  <2>1. Idle /\ Unlink(t) /\ KillThread(t, FALSE) /\ UNCHANGED apcVars /\ UNCHANGED objVars
    BY <1>2 DEF Hangup, KillThread
  <2>2. Supplied' /\ Calls
    BY <1>0, <2>1, KillStack, NoneSignaled DEF objVars
  <2> QED
    BY <2>1, <2>2, UnlinkSame, BegunOwed DEF apcVars, Suspended
<1>3. CASE ThreadTimeout(t) /\ ~ Suspended(t)
  <2>1. Idle /\ Unlink(t) /\ UNCHANGED apcVars /\ \E S : Grant(t, S)
    BY <1>3 DEF ThreadTimeout, WakeThread
  <2>2. Calls
    BY <2>1, UnlinkSame, GrantCalls
  <2>3. Supplied'
    <3>1. CASE stack' = <<>>
      BY <3>1, BeginNone
    <3>2. CASE stack' # <<>>
      <4>1. stack' = <<AbandonFrame(t), ExitFrame(t)>>
        BY <1>3, <3>2 DEF ThreadTimeout, WakeThread
      <4>2. PICK f \in Frame, g \in Frame : f = AbandonFrame(t) /\ g = ExitFrame(t)
        BY FramesTyped
      <4>3. f.op = "abandon" /\ ~ Limited(f) /\ ~ Limited(g) /\ g.op = "exit"
        BY <4>2, FrameKinds DEF Limited
      <4> QED
        BY <4>1, <4>2, <4>3, BeginStack
    <3> QED
      BY <3>1, <3>2
  <2> QED
    BY <2>1, <2>2, <2>3, UnlinkSame, BegunOwed DEF apcVars, Suspended
<1>4. CASE ClientDies(t) \/ CheckTerminated(t) \/ DeadlinePasses(t) \/ (ThreadTimeout(t) /\ Suspended(t))
  <2>1. Idle
    BY <1>4 DEF ClientDies, CheckTerminated, DeadlinePasses, ThreadTimeout
  <2>2. /\ Supplied' /\ Calls /\ UNCHANGED suspend
        /\ \A u \in Threads : SameWait(u)
    BY <1>4, EnvironmentBegins
  <2> QED
    BY <2>1, <2>2, BegunOwed DEF Suspended
<1> QED
  BY <1>1, <1>2, <1>3, <1>4

\* The waits that are started are those of the requests.
LEMMA TimedKept ==
  ASSUME IInv, TimedAllPlain, TimedInv, Next
  PROVE  TimedInv'
<1> SUFFICES ASSUME NEW u \in Threads, wait'[u] # NoWait, wait'[u].select = "wait_all",
                    wait'[u].when # "infinite"
             PROVE  ToSet(wait'[u].objs) \intersect (AutoEvents \union Semaphores) = {}
  BY DEF TimedInv
<1>0. wait \in [Threads -> Wait \union {NoWait}] /\ \A w \in Wait : w # NoWait
  BY ConstantsAssumption DEF IInv, WaitInv, WaitTypeOK
<1>1. CASE wait[u] # NoWait /\ wait'[u].select = wait[u].select /\ wait'[u].objs = wait[u].objs
           /\ (wait[u].when = "infinite" => wait'[u].when = "infinite")
  BY <1>1 DEF TimedInv
<1>2. CASE wait' = wait \/ \E t \in Threads : Unlink(t)
  BY <1>0, <1>1, <1>2 DEF Unlink
<1>3. ASSUME NEW t \in Threads, NEW r \in Requests, NEW b \in BOOLEAN, Link(t, NewWait(r, b))
      PROVE  ToSet(wait'[u].objs) \intersect (AutoEvents \union Semaphores) = {}
  <2>1. CASE u = t
    <3>1. wait'[u] = NewWait(r, b)
      BY <1>3, <2>1, LinkSame
    <3> QED
      BY <3>1 DEF TimedAllPlain, NewWait
  <2>2. CASE u # t
    BY <1>1, <1>3, <2>2, LinkSame
  <2> QED
    BY <2>1, <2>2
<1>4. ASSUME NEW t \in Threads, NEW w \in Wait, wait[t] # NoWait, wait' = [wait EXCEPT ![t] = w],
             w.select = wait[t].select, w.objs = wait[t].objs, wait[t].when = "infinite" => w.when = "infinite"
      PROVE  ToSet(wait'[u].objs) \intersect (AutoEvents \union Semaphores) = {}
  <2>1. wait'[u] = IF u = t THEN w ELSE wait[u]
    BY <1>0, <1>4
  <2> QED
    BY <1>1, <1>4, <2>1
<1>5. CASE ServerStep
  <2>1. CASE SelectPending
    <3>1. PICK t : t = Top.thr
      OBVIOUS
    <3>2. wait' = [wait EXCEPT ![t].cookie = TRUE, ![t].user = (@ \/ wait[t].when # "infinite")]
          /\ wait[t] # NoWait
      BY <2>1, <3>1 DEF SelectPending
    <3>3. CASE u = t
      <4>1. wait[u] \in Wait
        BY <1>0, <3>2, <3>3
      <4>2. wait'[u] = [wait[u] EXCEPT !.cookie = TRUE, !.user = (@ \/ wait[u].when # "infinite")]
        BY <1>0, <3>2, <3>3
      <4> QED
        BY <1>0, <1>1, <4>1, <4>2 DEF Wait
    <3>4. CASE u # t
      BY <1>0, <1>1, <3>2, <3>4
    <3> QED
      BY <3>3, <3>4
  <2>2. CASE ~ SelectPending
    <3>1. wait' = wait \/ wait' = [wait EXCEPT ![NextWoken(Top.obj)] = NoWait]
          \/ wait' = [wait EXCEPT ![Top.thr] = NoWait]
      BY <1>5, <2>2 DEF ServerStep, WakeUp, WakeUpDone, WakeOneThread, WakeThread, Unlink, PulseReset,
         AbandonMutex, AbandonDone, ThreadExit, ThreadExitViolent, SelectSelfWoken, SelectSatisfied
    <3> QED
      BY <1>0, <1>1, <3>1
  <2> QED
    BY <2>1, <2>2
<1>6. CASE ClientRequest
  <2>1. PICK c \in Threads :
          \/ UNCHANGED wait
          \/ \E t \in Threads : Unlink(t)
          \/ \E r \in Requests : Link(c, NewWait(r, TRUE)) \/ Link(c, NewWait(r, FALSE))
    <3>1. PICK c \in Threads :
            \/ \E e \in AutoEvents \union ManualEvents :
                 SetEvent(c, e) \/ ResetEvent(c, e) \/ PulseEvent(c, e)
            \/ \E s \in Semaphores, n \in 0..SemMax : ReleaseSemaphore(c, s, n)
            \/ \E m \in Mutexes : ReleaseMutex(c, m)
            \/ \E r \in Requests : Select(c, r) \/ SignalAndWait(c, r) \/ SignalAndWaitFails(c, r)
            \/ \E t \in Threads : SuspendThread(c, t) \/ ResumeThread(c, t)
                                  \/ QueueUserApc(c, t) \/ QueueSystemApc(c, t)
            \/ \E t \in Threads : TerminateThread(c, t)
      BY <1>6 DEF ClientRequest
    <3>2. CASE \/ \E e \in AutoEvents \union ManualEvents :
                    SetEvent(c, e) \/ ResetEvent(c, e) \/ PulseEvent(c, e)
               \/ \E s \in Semaphores, n \in 0..SemMax : ReleaseSemaphore(c, s, n)
               \/ \E m \in Mutexes : ReleaseMutex(c, m)
      BY <3>2 DEF SetEvent, ResetEvent, PulseEvent, ReleaseSemaphore, ReleaseMutex
    <3>3. CASE \E r \in Requests : Select(c, r) \/ SignalAndWait(c, r) \/ SignalAndWaitFails(c, r)
      BY <3>3 DEF Select, SignalAndWait, SignalAndWaitFails
    <3>4. CASE \E t \in Threads : SuspendThread(c, t) \/ ResumeThread(c, t)
                                   \/ QueueUserApc(c, t) \/ QueueSystemApc(c, t)
      BY <3>4 DEF SuspendThread, ResumeThread, QueueUserApc, QueueSystemApc
    <3>5. CASE \E t \in Threads : TerminateThread(c, t)
      BY <3>5 DEF TerminateThread, KillThread
    <3> QED
      BY <3>1, <3>2, <3>3, <3>4, <3>5
  <2> QED
    BY <1>2, <1>3, <2>1
<1>7. CASE Environment
  <2>1. PICK t \in Threads : \/ UNCHANGED wait \/ Unlink(t)
                             \/ wait[t] # NoWait /\ wait[t].when = "future"
                                /\ wait' = [wait EXCEPT ![t].when = "past"]
                             \/ wait[t] # NoWait /\ wait' = [wait EXCEPT ![t].user = FALSE]
    BY <1>7 DEF Environment, ClientDies, Hangup, KillThread, CheckTerminated, DeadlinePasses, ThreadTimeout,
       WakeThread
  <2>2. CASE wait[t] # NoWait /\ wait[t].when = "future" /\ wait' = [wait EXCEPT ![t].when = "past"]
    <3>1. PICK w : w = [wait[t] EXCEPT !.when = "past"]
      OBVIOUS
    <3>2. w \in Wait /\ w.select = wait[t].select /\ w.objs = wait[t].objs
      BY <1>0, <2>2, <3>1 DEF Wait, Deadline
    <3> QED
      BY <1>4, <2>2, <3>1, <3>2
  <2>3. CASE wait[t] # NoWait /\ wait' = [wait EXCEPT ![t].user = FALSE]
    <3>1. PICK w : w = [wait[t] EXCEPT !.user = FALSE]
      OBVIOUS
    <3>2. w \in Wait /\ w.select = wait[t].select /\ w.objs = wait[t].objs /\ w.when = wait[t].when
      BY <1>0, <2>3, <3>1 DEF Wait, Deadline
    <3> QED
      BY <1>4, <2>3, <3>1, <3>2
  <2> QED
    BY <1>2, <2>1, <2>2, <2>3
<1> QED
  BY <1>5, <1>6, <1>7 DEF Next

LEMMA InitOwed == Init => LostInv /\ TimedInv
<1> SUFFICES ASSUME Init PROVE LostInv /\ TimedInv
  OBVIOUS
<1>1. stack = <<>> /\ \A u \in Threads : wait[u] = NoWait
  BY DEF Init
<1>2. ToSet(stack) = {}
  BY <1>1 DEF ToSet
<1> QED
  BY <1>1, <1>2 DEF LostInv, Supplied, WakeOwed, TimedInv

LEMMA StutterOwed ==
  ASSUME LostInv, TimedInv, UNCHANGED vars
  PROVE  LostInv' /\ TimedInv'
<1>1. UNCHANGED <<stack, wait, suspend>> /\ UNCHANGED objVars
  BY DEF vars, apcVars
<1>2. Supplied'
  BY <1>1 DEF LostInv, Supplied, objVars
<1>3. ASSUME NEW u \in Threads PROVE WakeOwed(u)'
  <2>1. WakeOwed(u)
    BY DEF LostInv
  <2>2. \A o : Signaled(o, u)' <=> Signaled(o, u)
    BY <1>1 DEF Signaled, EventSignaled, SemaphoreSignaled, MutexSignaled, objVars
  <2>3. (Watched(u)' <=> Watched(u)) /\ (Suspended(u)' <=> Suspended(u)) /\ \A o : Called(o)' <=> Called(o)
    BY <1>1 DEF Watched, Unchecked, Suspended, Called
  <2>4. \A i : Wanted(u, i)' <=> Wanted(u, i)
    BY <1>1, <2>3 DEF Wanted, Watched, Unchecked, Called
  <2>5. ObjectsReady(u, wait[u])' <=> ObjectsReady(u, wait[u])
    BY <1>1, <2>2 DEF ObjectsReady, Signaled,
                      EventSignaled, SemaphoreSignaled, MutexSignaled, objVars
  <2>6. \A i : Signaled(wait[u].objs[i], u)' <=> Signaled(wait[u].objs[i], u)
    BY <1>1 DEF Signaled, EventSignaled, SemaphoreSignaled, MutexSignaled, objVars
  <2> QED
    BY <1>1, <2>1, <2>3, <2>4, <2>5, <2>6 DEF WakeOwed
<1>4. TimedInv'
  BY <1>1 DEF TimedInv
<1> QED
  BY <1>2, <1>3, <1>4 DEF LostInv

(***************************************************************************)
(* No wake is lost: whenever a wait could end, the walk of wake_up() over  *)
(* the queue of what ends it, the wake_thread() of its thread or the       *)
(* check_wait() of its select_on() is still to come, whichever threads     *)
(* were suspended, died or were passed over meanwhile.  The hypothesis is  *)
(* what the run timedall shows to be needed: a WAIT_ALL with a deadline    *)
(* can use up the one wake of an auto-reset event or semaphore.            *)
(***************************************************************************)
THEOREM WakeDueInvariant == TimedAllPlain => (Spec => []LostInv)
<1> SUFFICES ASSUME TimedAllPlain PROVE Spec => []LostInv
  OBVIOUS
<1>1. IInv /\ (StackInv /\ ApcInv) /\ (LostInv /\ TimedInv) /\ [Next]_vars => (LostInv /\ TimedInv)'
  <2> SUFFICES ASSUME IInv, StackInv, ApcInv, LostInv, TimedInv, [Next]_vars
               PROVE  LostInv' /\ TimedInv'
    OBVIOUS
  <2>1. CASE ServerStep
    <3>1. IInv' /\ TimedInv'
      BY <2>1, ServerStepKeeps, TimedKept DEF Next
    <3> QED
      BY <2>1, <3>1, WakeUpOwed, OtherStepOwed
  <2>2. CASE ClientRequest
    BY <2>2, ClientRequestOwed, TimedKept DEF Next
  <2>3. CASE Environment
    BY <2>3, EnvironmentOwed, TimedKept DEF Next
  <2> QED
    BY <2>1, <2>2, <2>3, StutterOwed DEF Next
<1> QED
  BY <1>1, InitOwed, WaitCoreInvariant, WatchInvariant, PTL DEF Spec

\* Between two requests no thread sleeps that its objects would let go (wake_up, wake_thread,
\* select_on, kill_thread, abandon_mutexes, resume_thread).
THEOREM WakesNotLost == TimedAllPlain => (Spec => []NoLostWakeup)
<1> SUFFICES ASSUME TimedAllPlain PROVE Spec => []NoLostWakeup
  OBVIOUS
<1>1. IInv /\ (StackInv /\ ApcInv) /\ LostInv => NoLostWakeup
  <2> SUFFICES ASSUME IInv, StackInv, ApcInv, LostInv, Idle, NEW u \in Threads, wait[u] # NoWait,
                      ~ Suspended(u), ObjectsReady(u, wait[u])
               PROVE  FALSE
    BY DEF NoLostWakeup
  <2>1. ~ Watched(u) /\ \A o : ~ Called(o)
    BY IdleMeans
  <2>2. \A i \in 1..Len(wait[u].objs) : Signaled(wait[u].objs[i], u) => Wanted(u, i)
    BY DEF LostInv, WakeOwed
  <2>3. \A i : ~ Wanted(u, i)
    BY <2>1 DEF Wanted
  <2>4. Len(wait[u].objs) \in 1..64
    BY ObjectListMembers DEF IInv, WaitInv, WaitTypeOK, Wait
  <2>5. \E i \in 1..Len(wait[u].objs) : Signaled(wait[u].objs[i], u)
    <3>1. \A n \in 1..64 : 1 \in 1..n
      OBVIOUS
    <3>2. 1 \in 1..Len(wait[u].objs)
      BY <2>4, <3>1, Zenon
    <3> QED
      BY <3>2 DEF ObjectsReady
  <2> QED
    BY <2>2, <2>3, <2>5
<1> QED
  BY <1>1, WaitCoreInvariant, WatchInvariant, WakeDueInvariant, PTL

\* "there cannot be any thread to wake up if the count is != 0" (release_semaphore) is right, so
\* long as no WAIT_ALL on a semaphore has a deadline.
THEOREM SemaphoreWakesNobody == TimedAllPlain => (Spec => []NobodyToWake)
<1> SUFFICES ASSUME TimedAllPlain PROVE Spec => []NobodyToWake
  OBVIOUS
<1>1. IInv /\ NoLostWakeup => NobodyToWake
  BY DEF NoLostWakeup, NobodyToWake, IInv, WaitInv, QueueConsistent, Objects
<1> QED
  BY <1>1, WaitCoreInvariant, WakesNotLost, PTL

-------------------------------------------------------------------------------
(* Whose turn it is.                                                       *)

\* A wait that gives its thread a mutex finds it free.
LEMMA GivenWasFree ==
  ASSUME ObjInv, NEW t \in Threads, NEW w, w.objs \in ObjectLists,
         Grant(t, Satisfied(w, CheckWait(t, w))),
         NEW m \in Mutexes, owner[m] # t, owner'[m] = t
  PROVE  count[m] = 0
<1>1. m \in Satisfied(w, CheckWait(t, w))
  BY DEF Grant
<1>2. Signaled(m, t)
  BY <1>1, CheckWaitStatus
<1> QED
  BY <1>2, DisjointAssumption DEF Signaled, MutexSignaled

\* A thread that waits for a free mutex could have it, and its turn is still to come.
LEMMA TurnIsToCome ==
  ASSUME IInv, StackInv, LostInv, NEW m \in Mutexes, count[m] = 0,
         NEW i \in 1..Len(queue[m]), NEW j \in 1..Len(queue[m]), i < j,
         NEW u, u = queue[m][i], ~ Suspended(u), wait[u].select # "wait_all"
  PROVE  /\ u \in Threads /\ wait[u] # NoWait /\ u # queue[m][j]
         /\ CheckWait(u, wait[u]) # NotReady
         /\ Called(m) \/ ThreadFrame(u) \in ToSet(stack)
<1>1. m \in Objects /\ queue[m] \in Seq(Threads)
  BY DEF Objects, IInv, WaitInv, WaitTypeOK
<1>2. u \in Threads /\ u \in ToSet(queue[m])
  BY <1>1, ToSetMembers
<1>3. wait[u] # NoWait /\ m \in ToSet(wait[u].objs) /\ u # queue[m][j]
  BY <1>1, <1>2 DEF IInv, WaitInv, QueueConsistent
<1>4. PICK q \in ObjectLists : q = wait[u].objs
  BY <1>2, <1>3 DEF IInv, WaitInv, WaitTypeOK, Wait
<1>5. PICK k \in 1..Len(q) : q[k] = m
  <2>1. ToSet(q) = {q[l] : l \in 1..Len(q)}
    BY ObjectListMembers, Zenon
  <2> QED
    BY <1>3, <1>4, <2>1
<1>6. Signaled(q[k], u)
  BY <1>5 DEF Signaled, MutexSignaled
<1>7. ObjectsReady(u, wait[u])
  BY <1>4, <1>6 DEF ObjectsReady
<1>8. CheckWait(u, wait[u]) # NotReady
  <2>1. CASE wait[u].interruptible /\ system_apc[u] > 0
    BY <2>1 DEF CheckWait, NotReady, STATUS_KERNEL_APC
  <2>2. CASE ~ (wait[u].interruptible /\ system_apc[u] > 0)
    <3>1. CheckWait(u, wait[u]) = FirstSignaled(u, wait[u]) - 1
      BY <1>7, <2>2 DEF CheckWait
    <3>2. FirstSignaled(u, wait[u]) \in 1..Len(q)
      BY <1>4, <1>6, FirstSignaledIs
    <3> QED
      BY <3>1, <3>2 DEF NotReady
  <2> QED
    BY <2>1, <2>2
<1>9. Wanted(u, k)
  BY <1>2, <1>3, <1>4, <1>6, <1>7 DEF LostInv, WakeOwed
<1>10. ~ Unchecked(u)
  BY <1>1 DEF StackInv, UncheckedLast
<1> QED
  BY <1>2, <1>3, <1>4, <1>5, <1>8, <1>9, <1>10 DEF Wanted, Watched

\* A frame at the bottom of the stack is alone there while it is worked off.
LEMMA BaseIsAlone ==
  ASSUME IInv, StackInv, stack # <<>>, Base(Top)
  PROVE  (\A o : ~ Called(o)) /\ \A u : ThreadFrame(u) \in ToSet(stack) => Top = ThreadFrame(u)
<1>1. ToSet(stack) = {Top} \union ToSet(Rest) /\ Rest = <<>>
  BY TopFacts DEF StackInv
<1>2. ToSet(stack) = {Top}
  BY <1>1 DEF ToSet
<1> QED
  BY <1>2 DEF Base, Called

(***************************************************************************)
(* A free mutex goes to the first of its queue that can take it: whoever   *)
(* is passed over is suspended or waits for more objects, or a walk over   *)
(* the queue is on the stack under the step that passes him.  (wake_up     *)
(* walks from the head and restarts there; do_release and abandon_mutexes  *)
(* call it without a max, and the select_on() of a SELECT_SIGNAL_AND_WAIT  *)
(* checks its own wait only after them.)                                   *)
(***************************************************************************)
THEOREM GrantsAreFifo == TimedAllPlain => (Spec => FifoGrants)
<1> SUFFICES ASSUME TimedAllPlain PROVE Spec => FifoGrants
  OBVIOUS
<1>1. ASSUME IInv, StackInv, LostInv, Next PROVE FifoGrant
  <2> SUFFICES ASSUME NEW m \in Mutexes, NEW t \in Threads,
                      owner[m] # t, owner'[m] = t, wait[t] # NoWait,
                      NEW i \in 1..Len(queue[m]), NEW j \in 1..Len(queue[m]),
                      i < j, queue[m][j] = t, ~ Suspended(queue[m][i]),
                      wait[queue[m][i]].select # "wait_all"
               PROVE  WalkIsToCome(m)
    BY DEF FifoGrant
  <2>1. PICK u : u = queue[m][i]
    OBVIOUS
  <2>2. ObjInv /\ wait[t].objs \in ObjectLists /\ stack \in Seq(Frame) /\ NoThread \notin Threads
    BY <1>1, ConstantsAssumption DEF IInv, WaitInv, WaitTypeOK, Wait
  <2>3. /\ owner' # owner
        /\ ~ UNCHANGED objVars
    BY DEF objVars
  <2>4. CASE WakeUp
    <3>1. PICK v : v = NextWoken(Top.obj)
      OBVIOUS
    <3>2. stack # <<>> /\ Top.op = "wake" /\ Wakeable(Top.obj) # {} /\ Top.obj \in Objects
      BY <2>2, <2>4, PopFrame, FrameFields DEF WakeUp
    <3>3. v \in Threads /\ wait[v] # NoWait
      BY <1>1, <3>1, <3>2, NextWokenIs
    <3>4. Grant(v, Satisfied(wait[v], CheckWait(v, wait[v])))
      BY <2>4, <3>1 DEF WakeUp, WakeThread
    <3>5. v = t
      BY <3>4 DEF Grant
    <3>6. count[m] = 0
      BY <2>2, <3>4, <3>5, GivenWasFree
    <3>7. /\ u \in Threads /\ CheckWait(u, wait[u]) # NotReady
          /\ Called(m) \/ ThreadFrame(u) \in ToSet(stack)
      BY <1>1, <2>1, <3>6, TurnIsToCome
    <3>8. ThreadFrame(u) \notin ToSet(stack)
      <4>1. /\ ToSet(stack) = {Top} \union ToSet(Rest)
            /\ \A f \in ToSet(Rest) : f.op # "wake_thread"
        BY <1>1, <3>2, TopFacts DEF StackInv
      <4> QED
        BY <3>2, <4>1, FrameKinds
    <3>9. Top.obj # m
      <4>1. SUFFICES ASSUME Top.obj = m PROVE FALSE
        OBVIOUS
      <4>2. PICK k \in 1..Len(queue[m]) :
              /\ queue[m][k] = t
              /\ \A l \in 1..Len(queue[m]) :
                   l < k => CheckWait(queue[m][l], wait[queue[m][l]]) = NotReady
        BY <1>1, <3>1, <3>2, <3>5, <4>1, NextWokenFirst
      <4>3. k = j
        BY <3>2, <4>1, <4>2, <1>1 DEF IInv, WaitInv, QueueConsistent
      <4> QED
        BY <2>1, <3>7, <4>2, <4>3
    <3> QED
      BY <3>7, <3>8, <3>9 DEF WalkIsToCome, Called
  <2>5. CASE WakeOneThread
    <3>1. PICK v : v = Top.thr
      OBVIOUS
    <3>2. stack # <<>> /\ Top.op = "wake_thread" /\ v \in Threads
      BY <2>2, <2>5, <3>1, PopFrame, FrameFields DEF WakeOneThread
    <3>3. Grant(v, Satisfied(wait[v], CheckWait(v, wait[v])))
      BY <2>3, <2>5, <3>1 DEF WakeOneThread, WakeThread
    <3>4. v = t
      BY <3>3 DEF Grant
    <3>5. count[m] = 0
      BY <2>2, <3>3, <3>4, GivenWasFree
    <3>6. u # t /\ (Called(m) \/ ThreadFrame(u) \in ToSet(stack))
      BY <1>1, <2>1, <3>5, TurnIsToCome
    <3>7. ~ Called(m) /\ (ThreadFrame(u) \in ToSet(stack) => Top = ThreadFrame(u))
      BY <1>1, <3>2, BaseIsAlone DEF Base
    <3>8. ThreadFrame(u).thr = u
      BY FrameKinds
    <3>9. ThreadFrame(u) \notin ToSet(stack)
      BY <3>1, <3>4, <3>6, <3>7, <3>8
    <3> QED
      BY <3>6, <3>7, <3>9
  <2>6. CASE SelectSatisfied
    <3>1. PICK v : v = Top.thr
      OBVIOUS
    <3>2. stack # <<>> /\ Top.op = "select" /\ v \in Threads
      BY <2>2, <2>6, <3>1, PopFrame, FrameFields DEF SelectSatisfied
    <3>3. Grant(v, Satisfied(wait[v], CheckWait(v, wait[v])))
      BY <2>6, <3>1 DEF SelectSatisfied
    <3>4. v = t
      BY <3>3 DEF Grant
    <3>5. count[m] = 0
      BY <2>2, <3>3, <3>4, GivenWasFree
    <3>6. Called(m) \/ ThreadFrame(u) \in ToSet(stack)
      BY <1>1, <2>1, <3>5, TurnIsToCome
    <3>7. ~ Called(m) /\ (ThreadFrame(u) \in ToSet(stack) => Top = ThreadFrame(u))
      BY <1>1, <3>2, BaseIsAlone DEF Base
    <3> QED
      BY <3>2, <3>6, <3>7, FrameKinds
  <2>7. CASE AbandonMutex
    BY <2>2, <2>7 DEF AbandonMutex, ObjInv, ObjTypeOK
  <2>8. CASE WakeUpDone \/ PulseReset \/ AbandonDone \/ ThreadExit \/ ThreadExitViolent
             \/ SelectSelfWoken \/ SelectPending
    BY <2>3, <2>8 DEF WakeUpDone, PulseReset, AbandonDone, ThreadExit, ThreadExitViolent,
                      SelectSelfWoken, SelectPending, objVars
  <2>9. CASE ClientRequest
    <3>1. PICK c \in Threads :
            \/ \E e \in AutoEvents \union ManualEvents :
                 SetEvent(c, e) \/ ResetEvent(c, e) \/ PulseEvent(c, e)
            \/ \E s \in Semaphores, n \in 0..SemMax : ReleaseSemaphore(c, s, n)
            \/ \E k \in Mutexes : ReleaseMutex(c, k)
            \/ \E r \in Requests : Select(c, r) \/ SignalAndWait(c, r) \/ SignalAndWaitFails(c, r)
            \/ \E v \in Threads :
                 \/ SuspendThread(c, v) \/ ResumeThread(c, v)
                 \/ QueueUserApc(c, v) \/ QueueSystemApc(c, v) \/ TerminateThread(c, v)
      BY <2>9 DEF ClientRequest
    <3>2. ASSUME NEW r \in Requests, Select(c, r) PROVE FALSE
      <4>1. wait[c] = NoWait /\ (UNCHANGED objVars \/ \E S : Grant(c, S))
        BY <3>2 DEF Select, CanCall
      <4> QED
        BY <2>3, <4>1 DEF Grant
    <3>3. ASSUME NEW k \in Mutexes, NEW frames, DoRelease(c, k, frames) PROVE FALSE
      BY <2>2, <3>3 DEF DoRelease, ObjInv, ObjTypeOK
    <3>4. ASSUME NEW r \in Requests, SignalAndWait(c, r) PROVE FALSE
      BY <2>3, <3>3, <3>4 DEF SignalAndWait
    <3>5. ASSUME NEW r \in Requests, SignalAndWaitFails(c, r) PROVE FALSE
      BY <2>3, <3>5 DEF SignalAndWaitFails, objVars
    <3>6. ASSUME NEW k \in Mutexes, ReleaseMutex(c, k) PROVE FALSE
      BY <3>3, <3>6 DEF ReleaseMutex
    <3>7. ASSUME NEW e, SetEvent(c, e) \/ ResetEvent(c, e) \/ PulseEvent(c, e) PROVE FALSE
      BY <2>3, <3>7 DEF SetEvent, ResetEvent, PulseEvent
    <3>8. ASSUME NEW s, NEW n, ReleaseSemaphore(c, s, n) PROVE FALSE
      BY <2>3, <3>8 DEF ReleaseSemaphore
    <3>9. ASSUME NEW v \in Threads,
                 \/ SuspendThread(c, v) \/ ResumeThread(c, v)
                 \/ QueueUserApc(c, v) \/ QueueSystemApc(c, v) \/ TerminateThread(c, v)
          PROVE  FALSE
      BY <2>3, <3>9 DEF SuspendThread, ResumeThread, QueueUserApc, QueueSystemApc,
                        TerminateThread, KillThread, objVars
    <3> QED
      BY <3>1, <3>2, <3>4, <3>5, <3>6, <3>7, <3>8, <3>9
  <2>10. CASE Environment
    <3>1. PICK v \in Threads : \/ ClientDies(v) \/ Hangup(v) \/ CheckTerminated(v)
                               \/ DeadlinePasses(v) \/ ThreadTimeout(v)
      BY <2>10 DEF Environment
    <3>2. CASE ThreadTimeout(v)
      <4>1. wait[v] # NoWait /\ Grant(v, Satisfied(wait[v], STATUS_TIMEOUT))
        BY <2>3, <3>2 DEF ThreadTimeout, WakeThread
      <4>2. wait[v].objs \in ObjectLists
        BY <1>1, <4>1 DEF IInv, WaitInv, WaitTypeOK, Wait
      <4>3. Satisfied(wait[v], STATUS_TIMEOUT) = {}
        BY <4>2, TimeoutSatisfies
      <4> QED
        BY <2>2, <4>1, <4>3 DEF Grant, ObjInv, ObjTypeOK
    <3>3. CASE ClientDies(v) \/ Hangup(v) \/ CheckTerminated(v) \/ DeadlinePasses(v)
      BY <2>3, <3>3 DEF ClientDies, Hangup, KillThread, CheckTerminated, DeadlinePasses, objVars
    <3> QED
      BY <3>1, <3>2, <3>3
  <2> QED
    BY <1>1, <2>4, <2>5, <2>6, <2>7, <2>8, <2>9, <2>10 DEF Next, ServerStep
<1>2. ASSUME UNCHANGED vars PROVE [FifoGrant]_vars
  BY <1>2
<1>3. IInv /\ (StackInv /\ ApcInv) /\ LostInv /\ [Next]_vars => [FifoGrant]_vars
  BY <1>1, <1>2
<1> QED
  BY <1>3, WaitCoreInvariant, WatchInvariant, WakeDueInvariant, PTL DEF Spec, FifoGrants

-------------------------------------------------------------------------------
(* What the clients are told.                                              *)

\* What a client concludes from the status that end_wait() returns is what satisfied() gave it.
LEMMA ConcludedIs ==
  ASSUME NEW w, w.objs \in ObjectLists, NEW st \in Ready
  PROVE  Concluded(w.objs, w.select = "wait_all", FinalStatus(w, st)) = Satisfied(w, st) \intersect Mutexes
<1> USE DEF NotReady, STATUS_USER_APC, STATUS_KERNEL_APC, STATUS_TIMEOUT, STATUS_ABANDONED_WAIT_0
<1> DEFINE L == 0..(Len(w.objs) - 1)
<1>b. Len(w.objs) \in 1..64
  BY ObjectListMembers, Zenon
<1>a. PICK k \in 1..64 : L = 0..(k - 1)
  BY <1>b, Zenon
<1> HIDE DEF L
<1>1. /\ \A i \in L : i \in 0..63
      /\ -1 \notin L /\ 192 \notin L /\ 256 \notin L /\ 258 \notin L
  BY <1>a
<1>2. CASE st \notin L
  <2>1. Satisfied(w, st) = {}
    BY <1>2 DEF Satisfied, L
  <2>2. FinalStatus(w, st) = st
    BY <2>1 DEF FinalStatus
  <2>3. st \notin 128..191
    BY DEF Ready
  <2> QED
    BY <1>2, <2>1, <2>2, <2>3 DEF Concluded, L
<1>3. CASE st \in L
  <2>1. st \in 0..63
    BY <1>1, <1>3
  <2>2. PICK n : n = IF FinalStatus(w, st) \in 128..191 THEN FinalStatus(w, st) - 128 ELSE FinalStatus(w, st)
    OBVIOUS
  <2>3. n = st
    <3>1. FinalStatus(w, st) = st + 128 \/ FinalStatus(w, st) = st
      BY DEF FinalStatus
    <3> QED
      BY <2>1, <2>2, <3>1
  <2>4. Concluded(w.objs, w.select = "wait_all", FinalStatus(w, st)) =
          (IF w.select = "wait_all" THEN ToSet(w.objs) ELSE {w.objs[n + 1]}) \intersect Mutexes
    <3>1. n \in 0..(Len(w.objs) - 1)
      BY <1>3, <2>3 DEF L
    <3> QED
      BY <2>2, <3>1 DEF Concluded
  <2> QED
    BY <1>3, <2>3, <2>4 DEF Satisfied, L
<1> QED
  BY <1>2, <1>3

\* satisfied() gives a mutex to one thread that may have it.
LEMMA GrantHeld ==
  ASSUME ObjInv, NEW t \in Threads, NEW S, \A o \in S : Signaled(o, t), Grant(t, S)
  PROVE  \A u \in Threads, m \in Mutexes :
           Held(u, m) \in Nat /\ Held(u, m)' = IF u = t /\ m \in S THEN Held(u, m) + 1 ELSE Held(u, m)
<1> SUFFICES ASSUME NEW u \in Threads, NEW m \in Mutexes
             PROVE  Held(u, m) \in Nat /\ Held(u, m)' = IF u = t /\ m \in S THEN Held(u, m) + 1 ELSE Held(u, m)
  OBVIOUS
<1>1. count[m] \in Nat /\ (count[m] = 0 <=> owner[m] = NoThread) /\ u # NoThread /\ t # NoThread
  BY ConstantsAssumption DEF ObjInv, ObjTypeOK
<1>2. CASE m \notin S
  <2>1. owner'[m] = owner[m] /\ count'[m] = count[m]
    BY <1>2 DEF Grant
  <2> QED
    BY <1>1, <1>2, <2>1 DEF Held
<1>3. CASE m \in S
  <2>1. owner'[m] = t /\ count'[m] = count[m] + 1
    BY <1>3 DEF Grant
  <2>2. m \notin Events /\ m \notin Semaphores
    BY DisjointAssumption
  <2>3. count[m] = 0 \/ owner[m] = t
    BY <1>3, <2>2 DEF Signaled, EventSignaled, SemaphoreSignaled, MutexSignaled
  <2> QED
    BY <1>1, <1>3, <2>1, <2>3 DEF Held
<1> QED
  BY <1>2, <1>3

\* A reply
LEMMA TellBelieved ==
  ASSUME ReplyTypeOK, NEW t \in Threads, NEW objs, NEW all, NEW st, Tell(t, objs, all, st)
  PROVE  \A u \in Threads, m \in Mutexes :
           /\ believed[u][m] \in Int
           /\ believed'[u][m] = IF u = t /\ m \in Concluded(objs, all, st) THEN believed[u][m] + 1
                                ELSE believed[u][m]
<1>1. /\ believed \in [Threads -> [Mutexes -> Int]]
      /\ believed' = [believed EXCEPT ![t] = [m \in Mutexes |->
           IF m \in Concluded(objs, all, st) THEN believed[t][m] + 1 ELSE believed[t][m]]]
  BY DEF ReplyTypeOK, Tell
<1>2. \A u \in Threads, m \in Mutexes : believed[u][m] \in Int
  BY <1>1
<1>3. believed'[t] = [m \in Mutexes |->
        IF m \in Concluded(objs, all, st) THEN believed[t][m] + 1 ELSE believed[t][m]]
  BY <1>1
<1>4. \A u \in Threads : u # t => believed'[u] = believed[u]
  BY <1>1
<1> QED
  BY <1>2, <1>3, <1>4

\* No select_on() is begun on the way.
BaseKept == \A f \in ToSet(stack') : Base(f) => f \in ToSet(stack)

\* A thread whose wait and whose select_on() the step leaves
LEMMA UntoldKept ==
  ASSUME Advances, BaseKept, NEW u \in Threads, NEW m, wait'[u] = wait[u], ~ AtTop(SelectFrame(u, m))
  PROVE  Untold(u, m)' <=> Untold(u, m)
<1>1. SelectFrame(u, m) \in ToSet(stack) => stack # <<>>
  BY DEF ToSet
<1>2. SelectFrame(u, m) \in ToSet(stack) => SelectFrame(u, m) \in ToSet(stack')
  BY <1>1 DEF Advances, AtTop
<1>3. SelectFrame(u, m) \in ToSet(stack') => SelectFrame(u, m) \in ToSet(stack)
  BY FrameKinds DEF BaseKept
<1> QED
  BY <1>2, <1>3 DEF Untold

\* wake_thread() for t.  A thread that is in its signal step is not told, but the rest of its
\* select_on() will do it.
LEMMA WokenTold ==
  ASSUME IInv, StackInv, CleanInv, SelectOwed, Told, Advances, BaseKept,
         \A u \in Threads, o \in Objects : ~ AtTop(SelectFrame(u, o)),
         NEW t \in Threads, wait[t] # NoWait, NEW st, NEW woken, NEW failed, WakeThread(t, st, woken, failed),
         \/ st = CheckWait(t, wait[t]) /\ st # NotReady
         \/ st = STATUS_TIMEOUT /\ wait[t].cookie,
         UNCHANGED gone
  PROVE  Told'
<1>1. PICK w \in Wait : w = wait[t] /\ w.objs \in ObjectLists
  BY DEF IInv, WaitInv, WaitTypeOK, Wait
<1>2. PICK S : S = Satisfied(w, st)
  OBVIOUS
<1>3. st \in Ready /\ \A o \in S : Signaled(o, t)
  BY <1>1, <1>2, CheckWaitStatus, TimeoutSatisfies DEF Ready
<1>4. Grant(t, S) /\ Unlink(t)
  BY <1>1, <1>2 DEF WakeThread
<1>5. \A u \in Threads, m \in Mutexes :
        Held(u, m) \in Nat /\ Held(u, m)' = IF u = t /\ m \in S THEN Held(u, m) + 1 ELSE Held(u, m)
  BY <1>3, <1>4, GrantHeld DEF IInv
<1>6. wait'[t] = NoWait /\ \A u \in Threads : u # t => wait'[u] = wait[u]
  BY <1>4, UnlinkSame
<1>7. /\ ReplyTypeOK /\ believed \in [Threads -> [Mutexes -> Int]] /\ Mutexes \subseteq Objects
      /\ state \in [Threads -> {"RUNNING", "TERMINATED"}]
  BY DEF IInv, ReplyTypeOK, Objects, WaitInv, WaitTypeOK
<1>8. \/ state'[t] = "TERMINATED" /\ Silent /\ \A u \in Threads : u # t => state'[u] = state[u]
      \/ w.cookie /\ Tell(t, w.objs, w.select = "wait_all", FinalStatus(w, st)) /\ UNCHANGED state
      \/ ~ w.cookie /\ Silent /\ UNCHANGED state
  BY <1>1, <1>7 DEF WakeThread
<1>9. \A u \in Threads, m \in Mutexes :
        /\ believed[u][m] \in Int
        /\ state'[u] = "RUNNING" => believed'[u][m] =
             IF u = t /\ m \in S /\ w.cookie THEN believed[u][m] + 1 ELSE believed[u][m]
  <2>1. CASE w.cookie /\ Tell(t, w.objs, w.select = "wait_all", FinalStatus(w, st)) /\ UNCHANGED state
    <3>1. Concluded(w.objs, w.select = "wait_all", FinalStatus(w, st)) = S \intersect Mutexes
      BY <1>1, <1>2, <1>3, ConcludedIs
    <3>2. \A u \in Threads, m \in Mutexes :
           /\ believed[u][m] \in Int
           /\ believed'[u][m] =
                IF u = t /\ m \in S \intersect Mutexes THEN believed[u][m] + 1 ELSE believed[u][m]
      BY <1>7, <2>1, <3>1, TellBelieved
    <3> QED
      BY <2>1, <3>2
  <2>2. CASE Silent /\ (state'[t] = "TERMINATED" \/ ~ w.cookie)
    <3>1. \A u \in Threads, m \in Mutexes : believed'[u][m] = believed[u][m] /\ believed[u][m] \in Int
      BY <1>7, <2>2 DEF Silent
    <3> QED
      BY <2>2, <3>1
  <2> QED
    BY <1>8, <2>1, <2>2
<1>10. ASSUME NEW u \in Threads, NEW m \in Mutexes, state'[u] = "RUNNING", ~ gone'[u]
       PROVE  believed'[u][m] + (IF Untold(u, m)' THEN 1 ELSE 0) = Held(u, m)'
  <2>0. state[u] = "RUNNING" /\ ~ gone[u]
    BY <1>7, <1>8, <1>10
  <2>1. believed[u][m] + (IF Untold(u, m) THEN 1 ELSE 0) = Held(u, m)
    BY <2>0 DEF Told
  <2>2. CASE u # t
    <3>1. Untold(u, m)' <=> Untold(u, m)
      BY <1>6, <1>7, <2>2, UntoldKept
    <3>2. believed'[u][m] = believed[u][m]
      BY <1>9, <1>10, <2>2
    <3> QED
      BY <1>5, <2>1, <2>2, <3>1, <3>2
  <2>3. CASE u = t /\ w.cookie
    <3>1. ~ Untold(u, m)
      BY <2>3 DEF Untold
    <3>2. ~ Untold(u, m)'
      <4>1. SelectFrame(t, m) \in ToSet(stack') => SelectFrame(t, m) \in ToSet(stack)
        BY FrameKinds DEF BaseKept
      <4>2. SelectFrame(t, m) \notin ToSet(stack)
        BY <1>1, <1>7, <2>3 DEF SelectOwed, Unchecked
      <4> QED
        BY <2>3, <4>1, <4>2 DEF Untold
    <3>3. believed'[u][m] = IF m \in S THEN believed[u][m] + 1 ELSE believed[u][m]
      BY <1>9, <1>10, <2>3
    <3>4. believed[u][m] \in Int
      BY <1>9
    <3> QED
      BY <1>5, <2>1, <2>3, <3>1, <3>2, <3>3, <3>4
  <2>4. CASE u = t /\ ~ w.cookie
    <3>1. ~ Untold(u, m) /\ Unchecked(t)
      BY <1>1, <2>4 DEF Untold, Unchecked
    <3>2. /\ w.select = "signal_and_wait" /\ Len(w.objs) = 1
          /\ SelectFrame(t, w.objs[1]) \in ToSet(stack) /\ w.objs[1] \in Objects
      <4>1. /\ w.select = "signal_and_wait" /\ Len(w.objs) = 1
            /\ SelectFrame(t, w.objs[1]) \in ToSet(stack)
        BY <1>1, <3>1 DEF StackInv, UncheckedLast
      <4>2. 1 \in 1..Len(w.objs)
        BY <4>1
      <4> QED
        BY <1>1, <4>1, <4>2, ObjectListMembers
    <3>3. SelectFrame(t, w.objs[1]) \in ToSet(stack')
      BY <3>2 DEF Advances, AtTop, ToSet
    <3>4. Untold(u, m)' <=> m = w.objs[1]
      <4>1. m # w.objs[1] => SelectFrame(t, m) \notin ToSet(stack)
        BY <1>1, <1>7 DEF SelectOwed
      <4>2. SelectFrame(t, m) \in ToSet(stack') => SelectFrame(t, m) \in ToSet(stack)
        BY FrameKinds DEF BaseKept
      <4> QED
        BY <1>6, <2>4, <3>3, <4>1, <4>2 DEF Untold
    <3>5. m \in S <=> m = w.objs[1]
      <4>1. CASE w.objs[1] \in Mutexes
        <5>1. (w.interruptible => ApcMax = 0) /\ ~ w.alertable /\ w.when # "past"
          BY <1>1, <3>1, <4>1 DEF CleanInv
        <5>2. ~ (w.interruptible /\ system_apc[t] > 0)
          BY <5>1 DEF IInv, ApcTypeOK
        <5>3. PICK i \in 1..Len(w.objs) : S = {w.objs[i]}
          BY <1>1, <1>2, <2>4, <3>2, <5>1, <5>2, CheckWaitCases
        <5>4. i = 1
          BY <3>2
        <5> QED
          BY <5>3, <5>4
      <4>2. CASE w.objs[1] \notin Mutexes
        <5>1. \A o \in S : o \in ToSet(w.objs)
          BY <1>1, <1>2, <1>3, <2>4, CheckWaitStatus
        <5>2. ToSet(w.objs) = {w.objs[i] : i \in 1..Len(w.objs)}
          BY <1>1, ObjectListMembers
        <5>3. ToSet(w.objs) = {w.objs[1]}
          BY <3>2, <5>2
        <5> QED
          BY <4>2, <5>1, <5>3
      <4> QED
        BY <4>1, <4>2
    <3>6. believed'[u][m] = believed[u][m] /\ believed[u][m] \in Int
      BY <1>9, <1>10, <2>4
    <3> QED
      BY <1>5, <2>1, <2>4, <3>1, <3>4, <3>5, <3>6
  <2> QED
    BY <2>2, <2>3, <2>4
<1> QED
  BY <1>10 DEF Told

\* The frames that a step of the top frame leaves or adds
LEMMA ServerFrames ==
  ASSUME IInv, StackInv, ServerStep
  PROVE  /\ Advances /\ BaseKept
         /\ \A u \in Threads : AbandonFrame(u) \in ToSet(stack') =>
              AbandonFrame(u) \in ToSet(stack) \/ state'[u] = "TERMINATED"
<1>0. /\ stack # <<>> /\ Shape(stack) /\ stack \in Seq(Frame)
      /\ state \in [Threads -> {"RUNNING", "TERMINATED"}]
  BY DEF IInv, WaitInv, WaitTypeOK, StackInv, ServerStep, WakeUp, WakeUpDone, WakeOneThread, PulseReset,
         AbandonMutex, AbandonDone, ThreadExit, ThreadExitViolent, SelectSelfWoken, SelectSatisfied,
         SelectPending
<1>1. /\ Top \in Frame /\ Rest \in Seq(Frame) /\ ToSet(stack) = {Top} \union ToSet(Rest)
      /\ Base(Top) => Rest = <<>>
  BY <1>0, TopFacts
<1>2. CASE WakeUp
  <2>1. Top.op = "wake" /\ Wakeable(Top.obj) # {}
    BY <1>2 DEF WakeUp
  <2>2. PICK o \in Objects : o = Top.obj
    BY <1>1, <2>1, FrameFields
  <2>3. PICK t \in Threads : t = NextWoken(o)
    BY <2>1, <2>2, NextWokenIs
  <2>4. /\ Advances
        /\ \/ ToSet(stack') = ToSet(Rest)
           \/ ToSet(stack') = ToSet(stack)
           \/ ToSet(stack') = {WakeFrame(o, Top.max - 1)}
           \/ ToSet(stack') = ToSet(stack) \union {AbandonFrame(t), ExitFrame(t)}
    BY <1>0, <1>2, <2>2, <2>3, WakeUpStack
  <2>5. BaseKept
    BY <1>1, <2>4, FrameKinds DEF BaseKept
  <2>6. ASSUME NEW u \in Threads, AbandonFrame(u) \in ToSet(stack'), AbandonFrame(u) \notin ToSet(stack)
        PROVE  state'[u] = "TERMINATED"
    <3>1. AbandonFrame(u) \in {AbandonFrame(t), ExitFrame(t)}
      BY <1>1, <2>4, <2>6, FrameKinds
    <3>2. u = t
      BY <3>1 DEF AbandonFrame, ExitFrame
    <3>3. state'[t] = "TERMINATED" \/ stack' = Rest \/ stack' = stack
            \/ stack' = <<WakeFrame(o, Top.max - 1)>> \o Rest
      BY <1>0, <1>2, <2>2, <2>3 DEF WakeUp, WakeThread
    <3>4. stack' = <<WakeFrame(o, Top.max - 1)>> \o Rest /\ Top.max # 0 =>
            ToSet(stack') = {WakeFrame(o, Top.max - 1)} \union ToSet(Rest)
      <4>1. Top.max \in Nat
        BY <1>1, <2>1, FrameFields
      <4>2. Top.max # 0 => Top.max - 1 \in Nat
        BY <4>1
      <4>3. Top.max # 0 => WakeFrame(o, Top.max - 1) \in Frame
        BY <4>2, FramesTyped
      <4>4. PICK f, q, s : f = WakeFrame(o, Top.max - 1) /\ q = Rest /\ s = stack'
        OBVIOUS
      <4>5. q \in Seq(Frame) /\ (Top.max # 0 => f \in Frame)
        BY <1>1, <4>3, <4>4
      <4>6. Top.max # 0 /\ s = <<f>> \o q => ToSet(s) = {f} \union ToSet(q)
        BY <4>5, ToSetPush
      <4> QED
        BY <4>4, <4>6
    <3>5. stack' = <<WakeFrame(o, Top.max - 1)>> \o Rest => Top.max # 0 \/ state'[t] = "TERMINATED" \/ stack' = stack
      BY <1>2, <2>2, <2>3, <1>0 DEF WakeUp, WakeThread
    <3>6. state'[t] # "TERMINATED" => AbandonFrame(u) \in ToSet(stack)
      BY <1>1, <2>6, <3>3, <3>4, <3>5, FrameKinds
    <3> QED
      BY <2>6, <3>2, <3>6
  <2> QED
    BY <2>4, <2>5, <2>6
<1>3. CASE ~ WakeUp
  <2>1. Advances /\ BaseKept
    BY <1>0, <1>3, ServerStack DEF BaseKept
  <2>2. ASSUME NEW u \in Threads, AbandonFrame(u) \in ToSet(stack'), AbandonFrame(u) \notin ToSet(stack)
        PROVE  state'[u] = "TERMINATED"
    <3>1. CASE stack' = Rest
      BY <1>1, <2>2, <3>1
    <3>2. ASSUME NEW o \in Objects, NEW q \in Seq(Frame), stack' = <<WakeFrame(o, 0)>> \o q,
                 ToSet(q) \subseteq ToSet(stack)
          PROVE  FALSE
      <4>1. PICK f \in Frame : f = WakeFrame(o, 0)
        BY FramesTyped
      <4>2. PICK s : s = stack'
        OBVIOUS
      <4>3. s = <<f>> \o q
        BY <3>2, <4>1, <4>2
      <4>4. ToSet(s) = {f} \union ToSet(q)
        BY <4>3, ToSetPush
      <4> QED
        BY <2>2, <3>2, <4>1, <4>2, <4>4, FrameKinds
    <3>3. CASE WakeOneThread /\ stack' # Rest
      <4>1. PICK t \in Threads : t = Top.thr
        BY <1>1, <3>3, FrameFields DEF WakeOneThread
      <4>2. Rest = <<>>
        BY <1>1, <3>3 DEF WakeOneThread, Base
      <4>3. stack' = <<AbandonFrame(t), ExitFrame(t)>> \o Rest /\ state' = [state EXCEPT ![t] = "TERMINATED"]
        BY <3>3, <4>1 DEF WakeOneThread, WakeThread
      <4>4. PICK f \in Frame, g \in Frame, s \in {stack'} : f = AbandonFrame(t) /\ g = ExitFrame(t)
        BY FramesTyped
      <4>5. ToSet(s) = {f, g}
        <5>1. s = <<f, g>>
          BY <4>2, <4>3, <4>4
        <5> QED
          BY <5>1, ToSetShort
      <4>6. u = t
        BY <2>2, <4>4, <4>5 DEF AbandonFrame, ExitFrame
      <4> QED
        BY <1>0, <4>3, <4>6
    <3>4. CASE AbandonMutex
      <4>1. PICK m \in Mutexes : stack' = <<WakeFrame(m, 0)>> \o stack
        BY <3>4 DEF AbandonMutex
      <4> QED
        BY <1>0, <3>2, <4>1 DEF Objects
    <3>5. CASE ThreadExit \/ ThreadExitViolent
      <4>1. Top.thr \in Objects
        BY <1>1, <3>5, FrameFields DEF ThreadExit, ThreadExitViolent, Objects, Events
      <4>2. stack' = Rest \/ stack' = <<WakeFrame(Top.thr, 0)>> \o Rest
        BY <3>5 DEF ThreadExit, ThreadExitViolent
      <4> QED
        BY <1>1, <3>1, <3>2, <4>1, <4>2
    <3> QED
      BY <1>3, <3>1, <3>3, <3>4, <3>5 DEF ServerStep, WakeUpDone, WakeOneThread, PulseReset,
         AbandonDone, SelectSelfWoken, SelectSatisfied, SelectPending
  <2> QED
    BY <2>1, <2>2
<1> QED
  BY <1>2, <1>3

\* The waits that a step of the top frame leaves or ends
LEMMA ServerSame ==
  ASSUME IInv, ServerStep, ~ SelectPending
  PROVE  /\ \A u \in Threads : wait'[u] = wait[u] \/ wait'[u] = NoWait
         /\ \A u \in Threads : state[u] = "TERMINATED" => state'[u] = "TERMINATED"
         /\ UNCHANGED gone
<1>1. state \in [Threads -> {"RUNNING", "TERMINATED"}] /\ wait \in [Threads -> Wait \union {NoWait}]
  BY DEF IInv, WaitInv, WaitTypeOK
<1>2. \/ UNCHANGED <<wait, state>>
      \/ \E t : wait' = [wait EXCEPT ![t] = NoWait]
                /\ (state' = state \/ state' = [state EXCEPT ![t] = "TERMINATED"])
  BY DEF ServerStep, WakeUp, WakeUpDone, WakeOneThread, WakeThread, Unlink, PulseReset,
     AbandonMutex, AbandonDone, ThreadExit, ThreadExitViolent, SelectSelfWoken, SelectSatisfied
<1>3. UNCHANGED gone
  BY DEF ServerStep, WakeUp, WakeUpDone, WakeOneThread, PulseReset, threadVars,
     AbandonMutex, AbandonDone, ThreadExit, ThreadExitViolent, SelectSelfWoken, SelectSatisfied
<1> QED
  BY <1>1, <1>2, <1>3

\* CleanInv, SelectOwed and Doomed in the steps below a request
LEMMA ServerStepClean ==
  ASSUME IInv, StackInv, CleanInv, SelectOwed, Doomed, ServerStep
  PROVE  CleanInv' /\ SelectOwed' /\ Doomed'
<1>1. /\ Advances /\ BaseKept
      /\ \A u \in Threads : AbandonFrame(u) \in ToSet(stack') =>
           AbandonFrame(u) \in ToSet(stack) \/ state'[u] = "TERMINATED"
  BY ServerFrames
<1>2. CASE ~ SelectPending
  <2>1. /\ \A u \in Threads : wait'[u] = wait[u] \/ wait'[u] = NoWait
        /\ \A u \in Threads : state[u] = "TERMINATED" => state'[u] = "TERMINATED"
    BY <1>2, ServerSame
  <2>2. CleanInv'
    BY <2>1 DEF CleanInv, Unchecked
  <2>3. Doomed'
    BY <1>1, <2>1 DEF Doomed
  <2>4. ASSUME NEW u \in Threads, NEW o \in Objects, SelectFrame(u, o) \in ToSet(stack')
        PROVE  wait'[u] = NoWait \/ (Unchecked(u)' /\ wait'[u].objs[1] = o)
    <3>1. SelectFrame(u, o) \in ToSet(stack)
      BY <1>1, <2>4, FrameKinds DEF BaseKept
    <3>2. wait[u] = NoWait \/ (Unchecked(u) /\ wait[u].objs[1] = o)
      BY <3>1 DEF SelectOwed
    <3> QED
      BY <2>1, <3>2 DEF Unchecked
  <2> QED
    BY <2>2, <2>3, <2>4 DEF SelectOwed
<1>3. CASE SelectPending
  <2>1. Top.op = "select" /\ stack # <<>> /\ stack' = Rest /\ UNCHANGED state
    BY <1>3 DEF SelectPending
  <2>2. /\ Top \in Frame /\ Rest \in Seq(Frame) /\ ToSet(stack) = {Top} \union ToSet(Rest)
        /\ Rest = <<>>
    BY <2>1, TopFacts DEF StackInv, Base
  <2>3. ToSet(stack') = {} /\ ToSet(stack) = {Top}
    BY <2>1, <2>2 DEF ToSet
  <2>4. PICK t \in Threads : t = Top.thr
    BY <2>1, <2>2, FrameFields
  <2>5. /\ wait[t] # NoWait /\ wait \in [Threads -> Wait \union {NoWait}]
        /\ wait' = [wait EXCEPT ![t].cookie = TRUE, ![t].user = (@ \/ wait[t].when # "infinite")]
    BY <1>3, <2>4 DEF SelectPending, IInv, WaitInv, WaitTypeOK
  <2>6. \A u \in Threads : ~ Unchecked(u)'
    <3>1. wait[t] \in Wait
      BY <2>5
    <3>2. wait'[t].cookie
      BY <2>5, <3>1 DEF Wait
    <3>3. ASSUME NEW u \in Threads, u # t PROVE ~ Unchecked(u) /\ wait'[u] = wait[u]
      <4>1. ~ Unchecked(u)
        BY <2>3, <2>4, <3>3, FrameKinds DEF StackInv, UncheckedLast
      <4> QED
        BY <2>5, <3>3, <4>1
    <3> QED
      BY <3>2, <3>3 DEF Unchecked
  <2> QED
    BY <2>3, <2>6 DEF CleanInv, SelectOwed, Doomed
<1> QED
  BY <1>2, <1>3

\* A step of a handler that neither gives or takes a mutex nor tells anything
LEMMA QuietTold ==
  ASSUME IInv, Told, Advances, BaseKept, UNCHANGED <<state, gone, owner, count, believed, wait>>,
         \A u \in Threads, o \in Objects : ~ AtTop(SelectFrame(u, o))
  PROVE  Told'
<1>1. Mutexes \subseteq Objects
  BY DEF Objects
<1>2. ASSUME NEW u \in Threads, NEW m \in Mutexes
      PROVE  (Untold(u, m)' <=> Untold(u, m)) /\ Held(u, m)' = Held(u, m)
  <2>1. Untold(u, m)' <=> Untold(u, m)
    BY <1>1, UntoldKept
  <2> QED
    BY <2>1 DEF Held
<1>3. ASSUME NEW u \in Threads, NEW m \in Mutexes, state'[u] = "RUNNING", ~ gone'[u]
      PROVE  believed'[u][m] + (IF Untold(u, m)' THEN 1 ELSE 0) = Held(u, m)'
  BY <1>2, <1>3 DEF Told
<1> QED
  BY <1>3 DEF Told

\* Told in the steps below a request
LEMMA ServerStepTold ==
  ASSUME IInv, StackInv, BeliefInv, ServerStep
  PROVE  Told'
<1>0. stack # <<>> /\ Shape(stack) /\ CleanInv /\ SelectOwed /\ Doomed /\ Told
  BY DEF BeliefInv, StackInv, ServerStep, WakeUp, WakeUpDone, WakeOneThread, PulseReset, AbandonMutex,
         AbandonDone, ThreadExit, ThreadExitViolent, SelectSelfWoken, SelectSatisfied, SelectPending
<1>a. ToSet(<<>>) = {}
  BY DEF ToSet
<1>1. /\ Top \in Frame /\ Rest \in Seq(Frame) /\ ToSet(stack) = {Top} \union ToSet(Rest)
      /\ Base(Top) => Rest = <<>>
  BY <1>0, TopFacts
<1>2. Advances /\ BaseKept
  BY ServerFrames
<1>3. /\ ObjInv /\ ReplyTypeOK /\ believed \in [Threads -> [Mutexes -> Int]] /\ Mutexes \subseteq Objects
      /\ state \in [Threads -> {"RUNNING", "TERMINATED"}] /\ NoThread \notin Threads
  BY ConstantsAssumption DEF IInv, ReplyTypeOK, Objects, WaitInv, WaitTypeOK
<1>4. Top.op # "select" => \A u \in Threads, o \in Objects : ~ AtTop(SelectFrame(u, o))
  BY FrameKinds DEF AtTop
<1>5. CASE WakeUp
  <2>1. Top.op = "wake" /\ Wakeable(Top.obj) # {} /\ UNCHANGED gone
    BY <1>5 DEF WakeUp, threadVars
  <2>2. PICK o \in Objects : o = Top.obj
    BY <1>1, <2>1, FrameFields
  <2>3. PICK t \in Threads : t = NextWoken(o) /\ wait[t] # NoWait
    BY <2>1, <2>2, NextWokenIs
  <2>4. PICK st : st = CheckWait(t, wait[t])
    OBVIOUS
  <2>5. st # NotReady
    BY <2>1, <2>2, <2>3, <2>4, NextWokenFirst
  <2>6. PICK woken, failed : WakeThread(t, st, woken, failed)
    BY <1>5, <2>2, <2>3, <2>4 DEF WakeUp
  <2> QED
    BY <1>0, <1>2, <1>4, <2>1, <2>3, <2>4, <2>5, <2>6, WokenTold
<1>6. CASE WakeOneThread
  <2>1. Top.op = "wake_thread" /\ UNCHANGED gone
    BY <1>6 DEF WakeOneThread, threadVars
  <2>2. PICK t \in Threads : t = Top.thr
    BY <1>1, <2>1, FrameFields
  <2>3. CASE wait[t] # NoWait /\ CheckWait(t, wait[t]) # NotReady
    <3>1. PICK st : st = CheckWait(t, wait[t])
      OBVIOUS
    <3>2. PICK woken, failed : WakeThread(t, st, woken, failed)
      BY <1>6, <2>2, <2>3, <3>1 DEF WakeOneThread
    <3> QED
      BY <1>0, <1>2, <1>4, <2>1, <2>3, <3>1, <3>2, WokenTold
  <2>4. CASE ~ (wait[t] # NoWait /\ CheckWait(t, wait[t]) # NotReady)
    <3>1. UNCHANGED <<state, wait, owner, count, believed>>
      BY <1>6, <2>2, <2>4 DEF WakeOneThread, Silent, objVars
    <3> QED
      BY <1>0, <1>2, <1>4, <2>1, <3>1, QuietTold
  <2> QED
    BY <2>3, <2>4
<1>7. CASE WakeUpDone \/ PulseReset \/ AbandonDone \/ ThreadExit \/ ThreadExitViolent
  <2>1. UNCHANGED <<state, gone, owner, count, believed, wait>> /\ Top.op # "select"
    BY <1>7 DEF WakeUpDone, PulseReset, AbandonDone, ThreadExit, ThreadExitViolent, Silent, objVars, threadVars
  <2> QED
    BY <1>0, <1>2, <1>4, <2>1, QuietTold
<1>8. CASE AbandonMutex
  <2>1. Top.op = "abandon" /\ UNCHANGED <<state, gone, believed, wait>>
    BY <1>8 DEF AbandonMutex, threadVars, Silent
  <2>2. PICK t \in Threads : t = Top.thr /\ Top = AbandonFrame(t)
    BY <1>1, <2>1, FrameFields
  <2>3. state[t] = "TERMINATED"
    BY <1>0, <1>1, <2>2 DEF Doomed
  <2>4. PICK n \in Mutexes : owner[n] = t /\ count' = [count EXCEPT ![n] = 0]
                             /\ owner' = [owner EXCEPT ![n] = NoThread]
    BY <1>8, <2>2 DEF AbandonMutex
  <2>5. ASSUME NEW u \in Threads, NEW m \in Mutexes, state'[u] = "RUNNING", ~ gone'[u]
        PROVE  believed'[u][m] + (IF Untold(u, m)' THEN 1 ELSE 0) = Held(u, m)'
    <3>1. u # t /\ state[u] = "RUNNING" /\ ~ gone[u]
      BY <2>1, <2>3, <2>5
    <3>2. Held(u, m)' = Held(u, m)
      BY <1>3, <2>4, <3>1 DEF Held, ObjInv, ObjTypeOK
    <3>3. Untold(u, m)' <=> Untold(u, m)
      BY <1>2, <1>3, <1>4, <2>1, UntoldKept
    <3>4. believed[u][m] + (IF Untold(u, m) THEN 1 ELSE 0) = Held(u, m)
      BY <1>0, <3>1 DEF Told
    <3> QED
      BY <2>1, <3>2, <3>3, <3>4
  <2> QED
    BY <2>5 DEF Told
<1>9. CASE SelectSelfWoken \/ SelectSatisfied \/ SelectPending
  <2>1. Top.op = "select" /\ stack' = Rest /\ UNCHANGED <<state, gone>>
    BY <1>9 DEF SelectSelfWoken, SelectSatisfied, SelectPending, threadVars
  <2>2. ToSet(stack') = {} /\ ToSet(stack) = {Top} /\ \A u, m : ~ Untold(u, m)'
    BY <1>a, <1>1, <2>1 DEF Base, Untold
  <2>3. PICK t \in Threads, o \in Objects : t = Top.thr /\ o = Top.obj
    BY <1>1, <2>1, FrameFields
  <2>4. Top = SelectFrame(t, o)
    BY <1>1, <2>1, <2>3 DEF Frame, SelectFrame
  <2>5. \A u, m : Untold(u, m) <=> u = t /\ m = o /\ wait[t] = NoWait
    BY <2>2, <2>4, FrameKinds DEF Untold
  <2>6. CASE SelectSelfWoken
    <3>1. /\ wait[t] = NoWait /\ Tell(t, <<o>>, FALSE, STATUS_WAIT_0) /\ UNCHANGED <<owner, count>>
      BY <2>3, <2>6 DEF SelectSelfWoken, objVars
    <3>2. Concluded(<<o>>, FALSE, STATUS_WAIT_0) = {o} \intersect Mutexes
      BY DEF Concluded, STATUS_WAIT_0
    <3>3. \A u \in Threads, m \in Mutexes :
           /\ believed[u][m] \in Int
           /\ believed'[u][m] = IF u = t /\ m \in {o} \intersect Mutexes THEN believed[u][m] + 1
                                ELSE believed[u][m]
      <4>1. PICK q, all, st : q = <<o>> /\ all = FALSE /\ st = STATUS_WAIT_0
        OBVIOUS
      <4>2. Tell(t, q, all, st) /\ Concluded(q, all, st) = {o} \intersect Mutexes
        BY <3>1, <3>2, <4>1
      <4> QED
        BY <1>3, <4>2, TellBelieved
    <3>4. ASSUME NEW u \in Threads, NEW m \in Mutexes, state'[u] = "RUNNING", ~ gone'[u]
          PROVE  believed'[u][m] + (IF Untold(u, m)' THEN 1 ELSE 0) = Held(u, m)'
      <4>1. believed[u][m] + (IF Untold(u, m) THEN 1 ELSE 0) = Held(u, m)
        BY <1>0, <2>1, <3>4 DEF Told
      <4>2. Held(u, m)' = Held(u, m)
        BY <3>1 DEF Held
      <4>3. believed[u][m] \in Int /\ (Untold(u, m) <=> u = t /\ m = o) /\ ~ Untold(u, m)'
        BY <2>2, <2>5, <3>1, <3>3
      <4>4. believed'[u][m] = IF u = t /\ m = o THEN believed[u][m] + 1 ELSE believed[u][m]
        BY <3>3
      <4> QED
        BY <4>1, <4>2, <4>3, <4>4
    <3> QED
      BY <3>4 DEF Told
  <2>7. CASE SelectSatisfied
    <3>1. PICK w \in Wait : w = wait[t] /\ w.objs \in ObjectLists /\ w # NoWait
      BY <2>3, <2>7 DEF SelectSatisfied, IInv, WaitInv, WaitTypeOK, Wait
    <3>2. PICK st : st = CheckWait(t, w)
      OBVIOUS
    <3>3. PICK S : S = Satisfied(w, st)
      OBVIOUS
    <3>4. Unchecked(t)
      BY <1>0, <1>1, <2>4, <3>1 DEF SelectOwed
    <3>5. w.select = "signal_and_wait"
      BY <3>1, <3>4 DEF StackInv, UncheckedLast
    <3>6. Grant(t, S) /\ Tell(t, w.objs, w.select = "wait_all", FinalStatus(w, st))
      <4>1. (w.select = "wait_all") = FALSE
        BY <3>5
      <4>2. Tell(t, w.objs, FALSE, FinalStatus(w, st))
        BY <2>3, <2>7, <3>1, <3>2, <3>3 DEF SelectSatisfied
      <4> QED
        BY <2>3, <2>7, <3>1, <3>2, <3>3, <4>1, <4>2 DEF SelectSatisfied
    <3>7. st \in Ready /\ \A p \in S : Signaled(p, t)
      BY <3>1, <3>2, <3>3, CheckWaitStatus
    <3>8. Concluded(w.objs, w.select = "wait_all", FinalStatus(w, st)) = S \intersect Mutexes
      BY <3>1, <3>3, <3>7, ConcludedIs
    <3>9. \A u \in Threads, m \in Mutexes :
           /\ believed[u][m] \in Int
           /\ believed'[u][m] = IF u = t /\ m \in S \intersect Mutexes THEN believed[u][m] + 1
                                ELSE believed[u][m]
      BY <1>3, <3>6, <3>8, TellBelieved
    <3>10. \A u \in Threads, m \in Mutexes :
             Held(u, m) \in Nat /\ Held(u, m)' = IF u = t /\ m \in S THEN Held(u, m) + 1 ELSE Held(u, m)
      BY <1>3, <3>6, <3>7, GrantHeld
    <3>11. ASSUME NEW u \in Threads, NEW m \in Mutexes, state'[u] = "RUNNING", ~ gone'[u]
           PROVE  believed'[u][m] + (IF Untold(u, m)' THEN 1 ELSE 0) = Held(u, m)'
      <4>1. believed[u][m] + (IF Untold(u, m) THEN 1 ELSE 0) = Held(u, m)
        BY <1>0, <2>1, <3>11 DEF Told
      <4>2. ~ Untold(u, m) /\ ~ Untold(u, m)'
        BY <2>2, <2>5, <3>1
      <4> QED
        BY <3>9, <3>10, <4>1, <4>2
    <3> QED
      BY <3>11 DEF Told
  <2>8. CASE SelectPending
    <3>1. wait[t] # NoWait /\ UNCHANGED <<owner, count, believed>>
      BY <2>3, <2>8 DEF SelectPending, Silent, objVars
    <3>2. ASSUME NEW u \in Threads, NEW m \in Mutexes, state'[u] = "RUNNING", ~ gone'[u]
          PROVE  believed'[u][m] + (IF Untold(u, m)' THEN 1 ELSE 0) = Held(u, m)'
      <4>1. believed[u][m] + (IF Untold(u, m) THEN 1 ELSE 0) = Held(u, m)
        BY <1>0, <2>1, <3>2 DEF Told
      <4>2. ~ Untold(u, m) /\ ~ Untold(u, m)' /\ Held(u, m)' = Held(u, m)
        BY <2>2, <2>5, <3>1 DEF Held
      <4> QED
        BY <3>1, <4>1, <4>2
    <3> QED
      BY <3>2 DEF Told
  <2> QED
    BY <1>9, <2>6, <2>7, <2>8
<1> QED
  BY <1>5, <1>6, <1>7, <1>8, <1>9 DEF ServerStep

\* What is begun between two requests, but for SELECT_SIGNAL_AND_WAIT: no select_on() is left to
\* finish, and nobody but a killed thread loses its mutexes.
Plainly ==
  /\ \A t \in Threads, o \in Objects : SelectFrame(t, o) \notin ToSet(stack')
  /\ \A t \in Threads : AbandonFrame(t) \in ToSet(stack') => state'[t] = "TERMINATED"
  /\ \A t \in Threads : ~ Unchecked(t)'

LEMMA PlainlyClean ==
  ASSUME Plainly
  PROVE  CleanInv' /\ SelectOwed' /\ Doomed' /\ \A t \in Threads, m \in Mutexes : ~ Untold(t, m)'
<1>1. Mutexes \subseteq Objects
  BY DEF Objects
<1> QED
  BY <1>1 DEF Plainly, CleanInv, SelectOwed, Doomed, Untold

\* The frames that begin a request
LEMMA BegunPlainly ==
  ASSUME \/ stack' = <<>>
         \/ \E f : stack' = <<f>> /\ f.op \in {"wake", "wake_thread"}
         \/ \E f, g : stack' = <<f, g>> /\ f.op = "wake" /\ g.op = "reset"
         \/ \E t \in Threads : \E g : /\ stack' = <<AbandonFrame(t), g>> /\ g.op \in {"exit", "poll"}
                                       /\ state'[t] = "TERMINATED",
         \A u \in Threads : ~ Unchecked(u)'
  PROVE  Plainly
<1>1. \A f \in ToSet(stack') : \/ f.op \notin {"select", "abandon"}
                               \/ \E t \in Threads : f = AbandonFrame(t) /\ state'[t] = "TERMINATED"
  <2>1. CASE stack' = <<>>
    BY <2>1 DEF ToSet
  <2>2. ASSUME NEW f, stack' = <<f>>, f.op \in {"wake", "wake_thread"}
        PROVE  \A h \in ToSet(stack') : h.op \notin {"select", "abandon"}
    BY <2>2 DEF ToSet
  <2>3. ASSUME NEW f, NEW g, stack' = <<f, g>>, f.op = "wake" /\ g.op = "reset"
        PROVE  \A h \in ToSet(stack') : h.op \notin {"select", "abandon"}
    BY <2>3 DEF ToSet
  <2>4. ASSUME NEW t \in Threads, NEW g, stack' = <<AbandonFrame(t), g>>, g.op \in {"exit", "poll"},
               state'[t] = "TERMINATED"
        PROVE  \A h \in ToSet(stack') : h.op \notin {"select", "abandon"} \/ h = AbandonFrame(t)
    <3>1. ToSet(<<AbandonFrame(t), g>>) = {AbandonFrame(t), g}
      BY DEF ToSet
    <3> QED
      BY <2>4, <3>1
  <2> QED
    BY <2>1, <2>2, <2>3, <2>4
<1>2. \A t \in Threads, o \in Objects : SelectFrame(t, o) \notin ToSet(stack')
  BY <1>1, FrameKinds
<1>3. \A t \in Threads : AbandonFrame(t).thr = t
  BY DEF AbandonFrame
<1>4. \A t \in Threads : AbandonFrame(t) \in ToSet(stack') => state'[t] = "TERMINATED"
  BY <1>1, <1>3, FrameKinds
<1> QED
  BY <1>2, <1>4 DEF Plainly

\* A step between two requests keeps what each client was told and has in balance.
LEMMA BegunTold ==
  ASSUME IInv, IInv', Idle, Told, \A t \in Threads, m \in Mutexes : ~ Untold(t, m)',
         \A t \in Threads, m \in Mutexes : state'[t] = "RUNNING" /\ ~ gone'[t] =>
           /\ state[t] = "RUNNING" /\ ~ gone[t]
           /\ believed[t][m] = Held(t, m) => believed'[t][m] = Held(t, m)'
  PROVE  Told'
<1>0. ToSet(stack) = {}
  BY DEF Idle, ToSet
<1>1. \A t \in Threads, m \in Mutexes : ~ Untold(t, m)
  BY <1>0 DEF Untold
<1>2. ASSUME NEW t \in Threads, NEW m \in Mutexes, state'[t] = "RUNNING", ~ gone'[t]
      PROVE  believed'[t][m] + (IF Untold(t, m)' THEN 1 ELSE 0) = Held(t, m)'
  <2>1. believed[t][m] + 0 = Held(t, m)
    BY <1>1, <1>2 DEF Told
  <2>2. believed[t][m] \in Int /\ believed'[t][m] \in Int
    BY DEF IInv, ReplyTypeOK
  <2>3. believed'[t][m] = Held(t, m)'
    BY <1>2, <2>1, <2>2
  <2> QED
    BY <1>2, <2>2, <2>3
<1> QED
  BY <1>2 DEF Told

\* do_release() takes one of c's holds of m.
LEMMA ReleaseHeld ==
  ASSUME ObjInv, ReplyTypeOK, NEW c \in Threads, NEW m \in Mutexes, NEW frames, DoRelease(c, m, frames),
         believed' = [believed EXCEPT ![c][m] = @ - 1]
  PROVE  \A u \in Threads, n \in Mutexes : believed[u][n] = Held(u, n) => believed'[u][n] = Held(u, n)'
<1> SUFFICES ASSUME NEW u \in Threads, NEW n \in Mutexes, believed[u][n] = Held(u, n)
             PROVE  believed'[u][n] = Held(u, n)'
  OBVIOUS
<1>1. /\ owner[m] = c /\ count[m] \in Nat /\ count[m] # 0 /\ c # NoThread
      /\ count' = [count EXCEPT ![m] = count[m] - 1]
      /\ owner' = [owner EXCEPT ![m] = IF count[m] = 1 THEN NoThread ELSE owner[m]]
      /\ count \in [Mutexes -> 0..CountMax] /\ owner \in [Mutexes -> Threads \union {NoThread}]
      /\ NoThread \notin Threads
  BY ConstantsAssumption DEF DoRelease, ObjInv, ObjTypeOK
<1>2. believed'[u][n] = IF u = c /\ n = m THEN believed[u][n] - 1 ELSE believed[u][n]
  BY DEF ReplyTypeOK
<1>3. CASE n # m
  <2>1. Held(u, n)' = Held(u, n)
    BY <1>1, <1>3 DEF Held
  <2> QED
    BY <1>2, <1>3, <2>1
<1>4. CASE n = m /\ u # c
  <2>1. Held(u, n) = 0 /\ Held(u, n)' = 0
    BY <1>1, <1>4 DEF Held
  <2> QED
    BY <1>2, <1>4, <2>1
<1>5. CASE n = m /\ u = c
  <2>1. Held(u, n) = count[m]
    BY <1>1, <1>5 DEF Held
  <2>2. Held(u, n)' = count[m] - 1
    BY <1>1, <1>5 DEF Held
  <2> QED
    BY <1>2, <1>5, <2>1, <2>2
<1> QED
  BY <1>3, <1>4, <1>5

\* CleanInv, SelectOwed, Doomed and Told in every request
LEMMA ClientRequestTold ==
  ASSUME CleanSignals, IInv, IInv', StackInv, ApcInv, BeliefInv, ClientRequest
  PROVE  BeliefInv'
<1>1. PICK c \in Threads :
        \/ \/ \E e \in AutoEvents \union ManualEvents :
                SetEvent(c, e) \/ ResetEvent(c, e) \/ PulseEvent(c, e)
           \/ \E s \in Semaphores, n \in 0..SemMax : ReleaseSemaphore(c, s, n)
           \/ \E r \in Requests : SignalAndWaitFails(c, r)
           \/ \E t \in Threads : SuspendThread(c, t) \/ ResumeThread(c, t)
                                 \/ QueueUserApc(c, t) \/ QueueSystemApc(c, t)
        \/ \E m \in Mutexes : ReleaseMutex(c, m)
        \/ \E r \in Requests : Select(c, r) \/ SignalAndWait(c, r)
        \/ \E t \in Threads : TerminateThread(c, t)
  BY DEF ClientRequest
<1>0. Idle /\ wait[c] = NoWait /\ stack = <<>>
  BY <1>1 DEF SetEvent, ResetEvent, PulseEvent, ReleaseSemaphore, ReleaseMutex, SignalAndWaitFails, CanCall,
     SuspendThread, ResumeThread, QueueUserApc, QueueSystemApc, Select, SignalAndWait, TerminateThread, Idle
<1>2. /\ ObjInv /\ ReplyTypeOK /\ Told /\ NoThread \notin Threads
      /\ state \in [Threads -> {"RUNNING", "TERMINATED"}]
      /\ \A u \in Threads : ~ Unchecked(u)
  BY <1>0, IdleMeans, ConstantsAssumption DEF IInv, BeliefInv, WaitInv, WaitTypeOK
<1>3. CASE \/ \E e \in AutoEvents \union ManualEvents :
                SetEvent(c, e) \/ ResetEvent(c, e) \/ PulseEvent(c, e)
           \/ \E s \in Semaphores, n \in 0..SemMax : ReleaseSemaphore(c, s, n)
           \/ \E r \in Requests : SignalAndWaitFails(c, r)
           \/ \E t \in Threads : SuspendThread(c, t) \/ ResumeThread(c, t)
                                 \/ QueueUserApc(c, t) \/ QueueSystemApc(c, t)
  <2>1. UNCHANGED <<state, gone, wait, owner, count, believed>>
    BY <1>3 DEF SetEvent, ResetEvent, PulseEvent, ReleaseSemaphore, SignalAndWaitFails, Silent, threadVars,
       objVars, SuspendThread, ResumeThread, QueueUserApc, QueueSystemApc
  <2>2. \/ stack' = <<>>
        \/ \E f : stack' = <<f>> /\ f.op \in {"wake", "wake_thread"}
        \/ \E f, g : stack' = <<f, g>> /\ f.op = "wake" /\ g.op = "reset"
    <3>1. CASE \E e \in AutoEvents \union ManualEvents :
                 SetEvent(c, e) \/ ResetEvent(c, e) \/ PulseEvent(c, e)
      BY <1>0, <3>1, FrameKinds DEF SetEvent, ResetEvent, PulseEvent
    <3>2. CASE \E s \in Semaphores, n \in 0..SemMax : ReleaseSemaphore(c, s, n)
      <4>1. PICK s \in Semaphores, n \in 0..SemMax : stack' = <<>> \/ stack' = <<WakeFrame(s, n)>>
        BY <3>2 DEF ReleaseSemaphore, DoReleaseSemaphore
      <4> QED
        BY <4>1, FrameKinds
    <3>3. CASE \/ \E r \in Requests : SignalAndWaitFails(c, r)
               \/ \E t \in Threads : SuspendThread(c, t) \/ ResumeThread(c, t)
                                     \/ QueueUserApc(c, t) \/ QueueSystemApc(c, t)
      BY <1>0, <3>3, FrameKinds DEF SignalAndWaitFails, SuspendThread, ResumeThread, QueueUserApc,
         QueueSystemApc
    <3> QED
      BY <1>3, <3>1, <3>2, <3>3
  <2>3. Plainly
    BY <1>2, <2>1, <2>2, BegunPlainly DEF Unchecked
  <2>4. Told'
    BY <1>0, <1>2, <2>1, <2>3, PlainlyClean, BegunTold DEF Held
  <2> QED
    BY <2>3, <2>4, PlainlyClean DEF BeliefInv
<1>4. ASSUME NEW m \in Mutexes, ReleaseMutex(c, m) PROVE BeliefInv'
  <2>1. /\ DoRelease(c, m, <<>>) /\ believed' = [believed EXCEPT ![c][m] = @ - 1]
        /\ UNCHANGED <<state, gone, wait>>
    BY <1>4 DEF ReleaseMutex, threadVars
  <2>2. stack' = <<>> \/ stack' = <<WakeFrame(m, 0)>>
    BY <2>1 DEF DoRelease
  <2>3. Plainly
    BY <1>2, <2>1, <2>2, FrameKinds, BegunPlainly DEF Unchecked
  <2>4. \A u \in Threads, n \in Mutexes : believed[u][n] = Held(u, n) => believed'[u][n] = Held(u, n)'
    BY <1>2, <2>1, ReleaseHeld
  <2>5. Told'
    BY <1>0, <1>2, <2>1, <2>3, <2>4, PlainlyClean, BegunTold
  <2> QED
    BY <2>3, <2>5, PlainlyClean DEF BeliefInv
<1>5. ASSUME NEW t \in Threads, TerminateThread(c, t) PROVE BeliefInv'
  <2>1. KillThread(t, TRUE)
    BY <1>5 DEF TerminateThread
  <2>2. /\ state' = [state EXCEPT ![t] = "TERMINATED"] /\ Unlink(t)
        /\ UNCHANGED <<gone, owner, count, believed>>
        /\ stack' = <<AbandonFrame(t), PollFrame(t)>> \/ stack' = <<AbandonFrame(t), ExitFrame(t)>>
    BY <2>1 DEF KillThread, Silent, threadVars, objVars
  <2>3. wait'[t] = NoWait /\ \A u \in Threads : u # t => wait'[u] = wait[u]
    BY <2>2, UnlinkSame
  <2>4. \A u \in Threads : ~ Unchecked(u)'
    BY <1>2, <2>3 DEF Unchecked
  <2>5. Plainly
    BY <1>2, <2>2, <2>4, FrameKinds, BegunPlainly
  <2>6. Told'
    BY <1>0, <1>2, <2>2, <2>5, PlainlyClean, BegunTold DEF Held
  <2> QED
    BY <2>5, <2>6, PlainlyClean DEF BeliefInv
<1>6. ASSUME NEW r \in Requests, Select(c, r) PROVE BeliefInv'
  <2>0. stack' = <<>> /\ UNCHANGED <<state, gone>> /\ r.objs \in ObjectLists /\ r \in Request
    BY <1>0, <1>6, RequestsAssumption DEF Select, threadVars, Request
  <2>1. CASE CheckWait(c, r) # NotReady
    <3>1. PICK st : st = CheckWait(c, r)
      OBVIOUS
    <3>2. PICK S : S = Satisfied(r, st)
      OBVIOUS
    <3>3. /\ Grant(c, S) /\ Tell(c, r.objs, r.select = "wait_all", FinalStatus(r, st))
          /\ UNCHANGED wait
      BY <1>6, <2>1, <3>1, <3>2 DEF Select
    <3>4. st \in Ready /\ \A o \in S : Signaled(o, c)
      BY <2>0, <3>1, <3>2, CheckWaitStatus
    <3>5. Concluded(r.objs, r.select = "wait_all", FinalStatus(r, st)) = S \intersect Mutexes
      BY <2>0, <3>2, <3>4, ConcludedIs
    <3>6. PICK q, all, fin : q = r.objs /\ all = (r.select = "wait_all") /\ fin = FinalStatus(r, st)
      OBVIOUS
    <3>7. Tell(c, q, all, fin) /\ Concluded(q, all, fin) = S \intersect Mutexes
      BY <3>3, <3>5, <3>6
    <3>8. \A u \in Threads, m \in Mutexes :
           believed'[u][m] = IF u = c /\ m \in S \intersect Mutexes THEN believed[u][m] + 1
                             ELSE believed[u][m]
      BY <1>2, <3>7, TellBelieved
    <3>9. \A u \in Threads, m \in Mutexes :
             Held(u, m)' = IF u = c /\ m \in S THEN Held(u, m) + 1 ELSE Held(u, m)
      BY <1>2, <3>3, <3>4, GrantHeld
    <3>10. Plainly
      BY <1>2, <2>0, <3>3, BegunPlainly DEF Unchecked
    <3>11. Told'
      BY <1>0, <1>2, <2>0, <3>8, <3>9, <3>10, PlainlyClean, BegunTold
    <3> QED
      BY <3>10, <3>11, PlainlyClean DEF BeliefInv
  <2>2. CASE CheckWait(c, r) = NotReady
    <3>1. Link(c, NewWait(r, TRUE)) /\ UNCHANGED <<owner, count, believed>>
      BY <1>6, <2>2 DEF Select, Silent, objVars
    <3>2. wait'[c] = NewWait(r, TRUE) /\ \A u \in Threads : u # c => wait'[u] = wait[u]
      BY <3>1, LinkSame
    <3>3. \A u \in Threads : ~ Unchecked(u)'
      BY <1>2, <3>2 DEF Unchecked, NewWait
    <3>4. Plainly
      BY <2>0, <3>3, BegunPlainly
    <3>5. Told'
      BY <1>0, <1>2, <2>0, <3>1, <3>4, PlainlyClean, BegunTold DEF Held
    <3> QED
      BY <3>4, <3>5, PlainlyClean DEF BeliefInv
  <2> QED
    BY <2>1, <2>2
<1>7. ASSUME NEW r \in Requests, SignalAndWait(c, r) PROVE BeliefInv'
  <2>0. /\ r \in Request /\ r.select = "signal_and_wait" /\ Link(c, NewWait(r, FALSE))
        /\ UNCHANGED <<state, gone>>
    BY <1>7, RequestsAssumption DEF SignalAndWait, threadVars
  <2>1. r.objs \in ObjectLists /\ Len(r.objs) = 1
    BY <2>0 DEF Request
  <2>2. PICK g : g = SelectFrame(c, r.objs[1])
    OBVIOUS
  <2>3. stack' = <<g>> \/ \E f : stack' = <<f, g>> /\ f.op = "wake"
    BY <1>7, <2>2, FrameKinds DEF SignalAndWait, DoReleaseSemaphore, DoRelease
  <2>4. \A f \in ToSet(stack') : f = g \/ f.op = "wake"
    BY <2>3 DEF ToSet
  <2>5. wait'[c] = NewWait(r, FALSE) /\ \A u \in Threads : u # c => wait'[u] = wait[u]
    BY <2>0, LinkSame
  <2>6. wait'[c] # NoWait
    BY <2>0, <2>5, NewWaitTyped, ConstantsAssumption
  <2>7. \A u \in Threads : Unchecked(u)' <=> u = c
    BY <1>2, <2>5, <2>6 DEF Unchecked, NewWait
  <2>8. \A u \in Threads, o \in Objects : SelectFrame(u, o) \in ToSet(stack') => u = c /\ o = r.objs[1]
    BY <2>2, <2>4, FrameKinds
  <2>9. SelectOwed'
    BY <2>5, <2>7, <2>8 DEF SelectOwed, NewWait
  <2>10. Doomed'
    BY <2>2, <2>4, FrameKinds DEF Doomed
  <2>11. CleanInv'
    BY <2>0, <2>5, <2>7 DEF CleanInv, CleanSignals, NewWait
  <2>12. \A u \in Threads, m \in Mutexes : ~ Untold(u, m)'
    BY <2>6, <2>8 DEF Untold, Objects
  <2>13. \A u \in Threads, n \in Mutexes : believed[u][n] = Held(u, n) => believed'[u][n] = Held(u, n)'
    <3>1. CASE UNCHANGED <<owner, count, believed>>
      BY <3>1 DEF Held
    <3>2. CASE ~ UNCHANGED <<owner, count, believed>>
      <4>1. PICK m \in Mutexes : /\ \E frames : DoRelease(c, m, frames)
                                 /\ believed' = [believed EXCEPT ![c][m] = @ - 1]
        BY <1>7, <3>2 DEF SignalAndWait
      <4>2. PICK frames : DoRelease(c, m, frames)
        BY <4>1
      <4> QED
        BY <1>2, <4>1, <4>2, ReleaseHeld
    <3> QED
      BY <3>1, <3>2
  <2>14. Told'
    BY <1>0, <1>2, <2>0, <2>12, <2>13, BegunTold
  <2> QED
    BY <2>9, <2>10, <2>11, <2>14 DEF BeliefInv
<1> QED
  BY <1>1, <1>3, <1>4, <1>5, <1>6, <1>7

\* CleanInv, SelectOwed, Doomed and Told in what happens by itself
LEMMA EnvironmentTold ==
  ASSUME IInv, IInv', StackInv, ApcInv, BeliefInv, Environment
  PROVE  BeliefInv'
<1>1. PICK t \in Threads : \/ ClientDies(t) \/ Hangup(t) \/ CheckTerminated(t)
                           \/ DeadlinePasses(t) \/ ThreadTimeout(t)
  BY DEF Environment
<1>0. Idle /\ stack = <<>>
  BY <1>1 DEF ClientDies, Hangup, CheckTerminated, DeadlinePasses, ThreadTimeout, Idle
<1>2. /\ ObjInv /\ ReplyTypeOK /\ Told /\ CleanInv /\ SelectOwed
      /\ state \in [Threads -> {"RUNNING", "TERMINATED"}] /\ gone \in [Threads -> BOOLEAN]
      /\ \A u \in Threads : ~ Unchecked(u)
  BY <1>0, IdleMeans DEF IInv, ApcTypeOK, BeliefInv, WaitInv, WaitTypeOK
<1>3. CASE Hangup(t)
  <2>1. /\ state' = [state EXCEPT ![t] = "TERMINATED"] /\ Unlink(t)
        /\ UNCHANGED <<gone, owner, count, believed>>
        /\ stack' = <<AbandonFrame(t), PollFrame(t)>> \/ stack' = <<AbandonFrame(t), ExitFrame(t)>>
    BY <1>3 DEF Hangup, KillThread, Silent, threadVars, objVars
  <2>2. wait'[t] = NoWait /\ \A u \in Threads : u # t => wait'[u] = wait[u]
    BY <2>1, UnlinkSame
  <2>3. \A u \in Threads : ~ Unchecked(u)'
    BY <1>2, <2>2 DEF Unchecked
  <2>4. Plainly
    BY <1>2, <2>1, <2>3, FrameKinds, BegunPlainly
  <2>5. Told'
    BY <1>0, <1>2, <2>1, <2>4, PlainlyClean, BegunTold DEF Held
  <2> QED
    BY <2>4, <2>5, PlainlyClean DEF BeliefInv
<1>4. CASE ClientDies(t) \/ CheckTerminated(t) \/ DeadlinePasses(t) \/ (ThreadTimeout(t) /\ Suspended(t))
  <2>1. \A u \in Threads : ~ Unchecked(u)'
    BY <1>2, <1>4, EnvironmentBegins DEF SameWait, Unchecked
  <2>2. stack' = <<>> \/ stack' = <<WakeFrame(t, 0)>>
    BY <1>0, <1>4 DEF ClientDies, CheckTerminated, DeadlinePasses, ThreadTimeout
  <2>3. Plainly
    BY <2>1, <2>2, FrameKinds, BegunPlainly
  <2>4. UNCHANGED <<state, owner, count>>
    BY <1>4 DEF ClientDies, CheckTerminated, DeadlinePasses, ThreadTimeout, objVars
  <2>5. ASSUME NEW u \in Threads, ~ gone'[u] PROVE ~ gone[u] /\ believed'[u] = believed[u]
    <3>1. CASE ClientDies(t)
      BY <1>2, <2>5, <3>1 DEF ClientDies, ReplyTypeOK
    <3>2. CASE ~ ClientDies(t)
      BY <1>4, <2>5, <3>2 DEF CheckTerminated, DeadlinePasses, ThreadTimeout, Silent, threadVars
    <3> QED
      BY <3>1, <3>2
  <2>6. Told'
    BY <1>0, <1>2, <2>3, <2>4, <2>5, PlainlyClean, BegunTold DEF Held
  <2> QED
    BY <2>3, <2>6, PlainlyClean DEF BeliefInv
<1>5. CASE ThreadTimeout(t) /\ ~ Suspended(t)
  <2>1. wait[t] # NoWait /\ WakeThread(t, STATUS_TIMEOUT, <<>>, <<>>) /\ UNCHANGED gone
    BY <1>5 DEF ThreadTimeout, threadVars
  <2>2. wait[t].cookie
    BY <1>2, <2>1 DEF Unchecked
  <2>3. \/ stack' = <<>>
        \/ stack' = <<AbandonFrame(t), ExitFrame(t)>> /\ state'[t] = "TERMINATED"
    BY <1>2, <2>1 DEF WakeThread
  <2>4. ToSet(stack') \subseteq {AbandonFrame(t), ExitFrame(t)}
    BY <2>3 DEF ToSet
  <2>5. BaseKept
    BY <2>4, FrameKinds DEF BaseKept
  <2>6. Advances /\ \A f : ~ AtTop(f)
    BY <1>0, IdleMeans
  <2>7. Told'
    <3>1. PICK st, q : st = STATUS_TIMEOUT /\ q = <<>>
      OBVIOUS
    <3>2. WakeThread(t, st, q, q)
      BY <2>1, <3>1
    <3> QED
      BY <1>2, <2>1, <2>2, <2>5, <2>6, <3>1, <3>2, WokenTold
  <2>8. \A u \in Threads : ~ Unchecked(u)'
    <3>1. Unlink(t)
      BY <2>1 DEF WakeThread
    <3>2. wait'[t] = NoWait /\ \A u \in Threads : u # t => wait'[u] = wait[u]
      BY <3>1, UnlinkSame
    <3> QED
      BY <1>2, <3>2 DEF Unchecked
  <2>9. Plainly
    BY <2>3, <2>8, FrameKinds, BegunPlainly
  <2> QED
    BY <2>7, <2>9, PlainlyClean DEF BeliefInv
<1> QED
  BY <1>1, <1>3, <1>4, <1>5

LEMMA InitTold == Init => BeliefInv
<1> SUFFICES ASSUME Init PROVE BeliefInv
  OBVIOUS
<1>1. /\ stack = <<>> /\ \A u \in Threads : wait[u] = NoWait
      /\ \A u \in Threads, m \in Mutexes : believed[u][m] = 0 /\ owner[m] = NoThread
  BY DEF Init
<1>2. ToSet(stack) = {}
  BY <1>1 DEF ToSet
<1>3. CleanInv /\ SelectOwed /\ Doomed
  BY <1>1, <1>2 DEF CleanInv, SelectOwed, Doomed, Unchecked
<1>4. \A u \in Threads, m \in Mutexes : ~ Untold(u, m) /\ Held(u, m) = 0
  BY <1>1, <1>2, ConstantsAssumption DEF Untold, Held
<1> QED
  BY <1>1, <1>3, <1>4 DEF BeliefInv, Told

LEMMA StutterTold ==
  ASSUME BeliefInv, UNCHANGED vars
  PROVE  BeliefInv'
<1>1. UNCHANGED <<stack, wait, state, gone, owner, count, believed>>
  BY DEF vars, threadVars, objVars
<1>2. CleanInv' /\ SelectOwed' /\ Doomed'
  BY <1>1 DEF BeliefInv, CleanInv, SelectOwed, Doomed, Unchecked
<1>3. \A u \in Threads, m \in Mutexes : (Untold(u, m)' <=> Untold(u, m)) /\ Held(u, m)' = Held(u, m)
  BY <1>1 DEF Untold, Held
<1>4. Told'
  BY <1>1, <1>3 DEF BeliefInv, Told, Untold, Held
<1> QED
  BY <1>2, <1>4 DEF BeliefInv

(***************************************************************************)
(* What a live client was told about each mutex, and what the rest of its  *)
(* select_on() is still to tell it, is what the server has recorded        *)
(* (end_wait, wake_thread, select_on, do_grab, do_release, kill_thread).   *)
(* The hypothesis is what the run selfwoken shows to be needed: an APC or  *)
(* a deadline that ends a SELECT_SIGNAL_AND_WAIT in its own signal step    *)
(* takes the place of the status that the client should have got.          *)
(***************************************************************************)
THEOREM BeliefInvariant == CleanSignals => (Spec => []BeliefInv)
<1> SUFFICES ASSUME CleanSignals PROVE Spec => []BeliefInv
  OBVIOUS
<1>1. IInv /\ (StackInv /\ ApcInv) /\ BeliefInv /\ [Next]_vars => BeliefInv'
  <2> SUFFICES ASSUME IInv, StackInv, ApcInv, BeliefInv, [Next]_vars
               PROVE  BeliefInv'
    OBVIOUS
  <2>1. CASE ServerStep
    BY <2>1, ServerStepClean, ServerStepTold DEF BeliefInv
  <2>2. CASE ClientRequest
    BY <2>2, ClientRequestKeeps, ClientRequestTold
  <2>3. CASE Environment
    BY <2>3, EnvironmentKeeps, EnvironmentTold
  <2> QED
    BY <2>1, <2>2, <2>3, StutterTold DEF Next
<1> QED
  BY <1>1, InitTold, WaitCoreInvariant, WatchInvariant, PTL DEF Spec

\* Between two requests every live client believes of each mutex what the server has recorded,
\* however its waits were satisfied, timed out, abandoned to it or ended by an APC.
THEOREM BeliefsMatch == CleanSignals => (Spec => []BeliefMatches)
<1> SUFFICES ASSUME CleanSignals PROVE Spec => []BeliefMatches
  OBVIOUS
<1>1. IInv /\ BeliefInv => BeliefMatches
  <2> SUFFICES ASSUME IInv, BeliefInv, Idle, NEW u \in Threads, NEW m \in Mutexes,
                      state[u] = "RUNNING", ~ gone[u]
               PROVE  believed[u][m] = IF owner[m] = u THEN count[m] ELSE 0
    BY DEF BeliefMatches
  <2>1. ToSet(stack) = {}
    BY DEF Idle, ToSet
  <2>2. ~ Untold(u, m)
    BY <2>1 DEF Untold
  <2>3. believed[u][m] + 0 = Held(u, m)
    BY <2>2 DEF BeliefInv, Told
  <2>4. believed[u][m] \in Int
    BY DEF IInv, ReplyTypeOK
  <2> QED
    BY <2>3, <2>4 DEF Held
<1> QED
  BY <1>1, WaitCoreInvariant, BeliefInvariant, PTL
=============================================================================
