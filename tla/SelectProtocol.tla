---------------------------- MODULE SelectProtocol ----------------------------
(***************************************************************************)
(* The conversation between one client thread and the server about its     *)
(* waits.  The thread calls server_select (level 1).  SIGUSR1 can interrupt *)
(* it wherever it does not block signals, and the handler calls            *)
(* wait_suspend, which is another server_select (level 2) on top of the    *)
(* first; the handler blocks SIGUSR1, so there is no third.  Replies to    *)
(* waits of both levels come through one pipe, told apart by a cookie.     *)
(*                                                                         *)
(*   dlls/ntdll/unix/server.c  server_select, wait_select_reply            *)
(*   dlls/ntdll/unix/thread.c  wait_suspend                                *)
(*   server/thread.c           select, wake_thread, send_thread_wakeup,    *)
(*                             stop_thread, suspend, resume, queue_apc,    *)
(*                             set_thread_context, kill_thread             *)
(*                                                                         *)
(* The call of level 1 signals one object and waits, alertably, for an     *)
(* auto-reset event, or only waits for it.                                 *)
(***************************************************************************)
EXTENDS Integers, SequencesExt

CONSTANTS
  SuspendMax,    \* MAXIMUM_SUSPEND_COUNT
  ApcMax,        \* bound: length of an APC queue
  SignalsMax,    \* bound: how far the signals of one call are counted
  SignalAndWait  \* does the call signal an object first?

ASSUME ConstantsAssumption ==
  /\ SuspendMax \in Nat /\ ApcMax \in Nat /\ SignalsMax \in Nat \ {0, 1}
  /\ SignalAndWait \in BOOLEAN

VARIABLES
  \* the server's struct thread
  state,           \* struct thread.state
  wait,            \* the levels of the thread_waits, the newest first
  waking,          \* wake_thread() is under way
  suspend,
  system_apc,      \* lengths of the two APC queues
  user_apc,
  context,         \* struct thread.context: "none", "pending" (STATUS_PENDING) or "valid"
  modified,        \* set_thread_context() has set flags in it
  suspend_cookie,  \* the level whose wait the context belongs to, or 0
  event,           \* the event that level 1 waits for
  \* between the two
  pipe,            \* the wake_up_replies in wait_fd
  usr1,            \* SIGUSR1 is pending
  \* the client thread
  level,           \* the level that runs
  pc,              \* where each level is in server_select
  stolen,          \* replies read by wait_select_reply that are not for its level
  suspend_context, \* the next request of level 2 carries the context
  truncated,       \* size leaves out signal_and_wait.signal
  signals,         \* how often the present call has signaled its object
  ended            \* abort_thread() has run

serverVars == <<state, wait, waking, suspend, system_apc, user_apc, context, modified,
                suspend_cookie, event>>
clientVars == <<level, pc, stolen, suspend_context, truncated, signals, ended>>
vars       == <<serverVars, pipe, usr1, clientVars>>

Levels == {1, 2}
Status == {"none", "WAIT_0", "TIMEOUT", "USER_APC", "KERNEL_APC"}
Reply  == [cookie : {0} \union Levels, status : Status]

\* "start": before a request, signals open; "apc": after invoke_system_apc, signals
\* blocked; "read": in wait_select_reply
Pc == {"idle", "start", "apc", "read"}

\* The waits of the thread: level 2 can only be on top of level 1.
Waits == {<<>>, <<1>>, <<2>>, <<2, 1>>}

TypeOK ==
  /\ state \in {"RUNNING", "TERMINATED"}
  /\ wait \in Waits
  /\ waking \in BOOLEAN
  /\ suspend \in 0..SuspendMax
  /\ system_apc \in 0..ApcMax
  /\ user_apc \in 0..ApcMax
  /\ context \in {"none", "pending", "valid"}
  /\ modified \in BOOLEAN
  /\ suspend_cookie \in {0, 2}
  /\ event \in BOOLEAN
  /\ pipe \in Seq(Reply)
  /\ usr1 \in BOOLEAN
  /\ level \in Levels
  /\ pc \in [Levels -> Pc]
  /\ stolen \in Seq(Reply)
  /\ suspend_context \in BOOLEAN
  /\ truncated \in BOOLEAN
  /\ signals \in 0..SignalsMax
  /\ ended \in BOOLEAN

Init ==
  /\ state = "RUNNING" /\ wait = <<>> /\ waking = FALSE /\ suspend = 0
  /\ system_apc = 0 /\ user_apc = 0
  /\ context = "none" /\ modified = FALSE /\ suspend_cookie = 0 /\ event = FALSE
  /\ pipe = <<>> /\ usr1 = FALSE
  /\ level = 1 /\ pc = [l \in Levels |-> "idle"] /\ stolen = <<>>
  /\ suspend_context = FALSE /\ truncated = FALSE /\ signals = 0 /\ ended = FALSE

-------------------------------------------------------------------------------
(* The server.                                                             *)

\* check_wait() of the wait of level l: level 1 waits for the event, alertably
\* and for ever, level 2 for nothing, with timeout 0; both are interruptible
CheckWait(l) ==
  IF system_apc > 0 THEN "KERNEL_APC"
  ELSE IF suspend > 0 THEN "none"
  ELSE IF l = 2 THEN "TIMEOUT"
  ELSE IF event THEN "WAIT_0"
  ELSE IF user_apc > 0 THEN "USER_APC"
  ELSE "none"

\* The wait of level 1 is satisfied when it ends with WAIT_0.
Satisfy(status) == event' = (event /\ status # "WAIT_0")

\* send_thread_wakeup() ends a wait of the present suspension: the context goes,
\* or "a fake APC so that client calls select to get a new context"
EndsSuspension(l, status) ==
  context # "none" /\ suspend_cookie = l /\ status \notin {"KERNEL_APC", "USER_APC"}

\* Mutant of WakeThread: the context of a suspension that ends is kept
WakeThreadKeepsContext ==
  /\ waking
  /\ wait # <<>> /\ CheckWait(Head(wait)) # "none"
  /\ wait' = Tail(wait)
  /\ Satisfy(CheckWait(Head(wait)))
  /\ pipe' = Append(pipe, [cookie |-> Head(wait), status |-> CheckWait(Head(wait))])
  /\ UNCHANGED <<state, waking, suspend, system_apc, user_apc, context, modified,
                 suspend_cookie, usr1, clientVars>>

\* Mutant of WakeThread: the context goes even if it was set from outside
WakeThreadDropsContext ==
  /\ waking
  /\ wait # <<>> /\ CheckWait(Head(wait)) # "none"
  /\ LET l == Head(wait)
         status == CheckWait(l)
     IN /\ wait' = Tail(wait)
        /\ Satisfy(status)
        /\ context' = IF EndsSuspension(l, status) THEN "none" ELSE context
        /\ modified' = (modified /\ ~ EndsSuspension(l, status))
        /\ pipe' = Append(pipe, [cookie |-> l, status |-> status])
  /\ UNCHANGED <<state, waking, suspend, system_apc, user_apc, suspend_cookie, usr1, clientVars>>

\* One turn of wake_thread(): end_wait() and send_thread_wakeup()
WakeThread ==
  /\ waking
  /\ wait # <<>> /\ CheckWait(Head(wait)) # "none"
  /\ LET l == Head(wait)
         status == CheckWait(l)
         drop == EndsSuspension(l, status) /\ ~ modified
     IN /\ wait' = Tail(wait)
        /\ Satisfy(status)
        /\ context' = IF drop THEN "none" ELSE context
        /\ pipe' = Append(pipe, [cookie |-> l,
                     status |-> IF EndsSuspension(l, status) /\ modified
                                THEN "KERNEL_APC" ELSE status])
  /\ UNCHANGED <<state, waking, suspend, system_apc, user_apc, modified, suspend_cookie,
                 usr1, clientVars>>

WakeThreadDone ==
  /\ waking
  /\ wait # <<>> => CheckWait(Head(wait)) = "none"
  /\ waking' = FALSE
  /\ UNCHANGED <<state, wait, suspend, system_apc, user_apc, context, modified,
                 suspend_cookie, event, pipe, usr1, clientVars>>

\* The server is free for a request that concerns a thread still running.
Free == ~ waking /\ state = "RUNNING"

\* Something signals the event: wake_up() with this thread as the waiter
SetEvent ==
  /\ Free /\ ~ event
  /\ event' = TRUE
  /\ waking' = (1 \in ToSet(wait))
  /\ UNCHANGED <<state, wait, suspend, system_apc, user_apc, context, modified,
                 suspend_cookie, pipe, usr1, clientVars>>

\* Mutant of StopThread: no SIGUSR1
StopThreadNoSignal ==
  context' = (IF context = "none" THEN "pending" ELSE context) /\ UNCHANGED usr1

\* stop_thread()
StopThread ==
  /\ context' = IF context = "none" THEN "pending" ELSE context
  /\ usr1' = (usr1 \/ context = "none")

\* suspend_thread()
SuspendThread ==
  /\ Free /\ suspend < SuspendMax
  /\ IF suspend = 0 THEN StopThread ELSE UNCHANGED <<context, usr1>>
  /\ suspend' = suspend + 1
  /\ UNCHANGED <<state, wait, waking, system_apc, user_apc, modified, suspend_cookie, event,
                 pipe, clientVars>>

\* Mutant of ResumeThread: no wake_thread()
ResumeThreadNoWake ==
  /\ Free /\ suspend > 0
  /\ suspend' = suspend - 1
  /\ UNCHANGED <<state, wait, waking, system_apc, user_apc, context, modified, suspend_cookie,
                 event, pipe, usr1, clientVars>>

\* resume_thread()
ResumeThread ==
  /\ Free /\ suspend > 0
  /\ suspend' = suspend - 1
  /\ waking' = (suspend = 1)
  /\ UNCHANGED <<state, wait, system_apc, user_apc, context, modified, suspend_cookie,
                 event, pipe, usr1, clientVars>>

\* set_thread_context() by another thread
SetThreadContext ==
  /\ Free /\ ~ modified
  /\ StopThread
  /\ modified' = TRUE
  /\ UNCHANGED <<state, wait, waking, suspend, system_apc, user_apc, suspend_cookie, event,
                 pipe, clientVars>>

\* Mutant of QueueSystemApc: the signal is always spared
QueueSystemApcNoSignal ==
  /\ Free /\ system_apc < ApcMax
  /\ system_apc' = system_apc + 1
  /\ waking' = (system_apc = 0)
  /\ UNCHANGED <<state, wait, suspend, user_apc, context, modified, suspend_cookie, event,
                 pipe, usr1, clientVars>>

\* queue_apc() of a system APC; is_in_apc_wait() spares the signal
QueueSystemApc ==
  /\ Free /\ system_apc < ApcMax
  /\ usr1' = (usr1 \/ (system_apc = 0 /\ suspend = 0 /\ wait = <<>>))
  /\ system_apc' = system_apc + 1
  /\ waking' = (system_apc = 0)
  /\ UNCHANGED <<state, wait, suspend, user_apc, context, modified, suspend_cookie, event,
                 pipe, clientVars>>

\* queue_apc() of a user APC
QueueUserApc ==
  /\ Free /\ user_apc < ApcMax
  /\ user_apc' = user_apc + 1
  /\ waking' = (user_apc = 0)
  /\ UNCHANGED <<state, wait, suspend, system_apc, context, modified, suspend_cookie,
                 event, pipe, usr1, clientVars>>

\* Mutant of KillThread: no reply to a thread that waits
KillThreadNoReply ==
  /\ Free
  /\ state' = "TERMINATED"
  /\ wait' = <<>>
  /\ context' = "none" /\ modified' = FALSE /\ system_apc' = 0 /\ user_apc' = 0
  /\ UNCHANGED <<waking, suspend, suspend_cookie, event, pipe, usr1, clientVars>>

\* kill_thread(): a reply with cookie 0 if the thread waits, else SIGQUIT
KillThread ==
  /\ Free
  /\ state' = "TERMINATED"
  /\ wait' = <<>>
  /\ pipe' = IF wait = <<>> THEN pipe ELSE Append(pipe, [cookie |-> 0, status |-> "none"])
  /\ context' = "none" /\ modified' = FALSE /\ system_apc' = 0 /\ user_apc' = 0
  /\ UNCHANGED <<waking, suspend, suspend_cookie, event, usr1, clientVars>>

-------------------------------------------------------------------------------
(* The client.                                                             *)

\* The thread runs in level l.
Running(l) == level = l /\ ~ ended

SignalsOpen == Running(1) /\ pc[1] # "apc"

\* A program calls NtSignalAndWaitForSingleObject or a wait function
Call ==
  /\ Running(1) /\ pc[1] = "idle"
  /\ pc' = [pc EXCEPT ![1] = "start"]
  /\ truncated' = ~ SignalAndWait
  /\ signals' = 0
  /\ UNCHANGED <<serverVars, pipe, usr1, level, stolen, suspend_context, ended>>

\* The SIGUSR1 handler: wait_suspend()
Interrupt ==
  /\ SignalsOpen /\ usr1
  /\ usr1' = FALSE
  /\ level' = 2
  /\ pc' = [pc EXCEPT ![2] = "start"]
  /\ suspend_context' = TRUE
  /\ UNCHANGED <<serverVars, pipe, stolen, truncated, signals, ended>>

\* server_select() of level l returns; level 2 returns from the handler
Return(l) ==
  /\ pc' = [pc EXCEPT ![l] = "idle"]
  /\ level' = 1

\* The context that a request of level l brings is stored by the select handler
BringsContext(l) == l = 2 /\ suspend_context

(***************************************************************************)
(* One select request of level l, from the client's SERVER_START_REQ to    *)
(* the reply: the handler stores the context, signals the object of        *)
(* SELECT_SIGNAL_AND_WAIT, and either answers at once or leaves a wait.  A *)
(* context that comes while another is valid would be refused; NotRefused  *)
(* says that none does.                                                    *)
(***************************************************************************)
SelectRequest(l) ==
  /\ Running(l) /\ pc[l] \in {"start", "apc"} /\ Free
  /\ BringsContext(l) => context # "valid"
  /\ LET status == CheckWait(l)
         ctx == IF BringsContext(l) THEN "valid" ELSE context
         cookie == IF BringsContext(l) THEN l ELSE suspend_cookie
         hands == status = "TIMEOUT" /\ ctx # "none" /\ cookie = l
     IN /\ suspend_cookie' = cookie
        /\ Satisfy(status)
        /\ system_apc' = IF status = "KERNEL_APC" THEN system_apc - 1 ELSE system_apc
        /\ user_apc' = IF status = "USER_APC" THEN user_apc - 1 ELSE user_apc
        /\ context' = IF hands THEN "none" ELSE ctx
        /\ modified' = (modified /\ ~ hands)
        /\ IF status = "none"
           THEN wait' = <<l>> \o wait /\ pc' = [pc EXCEPT ![l] = "read"] /\ UNCHANGED level
           ELSE /\ IF status = "KERNEL_APC"
                   THEN pc' = [pc EXCEPT ![l] = "apc"] /\ UNCHANGED level
                   ELSE Return(l)
                /\ UNCHANGED wait
        /\ truncated' = (truncated \/ (l = 1 /\ status = "KERNEL_APC"))
  /\ signals' = IF l = 1 /\ ~ truncated /\ signals < SignalsMax THEN signals + 1 ELSE signals
  /\ suspend_context' = (suspend_context /\ l # 2)
  /\ UNCHANGED <<state, waking, suspend, pipe, usr1, stolen, ended>>

\* Mutant of ReadReply: the replies of the other level are not put back
ReadReplyNotPutBack(l) ==
  /\ Running(l) /\ pc[l] = "read" /\ pipe # <<>> /\ Head(pipe).cookie = l
  /\ pipe' = Tail(pipe)
  /\ stolen' = <<>>
  /\ IF Head(pipe).status \in {"USER_APC", "KERNEL_APC"}
     THEN pc' = [pc EXCEPT ![l] = "start"] /\ UNCHANGED level
     ELSE Return(l)
  /\ UNCHANGED <<serverVars, usr1, suspend_context, truncated, signals, ended>>

\* wait_select_reply() reads a reply for its own level and puts the others back;
\* server_select() calls again after an APC status
ReadReply(l) ==
  /\ Running(l) /\ pc[l] = "read" /\ pipe # <<>> /\ Head(pipe).cookie = l
  /\ pipe' = Tail(pipe) \o Reverse(stolen)
  /\ stolen' = <<>>
  /\ IF Head(pipe).status \in {"USER_APC", "KERNEL_APC"}
     THEN pc' = [pc EXCEPT ![l] = "start"] /\ UNCHANGED level
     ELSE Return(l)
  /\ UNCHANGED <<serverVars, usr1, suspend_context, truncated, signals, ended>>

\* "we stole another reply, wait for the real one"
StealReply(l) ==
  /\ Running(l) /\ pc[l] = "read" /\ pipe # <<>> /\ Head(pipe).cookie \notin {0, l}
  /\ pipe' = Tail(pipe)
  /\ stolen' = Append(stolen, Head(pipe))
  /\ UNCHANGED <<serverVars, usr1, level, pc, suspend_context, truncated, signals, ended>>

\* abort_thread(): cookie 0 is read, SIGQUIT arrives, or a request finds the
\* server's end of the pipe closed
Abort ==
  /\ state = "TERMINATED" /\ ~ ended
  /\ \/ pc[level] = "read" /\ pipe # <<>> /\ Head(pipe).cookie = 0
     \/ SignalsOpen /\ \A i \in 1..Len(pipe) : pipe[i].cookie # 0
     \/ pc[level] \in {"start", "apc"}
  /\ ended' = TRUE
  /\ UNCHANGED <<serverVars, pipe, usr1, level, pc, stolen, suspend_context, truncated, signals>>

Server == WakeThread \/ WakeThreadDone

Client ==
  \/ Interrupt \/ Abort
  \/ \E l \in Levels : SelectRequest(l) \/ ReadReply(l) \/ StealReply(l)

Others ==
  \/ SetEvent \/ SuspendThread \/ ResumeThread \/ SetThreadContext
  \/ QueueSystemApc \/ QueueUserApc \/ KillThread

Next == Server \/ Client \/ Others \/ Call

Spec == Init /\ [][Next]_vars

(***************************************************************************)
(* The server finishes what it has begun and takes a request in its turn;  *)
(* the client thread runs, and a signal is delivered to it.                *)
(***************************************************************************)
Fairness ==
  /\ WF_vars(Server) /\ WF_vars(Abort) /\ SF_vars(Interrupt)
  /\ \A l \in Levels :
       SF_vars(SelectRequest(l)) /\ WF_vars(ReadReply(l)) /\ WF_vars(StealReply(l))

FairSpec == Spec /\ Fairness

-------------------------------------------------------------------------------
(* Properties.                                                             *)

Answers(l) ==
  Cardinality({i \in 1..Len(wait) : wait[i] = l})
  + Cardinality({i \in 1..Len(pipe \o stolen) : (pipe \o stolen)[i].cookie = l})

\* A level that reads the pipe has exactly one answer coming, a wait in the server
\* or a reply underway, even when the other level took it out of the pipe; a level
\* that does not read has none, so no reply is left for a later call.
OneAnswer ==
  state = "RUNNING" =>
    \A l \in Levels : Answers(l) = IF pc[l] = "read" THEN 1 ELSE 0

\* The handler never takes its "goto invalid_param" for a context that comes while
\* the last one is still valid; the client would then read the pipe for ever.
NotRefused ==
  Free /\ Running(2) /\ pc[2] = "start" /\ suspend_context => context # "valid"

\* A context set from outside reaches the thread: it is dropped only by the reply
\* that hands it over as level 2 ends, or with the thread.
ContextHandedOver ==
  [][modified /\ ~ modified' => (level = 2 /\ level' = 1) \/ state' = "TERMINATED"]_vars

\* "don't signal multiple times": one call signals its object once.
SignalsOnce == signals <= 1

\* A thread that stays suspended comes to a stop in wait_suspend and stays there,
\* unless system APCs keep coming.
SuspensionHolds ==
  <>[](suspend > 0 /\ state = "RUNNING" /\ system_apc = 0) => <>[](level = 2)

\* A thread that is no longer suspended leaves wait_suspend, unless system APCs
\* keep coming.
ResumeReturns ==
  []<>(level = 1 \/ ended \/ suspend > 0 \/ system_apc > 0)

\* A wait whose event is set ends, unless the thread is suspended, killed or kept
\* busy with system APCs and new contexts.
WaitAnswered ==
  []<>(~ event \/ pc[1] # "read" \/ suspend > 0 \/ system_apc > 0 \/ modified
       \/ state = "TERMINATED")

\* System APCs are run, also by a suspended thread: either there is none now and
\* then, or as they keep coming they keep being taken.
SystemApcRuns == []<>(system_apc = 0) \/ []<><<system_apc' < system_apc>>_vars

\* A killed thread ends, whether it waited or not.
KilledEnds == state = "TERMINATED" ~> ended
=============================================================================
