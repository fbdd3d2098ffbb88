------------------------------- MODULE Async -------------------------------
(* Asynchronous I/O: server/async.c, with the requests that start it on a    *)
(* socket (recv_socket), a pipe end and a device file (read), the client's   *)
(* part of it (dlls/ntdll/unix), its cancellation and its timeouts.          *)
(*                                                                          *)
(* The server handles one request at a time: its functions are functions of  *)
(* its state srv.  Between two requests anything can happen, above all while *)
(* the client does I/O that the server has told it to do (STATUS_ALERTED).   *)
EXTENDS Naturals, Sequences, FiniteSets, SequencesExt

CONSTANTS
  Threads,     \* of one process
  Asyncs,      \* each is used once
  Fds, Kind,   \* Kind[f]: socket, pipe or device
  Attrs,       \* what the asyncs may be: by async thread, fd, blocking, timed, notify
               \* (skip: a port, with FILE_SKIP_COMPLETION_PORT_ON_SUCCESS), and alertable
               \* (of a file with FILE_SYNCHRONOUS_IO_ALERT)
  Mortal,      \* threads that may be terminated
  ReadyMax,    \* bound on the data that waits in a file
  CancelMax    \* bound on the calls of NtCancelIoFile

ASSUME AsyncAssumption ==
  /\ IsFiniteSet(Threads) /\ IsFiniteSet(Asyncs) /\ Mortal \subseteq Threads
  /\ ReadyMax \in Nat /\ CancelMax \in Nat
  /\ Kind \in [Fds -> {"socket", "pipe", "device"}]
  /\ Attrs \subseteq [Asyncs -> [thread : Threads, fd : Fds, blocking : BOOLEAN,
                                 timed : BOOLEAN, alertable : BOOLEAN,
                                 notify : {"apc", "event", "port", "skip"}]]

VARIABLES
  srv,     \* the server
  ready,   \* data that can be read, by file
  call,    \* where the caller of the request is, with the status it has got
  told     \* by thread: the cancel group it waits for, or 0

vars == <<srv, ready, call, told>>

IsError(status) == status \in {"error", "cancelled", "timeout"}   \* NT_ERROR

NoAsync == [used |-> FALSE, terminated |-> FALSE, alerted |-> FALSE, canceled |-> FALSE,
            unknown |-> FALSE, direct |-> FALSE, pending |-> FALSE, signaled |-> FALSE,
            blocking |-> FALSE, timeout |-> FALSE, handle |-> FALSE, fd |-> FALSE,
            iosb |-> "pending", initial |-> "pending", group |-> 0, posted |-> 0,
            missed |-> FALSE, skip |-> FALSE]
NoApc == [at |-> "none", thread |-> CHOOSE t \in Threads : TRUE, status |-> "pending"]
NoIrp == [at |-> "none", canceled |-> FALSE]

\* struct async (fd: it still knows its file; posted counts its completions; missed: it
\* has lost its timeout or its queue while the client did the I/O), struct async_queue by
\* file, the APC_ASYNC_IO of an async, struct irp_call, struct async_cancel.
Init ==
  /\ \E attr \in Attrs :
     srv = [attr |-> attr,
            async |-> [a \in Asyncs |-> NoAsync],
            queue |-> [f \in Fds |-> <<>>],
            apc |-> [a \in Asyncs |-> NoApc],
            irp |-> [a \in Asyncs |-> NoIrp],
            requests |-> <<>>,            \* device_manager.requests
            groups |-> <<>>,              \* their counts
            user_apc |-> [t \in Threads |-> FALSE],
            open |-> Fds, alive |-> Threads,
            aborted |-> FALSE, faulted |-> FALSE]
  /\ ready = [f \in Fds |-> 0]
  /\ call = [a \in Asyncs |-> [at |-> "none", status |-> "pending"]]
  /\ told = [t \in Threads |-> 0]

-----------------------------------------------------------------------------
(* async.c: functions of the server's state s.                              *)

Fd(s, a) == s.attr[a].fd
Queued(s, a) == a \in ToSet(s.queue[Fd(s, a)])

\* async_destroy runs when no queue, handle, APC or IRP refers to the async.
Exists(s, a) ==
  /\ s.async[a].used
  /\ Queued(s, a) \/ s.async[a].handle \/ s.apc[a].at # "none" \/ s.irp[a].at # "none"

\* find_pending_async, and the test of async_waiting
Waiting(s, f) == {a \in ToSet(s.queue[f]) : ~s.async[a].terminated}

\* Mutant of CompleteCancel: the async stays in its group.
CompleteCancelKept(s, a) ==
  IF s.async[a].group = 0 THEN s
  ELSE [s EXCEPT !.groups[s.async[a].group] = @ - 1]

\* async_complete_cancel
CompleteCancel(s, a) ==
  IF s.async[a].group = 0 THEN s
  ELSE [s EXCEPT !.async[a].group = 0, !.groups[s.async[a].group] = @ - 1]

\* Mutant of Posts: a failure of the call itself is posted too.
PostsAlways(r, status) == TRUE

\* In async_set_result: "don't signal completion if the async failed synchronously", nor to
\* a port that does not want to hear of success that the call itself returns.
Posts(r, status) == r.pending \/ (~IsError(status) /\ ~r.skip)

\* async_set_result: the client may ask to be alerted again; else the completion is
\* posted.
SetResult(s, a, status) ==
  LET r == [s.async[a] EXCEPT !.initial = IF s.async[a].unknown THEN status ELSE @,
                              !.unknown = FALSE]
      t == s.attr[a].thread
      done == [r EXCEPT !.timeout = FALSE, !.terminated = TRUE, !.iosb = status,
                        !.signaled = TRUE, !.fd = FALSE,
                        !.posted = IF Posts(r, status) THEN @ + 1 ELSE @]
  IN IF r.alerted /\ status = "pending"
     THEN [s EXCEPT !.async[a] = [r EXCEPT !.terminated = FALSE, !.alerted = FALSE,
                                           !.missed = @ \/ ~Queued(s, a)]]
     ELSE CompleteCancel(
            [s EXCEPT !.async[a] = done,
                      !.user_apc[t] = @ \/ (/\ Posts(r, status) /\ s.attr[a].notify = "apc"
                                             /\ t \in s.alive),
                      !.queue[Fd(s, a)] = RemoveFirst(@, a)], a)

\* thread_queue_apc of an APC_ASYNC_IO: to the thread or another one; with none left the
\* APC is destroyed, which sets the result.
QueueApc(s, a, status) ==
  LET t == s.attr[a].thread
  IN IF s.alive = {} THEN SetResult(s, a, status)
     ELSE [s EXCEPT !.apc[a] =
             [at |-> "queued", status |-> status,
              thread |-> IF t \in s.alive THEN t ELSE CHOOSE u \in s.alive : TRUE]]

\* thread_apc_destroy of the APC of the async
ApcDestroyed(s, a) == SetResult([s EXCEPT !.apc[a].at = "none"], a, s.apc[a].status)

\* The fields that async_terminate sets
Terminated(r, status) ==
  [r EXCEPT !.terminated = TRUE, !.iosb = IF @ = "pending" THEN status ELSE @,
            !.alerted = @ \/ status = "alerted"]

\* async_terminate.  Output data has to be fetched, which STATUS_ALERTED says; a socket
\* has none.
Terminate(s, a, status) ==
  LET r == s.async[a]
      out == [s EXCEPT !.async[a] = Terminated(r, status)]
      data == status = "success" /\ Kind[Fd(s, a)] # "socket"
  IN IF r.terminated THEN s
     ELSE IF r.direct THEN out
     ELSE QueueApc(out, a, IF data THEN "alerted" ELSE status)

\* async_request_complete
RequestComplete(s, a, status) ==
  IF s.async[a].iosb # "pending" THEN s
  ELSE Terminate([s EXCEPT !.async[a].iosb = status], a, status)

\* create_request_async
Created(s, a) ==
  [s EXCEPT !.async[a] = [NoAsync EXCEPT !.used = TRUE, !.direct = TRUE, !.handle = TRUE,
                                         !.fd = TRUE, !.blocking = s.attr[a].blocking,
                                         !.skip = s.attr[a].notify = "skip"]]

\* queue_async
Enqueued(s, a) == [s EXCEPT !.queue[Fd(s, a)] = Append(@, a)]

\* async_handoff of a request that ended with the error
Handoff(s, a, error) ==
  LET s1 == [s EXCEPT !.async[a].initial = error]
      s2 == IF error = "pending" THEN s1 ELSE Terminate(s1, a, error)
      r == s2.async[a]
  IN IF s.async[a].unknown THEN s
     ELSE IF error = "alerted"
     THEN Terminate([s EXCEPT !.async[a].unknown = TRUE], a, "alerted")
     ELSE IF ~r.pending /\ IsError(r.iosb) THEN [s2 EXCEPT !.async[a].handle = FALSE]
     ELSE IF r.iosb # "pending"
     THEN [s2 EXCEPT !.async[a].signaled = TRUE, !.async[a].initial = r.iosb]
     ELSE [s2 EXCEPT !.async[a] = [@ EXCEPT !.direct = FALSE, !.pending = TRUE,
                                            !.handle = r.blocking]]

\* async_satisfied, when the wait for the handle ends; the wait status is WaitStatus.
Satisfied(s, a) ==
  LET s1 == IF s.async[a].direct THEN SetResult(s, a, s.async[a].iosb) ELSE s
  IN [s1 EXCEPT !.async[a].direct = FALSE, !.async[a].handle = FALSE]

WaitStatus(s, a) ==
  LET r == s.async[a] IN IF r.initial = "pending" /\ r.blocking THEN r.iosb ELSE r.initial

\* cancel_irp_call: the driver hears of it once it has told its pointer.
CancelIrp(s, a) == [s EXCEPT !.irp[a].canceled = TRUE]

\* Mutant of CancelAsync: a cancel is not kept for a driver that has yet to tell its
\* pointer.
CancelAsyncHeld(s, a) ==
  LET s1 == [s EXCEPT !.async[a].canceled = TRUE]
  IN IF ~s.async[a].fd THEN [s EXCEPT !.faulted = TRUE]
     ELSE IF Kind[Fd(s, a)] = "device"
     THEN IF s.irp[a].at = "held" THEN CancelIrp(s1, a) ELSE s1
     ELSE Terminate(s1, a, "cancelled")

\* cancel_async: fd_cancel_async of a socket or a pipe ends it; that of a device asks the
\* driver.  The async must still have its file.
CancelAsync(s, a) ==
  LET s1 == [s EXCEPT !.async[a].canceled = TRUE]
  IN IF ~s.async[a].fd THEN [s EXCEPT !.faulted = TRUE]
     ELSE IF Kind[Fd(s, a)] = "device"
     THEN IF s.irp[a].at \in {"queued", "current", "held"} THEN CancelIrp(s1, a) ELSE s1
     ELSE Terminate(s1, a, "cancelled")

\* The asyncs that the loops over process->asyncs come to.
Live(s) == {a \in Asyncs : Exists(s, a) /\ ~s.async[a].terminated}

\* The loops that compare files take that of each of them.
Orphans(s) == {a \in Live(s) : ~s.async[a].fd}

\* What the loops do with an async: cancel_async, also with the entry into the last group
\* (cancel_process_async), free_async_queue, async_wake_up when a socket hangs up, and
\* thread_apc_destroy in clear_apc_queue.
LoopStep(loop, s, a) ==
  CASE loop = "cancel" -> CancelAsync(s, a)
    [] loop = "join" -> [(IF s.async[a].canceled THEN s ELSE CancelAsync(s, a)) EXCEPT
                           !.async[a].group = Len(s.groups)]
    [] loop = "close" -> [Terminate([s EXCEPT !.async[a].fd = FALSE], a, "closed") EXCEPT
                            !.queue[Fd(s, a)] = RemoveFirst(@, a)]
    [] loop = "hangup" -> Terminate(s, a, "error")
    [] loop = "clear" -> ApcDestroyed(s, a)

\* The loop over the asyncs q
Each(loop, s, q) ==
  LET run[n \in 0..Len(q)] == IF n = 0 THEN s ELSE LoopStep(loop, run[n - 1], q[n])
  IN run[Len(q)]

\* cancel_process_async with a thread: the asyncs join a new group; it asserts that none
\* is in one.
CancelGroup(s, t, f) ==
  LET S == {a \in Live(s) : Fd(s, a) = f /\ s.attr[a].thread = t}
  IN IF Orphans(s) # {} THEN [s EXCEPT !.faulted = TRUE]
     ELSE IF \E a \in S : s.async[a].group # 0 THEN [s EXCEPT !.aborted = TRUE]
     ELSE Each("join", [s EXCEPT !.groups = Append(@, Cardinality(S))], SetToSeq(S))

\* cancel_process_async without a thread, of the asyncs A with the IOSB
CancelFile(s, f, A) ==
  IF Orphans(s) # {} THEN [s EXCEPT !.faulted = TRUE]
  ELSE Each("cancel", s, SetToSeq({a \in Live(s) \intersect A :
                                     Fd(s, a) = f /\ ~s.async[a].canceled}))

\* cancel_blocking
CancelBlocking(s, t, A) ==
  Each("cancel", s, SetToSeq({a \in Live(s) \intersect A :
                                /\ ~s.async[a].canceled /\ s.async[a].blocking
                                /\ s.attr[a].thread = t}))

\* cancel_terminating_thread_asyncs: those of a completion port go on.
CancelThread(s, t) ==
  Each("cancel", s, SetToSeq({a \in Live(s) : /\ ~s.async[a].canceled
                                              /\ s.attr[a].thread = t
                                              /\ s.attr[a].notify \notin {"port", "skip"}}))

\* free_async_queue
FreeAsyncQueue(s, f) == Each("close", s, s.queue[f])

-----------------------------------------------------------------------------
(* The requests of the client and what it does with the answers.            *)

\* The thread makes one call at a time.
Busy(t) ==
  \/ told[t] # 0
  \/ \E a \in Asyncs : srv.attr[a].thread = t /\ call[a].at \in {"io", "report", "wait"}

\* What async_handoff returns sends the caller on: it does the I/O, waits for the handle,
\* or is done.
HandedOff(s, a, error) ==
  LET r == s.async[a]
  IN call' = [call EXCEPT ![a] =
       IF error = "alerted" THEN [at |-> "io", status |-> "alerted"]
       ELSE IF r.handle THEN [at |-> "wait", status |-> "pending"]
       ELSE [at |-> "returned", status |-> IF r.unknown THEN "pending" ELSE r.iosb]]

\* recv_socket, of a socket that is not nonblocking
RecvSocket(t, a) ==
  LET f == Fd(srv, a)
      made == Created(srv, a)
      timed == [made EXCEPT !.async[a].timeout = srv.attr[a].timed /\ ~srv.attr[a].blocking]
  IN /\ Kind[f] = "socket" /\ f \in srv.open
     /\ srv.attr[a].thread = t /\ t \in srv.alive /\ ~Busy(t) /\ ~srv.async[a].used
     /\ \E error \in {"error", IF srv.queue[f] = <<>> /\ ready[f] > 0 THEN "alerted"
                               ELSE "pending"} :
          LET s == Handoff(IF error = "error" THEN timed ELSE Enqueued(timed, a), a, error)
          IN srv' = s /\ HandedOff(s, a, error)
     /\ UNCHANGED <<ready, told>>

\* reselect_read_queue of a pipe end: messages meet the reads that wait.
ReselectReads(s, f, n) ==
  LET q == s.queue[f]
      Read(p, a) == IF p.left = 0 \/ p.state.async[a].terminated THEN p
                    ELSE [state |-> RequestComplete(p.state, a, "success"), left |-> p.left - 1]
      run[i \in 0..Len(q)] == IF i = 0 THEN [state |-> s, left |-> n] ELSE Read(run[i - 1], q[i])
  IN run[Len(q)]

\* read of a pipe end (pipe_end_read) that is connected
ReadPipe(t, a) ==
  LET f == Fd(srv, a)
      out == ReselectReads(Enqueued(Created(srv, a), a), f, ready[f])
      s == Handoff(out.state, a, "pending")
  IN /\ Kind[f] = "pipe"
     /\ srv.attr[a].thread = t /\ t \in srv.alive /\ ~Busy(t) /\ ~srv.async[a].used
     /\ srv' = s /\ ready' = [ready EXCEPT ![f] = out.left]
     /\ HandedOff(s, a, "pending")
     /\ UNCHANGED told

\* read of a device file (device_file_read, queue_irp, async_set_unknown_status)
ReadDevice(t, a) ==
  LET made == Enqueued(Created(srv, a), a)
      s == Handoff([made EXCEPT !.async[a].unknown = TRUE, !.async[a].direct = FALSE,
                                !.irp[a].at = "queued", !.requests = Append(@, a)],
                   a, "pending")
  IN /\ Kind[Fd(srv, a)] = "device"
     /\ srv.attr[a].thread = t /\ t \in srv.alive /\ ~Busy(t) /\ ~srv.async[a].used
     /\ srv' = s
     /\ HandedOff(s, a, "pending")
     /\ UNCHANGED <<ready, told>>

\* try_recv: data, nothing, or a failure
TryRecv(f, status) ==
  /\ status \in {"error", IF ready[f] > 0 THEN "success" ELSE "pending"}
  /\ ready' = [ready EXCEPT ![f] = IF status = "success" THEN @ - 1 ELSE @]

\* sock_recv does the I/O that it was told to do.
DirectIo(a) ==
  /\ call[a].at = "io"
  /\ \E status \in {"success", "pending", "error"} :
       /\ TryRecv(Fd(srv, a), status)
       /\ call' = [call EXCEPT ![a] = [at |-> "report", status |-> status]]
  /\ UNCHANGED <<srv, told>>

\* set_async_direct_result, of the client and of the server
SetAsyncDirectResult(a) ==
  LET status == call[a].status
      s1 == IF status # "pending" THEN srv
            ELSE [srv EXCEPT !.async[a].direct = FALSE, !.async[a].pending = TRUE]
      s == [SetResult(s1, a, status) EXCEPT
              !.async[a].handle = status = "pending" /\ srv.async[a].blocking]
  IN /\ call[a].at = "report"
     /\ srv' = s
     /\ call' = [call EXCEPT ![a].at = IF s.async[a].handle THEN "wait" ELSE "returned"]
     /\ UNCHANGED <<ready, told>>

\* wait_async returns.
WaitReturns(a) ==
  /\ call[a].at = "wait" /\ srv.async[a].signaled
  /\ srv' = Satisfied(srv, a)
  /\ call' = [call EXCEPT ![a] = [at |-> "returned", status |-> WaitStatus(srv', a)]]
  /\ UNCHANGED <<ready, told>>

\* An alertable wait of wait_async ends with a user APC: nobody closes the handle, and the
\* I/O goes on.
WaitAlerted(a) ==
  LET t == srv.attr[a].thread
  IN /\ call[a].at = "wait" /\ srv.attr[a].alertable
     /\ ~srv.async[a].signaled /\ srv.user_apc[t]
     /\ srv' = [srv EXCEPT !.user_apc[t] = FALSE]
     /\ call' = [call EXCEPT ![a] = [at |-> "returned", status |-> "user_apc"]]
     /\ UNCHANGED <<ready, told>>

\* APC_ASYNC_IO in invoke_system_apc: the callback does the I/O when it is alerted, or
\* fetches the result (get_async_result).
RunApc(a) ==
  LET f == Fd(srv, a)
      alerted == srv.apc[a].status = "alerted"
  IN /\ srv.apc[a].at = "queued"
     /\ \E status \in {"success", "pending", "error", "cancelled", "timeout", "closed"} :
          /\ \/ ~alerted /\ status = srv.apc[a].status /\ UNCHANGED ready
             \/ alerted /\ Kind[f] # "socket" /\ status = srv.async[a].iosb /\ UNCHANGED ready
             \/ alerted /\ Kind[f] = "socket" /\ f \in srv.open /\ TryRecv(f, status)
             \/ /\ alerted /\ Kind[f] = "socket" /\ f \notin srv.open /\ status = "error"
                /\ UNCHANGED ready
          /\ srv' = [srv EXCEPT !.apc[a].at = "ran", !.apc[a].status = status]
     /\ UNCHANGED <<call, told>>

\* select with prev_apc: the APC is destroyed (thread_apc_destroy).
ReportApc(a) ==
  /\ srv.apc[a].at = "ran"
  /\ srv' = ApcDestroyed(srv, a)
  /\ UNCHANGED <<ready, call, told>>

\* NtCancelIoFile: with asyncs to cancel it waits for the group
NtCancelIoFile(t, f) ==
  LET s == CancelGroup(srv, t, f)
      g == Len(s.groups)
  IN /\ t \in srv.alive /\ ~Busy(t) /\ f \in srv.open /\ Len(srv.groups) < CancelMax
     /\ s # [srv EXCEPT !.groups = s.groups]
     /\ srv' = s
     /\ told' = [told EXCEPT ![t] = IF s.faulted \/ s.aborted THEN 0 ELSE g]
     /\ UNCHANGED <<ready, call>>

\* The wait is alertable.
CancelReturns(t) ==
  /\ told[t] # 0
  /\ \/ srv.groups[told[t]] = 0 /\ UNCHANGED srv
     \/ srv.user_apc[t] /\ srv' = [srv EXCEPT !.user_apc[t] = FALSE]
  /\ told' = [told EXCEPT ![t] = 0]
  /\ UNCHANGED <<ready, call>>

\* The asyncs that NtCancelIoFileEx and NtCancelSynchronousIoFile can mean: all, or those
\* of one IOSB
Meant == {Asyncs} \union {{a} : a \in Asyncs}

\* NtCancelIoFileEx, and NtCancelSynchronousIoFile of a thread
NtCancelIoFileEx(f, A) ==
  /\ f \in srv.open
  /\ srv' = CancelFile(srv, f, A) /\ srv' # srv
  /\ UNCHANGED <<ready, call, told>>

NtCancelSynchronousIoFile(t, A) ==
  /\ srv' = CancelBlocking(srv, t, A) /\ srv' # srv
  /\ UNCHANGED <<ready, call, told>>

-----------------------------------------------------------------------------
(* The other side of the files, and the server's own events.                *)

\* Data comes; a pipe meets it with the reads that wait (pipe_end_write).
DataArrives(f) ==
  LET out == ReselectReads(srv, f, ready[f] + 1)
  IN /\ ready[f] < ReadyMax /\ Kind[f] # "device" /\ f \in srv.open
     /\ IF Kind[f] = "pipe" THEN srv' = out.state /\ ready' = [ready EXCEPT ![f] = out.left]
        ELSE UNCHANGED srv /\ ready' = [ready EXCEPT ![f] = @ + 1]
     /\ UNCHANGED <<call, told>>

\* sock_poll_event with POLLIN: async_wake_up of the first async, if it is waiting
PollIn(f) ==
  /\ Kind[f] = "socket" /\ f \in srv.open /\ ready[f] > 0 /\ srv.queue[f] # <<>>
  /\ ~srv.async[Head(srv.queue[f])].terminated
  /\ srv' = Terminate(srv, Head(srv.queue[f]), "alerted")
  /\ UNCHANGED <<ready, call, told>>

\* sock_poll_event with POLLHUP: async_wake_up of all of them
PollHup(f) ==
  /\ Kind[f] = "socket" /\ f \in srv.open /\ Waiting(srv, f) # {}
  /\ srv' = Each("hangup", srv, srv.queue[f])
  /\ UNCHANGED <<ready, call, told>>

\* async_timeout
AsyncTimeout(a) ==
  LET off == [srv EXCEPT !.async[a].timeout = FALSE,
                         !.async[a].missed = @ \/ (srv.async[a].alerted
                                                     /\ srv.async[a].terminated)]
  IN /\ srv.async[a].timeout /\ Exists(srv, a)
     /\ srv' = Terminate(off, a, "timeout")
     /\ UNCHANGED <<ready, call, told>>

\* get_next_device_request takes the first request of the manager
NextDeviceRequest(a) ==
  /\ srv.requests # <<>> /\ a = Head(srv.requests)
  /\ \A b \in Asyncs : srv.irp[b].at # "current"
  /\ srv' = [srv EXCEPT !.requests = Tail(@), !.irp[a].at = "current"]
  /\ UNCHANGED <<ready, call, told>>

\* get_next_device_request with the result of the previous one: the driver has completed
\* it, perhaps after it had marked it pending, or keeps it (set_async_pending,
\* async_set_initial_status, set_irp_result, async_wake_obj).
DispatchReturns(a) ==
  /\ srv.irp[a].at = "current"
  /\ \E marked \in BOOLEAN, status \in {"success", "error", "pending"} :
       LET r == srv.async[a]
           s == [srv EXCEPT !.async[a].pending = @ \/ (marked /\ ~r.terminated),
                            !.async[a].initial = IF marked THEN "pending" ELSE status,
                            !.async[a].unknown = FALSE]
       IN /\ status = "pending" => marked
          /\ srv' = IF status # "pending"
                    THEN RequestComplete([s EXCEPT !.irp[a].at = "none"], a, status)
                    ELSE [s EXCEPT !.irp[a].at = "held",
                                   !.async[a].signaled = @ \/ ~r.blocking]
  /\ UNCHANGED <<ready, call, told>>

\* set_irp_result of an IRP that the driver has kept; it cancels one that it was asked to.
SetIrpResult(a) ==
  /\ srv.irp[a].at = "held"
  /\ \E status \in {"success", "error"}
                     \union IF srv.irp[a].canceled THEN {"cancelled"} ELSE {} :
       srv' = RequestComplete([srv EXCEPT !.irp[a].at = "none"], a, status)
  /\ UNCHANGED <<ready, call, told>>

\* The last handle of a socket is closed: its file is destroyed.
CloseFile(f) ==
  /\ Kind[f] = "socket" /\ f \in srv.open
  /\ srv' = [FreeAsyncQueue(srv, f) EXCEPT !.open = @ \ {f}]
  /\ UNCHANGED <<ready, call, told>>

\* terminate_thread: kill_thread (clear_apc_queue destroys its APCs; one that it was
\* running, or the result of I/O that it was told to do, is never reported), then
\* cancel_terminating_thread_asyncs.
TerminateThread(t) ==
  LET S == {a \in Asyncs : srv.apc[a].at = "queued" /\ srv.apc[a].thread = t}
      L == {a \in Asyncs : srv.apc[a].at = "ran" /\ srv.apc[a].thread = t}
      D == {a \in Asyncs : call[a].at \in {"io", "report"} /\ srv.attr[a].thread = t}
      dead == [srv EXCEPT !.alive = @ \ {t}, !.user_apc[t] = FALSE,
                          !.async = [a \in Asyncs |-> [srv.async[a] EXCEPT
                                                         !.missed = @ \/ a \in L \union D]],
                          !.apc = [a \in Asyncs |-> [srv.apc[a] EXCEPT
                                                       !.at = IF a \in L THEN "lost" ELSE @]]]
      s == Each("clear", dead, SetToSeq(S))
  IN /\ t \in srv.alive \intersect Mortal
     /\ srv' = CancelThread(s, t)
     /\ call' = [a \in Asyncs |-> IF srv.attr[a].thread = t /\ call[a].at # "returned"
                                  THEN [call[a] EXCEPT !.at = "dead"] ELSE call[a]]
     /\ told' = [told EXCEPT ![t] = 0]
     /\ UNCHANGED ready

-----------------------------------------------------------------------------

\* What clients do without being asked again, and what the server does by itself.
Goes(a) ==
  \/ DirectIo(a) \/ SetAsyncDirectResult(a) \/ WaitReturns(a) \/ WaitAlerted(a)
  \/ RunApc(a) \/ ReportApc(a) \/ AsyncTimeout(a) \/ NextDeviceRequest(a) \/ DispatchReturns(a)

Step ==
  \/ \E a \in Asyncs : Goes(a) \/ SetIrpResult(a)
  \/ \E t \in Threads :
       \/ CancelReturns(t) \/ TerminateThread(t)
       \/ \E A \in Meant : NtCancelSynchronousIoFile(t, A)
       \/ \E f \in Fds : NtCancelIoFile(t, f)
       \/ \E a \in Asyncs : RecvSocket(t, a) \/ ReadPipe(t, a) \/ ReadDevice(t, a)
  \/ \E f \in Fds :
       \/ DataArrives(f) \/ PollIn(f) \/ PollHup(f) \/ CloseFile(f)
       \/ \E A \in Meant : NtCancelIoFileEx(f, A)

Runs == ~srv.faulted /\ ~srv.aborted
Next == Runs /\ Step

Spec == Init /\ [][Next]_vars

\* Threads run, also their system APCs; timeouts expire; a driver answers the requests it
\* gets, and completes what it is asked to cancel; a socket with data is polled.
FairSpec ==
  /\ Spec
  /\ \A a \in Asyncs : WF_vars(Runs /\ Goes(a))
                             /\ WF_vars(Runs /\ srv.irp[a].canceled /\ SetIrpResult(a))
  /\ \A t \in Threads : WF_vars(Runs /\ CancelReturns(t))
  /\ \A f \in Fds : WF_vars(Runs /\ PollIn(f))

-----------------------------------------------------------------------------
(* Properties.                                                              *)

\* Data, calls and the groups that threads wait for have their types.
TypeOK ==
  /\ ready \in [Fds -> 0..ReadyMax]
  /\ call \in [Asyncs -> [at : {"none", "io", "report", "wait", "returned", "dead"},
                          status : {"pending", "alerted", "success", "error", "cancelled",
                                    "timeout", "closed", "user_apc"}]]
  /\ told \in [Threads -> 0..CancelMax]

\* A completion is posted exactly once for a call that succeeded, unless it did so at once
\* and the port does not want to hear of it, or that was told STATUS_PENDING, and never for
\* a call that was told of the failure itself: the server forgets an async that the caller
\* believes pending only after it has posted its completion, except when its client's
\* answer was lost (missed) (async_set_result, async_handoff, set_async_direct_result,
\* async_satisfied).
CompletedOnce ==
  \A a \in Asyncs :
    LET r == srv.async[a]
        returned == call[a].at = "returned"
        status == call[a].status
    IN /\ r.posted <= 1
       /\ returned /\ status = "success" => r.posted = IF r.skip /\ ~r.pending THEN 0 ELSE 1
       /\ returned /\ IsError(status) => r.posted = 0 \/ r.blocking
       /\ returned /\ status = "pending" /\ ~Exists(srv, a) => r.posted = 1 \/ r.missed

\* What the server asserts and relies on: the count of a cancel group is that of the
\* asyncs in it, which exist (cancel_process_async, async_destroy), and only the read of a
\* device, which goes on when it is cancelled, can come to a second group; a result comes
\* only for an async that was woken up (async_set_result, set_async_direct_result); and an
\* async that waits is on the queue of its file, except when the file was closed while the
\* client did the I/O.  Only then can the server come to take the file of an async that
\* has none (cancel_async, get_fd_user).
CancelCounts ==
  /\ srv.aborted => \E a \in Live(srv) : Kind[Fd(srv, a)] = "device" /\ srv.async[a].group # 0
  /\ srv.faulted => \E a \in Orphans(srv) : srv.async[a].missed /\ ~Queued(srv, a)
  /\ \A g \in DOMAIN srv.groups :
       srv.groups[g] = Cardinality({a \in Asyncs : srv.async[a].group = g})
  /\ \A a \in Asyncs :
       LET r == srv.async[a]
       IN /\ r.group # 0 => Exists(srv, a)
          /\ srv.apc[a].at # "none" => r.terminated
          /\ call[a].at \in {"io", "report"} => r.unknown /\ r.terminated /\ r.alerted
          /\ a \in Live(srv) => Queued(srv, a) \/ r.missed

\* An async is in one cancel group at most: the assertion in cancel_process_async.
InOneGroup == ~srv.aborted

\* The server has set the final result of the async.
Ended(a) == srv.async[a].terminated /\ ~Queued(srv, a) /\ srv.apc[a].at = "none"

\* An async that was cancelled, or that has a timeout, ends, and so does the wait for a
\* cancel group; except for an async whose timeout expired, whose file was closed or whose
\* thread was killed while the client did the I/O (missed), or when the server ends.
AsyncEnds ==
  /\ \A a \in Asyncs :
       (srv.async[a].canceled \/ srv.async[a].timeout)
         ~> (srv.async[a].missed \/ ~Runs \/ Ended(a))
  /\ \A t \in Threads : (told[t] # 0) ~> (told[t] = 0 \/ ~Runs)

=============================================================================
