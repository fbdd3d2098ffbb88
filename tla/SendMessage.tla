---------------------------- MODULE SendMessage ----------------------------
(* Messages sent between threads: server/queue.c with the part of           *)
(* dlls/win32u/message.c that sends, waits for the reply, and receives.     *)
(*                                                                          *)
(* The server handles one request at a time: a handler is a function of its *)
(* state srv.  A client thread is a stack of calls: the window procedure of *)
(* a received message may send, and a sender that waits may receive.        *)
EXTENDS Naturals, Sequences, FiniteSets, SequencesExt

CONSTANTS
  Threads, NoThread,
  Messages, NoMessage,
  Attrs,     \* what the messages may be: by message its kind, from, to, timed, block, win
  Mortal,    \* threads that may be killed
  Depth      \* bound on the nesting of calls in a thread

ASSUME MessageAssumption ==
  /\ IsFiniteSet(Threads) /\ IsFiniteSet(Messages)
  /\ NoThread \notin Threads /\ NoMessage \notin Messages
  /\ Mortal \subseteq Threads /\ Depth \in Nat
  /\ Attrs \subseteq [Messages -> [kind : {"send", "notify", "callback", "hook"},
                                    from : Threads \union {NoThread}, to : Threads,
                                    timed : BOOLEAN, block : BOOLEAN, win : BOOLEAN]]
  /\ \A attr \in Attrs, m \in Messages : attr[m].from = NoThread => attr[m].kind = "hook"

VARIABLES
  srv,    \* the server: queues and message results
  alive,  \* threads that have their queue
  calls,  \* stacks of calls of the threads, innermost first
  used,   \* messages that have been sent
  told    \* what a sender was told: [msg, answer] of the result it was given

vars == <<srv, alive, calls, used, told>>

Kind(s, m) == s.attr[m].kind
NoResult == [live |-> FALSE, sender |-> NoThread, receiver |-> NoThread, msg |-> FALSE,
             replied |-> FALSE, answer |-> "none", timeout |-> FALSE, callback |-> FALSE,
             hardware |-> FALSE]
Call(at, m) == [at |-> at, msg |-> m]
Entry(type, m) == [type |-> type, msg |-> m]

\* struct msg_queue by thread, and struct message_result by message; input is what
\* became of the hardware message of a low-level hook message
Init ==
  /\ \E attr \in Attrs :
     srv = [list |-> [t \in Threads |-> <<>>],              \* msg_list[SEND_MESSAGE]
            send_result |-> [t \in Threads |-> <<>>],
            callback_result |-> [t \in Threads |-> <<>>],
            recv_result |-> [t \in Threads |-> <<>>],
            bits |-> [t \in Threads |-> {}],
            mask |-> [t \in Threads |-> {}],
            res |-> [m \in Messages |-> NoResult],
            input |-> [m \in Messages |-> "none"],
            attr |-> attr]
  /\ alive = Threads
  /\ calls = [t \in Threads |-> <<>>]
  /\ used = {}
  /\ told = [m \in Messages |-> [msg |-> NoMessage, answer |-> "none"]]

-----------------------------------------------------------------------------
(* The server: functions of its state s.                                    *)

SetBits(s, t, b) == [s EXCEPT !.bits[t] = @ \union {b}]
ClearBits(s, t, b) == [s EXCEPT !.bits[t] = @ \ {b}]

\* free_result; a hardware message it still holds is freed with it
FreeResult(s, m) ==
  [s EXCEPT !.res[m] = [NoResult EXCEPT !.replied = s.res[m].replied,
                                        !.answer = s.res[m].answer],
            !.input[m] = IF s.res[m].hardware THEN "lost" ELSE @]

\* remove_result_from_sender
RemoveFromSender(s, m) ==
  LET t == s.res[m].sender
      out == [s EXCEPT !.send_result[t] = RemoveFirst(@, m),
                       !.callback_result[t] = RemoveFirst(@, m),
                       !.res[m].sender = NoThread]
  IN IF s.res[m].receiver = NoThread THEN FreeResult(out, m) ELSE out

\* Mutant of StoreResult: the sender's queue is woken for any of its results.
StoreResultAny(s, m, answer) ==
  LET t == s.res[m].sender
      kept == [s EXCEPT !.res[m] = [@ EXCEPT !.replied = TRUE, !.answer = answer,
                                             !.timeout = FALSE, !.hardware = FALSE],
                        !.input[m] = IF ~s.res[m].hardware THEN @
                                     ELSE IF answer = "reject" THEN "rejected" ELSE "queued"]
  IN IF t # NoThread
     THEN IF s.res[m].callback
          THEN RemoveFromSender(SetBits([kept EXCEPT !.list[t] = Append(@, Entry("result", m)),
                                                     !.res[m].callback = FALSE],
                                        t, "SENDMESSAGE"), m)
          ELSE SetBits(kept, t, "SMRESULT")
     ELSE IF s.res[m].receiver = NoThread THEN FreeResult(kept, m) ELSE kept

\* store_message_result
StoreResult(s, m, answer) ==
  LET t == s.res[m].sender
      kept == [s EXCEPT !.res[m] = [@ EXCEPT !.replied = TRUE, !.answer = answer,
                                             !.timeout = FALSE, !.hardware = FALSE],
                        !.input[m] = IF ~s.res[m].hardware THEN @
                                     ELSE IF answer = "reject" THEN "rejected" ELSE "queued"]
  IN IF t # NoThread
     THEN IF s.res[m].callback
          THEN RemoveFromSender(SetBits([kept EXCEPT !.list[t] = Append(@, Entry("result", m)),
                                                     !.res[m].callback = FALSE],
                                        t, "SENDMESSAGE"), m)
          ELSE IF Head(s.send_result[t]) = m THEN SetBits(kept, t, "SMRESULT") ELSE kept
     ELSE IF s.res[m].receiver = NoThread THEN FreeResult(kept, m) ELSE kept

\* free_message; e is an entry of a message list
FreeMessage(s, e) ==
  IF e.type = "result" \/ ~s.res[e.msg].msg THEN s
  ELSE StoreResult([s EXCEPT !.res[e.msg] = [@ EXCEPT !.msg = FALSE, !.receiver = NoThread]],
                   e.msg, "denied")

\* An entry leaves the list of sent messages; QS_SENDMESSAGE is kept up to date.
Unlinked(s, t, e) ==
  LET out == [s EXCEPT !.list[t] = RemoveFirst(@, e)]
  IN IF out.list[t] = <<>> THEN ClearBits(out, t, "SENDMESSAGE") ELSE out

\* remove_queue_message
RemoveQueueMessage(s, t, e) == FreeMessage(Unlinked(s, t, e), e)

\* result_timeout
ResultTimeout(s, m) ==
  LET r == s.res[m]
      off == [s EXCEPT !.res[m].timeout = FALSE]
      out == IF ~r.msg THEN off
             ELSE Unlinked([off EXCEPT !.res[m] = [@ EXCEPT !.msg = FALSE, !.receiver = NoThread]],
                           r.receiver, Entry("message", m))
  IN StoreResult(out, m, "timeout")

\* alloc_message_result and send_message (send_hook_ll_message for a hook); a message
\* that notifies has no result
Queued(s, m) ==
  LET t == s.attr[m].from
      to == s.attr[m].to
      result == [NoResult EXCEPT !.live = TRUE, !.sender = t, !.receiver = to, !.msg = TRUE,
                                 !.timeout = s.attr[m].timed,
                                 !.callback = Kind(s, m) = "callback",
                                 !.hardware = Kind(s, m) = "hook"]
      out == CASE Kind(s, m) = "notify" -> s
               [] Kind(s, m) = "callback" ->
                    [s EXCEPT !.res[m] = result, !.callback_result[t] = <<m>> \o @]
               [] OTHER ->
                    IF t = NoThread THEN [s EXCEPT !.res[m] = result]
                    ELSE ClearBits([s EXCEPT !.res[m] = result, !.send_result[t] = <<m>> \o @],
                                   t, "SMRESULT")
  IN SetBits([out EXCEPT !.list[to] = Append(@, Entry("message", m)),
                         !.input[m] = IF Kind(s, m) = "hook" THEN "held" ELSE @],
             to, "SENDMESSAGE")

\* receive_message of the first entry of the list
Received(s, t) ==
  LET e == Head(s.list[t])
      out == Unlinked(s, t, e)
  IN IF e.type = "message" /\ Kind(s, e.msg) # "notify"
     THEN [out EXCEPT !.res[e.msg].msg = FALSE, !.recv_result[t] = <<e.msg>> \o @]
     ELSE out

\* Mutant of Reply: the result that nobody waits for is not freed.
ReplyLeaking(s, t, answer, remove) ==
  LET m == Head(s.recv_result[t])
      out == IF remove THEN [s EXCEPT !.recv_result[t] = Tail(@), !.res[m].receiver = NoThread]
             ELSE s
  IN IF s.res[m].replied THEN out ELSE StoreResult(out, m, answer)

\* reply_message, of the last message received
Reply(s, t, answer, remove) ==
  LET m == Head(s.recv_result[t])
      out == IF remove THEN [s EXCEPT !.recv_result[t] = Tail(@), !.res[m].receiver = NoThread]
             ELSE s
  IN IF remove /\ s.res[m].sender = NoThread /\ ~s.res[m].hardware THEN FreeResult(out, m)
     ELSE IF s.res[m].replied THEN out
     ELSE StoreResult(out, m, answer)

\* get_message_reply with cancel: the first result leaves the stack of its sender, and
\* QS_SMRESULT is that of the next one.
ReplyTaken(s, t) ==
  LET out == RemoveFromSender(s, Head(s.send_result[t]))
      left == out.send_result[t]
  IN IF left # <<>> /\ out.res[Head(left)].replied THEN SetBits(out, t, "SMRESULT")
     ELSE ClearBits(out, t, "SMRESULT")

\* What the loops over a list of the thread's queue do with x: remove_result_from_sender
\* and reply_message in cleanup_results, free_message in empty_msg_list, and
\* remove_queue_message, of the messages of its windows, in queue_cleanup_window.
Cleanup(loop, s, t, x) ==
  CASE loop = "sent" -> RemoveFromSender(s, x)
    [] loop = "received" -> Reply(s, t, "denied", TRUE)
    [] loop = "queued" -> FreeMessage([s EXCEPT !.list[t] = RemoveFirst(@, x)], x)
    [] loop = "window" -> IF x.type = "message" /\ s.attr[x.msg].win
                          THEN RemoveQueueMessage(s, t, x) ELSE s

\* The loop over the list q
Each(loop, s, t, q) ==
  LET run[n \in 0..Len(q)] == IF n = 0 THEN s ELSE Cleanup(loop, run[n - 1], t, q[n])
  IN run[Len(q)]

\* msg_queue_destroy: cleanup_results, then empty_msg_list
QueueDestroyed(s, t) ==
  LET s1 == Each("sent", s, t, s.send_result[t])
      s2 == Each("sent", s1, t, s1.callback_result[t])
      s3 == Each("received", s2, t, s2.recv_result[t])
      s4 == Each("queued", s3, t, s3.list[t])
  IN [s4 EXCEPT !.bits[t] = {}, !.mask[t] = {}]

\* queue_cleanup_window: the messages of a window of the thread go.
WindowDestroyed(s, t) == Each("window", s, t, s.list[t])

\* get_queue_status: is the sync object of the queue signaled?
QueueStatus(s, t) == s.bits[t] \intersect s.mask[t] # {}

-----------------------------------------------------------------------------
(* The clients.                                                             *)

Top(t) == IF calls[t] = <<>> THEN Call("application", NoMessage) ELSE Head(calls[t])
At(t, pc) == Top(t).at = pc
Goto(t, pc) == calls' = [calls EXCEPT ![t] = <<Call(pc, Top(t).msg)>> \o Tail(@)]
Push(t, c) == calls' = [calls EXCEPT ![t] = <<c>> \o @]
Pop(t) == calls' = [calls EXCEPT ![t] = Tail(@)]

\* The thread is in code of the application.
InApplication(t) == t \in alive /\ Top(t).at \in {"application", "proc", "replied"}

\* put_message_in_queue; send_inter_thread_message goes on to wait_message_reply.  An
\* input event whose hook has no thread is queued at once.
Send(t, m) ==
  /\ InApplication(t) /\ srv.attr[m].from = t /\ m \notin used /\ Len(calls[t]) < Depth
  /\ used' = used \union {m}
  /\ IF srv.attr[m].to \in alive
     THEN /\ srv' = Queued(srv, m)
          /\ IF Kind(srv, m) \in {"send", "hook"}
             THEN Push(t, Call("wait", m)) ELSE UNCHANGED calls
     ELSE UNCHANGED <<srv, calls>>
  /\ UNCHANGED <<alive, told>>

\* send_hook_ll_message for input of a device, which has no sender
HardwareInput(m) ==
  /\ srv.attr[m].from = NoThread /\ m \notin used /\ srv.attr[m].to \in alive
  /\ used' = used \union {m}
  /\ srv' = Queued(srv, m)
  /\ UNCHANGED <<alive, calls, told>>

\* Mutant of CheckBits: the request is skipped also when the masks differ.
CheckBitsUnmasked(t) ==
  LET mask == {"SMRESULT"} \union IF srv.attr[Top(t).msg].block THEN {} ELSE {"SENDMESSAGE"}
  IN /\ At(t, "wait")
     /\ srv' = IF srv.bits[t] \intersect mask = {} THEN srv ELSE [srv EXCEPT !.mask[t] = mask]
     /\ \/ "SMRESULT" \in srv.bits[t] /\ Goto(t, "retrieve")
        \/ /\ "SMRESULT" \notin srv.bits[t] /\ "SENDMESSAGE" \in srv.bits[t] \intersect mask
           /\ Push(t, Call("peek", NoMessage))
        \/ srv.bits[t] \intersect mask = {} /\ Goto(t, "asleep")
     /\ UNCHANGED <<alive, used, told>>

\* wait_message_reply: check_queue_bits or set_queue_mask
CheckBits(t) ==
  LET mask == {"SMRESULT"} \union IF srv.attr[Top(t).msg].block THEN {} ELSE {"SENDMESSAGE"}
  IN /\ At(t, "wait")
     /\ srv' = [srv EXCEPT !.mask[t] = mask]
     /\ \/ "SMRESULT" \in srv.bits[t] /\ Goto(t, "retrieve")
        \/ /\ "SMRESULT" \notin srv.bits[t] /\ "SENDMESSAGE" \in srv.bits[t] \intersect mask
           /\ Push(t, Call("peek", NoMessage))
        \/ srv.bits[t] \intersect mask = {} /\ Goto(t, "asleep")
     /\ UNCHANGED <<alive, used, told>>

\* wait_message: NtWaitForMultipleObjects on the queue
Wake(t) ==
  /\ At(t, "asleep") /\ QueueStatus(srv, t)
  /\ Goto(t, "wait")
  /\ UNCHANGED <<srv, alive, used, told>>

\* retrieve_reply
Retrieve(t) ==
  LET m == Head(srv.send_result[t])
  IN /\ At(t, "retrieve") /\ srv.send_result[t] # <<>>
     /\ srv' = ReplyTaken(srv, t)
     /\ told' = [told EXCEPT ![Top(t).msg] =
                   [msg |-> m, answer |-> IF srv.res[m].replied THEN srv.res[m].answer
                                          ELSE "pending"]]
     /\ Pop(t)
     /\ UNCHANGED <<alive, used>>

\* The application asks for messages.
Pump(t) ==
  /\ t \in alive /\ calls[t] = <<>> /\ "SENDMESSAGE" \in srv.bits[t]
  /\ Push(t, Call("peek", NoMessage))
  /\ UNCHANGED <<srv, alive, used, told>>

\* peek_message: the next sent message is received and its window procedure or hook
\* called, or the callback of SendMessageCallback; with none left the masks of the queue
\* are those of get_message.
Peek(t) ==
  /\ At(t, "peek")
  /\ IF srv.list[t] = <<>>
     THEN srv' = [srv EXCEPT !.mask[t] = {}] /\ Pop(t)
     ELSE /\ srv' = Received(srv, t)
          /\ IF Head(srv.list[t]).type = "message"
             THEN Push(t, Call("proc", Head(srv.list[t]).msg)) ELSE UNCHANGED calls
  /\ UNCHANGED <<alive, used, told>>

\* NtUserReplyMessage in a window procedure.  A hook procedure has no receive_info of its
\* own; called inside a window procedure it has that one's, and its early reply, which the
\* server takes for one to the hook, is left out.
ReplyMessage(t) ==
  /\ At(t, "proc") /\ Kind(srv, Top(t).msg) \in {"send", "callback"}
  /\ srv' = Reply(srv, t, "value", FALSE)
  /\ Goto(t, "replied")
  /\ UNCHANGED <<alive, used, told>>

\* reply_winproc_result, or the reply of a hook: it passes the input on or rejects it
ProcReturns(t) ==
  LET m == Top(t).msg
  IN /\ At(t, "proc") \/ At(t, "replied")
     /\ \/ Kind(srv, m) = "notify" /\ srv' = srv
        \/ Kind(srv, m) # "notify" /\ srv' = Reply(srv, t, "value", TRUE)
        \/ Kind(srv, m) = "hook" /\ srv' = Reply(srv, t, "reject", TRUE)
     /\ Pop(t)
     /\ UNCHANGED <<alive, used, told>>

-----------------------------------------------------------------------------
(* What else happens in the server.                                         *)

TimeOut(m) ==
  /\ srv.res[m].timeout
  /\ srv' = ResultTimeout(srv, m)
  /\ UNCHANGED <<alive, calls, used, told>>

\* DestroyWindow in the thread of the window
DestroyWindow(t) ==
  /\ InApplication(t)
  /\ \E e \in ToSet(srv.list[t]) : e.type = "message" /\ srv.attr[e.msg].win
  /\ srv' = WindowDestroyed(srv, t)
  /\ UNCHANGED <<alive, calls, used, told>>

\* The thread exits, or its process ends: with its handle closed (thread_detach) the
\* queue is destroyed when the thread is cleaned up (cleanup_thread, free_msg_queue).
Die(t) ==
  /\ t \in Mortal \intersect alive
  /\ alive' = alive \ {t}
  /\ srv' = QueueDestroyed(srv, t)
  /\ calls' = [calls EXCEPT ![t] = <<>>]
  /\ UNCHANGED <<used, told>>

\* TerminateThread, while the process goes on: its handle keeps the queue, which loses
\* the messages of the windows (destroy_thread_windows) and nothing else.
Terminate(t) ==
  /\ t \in Mortal \intersect alive
  /\ alive' = alive \ {t}
  /\ srv' = WindowDestroyed(srv, t)
  /\ calls' = [calls EXCEPT ![t] = <<>>]
  /\ UNCHANGED <<used, told>>

ClientStep(t) ==
  CheckBits(t) \/ Wake(t) \/ Retrieve(t) \/ Pump(t) \/ Peek(t) \/ ProcReturns(t)

Next ==
  \/ \E t \in Threads :
       \/ ClientStep(t) \/ ReplyMessage(t) \/ DestroyWindow(t) \/ Die(t) \/ Terminate(t)
       \/ \E m \in Messages : Send(t, m)
  \/ \E m \in Messages : HardwareInput(m) \/ TimeOut(m)

Spec == Init /\ [][Next]_vars

\* Threads run, window procedures return and threads ask for their messages; the
\* server's timeouts expire.
FairSpec ==
  /\ Spec
  /\ \A t \in Threads : WF_vars(ClientStep(t))
  /\ \A m \in Messages : WF_vars(TimeOut(m))

-----------------------------------------------------------------------------
(* Properties.                                                              *)

\* The threads, the messages, the queue bits and the input held for hooks have their types.
TypeOK ==
  /\ alive \subseteq Threads /\ used \subseteq Messages
  /\ srv.bits \in [Threads -> SUBSET {"SENDMESSAGE", "SMRESULT"}]
  /\ srv.input \in [Messages -> {"none", "held", "queued", "rejected", "lost"}]

\* A result lives exactly as long as somebody refers to it: its sender's stack, its
\* message in the receiver's list, or the receiver's stack; whoever refers to it is
\* recorded in it (alloc_message_result, receive_message, reply_message,
\* remove_result_from_sender, free_result).  The hardware message of a hook is held by a
\* result that lives, and is never dropped with it (store_message_result).
ResultsOwned ==
  \A m \in Messages :
    LET r == srv.res[m]
        sent == {t \in Threads : m \in ToSet(srv.send_result[t] \o srv.callback_result[t])}
        queued == {t \in Threads : Entry("message", m) \in ToSet(srv.list[t])}
        received == {t \in Threads : m \in ToSet(srv.recv_result[t])}
    IN /\ sent = (IF r.sender = NoThread THEN {} ELSE {r.sender})
       /\ Kind(srv, m) # "notify" => r.msg = (queued # {})
       /\ (queued \union received = {}) = (r.receiver = NoThread) \/ Kind(srv, m) = "notify"
       /\ received # {} => received = {r.receiver} /\ ~r.msg
       /\ r.live = (sent # {} \/ r.receiver # NoThread)
       /\ r.hardware = (srv.input[m] = "held") /\ srv.input[m] # "lost"
       /\ r.timeout => r.live /\ ~r.replied

\* The results are those of the messages of the calls c[i] with i in W, in this order.
InStep(results, c, W) ==
  \E f \in [DOMAIN results -> W] :
    /\ \A i, j \in DOMAIN results : i < j => f[i] < f[j]
    /\ \A k \in W : \E i \in DOMAIN results : f[i] = k
    /\ \A i \in DOMAIN results : c[f[i]].msg = results[i]

\* A sender is told the answer to its own message, and it is final: nested sends, replies
\* out of order and timeouts never hand it the result of another one.  QS_SMRESULT says
\* that the innermost send has its answer, QS_SENDMESSAGE that messages wait
\* (store_message_result, alloc_message_result, get_message_reply).
RightReply ==
  \A t \in alive :
    LET results == srv.send_result[t]
        waits == {i \in DOMAIN calls[t] : calls[t][i].at \in {"wait", "asleep", "retrieve"}}
    IN /\ InStep(results, calls[t], waits)
       /\ ("SMRESULT" \in srv.bits[t]) = (results # <<>> /\ srv.res[Head(results)].replied)
       /\ ("SENDMESSAGE" \in srv.bits[t]) = (srv.list[t] # <<>>)
       /\ At(t, "retrieve") => "SMRESULT" \in srv.bits[t]
  /\ \A m \in Messages :
       told[m].msg # NoMessage => told[m] = [msg |-> m, answer |-> srv.res[m].answer]

\* The thread waits for the answer of a terminated thread, whose queue still has the
\* message as a received one.
Orphaned(t) ==
  At(t, "asleep") /\ \E d \in Threads \ alive : Top(t).msg \in ToSet(srv.recv_result[d])

\* SendMessage returns: the message is answered, times out, or its receiver or its window
\* dies, also while the sender handles other messages (wait_message_reply); only a
\* receiver that is terminated in a process that goes on can leave it waiting.
SendReturns ==
  \A t \in Threads :
    (\E i \in DOMAIN calls[t] : calls[t][i].at = "asleep") ~> (calls[t] = <<>> \/ Orphaned(t))

=============================================================================
