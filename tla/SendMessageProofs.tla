------------------------- MODULE SendMessageProofs -------------------------
(* Proofs about SendMessage: message results are owned by whoever refers to  *)
(* them, and a sender is told the answer to its own message.                 *)
EXTENDS SendMessage, QueueLemmas, TLAPS

-----------------------------------------------------------------------------
(* The server's state.                                                      *)

Somebody == Threads \union {NoThread}
Answers == {"none", "value", "reject", "denied", "timeout"}
Bits == {"SENDMESSAGE", "SMRESULT"}
Entries == [type : {"message", "result"}, msg : Messages]
Results == [live : BOOLEAN, sender : Somebody, receiver : Somebody, msg : BOOLEAN,
            replied : BOOLEAN, answer : Answers, timeout : BOOLEAN, callback : BOOLEAN,
            hardware : BOOLEAN]
Server == [list : [Threads -> Seq(Entries)],
           send_result : [Threads -> Seq(Messages)],
           callback_result : [Threads -> Seq(Messages)],
           recv_result : [Threads -> Seq(Messages)],
           bits : [Threads -> SUBSET Bits],
           mask : [Threads -> SUBSET Bits],
           res : [Messages -> Results],
           input : [Messages -> {"none", "held", "queued", "rejected", "lost"}],
           attr : Attrs]

\* Nothing is on a list twice.
Lists(s) ==
  \A t \in Threads : /\ Distinct(s.list[t]) /\ Distinct(s.send_result[t])
                     /\ Distinct(s.callback_result[t]) /\ Distinct(s.recv_result[t])

\* The result of a message and the lists refer to each other; what has not been sent (it
\* is not in U) is nowhere.
SentLink(s, m) ==
  LET r == s.res[m]
  IN /\ \A t \in Threads :
          /\ m \in ToSet(s.send_result[t]) <=> r.sender = t /\ Kind(s, m) # "callback"
          /\ m \in ToSet(s.callback_result[t]) <=> r.sender = t /\ Kind(s, m) = "callback"
     /\ r.sender # NoThread => (r.callback <=> Kind(s, m) = "callback")
ReceivedLink(s, m) ==
  LET r == s.res[m]
  IN /\ \A t \in Threads :
          /\ m \in ToSet(s.recv_result[t]) <=> r.receiver = t /\ ~r.msg
          /\ Entry("message", m) \in ToSet(s.list[t]) => s.attr[m].to = t
          /\ Kind(s, m) # "notify" =>
               (Entry("message", m) \in ToSet(s.list[t]) <=> r.receiver = t /\ r.msg)
          /\ Entry("result", m) \in ToSet(s.list[t]) => r.sender = NoThread
     /\ r.msg => r.receiver = s.attr[m].to
Unsent(s, m) ==
  /\ s.res[m] = NoResult /\ s.input[m] = "none"
  /\ \A t \in Threads : \A type : Entry(type, m) \notin ToSet(s.list[t])
Links(s, U) ==
  /\ s \in Server /\ Lists(s)
  /\ \A m \in Messages :
       /\ SentLink(s, m) /\ ReceivedLink(s, m)
       /\ m \notin U => Unsent(s, m)
       /\ Kind(s, m) = "notify" => s.res[m] = NoResult

\* How long a result lives, and what it holds.
Held(s, m) ==
  /\ s.res[m].hardware <=> s.input[m] = "held"
  /\ s.input[m] # "lost"
Lives(s, m) ==
  LET r == s.res[m]
  IN /\ r.live <=> r.sender # NoThread \/ r.receiver # NoThread
     /\ Held(s, m)
     /\ r.hardware => r.receiver # NoThread
     /\ r.hardware \/ r.timeout \/ r.msg => r.live /\ ~r.replied
ServerInv(s, U) == Links(s, U) /\ \A m \in Messages : Lives(s, m)

\* The wake bits of the queue say what is on its lists.
Shown(s, t) ==
  /\ "SMRESULT" \in s.bits[t]
       <=> s.send_result[t] # <<>> /\ s.res[Head(s.send_result[t])].replied
  /\ "SENDMESSAGE" \in s.bits[t] <=> s.list[t] # <<>>

-----------------------------------------------------------------------------
(* The calls of the clients.                                                *)

CallRecords == [at : {"wait", "asleep", "retrieve", "peek", "proc", "replied"},
                msg : Messages \union {NoMessage}]
\* what senders may have been told
Told == [Messages -> [msg : Messages \union {NoMessage}, answer : Answers \union {"pending"}]]
CallTypes ==
  /\ alive \subseteq Threads /\ used \subseteq Messages
  /\ calls \in [Threads -> Seq(CallRecords)]
  /\ told \in Told

\* The calls that wait for a result, and the ones that will answer a message
WaitCalls == {k \in CallRecords : k.at \in {"wait", "asleep", "retrieve"}}
ProcCalls(s) == {k \in CallRecords : k.at \in {"proc", "replied"} /\ Kind(s, k.msg) # "notify"}
Where(c, A) == {i \in DOMAIN c : c[i] \in A}

\* The calls c of the thread go with its results, and nothing is above a call that takes one.
Stack(s, t, c) ==
  /\ \A i \in DOMAIN c :
       /\ c[i].at # "peek" => c[i].msg \in Messages
       /\ c[i].at = "retrieve" => i = 1 /\ "SMRESULT" \in s.bits[t]
  /\ InStep(s.send_result[t], c, Where(c, WaitCalls))
  /\ InStep(s.recv_result[t], c, Where(c, ProcCalls(s)))
CallInv(t) == IF t \in alive THEN Stack(srv, t, calls[t]) ELSE calls[t] = <<>>

ToldInv ==
  \A m \in Messages :
    told[m].msg # NoMessage =>
      srv.res[m].replied /\ told[m] = [msg |-> m, answer |-> srv.res[m].answer]

IInv ==
  /\ CallTypes /\ ServerInv(srv, used)
  /\ \A t \in Threads : Shown(srv, t) /\ CallInv(t)
  /\ ToldInv
-----------------------------------------------------------------------------
(* Sequences and loops.                                                     *)

\* Pushing puts a member first; popping takes it away again.
LEMMA Pushed ==
  ASSUME NEW S, NEW q \in Seq(S), NEW e \in S
  PROVE  /\ <<e>> \o q \in Seq(S) /\ <<e>> \o q # <<>> /\ Head(<<e>> \o q) = e
         /\ Len(<<e>> \o q) = Len(q) + 1 /\ (<<e>> \o q)[1] = e
         /\ \A i \in 1..Len(q) : (<<e>> \o q)[i + 1] = q[i]
         /\ ToSet(<<e>> \o q) = {e} \union ToSet(q)
         /\ Distinct(q) /\ e \notin ToSet(q) => Distinct(<<e>> \o q)
<1> DEFINE p == <<e>> \o q
<1>1. p \in Seq(S) /\ Len(p) = Len(q) + 1 /\ p[1] = e /\ Len(q) \in Nat
  OBVIOUS
<1>2. \A i \in 1..Len(q) : p[i + 1] = q[i]
  OBVIOUS
<1>3. ToSet(p) = {e} \union ToSet(q)
  BY ToSetPush
<1>4. p # <<>> /\ Head(p) = e
  BY <1>1
<1>5. ASSUME Distinct(q), e \notin ToSet(q)
      PROVE  Distinct(p)
  <2>1. \A i \in 1..Len(q) : q[i] # e
    BY <1>5, ToSetMembers
  <2> HIDE DEF p
  <2>2. ASSUME NEW i \in 1..Len(p), NEW j \in 1..Len(p), p[i] = p[j]
        PROVE  i = j
    <3>1. /\ i # 1 => p[i] = q[i - 1] /\ i - 1 \in 1..Len(q)
          /\ j # 1 => p[j] = q[j - 1] /\ j - 1 \in 1..Len(q)
      BY <1>1, <1>2
    <3>2. (i # 1 => p[i] # e) /\ (j # 1 => p[j] # e)
      BY <2>1, <3>1
    <3>3. CASE i = 1 \/ j = 1
      BY <1>1, <2>2, <3>2, <3>3
    <3>4. CASE i # 1 /\ j # 1
      <4>1. i - 1 = j - 1
        BY <1>5, <2>2, <3>1, <3>4 DEF Distinct
      <4> QED
        BY <4>1
    <3> QED
      BY <3>3, <3>4
  <2> QED
    BY <2>2 DEF Distinct
<1> QED
  BY <1>1, <1>2, <1>3, <1>4, <1>5

\* The head leaves the tail.
LEMMA RemoveHead ==
  ASSUME NEW S, NEW q \in Seq(S), q # <<>>, Distinct(q)
  PROVE  RemoveFirst(q, Head(q)) = Tail(q)
<1>1. Head(q) = q[1] /\ 1 \in 1..Len(q) /\ Len(q) \in Nat
  OBVIOUS
<1>2. Head(q) \in ToSet(q)
  BY <1>1, ToSetMembers
<1>3. PICK i \in 1..Len(q) : q[i] = Head(q) /\ RemoveFirst(q, Head(q)) = RemoveAt(q, i)
  BY <1>2, RemoveFirstIsRemoveAt
<1>4. i = 1
  BY <1>1, <1>3 DEF Distinct
<1>5. PICK r : r = RemoveAt(q, 1)
  OBVIOUS
<1>6. /\ r \in Seq(S) /\ Len(r) = Len(q) - 1
      /\ \A j \in 1..(Len(q) - 1) : r[j] = q[j + 1]
  BY <1>1, <1>5, RemoveAtElements
<1>7. r = Tail(q)
  <2> DEFINE u == Tail(q)
  <2>1. u \in Seq(S)
    OBVIOUS
  <2>2. Len(u) = Len(q) - 1 /\ \A j \in 1..(Len(q) - 1) : u[j] = q[j + 1]
    BY <1>1, <2>1
  <2> QED
    BY <1>1, <1>6, <2>1, <2>2
<1> QED
  BY <1>3, <1>4, <1>5, <1>7

\* The states that a loop goes through.
LEMMA EachRuns ==
  ASSUME NEW loop, NEW s, NEW t, NEW S, NEW q \in Seq(S)
  PROVE  \E g : /\ g[0] = s /\ \A n \in 1..Len(q) : g[n] = Cleanup(loop, g[n - 1], t, q[n])
                /\ Each(loop, s, t, q) = g[Len(q)]
<1> DEFINE IsRun(g, N) == g = [n \in 0..N |-> IF n = 0 THEN s ELSE Cleanup(loop, g[n - 1], t, q[n])]
           P == {N \in Nat : \E g : IsRun(g, N)}
<1>1. Len(q) \in Nat
  OBVIOUS
<1>2. 0 \in P
  <2>1. IsRun([n \in 0..0 |-> s], 0)
    OBVIOUS
  <2> QED
    BY <2>1
<1>3. ASSUME NEW N \in 1..Len(q), N - 1 \in P
      PROVE  N \in P
  <2>1. PICK g : IsRun(g, N - 1)
    BY <1>3
  <2>2. DEFINE h == [n \in 0..N |-> IF n = N THEN Cleanup(loop, g[N - 1], t, q[N]) ELSE g[n]]
  <2>3. ASSUME NEW n \in 0..N
        PROVE  h[n] = IF n = 0 THEN s ELSE Cleanup(loop, h[n - 1], t, q[n])
    <3>1. CASE n = N
      BY <1>1, <1>3, <2>1, <3>1
    <3>2. CASE n # N
      BY <1>1, <1>3, <2>1, <3>2
    <3> QED
      BY <3>1, <3>2
  <2>4. IsRun(h, N)
    <3> HIDE DEF h
    <3>1. h = [n \in 0..N |-> h[n]]
      BY DEF h
    <3> QED
      BY <2>3, <3>1
  <2>5. N \in Nat
    BY <1>1
  <2> HIDE DEF h, IsRun
  <2> QED
    BY <2>4, <2>5
<1>4. Len(q) \in P
  <2> HIDE DEF P
  <2> QED
    BY <1>1, <1>2, <1>3, UpTo, SMTT(30)
<1>5. PICK g : IsRun(g, Len(q))
  BY <1>4
<1> DEFINE run == CHOOSE h : IsRun(h, Len(q))
<1>6. IsRun(run, Len(q))
  <2> HIDE DEF IsRun
  <2> QED
    BY <1>5
<1>7. Each(loop, s, t, q) = run[Len(q)]
  BY DEF Each
<1> HIDE DEF run
<1>8. run[0] = s
  BY <1>1, <1>6
<1>9. \A n \in 1..Len(q) : run[n] = Cleanup(loop, run[n - 1], t, q[n])
  BY <1>1, <1>6
<1> QED
  BY <1>7, <1>8, <1>9
-----------------------------------------------------------------------------
(* What the functions of the server change: at most what is about one       *)
(* message m.                                                               *)

\* The fields of the states and of the results.
LEMMA ServerFields ==
  ASSUME NEW s \in Server
  PROVE  /\ DOMAIN s = {"list", "send_result", "callback_result", "recv_result", "bits", "mask",
                        "res", "input", "attr"}
         /\ s.list \in [Threads -> Seq(Entries)] /\ s.send_result \in [Threads -> Seq(Messages)]
         /\ s.callback_result \in [Threads -> Seq(Messages)]
         /\ s.recv_result \in [Threads -> Seq(Messages)]
         /\ s.bits \in [Threads -> SUBSET Bits] /\ s.mask \in [Threads -> SUBSET Bits]
         /\ s.res \in [Messages -> Results] /\ s.attr \in Attrs
         /\ s.input \in [Messages -> {"none", "held", "queued", "rejected", "lost"}]
BY DEF Server

\* free_result changes the result and the input.
LEMMA FreeFields ==
  ASSUME NEW s \in Server, NEW m \in Messages
  PROVE  FreeResult(s, m) =
           [s EXCEPT !.res = [s.res EXCEPT ![m] = [NoResult EXCEPT !.replied = s.res[m].replied,
                                                                   !.answer = s.res[m].answer]],
                     !.input = [s.input EXCEPT ![m] = IF s.res[m].hardware THEN "lost" ELSE @]]
BY ServerFields DEF FreeResult

\* What is left of a result that was freed, or that its sender has left.
Freed(r) == [NoResult EXCEPT !.replied = r.replied, !.answer = r.answer]
Left(r) == IF r.receiver = NoThread THEN Freed(r) ELSE [r EXCEPT !.sender = NoThread]
LeftInput(r, i) == IF r.receiver = NoThread /\ r.hardware THEN "lost" ELSE i

\* These are results.
LEMMA FreedTypes ==
  /\ NoResult \in Results
  /\ \A r \in Results : /\ Freed(r) \in Results /\ Left(r) \in Results
                        /\ [r EXCEPT !.sender = NoThread] \in Results
BY DEF Results, NoResult, Freed, Left, Somebody, Answers

\* remove_result_from_sender changes the result, its input, and the lists of its sender.
Removed(s, x, m, t) ==
  /\ x \in Server /\ x.list = s.list /\ x.recv_result = s.recv_result /\ x.bits = s.bits
  /\ x.mask = s.mask /\ x.attr = s.attr
  /\ x.send_result = [s.send_result EXCEPT ![t] = RemoveFirst(@, m)]
  /\ x.callback_result = [s.callback_result EXCEPT ![t] = RemoveFirst(@, m)]
  /\ x.res = [s.res EXCEPT ![m] = Left(@)]
  /\ x.input = [s.input EXCEPT ![m] = LeftInput(s.res[m], @)]

\* It does that.
LEMMA RemoveFromSenderFields ==
  ASSUME NEW s \in Server, NEW m \in Messages, NEW t \in Threads, s.res[m].sender = t,
         NEW x, x = RemoveFromSender(s, m)
  PROVE  Removed(s, x, m, t)
<1> DEFINE S == [s.send_result EXCEPT ![t] = RemoveFirst(@, m)]
           C == [s.callback_result EXCEPT ![t] = RemoveFirst(@, m)]
           R == [s.res EXCEPT ![m] = [@ EXCEPT !.sender = NoThread]]
           out == [s EXCEPT !.send_result = S, !.callback_result = C, !.res = R]
<1>1. /\ S \in [Threads -> Seq(Messages)] /\ C \in [Threads -> Seq(Messages)]
  <2>1. RemoveFirst(s.send_result[t], m) \in Seq(Messages)
    BY ServerFields, RemoveFirstType
  <2>2. RemoveFirst(s.callback_result[t], m) \in Seq(Messages)
    BY ServerFields, RemoveFirstType
  <2> QED
    BY <2>1, <2>2, ServerFields
<1>2. R \in [Messages -> Results]
  BY ServerFields, FreedTypes
<1>3. [s EXCEPT !.send_result[t] = RemoveFirst(@, m),
                !.callback_result[t] = RemoveFirst(@, m),
                !.res[m].sender = NoThread] = out
  BY ServerFields
<1>4. out \in Server
  <2> HIDE DEF S, C, R
  <2> QED
    BY <1>1, <1>2, ServerFields DEF Server
<1>5. x = IF s.res[m].receiver = NoThread THEN FreeResult(out, m) ELSE out
  BY <1>3 DEF RemoveFromSender
<1>6. /\ out.list = s.list /\ out.recv_result = s.recv_result /\ out.bits = s.bits
      /\ out.mask = s.mask /\ out.attr = s.attr /\ out.input = s.input
      /\ out.send_result = S /\ out.callback_result = C /\ out.res = R
  <2> HIDE DEF S, C, R
  <2> QED
    BY ServerFields
<1>7. /\ R[m].replied = s.res[m].replied /\ R[m].answer = s.res[m].answer
      /\ R[m].hardware = s.res[m].hardware /\ R[m] = [s.res[m] EXCEPT !.sender = NoThread]
      /\ \A r : [R EXCEPT ![m] = r] = [s.res EXCEPT ![m] = r]
  <2>1. R[m] = [s.res[m] EXCEPT !.sender = NoThread] /\ s.res[m] \in Results
    BY ServerFields
  <2>2. /\ R[m].replied = s.res[m].replied /\ R[m].answer = s.res[m].answer
        /\ R[m].hardware = s.res[m].hardware
    BY <2>1 DEF Results
  <2>3. \A r : [R EXCEPT ![m] = r] = [s.res EXCEPT ![m] = r]
    BY ServerFields
  <2> QED
    BY <2>1, <2>2, <2>3
<1>8. CASE s.res[m].receiver # NoThread
  <2>1. x = out
    BY <1>5, <1>8
  <2>2. Left(s.res[m]) = [s.res[m] EXCEPT !.sender = NoThread]
        /\ LeftInput(s.res[m], s.input[m]) = s.input[m]
    BY <1>8 DEF Left, LeftInput
  <2>3. R = [s.res EXCEPT ![m] = Left(@)] /\ s.input = [s.input EXCEPT ![m] = LeftInput(s.res[m], @)]
    BY <2>2, ServerFields
  <2> HIDE DEF out, R, S, C
  <2>4. /\ x.send_result = S /\ x.callback_result = C /\ x.res = R
    BY <1>6, <2>1
  <2> QED
    BY <1>4, <1>6, <2>1, <2>3, <2>4 DEF S, C, Removed
<1>9. CASE s.res[m].receiver = NoThread
  <2> DEFINE I == [s.input EXCEPT ![m] = IF s.res[m].hardware THEN "lost" ELSE @]
  <2>1. x = [out EXCEPT !.res = [s.res EXCEPT ![m] = Freed(@)], !.input = I]
    <3> HIDE DEF out, R, S, C
    <3>1. x = FreeResult(out, m)
      BY <1>5, <1>9
    <3>2. x = [out EXCEPT !.res = [out.res EXCEPT ![m] = [NoResult EXCEPT
                                      !.replied = out.res[m].replied,
                                      !.answer = out.res[m].answer]],
                          !.input = [out.input EXCEPT ![m] = IF out.res[m].hardware
                                                             THEN "lost" ELSE @]]
      BY <1>4, <3>1, FreeFields
    <3>3. [R EXCEPT ![m] = Freed(s.res[m])] = [s.res EXCEPT ![m] = Freed(@)]
      BY <1>7
    <3> QED
      BY <1>6, <1>7, <3>2, <3>3 DEF Freed
  <2>2. Left(s.res[m]) = Freed(s.res[m]) /\ I = [s.input EXCEPT ![m] = LeftInput(s.res[m], @)]
    BY <1>9, ServerFields DEF Left, LeftInput
  <2>3. [s.res EXCEPT ![m] = Freed(@)] \in [Messages -> Results]
        /\ I \in [Messages -> {"none", "held", "queued", "rejected", "lost"}]
    <3>1. I \in [Messages -> {"none", "held", "queued", "rejected", "lost"}]
      BY ServerFields
    <3>2. s.res \in [Messages -> Results] /\ s.res[m] \in Results
      BY ServerFields
    <3>3. Freed(s.res[m]) \in Results
      BY <3>2, FreedTypes
    <3> QED
      BY <3>1, <3>2, <3>3
  <2> HIDE DEF out, R, S, C, I
  <2>4. DOMAIN out = DOMAIN s
    BY <1>4, ServerFields
  <2>5. /\ x.list = s.list /\ x.recv_result = s.recv_result /\ x.bits = s.bits
        /\ x.mask = s.mask /\ x.attr = s.attr /\ x.input = I
        /\ x.send_result = S /\ x.callback_result = C
        /\ x.res = [s.res EXCEPT ![m] = Freed(@)]
    BY <1>6, <2>1, <2>4, ServerFields
  <2>6. x \in Server
    BY <1>4, <2>1, <2>3 DEF Server
  <2> QED
    BY <2>2, <2>5, <2>6 DEF S, C, Removed
<1> QED
  BY <1>8, <1>9

\* A result with its answer.
Kept(r, answer) == [r EXCEPT !.replied = TRUE, !.answer = answer, !.timeout = FALSE,
                             !.hardware = FALSE]
KeptInput(r, i, answer) ==
  IF ~r.hardware THEN i ELSE IF answer = "reject" THEN "rejected" ELSE "queued"

\* It is a result.
LEMMA KeptTypes ==
  ASSUME NEW r \in Results, NEW answer \in Answers
  PROVE  LET k == Kept(r, answer)
         IN /\ k \in Results /\ k.replied = TRUE /\ k.answer = answer /\ k.timeout = FALSE
            /\ k.hardware = FALSE /\ k.live = r.live /\ k.sender = r.sender
            /\ k.receiver = r.receiver /\ k.msg = r.msg /\ k.callback = r.callback
BY DEF Kept, Results

\* A state with another result and input of m, and with another list and other bits of t
SetResult(s, m, R, I) == [s EXCEPT !.res[m] = R, !.input[m] = I]
ResultSet(s, x, m, R, I) ==
  /\ x \in Server /\ x.list = s.list /\ x.send_result = s.send_result
  /\ x.callback_result = s.callback_result /\ x.recv_result = s.recv_result
  /\ x.bits = s.bits /\ x.mask = s.mask /\ x.attr = s.attr
  /\ x.res = [s.res EXCEPT ![m] = R] /\ x.input = [s.input EXCEPT ![m] = I]
SetQueue(s, t, L, B) == [s EXCEPT !.list[t] = L, !.bits[t] = B]
QueueSet(s, x, t, L, B) ==
  /\ x \in Server /\ x.send_result = s.send_result
  /\ x.callback_result = s.callback_result /\ x.recv_result = s.recv_result
  /\ x.mask = s.mask /\ x.attr = s.attr /\ x.res = s.res /\ x.input = s.input
  /\ x.list = [s.list EXCEPT ![t] = L] /\ x.bits = [s.bits EXCEPT ![t] = B]

\* The fields of a state with another result and input of m.
LEMMA WithResult ==
  ASSUME NEW s \in Server, NEW m \in Messages, NEW R \in Results,
         NEW I \in {"none", "held", "queued", "rejected", "lost"},
         NEW x, x = SetResult(s, m, R, I)
  PROVE  ResultSet(s, x, m, R, I)
<1> DEFINE Rs == [s.res EXCEPT ![m] = R]
           Is == [s.input EXCEPT ![m] = I]
<1>1. x = [s EXCEPT !.res = Rs, !.input = Is]
  BY ServerFields DEF SetResult
<1>2. /\ Rs \in [Messages -> Results]
      /\ Is \in [Messages -> {"none", "held", "queued", "rejected", "lost"}]
  BY ServerFields
<1> HIDE DEF Rs, Is
<1>3. x \in Server
  BY <1>1, <1>2, ServerFields DEF Server
<1> QED
  BY <1>1, <1>3, ServerFields DEF Rs, Is, ResultSet

\* The result alone is another one.
LEMMA SameInput ==
  ASSUME NEW s \in Server, NEW m \in Messages, NEW R \in Results
  PROVE  [s EXCEPT !.res[m] = R] = SetResult(s, m, R, s.input[m])
<1>1. PICK Rs : Rs = [s.res EXCEPT ![m] = R]
  OBVIOUS
<1>2. [s EXCEPT !.res[m] = R] = [s EXCEPT !.res = Rs]
  BY <1>1, ServerFields
<1>3. s.input = [s.input EXCEPT ![m] = s.input[m]]
  BY ServerFields
<1>4. SetResult(s, m, R, s.input[m]) = [s EXCEPT !.res = Rs, !.input = s.input]
  <2>1. PICK v : v = [s EXCEPT !.res = Rs]
    OBVIOUS
  <2>2. v.input = s.input
    BY <2>1, ServerFields
  <2>3. SetResult(s, m, R, s.input[m]) = [v EXCEPT !.input[m] = s.input[m]]
    BY <1>1, <2>1 DEF SetResult
  <2> QED
    BY <1>3, <2>1, <2>2, <2>3
<1>5. [s EXCEPT !.res = Rs, !.input = s.input] = [s EXCEPT !.res = Rs]
  BY ServerFields
<1> QED
  BY <1>2, <1>4, <1>5

\* The fields of a state with another list and other bits of the queue of t.
LEMMA WithQueue ==
  ASSUME NEW s \in Server, NEW t \in Threads, NEW L \in Seq(Entries), NEW B \in SUBSET Bits,
         NEW x, x = SetQueue(s, t, L, B)
  PROVE  QueueSet(s, x, t, L, B)
<1> DEFINE Ls == [s.list EXCEPT ![t] = L]
           Bs == [s.bits EXCEPT ![t] = B]
<1>1. x = [s EXCEPT !.list = Ls, !.bits = Bs]
  BY ServerFields DEF SetQueue
<1>2. Ls \in [Threads -> Seq(Entries)] /\ Bs \in [Threads -> SUBSET Bits]
  BY ServerFields
<1> HIDE DEF Ls, Bs
<1>3. x \in Server
  BY <1>1, <1>2, ServerFields DEF Server
<1> QED
  BY <1>1, <1>3, ServerFields DEF Ls, Bs, QueueSet

\* What store_message_result does.
Calls(r) == r.sender # NoThread /\ r.callback
Stored(s, x, m, answer) ==
  LET r == s.res[m]
      t == r.sender
  IN /\ x \in Server /\ x.recv_result = s.recv_result /\ x.mask = s.mask /\ x.attr = s.attr
     /\ x.input = [s.input EXCEPT ![m] = KeptInput(r, @, answer)]
     /\ \E R \in Results :
          /\ x.res = [s.res EXCEPT ![m] = R]
          /\ R.replied = TRUE /\ R.answer = answer /\ R.timeout = FALSE /\ R.hardware = FALSE
          /\ R.receiver = r.receiver /\ R.msg = FALSE
          /\ R.sender = IF Calls(r) THEN NoThread ELSE r.sender
          /\ R.live <=> r.live /\ ~(R.sender = NoThread /\ R.receiver = NoThread)
          /\ R.sender # NoThread => R.callback = r.callback
     /\ Calls(r) =>
          /\ x.list = [s.list EXCEPT ![t] = Append(@, Entry("result", m))]
          /\ x.send_result = [s.send_result EXCEPT ![t] = RemoveFirst(@, m)]
          /\ x.callback_result = [s.callback_result EXCEPT ![t] = RemoveFirst(@, m)]
          /\ x.bits = [s.bits EXCEPT ![t] = @ \union {"SENDMESSAGE"}]
     /\ ~Calls(r) =>
          /\ x.list = s.list /\ x.send_result = s.send_result
          /\ x.callback_result = s.callback_result
          /\ x.bits = IF t # NoThread /\ Head(s.send_result[t]) = m
                      THEN [s.bits EXCEPT ![t] = @ \union {"SMRESULT"}] ELSE s.bits

\* It does that.
LEMMA StoreFields ==
  ASSUME NEW s \in Server, NEW m \in Messages, NEW answer \in Answers, s.res[m].msg = FALSE,
         NEW x, x = StoreResult(s, m, answer)
  PROVE  Stored(s, x, m, answer)
<1>1. PICK r \in Results : r = s.res[m]
  BY ServerFields
<1>2. PICK t : t = r.sender
  OBVIOUS
<1>3. PICK k \in Results : k = Kept(r, answer)
  BY KeptTypes
<1>4. /\ k.replied = TRUE /\ k.answer = answer /\ k.timeout = FALSE
      /\ k.hardware = FALSE /\ k.live = r.live /\ k.sender = r.sender
      /\ k.receiver = r.receiver /\ k.msg = FALSE /\ k.callback = r.callback
  BY <1>1, <1>3, KeptTypes, ZenonT(30)
<1>5. PICK i \in {"none", "held", "queued", "rejected", "lost"} : i = KeptInput(r, s.input[m], answer)
  BY ServerFields DEF KeptInput
<1>6. PICK kept : kept = SetResult(s, m, k, i)
  OBVIOUS
<1>7. kept = [s EXCEPT !.res[m] = [@ EXCEPT !.replied = TRUE, !.answer = answer,
                                            !.timeout = FALSE, !.hardware = FALSE],
                       !.input[m] = IF ~s.res[m].hardware THEN @
                                    ELSE IF answer = "reject" THEN "rejected" ELSE "queued"]
  BY <1>1, <1>3, <1>5, <1>6 DEF Kept, KeptInput, SetResult
<1>8. /\ kept \in Server /\ kept.list = s.list /\ kept.send_result = s.send_result
      /\ kept.callback_result = s.callback_result /\ kept.recv_result = s.recv_result
      /\ kept.bits = s.bits /\ kept.mask = s.mask /\ kept.attr = s.attr
      /\ kept.res = [s.res EXCEPT ![m] = k] /\ kept.input = [s.input EXCEPT ![m] = i]
      /\ kept.res[m] = k /\ kept.input[m] = i
  <2>1. /\ kept \in Server /\ kept.list = s.list /\ kept.send_result = s.send_result
        /\ kept.callback_result = s.callback_result /\ kept.recv_result = s.recv_result
        /\ kept.bits = s.bits /\ kept.mask = s.mask /\ kept.attr = s.attr
        /\ kept.res = [s.res EXCEPT ![m] = k] /\ kept.input = [s.input EXCEPT ![m] = i]
    <3>1. ResultSet(s, kept, m, k, i)
      BY <1>6, WithResult
    <3> QED
      BY <3>1 DEF ResultSet
  <2>2. kept.res[m] = k /\ kept.input[m] = i
    BY <2>1, ServerFields
  <2> QED
    BY <2>1, <2>2
<1>9. t \in Somebody /\ (t # NoThread => t \in Threads)
  BY <1>2 DEF Results, Somebody
<1>10. ASSUME t # NoThread, r.callback
       PROVE  Stored(s, x, m, answer)
  <2> DEFINE e == Entry("result", m)
  <2>1. t \in Threads /\ e \in Entries
    BY <1>9, <1>10 DEF Entry, Entries
  <2>2. PICK L \in Seq(Entries), B \in SUBSET Bits :
          L = Append(s.list[t], e) /\ B = s.bits[t] \union {"SENDMESSAGE"}
    <3>1. Append(s.list[t], e) \in Seq(Entries)
      BY <2>1, ServerFields, AppendDistinct
    <3>2. s.bits[t] \union {"SENDMESSAGE"} \in SUBSET Bits
      BY <2>1, ServerFields DEF Bits
    <3> QED
      BY <3>1, <3>2
  <2>3. PICK k2 : k2 = [k EXCEPT !.callback = FALSE]
    OBVIOUS
  <2>4. /\ k2 \in Results /\ k2.replied = TRUE /\ k2.answer = answer /\ k2.timeout = FALSE
        /\ k2.hardware = FALSE /\ k2.live = r.live /\ k2.sender = t
        /\ k2.receiver = r.receiver /\ k2.msg = FALSE /\ k2.callback = FALSE
    BY <1>2, <1>4, <2>3 DEF Results
  <2>5. PICK y : y = SetResult(s, m, k2, i)
    OBVIOUS
  <2>6. /\ y \in Server /\ y.list = s.list /\ y.send_result = s.send_result
        /\ y.callback_result = s.callback_result /\ y.recv_result = s.recv_result
        /\ y.bits = s.bits /\ y.mask = s.mask /\ y.attr = s.attr
        /\ y.res = [s.res EXCEPT ![m] = k2] /\ y.input = [s.input EXCEPT ![m] = i]
    <3>1. ResultSet(s, y, m, k2, i)
      BY <2>4, <2>5, WithResult
    <3> QED
      BY <3>1 DEF ResultSet
  <2>7. PICK z : z = SetQueue(y, t, L, B)
    OBVIOUS
  <2>8. /\ z \in Server /\ z.send_result = y.send_result
        /\ z.callback_result = y.callback_result /\ z.recv_result = y.recv_result
        /\ z.mask = y.mask /\ z.attr = y.attr /\ z.res = y.res /\ z.input = y.input
        /\ z.list = [y.list EXCEPT ![t] = L] /\ z.bits = [y.bits EXCEPT ![t] = B]
    <3>1. QueueSet(y, z, t, L, B)
      BY <2>1, <2>2, <2>6, <2>7, WithQueue
    <3> QED
      BY <3>1 DEF QueueSet
  <2>9. z.res[m] = k2 /\ z.input[m] = i
    BY <2>6, <2>8, ServerFields
  <2>10. x = RemoveFromSender(z, m)
    <3>1. PICK w : w = SetBits([kept EXCEPT !.list[t] = Append(@, Entry("result", m)),
                                            !.res[m].callback = FALSE], t, "SENDMESSAGE")
      OBVIOUS
    <3>2. x = RemoveFromSender(w, m)
      BY <1>1, <1>2, <1>7, <1>10, <3>1, Zenon DEF StoreResult
    <3>3. w = z
      <4>1. PICK v : v = [kept EXCEPT !.list = [s.list EXCEPT ![t] = L],
                                      !.res = [s.res EXCEPT ![m] = k2]]
        OBVIOUS
      <4>2. v = [kept EXCEPT !.list[t] = Append(@, Entry("result", m)), !.res[m].callback = FALSE]
        <5>1. /\ [kept.list EXCEPT ![t] = Append(@, Entry("result", m))] = [s.list EXCEPT ![t] = L]
              /\ [kept.res EXCEPT ![m] = [@ EXCEPT !.callback = FALSE]] = [s.res EXCEPT ![m] = k2]
          BY <1>8, <2>2, <2>3, ServerFields
        <5>2. "list" \in DOMAIN kept /\ "res" \in DOMAIN kept
          BY <1>8, ServerFields
        <5>3. \A A, C : [kept EXCEPT !.list = A, !.res = C].res = C
                         /\ [kept EXCEPT !.list = A].res = kept.res
          BY <5>2
        <5> QED
          BY <4>1, <5>1, <5>2, <5>3
      <4>3. DOMAIN v = DOMAIN kept /\ v.bits = s.bits
        BY <1>8, <4>1, ServerFields
      <4>4. w = [v EXCEPT !.bits = [s.bits EXCEPT ![t] = B]]
        BY <2>2, <3>1, <4>2, <4>3 DEF SetBits
      <4>5. w = [kept EXCEPT !.list = [s.list EXCEPT ![t] = L], !.res = [s.res EXCEPT ![m] = k2],
                             !.bits = [s.bits EXCEPT ![t] = B]]
        BY <1>8, <4>1, <4>3, <4>4
      <4>6. kept = [s EXCEPT !.res = [s.res EXCEPT ![m] = k], !.input = [s.input EXCEPT ![m] = i]]
        BY <1>6, ServerFields DEF SetResult
      <4>7. z = [s EXCEPT !.res = [s.res EXCEPT ![m] = k2], !.input = [s.input EXCEPT ![m] = i],
                          !.list = [s.list EXCEPT ![t] = L], !.bits = [s.bits EXCEPT ![t] = B]]
        BY <2>5, <2>6, <2>7, ServerFields DEF SetResult, SetQueue
      <4> QED
        BY <1>8, <4>5, <4>6, <4>7, ServerFields
    <3> QED
      BY <3>2, <3>3
  <2>11. Removed(z, x, m, t)
    BY <2>1, <2>4, <2>8, <2>9, <2>10, RemoveFromSenderFields
  <2>12. /\ x \in Server /\ x.list = z.list /\ x.recv_result = z.recv_result /\ x.bits = z.bits
         /\ x.mask = z.mask /\ x.attr = z.attr
         /\ x.send_result = [z.send_result EXCEPT ![t] = RemoveFirst(@, m)]
         /\ x.callback_result = [z.callback_result EXCEPT ![t] = RemoveFirst(@, m)]
         /\ x.res = [z.res EXCEPT ![m] = Left(@)]
         /\ x.input = [z.input EXCEPT ![m] = LeftInput(z.res[m], @)]
    BY <2>11 DEF Removed
  <2>13. x.res = [s.res EXCEPT ![m] = Left(k2)] /\ x.input = [s.input EXCEPT ![m] = i]
    <3>1. LeftInput(k2, i) = i
      BY <2>4 DEF LeftInput
    <3>2. PICK l : l = Left(k2)
      OBVIOUS
    <3>3. x.res = [z.res EXCEPT ![m] = l] /\ x.input = [z.input EXCEPT ![m] = i]
      BY <2>9, <2>12, <3>1, <3>2
    <3>4. s.res \in [Messages -> Results] /\ m \in DOMAIN s.input
      BY ServerFields
    <3>5. x.res = [s.res EXCEPT ![m] = l]
      BY <2>6, <2>8, <3>3, <3>4
    <3>6. x.input = [s.input EXCEPT ![m] = i]
      BY <2>6, <2>8, <3>3, <3>4
    <3> QED
      BY <3>2, <3>5, <3>6
  <2>14. PICK R \in Results : R = Left(k2)
    BY <2>4, FreedTypes
  <2>15. /\ R.replied = TRUE /\ R.answer = answer /\ R.timeout = FALSE /\ R.hardware = FALSE
         /\ R.receiver = r.receiver /\ R.msg = FALSE /\ R.sender = NoThread
         /\ R.live <=> r.live /\ R.receiver # NoThread
    BY <2>4, <2>14 DEF Left, Freed, NoResult, Results
  <2>16. Calls(r)
    BY <1>2, <1>10 DEF Calls
  <2>17. /\ x.list = [s.list EXCEPT ![t] = Append(@, Entry("result", m))]
         /\ x.send_result = [s.send_result EXCEPT ![t] = RemoveFirst(@, m)]
         /\ x.callback_result = [s.callback_result EXCEPT ![t] = RemoveFirst(@, m)]
         /\ x.bits = [s.bits EXCEPT ![t] = @ \union {"SENDMESSAGE"}]
    BY <2>2, <2>6, <2>8, <2>12
  <2>18. /\ x \in Server /\ x.recv_result = s.recv_result /\ x.mask = s.mask /\ x.attr = s.attr
         /\ x.input = [s.input EXCEPT ![m] = KeptInput(r, @, answer)]
    BY <1>5, <2>6, <2>8, <2>12, <2>13
  <2>19. x.res = [s.res EXCEPT ![m] = R]
    BY <2>13, <2>14
  <2> HIDE DEF e
  <2> QED
    BY <1>1, <1>2, <2>14, <2>15, <2>16, <2>17, <2>18, <2>19 DEF Stored
<1>11. ASSUME t # NoThread, ~r.callback
       PROVE  Stored(s, x, m, answer)
  <2>1. t \in Threads /\ ~Calls(r)
    BY <1>2, <1>9, <1>11 DEF Calls
  <2>2. x = IF Head(s.send_result[t]) = m THEN SetBits(kept, t, "SMRESULT") ELSE kept
    BY <1>1, <1>2, <1>7, <1>11 DEF StoreResult
  <2>3. PICK B \in [Threads -> SUBSET Bits] : B = [s.bits EXCEPT ![t] = @ \union {"SMRESULT"}]
    <3>1. s.bits \in [Threads -> SUBSET Bits]
      BY ServerFields
    <3>2. s.bits[t] \union {"SMRESULT"} \in SUBSET Bits
      BY <2>1, <3>1 DEF Bits
    <3> QED
      BY <2>1, <3>1, <3>2
  <2>4. SetBits(kept, t, "SMRESULT") = [kept EXCEPT !.bits = B]
    BY <1>8, <2>3, ServerFields DEF SetBits
  <2>5. /\ x \in Server /\ x.list = kept.list /\ x.send_result = kept.send_result
        /\ x.callback_result = kept.callback_result /\ x.recv_result = kept.recv_result
        /\ x.mask = kept.mask /\ x.attr = kept.attr /\ x.res = kept.res /\ x.input = kept.input
        /\ x.bits = IF Head(s.send_result[t]) = m THEN B ELSE s.bits
    <3>1. CASE Head(s.send_result[t]) # m
      BY <1>8, <2>2, <3>1
    <3>2. CASE Head(s.send_result[t]) = m
      <4>1. x = [kept EXCEPT !.bits = B]
        BY <2>2, <2>4, <3>2
      <4>2. x \in Server
        BY <1>8, <2>3, <4>1 DEF Server
      <4> QED
        BY <1>8, <3>2, <4>1, <4>2, ServerFields
    <3> QED
      BY <3>1, <3>2
  <2> QED
    BY <1>1, <1>2, <1>4, <1>5, <1>8, <1>11, <2>1, <2>3, <2>5, ZenonT(30) DEF Stored
<1>12. ASSUME t = NoThread
       PROVE  Stored(s, x, m, answer)
  <2>1. ~Calls(r)
    BY <1>2, <1>12 DEF Calls
  <2>2. x = IF r.receiver = NoThread THEN FreeResult(kept, m) ELSE kept
    BY <1>1, <1>2, <1>7, <1>12 DEF StoreResult
  <2>3. PICK R \in Results : R = IF r.receiver = NoThread THEN Freed(k) ELSE k
    BY FreedTypes
  <2>4. /\ R.replied = TRUE /\ R.answer = answer /\ R.timeout = FALSE /\ R.hardware = FALSE
        /\ R.receiver = r.receiver /\ R.msg = FALSE /\ R.sender = NoThread
        /\ R.live <=> r.live /\ R.receiver # NoThread
    <3>1. CASE r.receiver = NoThread
      BY <1>4, <2>3, <3>1 DEF Freed, NoResult, Results
    <3>2. CASE r.receiver # NoThread
      BY <1>2, <1>4, <1>12, <2>3, <3>2
    <3> QED
      BY <3>1, <3>2
  <2>5. /\ x \in Server /\ x.list = kept.list /\ x.send_result = kept.send_result
        /\ x.callback_result = kept.callback_result /\ x.recv_result = kept.recv_result
        /\ x.mask = kept.mask /\ x.attr = kept.attr /\ x.bits = kept.bits
        /\ x.res = [s.res EXCEPT ![m] = R] /\ x.input = kept.input
    <3>1. CASE r.receiver # NoThread
      BY <1>8, <2>2, <2>3, <3>1
    <3>2. CASE r.receiver = NoThread
      <4>1. FreeResult(kept, m) =
              [kept EXCEPT !.res = [kept.res EXCEPT ![m] = Freed(k)],
                           !.input = [kept.input EXCEPT ![m] = i]]
        BY <1>4, <1>8, FreeFields DEF Freed
      <4>2. [kept.res EXCEPT ![m] = Freed(k)] = [s.res EXCEPT ![m] = R]
            /\ [kept.input EXCEPT ![m] = i] = kept.input
        BY <1>8, <2>3, <3>2, ServerFields
      <4>3. PICK Rs \in [Messages -> Results] : Rs = [s.res EXCEPT ![m] = R]
        BY ServerFields
      <4>4. x = [kept EXCEPT !.res = Rs, !.input = kept.input]
        BY <2>2, <3>2, <4>1, <4>2, <4>3
      <4>5. x \in Server
        BY <1>8, <4>3, <4>4 DEF Server
      <4> QED
        BY <1>8, <4>3, <4>4, <4>5, ServerFields
    <3> QED
      BY <3>1, <3>2
  <2> QED
    BY <1>1, <1>2, <1>4, <1>5, <1>8, <1>12, <2>1, <2>4, <2>5, SMTT(30) DEF Stored
<1> QED
  BY <1>10, <1>11, <1>12
-----------------------------------------------------------------------------
(* The functions keep the results and the lists in agreement.               *)

\* The two states differ in what is about m only.
Same(s, x, m) ==
  /\ x \in Server /\ Lists(x) /\ x.attr = s.attr
  /\ \A n \in Messages \ {m} :
       /\ x.res[n] = s.res[n] /\ x.input[n] = s.input[n]
       /\ \A t \in Threads :
            /\ n \in ToSet(x.send_result[t]) <=> n \in ToSet(s.send_result[t])
            /\ n \in ToSet(x.callback_result[t]) <=> n \in ToSet(s.callback_result[t])
            /\ n \in ToSet(x.recv_result[t]) <=> n \in ToSet(s.recv_result[t])
            /\ \A type : Entry(type, n) \in ToSet(x.list[t]) <=> Entry(type, n) \in ToSet(s.list[t])

\* What Links says of one message
Linked(s, U, m) ==
  /\ SentLink(s, m) /\ ReceivedLink(s, m)
  /\ m \notin U => Unsent(s, m)
  /\ Kind(s, m) = "notify" => s.res[m] = NoResult

\* The other messages keep their links.
LEMMA Others ==
  ASSUME NEW s, NEW x, NEW m, NEW U, Links(s, U), Same(s, x, m)
  PROVE  \A n \in Messages \ {m} : Linked(x, U, n) /\ (Lives(s, n) => Lives(x, n))
<1> SUFFICES ASSUME NEW n \in Messages \ {m}
             PROVE  Linked(x, U, n) /\ (Lives(s, n) => Lives(x, n))
  OBVIOUS
<1>1. Linked(s, U, n)
  BY DEF Links, Linked
<1>2. /\ x.res[n] = s.res[n] /\ x.input[n] = s.input[n] /\ Kind(x, n) = Kind(s, n)
      /\ x.attr = s.attr
  BY DEF Same, Kind
<1>3. SentLink(x, n)
  BY <1>1, <1>2 DEF Same, Linked, SentLink
<1>4. ReceivedLink(x, n)
  BY <1>1, <1>2 DEF Same, Linked, ReceivedLink
<1>5. n \notin U => Unsent(x, n)
  BY <1>1, <1>2 DEF Same, Linked, Unsent
<1>6. Lives(s, n) => Lives(x, n)
  BY <1>2 DEF Lives, Held
<1> QED
  BY <1>1, <1>2, <1>3, <1>4, <1>5, <1>6 DEF Linked

\* So only m is left to look at.
LEMMA Joined ==
  ASSUME NEW s, NEW x, NEW m \in Messages, NEW U, Links(s, U), Same(s, x, m), Linked(x, U, m),
         Lives(x, m), \A n \in Messages \ {m} : Lives(s, n)
  PROVE  ServerInv(x, U)
<1>1. \A n \in Messages : Linked(x, U, n) /\ Lives(x, n)
  BY Others
<1>2. x \in Server /\ Lists(x)
  BY DEF Same
<1> QED
  BY <1>1, <1>2 DEF ServerInv, Links, Linked

\* What is known of a message that lives
LEMMA LiveMessage ==
  ASSUME NEW s, NEW U, NEW m \in Messages, Links(s, U), s.res[m].live
  PROVE  m \in U /\ Kind(s, m) # "notify"
BY DEF Links, Unsent, NoResult

\* An entry says what it is.
LEMMA Entries2 ==
  /\ \A type, m : Entry(type, m).type = type /\ Entry(type, m).msg = m
  /\ \A type \in {"message", "result"}, m \in Messages : Entry(type, m) \in Entries
  /\ \A e \in Entries : /\ e.type \in {"message", "result"} /\ e.msg \in Messages
                        /\ e = Entry(e.type, e.msg)
BY DEF Entry, Entries

\* The state before store_message_result: the result has lost what it will lose.
Unstored(s, U, m) ==
  /\ Links(s, U) /\ \A n \in Messages \ {m} : Lives(s, n)
  /\ Held(s, m) /\ s.res[m].live /\ ~s.res[m].msg /\ ~s.res[m].replied

\* What is the same after it: the stacks of the senders and the receivers, the bits as far
\* as they were right, the answers of the others, and the queue of a thread without callbacks.
Settled(s, x) ==
  /\ x.send_result = s.send_result /\ x.recv_result = s.recv_result
  /\ x.mask = s.mask /\ x.attr = s.attr
  /\ \A u \in Threads :
       /\ Shown(s, u) => Shown(x, u)
       /\ "SMRESULT" \in s.bits[u] => "SMRESULT" \in x.bits[u]
       /\ s.callback_result[u] = <<>> => x.callback_result[u] = <<>> /\ x.list[u] = s.list[u]
  /\ \A n \in Messages : s.res[n].replied => x.res[n].replied /\ x.res[n].answer = s.res[n].answer

\* store_message_result restores the agreement.
LEMMA StoreInv ==
  ASSUME NEW s, NEW U, NEW m \in Messages, NEW answer \in Answers, Unstored(s, U, m),
         NEW x, x = StoreResult(s, m, answer)
  PROVE  ServerInv(x, U) /\ Settled(s, x)
<1>1. s \in Server /\ Lists(s) /\ Links(s, U)
  BY DEF Unstored, Links
<1>2. PICK r \in Results : r = s.res[m]
  BY <1>1, ServerFields
<1>3. /\ r.live /\ ~r.msg /\ ~r.replied /\ SentLink(s, m) /\ ReceivedLink(s, m)
      /\ m \in U /\ Kind(s, m) # "notify"
  BY <1>1, <1>2, LiveMessage DEF Unstored, Links
<1>4. Stored(s, x, m, answer)
  <2>1. s.res[m].msg = FALSE
    BY <1>2, <1>3 DEF Results
  <2> QED
    BY <1>1, <2>1, StoreFields
<1>5. /\ x \in Server /\ x.recv_result = s.recv_result /\ x.mask = s.mask /\ x.attr = s.attr
      /\ Kind(x, m) = Kind(s, m)
  BY <1>4 DEF Stored, Kind
<1>6. PICK R \in Results :
        /\ x.res = [s.res EXCEPT ![m] = R]
        /\ R.replied = TRUE /\ R.answer = answer /\ R.timeout = FALSE /\ R.hardware = FALSE
        /\ R.receiver = r.receiver /\ R.msg = FALSE
        /\ R.sender = IF Calls(r) THEN NoThread ELSE r.sender
        /\ R.live <=> r.live /\ ~(R.sender = NoThread /\ R.receiver = NoThread)
        /\ R.sender # NoThread => R.callback = r.callback
  BY <1>2, <1>4 DEF Stored
<1>7. x.res[m] = R /\ \A n \in Messages \ {m} : x.res[n] = s.res[n]
  BY <1>1, <1>6, ServerFields
<1>8. /\ x.input[m] = KeptInput(r, s.input[m], answer)
      /\ \A n \in Messages \ {m} : x.input[n] = s.input[n]
  BY <1>1, <1>2, <1>4, ServerFields DEF Stored
<1>9. Lives(x, m)
  <2>1. Held(x, m)
    BY <1>2, <1>6, <1>7, <1>8 DEF KeptInput, Held, Unstored
  <2> QED
    BY <1>3, <1>6, <1>7, <2>1 DEF Lives
<1>10. \A n \in Messages : s.res[n].replied => x.res[n].replied /\ x.res[n].answer = s.res[n].answer
  BY <1>2, <1>3, <1>7
<1>11. ASSUME Calls(r)
       PROVE  /\ Same(s, x, m) /\ Linked(x, U, m) /\ x.send_result = s.send_result
              /\ \A u \in Threads :
                   /\ Shown(s, u) => Shown(x, u)
                   /\ "SMRESULT" \in s.bits[u] => "SMRESULT" \in x.bits[u]
                   /\ s.callback_result[u] = <<>> =>
                        x.callback_result[u] = <<>> /\ x.list[u] = s.list[u]
  <2>1. PICK t \in Threads : t = r.sender
    BY <1>11 DEF Calls, Results, Somebody
  <2>2. Kind(s, m) = "callback" /\ m \in ToSet(s.callback_result[t])
    BY <1>2, <1>3, <1>11, <2>1 DEF Calls, SentLink
  <2>3. \A u \in Threads : m \notin ToSet(s.send_result[u])
    BY <1>3, <2>2 DEF SentLink
  <2>4. /\ x.list = [s.list EXCEPT ![t] = Append(@, Entry("result", m))]
        /\ x.send_result = [s.send_result EXCEPT ![t] = RemoveFirst(@, m)]
        /\ x.callback_result = [s.callback_result EXCEPT ![t] = RemoveFirst(@, m)]
        /\ x.bits = [s.bits EXCEPT ![t] = @ \union {"SENDMESSAGE"}]
    BY <1>2, <1>4, <1>11, <2>1 DEF Stored
  <2>5. x.send_result = s.send_result
    <3>1. RemoveFirst(s.send_result[t], m) = s.send_result[t]
      BY <1>1, <2>3, ServerFields, RemoveFirstAbsent
    <3>2. s.send_result \in [Threads -> Seq(Messages)]
      BY <1>1, ServerFields
    <3>3. x.send_result = [s.send_result EXCEPT ![t] = s.send_result[t]]
      BY <2>4, <3>1
    <3> QED
      BY <3>2, <3>3
  <2>6. /\ x.callback_result[t] = RemoveFirst(s.callback_result[t], m)
        /\ Distinct(x.callback_result[t])
        /\ ToSet(x.callback_result[t]) = ToSet(s.callback_result[t]) \ {m}
        /\ \A u \in Threads \ {t} : x.callback_result[u] = s.callback_result[u]
    <3>1. PICK q \in Seq(Messages) : q = s.callback_result[t] /\ Distinct(q)
      BY <1>1, <2>1, ServerFields DEF Lists
    <3>2. Distinct(RemoveFirst(q, m)) /\ ToSet(RemoveFirst(q, m)) = ToSet(q) \ {m}
      BY <3>1, RemoveFirstDistinct
    <3>3. /\ x.callback_result[t] = RemoveFirst(s.callback_result[t], m)
          /\ \A u \in Threads \ {t} : x.callback_result[u] = s.callback_result[u]
      BY <1>1, <2>1, <2>4, ServerFields
    <3> QED
      BY <3>1, <3>2, <3>3
  <2>7. /\ Distinct(x.list[t]) /\ ToSet(x.list[t]) = ToSet(s.list[t]) \union {Entry("result", m)}
        /\ x.list[t] # <<>> /\ \A u \in Threads \ {t} : x.list[u] = s.list[u]
    <3>1. PICK q \in Seq(Entries) : q = s.list[t] /\ Distinct(q)
      BY <1>1, <2>1, ServerFields DEF Lists
    <3>2. PICK e \in Entries : e = Entry("result", m)
      BY Entries2
    <3>3. e \notin ToSet(q)
      BY <1>2, <1>3, <1>11, <2>1, <3>1, <3>2 DEF ReceivedLink, Calls
    <3>4. Distinct(Append(q, e)) /\ ToSet(Append(q, e)) = ToSet(q) \union {e} /\ Append(q, e) # <<>>
      BY <3>1, <3>3, AppendDistinct
    <3>5. x.list[t] = Append(q, e) /\ \A u \in Threads \ {t} : x.list[u] = s.list[u]
      BY <1>1, <2>1, <2>4, <3>1, <3>2, ServerFields
    <3> QED
      BY <3>1, <3>2, <3>4, <3>5
  <2>8. Lists(x)
    BY <1>1, <1>5, <2>5, <2>6, <2>7 DEF Lists
  <2>9. \A n \in Messages \ {m} : \A u \in Threads :
          /\ n \in ToSet(x.callback_result[u]) <=> n \in ToSet(s.callback_result[u])
          /\ \A type : Entry(type, n) \in ToSet(x.list[u]) <=> Entry(type, n) \in ToSet(s.list[u])
    BY <2>6, <2>7, Entries2
  <2>10. Same(s, x, m)
    BY <1>5, <1>7, <1>8, <2>5, <2>8, <2>9 DEF Same
  <2>11. SentLink(x, m)
    <3>1. R.sender = NoThread /\ NoThread \notin Threads
      BY <1>6, <1>11, MessageAssumption
    <3>2. \A u \in Threads : m \notin ToSet(x.callback_result[u]) /\ m \notin ToSet(x.send_result[u])
      BY <1>2, <1>3, <2>1, <2>3, <2>5, <2>6 DEF SentLink
    <3> QED
      BY <1>7, <3>1, <3>2 DEF SentLink
  <2>12. ReceivedLink(x, m)
    <3>1. \A u \in Threads : Entry("message", m) \in ToSet(x.list[u])
                               <=> Entry("message", m) \in ToSet(s.list[u])
      BY <2>7, Entries2
    <3>2. R.sender = NoThread /\ R.msg = FALSE /\ R.receiver = r.receiver /\ x.res[m] = R
      BY <1>6, <1>7, <1>11
    <3> QED
      BY <1>2, <1>3, <1>5, <3>1, <3>2 DEF ReceivedLink
  <2>13. Linked(x, U, m)
    BY <1>3, <1>5, <2>11, <2>12 DEF Linked
  <2>14. ASSUME NEW u \in Threads
         PROVE  /\ Shown(s, u) => Shown(x, u)
                /\ "SMRESULT" \in s.bits[u] => "SMRESULT" \in x.bits[u]
                /\ s.callback_result[u] = <<>> =>
                     x.callback_result[u] = <<>> /\ x.list[u] = s.list[u]
    <3>1. "SMRESULT" \in x.bits[u] <=> "SMRESULT" \in s.bits[u]
      BY <1>1, <2>1, <2>4, ServerFields
    <3>2. "SENDMESSAGE" \in x.bits[u] <=> u = t \/ "SENDMESSAGE" \in s.bits[u]
      BY <1>1, <2>1, <2>4, ServerFields
    <3>3. s.send_result[u] # <<>> =>
            x.res[Head(s.send_result[u])] = s.res[Head(s.send_result[u])]
      <4>1. s.send_result[u] \in Seq(Messages)
        BY <1>1, ServerFields
      <4>2. s.send_result[u] # <<>> => Head(s.send_result[u]) \in ToSet(s.send_result[u])
        BY <4>1, ToSetTail
      <4>3. s.send_result[u] # <<>> => Head(s.send_result[u]) \in Messages
        BY <4>1
      <4> QED
        BY <1>7, <2>3, <4>2, <4>3
    <3>4. s.callback_result[u] = <<>> => u # t
      BY <2>2, ToSetShort
    <3> QED
      BY <2>5, <2>6, <2>7, <3>1, <3>2, <3>3, <3>4 DEF Shown
  <2> QED
    BY <2>5, <2>10, <2>13, <2>14
<1>12. ASSUME ~Calls(r)
       PROVE  /\ Same(s, x, m) /\ Linked(x, U, m) /\ x.send_result = s.send_result
              /\ \A u \in Threads :
                   /\ Shown(s, u) => Shown(x, u)
                   /\ "SMRESULT" \in s.bits[u] => "SMRESULT" \in x.bits[u]
                   /\ s.callback_result[u] = <<>> =>
                        x.callback_result[u] = <<>> /\ x.list[u] = s.list[u]
  <2>1. /\ x.list = s.list /\ x.send_result = s.send_result
        /\ x.callback_result = s.callback_result
        /\ x.bits = IF r.sender # NoThread /\ Head(s.send_result[r.sender]) = m
                    THEN [s.bits EXCEPT ![r.sender] = @ \union {"SMRESULT"}] ELSE s.bits
    BY <1>2, <1>4, <1>12 DEF Stored
  <2>2. Same(s, x, m)
    <3>1. Lists(x)
      BY <1>1, <1>5, <2>1 DEF Lists
    <3> QED
      BY <1>5, <1>7, <1>8, <2>1, <3>1 DEF Same
  <2>3. /\ R.sender = r.sender /\ R.msg = FALSE /\ R.receiver = r.receiver /\ x.res[m] = R
        /\ R.sender # NoThread => R.callback = r.callback
    BY <1>6, <1>7, <1>12
  <2>4. SentLink(x, m)
    BY <1>2, <1>3, <1>5, <2>1, <2>3 DEF SentLink
  <2>5. ReceivedLink(x, m)
    BY <1>2, <1>3, <1>5, <2>1, <2>3 DEF ReceivedLink
  <2>6. Linked(x, U, m)
    BY <1>3, <1>5, <2>4, <2>5 DEF Linked
  <2>7. ASSUME NEW u \in Threads
        PROVE  /\ Shown(s, u) => Shown(x, u)
               /\ "SMRESULT" \in s.bits[u] => "SMRESULT" \in x.bits[u]
    <3>1. s.send_result[u] \in Seq(Messages) /\ s.bits \in [Threads -> SUBSET Bits]
      BY <1>1, ServerFields
    <3>2. s.send_result[u] # <<>> => /\ Head(s.send_result[u]) \in ToSet(s.send_result[u])
                                     /\ Head(s.send_result[u]) \in Messages
      BY <3>1, ToSetTail
    <3>3. "SENDMESSAGE" \in x.bits[u] <=> "SENDMESSAGE" \in s.bits[u]
      BY <2>1, <3>1
    <3>4. CASE s.send_result[u] # <<>> /\ Head(s.send_result[u]) = m
      <4>1. r.sender = u /\ u # NoThread
        BY <1>2, <1>3, <3>2, <3>4, MessageAssumption DEF SentLink
      <4>2. "SMRESULT" \in x.bits[u]
        BY <2>1, <3>1, <3>4, <4>1
      <4>3. x.res[m].replied
        BY <1>6, <1>7
      <4> QED
        BY <2>1, <3>3, <3>4, <4>2, <4>3 DEF Shown
    <3>5. CASE s.send_result[u] = <<>> \/ Head(s.send_result[u]) # m
      <4>1. "SMRESULT" \in x.bits[u] <=> "SMRESULT" \in s.bits[u]
        <5>1. CASE r.sender = u /\ u # NoThread
          <6>1. Kind(s, m) # "callback"
            BY <1>2, <1>3, <1>12, <5>1 DEF SentLink, Calls
          <6>2. m \in ToSet(s.send_result[u])
            BY <1>2, <1>3, <5>1, <6>1 DEF SentLink
          <6>3. s.send_result[u] # <<>>
            BY <6>2, ToSetShort
          <6> QED
            BY <2>1, <3>5, <5>1, <6>3
        <5>2. CASE r.sender # u \/ u = NoThread
          <6>1. r.sender # u
            BY <5>2, MessageAssumption
          <6> QED
            BY <2>1, <3>1, <6>1
        <5> QED
          BY <5>1, <5>2
      <4>2. s.send_result[u] # <<>> =>
              x.res[Head(s.send_result[u])] = s.res[Head(s.send_result[u])]
        BY <1>7, <3>2, <3>5
      <4> QED
        BY <2>1, <3>3, <4>1, <4>2 DEF Shown
    <3> QED
      BY <3>4, <3>5
  <2> QED
    BY <2>1, <2>2, <2>6, <2>7
<1>13. /\ Same(s, x, m) /\ Linked(x, U, m) /\ x.send_result = s.send_result
       /\ \A u \in Threads :
            /\ Shown(s, u) => Shown(x, u)
            /\ "SMRESULT" \in s.bits[u] => "SMRESULT" \in x.bits[u]
            /\ s.callback_result[u] = <<>> => x.callback_result[u] = <<>> /\ x.list[u] = s.list[u]
  BY <1>11, <1>12
<1>14. ServerInv(x, U)
  BY <1>1, <1>9, <1>13, Joined DEF Unstored
<1> QED
  BY <1>5, <1>10, <1>13, <1>14 DEF Settled
\* What stays when messages are received or answered: the stacks of the senders, the bits
\* as far as they were right, and the answers.
Quiet(s, x) ==
  /\ x.send_result = s.send_result /\ x.attr = s.attr
  /\ \A u \in Threads :
       /\ Shown(s, u) => Shown(x, u)
       /\ "SMRESULT" \in s.bits[u] => "SMRESULT" \in x.bits[u]
  /\ \A n \in Messages : s.res[n].replied => x.res[n].replied /\ x.res[n].answer = s.res[n].answer

\* What leaving the results of t leaves alone
Parted(s, x, t) ==
  /\ \A u \in Threads \ {t} : Shown(s, u) => Shown(x, u)
  /\ \A n \in Messages : x.res[n].replied = s.res[n].replied /\ x.res[n].answer = s.res[n].answer

\* remove_result_from_sender keeps the agreement, and the bits of the other queues.
LEMMA RemoveInv ==
  ASSUME NEW s, NEW U, NEW m \in Messages, NEW t \in Threads, ServerInv(s, U),
         s.res[m].sender = t, NEW x, x = RemoveFromSender(s, m)
  PROVE  ServerInv(x, U) /\ Removed(s, x, m, t) /\ Parted(s, x, t)
<1>1. s \in Server /\ Lists(s) /\ Links(s, U) /\ \A n \in Messages : Lives(s, n)
  BY DEF ServerInv, Links
<1>2. PICK r \in Results : r = s.res[m]
  BY <1>1, ServerFields
<1>3. t # NoThread
  BY MessageAssumption
<1>4. /\ r.sender = t /\ SentLink(s, m) /\ ReceivedLink(s, m) /\ Lives(s, m)
      /\ r.live /\ m \in U /\ Kind(s, m) # "notify"
  BY <1>1, <1>2, <1>3, LiveMessage DEF Lives, Links
<1>5. Removed(s, x, m, t)
  BY <1>1, RemoveFromSenderFields
<1>6. /\ x \in Server /\ x.list = s.list /\ x.recv_result = s.recv_result /\ x.bits = s.bits
      /\ x.attr = s.attr /\ Kind(x, m) = Kind(s, m)
  BY <1>5 DEF Removed, Kind
<1>7. /\ x.send_result = [s.send_result EXCEPT ![t] = RemoveFirst(@, m)]
      /\ x.callback_result = [s.callback_result EXCEPT ![t] = RemoveFirst(@, m)]
      /\ x.res = [s.res EXCEPT ![m] = Left(@)]
      /\ x.input = [s.input EXCEPT ![m] = LeftInput(s.res[m], @)]
  BY <1>5 DEF Removed
<1>8. PICK R \in Results : R = Left(r)
  BY FreedTypes
<1>9. x.res[m] = R /\ \A n \in Messages \ {m} : x.res[n] = s.res[n]
  <2>1. s.res \in [Messages -> Results] /\ x.res = [s.res EXCEPT ![m] = R]
    BY <1>1, <1>2, <1>7, <1>8, ServerFields
  <2> QED
    BY <2>1
<1>10. /\ x.input[m] = LeftInput(r, s.input[m])
       /\ \A n \in Messages \ {m} : x.input[n] = s.input[n]
  BY <1>1, <1>2, <1>7, ServerFields
<1>11. /\ R.sender = NoThread /\ R.receiver = r.receiver /\ R.replied = r.replied
       /\ R.answer = r.answer
       /\ r.receiver # NoThread => /\ R.live = r.live /\ R.msg = r.msg /\ R.timeout = r.timeout
                                   /\ R.hardware = r.hardware
       /\ r.receiver = NoThread => ~R.live /\ ~R.msg /\ ~R.timeout /\ ~R.hardware
  <2>1. CASE r.receiver = NoThread
    BY <1>8, <2>1 DEF Left, Freed, NoResult
  <2>2. CASE r.receiver # NoThread
    BY <1>8, <2>2 DEF Left, Results
  <2> QED
    BY <2>1, <2>2
<1>12. Lives(x, m)
  <2>1. x.input[m] = s.input[m]
    BY <1>2, <1>4, <1>10 DEF LeftInput, Lives
  <2>2. Held(x, m)
    BY <1>2, <1>4, <1>9, <1>11, <2>1 DEF Lives, Held
  <2> QED
    BY <1>2, <1>4, <1>9, <1>11, <2>2 DEF Lives
<1>13. \A u \in Threads :
         /\ Distinct(x.send_result[u]) /\ ToSet(x.send_result[u]) = ToSet(s.send_result[u]) \ {m}
         /\ Distinct(x.callback_result[u])
         /\ ToSet(x.callback_result[u]) = ToSet(s.callback_result[u]) \ {m}
         /\ u # t => x.send_result[u] = s.send_result[u]
  <2> SUFFICES ASSUME NEW u \in Threads
               PROVE  /\ Distinct(x.send_result[u])
                      /\ ToSet(x.send_result[u]) = ToSet(s.send_result[u]) \ {m}
                      /\ Distinct(x.callback_result[u])
                      /\ ToSet(x.callback_result[u]) = ToSet(s.callback_result[u]) \ {m}
                      /\ u # t => x.send_result[u] = s.send_result[u]
    OBVIOUS
  <2>1. PICK p \in Seq(Messages), q \in Seq(Messages) :
          p = s.send_result[u] /\ q = s.callback_result[u] /\ Distinct(p) /\ Distinct(q)
    BY <1>1, ServerFields DEF Lists
  <2>2. CASE u = t
    <3>1. x.send_result[u] = RemoveFirst(p, m) /\ x.callback_result[u] = RemoveFirst(q, m)
      BY <1>1, <1>7, <2>1, <2>2, ServerFields
    <3> QED
      BY <2>1, <2>2, <3>1, RemoveFirstDistinct
  <2>3. CASE u # t
    <3>1. x.send_result[u] = p /\ x.callback_result[u] = q
      BY <1>1, <1>7, <2>1, <2>3, ServerFields
    <3>2. m \notin ToSet(p) /\ m \notin ToSet(q)
      BY <1>2, <1>4, <2>1, <2>3 DEF SentLink
    <3> QED
      BY <2>1, <3>1, <3>2
  <2> QED
    BY <2>2, <2>3
<1>14. Same(s, x, m)
  <2>1. Lists(x)
    BY <1>1, <1>6, <1>13 DEF Lists
  <2> QED
    BY <1>6, <1>9, <1>10, <1>13, <2>1 DEF Same
<1>15. Linked(x, U, m)
  <2>1. SentLink(x, m)
    BY <1>9, <1>11, <1>13, MessageAssumption DEF SentLink
  <2>2. ReceivedLink(x, m)
    <3>1. r.receiver = NoThread => ~r.msg
      BY <1>1, <1>2, <1>4, ServerFields, MessageAssumption DEF ReceivedLink
    <3>2. R.receiver = r.receiver /\ (R.msg <=> r.msg) /\ R.sender = NoThread
      BY <1>11, <3>1
    <3> QED
      BY <1>2, <1>4, <1>6, <1>9, <3>2 DEF ReceivedLink
  <2> QED
    BY <1>4, <1>6, <2>1, <2>2 DEF Linked
<1>16. ServerInv(x, U)
  BY <1>1, <1>12, <1>14, <1>15, Joined
<1>17. \A n \in Messages : x.res[n].replied = s.res[n].replied /\ x.res[n].answer = s.res[n].answer
  BY <1>2, <1>9, <1>11
<1>18. ASSUME NEW u \in Threads \ {t}, Shown(s, u)
       PROVE  Shown(x, u)
  <2>1. s.send_result[u] # <<>> => Head(s.send_result[u]) \in Messages
    BY <1>1, ServerFields
  <2> QED
    BY <1>6, <1>13, <1>17, <1>18, <2>1 DEF Shown
<1> QED
  BY <1>5, <1>16, <1>17, <1>18 DEF Parted

\* What unlinking an entry of a list changes.
LEMMA UnlinkFields ==
  ASSUME NEW s \in Server, NEW t \in Threads, NEW e, NEW x, x = Unlinked(s, t, e)
  PROVE  \E L \in Seq(Entries), B \in SUBSET Bits :
           /\ L = RemoveFirst(s.list[t], e)
           /\ B = IF L = <<>> THEN s.bits[t] \ {"SENDMESSAGE"} ELSE s.bits[t]
           /\ QueueSet(s, x, t, L, B)
<1>1. PICK L \in Seq(Entries) : L = RemoveFirst(s.list[t], e)
  BY ServerFields, RemoveFirstType
<1>2. PICK B \in SUBSET Bits : B = IF L = <<>> THEN s.bits[t] \ {"SENDMESSAGE"} ELSE s.bits[t]
  <2>1. PICK b \in SUBSET Bits : b = s.bits[t]
    BY ServerFields
  <2>2. b \ {"SENDMESSAGE"} \in SUBSET Bits
    OBVIOUS
  <2> QED
    BY <2>1, <2>2
<1>3. PICK out : out = [s EXCEPT !.list[t] = L]
  OBVIOUS
<1>4. out = [s EXCEPT !.list = [s.list EXCEPT ![t] = L]]
  BY <1>3, ServerFields
<1>5. out.list[t] = L /\ DOMAIN out = DOMAIN s /\ out.bits = s.bits
  BY <1>4, ServerFields
<1>6. x = IF L = <<>> THEN ClearBits(out, t, "SENDMESSAGE") ELSE out
  BY <1>1, <1>3, <1>5 DEF Unlinked
<1>7. x = SetQueue(s, t, L, B)
  <2>1. SetQueue(s, t, L, B) = [s EXCEPT !.list = [s.list EXCEPT ![t] = L],
                                         !.bits = [s.bits EXCEPT ![t] = B]]
    BY ServerFields DEF SetQueue
  <2>2. CASE L = <<>>
    <3>1. x = [out EXCEPT !.bits = [s.bits EXCEPT ![t] = B]]
      BY <1>2, <1>5, <1>6, <2>2 DEF ClearBits
    <3> QED
      BY <1>4, <2>1, <3>1, ServerFields
  <2>3. CASE L # <<>>
    <3>1. [s.bits EXCEPT ![t] = B] = s.bits
      BY <1>2, <2>3, ServerFields
    <3>2. x = [s EXCEPT !.list = [s.list EXCEPT ![t] = L]]
      BY <1>4, <1>6, <2>3
    <3>3. PICK Ls : Ls = [s.list EXCEPT ![t] = L]
      OBVIOUS
    <3>4. [s EXCEPT !.list = Ls] = [s EXCEPT !.list = Ls, !.bits = s.bits]
      BY ServerFields
    <3> QED
      BY <2>1, <3>1, <3>2, <3>3, <3>4
  <2> QED
    BY <2>2, <2>3
<1>8. QueueSet(s, x, t, L, B)
  BY <1>7, WithQueue
<1> QED
  BY <1>1, <1>2, <1>8

\* A message that nobody has received is taken off the list of its receiver.
TakenOff(s, z, m) ==
  LET r == s.res[m]
      t == s.attr[m].to
  IN /\ z \in Server /\ z.send_result = s.send_result
     /\ z.callback_result = s.callback_result /\ z.recv_result = s.recv_result
     /\ z.attr = s.attr /\ z.input = s.input
     /\ z.list = [s.list EXCEPT ![t] = RemoveFirst(@, Entry("message", m))]
     /\ \E R \in Results :
          /\ z.res = [s.res EXCEPT ![m] = R]
          /\ R.msg = FALSE /\ R.receiver = NoThread
          /\ R.sender = r.sender /\ R.live = r.live /\ R.replied = r.replied
          /\ R.answer = r.answer /\ R.hardware = r.hardware /\ R.callback = r.callback

\* Then its result can be stored.
LEMMA TakenOffInv ==
  ASSUME NEW s, NEW z, NEW U, NEW m \in Messages, ServerInv(s, U), s.res[m].msg,
         TakenOff(s, z, m)
  PROVE  /\ Unstored(z, U, m)
         /\ \A n \in Messages : z.res[n].replied = s.res[n].replied
                                /\ z.res[n].answer = s.res[n].answer
<1>1. s \in Server /\ Lists(s) /\ Links(s, U) /\ \A n \in Messages : Lives(s, n)
  BY DEF ServerInv, Links
<1>2. PICK r \in Results : r = s.res[m]
  BY <1>1, ServerFields
<1>3. PICK t \in Threads : t = s.attr[m].to
  BY <1>1, ServerFields, MessageAssumption
<1>4. /\ r.live /\ ~r.replied /\ SentLink(s, m) /\ ReceivedLink(s, m) /\ Lives(s, m)
      /\ m \in U /\ Kind(s, m) # "notify" /\ r.receiver = t /\ r.msg
  BY <1>1, <1>2, <1>3, LiveMessage DEF Lives, Links, ReceivedLink
<1>5. PICK R \in Results :
        /\ z.res = [s.res EXCEPT ![m] = R]
        /\ R.msg = FALSE /\ R.receiver = NoThread
        /\ R.sender = r.sender /\ R.live = r.live /\ R.replied = r.replied
        /\ R.answer = r.answer /\ R.hardware = r.hardware /\ R.callback = r.callback
  BY <1>2 DEF TakenOff
<1>6. z.res[m] = R /\ \A n \in Messages \ {m} : z.res[n] = s.res[n]
  BY <1>1, <1>5, ServerFields
<1>7. /\ z \in Server /\ z.send_result = s.send_result
      /\ z.callback_result = s.callback_result /\ z.recv_result = s.recv_result
      /\ z.attr = s.attr /\ z.input = s.input /\ Kind(z, m) = Kind(s, m)
      /\ z.list = [s.list EXCEPT ![t] = RemoveFirst(@, Entry("message", m))]
  BY <1>3 DEF TakenOff, Kind
<1>8. /\ Distinct(z.list[t]) /\ ToSet(z.list[t]) = ToSet(s.list[t]) \ {Entry("message", m)}
      /\ \A u \in Threads \ {t} : z.list[u] = s.list[u]
  <2>1. PICK q \in Seq(Entries) : q = s.list[t] /\ Distinct(q)
    BY <1>1, ServerFields DEF Lists
  <2>2. PICK e : e = Entry("message", m)
    OBVIOUS
  <2>3. z.list[t] = RemoveFirst(q, e) /\ \A u \in Threads \ {t} : z.list[u] = s.list[u]
    BY <1>1, <1>7, <2>1, <2>2, ServerFields
  <2> QED
    BY <2>1, <2>2, <2>3, RemoveFirstDistinct
<1>9. Same(s, z, m)
  <2>1. Lists(z)
    BY <1>1, <1>7, <1>8 DEF Lists
  <2>2. \A n \in Messages \ {m} : \A u \in Threads : \A type :
          Entry(type, n) \in ToSet(z.list[u]) <=> Entry(type, n) \in ToSet(s.list[u])
    BY <1>8, Entries2
  <2> QED
    BY <1>6, <1>7, <2>1, <2>2 DEF Same
<1>10. Linked(z, U, m)
  <2>1. SentLink(z, m)
    BY <1>2, <1>4, <1>5, <1>6, <1>7 DEF SentLink
  <2>2. ReceivedLink(z, m)
    <3>1. \A u \in Threads : m \notin ToSet(z.recv_result[u])
      BY <1>2, <1>4, <1>7 DEF ReceivedLink
    <3>2. \A u \in Threads : Entry("message", m) \notin ToSet(z.list[u])
      BY <1>2, <1>4, <1>8 DEF ReceivedLink
    <3>3. \A u \in Threads : Entry("result", m) \in ToSet(z.list[u]) => R.sender = NoThread
      BY <1>2, <1>4, <1>5, <1>8 DEF ReceivedLink
    <3> QED
      BY <1>5, <1>6, <3>1, <3>2, <3>3, MessageAssumption DEF ReceivedLink
  <2> QED
    BY <1>4, <1>7, <2>1, <2>2 DEF Linked
<1>11. \A n \in Messages : Linked(z, U, n) /\ (n # m => Lives(z, n))
  BY <1>1, <1>9, <1>10, Others
<1>12. Links(z, U)
  BY <1>9, <1>11 DEF Links, Linked, Same
<1>13. Held(z, m)
  BY <1>2, <1>4, <1>5, <1>6, <1>7 DEF Held, Lives
<1>14. Unstored(z, U, m)
  BY <1>4, <1>5, <1>6, <1>11, <1>12, <1>13 DEF Unstored
<1> QED
  BY <1>2, <1>5, <1>6, <1>14

\* An entry of no message that waits leaves its list.
LEMMA UnlinkInv ==
  ASSUME NEW s, NEW U, ServerInv(s, U), NEW t \in Threads, NEW e \in Entries,
         NEW B, NEW x, QueueSet(s, x, t, RemoveFirst(s.list[t], e), B),
         e.type = "message" => ~s.res[e.msg].msg
  PROVE  ServerInv(x, U)
<1>1. s \in Server /\ Lists(s) /\ Links(s, U) /\ \A n \in Messages : Lives(s, n)
  BY DEF ServerInv, Links
<1>2. PICK m \in Messages : m = e.msg
  BY Entries2
<1>3. /\ x \in Server /\ x.send_result = s.send_result
      /\ x.callback_result = s.callback_result /\ x.recv_result = s.recv_result
      /\ x.attr = s.attr /\ x.res = s.res /\ x.input = s.input /\ Kind(x, m) = Kind(s, m)
      /\ x.list = [s.list EXCEPT ![t] = RemoveFirst(s.list[t], e)]
  BY DEF QueueSet, Kind
<1>4. /\ Distinct(x.list[t]) /\ ToSet(x.list[t]) = ToSet(s.list[t]) \ {e}
      /\ \A u \in Threads \ {t} : x.list[u] = s.list[u]
  <2>1. PICK q \in Seq(Entries) : q = s.list[t] /\ Distinct(q)
    BY <1>1, ServerFields DEF Lists
  <2>2. x.list[t] = RemoveFirst(q, e) /\ \A u \in Threads \ {t} : x.list[u] = s.list[u]
    BY <1>1, <1>3, <2>1, ServerFields
  <2> QED
    BY <2>1, <2>2, RemoveFirstDistinct
<1>5. Same(s, x, m)
  <2>1. Lists(x)
    BY <1>1, <1>3, <1>4 DEF Lists
  <2>2. \A n \in Messages \ {m} : \A u \in Threads : \A type :
          Entry(type, n) \in ToSet(x.list[u]) <=> Entry(type, n) \in ToSet(s.list[u])
    BY <1>2, <1>4, Entries2
  <2> QED
    BY <1>3, <2>1, <2>2 DEF Same
<1>6. \A u \in Threads : \A type : Entry(type, m) \in ToSet(x.list[u])
                                     => Entry(type, m) \in ToSet(s.list[u])
  BY <1>4
<1>7. Linked(s, U, m)
  BY <1>1 DEF Links, Linked
<1>8. ReceivedLink(x, m)
  <2>1. Kind(s, m) # "notify" =>
          \A u \in Threads : Entry("message", m) \in ToSet(x.list[u])
                               <=> x.res[m].receiver = u /\ x.res[m].msg
    <3>1. CASE e.type = "message"
      BY <1>2, <1>3, <1>6, <1>7, <3>1 DEF Linked, ReceivedLink
    <3>2. CASE e.type # "message"
      <4>1. \A u \in Threads : Entry("message", m) \in ToSet(x.list[u])
                                 <=> Entry("message", m) \in ToSet(s.list[u])
        BY <1>4, <3>2, Entries2
      <4> QED
        BY <1>3, <1>7, <4>1 DEF Linked, ReceivedLink
    <3> QED
      BY <3>1, <3>2
  <2> QED
    BY <1>3, <1>6, <1>7, <2>1 DEF Linked, ReceivedLink
<1>9. Linked(x, U, m)
  <2>1. SentLink(x, m)
    BY <1>3, <1>7 DEF Linked, SentLink
  <2>2. m \notin U => Unsent(x, m)
    BY <1>3, <1>6, <1>7 DEF Linked, Unsent
  <2> QED
    BY <1>3, <1>7, <1>8, <2>1, <2>2 DEF Linked
<1>10. Lives(x, m)
  BY <1>1, <1>3 DEF Lives, Held
<1> QED
  BY <1>1, <1>5, <1>9, <1>10, Joined

\* The bits say the same of states that differ in what the results hold.
Alike(y, z) ==
  /\ z.send_result = y.send_result /\ z.list = y.list /\ z.bits = y.bits
  /\ \A n \in Messages : z.res[n].replied = y.res[n].replied /\ z.res[n].answer = y.res[n].answer

\* They do.
LEMMA AlikeShown ==
  ASSUME NEW y, NEW z, y \in Server, Alike(y, z), NEW u \in Threads
  PROVE  Shown(y, u) <=> Shown(z, u)
<1>1. y.send_result[u] # <<>> => Head(y.send_result[u]) \in Messages
  BY ServerFields
<1> QED
  BY <1>1 DEF Alike, Shown

\* What is settled from the one is settled from the other.
LEMMA AlikeSettled ==
  ASSUME NEW y, NEW z, NEW x, y \in Server, Alike(y, z), Settled(z, x),
         z.recv_result = y.recv_result, z.callback_result = y.callback_result,
         z.mask = y.mask, z.attr = y.attr
  PROVE  Settled(y, x)
<1>1. \A u \in Threads : Shown(y, u) <=> Shown(z, u)
  BY AlikeShown
<1> QED
  BY <1>1 DEF Settled, Alike

\* free_message of an entry that was unlinked
LEMMA DropInv ==
  ASSUME NEW s, NEW U, ServerInv(s, U), NEW t \in Threads, NEW e \in Entries,
         NEW B, NEW y, QueueSet(s, y, t, RemoveFirst(s.list[t], e), B),
         e.type = "message" => s.attr[e.msg].to = t,
         NEW x, x = FreeMessage(y, e)
  PROVE  ServerInv(x, U) /\ Settled(y, x)
<1>1. s \in Server /\ \A n \in Messages : Lives(s, n)
  BY DEF ServerInv, Links
<1>2. PICK m \in Messages : m = e.msg
  BY Entries2
<1>3. /\ y \in Server /\ y.send_result = s.send_result
      /\ y.callback_result = s.callback_result /\ y.recv_result = s.recv_result
      /\ y.attr = s.attr /\ y.res = s.res /\ y.input = s.input
      /\ y.list = [s.list EXCEPT ![t] = RemoveFirst(s.list[t], e)]
  BY DEF QueueSet
<1>4. CASE e.type # "message" \/ ~s.res[m].msg
  <2>1. x = y
    BY <1>2, <1>3, <1>4, Entries2 DEF FreeMessage
  <2>2. ServerInv(y, U)
    BY <1>2, <1>4, UnlinkInv
  <2> QED
    BY <2>1, <2>2 DEF Settled
<1>5. CASE e.type = "message" /\ s.res[m].msg
  <2>1. PICK r \in Results : r = s.res[m]
    BY <1>1, ServerFields
  <2>2. PICK R : R = [r EXCEPT !.msg = FALSE, !.receiver = NoThread]
    OBVIOUS
  <2>3. /\ R \in Results /\ R.msg = FALSE /\ R.receiver = NoThread
        /\ R.sender = r.sender /\ R.live = r.live /\ R.replied = r.replied
        /\ R.answer = r.answer /\ R.hardware = r.hardware /\ R.callback = r.callback
    BY <2>2 DEF Results, Somebody
  <2>4. PICK i \in {"none", "held", "queued", "rejected", "lost"} : i = y.input[m]
    BY <1>3, ServerFields
  <2>5. PICK z : z = SetResult(y, m, R, i)
    OBVIOUS
  <2>6. ResultSet(y, z, m, R, i)
    BY <1>3, <2>3, <2>5, WithResult
  <2>7. z.input = s.input
    BY <1>3, <2>4, <2>6, ServerFields DEF ResultSet
  <2>8. TakenOff(s, z, m)
    <3>1. e = Entry("message", m) /\ s.attr[m].to = t
      BY <1>2, <1>5, Entries2
    <3> QED
      BY <1>3, <2>1, <2>3, <2>6, <2>7, <3>1 DEF TakenOff, ResultSet
  <2>9. /\ Unstored(z, U, m)
        /\ \A n \in Messages : z.res[n].replied = s.res[n].replied
                               /\ z.res[n].answer = s.res[n].answer
    BY <1>5, <2>8, TakenOffInv
  <2>10. x = StoreResult(z, m, "denied")
    <3>1. z = [y EXCEPT !.res[m] = R]
      BY <1>3, <2>3, <2>4, <2>5, SameInput
    <3>2. z = [y EXCEPT !.res[e.msg] = [@ EXCEPT !.msg = FALSE, !.receiver = NoThread]]
      BY <1>2, <1>3, <2>1, <2>2, <3>1
    <3> QED
      BY <1>2, <1>3, <1>5, <3>2 DEF FreeMessage
  <2>11. ServerInv(x, U) /\ Settled(z, x)
    <3>1. "denied" \in Answers
      BY DEF Answers
    <3> QED
      BY <2>9, <2>10, <3>1, StoreInv
  <2>12. Alike(y, z)
    BY <1>3, <2>6, <2>9 DEF ResultSet, Alike
  <2>13. Settled(y, x)
    BY <1>3, <2>6, <2>11, <2>12, AlikeSettled DEF ResultSet
  <2> QED
    BY <2>11, <2>13
<1> QED
  BY <1>4, <1>5, Entries2

\* The bits of a queue are as right as they were.
AsShown(s, y, u) ==
  /\ Shown(s, u) => Shown(y, u)
  /\ "SMRESULT" \in s.bits[u] <=> "SMRESULT" \in y.bits[u]

\* They are after an entry was unlinked.
LEMMA UnlinkShown ==
  ASSUME NEW s \in Server, NEW t \in Threads, NEW e \in Entries, NEW y,
         NEW L, NEW B, L = RemoveFirst(s.list[t], e),
         B = IF L = <<>> THEN s.bits[t] \ {"SENDMESSAGE"} ELSE s.bits[t],
         QueueSet(s, y, t, L, B), NEW u \in Threads
  PROVE  AsShown(s, y, u)
<1>1. s.list[t] = <<>> => L = <<>>
  <2>1. s.list[t] \in Seq(Entries)
    BY ServerFields
  <2> QED
    BY <2>1, RemoveFirstAbsent, ToSetShort
<1>2. /\ y.list[u] = IF u = t THEN L ELSE s.list[u]
      /\ y.bits[u] = IF u = t THEN B ELSE s.bits[u]
      /\ y.send_result = s.send_result /\ y.res = s.res
  BY ServerFields DEF QueueSet
<1> QED
  BY <1>1, <1>2 DEF Shown, AsShown

\* remove_queue_message, of a message to the thread, keeps the agreement.
LEMMA RemoveQueueInv ==
  ASSUME NEW s, NEW U, ServerInv(s, U), NEW t \in Threads, NEW e \in Entries,
         e.type = "message" => s.attr[e.msg].to = t,
         NEW x, x = RemoveQueueMessage(s, t, e)
  PROVE  ServerInv(x, U) /\ Quiet(s, x) /\ x.recv_result = s.recv_result
<1>1. s \in Server
  BY DEF ServerInv, Links
<1>2. PICK y : y = Unlinked(s, t, e)
  OBVIOUS
<1>3. PICK L \in Seq(Entries), B \in SUBSET Bits :
        /\ L = RemoveFirst(s.list[t], e)
        /\ B = IF L = <<>> THEN s.bits[t] \ {"SENDMESSAGE"} ELSE s.bits[t]
        /\ QueueSet(s, y, t, L, B)
  BY <1>1, <1>2, UnlinkFields
<1>4. ServerInv(x, U) /\ Settled(y, x)
  BY <1>2, <1>3, DropInv DEF RemoveQueueMessage
<1>5. \A u \in Threads : AsShown(s, y, u)
  BY <1>1, <1>3, UnlinkShown
<1> QED
  BY <1>3, <1>4, <1>5 DEF Settled, QueueSet, Quiet, AsShown

\* A state with other bits and masks, and the same lists and results.
LEMMA SameResults ==
  ASSUME NEW s, NEW x, NEW U, ServerInv(s, U), x \in Server, x.list = s.list,
         x.send_result = s.send_result, x.callback_result = s.callback_result,
         x.recv_result = s.recv_result, x.res = s.res, x.input = s.input, x.attr = s.attr
  PROVE  ServerInv(x, U)
<1>1. Lists(x)
  BY DEF ServerInv, Links, Lists
<1> SUFFICES ASSUME NEW m \in Messages
             PROVE  Linked(x, U, m) /\ Lives(x, m)
  BY <1>1 DEF ServerInv, Links, Linked
<1>2. Linked(s, U, m) /\ Lives(s, m)
  BY DEF ServerInv, Links, Linked
<1>3. SentLink(x, m) /\ ReceivedLink(x, m)
  BY <1>2 DEF Linked, SentLink, ReceivedLink, Kind
<1>4. m \notin U => Unsent(x, m)
  BY <1>2 DEF Linked, Unsent
<1>5. Lives(x, m)
  BY <1>2 DEF Lives, Held
<1> QED
  BY <1>2, <1>3, <1>4, <1>5 DEF Linked, Kind

\* A result that has lost its timeout can be stored.
LEMMA UntimedInv ==
  ASSUME NEW s, NEW z, NEW U, NEW m \in Messages, ServerInv(s, U), s.res[m].timeout,
         ~s.res[m].msg, NEW R, R = [s.res[m] EXCEPT !.timeout = FALSE],
         ResultSet(s, z, m, R, s.input[m])
  PROVE  Unstored(z, U, m) /\ Alike(s, z)
<1>1. s \in Server /\ Lists(s) /\ Links(s, U) /\ \A n \in Messages : Lives(s, n)
  BY DEF ServerInv, Links
<1>2. PICK r \in Results : r = s.res[m]
  BY <1>1, ServerFields
<1>3. /\ r.live /\ ~r.replied /\ Linked(s, U, m) /\ Lives(s, m) /\ m \in U
      /\ Kind(s, m) # "notify" /\ ~r.msg
  BY <1>1, <1>2, LiveMessage DEF Lives, Links, Linked
<1>4. /\ R.sender = r.sender /\ R.live = r.live /\ R.replied = r.replied /\ R.msg = r.msg
      /\ R.receiver = r.receiver /\ R.answer = r.answer /\ R.hardware = r.hardware
      /\ R.callback = r.callback
  BY <1>2 DEF Results
<1>5. z.res[m] = R /\ \A n \in Messages \ {m} : z.res[n] = s.res[n]
  BY <1>1, ServerFields DEF ResultSet
<1>6. z.input = s.input /\ Kind(z, m) = Kind(s, m)
  <2>1. m \in DOMAIN s.input /\ s.input = [n \in Messages |-> s.input[n]]
    BY <1>1, ServerFields
  <2>2. z.input = [s.input EXCEPT ![m] = s.input[m]] /\ z.attr = s.attr
    BY DEF ResultSet
  <2>3. z.input = s.input
    BY <2>1, <2>2
  <2> QED
    BY <2>2, <2>3 DEF Kind
<1>7. /\ z \in Server /\ z.list = s.list /\ z.send_result = s.send_result
      /\ z.callback_result = s.callback_result /\ z.recv_result = s.recv_result
      /\ z.bits = s.bits /\ z.attr = s.attr
  BY DEF ResultSet
<1>8. Same(s, z, m)
  BY <1>1, <1>5, <1>6, <1>7 DEF Same, Lists
<1>9. Linked(z, U, m)
  <2>1. SentLink(z, m)
    BY <1>2, <1>3, <1>4, <1>5, <1>6, <1>7 DEF Linked, SentLink
  <2>2. ReceivedLink(z, m)
    BY <1>2, <1>3, <1>4, <1>5, <1>6, <1>7 DEF Linked, ReceivedLink
  <2> QED
    BY <1>3, <1>6, <2>1, <2>2 DEF Linked
<1>10. \A n \in Messages : Linked(z, U, n) /\ (n # m => Lives(z, n))
  BY <1>1, <1>8, <1>9, Others
<1>11. Links(z, U)
  BY <1>8, <1>10 DEF Links, Linked, Same
<1>12. Held(z, m)
  BY <1>2, <1>3, <1>4, <1>5, <1>6 DEF Held, Lives
<1>13. Unstored(z, U, m)
  BY <1>3, <1>4, <1>5, <1>10, <1>11, <1>12 DEF Unstored
<1> QED
  BY <1>2, <1>4, <1>5, <1>7, <1>13 DEF Alike

\* result_timeout keeps the agreement.
LEMMA TimeoutInv ==
  ASSUME NEW s, NEW U, NEW m \in Messages, ServerInv(s, U), s.res[m].timeout,
         NEW x, x = ResultTimeout(s, m)
  PROVE  ServerInv(x, U) /\ Quiet(s, x) /\ x.recv_result = s.recv_result
<1>1. s \in Server /\ Links(s, U) /\ \A n \in Messages : Lives(s, n)
  BY DEF ServerInv, Links
<1>2. PICK r \in Results : r = s.res[m]
  BY <1>1, ServerFields
<1>3. "timeout" \in Answers
  BY DEF Answers
<1>4. PICK i \in {"none", "held", "queued", "rejected", "lost"} : i = s.input[m]
  BY <1>1, ServerFields
<1>5. PICK R0 \in Results : R0 = [r EXCEPT !.timeout = FALSE]
  BY DEF Results
<1>6. PICK off : off = [s EXCEPT !.res[m].timeout = FALSE]
  OBVIOUS
<1>7. off = SetResult(s, m, R0, i)
  <2>1. off = [s EXCEPT !.res[m] = R0]
    BY <1>2, <1>5, <1>6
  <2> QED
    BY <1>1, <1>4, <2>1, SameInput
<1>8. ResultSet(s, off, m, R0, i)
  BY <1>1, <1>7, WithResult
<1>9. CASE ~r.msg
  <2>1. x = StoreResult(off, m, "timeout")
    BY <1>2, <1>6, <1>9 DEF ResultTimeout
  <2>2. Unstored(off, U, m) /\ Alike(s, off)
    BY <1>2, <1>4, <1>5, <1>8, <1>9, UntimedInv
  <2>3. ServerInv(x, U) /\ Settled(off, x)
    BY <1>3, <2>1, <2>2, StoreInv
  <2>4. Settled(s, x)
    BY <1>1, <1>8, <2>2, <2>3, AlikeSettled DEF ResultSet
  <2> QED
    BY <2>3, <2>4 DEF Settled, Quiet
<1>10. CASE r.msg
  <2>1. PICK t \in Threads : t = s.attr[m].to
    BY <1>1, ServerFields, MessageAssumption
  <2>2. r.receiver = t
    BY <1>1, <1>2, <1>10, <2>1 DEF Links, ReceivedLink
  <2>3. PICK R : R = [R0 EXCEPT !.msg = FALSE, !.receiver = NoThread]
    OBVIOUS
  <2>4. /\ R \in Results /\ R.msg = FALSE /\ R.receiver = NoThread
        /\ R.sender = r.sender /\ R.live = r.live /\ R.replied = r.replied
        /\ R.answer = r.answer /\ R.hardware = r.hardware /\ R.callback = r.callback
    BY <1>5, <2>3 DEF Results, Somebody
  <2>5. PICK y : y = [off EXCEPT !.res[m] = [@ EXCEPT !.msg = FALSE, !.receiver = NoThread]]
    OBVIOUS
  <2>6. y = SetResult(s, m, R, i)
    <3>1. off = [s EXCEPT !.res = [s.res EXCEPT ![m] = R0]]
      BY <1>1, <1>2, <1>5, <1>6, ServerFields
    <3>2. off.res = [s.res EXCEPT ![m] = R0] /\ off.res[m] = R0 /\ DOMAIN off = DOMAIN s
      BY <1>1, <3>1, ServerFields
    <3>3. y = [off EXCEPT !.res = [off.res EXCEPT ![m] = R]]
      BY <2>3, <2>5, <3>2
    <3>4. [off.res EXCEPT ![m] = R] = [s.res EXCEPT ![m] = R]
      BY <1>1, <3>2, ServerFields
    <3>5. y = [s EXCEPT !.res = [s.res EXCEPT ![m] = R]]
      BY <1>1, <3>1, <3>3, <3>4, ServerFields
    <3>6. y = [s EXCEPT !.res[m] = R]
      BY <3>5
    <3> QED
      BY <1>1, <1>4, <2>4, <3>6, SameInput
  <2>7. ResultSet(s, y, m, R, i)
    BY <1>1, <2>4, <2>6, WithResult
  <2>8. PICK e \in Entries : e = Entry("message", m)
    BY Entries2
  <2>9. PICK z : z = Unlinked(y, t, e)
    OBVIOUS
  <2>10. PICK L \in Seq(Entries), B \in SUBSET Bits :
           /\ L = RemoveFirst(y.list[t], e)
           /\ B = IF L = <<>> THEN y.bits[t] \ {"SENDMESSAGE"} ELSE y.bits[t]
           /\ QueueSet(y, z, t, L, B)
    BY <2>7, <2>9, UnlinkFields DEF ResultSet
  <2>11. x = StoreResult(z, m, "timeout")
    BY <1>2, <1>6, <1>10, <2>2, <2>5, <2>8, <2>9 DEF ResultTimeout
  <2>12. TakenOff(s, z, m)
    <3>1. y.input = s.input
      <4>1. m \in DOMAIN s.input /\ s.input = [n \in Messages |-> s.input[n]]
        BY <1>1, ServerFields
      <4>2. y.input = [s.input EXCEPT ![m] = s.input[m]]
        BY <1>4, <2>7 DEF ResultSet
      <4> QED
        BY <4>1, <4>2
    <3>2. /\ y.list = s.list /\ y.send_result = s.send_result
          /\ y.callback_result = s.callback_result /\ y.recv_result = s.recv_result
          /\ y.attr = s.attr /\ y.res = [s.res EXCEPT ![m] = R]
      BY <2>7 DEF ResultSet
    <3>3. /\ z \in Server /\ z.send_result = y.send_result
          /\ z.callback_result = y.callback_result /\ z.recv_result = y.recv_result
          /\ z.attr = y.attr /\ z.res = y.res /\ z.input = y.input
          /\ z.list = [y.list EXCEPT ![t] = L]
      BY <2>10 DEF QueueSet
    <3>4. z.list = [s.list EXCEPT ![s.attr[m].to] = RemoveFirst(@, Entry("message", m))]
      BY <2>1, <2>8, <2>10, <3>2, <3>3
    <3>5. /\ z \in Server /\ z.send_result = s.send_result
          /\ z.callback_result = s.callback_result /\ z.recv_result = s.recv_result
          /\ z.attr = s.attr /\ z.input = s.input /\ z.res = [s.res EXCEPT ![m] = R]
      BY <3>1, <3>2, <3>3
    <3> QED
      BY <1>2, <2>4, <3>4, <3>5 DEF TakenOff
  <2>13. /\ Unstored(z, U, m)
         /\ \A n \in Messages : z.res[n].replied = s.res[n].replied
                                /\ z.res[n].answer = s.res[n].answer
    BY <1>2, <1>10, <2>12, TakenOffInv
  <2>14. ServerInv(x, U) /\ Settled(z, x)
    BY <1>3, <2>11, <2>13, StoreInv
  <2>15. Alike(s, y)
    BY <2>7, <2>10, <2>13 DEF ResultSet, QueueSet, Alike
  <2>16. \A u \in Threads : AsShown(y, z, u)
    BY <2>7, <2>10, UnlinkShown DEF ResultSet
  <2>17. \A u \in Threads : Shown(s, u) <=> Shown(y, u)
    BY <1>1, <2>15, AlikeShown
  <2> QED
    BY <2>7, <2>10, <2>13, <2>14, <2>15, <2>16, <2>17
       DEF Settled, Quiet, AsShown, Alike, ResultSet, QueueSet
<1> QED
  BY <1>9, <1>10

-----------------------------------------------------------------------------
(* Messages are received and answered.                                      *)

\* A state with another stack of received messages of t, and another result of m.
SetStack(s, t, q, m, R) == [s EXCEPT !.recv_result[t] = q, !.res[m] = R]
StackSet(s, x, t, q, m, R) ==
  /\ x \in Server /\ x.list = s.list /\ x.send_result = s.send_result
  /\ x.callback_result = s.callback_result /\ x.bits = s.bits /\ x.mask = s.mask
  /\ x.attr = s.attr /\ x.input = s.input
  /\ x.recv_result = [s.recv_result EXCEPT ![t] = q] /\ x.res = [s.res EXCEPT ![m] = R]

\* Its fields are these.
LEMMA WithStack ==
  ASSUME NEW s \in Server, NEW t \in Threads, NEW q \in Seq(Messages), NEW m \in Messages,
         NEW R \in Results, NEW x, x = SetStack(s, t, q, m, R)
  PROVE  StackSet(s, x, t, q, m, R)
<1> DEFINE Q == [s.recv_result EXCEPT ![t] = q]
           Rs == [s.res EXCEPT ![m] = R]
<1>1. x = [s EXCEPT !.recv_result = Q, !.res = Rs]
  BY ServerFields DEF SetStack
<1>2. Q \in [Threads -> Seq(Messages)] /\ Rs \in [Messages -> Results]
  BY ServerFields
<1> HIDE DEF Q, Rs
<1>3. x \in Server
  BY <1>1, <1>2, ServerFields DEF Server
<1> QED
  BY <1>1, <1>3, ServerFields DEF Q, Rs, StackSet

ReceivedDone(s, U, x, t) ==
  LET e == Head(s.list[t])
  IN /\ e \in Entries /\ ServerInv(x, U) /\ Quiet(s, x)
     /\ x.recv_result = IF e.type = "message" /\ Kind(s, e.msg) # "notify"
                        THEN [s.recv_result EXCEPT ![t] = <<e.msg>> \o @] ELSE s.recv_result

\* receive_message keeps the agreement: the message goes from the list to the stack.
LEMMA ReceivedInv ==
  ASSUME NEW s, NEW U, ServerInv(s, U), NEW t \in Threads, s.list[t] # <<>>,
         NEW x, x = Received(s, t)
  PROVE  ReceivedDone(s, U, x, t)
<1> SUFFICES LET e == Head(s.list[t])
             IN /\ e \in Entries /\ ServerInv(x, U) /\ Quiet(s, x)
                /\ x.recv_result = IF e.type = "message" /\ Kind(s, e.msg) # "notify"
                                   THEN [s.recv_result EXCEPT ![t] = <<e.msg>> \o @]
                                   ELSE s.recv_result
  BY Zenon DEF ReceivedDone
<1>1. s \in Server /\ Lists(s) /\ Links(s, U) /\ \A n \in Messages : Lives(s, n)
  BY DEF ServerInv, Links
<1>2. PICK e \in Entries : e = Head(s.list[t]) /\ e \in ToSet(s.list[t])
  BY <1>1, ServerFields, ToSetTail
<1>3. PICK m \in Messages : m = e.msg
  BY Entries2
<1>4. PICK y : y = Unlinked(s, t, e)
  OBVIOUS
<1>5. PICK L \in Seq(Entries), B \in SUBSET Bits :
        /\ L = RemoveFirst(s.list[t], e)
        /\ B = IF L = <<>> THEN s.bits[t] \ {"SENDMESSAGE"} ELSE s.bits[t]
        /\ QueueSet(s, y, t, L, B)
  BY <1>1, <1>4, UnlinkFields
<1>6. \A u \in Threads : AsShown(s, y, u)
  BY <1>1, <1>5, UnlinkShown
<1>7. CASE ~(e.type = "message" /\ Kind(s, m) # "notify")
  <2>1. x = y
    BY <1>2, <1>3, <1>4, <1>7 DEF Received
  <2>2. e.type = "message" => ~s.res[m].msg
    BY <1>1, <1>7 DEF Links, NoResult
  <2>3. ServerInv(y, U)
    BY <1>3, <1>5, <2>2, UnlinkInv
  <2> QED
    BY <1>2, <1>3, <1>5, <1>6, <1>7, <2>1, <2>3 DEF QueueSet, Quiet, AsShown
<1>8. CASE e.type = "message" /\ Kind(s, m) # "notify"
  <2>1. PICK r \in Results : r = s.res[m]
    BY <1>1, ServerFields
  <2>2. e = Entry("message", m)
    BY <1>3, <1>8, Entries2
  <2>3. /\ r.receiver = t /\ r.msg /\ Linked(s, U, m) /\ Lives(s, m) /\ r.live /\ ~r.replied
        /\ s.attr[m].to = t /\ m \in U
    BY <1>1, <1>2, <1>8, <2>1, <2>2, LiveMessage DEF Links, Linked, ReceivedLink, Lives
  <2>4. PICK R : R = [r EXCEPT !.msg = FALSE]
    OBVIOUS
  <2>5. /\ R \in Results /\ R.msg = FALSE /\ R.receiver = t
        /\ R.sender = r.sender /\ R.live = r.live /\ R.replied = r.replied
        /\ R.answer = r.answer /\ R.hardware = r.hardware /\ R.callback = r.callback
        /\ R.timeout = r.timeout
    BY <2>3, <2>4 DEF Results
  <2>6. /\ y \in Server /\ y.send_result = s.send_result
        /\ y.callback_result = s.callback_result /\ y.recv_result = s.recv_result
        /\ y.attr = s.attr /\ y.res = s.res /\ y.input = s.input
        /\ y.list = [s.list EXCEPT ![t] = L]
    BY <1>5 DEF QueueSet
  <2>7. PICK q \in Seq(Messages) : q = s.recv_result[t] /\ Distinct(q) /\ m \notin ToSet(q)
    BY <1>1, <2>1, <2>3, ServerFields DEF Lists, Linked, ReceivedLink
  <2>8. PICK p \in Seq(Messages) : p = <<m>> \o q
    BY <2>7, Pushed
  <2>9. Distinct(p) /\ ToSet(p) = {m} \union ToSet(q)
    BY <2>7, <2>8, Pushed
  <2>10. x = SetStack(y, t, p, m, R)
    <3>1. x = [y EXCEPT !.res[m].msg = FALSE, !.recv_result[t] = <<m>> \o @]
      BY <1>2, <1>3, <1>4, <1>8 DEF Received
    <3>2. [y.res EXCEPT ![m].msg = FALSE] = [y.res EXCEPT ![m] = R]
      BY <2>1, <2>4, <2>6
    <3>3. [y.recv_result EXCEPT ![t] = <<m>> \o @] = [y.recv_result EXCEPT ![t] = p]
      BY <2>6, <2>7, <2>8
    <3>4. PICK Rs, Q : Rs = [y.res EXCEPT ![m] = R] /\ Q = [y.recv_result EXCEPT ![t] = p]
      OBVIOUS
    <3>5. DOMAIN y = {"list", "send_result", "callback_result", "recv_result", "bits", "mask",
                      "res", "input", "attr"}
      BY <2>6, ServerFields
    <3>6. x = [y EXCEPT !.res = Rs, !.recv_result = Q]
      BY <3>1, <3>2, <3>3, <3>4, <3>5
    <3>7. SetStack(y, t, p, m, R) = [y EXCEPT !.recv_result = Q, !.res = Rs]
      BY <3>4, <3>5 DEF SetStack
    <3> QED
      BY <3>5, <3>6, <3>7
  <2>11. StackSet(y, x, t, p, m, R)
    BY <2>5, <2>6, <2>8, <2>10, WithStack
  <2>12. /\ x \in Server /\ x.send_result = s.send_result /\ x.input = s.input
         /\ x.callback_result = s.callback_result /\ x.attr = s.attr /\ x.bits = y.bits
         /\ x.list = [s.list EXCEPT ![t] = L] /\ x.res = [s.res EXCEPT ![m] = R]
         /\ x.recv_result = [s.recv_result EXCEPT ![t] = p] /\ Kind(x, m) = Kind(s, m)
    BY <2>6, <2>11 DEF StackSet, Kind
  <2>13. x.res[m] = R /\ \A n \in Messages \ {m} : x.res[n] = s.res[n]
    BY <1>1, <2>12, ServerFields
  <2>14. x.recv_result[t] = p /\ \A u \in Threads \ {t} : x.recv_result[u] = s.recv_result[u]
    BY <1>1, <2>12, ServerFields
  <2>15. /\ Distinct(x.list[t]) /\ ToSet(x.list[t]) = ToSet(s.list[t]) \ {e}
         /\ \A u \in Threads \ {t} : x.list[u] = s.list[u]
    <3>1. PICK l \in Seq(Entries) : l = s.list[t] /\ Distinct(l)
      BY <1>1, ServerFields DEF Lists
    <3>2. x.list[t] = L /\ \A u \in Threads \ {t} : x.list[u] = s.list[u]
      BY <1>1, <2>12, ServerFields
    <3> QED
      BY <1>5, <3>1, <3>2, RemoveFirstDistinct
  <2>16. Same(s, x, m)
    <3>1. Lists(x)
      BY <1>1, <2>9, <2>12, <2>14, <2>15 DEF Lists
    <3>2. \A n \in Messages \ {m} : \A u \in Threads : \A type :
            Entry(type, n) \in ToSet(x.list[u]) <=> Entry(type, n) \in ToSet(s.list[u])
      <4>1. \A n \in Messages \ {m} : \A type : Entry(type, n) # e
        BY <1>3, Entries2
      <4> QED
        BY <2>15, <4>1
    <3>3. \A n \in Messages \ {m} : \A u \in Threads :
            n \in ToSet(x.recv_result[u]) <=> n \in ToSet(s.recv_result[u])
      BY <2>7, <2>9, <2>14
    <3> QED
      BY <2>12, <2>13, <3>1, <3>2, <3>3 DEF Same
  <2>17. Linked(x, U, m)
    <3>1. SentLink(x, m)
      BY <2>1, <2>3, <2>5, <2>12, <2>13 DEF Linked, SentLink
    <3>2. \A u \in Threads : m \in ToSet(x.recv_result[u]) <=> u = t
      BY <2>1, <2>3, <2>9, <2>14 DEF Linked, ReceivedLink
    <3>3. \A u \in Threads : Entry("message", m) \notin ToSet(x.list[u])
      BY <1>8, <2>1, <2>2, <2>3, <2>15 DEF Linked, ReceivedLink
    <3>4. \A u \in Threads : Entry("result", m) \in ToSet(x.list[u]) => R.sender = NoThread
      BY <2>1, <2>3, <2>5, <2>15 DEF Linked, ReceivedLink
    <3>5. ReceivedLink(x, m)
      BY <2>5, <2>13, <3>2, <3>3, <3>4 DEF ReceivedLink
    <3> QED
      BY <1>8, <2>3, <2>12, <3>1, <3>5 DEF Linked
  <2>18. Lives(x, m)
    <3>1. Held(x, m)
      BY <2>1, <2>3, <2>5, <2>12, <2>13 DEF Lives, Held
    <3>2. R.live /\ ~R.replied /\ R.receiver # NoThread
      BY <2>3, <2>5, MessageAssumption
    <3> QED
      BY <2>13, <3>1, <3>2 DEF Lives
  <2>19. ServerInv(x, U)
    BY <1>1, <2>16, <2>17, <2>18, Joined
  <2>20. \A n \in Messages : x.res[n].replied = s.res[n].replied /\ x.res[n].answer = s.res[n].answer
    BY <2>1, <2>5, <2>13
  <2>21. Alike(y, x)
    BY <2>6, <2>11, <2>20 DEF Alike, StackSet
  <2>22. \A u \in Threads : Shown(y, u) <=> Shown(x, u)
    BY <2>6, <2>21, AlikeShown
  <2>23. Quiet(s, x)
    BY <1>6, <2>12, <2>20, <2>22 DEF Quiet, AsShown
  <2> QED
    BY <1>2, <1>3, <1>8, <2>7, <2>8, <2>12, <2>19, <2>23
<1> QED
  BY <1>7, <1>8

\* The message last received is off the stack of the thread.
Popped(s, out, t, m) ==
  \E R \in Results :
    /\ StackSet(s, out, t, Tail(s.recv_result[t]), m, R)
    /\ R.receiver = NoThread /\ R.msg = FALSE /\ R.sender = s.res[m].sender
    /\ R.live = s.res[m].live /\ R.replied = s.res[m].replied /\ R.answer = s.res[m].answer
    /\ R.hardware = s.res[m].hardware /\ R.timeout = s.res[m].timeout
    /\ R.callback = s.res[m].callback

\* It is linked as before, but for its receiver.
PoppedOff(s, U, out, m) ==
  /\ Links(out, U) /\ Same(s, out, m) /\ Held(out, m) /\ Alike(s, out)
  /\ \A n \in Messages \ {m} : Lives(out, n)

\* That is so.
LEMMA PoppedInv ==
  ASSUME NEW s, NEW U, ServerInv(s, U), NEW t \in Threads, NEW m \in Messages,
         s.recv_result[t] # <<>>, m = Head(s.recv_result[t]), NEW out, Popped(s, out, t, m)
  PROVE  PoppedOff(s, U, out, m)
<1>1. s \in Server /\ Lists(s) /\ Links(s, U) /\ \A n \in Messages : Lives(s, n)
  BY DEF ServerInv, Links
<1>2. PICK r \in Results : r = s.res[m]
  BY <1>1, ServerFields
<1>3. PICK q \in Seq(Messages) : q = s.recv_result[t] /\ Distinct(q)
  BY <1>1, ServerFields DEF Lists
<1>4. /\ m \in ToSet(q) /\ Distinct(Tail(q)) /\ ToSet(Tail(q)) = ToSet(q) \ {m}
  BY <1>3, ToSetTail, TailDistinct
<1>5. r.receiver = t /\ ~r.msg /\ Linked(s, U, m) /\ Lives(s, m)
  <2>1. Linked(s, U, m) /\ Lives(s, m)
    BY <1>1 DEF Links, Linked
  <2>2. ReceivedLink(s, m)
    BY <2>1 DEF Linked
  <2>3. m \in ToSet(s.recv_result[t])
    BY <1>3, <1>4
  <2> QED
    BY <1>2, <2>1, <2>2, <2>3 DEF ReceivedLink
<1>6. PICK R \in Results :
        /\ StackSet(s, out, t, Tail(s.recv_result[t]), m, R)
        /\ R.receiver = NoThread /\ R.msg = FALSE /\ R.sender = r.sender
        /\ R.live = r.live /\ R.replied = r.replied /\ R.answer = r.answer
        /\ R.hardware = r.hardware /\ R.timeout = r.timeout /\ R.callback = r.callback
  BY <1>2 DEF Popped
<1>7. /\ out \in Server /\ out.list = s.list /\ out.send_result = s.send_result
      /\ out.callback_result = s.callback_result /\ out.bits = s.bits
      /\ out.attr = s.attr /\ out.input = s.input /\ Kind(out, m) = Kind(s, m)
      /\ out.recv_result = [s.recv_result EXCEPT ![t] = Tail(q)]
      /\ out.res = [s.res EXCEPT ![m] = R]
  BY <1>3, <1>6 DEF StackSet, Kind
<1>8. out.res[m] = R /\ \A n \in Messages \ {m} : out.res[n] = s.res[n]
  BY <1>1, <1>7, ServerFields
<1>9. out.recv_result[t] = Tail(q) /\ \A u \in Threads \ {t} : out.recv_result[u] = s.recv_result[u]
  BY <1>1, <1>7, ServerFields
<1>10. Same(s, out, m)
  <2>1. Lists(out)
    BY <1>1, <1>4, <1>7, <1>9 DEF Lists
  <2>2. \A n \in Messages \ {m} : \A u \in Threads :
          n \in ToSet(out.recv_result[u]) <=> n \in ToSet(s.recv_result[u])
    BY <1>3, <1>4, <1>9
  <2> QED
    BY <1>7, <1>8, <2>1, <2>2 DEF Same
<1>11. r.live
  BY <1>2, <1>5, MessageAssumption DEF Lives
<1>12. m \in U /\ Kind(s, m) # "notify"
  BY <1>1, <1>2, <1>11, LiveMessage
<1>13. Linked(out, U, m)
  <2>1. SentLink(out, m)
    BY <1>2, <1>5, <1>6, <1>7, <1>8, ZenonT(30) DEF Linked, SentLink
  <2>2. \A u \in Threads : m \notin ToSet(out.recv_result[u])
    <3>1. \A u \in Threads \ {t} : m \notin ToSet(s.recv_result[u])
      BY <1>2, <1>5 DEF Linked, ReceivedLink
    <3>2. m \notin ToSet(out.recv_result[t])
      BY <1>4, <1>9
    <3> QED
      BY <1>9, <3>1, <3>2
  <2>3. \A u \in Threads : Entry("message", m) \notin ToSet(out.list[u])
    BY <1>2, <1>5, <1>7, <1>12 DEF Linked, ReceivedLink
  <2>4. \A u \in Threads : Entry("result", m) \in ToSet(out.list[u]) => R.sender = NoThread
    BY <1>2, <1>5, <1>6, <1>7 DEF Linked, ReceivedLink
  <2>5. ReceivedLink(out, m)
    BY <1>6, <1>8, <2>2, <2>3, <2>4, MessageAssumption DEF ReceivedLink
  <2> QED
    BY <1>7, <1>12, <2>1, <2>5 DEF Linked
<1>14. \A n \in Messages : Linked(out, U, n) /\ (n # m => Lives(out, n))
  BY <1>1, <1>10, <1>13, Others
<1>15. Links(out, U)
  BY <1>10, <1>14 DEF Links, Linked, Same
<1>16. Held(out, m)
  BY <1>2, <1>5, <1>6, <1>7, <1>8 DEF Held, Lives
<1>17. Alike(s, out)
  BY <1>2, <1>6, <1>7, <1>8 DEF Alike
<1> QED
  BY <1>10, <1>14, <1>15, <1>16, <1>17 DEF PoppedOff

\* What a reply leaves alone
Answered(s, x) ==
  /\ Quiet(s, x)
  /\ \A u \in Threads :
       s.callback_result[u] = <<>> => x.callback_result[u] = <<>> /\ x.list[u] = s.list[u]

ReplyDone(s, U, x, t, remove) ==
  /\ ServerInv(x, U) /\ Answered(s, x)
  /\ x.recv_result = IF remove THEN [s.recv_result EXCEPT ![t] = Tail(@)] ELSE s.recv_result

\* reply_message keeps the agreement.
LEMMA ReplyInv ==
  ASSUME NEW s, NEW U, ServerInv(s, U), NEW t \in Threads, s.recv_result[t] # <<>>,
         NEW answer \in Answers, NEW remove \in BOOLEAN,
         NEW x, x = Reply(s, t, answer, remove)
  PROVE  ReplyDone(s, U, x, t, remove)
<1> SUFFICES /\ ServerInv(x, U) /\ Answered(s, x)
             /\ x.recv_result = IF remove THEN [s.recv_result EXCEPT ![t] = Tail(@)]
                                ELSE s.recv_result
  BY DEF ReplyDone
<1>1. s \in Server /\ Lists(s) /\ Links(s, U) /\ \A n \in Messages : Lives(s, n)
  BY DEF ServerInv, Links
<1>2. PICK q \in Seq(Messages) : q = s.recv_result[t] /\ q # <<>>
  BY <1>1, ServerFields
<1>3. PICK m \in Messages : m = Head(s.recv_result[t]) /\ m \in ToSet(s.recv_result[t])
  BY <1>2, ToSetTail
<1>4. PICK r \in Results : r = s.res[m]
  BY <1>1, ServerFields
<1>5. r.receiver = t /\ ~r.msg /\ Linked(s, U, m) /\ Lives(s, m) /\ r.live
  <2>1. Linked(s, U, m) /\ Lives(s, m)
    BY <1>1 DEF Links, Linked
  <2>2. ReceivedLink(s, m)
    BY <2>1 DEF Linked
  <2>3. r.receiver = t /\ ~r.msg
    BY <1>3, <1>4, <2>2 DEF ReceivedLink
  <2>4. t # NoThread
    BY MessageAssumption
  <2> QED
    BY <1>4, <2>1, <2>3, <2>4 DEF Lives
<1>6. CASE ~remove
  <2>1. CASE r.replied
    <3>1. x = s
      BY <1>3, <1>4, <1>6, <2>1 DEF Reply
    <3> QED
      BY <1>6, <3>1 DEF Answered, Quiet
  <2>2. CASE ~r.replied
    <3>1. x = StoreResult(s, m, answer)
      BY <1>3, <1>4, <1>6, <2>2 DEF Reply
    <3>2. Unstored(s, U, m)
      BY <1>1, <1>4, <1>5, <2>2 DEF Unstored, Lives
    <3>3. ServerInv(x, U) /\ Settled(s, x)
      BY <3>1, <3>2, StoreInv
    <3> QED
      BY <1>6, <3>3 DEF Settled, Answered, Quiet
  <2> QED
    BY <2>1, <2>2
<1>7. CASE remove
  <2>1. PICK R : R = [r EXCEPT !.receiver = NoThread]
    OBVIOUS
  <2>2. /\ R \in Results /\ R.receiver = NoThread /\ R.msg = FALSE /\ R.sender = r.sender
        /\ R.live = r.live /\ R.replied = r.replied /\ R.answer = r.answer
        /\ R.hardware = r.hardware /\ R.timeout = r.timeout /\ R.callback = r.callback
    BY <1>5, <2>1 DEF Results, Somebody
  <2>3. PICK p \in Seq(Messages) : p = Tail(q)
    BY <1>2, ToSetTail
  <2>4. PICK out : out = [s EXCEPT !.recv_result[t] = Tail(@), !.res[m].receiver = NoThread]
    OBVIOUS
  <2>5. out = SetStack(s, t, p, m, R)
    <3>1. /\ [s.recv_result EXCEPT ![t] = Tail(@)] = [s.recv_result EXCEPT ![t] = p]
          /\ [s.res EXCEPT ![m].receiver = NoThread] = [s.res EXCEPT ![m] = R]
      BY <1>2, <1>4, <2>1, <2>3
    <3>2. PICK Rs, Q : Rs = [s.res EXCEPT ![m] = R] /\ Q = [s.recv_result EXCEPT ![t] = p]
      OBVIOUS
    <3>3. DOMAIN s = {"list", "send_result", "callback_result", "recv_result", "bits", "mask",
                      "res", "input", "attr"}
      BY <1>1, ServerFields
    <3>4. out = [s EXCEPT !.recv_result = Q, !.res = Rs]
      BY <2>4, <3>1, <3>2, <3>3
    <3>5. SetStack(s, t, p, m, R) = [s EXCEPT !.recv_result = Q, !.res = Rs]
      BY <3>2, <3>3 DEF SetStack
    <3> QED
      BY <3>4, <3>5
  <2>6. StackSet(s, out, t, p, m, R)
    BY <1>1, <2>2, <2>3, <2>5, WithStack
  <2>7. Popped(s, out, t, m)
    BY <1>2, <1>4, <2>2, <2>3, <2>6 DEF Popped
  <2>8. /\ Links(out, U) /\ Same(s, out, m) /\ Held(out, m) /\ Alike(s, out)
        /\ \A n \in Messages \ {m} : Lives(out, n)
    <3>1. PoppedOff(s, U, out, m)
      BY <1>3, <2>7, PoppedInv
    <3> QED
      BY <3>1 DEF PoppedOff
  <2>9. \A u \in Threads : Shown(s, u) <=> Shown(out, u)
    BY <1>1, <2>8, AlikeShown
  <2>10. /\ out \in Server /\ out.recv_result = [s.recv_result EXCEPT ![t] = Tail(@)]
         /\ out.list = s.list /\ out.callback_result = s.callback_result
         /\ out.send_result = s.send_result /\ out.attr = s.attr /\ out.bits = s.bits
    BY <1>2, <2>3, <2>6 DEF StackSet
  <2>11. out.res[m] = R
    BY <1>1, <2>6, ServerFields DEF StackSet
  <2>12. Linked(out, U, m)
    BY <2>8 DEF Links, Linked
  <2>13. Answered(s, out)
    BY <2>8, <2>9, <2>10 DEF Answered, Quiet, Alike
  <2>14. CASE r.sender = NoThread /\ ~r.hardware
    <3>1. x = FreeResult(out, m)
      BY <1>3, <1>4, <1>7, <2>4, <2>14 DEF Reply
    <3>2. PICK F \in Results : F = Freed(R)
      BY <2>2, FreedTypes
    <3>3. PICK i \in {"none", "held", "queued", "rejected", "lost"} : i = out.input[m]
      BY <2>10, ServerFields
    <3>4. x = SetResult(out, m, F, i)
      <4>1. x = [out EXCEPT !.res = [out.res EXCEPT ![m] = F],
                            !.input = [out.input EXCEPT ![m] = i]]
        BY <2>2, <2>10, <2>11, <2>14, <3>1, <3>2, <3>3, FreeFields DEF Freed
      <4>2. DOMAIN out = {"list", "send_result", "callback_result", "recv_result", "bits", "mask",
                          "res", "input", "attr"}
        BY <2>10, ServerFields
      <4> QED
        BY <4>1, <4>2 DEF SetResult
    <3>5. ResultSet(out, x, m, F, i)
      BY <2>10, <3>4, WithResult
    <3>6. /\ x \in Server /\ x.list = out.list /\ x.send_result = out.send_result
          /\ x.callback_result = out.callback_result /\ x.recv_result = out.recv_result
          /\ x.bits = out.bits /\ x.attr = out.attr /\ Kind(x, m) = Kind(out, m)
      BY <3>5 DEF ResultSet, Kind
    <3>7. x.res[m] = F /\ \A n \in Messages \ {m} : x.res[n] = out.res[n]
      BY <2>10, <3>5, ServerFields DEF ResultSet
    <3>8. x.input[m] = i /\ \A n \in Messages \ {m} : x.input[n] = out.input[n]
      BY <2>10, <3>5, ServerFields DEF ResultSet
    <3>9. /\ ~F.live /\ F.sender = NoThread /\ F.receiver = NoThread /\ ~F.msg
          /\ ~F.timeout /\ ~F.hardware /\ F.replied = R.replied /\ F.answer = R.answer
      BY <3>2 DEF Freed, NoResult
    <3>10. Same(out, x, m)
      BY <2>8, <3>6, <3>7, <3>8 DEF Same, Lists
    <3>11. Linked(x, U, m)
      <4>1. SentLink(x, m)
        BY <2>2, <2>11, <2>12, <2>14, <3>6, <3>7, <3>9, MessageAssumption DEF Linked, SentLink
      <4>2. ReceivedLink(x, m)
        BY <2>2, <2>11, <2>12, <2>14, <3>6, <3>7, <3>9 DEF Linked, ReceivedLink
      <4>3. m \in U /\ Kind(s, m) # "notify" /\ Kind(out, m) = Kind(s, m)
        BY <1>1, <1>4, <1>5, <2>10, LiveMessage DEF Kind
      <4> QED
        BY <3>6, <4>1, <4>2, <4>3 DEF Linked
    <3>12. Lives(x, m)
      <4>1. Held(x, m)
        BY <2>2, <2>8, <2>11, <2>14, <3>3, <3>7, <3>8, <3>9 DEF Held
      <4> QED
        BY <3>7, <3>9, <4>1 DEF Lives
    <3>13. ServerInv(x, U)
      BY <2>8, <3>10, <3>11, <3>12, Joined
    <3>14. Alike(out, x)
      BY <2>11, <3>6, <3>7, <3>9 DEF Alike
    <3>15. \A u \in Threads : Shown(out, u) <=> Shown(x, u)
      BY <2>10, <3>14, AlikeShown
    <3>16. Answered(s, x)
      BY <2>13, <3>6, <3>14, <3>15 DEF Answered, Quiet, Alike
    <3> QED
      BY <1>7, <2>10, <3>6, <3>13, <3>16
  <2>15. CASE r.replied /\ ~(r.sender = NoThread /\ ~r.hardware)
    <3>1. x = out
      BY <1>3, <1>4, <1>7, <2>4, <2>15 DEF Reply
    <3>2. ~r.hardware /\ ~r.timeout /\ r.sender # NoThread
      BY <1>4, <1>5, <2>15 DEF Lives
    <3>3. Lives(out, m)
      BY <1>5, <2>2, <2>8, <2>11, <3>2 DEF Lives
    <3>4. ServerInv(out, U)
      BY <2>8, <3>3 DEF ServerInv
    <3> QED
      BY <1>7, <2>10, <2>13, <3>1, <3>4
  <2>16. CASE ~r.replied /\ ~(r.sender = NoThread /\ ~r.hardware)
    <3>1. x = StoreResult(out, m, answer)
      BY <1>3, <1>4, <1>7, <2>4, <2>16 DEF Reply
    <3>2. Unstored(out, U, m)
      BY <1>5, <2>2, <2>8, <2>11, <2>16 DEF Unstored
    <3>3. ServerInv(x, U) /\ Settled(out, x)
      BY <3>1, <3>2, StoreInv
    <3>4. Answered(s, x)
      BY <2>10, <2>13, <3>3 DEF Answered, Quiet, Settled
    <3> QED
      BY <1>7, <2>10, <3>3, <3>4 DEF Settled
  <2> QED
    BY <2>14, <2>15, <2>16
<1> QED
  BY <1>6, <1>7

\* Two states that differ in their bits and masks only.
OnlyBits(s, x) ==
  /\ x \in Server /\ x.list = s.list /\ x.send_result = s.send_result
  /\ x.callback_result = s.callback_result /\ x.recv_result = s.recv_result
  /\ x.res = s.res /\ x.input = s.input /\ x.attr = s.attr

SetMasks(s, Bs, Ms) == [s EXCEPT !.bits = Bs, !.mask = Ms]

\* Such is a state with other ones.
LEMMA WithBits ==
  ASSUME NEW s \in Server, NEW Bs \in [Threads -> SUBSET Bits], NEW Ms \in [Threads -> SUBSET Bits],
         NEW x, x = SetMasks(s, Bs, Ms)
  PROVE  OnlyBits(s, x) /\ x.bits = Bs /\ x.mask = Ms
<1>1. x \in Server
  BY ServerFields DEF Server, SetMasks
<1> QED
  BY <1>1, ServerFields DEF OnlyBits, SetMasks

\* They agree as much.
LEMMA OnlyBitsInv ==
  ASSUME NEW s, NEW x, NEW U, ServerInv(s, U), OnlyBits(s, x)
  PROVE  ServerInv(x, U)
BY SameResults DEF OnlyBits

\* What get_message_reply leaves alone
Taken(s, x, t) ==
  /\ x.send_result = [s.send_result EXCEPT ![t] = Tail(@)]
  /\ x.recv_result = s.recv_result /\ x.attr = s.attr
  /\ \A u \in Threads : Shown(s, u) => Shown(x, u)
  /\ \A u \in Threads \ {t} : x.bits[u] = s.bits[u]
  /\ \A n \in Messages : x.res[n].replied = s.res[n].replied /\ x.res[n].answer = s.res[n].answer

\* get_message_reply keeps the agreement, and the bits are those of the next result.
LEMMA TakenInv ==
  ASSUME NEW s, NEW U, ServerInv(s, U), NEW t \in Threads, s.send_result[t] # <<>>,
         NEW x, x = ReplyTaken(s, t)
  PROVE  ServerInv(x, U) /\ Taken(s, x, t)
<1>1. s \in Server /\ Lists(s) /\ Links(s, U)
  BY DEF ServerInv, Links
<1>2. PICK q \in Seq(Messages) : q = s.send_result[t] /\ q # <<>> /\ Distinct(q)
  BY <1>1, ServerFields DEF Lists
<1>3. PICK m \in Messages : m = Head(q) /\ m \in ToSet(q)
  BY <1>2, ToSetTail
<1>4. s.res[m].sender = t
  BY <1>1, <1>2, <1>3 DEF Links, SentLink
<1>5. PICK y : y = RemoveFromSender(s, m)
  OBVIOUS
<1>6. /\ ServerInv(y, U) /\ Removed(s, y, m, t)
      /\ \A u \in Threads \ {t} : Shown(s, u) => Shown(y, u)
      /\ \A n \in Messages : y.res[n].replied = s.res[n].replied
                             /\ y.res[n].answer = s.res[n].answer
  <2>1. ServerInv(y, U) /\ Removed(s, y, m, t) /\ Parted(s, y, t)
    BY <1>4, <1>5, RemoveInv
  <2> QED
    BY <2>1 DEF Parted
<1>7. /\ y \in Server /\ y.recv_result = s.recv_result /\ y.list = s.list /\ y.bits = s.bits
      /\ y.send_result = [s.send_result EXCEPT ![t] = RemoveFirst(@, m)] /\ y.attr = s.attr
  BY <1>6 DEF Removed
<1>8. RemoveFirst(q, m) = Tail(q)
  BY <1>2, <1>3, RemoveHead
<1>9. PICK p \in Seq(Messages) : p = Tail(q)
  BY <1>2, ToSetTail
<1>10. /\ y.send_result = [s.send_result EXCEPT ![t] = Tail(@)] /\ y.send_result[t] = p
  BY <1>1, <1>2, <1>7, <1>8, <1>9, ServerFields
<1>11. PICK more \in BOOLEAN : more <=> p # <<>> /\ y.res[Head(p)].replied
  OBVIOUS
<1>12. PICK Bs \in [Threads -> SUBSET Bits] :
         Bs = [y.bits EXCEPT ![t] = IF more THEN @ \union {"SMRESULT"} ELSE @ \ {"SMRESULT"}]
  <2>1. y.bits \in [Threads -> SUBSET Bits]
    BY <1>7, ServerFields
  <2>2. y.bits[t] \union {"SMRESULT"} \in SUBSET Bits /\ y.bits[t] \ {"SMRESULT"} \in SUBSET Bits
    BY <2>1 DEF Bits
  <2> QED
    BY <2>1, <2>2
<1>13. x = [y EXCEPT !.bits = Bs]
  <2>1. x = IF more THEN SetBits(y, t, "SMRESULT") ELSE ClearBits(y, t, "SMRESULT")
    BY <1>2, <1>3, <1>5, <1>10, <1>11 DEF ReplyTaken
  <2>2. CASE more
    BY <1>7, <1>12, <2>1, <2>2, ServerFields DEF SetBits
  <2>3. CASE ~more
    BY <1>7, <1>12, <2>1, <2>3, ServerFields DEF ClearBits
  <2> QED
    BY <2>2, <2>3
<1>14. OnlyBits(y, x) /\ x.bits = Bs
  <2>1. PICK Ms \in [Threads -> SUBSET Bits] : Ms = y.mask
    BY <1>7, ServerFields
  <2>2. x = SetMasks(y, Bs, Ms)
    BY <1>7, <1>13, <2>1, ServerFields DEF SetMasks
  <2> QED
    BY <1>7, <2>2, WithBits
<1>15. ServerInv(x, U)
  BY <1>6, <1>14, OnlyBitsInv
<1>16. \A u \in Threads \ {t} : x.bits[u] = s.bits[u]
  BY <1>1, <1>7, <1>12, <1>14, ServerFields
<1>17. ASSUME NEW u \in Threads, Shown(s, u)
       PROVE  Shown(x, u)
  <2>1. CASE u = t
    <3>1. x.bits[t] = IF more THEN s.bits[t] \union {"SMRESULT"} ELSE s.bits[t] \ {"SMRESULT"}
      BY <1>1, <1>7, <1>12, <1>14, ServerFields
    <3>2. x.list[t] = s.list[t] /\ x.send_result[t] = p /\ x.res = y.res
      BY <1>7, <1>10, <1>14 DEF OnlyBits
    <3> QED
      BY <1>11, <1>17, <2>1, <3>1, <3>2 DEF Shown
  <2>2. CASE u # t
    <3>1. Shown(y, u)
      BY <1>6, <1>17, <2>2
    <3>2. x.bits[u] = y.bits[u]
      BY <1>7, <1>16, <2>2
    <3> QED
      BY <1>14, <3>1, <3>2 DEF Shown, OnlyBits
  <2> QED
    BY <2>1, <2>2
<1> QED
  BY <1>6, <1>7, <1>10, <1>14, <1>15, <1>16, <1>17 DEF Taken, OnlyBits

-----------------------------------------------------------------------------
(* Messages are sent.                                                       *)

\* The result of a message that was just sent
NewResult(s, m) ==
  [NoResult EXCEPT !.live = TRUE, !.sender = s.attr[m].from, !.receiver = s.attr[m].to,
                   !.msg = TRUE, !.timeout = s.attr[m].timed,
                   !.callback = Kind(s, m) = "callback", !.hardware = Kind(s, m) = "hook"]
\* Its sender waits for it.
Awaited(s, m) == Kind(s, m) \in {"send", "hook"} /\ s.attr[m].from # NoThread

\* What is done before it is queued
Allocated(s, m) ==
  LET t == s.attr[m].from
  IN CASE Kind(s, m) = "notify" -> s
       [] Kind(s, m) = "callback" ->
            [s EXCEPT !.res[m] = NewResult(s, m), !.callback_result[t] = <<m>> \o @]
       [] OTHER ->
            IF t = NoThread THEN [s EXCEPT !.res[m] = NewResult(s, m)]
            ELSE ClearBits([s EXCEPT !.res[m] = NewResult(s, m), !.send_result[t] = <<m>> \o @],
                           t, "SMRESULT")

\* What is known of the attributes of a message
LEMMA Attributes ==
  ASSUME NEW s \in Server, NEW m \in Messages
  PROVE  /\ Kind(s, m) \in {"send", "notify", "callback", "hook"}
         /\ s.attr[m].from \in Somebody /\ s.attr[m].to \in Threads
         /\ s.attr[m].timed \in BOOLEAN
         /\ s.attr[m].from = NoThread => Kind(s, m) = "hook"
<1>1. s.attr \in Attrs
  BY ServerFields
<1>2. s.attr[m] \in [kind : {"send", "notify", "callback", "hook"},
                     from : Threads \union {NoThread}, to : Threads,
                     timed : BOOLEAN, block : BOOLEAN, win : BOOLEAN]
  BY <1>1, MessageAssumption
<1>3. s.attr[m].from = NoThread => s.attr[m].kind = "hook"
  BY <1>1, MessageAssumption
<1> QED
  BY <1>2, <1>3 DEF Kind, Somebody

\* The new result is one.
LEMMA NewResultType ==
  ASSUME NEW s \in Server, NEW m \in Messages, NEW R, R = NewResult(s, m)
  PROVE  /\ R \in Results /\ R.live = TRUE /\ R.sender = s.attr[m].from
         /\ R.receiver = s.attr[m].to /\ R.msg = TRUE /\ R.replied = FALSE
         /\ R.callback = (Kind(s, m) = "callback") /\ R.hardware = (Kind(s, m) = "hook")
BY Attributes DEF NewResult, NoResult, Results, Somebody, Answers

\* What the new result holds, of a message sent by t to u.
IsNew(s, m, R, t, u) ==
  /\ R.live /\ R.sender = t /\ R.receiver = u /\ R.msg /\ ~R.replied
  /\ R.callback <=> Kind(s, m) = "callback"
  /\ R.hardware <=> Kind(s, m) = "hook"

\* That is so.
LEMMA NewResultIsNew ==
  ASSUME NEW s \in Server, NEW m \in Messages
  PROVE  IsNew(s, m, NewResult(s, m), s.attr[m].from, s.attr[m].to)
BY NewResultType DEF IsNew

\* The fields of the state before the message is queued
AllocatedIs(s, x, m) ==
  LET t == s.attr[m].from
  IN /\ x \in Server /\ x.list = s.list /\ x.recv_result = s.recv_result
     /\ x.attr = s.attr /\ x.input = s.input
     /\ x.res = IF Kind(s, m) = "notify" THEN s.res
                ELSE [s.res EXCEPT ![m] = NewResult(s, m)]
     /\ x.send_result = IF Awaited(s, m) THEN [s.send_result EXCEPT ![t] = <<m>> \o @]
                        ELSE s.send_result
     /\ x.callback_result = IF Kind(s, m) = "callback"
                            THEN [s.callback_result EXCEPT ![t] = <<m>> \o @]
                            ELSE s.callback_result
     /\ x.bits = IF Awaited(s, m) THEN [s.bits EXCEPT ![t] = @ \ {"SMRESULT"}] ELSE s.bits

\* They are these.
LEMMA AllocatedFields ==
  ASSUME NEW s \in Server, NEW m \in Messages, NEW x, x = Allocated(s, m)
  PROVE  AllocatedIs(s, x, m)
<1>1. PICK t \in Somebody : t = s.attr[m].from
  BY Attributes
<1>2. PICK R \in Results : R = NewResult(s, m)
  BY NewResultType
<1>3. PICK Rs \in [Messages -> Results] : Rs = [s.res EXCEPT ![m] = R]
  BY ServerFields
<1>4. DOMAIN s = {"list", "send_result", "callback_result", "recv_result", "bits", "mask",
                  "res", "input", "attr"}
  BY ServerFields
<1>5. CASE Kind(s, m) = "notify"
  BY <1>1, <1>5 DEF Allocated, Awaited, AllocatedIs
<1>6. CASE Kind(s, m) = "callback"
  <2>1. t \in Threads
    BY <1>1, <1>6, Attributes DEF Somebody
  <2>2. PICK Q \in [Threads -> Seq(Messages)] : Q = [s.callback_result EXCEPT ![t] = <<m>> \o @]
    <3>1. s.callback_result \in [Threads -> Seq(Messages)]
      BY ServerFields
    <3>2. <<m>> \o s.callback_result[t] \in Seq(Messages)
      BY <2>1, <3>1, Pushed
    <3> QED
      BY <2>1, <3>1, <3>2
  <2>3. x = [s EXCEPT !.res = Rs, !.callback_result = Q]
    <3>1. x = [s EXCEPT !.res[m] = R, !.callback_result[t] = <<m>> \o @]
      BY <1>1, <1>2, <1>6 DEF Allocated
    <3> QED
      BY <1>3, <1>4, <2>2, <3>1
  <2>4. x \in Server
    BY <1>3, <2>2, <2>3, ServerFields DEF Server
  <2>5. ~Awaited(s, m)
    BY <1>6 DEF Awaited
  <2> QED
    BY <1>1, <1>2, <1>3, <1>4, <1>6, <2>2, <2>3, <2>4, <2>5 DEF AllocatedIs
<1>7. CASE Kind(s, m) \in {"send", "hook"} /\ t = NoThread
  <2>1. x = [s EXCEPT !.res = Rs]
    <3>1. x = [s EXCEPT !.res[m] = R]
      BY <1>1, <1>2, <1>7 DEF Allocated
    <3> QED
      BY <1>3, <1>4, <3>1
  <2>2. x \in Server
    BY <1>3, <2>1, ServerFields DEF Server
  <2>3. ~Awaited(s, m)
    BY <1>1, <1>7 DEF Awaited
  <2> QED
    BY <1>1, <1>2, <1>3, <1>4, <1>7, <2>1, <2>2, <2>3 DEF AllocatedIs
<1>8. CASE Kind(s, m) \in {"send", "hook"} /\ t # NoThread
  <2>1. t \in Threads /\ Awaited(s, m)
    BY <1>1, <1>8 DEF Somebody, Awaited
  <2>2. PICK Q \in [Threads -> Seq(Messages)] : Q = [s.send_result EXCEPT ![t] = <<m>> \o @]
    <3>1. s.send_result \in [Threads -> Seq(Messages)]
      BY ServerFields
    <3>2. <<m>> \o s.send_result[t] \in Seq(Messages)
      BY <2>1, <3>1, Pushed
    <3> QED
      BY <2>1, <3>1, <3>2
  <2>3. PICK Bs \in [Threads -> SUBSET Bits] : Bs = [s.bits EXCEPT ![t] = @ \ {"SMRESULT"}]
    <3>1. s.bits \in [Threads -> SUBSET Bits]
      BY ServerFields
    <3>2. s.bits[t] \ {"SMRESULT"} \in SUBSET Bits
      BY <2>1, <3>1
    <3> QED
      BY <2>1, <3>1, <3>2
  <2>4. PICK y : y = [s EXCEPT !.res = Rs, !.send_result = Q]
    OBVIOUS
  <2>5. x = ClearBits(y, t, "SMRESULT")
    <3>1. x = ClearBits([s EXCEPT !.res[m] = R, !.send_result[t] = <<m>> \o @], t, "SMRESULT")
      BY <1>1, <1>2, <1>8 DEF Allocated
    <3>2. y = [s EXCEPT !.res[m] = R, !.send_result[t] = <<m>> \o @]
      BY <1>3, <1>4, <2>2, <2>4
    <3> QED
      BY <3>1, <3>2
  <2>6. y.bits = s.bits /\ DOMAIN y = DOMAIN s
    BY <1>4, <2>4
  <2>7. x = [s EXCEPT !.res = Rs, !.send_result = Q, !.bits = Bs]
    BY <1>4, <2>3, <2>4, <2>5, <2>6 DEF ClearBits
  <2>8. x \in Server
    BY <1>3, <2>2, <2>3, <2>7, ServerFields DEF Server
  <2> QED
    BY <1>1, <1>2, <1>3, <1>4, <1>8, <2>1, <2>2, <2>3, <2>7, <2>8 DEF AllocatedIs
<1> QED
  BY <1>1, <1>5, <1>6, <1>7, <1>8, Attributes

\* What sending m does to the others
Sent(s, x, m) ==
  /\ x.recv_result = s.recv_result /\ x.attr = s.attr
  /\ x.send_result = IF Awaited(s, m)
                     THEN [s.send_result EXCEPT ![s.attr[m].from] = <<m>> \o @] ELSE s.send_result
  /\ \A u \in Threads : /\ Shown(s, u) => Shown(x, u)
                        /\ u # s.attr[m].from => ("SMRESULT" \in s.bits[u] => "SMRESULT" \in x.bits[u])
  /\ \A n \in Messages : s.res[n].replied => x.res[n].replied /\ x.res[n].answer = s.res[n].answer

\* send_message keeps the agreement.
LEMMA QueuedInv ==
  ASSUME NEW s, NEW U, ServerInv(s, U), NEW m \in Messages, m \notin U, NEW V, V = U \union {m},
         NEW x, x = Queued(s, m)
  PROVE  ServerInv(x, V) /\ Sent(s, x, m)
<1>1. s \in Server /\ Lists(s) /\ Links(s, U) /\ \A n \in Messages : Lives(s, n)
  BY DEF ServerInv, Links
<1>2. PICK t \in Somebody : t = s.attr[m].from
  BY <1>1, Attributes
<1>3. PICK to \in Threads : to = s.attr[m].to
  BY <1>1, Attributes
<1>4. PICK out : out = Allocated(s, m)
  OBVIOUS
<1>5. /\ out \in Server /\ out.list = s.list /\ out.recv_result = s.recv_result
      /\ out.attr = s.attr /\ out.input = s.input
      /\ out.res = IF Kind(s, m) = "notify" THEN s.res ELSE [s.res EXCEPT ![m] = NewResult(s, m)]
      /\ out.send_result = IF Awaited(s, m) THEN [s.send_result EXCEPT ![t] = <<m>> \o @]
                           ELSE s.send_result
      /\ out.callback_result = IF Kind(s, m) = "callback"
                               THEN [s.callback_result EXCEPT ![t] = <<m>> \o @]
                               ELSE s.callback_result
      /\ out.bits = IF Awaited(s, m) THEN [s.bits EXCEPT ![t] = @ \ {"SMRESULT"}] ELSE s.bits
  <2>1. AllocatedIs(s, out, m)
    BY <1>1, <1>4, AllocatedFields
  <2> QED
    BY <1>2, <2>1 DEF AllocatedIs
<1>6. PICK e \in Entries : e = Entry("message", m)
  BY Entries2
<1>7. PICK i \in {"none", "held", "queued", "rejected", "lost"} :
        i = IF Kind(s, m) = "hook" THEN "held" ELSE s.input[m]
  BY <1>1, ServerFields
<1>8. PICK L \in [Threads -> Seq(Entries)] : L = [s.list EXCEPT ![to] = Append(@, e)]
  <2>1. s.list \in [Threads -> Seq(Entries)]
    BY <1>1, ServerFields
  <2>2. Append(s.list[to], e) \in Seq(Entries)
    BY <2>1, AppendDistinct
  <2> QED
    BY <2>1, <2>2
<1>9. PICK I \in [Messages -> {"none", "held", "queued", "rejected", "lost"}] :
        I = [s.input EXCEPT ![m] = i]
  BY <1>1, ServerFields
<1>10. PICK Bs \in [Threads -> SUBSET Bits] : Bs = [out.bits EXCEPT ![to] = @ \union {"SENDMESSAGE"}]
  <2>1. out.bits \in [Threads -> SUBSET Bits]
    BY <1>5, ServerFields
  <2>2. out.bits[to] \union {"SENDMESSAGE"} \in SUBSET Bits
    BY <2>1 DEF Bits
  <2> QED
    BY <2>1, <2>2
<1>11. x = [out EXCEPT !.list = L, !.input = I, !.bits = Bs]
  <2>1. x = SetBits([out EXCEPT !.list[to] = Append(@, Entry("message", m)),
                                !.input[m] = IF Kind(s, m) = "hook" THEN "held" ELSE @],
                    to, "SENDMESSAGE")
    <3>1. x = SetBits([Allocated(s, m) EXCEPT
                         !.list[s.attr[m].to] = Append(@, Entry("message", m)),
                         !.input[m] = IF Kind(s, m) = "hook" THEN "held" ELSE @],
                      s.attr[m].to, "SENDMESSAGE")
      BY DEF Queued, Allocated, NewResult
    <3> QED
      BY <1>3, <1>4, <3>1, Zenon
  <2>2. DOMAIN out = {"list", "send_result", "callback_result", "recv_result", "bits", "mask",
                      "res", "input", "attr"}
    BY <1>5, ServerFields
  <2>3. PICK y : y = [out EXCEPT !.list = L, !.input = I]
    OBVIOUS
  <2>4. y = [out EXCEPT !.list[to] = Append(@, Entry("message", m)),
                        !.input[m] = IF Kind(s, m) = "hook" THEN "held" ELSE @]
    <3>1. /\ L = [out.list EXCEPT ![to] = Append(@, Entry("message", m))]
          /\ I = [out.input EXCEPT ![m] = IF Kind(s, m) = "hook" THEN "held" ELSE @]
      BY <1>5, <1>6, <1>7, <1>8, <1>9
    <3> QED
      BY <2>2, <2>3, <3>1
  <2>5. y.bits = out.bits /\ DOMAIN y = DOMAIN out
    BY <2>2, <2>3
  <2> QED
    BY <1>10, <2>1, <2>2, <2>3, <2>4, <2>5 DEF SetBits
<1>12. /\ x.list = L /\ x.input = I /\ x.bits = Bs /\ x.recv_result = s.recv_result
       /\ x.attr = s.attr /\ x.res = out.res /\ x.send_result = out.send_result
       /\ x.callback_result = out.callback_result
  BY <1>5, <1>11, ServerFields
<1>13. x \in Server
  BY <1>5, <1>8, <1>9, <1>10, <1>11, ServerFields DEF Server
<1>14. Linked(s, U, m) /\ Unsent(s, m) /\ s.res[m] = NoResult /\ s.input[m] = "none"
  BY <1>1 DEF Links, Linked, Unsent
<1>15. \A u \in Threads : /\ m \notin ToSet(s.send_result[u]) /\ m \notin ToSet(s.callback_result[u])
                          /\ m \notin ToSet(s.recv_result[u])
                          /\ \A type : Entry(type, m) \notin ToSet(s.list[u])
  BY <1>14, MessageAssumption DEF Linked, SentLink, ReceivedLink, Unsent, NoResult
<1>16. PICK R \in Results : R = IF Kind(s, m) = "notify" THEN NoResult ELSE NewResult(s, m)
  BY <1>1, NewResultType, FreedTypes
<1>17. /\ R.replied = FALSE
       /\ Kind(s, m) # "notify" =>
            /\ R.live /\ R.sender = t /\ R.receiver = to /\ R.msg
            /\ R.callback <=> Kind(s, m) = "callback"
            /\ R.hardware <=> Kind(s, m) = "hook"
  <2>1. CASE Kind(s, m) = "notify"
    <3>1. NoResult.replied = FALSE
      BY DEF NoResult
    <3> QED
      BY <1>16, <2>1, <3>1
  <2>2. CASE Kind(s, m) # "notify"
    <3>1. R = NewResult(s, m)
      BY <1>16, <2>2
    <3>2. IsNew(s, m, R, s.attr[m].from, s.attr[m].to)
      BY <1>1, <3>1, NewResultIsNew
    <3> QED
      BY <1>1, <1>2, <1>3, <3>2 DEF IsNew
  <2> QED
    BY <2>1, <2>2
<1>18. x.res[m] = R /\ \A n \in Messages \ {m} : x.res[n] = s.res[n]
  <2>1. s.res \in [Messages -> Results]
    BY <1>1, ServerFields
  <2> QED
    BY <1>5, <1>12, <1>14, <1>16, <2>1
<1>19. /\ x.input[m] = IF Kind(s, m) = "hook" THEN "held" ELSE "none"
       /\ \A n \in Messages \ {m} : x.input[n] = s.input[n]
  BY <1>1, <1>7, <1>9, <1>12, <1>14, ServerFields
<1>20. \A u \in Threads :
         /\ Distinct(x.send_result[u])
         /\ ToSet(x.send_result[u]) = ToSet(s.send_result[u])
                                      \union IF Awaited(s, m) /\ u = t THEN {m} ELSE {}
         /\ Awaited(s, m) /\ u = t => x.send_result[u] # <<>> /\ Head(x.send_result[u]) = m
         /\ ~(Awaited(s, m) /\ u = t) => x.send_result[u] = s.send_result[u]
  <2> SUFFICES ASSUME NEW u \in Threads
               PROVE  /\ Distinct(x.send_result[u])
                      /\ ToSet(x.send_result[u]) = ToSet(s.send_result[u])
                                                   \union IF Awaited(s, m) /\ u = t THEN {m} ELSE {}
                      /\ Awaited(s, m) /\ u = t => x.send_result[u] # <<>> /\ Head(x.send_result[u]) = m
                      /\ ~(Awaited(s, m) /\ u = t) => x.send_result[u] = s.send_result[u]
    OBVIOUS
  <2>1. PICK q \in Seq(Messages) : q = s.send_result[u] /\ Distinct(q) /\ m \notin ToSet(q)
    BY <1>1, <1>15, ServerFields DEF Lists
  <2>2. s.send_result \in [Threads -> Seq(Messages)]
    BY <1>1, ServerFields
  <2>3. CASE Awaited(s, m) /\ u = t
    <3>1. x.send_result[u] = <<m>> \o q
      BY <1>5, <1>12, <2>1, <2>2, <2>3
    <3> QED
      BY <2>1, <2>3, <3>1, Pushed
  <2>4. CASE ~(Awaited(s, m) /\ u = t)
    <3>1. x.send_result[u] = q
      BY <1>5, <1>12, <2>1, <2>2, <2>4
    <3> QED
      BY <2>1, <2>4, <3>1
  <2> QED
    BY <2>3, <2>4
<1>21. \A u \in Threads :
         /\ Distinct(x.callback_result[u])
         /\ ToSet(x.callback_result[u]) = ToSet(s.callback_result[u])
                                      \union IF Kind(s, m) = "callback" /\ u = t THEN {m} ELSE {}
  <2> SUFFICES ASSUME NEW u \in Threads
               PROVE  /\ Distinct(x.callback_result[u])
                      /\ ToSet(x.callback_result[u]) =
                           ToSet(s.callback_result[u])
                             \union IF Kind(s, m) = "callback" /\ u = t THEN {m} ELSE {}
    OBVIOUS
  <2>1. PICK q \in Seq(Messages) : q = s.callback_result[u] /\ Distinct(q) /\ m \notin ToSet(q)
    BY <1>1, <1>15, ServerFields DEF Lists
  <2>2. s.callback_result \in [Threads -> Seq(Messages)]
    BY <1>1, ServerFields
  <2>3. CASE Kind(s, m) = "callback" /\ u = t
    <3>1. x.callback_result[u] = <<m>> \o q
      BY <1>5, <1>12, <2>1, <2>2, <2>3
    <3> QED
      BY <2>1, <2>3, <3>1, Pushed
  <2>4. CASE ~(Kind(s, m) = "callback" /\ u = t)
    <3>1. x.callback_result[u] = q
      BY <1>5, <1>12, <2>1, <2>2, <2>4
    <3> QED
      BY <2>1, <2>4, <3>1
  <2> QED
    BY <2>3, <2>4
<1>22. /\ Distinct(x.list[to]) /\ ToSet(x.list[to]) = ToSet(s.list[to]) \union {e}
       /\ x.list[to] # <<>> /\ \A u \in Threads \ {to} : x.list[u] = s.list[u]
  <2>1. PICK q \in Seq(Entries) : q = s.list[to] /\ Distinct(q) /\ e \notin ToSet(q)
    BY <1>1, <1>6, <1>15, ServerFields DEF Lists
  <2>2. Distinct(Append(q, e)) /\ ToSet(Append(q, e)) = ToSet(q) \union {e}
    BY <2>1, AppendDistinct
  <2>4. Append(q, e) # <<>>
    <3>1. e \in ToSet(Append(q, e)) /\ ToSet(<<>>) = {}
      BY <2>2, ToSetShort
    <3> QED
      BY <3>1
  <2>3. x.list[to] = Append(q, e) /\ \A u \in Threads \ {to} : x.list[u] = s.list[u]
    BY <1>1, <1>8, <1>12, <2>1, ServerFields
  <2> QED
    BY <2>1, <2>2, <2>3, <2>4
<1>23. Same(s, x, m)
  <2>1. Lists(x)
    BY <1>1, <1>12, <1>20, <1>21, <1>22 DEF Lists
  <2>2. \A n \in Messages \ {m} : \A type : Entry(type, n) # e
    BY <1>6, Entries2
  <2>3. \A n \in Messages \ {m} : \A u \in Threads : \A type :
          Entry(type, n) \in ToSet(x.list[u]) <=> Entry(type, n) \in ToSet(s.list[u])
    BY <1>22, <2>2
  <2>4. \A n \in Messages \ {m} : \A u \in Threads :
          /\ n \in ToSet(x.send_result[u]) <=> n \in ToSet(s.send_result[u])
          /\ n \in ToSet(x.callback_result[u]) <=> n \in ToSet(s.callback_result[u])
    BY <1>20, <1>21
  <2> QED
    BY <1>12, <1>13, <1>18, <1>19, <2>1, <2>3, <2>4 DEF Same
<1>24. Kind(x, m) = Kind(s, m) /\ Kind(s, m) \in {"send", "notify", "callback", "hook"}
       /\ (t = NoThread => Kind(s, m) = "hook")
  BY <1>1, <1>2, <1>12, Attributes DEF Kind
<1>25. SentLink(x, m)
  <2>1. CASE Kind(s, m) = "notify"
    BY <1>15, <1>16, <1>18, <1>20, <1>21, <1>24, <2>1, MessageAssumption
       DEF SentLink, NoResult, Awaited
  <2>2. CASE Kind(s, m) = "callback"
    <3>1. ~Awaited(s, m) /\ R.sender = t /\ R.callback
      BY <1>17, <2>2 DEF Awaited
    <3>2. \A u \in Threads : /\ m \notin ToSet(x.send_result[u])
                             /\ m \in ToSet(x.callback_result[u]) <=> u = t
      BY <1>15, <1>20, <1>21, <2>2, <3>1, ZenonT(30)
    <3> QED
      BY <1>18, <1>24, <2>2, <3>1, <3>2 DEF SentLink
  <2>3. CASE Kind(s, m) \in {"send", "hook"}
    <3>1. Kind(s, m) # "callback" /\ R.sender = t /\ ~R.callback
      BY <1>17, <2>3
    <3>2. \A u \in Threads : u = t => Awaited(s, m)
      BY <1>2, <2>3, MessageAssumption DEF Awaited
    <3>3. \A u \in Threads : /\ m \in ToSet(x.send_result[u]) <=> u = t
                             /\ m \notin ToSet(x.callback_result[u])
      BY <1>15, <1>20, <1>21, <3>1, <3>2, ZenonT(30)
    <3> QED
      BY <1>18, <1>24, <3>1, <3>3 DEF SentLink
  <2> QED
    BY <1>24, <2>1, <2>2, <2>3
<1>26. ReceivedLink(x, m)
  <2>1. \A u \in Threads : Entry("message", m) \in ToSet(x.list[u]) <=> u = to
    BY <1>6, <1>15, <1>22
  <2>2. \A u \in Threads : Entry("result", m) \notin ToSet(x.list[u])
    <3>1. Entry("result", m) # e
      BY <1>6, Entries2
    <3> QED
      BY <1>15, <1>22, <3>1
  <2>3. \A u \in Threads : m \notin ToSet(x.recv_result[u])
    BY <1>12, <1>15
  <2>4. CASE Kind(s, m) = "notify"
    BY <1>3, <1>12, <1>16, <1>18, <1>24, <2>1, <2>2, <2>3, <2>4, MessageAssumption
       DEF ReceivedLink, NoResult
  <2>5. CASE Kind(s, m) # "notify"
    BY <1>3, <1>12, <1>17, <1>18, <1>24, <2>1, <2>2, <2>3, <2>5 DEF ReceivedLink
  <2> QED
    BY <2>4, <2>5
<1>27. Linked(x, V, m)
  BY <1>16, <1>18, <1>24, <1>25, <1>26 DEF Linked
<1>28. Lives(x, m)
  <2>1. CASE Kind(s, m) = "notify"
    BY <1>16, <1>18, <1>19, <2>1 DEF Lives, Held, NoResult
  <2>2. CASE Kind(s, m) # "notify"
    <3>1. R.live /\ ~R.replied /\ R.receiver # NoThread
      BY <1>17, <2>2, MessageAssumption
    <3>2. Held(x, m)
      BY <1>17, <1>18, <1>19, <2>2 DEF Held
    <3> QED
      BY <1>18, <3>1, <3>2 DEF Lives
  <2> QED
    BY <2>1, <2>2
<1>29. Links(s, V)
  BY <1>1 DEF Links
<1>30. ServerInv(x, V)
  BY <1>1, <1>23, <1>27, <1>28, <1>29, Joined
<1>31. ASSUME NEW u \in Threads
       PROVE  /\ "SENDMESSAGE" \in x.bits[u] <=> u = to \/ "SENDMESSAGE" \in s.bits[u]
              /\ "SMRESULT" \in x.bits[u] <=> "SMRESULT" \in s.bits[u] /\ ~(Awaited(s, m) /\ u = t)
  <2>1. s.bits \in [Threads -> SUBSET Bits] /\ out.bits \in [Threads -> SUBSET Bits]
    BY <1>1, <1>5, ServerFields
  <2>2. out.bits[u] = IF Awaited(s, m) /\ u = t THEN s.bits[u] \ {"SMRESULT"} ELSE s.bits[u]
    BY <1>5, <2>1
  <2>3. x.bits[u] = IF u = to THEN out.bits[u] \union {"SENDMESSAGE"} ELSE out.bits[u]
    BY <1>10, <1>12, <2>1
  <2> QED
    BY <2>2, <2>3
<1>32. ASSUME NEW u \in Threads, Shown(s, u)
       PROVE  Shown(x, u)
  <2>1. "SENDMESSAGE" \in x.bits[u] <=> x.list[u] # <<>>
    BY <1>22, <1>31, <1>32 DEF Shown
  <2>2. CASE Awaited(s, m) /\ u = t
    BY <1>17, <1>18, <1>20, <1>31, <2>1, <2>2 DEF Shown
  <2>3. CASE ~(Awaited(s, m) /\ u = t)
    <3>1. s.send_result[u] # <<>> => Head(s.send_result[u]) \in Messages \ {m}
      BY <1>1, <1>15, ServerFields, ToSetTail
    <3> QED
      BY <1>18, <1>20, <1>31, <1>32, <2>1, <2>3, <3>1 DEF Shown
  <2> QED
    BY <2>2, <2>3
<1>33. \A n \in Messages : s.res[n].replied => x.res[n].replied /\ x.res[n].answer = s.res[n].answer
  <2>1. ~s.res[m].replied
    BY <1>14 DEF NoResult
  <2> QED
    BY <1>18, <2>1
<1> QED
  BY <1>2, <1>5, <1>12, <1>30, <1>31, <1>32, <1>33 DEF Sent

-----------------------------------------------------------------------------
(* The loops over the lists of a queue.                                     *)

\* What goes on in the queue of t leaves this of the others alone.
Away(s, x, t) ==
  /\ x.attr = s.attr
  /\ \A u \in Threads \ {t} :
       /\ x.send_result[u] = s.send_result[u] /\ x.recv_result[u] = s.recv_result[u]
       /\ Shown(s, u) => Shown(x, u)
       /\ "SMRESULT" \in s.bits[u] => "SMRESULT" \in x.bits[u]
  /\ \A n \in Messages : s.res[n].replied => x.res[n].replied /\ x.res[n].answer = s.res[n].answer

\* One thing after another does.
LEMMA AwayStep ==
  ASSUME NEW s, NEW y, NEW x, NEW t, Away(s, y, t), Away(y, x, t)
  PROVE  Away(s, x, t)
BY DEF Away

\* The same of what is quiet.
LEMMA QuietStep ==
  /\ \A s, y, x : Quiet(s, y) /\ Quiet(y, x) => Quiet(s, x)
  /\ \A s : Quiet(s, s)
BY DEF Quiet

\* A list without members is empty.
LEMMA NoMembers ==
  ASSUME NEW S, NEW q \in Seq(S), ToSet(q) = {}
  PROVE  q = <<>>
BY ToSetTail

\* A list with the first n of q off it, or more
FirstOff(q, n) == ToSet(q) \ {q[i] : i \in 1..n}

\* The last one leaves nothing; the next one is still on it.
LEMMA FirstsOff ==
  ASSUME NEW S, NEW q \in Seq(S), Distinct(q)
  PROVE  /\ FirstOff(q, 0) = ToSet(q) /\ FirstOff(q, Len(q)) = {}
         /\ \A n \in 1..Len(q) : /\ q[n] \in FirstOff(q, n - 1) /\ q[n] \in S
                                 /\ FirstOff(q, n) = FirstOff(q, n - 1) \ {q[n]}
<1>1. Len(q) \in Nat /\ ToSet(q) = {q[i] : i \in 1..Len(q)}
  BY ToSetMembers
<1>2. FirstOff(q, 0) = ToSet(q) /\ FirstOff(q, Len(q)) = {}
  BY <1>1 DEF FirstOff
<1>3. ASSUME NEW n \in 1..Len(q)
      PROVE  /\ q[n] \in FirstOff(q, n - 1) /\ q[n] \in S
             /\ FirstOff(q, n) = FirstOff(q, n - 1) \ {q[n]}
  <2>1. \A i \in 1..(n - 1) : i \in 1..Len(q) /\ i # n
    BY <1>1
  <2>2. \A i \in 1..(n - 1) : q[i] # q[n]
    BY <2>1 DEF Distinct
  <2>3. q[n] \in FirstOff(q, n - 1) /\ q[n] \in S
    BY <1>1, <2>2 DEF FirstOff
  <2>4. \A i : i \in 1..n <=> i = n \/ i \in 1..(n - 1)
    BY <1>1
  <2>5. FirstOff(q, n) = FirstOff(q, n - 1) \ {q[n]}
    BY <2>4 DEF FirstOff
  <2> QED
    BY <2>3, <2>5
<1> QED
  BY <1>2, <1>3

\* After n of the results q of t have lost their sender
SentOff(s, U, x, t, q, n) ==
  /\ ServerInv(x, U) /\ Away(s, x, t)
  /\ FirstOff(q, n) \subseteq ToSet(x.send_result[t]) \union ToSet(x.callback_result[t])
  /\ ToSet(x.send_result[t]) \subseteq ToSet(s.send_result[t])
  /\ ToSet(x.callback_result[t]) \subseteq ToSet(s.callback_result[t])
  /\ \A i \in 1..n : /\ q[i] \notin ToSet(x.send_result[t])
                     /\ q[i] \notin ToSet(x.callback_result[t])

\* The first loops of cleanup_results.
LEMMA SentLoop ==
  ASSUME NEW s, NEW U, ServerInv(s, U), NEW t \in Threads, NEW q \in Seq(Messages), Distinct(q),
         ToSet(q) \subseteq ToSet(s.send_result[t]) \union ToSet(s.callback_result[t]),
         NEW x, x = Each("sent", s, t, q)
  PROVE  SentOff(s, U, x, t, q, Len(q))
<1>1. PICK g : /\ g[0] = s /\ \A n \in 1..Len(q) : g[n] = Cleanup("sent", g[n - 1], t, q[n])
               /\ x = g[Len(q)]
  BY EachRuns
<1> DEFINE P == {n \in 0..Len(q) : SentOff(s, U, g[n], t, q, n)}
<1>2. Len(q) \in Nat
  OBVIOUS
<1>3. 0 \in P
  <2>1. SentOff(s, U, s, t, q, 0)
    BY FirstsOff DEF SentOff, Away
  <2> QED
    BY <1>1, <1>2, <2>1
<1>4. ASSUME NEW n \in 1..Len(q), n - 1 \in P
      PROVE  n \in P
  <2>1. PICK m \in Messages : m = q[n]
    BY FirstsOff
  <2>2. PICK y : y = g[n - 1] /\ SentOff(s, U, y, t, q, n - 1)
    BY <1>4
  <2>3. PICK z : z = g[n] /\ z = RemoveFromSender(y, m)
    BY <1>1, <2>1, <2>2 DEF Cleanup
  <2>4. m \in ToSet(y.send_result[t]) \union ToSet(y.callback_result[t])
    BY <2>1, <2>2, FirstsOff DEF SentOff
  <2>5. ServerInv(y, U) /\ y.res[m].sender = t
    BY <2>2, <2>4 DEF SentOff, ServerInv, Links, SentLink
  <2>6. ServerInv(z, U) /\ Removed(y, z, m, t) /\ Parted(y, z, t)
    BY <2>3, <2>5, RemoveInv
  <2>7. y \in Server /\ Lists(y)
    BY <2>5 DEF ServerInv, Links
  <2>8. PICK a \in Seq(Messages), b \in Seq(Messages) :
          a = y.send_result[t] /\ b = y.callback_result[t] /\ Distinct(a) /\ Distinct(b)
    BY <2>7, ServerFields DEF Lists
  <2>9. /\ z.send_result[t] = RemoveFirst(a, m) /\ z.callback_result[t] = RemoveFirst(b, m)
        /\ \A u \in Threads \ {t} : z.send_result[u] = y.send_result[u]
        /\ z.recv_result = y.recv_result /\ z.bits = y.bits /\ z.attr = y.attr
    BY <2>6, <2>7, <2>8, ServerFields DEF Removed
  <2>10. ToSet(z.send_result[t]) = ToSet(a) \ {m} /\ ToSet(z.callback_result[t]) = ToSet(b) \ {m}
    BY <2>8, <2>9, RemoveFirstDistinct
  <2>11. Away(y, z, t)
    BY <2>6, <2>9 DEF Away, Parted
  <2>12. Away(s, z, t)
    BY <2>2, <2>11, AwayStep DEF SentOff
  <2>13. FirstOff(q, n) \subseteq ToSet(z.send_result[t]) \union ToSet(z.callback_result[t])
    BY <2>1, <2>2, <2>8, <2>10, FirstsOff DEF SentOff
  <2>14. \A i \in 1..n : /\ q[i] \notin ToSet(z.send_result[t])
                         /\ q[i] \notin ToSet(z.callback_result[t])
    <3>1. \A i \in 1..n : i = n \/ i \in 1..(n - 1)
      BY <1>2
    <3> QED
      BY <2>1, <2>2, <2>8, <2>10, <3>1 DEF SentOff
  <2>15. SentOff(s, U, z, t, q, n)
    BY <2>2, <2>6, <2>8, <2>10, <2>12, <2>13, <2>14 DEF SentOff
  <2> QED
    BY <1>2, <2>3, <2>15, n \in 0..Len(q)
<1>5. Len(q) \in P
  <2> HIDE DEF P
  <2> QED
    BY <1>2, <1>3, <1>4, UpTo, SMTT(30)
<1> QED
  BY <1>1, <1>5

\* After n of the messages that t had received were answered
ReceivedOff(s, U, x, t, n) ==
  /\ ServerInv(x, U) /\ Away(s, x, t) /\ x.send_result = s.send_result
  /\ s.callback_result[t] = <<>> => x.callback_result[t] = <<>>
  /\ x.recv_result[t] \in Seq(Messages) /\ Len(x.recv_result[t]) = Len(s.recv_result[t]) - n

\* The last loop of cleanup_results.
LEMMA ReceivedLoop ==
  ASSUME NEW s, NEW U, ServerInv(s, U), NEW t \in Threads, NEW q, q = s.recv_result[t],
         NEW x, x = Each("received", s, t, q)
  PROVE  ReceivedOff(s, U, x, t, Len(q))
<1>1. s \in Server /\ q \in Seq(Messages)
  BY ServerFields DEF ServerInv, Links
<1>2. PICK g : /\ g[0] = s /\ \A n \in 1..Len(q) : g[n] = Cleanup("received", g[n - 1], t, q[n])
               /\ x = g[Len(q)]
  BY <1>1, EachRuns
<1> DEFINE P == {n \in 0..Len(q) : ReceivedOff(s, U, g[n], t, n)}
<1>3. Len(q) \in Nat
  BY <1>1
<1>4. 0 \in P
  <2>1. ReceivedOff(s, U, s, t, 0)
    BY <1>1, <1>3 DEF ReceivedOff, Away
  <2> QED
    BY <1>2, <1>3, <2>1
<1>5. ASSUME NEW n \in 1..Len(q), n - 1 \in P
      PROVE  n \in P
  <2>1. PICK y : y = g[n - 1] /\ ReceivedOff(s, U, y, t, n - 1)
    BY <1>5
  <2>2. PICK z : z = g[n] /\ z = Reply(y, t, "denied", TRUE)
    BY <1>2, <2>1 DEF Cleanup
  <2>3. PICK p \in Seq(Messages) : p = y.recv_result[t] /\ Len(p) = Len(q) - (n - 1)
    BY <2>1 DEF ReceivedOff
  <2>4. p # <<>> /\ Len(Tail(p)) = Len(q) - n /\ Tail(p) \in Seq(Messages)
    <3>1. Len(p) # 0
      BY <1>3, <2>3
    <3>2. p # <<>>
      BY <3>1
    <3>3. Len(Tail(p)) = Len(p) - 1 /\ Tail(p) \in Seq(Messages)
      BY <3>2, HeadTailProperties
    <3> QED
      BY <1>3, <2>3, <3>2, <3>3
  <2>5. "denied" \in Answers /\ TRUE \in BOOLEAN /\ ServerInv(y, U) /\ y.recv_result[t] # <<>>
    BY <2>1, <2>3, <2>4 DEF Answers, ReceivedOff
  <2>6. /\ ServerInv(z, U) /\ Answered(y, z)
        /\ z.recv_result = [y.recv_result EXCEPT ![t] = Tail(@)]
    <3>1. ReplyDone(y, U, z, t, TRUE)
      BY <2>2, <2>5, ReplyInv
    <3> QED
      BY <3>1 DEF ReplyDone
  <2>7. y \in Server
    BY <2>5 DEF ServerInv, Links
  <2>8. z.recv_result[t] = Tail(p) /\ \A u \in Threads \ {t} : z.recv_result[u] = y.recv_result[u]
    BY <2>3, <2>6, <2>7, ServerFields
  <2>9. Away(y, z, t) /\ z.send_result = y.send_result
        /\ (y.callback_result[t] = <<>> => z.callback_result[t] = <<>>)
    BY <2>6, <2>8 DEF Away, Answered, Quiet
  <2>10. Away(s, z, t)
    BY <2>1, <2>9, AwayStep DEF ReceivedOff
  <2>11. ReceivedOff(s, U, z, t, n)
    BY <2>1, <2>4, <2>6, <2>8, <2>9, <2>10 DEF ReceivedOff
  <2> QED
    BY <1>3, <2>2, <2>11, n \in 0..Len(q)
<1>6. Len(q) \in P
  <2> HIDE DEF P
  <2> QED
    <3>1. PICK N \in Nat : N = Len(q)
      BY <1>3
    <3>2. \A n \in 1..N : n - 1 \in P => n \in P
      BY <1>5, <3>1
    <3>3. \A n \in 0..N : n \in P
      BY <1>4, <3>2, UpTo
    <3> QED
      BY <3>1, <3>3
<1> QED
  BY <1>2, <1>6

\* After the first n entries q of the list of t were freed
QueuedOff(s, U, x, t, q, n) ==
  /\ ServerInv(x, U) /\ Away(s, x, t) /\ x.send_result = s.send_result
  /\ x.callback_result[t] = <<>> /\ ToSet(x.list[t]) \subseteq FirstOff(q, n)

\* The loop of empty_msg_list.
LEMMA QueuedLoop ==
  ASSUME NEW s, NEW U, ServerInv(s, U), NEW t \in Threads, s.callback_result[t] = <<>>,
         NEW q, q = s.list[t], NEW x, x = Each("queued", s, t, q)
  PROVE  QueuedOff(s, U, x, t, q, Len(q))
<1>1. s \in Server /\ q \in Seq(Entries) /\ Distinct(q)
  BY ServerFields DEF ServerInv, Links, Lists
<1>2. PICK g : /\ g[0] = s /\ \A n \in 1..Len(q) : g[n] = Cleanup("queued", g[n - 1], t, q[n])
               /\ x = g[Len(q)]
  BY <1>1, EachRuns
<1> DEFINE P == {n \in 0..Len(q) : QueuedOff(s, U, g[n], t, q, n)}
<1>3. Len(q) \in Nat
  BY <1>1
<1>4. 0 \in P
  <2>1. QueuedOff(s, U, s, t, q, 0)
    BY <1>1, <1>3, FirstsOff DEF QueuedOff, Away
  <2> QED
    BY <1>2, <1>3, <2>1
<1>5. ASSUME NEW n \in 1..Len(q), n - 1 \in P
      PROVE  n \in P
  <2>1. PICK y : y = g[n - 1] /\ QueuedOff(s, U, y, t, q, n - 1)
    BY <1>5
  <2>2. PICK e \in Entries : e = q[n] /\ e \in ToSet(q)
    BY <1>1, FirstsOff, ToSetMembers
  <2>3. y \in Server /\ ServerInv(y, U) /\ Lists(y) /\ y.attr = s.attr
    BY <2>1 DEF QueuedOff, ServerInv, Links, Away
  <2>4. PICK l \in Seq(Entries), B \in SUBSET Bits : l = y.list[t] /\ B = y.bits[t] /\ Distinct(l)
    BY <2>3, ServerFields DEF Lists
  <2>5. PICK L \in Seq(Entries) : L = RemoveFirst(l, e)
    BY <2>4, RemoveFirstType
  <2>6. PICK w : w = SetQueue(y, t, L, B)
    OBVIOUS
  <2>7. PICK z : z = g[n] /\ z = FreeMessage(w, e)
    <3>1. g[n] = FreeMessage([y EXCEPT !.list[t] = RemoveFirst(@, e)], e)
      BY <1>2, <2>1, <2>2 DEF Cleanup
    <3>2. [y EXCEPT !.list[t] = RemoveFirst(@, e)] = [y EXCEPT !.list = [y.list EXCEPT ![t] = L]]
      BY <2>3, <2>4, <2>5, ServerFields
    <3>3. w = [y EXCEPT !.list = [y.list EXCEPT ![t] = L], !.bits = [y.bits EXCEPT ![t] = B]]
      BY <2>3, <2>6, ServerFields DEF SetQueue
    <3>4. [y.bits EXCEPT ![t] = B] = y.bits
      BY <2>3, <2>4, ServerFields
    <3>5. PICK Ls : Ls = [y.list EXCEPT ![t] = L]
      OBVIOUS
    <3>6. [y EXCEPT !.list = Ls, !.bits = y.bits] = [y EXCEPT !.list = Ls]
      BY <2>3, ServerFields
    <3> QED
      BY <3>1, <3>2, <3>3, <3>4, <3>5, <3>6
  <2>8. QueueSet(y, w, t, RemoveFirst(y.list[t], e), B)
    BY <2>3, <2>4, <2>5, <2>6, WithQueue
  <2>9. e.type = "message" => y.attr[e.msg].to = t
    <3>1. e.msg \in Messages /\ e = Entry(e.type, e.msg)
      BY Entries2
    <3>2. ReceivedLink(s, e.msg)
      BY <3>1 DEF ServerInv, Links
    <3> QED
      BY <2>2, <2>3, <3>1, <3>2 DEF ReceivedLink
  <2>10. ServerInv(z, U) /\ Settled(w, z)
    BY <2>3, <2>7, <2>8, <2>9, DropInv
  <2>11. /\ w.send_result = y.send_result /\ w.recv_result = y.recv_result /\ w.attr = y.attr
         /\ w.res = y.res /\ w.callback_result = y.callback_result /\ w.list[t] = L
         /\ \A u \in Threads \ {t} : w.list[u] = y.list[u] /\ w.bits[u] = y.bits[u]
    BY <2>3, <2>4, <2>5, <2>8, ServerFields DEF QueueSet
  <2>12. Away(y, w, t)
    BY <2>11 DEF Away, Shown
  <2>13. Away(w, z, t)
    BY <2>10 DEF Away, Settled
  <2>14. Away(s, z, t)
    BY <2>1, <2>12, <2>13, AwayStep DEF QueuedOff
  <2>15. z.callback_result[t] = <<>> /\ z.list[t] = L
    BY <2>1, <2>10, <2>11 DEF QueuedOff, Settled
  <2>16. ToSet(L) = ToSet(l) \ {e}
    BY <2>4, <2>5, RemoveFirstDistinct
  <2>17. ToSet(z.list[t]) \subseteq FirstOff(q, n)
    BY <1>1, <2>1, <2>2, <2>4, <2>15, <2>16, FirstsOff DEF QueuedOff
  <2>18. QueuedOff(s, U, z, t, q, n)
    BY <2>1, <2>10, <2>11, <2>14, <2>15, <2>17 DEF QueuedOff, Settled
  <2> QED
    BY <1>3, <2>7, <2>18, n \in 0..Len(q)
<1>6. Len(q) \in P
  <2> HIDE DEF P
  <2> QED
    <3>1. PICK N \in Nat : N = Len(q)
      BY <1>3
    <3>2. \A n \in 1..N : n - 1 \in P => n \in P
      BY <1>5, <3>1
    <3>3. \A n \in 0..N : n \in P
      BY <1>4, <3>2, UpTo
    <3> QED
      BY <3>1, <3>3
<1> QED
  BY <1>2, <1>6

\* queue_cleanup_window keeps the agreement.
WindowOff(s, U, x) == ServerInv(x, U) /\ Quiet(s, x) /\ x.recv_result = s.recv_result

\* That is so after each message.
LEMMA WindowInv ==
  ASSUME NEW s, NEW U, ServerInv(s, U), NEW t \in Threads, NEW x, x = WindowDestroyed(s, t)
  PROVE  WindowOff(s, U, x)
<1>1. PICK q \in Seq(Entries) : q = s.list[t] /\ Distinct(q) /\ s \in Server
  BY ServerFields DEF ServerInv, Links, Lists
<1>2. PICK g : /\ g[0] = s /\ \A n \in 1..Len(q) : g[n] = Cleanup("window", g[n - 1], t, q[n])
               /\ x = g[Len(q)]
  BY <1>1, EachRuns DEF WindowDestroyed
<1> DEFINE P == {n \in 0..Len(q) : WindowOff(s, U, g[n])}
<1>3. Len(q) \in Nat
  BY <1>1
<1>4. 0 \in P
  <2>1. WindowOff(s, U, s)
    BY QuietStep DEF WindowOff
  <2> QED
    BY <1>2, <1>3, <2>1
<1>5. ASSUME NEW n \in 1..Len(q), n - 1 \in P
      PROVE  n \in P
  <2>1. PICK y : y = g[n - 1] /\ WindowOff(s, U, y)
    BY <1>5
  <2>2. PICK e \in Entries : e = q[n] /\ e \in ToSet(q)
    BY <1>1, FirstsOff, ToSetMembers
  <2>3. PICK z : z = g[n]
    OBVIOUS
  <2>4. z = IF e.type = "message" /\ y.attr[e.msg].win THEN RemoveQueueMessage(y, t, e) ELSE y
    BY <1>2, <2>1, <2>2, <2>3 DEF Cleanup
  <2>5. e.type = "message" => y.attr[e.msg].to = t
    <3>1. e.msg \in Messages /\ e = Entry(e.type, e.msg)
      BY Entries2
    <3>2. ReceivedLink(s, e.msg)
      BY <3>1 DEF ServerInv, Links
    <3>3. y.attr = s.attr
      BY <2>1 DEF WindowOff, Quiet
    <3> QED
      BY <1>1, <2>2, <3>1, <3>2, <3>3 DEF ReceivedLink
  <2>6. WindowOff(s, U, z)
    <3>1. CASE z = y
      BY <2>1, <3>1
    <3>2. CASE z = RemoveQueueMessage(y, t, e)
      <4>1. ServerInv(z, U) /\ Quiet(y, z) /\ z.recv_result = y.recv_result
        BY <2>1, <2>5, <3>2, RemoveQueueInv DEF WindowOff
      <4> QED
        BY <2>1, <4>1, QuietStep DEF WindowOff
    <3> QED
      BY <2>4, <3>1, <3>2
  <2> QED
    BY <1>3, <2>3, <2>6, n \in 0..Len(q)
<1>6. Len(q) \in P
  <2> HIDE DEF P
  <2> QED
    <3>1. PICK N \in Nat : N = Len(q)
      BY <1>3
    <3>2. \A n \in 1..N : n - 1 \in P => n \in P
      BY <1>5, <3>1
    <3>3. \A n \in 0..N : n \in P
      BY <1>4, <3>2, UpTo
    <3> QED
      BY <3>1, <3>3
<1> QED
  BY <1>2, <1>6

\* msg_queue_destroy keeps the agreement, and nothing is left of the queue.
LEMMA DestroyedInv ==
  ASSUME NEW s, NEW U, ServerInv(s, U), NEW t \in Threads, NEW x, x = QueueDestroyed(s, t)
  PROVE  ServerInv(x, U) /\ Away(s, x, t) /\ Shown(x, t)
<1>1. s \in Server /\ Lists(s)
  BY DEF ServerInv, Links
<1>2. PICK q1 \in Seq(Messages) : q1 = s.send_result[t] /\ Distinct(q1)
  BY <1>1, ServerFields DEF Lists
<1>3. PICK s1 : s1 = Each("sent", s, t, q1)
  OBVIOUS
<1>4. SentOff(s, U, s1, t, q1, Len(q1))
  BY <1>2, <1>3, SentLoop
<1>5. s1 \in Server /\ ServerInv(s1, U) /\ Lists(s1)
  BY <1>4 DEF SentOff, ServerInv, Links
<1>6. ToSet(s1.send_result[t]) = {}
  BY <1>2, <1>4, ToSetMembers DEF SentOff
<1>7. PICK q2 \in Seq(Messages) : q2 = s1.callback_result[t] /\ Distinct(q2)
  BY <1>5, ServerFields DEF Lists
<1>8. PICK s2 : s2 = Each("sent", s1, t, q2)
  OBVIOUS
<1>9. SentOff(s1, U, s2, t, q2, Len(q2))
  BY <1>5, <1>7, <1>8, SentLoop
<1>10. s2 \in Server /\ ServerInv(s2, U)
  BY <1>9 DEF SentOff, ServerInv, Links
<1>11. s2.send_result[t] = <<>> /\ s2.callback_result[t] = <<>>
  <2>1. ToSet(s2.send_result[t]) = {} /\ ToSet(s2.callback_result[t]) = {}
    BY <1>6, <1>7, <1>9, ToSetMembers DEF SentOff
  <2>2. s2.send_result[t] \in Seq(Messages) /\ s2.callback_result[t] \in Seq(Messages)
    BY <1>10, ServerFields
  <2> QED
    BY <2>1, <2>2, NoMembers
<1>12. PICK q3 : q3 = s2.recv_result[t]
  OBVIOUS
<1>13. PICK s3 : s3 = Each("received", s2, t, q3)
  OBVIOUS
<1>14. ReceivedOff(s2, U, s3, t, Len(q3))
  BY <1>10, <1>12, <1>13, ReceivedLoop
<1>15. ServerInv(s3, U) /\ s3 \in Server /\ s3.callback_result[t] = <<>> /\ s3.send_result[t] = <<>>
  BY <1>11, <1>14 DEF ReceivedOff, ServerInv, Links
<1>16. PICK q4 \in Seq(Entries) : q4 = s3.list[t] /\ Distinct(q4)
  BY <1>15, ServerFields DEF ServerInv, Links, Lists
<1>17. PICK s4 : s4 = Each("queued", s3, t, q4)
  OBVIOUS
<1>18. QueuedOff(s3, U, s4, t, q4, Len(q4))
  BY <1>15, <1>16, <1>17, QueuedLoop
<1>19. ServerInv(s4, U) /\ s4 \in Server /\ s4.send_result[t] = <<>>
  BY <1>15, <1>18 DEF QueuedOff, ServerInv, Links
<1>20. s4.list[t] = <<>>
  <2>1. s4.list[t] \in Seq(Entries)
    BY <1>19, ServerFields
  <2>2. ToSet(s4.list[t]) = {}
    BY <1>16, <1>18, FirstsOff DEF QueuedOff
  <2> QED
    BY <2>1, <2>2, NoMembers
<1>21. Away(s, s4, t)
  BY <1>4, <1>9, <1>14, <1>18, AwayStep DEF SentOff, ReceivedOff, QueuedOff
<1>22. PICK Bs \in [Threads -> SUBSET Bits], Ms \in [Threads -> SUBSET Bits] :
         Bs = [s4.bits EXCEPT ![t] = {}] /\ Ms = [s4.mask EXCEPT ![t] = {}]
  BY <1>19, ServerFields
<1>23. x = SetMasks(s4, Bs, Ms)
  <2>1. x = [s4 EXCEPT !.bits[t] = {}, !.mask[t] = {}]
    BY <1>2, <1>3, <1>7, <1>8, <1>12, <1>13, <1>16, <1>17 DEF QueueDestroyed
  <2> QED
    BY <1>19, <1>22, <2>1, ServerFields DEF SetMasks
<1>24. OnlyBits(s4, x) /\ x.bits = Bs
  BY <1>19, <1>23, WithBits
<1>25. ServerInv(x, U)
  BY <1>19, <1>24, OnlyBitsInv
<1>26. x.bits[t] = {} /\ \A u \in Threads \ {t} : x.bits[u] = s4.bits[u]
  BY <1>19, <1>22, <1>24, ServerFields
<1>27. Shown(x, t)
  BY <1>19, <1>20, <1>24, <1>26 DEF Shown, OnlyBits
<1>28. Away(s4, x, t)
  BY <1>24, <1>26 DEF Away, OnlyBits, Shown
<1> QED
  BY <1>21, <1>25, <1>27, <1>28, AwayStep

-----------------------------------------------------------------------------
(* The results of a thread are those of its calls, in order.                *)

\* The calls of the results q, one by one
Matches(f, N, q, c, W) ==
  /\ \A i, j \in 1..N : i < j => f[i] < f[j]
  /\ \A k \in W : \E i \in 1..N : f[i] = k
  /\ \A i \in 1..N : c[f[i]].msg = q[i]

\* InStep says that there is such an f.
LEMMA StepBy ==
  ASSUME NEW q, NEW c, NEW W, NEW N, DOMAIN q = 1..N
  PROVE  InStep(q, c, W) <=> \E f \in [1..N -> W] : Matches(f, N, q, c, W)
BY SMTT(30) DEF InStep, Matches

\* A call in A comes with its result.
LEMMA PushStep ==
  ASSUME NEW S, NEW c \in Seq(S), NEW k \in S, NEW M, NEW q \in Seq(M), NEW A,
         k \in A => k.msg \in M, InStep(q, c, Where(c, A)),
         NEW d, d = <<k>> \o c, NEW p, p = IF k \in A THEN <<k.msg>> \o q ELSE q
  PROVE  InStep(p, d, Where(d, A))
<1>1. /\ d \in Seq(S) /\ Len(d) = Len(c) + 1 /\ d[1] = k /\ \A i \in 1..Len(c) : d[i + 1] = c[i]
      /\ Len(c) \in Nat /\ Len(q) \in Nat /\ DOMAIN d = 1..Len(d) /\ DOMAIN c = 1..Len(c)
  BY Pushed
<1>2. /\ \A i \in Where(c, A) : i \in 1..Len(c) /\ i + 1 \in Where(d, A)
      /\ \A i \in Where(d, A) : i \in 1..Len(d)
      /\ \A i \in 1..Len(d) : i \in Where(d, A) /\ i # 1 => i - 1 \in Where(c, A)
      /\ 1 \in Where(d, A) <=> k \in A
  BY <1>1, SMTT(30) DEF Where
<1>3. PICK f \in [1..Len(q) -> Where(c, A)] :
        /\ \A i, j \in 1..Len(q) : i < j => f[i] < f[j]
        /\ \A n \in Where(c, A) : \E i \in 1..Len(q) : f[i] = n
        /\ \A i \in 1..Len(q) : c[f[i]].msg = q[i]
  <2>1. DOMAIN q = 1..Len(q)
    OBVIOUS
  <2>2. PICK f \in [1..Len(q) -> Where(c, A)] : Matches(f, Len(q), q, c, Where(c, A))
    BY <2>1, StepBy
  <2> QED
    BY <2>2 DEF Matches
<1>4. \A i \in 1..Len(q) : /\ f[i] \in 1..Len(c) /\ f[i] + 1 \in Where(d, A)
                           /\ d[f[i] + 1].msg = q[i]
  BY <1>1, <1>2, <1>3
<1>5. CASE k \notin A
  <2>1. p = q /\ DOMAIN p = 1..Len(q)
    BY <1>5
  <2> DEFINE h == [i \in 1..Len(q) |-> f[i] + 1]
  <2>2. h \in [1..Len(q) -> Where(d, A)]
    BY <1>4
  <2>3. \A i, j \in 1..Len(q) : i < j => h[i] < h[j]
    BY <1>3, <1>4
  <2>4. \A n \in Where(d, A) : \E i \in 1..Len(q) : h[i] = n
    <3>1. SUFFICES ASSUME NEW n \in Where(d, A) PROVE \E i \in 1..Len(q) : h[i] = n
      OBVIOUS
    <3>2. n - 1 \in Where(c, A) /\ n \in 1..Len(d)
      <4>1. n \in 1..Len(d) /\ n # 1
        BY <1>2, <1>5
      <4> QED
        BY <1>2, <4>1
    <3>3. PICK i \in 1..Len(q) : f[i] = n - 1
      BY <1>3, <3>2
    <3> QED
      BY <1>1, <3>2, <3>3
  <2>5. \A i \in 1..Len(q) : d[h[i]].msg = p[i]
    BY <1>4, <2>1
  <2> HIDE DEF h
  <2>6. Matches(h, Len(q), p, d, Where(d, A))
    BY <2>3, <2>4, <2>5 DEF Matches
  <2> QED
    BY <2>1, <2>2, <2>6, StepBy, Zenon
<1>6. CASE k \in A
  <2>1. PICK m \in M : m = k.msg
    BY <1>6
  <2>2. p = <<m>> \o q
    BY <1>6, <2>1
  <2>3. /\ p \in Seq(M) /\ Len(p) = Len(q) + 1 /\ p[1] = m /\ \A i \in 1..Len(q) : p[i + 1] = q[i]
    BY <2>2, Pushed
  <2>4. DOMAIN p = 1..(Len(q) + 1)
    BY <2>3
  <2> HIDE <1>3
  <2> DEFINE h == [i \in 1..(Len(q) + 1) |-> IF i = 1 THEN 1 ELSE f[i - 1] + 1]
  <2>5. \A i \in 1..(Len(q) + 1) : /\ i = 1 => h[i] = 1
                                   /\ i # 1 => i - 1 \in 1..Len(q) /\ h[i] = f[i - 1] + 1
    BY <1>1
  <2> HIDE DEF h
  <2>6. h \in [1..(Len(q) + 1) -> Where(d, A)]
    <3>1. \A i \in 1..(Len(q) + 1) : h[i] \in Where(d, A)
      BY <1>2, <1>4, <1>6, <2>5
    <3>2. DOMAIN h = 1..(Len(q) + 1) /\ h = [i \in 1..(Len(q) + 1) |-> h[i]]
      BY DEF h
    <3> QED
      BY <3>1, <3>2
  <2>7. ASSUME NEW i \in 1..(Len(q) + 1), NEW j \in 1..(Len(q) + 1), i < j
        PROVE  h[i] < h[j]
    <3>1. j # 1 /\ j - 1 \in 1..Len(q) /\ h[j] = f[j - 1] + 1 /\ f[j - 1] \in 1..Len(c)
      BY <1>1, <1>4, <2>5, <2>7
    <3>2. CASE i = 1
      BY <1>1, <2>5, <3>1, <3>2
    <3>3. CASE i # 1
      <4>1. i - 1 \in 1..Len(q) /\ h[i] = f[i - 1] + 1 /\ f[i - 1] \in 1..Len(c) /\ i - 1 < j - 1
        BY <1>1, <1>4, <2>5, <2>7, <3>3
      <4>2. f[i - 1] < f[j - 1]
        BY <1>3, <3>1, <4>1
      <4> QED
        BY <1>1, <3>1, <4>1, <4>2
    <3> QED
      BY <3>2, <3>3
  <2>8. ASSUME NEW n \in Where(d, A)
        PROVE  \E i \in 1..(Len(q) + 1) : h[i] = n
    <3>1. CASE n = 1
      BY <1>1, <2>5, <3>1
    <3>2. CASE n # 1
      <4>1. n - 1 \in Where(c, A) /\ n \in 1..Len(d)
        BY <1>2, <3>2
      <4>2. PICK i \in 1..Len(q) : f[i] = n - 1
        BY <1>3, <4>1
      <4>3. i + 1 \in 1..(Len(q) + 1) /\ i + 1 # 1 /\ i + 1 - 1 = i
        BY <1>1
      <4>4. h[i + 1] = f[i] + 1
        BY <2>5, <4>3
      <4>5. h[i + 1] = n
        BY <1>1, <4>1, <4>2, <4>4
      <4> QED
        BY <4>3, <4>5
    <3> QED
      BY <3>1, <3>2
  <2>9. ASSUME NEW i \in 1..(Len(q) + 1)
        PROVE  d[h[i]].msg = p[i]
    <3>1. CASE i = 1
      BY <1>1, <2>1, <2>3, <2>5, <3>1
    <3>2. CASE i # 1
      <4>1. i - 1 \in 1..Len(q) /\ h[i] = f[i - 1] + 1 /\ i - 1 + 1 = i
        BY <1>1, <2>5, <3>2
      <4>2. p[i] = q[i - 1]
        BY <2>3, <4>1
      <4> QED
        BY <1>4, <4>1, <4>2
    <3> QED
      BY <3>1, <3>2
  <2>10. Matches(h, Len(q) + 1, p, d, Where(d, A))
    BY <2>7, <2>8, <2>9 DEF Matches
  <2> QED
    BY <2>4, <2>6, <2>10, StepBy, Zenon
<1> QED
  BY <1>5, <1>6

\* A call in A goes with its result, which is the first one.
LEMMA PopStep ==
  ASSUME NEW S, NEW c \in Seq(S), c # <<>>, NEW M, NEW q \in Seq(M), NEW A,
         InStep(q, c, Where(c, A)), NEW d, d = Tail(c)
  PROVE  IF Head(c) \in A
         THEN q # <<>> /\ Head(q) = Head(c).msg /\ InStep(Tail(q), d, Where(d, A))
         ELSE InStep(q, d, Where(d, A))
<1>1. /\ d \in Seq(S) /\ Len(d) = Len(c) - 1 /\ Head(c) = c[1]
      /\ \A i \in 1..Len(d) : d[i] = c[i + 1]
      /\ Len(c) \in Nat \ {0} /\ Len(d) \in Nat /\ Len(q) \in Nat
      /\ DOMAIN d = 1..Len(d) /\ DOMAIN c = 1..Len(c) /\ DOMAIN q = 1..Len(q)
  OBVIOUS
<1>2. /\ \A i \in Where(d, A) : i \in 1..Len(d) /\ i + 1 \in Where(c, A)
      /\ \A i \in Where(c, A) : i \in 1..Len(c)
      /\ \A i \in 1..Len(c) : i \in Where(c, A) /\ i # 1 => i - 1 \in Where(d, A)
      /\ 1 \in Where(c, A) <=> Head(c) \in A
  BY <1>1 DEF Where
<1>3. PICK f \in [1..Len(q) -> Where(c, A)] :
        /\ \A i, j \in 1..Len(q) : i < j => f[i] < f[j]
        /\ \A n \in Where(c, A) : \E i \in 1..Len(q) : f[i] = n
        /\ \A i \in 1..Len(q) : c[f[i]].msg = q[i]
  <2>1. PICK f \in [1..Len(q) -> Where(c, A)] : Matches(f, Len(q), q, c, Where(c, A))
    BY <1>1, StepBy
  <2> QED
    BY <2>1 DEF Matches
<1>4. \A i \in 1..Len(q) : f[i] \in 1..Len(c)
  BY <1>2, <1>3
<1>5. \A i \in 1..Len(q) : f[i] # 1 => /\ f[i] - 1 \in Where(d, A) /\ f[i] - 1 \in 1..Len(d)
                                       /\ d[f[i] - 1].msg = q[i]
  <2> SUFFICES ASSUME NEW i \in 1..Len(q), f[i] # 1
               PROVE  /\ f[i] - 1 \in Where(d, A) /\ f[i] - 1 \in 1..Len(d)
                      /\ d[f[i] - 1].msg = q[i]
    OBVIOUS
  <2>1. PICK n \in 1..Len(c) : n = f[i] /\ n \in Where(c, A)
    BY <1>3, <1>4
  <2>2. n - 1 \in Where(d, A) /\ n - 1 \in 1..Len(d) /\ n - 1 + 1 = n
    BY <1>1, <1>2, <2>1
  <2>3. d[n - 1] = c[n]
    BY <1>1, <2>2
  <2> QED
    BY <1>3, <2>1, <2>2, <2>3
<1>6. CASE Head(c) \notin A
  <2>1. \A i \in 1..Len(q) : f[i] # 1
    BY <1>2, <1>3, <1>6
  <2> DEFINE h == [i \in 1..Len(q) |-> f[i] - 1]
  <2>2. h \in [1..Len(q) -> Where(d, A)]
    BY <1>5, <2>1
  <2>3. \A i, j \in 1..Len(q) : i < j => h[i] < h[j]
    BY <1>1, <1>3, <1>4
  <2>4. \A n \in Where(d, A) : \E i \in 1..Len(q) : h[i] = n
    <3>1. SUFFICES ASSUME NEW n \in Where(d, A) PROVE \E i \in 1..Len(q) : h[i] = n
      OBVIOUS
    <3>2. n + 1 \in Where(c, A) /\ n \in 1..Len(d)
      BY <1>2
    <3>3. PICK i \in 1..Len(q) : f[i] = n + 1
      BY <1>3, <3>2
    <3> QED
      BY <1>1, <3>2, <3>3
  <2>5. \A i \in 1..Len(q) : d[h[i]].msg = q[i]
    BY <1>5, <2>1
  <2> HIDE DEF h
  <2>6. Matches(h, Len(q), q, d, Where(d, A))
    BY <2>3, <2>4, <2>5 DEF Matches
  <2>7. InStep(q, d, Where(d, A))
    BY <1>1, <2>2, <2>6, StepBy, Zenon
  <2> QED
    BY <1>6, <2>7
<1>7. CASE Head(c) \in A
  <2>1. PICK z \in 1..Len(q) : f[z] = 1
    BY <1>2, <1>3, <1>7
  <2>2. z = 1
    <3>1. CASE z # 1
      <4>1. 1 \in 1..Len(q) /\ 1 < z
        BY <1>1, <3>1
      <4>2. f[1] < f[z] /\ f[1] \in 1..Len(c)
        BY <1>3, <1>4, <4>1
      <4> QED
        BY <1>1, <2>1, <4>2
    <3> QED
      BY <3>1
  <2>3. /\ q # <<>> /\ Len(q) # 0 /\ Head(q) = q[1]
    BY <1>1, <2>1
  <2>4. Head(q) = Head(c).msg
    BY <1>1, <1>3, <2>1, <2>2, <2>3
  <2>5. PICK p \in Seq(M) : p = Tail(q)
    BY <2>3, ToSetTail
  <2>6. /\ DOMAIN p = 1..(Len(q) - 1) /\ \A i \in 1..(Len(q) - 1) : p[i] = q[i + 1]
    BY <1>1, <2>3, <2>5
  <2>7. \A i \in 1..(Len(q) - 1) : i + 1 \in 1..Len(q) /\ f[i + 1] # 1
    <3>1. SUFFICES ASSUME NEW i \in 1..(Len(q) - 1) PROVE i + 1 \in 1..Len(q) /\ f[i + 1] # 1
      OBVIOUS
    <3>2. i + 1 \in 1..Len(q) /\ 1 \in 1..Len(q) /\ 1 < i + 1
      BY <1>1
    <3>3. f[1] < f[i + 1] /\ f[i + 1] \in 1..Len(c)
      BY <1>3, <1>4, <3>2
    <3> QED
      BY <1>1, <2>1, <2>2, <3>2, <3>3
  <2> DEFINE h == [i \in 1..(Len(q) - 1) |-> f[i + 1] - 1]
  <2>8. h \in [1..(Len(q) - 1) -> Where(d, A)]
    BY <1>5, <2>7
  <2>9. \A i \in 1..(Len(q) - 1) : d[h[i]].msg = p[i]
    BY <1>5, <2>6, <2>7
  <2>10. \A i \in 1..(Len(q) - 1) : h[i] = f[i + 1] - 1
    OBVIOUS
  <2> HIDE DEF h
  <2>11. ASSUME NEW i \in 1..(Len(q) - 1), NEW j \in 1..(Len(q) - 1), i < j
         PROVE  h[i] < h[j]
    <3>1. /\ i + 1 \in 1..Len(q) /\ j + 1 \in 1..Len(q) /\ i + 1 < j + 1
      BY <1>1, <2>11
    <3>2. f[i + 1] < f[j + 1] /\ f[i + 1] \in 1..Len(c) /\ f[j + 1] \in 1..Len(c)
      BY <1>3, <1>4, <3>1
    <3> QED
      BY <1>1, <2>10, <3>2
  <2>12. ASSUME NEW n \in Where(d, A)
         PROVE  \E i \in 1..(Len(q) - 1) : h[i] = n
    <3>1. n + 1 \in Where(c, A) /\ n \in 1..Len(d)
      BY <1>2
    <3>2. PICK i \in 1..Len(q) : f[i] = n + 1
      BY <1>3, <3>1
    <3>3. i # 1
      BY <1>1, <2>1, <2>2, <3>1, <3>2
    <3>4. i - 1 \in 1..(Len(q) - 1) /\ i - 1 + 1 = i
      BY <1>1, <3>3
    <3>5. h[i - 1] = n
      BY <1>1, <2>10, <3>1, <3>2, <3>4
    <3> QED
      BY <3>4, <3>5
  <2>13. Matches(h, Len(q) - 1, p, d, Where(d, A))
    BY <2>9, <2>11, <2>12 DEF Matches
  <2>14. InStep(p, d, Where(d, A))
    BY <2>6, <2>8, <2>13, StepBy, Zenon
  <2> QED
    BY <1>7, <2>3, <2>4, <2>5, <2>14
<1> QED
  BY <1>6, <1>7

\* The innermost call goes on; it stays in A or out of A.
LEMMA SwapStep ==
  ASSUME NEW S, NEW c \in Seq(S), c # <<>>, NEW k \in S, NEW M, NEW q \in Seq(M), NEW A,
         k \in A <=> Head(c) \in A, k.msg = Head(c).msg, InStep(q, c, Where(c, A)),
         NEW d, d = <<k>> \o Tail(c)
  PROVE  InStep(q, d, Where(d, A))
<1>1. PICK b \in Seq(S) : b = Tail(c)
  BY ToSetTail
<1>2. CASE k \in A
  <2>1. q # <<>> /\ Head(q) = k.msg /\ InStep(Tail(q), b, Where(b, A))
    BY <1>1, <1>2, PopStep
  <2>2. PICK p \in Seq(M) : p = Tail(q)
    BY <2>1, ToSetTail
  <2>3. k.msg \in M
    BY <2>1, ToSetTail
  <2>4. q = <<k.msg>> \o p
    BY <2>1, <2>2
  <2>5. q = IF k \in A THEN <<k.msg>> \o p ELSE p
    BY <1>2, <2>4
  <2> QED
    BY <1>1, <2>1, <2>2, <2>3, <2>5, PushStep
<1>3. CASE k \notin A
  <2>1. InStep(q, b, Where(b, A))
    BY <1>1, <1>3, PopStep
  <2>2. q = IF k \in A THEN <<k.msg>> \o q ELSE q
    BY <1>3
  <2> QED
    BY <1>1, <1>3, <2>1, <2>2, PushStep
<1> QED
  BY <1>2, <1>3

-----------------------------------------------------------------------------
(* Steps.                                                                   *)

\* The calls of a thread whose results stay
LEMMA StackKept ==
  ASSUME NEW s, NEW x, NEW u, NEW c, Stack(s, u, c), x.send_result[u] = s.send_result[u],
         x.recv_result[u] = s.recv_result[u], x.attr = s.attr,
         "SMRESULT" \in s.bits[u] => "SMRESULT" \in x.bits[u]
  PROVE  Stack(x, u, c)
<1>1. ProcCalls(x) = ProcCalls(s)
  BY DEF ProcCalls, Kind
<1> QED
  BY <1>1 DEF Stack

\* What a sender was told stays.
LEMMA ToldKept ==
  ASSUME ToldInv, told' = told,
         \A n \in Messages : srv.res[n].replied =>
                               srv'.res[n].replied /\ srv'.res[n].answer = srv.res[n].answer
  PROVE  ToldInv'
BY DEF ToldInv

Still(s, x) == Quiet(s, x) /\ x.recv_result = s.recv_result

\* A step of the server keeps what is said of the clients.
LEMMA ServerStep ==
  ASSUME IInv, ServerInv(srv', used'), used' \subseteq Messages, Still(srv, srv'),
         UNCHANGED <<alive, calls, told>>
  PROVE  IInv'
<1>1. CallTypes'
  BY DEF IInv, CallTypes
<1>2. ToldInv'
  BY ToldKept DEF IInv, Still, Quiet
<1>3. ASSUME NEW t \in Threads
      PROVE  Shown(srv', t) /\ CallInv(t)'
  <2>1. Shown(srv', t)
    BY DEF IInv, Still, Quiet
  <2>2. CallInv(t)'
    <3>1. CASE t \in alive
      <4>1. Stack(srv, t, calls[t])
        BY <3>1 DEF IInv, CallInv
      <4>2. Stack(srv', t, calls[t])
        BY <4>1, StackKept DEF Still, Quiet
      <4> QED
        BY <3>1, <4>2 DEF CallInv
    <3>2. CASE t \notin alive
      BY <3>2 DEF IInv, CallInv
    <3> QED
      BY <3>1, <3>2
  <2> QED
    BY <2>1, <2>2
<1> QED
  BY <1>1, <1>2, <1>3 DEF IInv

\* A step of the thread t, whose calls become d
LEMMA ThreadStep ==
  ASSUME IInv, NEW t \in Threads, NEW d \in Seq(CallRecords), calls' = [calls EXCEPT ![t] = d],
         ServerInv(srv', used'), used' \subseteq Messages, Away(srv, srv', t), Shown(srv', t),
         IF t \in alive' THEN Stack(srv', t, d) ELSE d = <<>>,
         alive' \subseteq alive, alive \subseteq alive' \union {t},
         told' \in Told,
         ToldInv'
  PROVE  IInv'
<1>1. calls \in [Threads -> Seq(CallRecords)]
  BY DEF IInv, CallTypes
<1>2. CallTypes'
  BY <1>1 DEF IInv, CallTypes
<1>3. calls'[t] = d /\ \A u \in Threads \ {t} : calls'[u] = calls[u]
  BY <1>1
<1>4. ASSUME NEW u \in Threads
      PROVE  Shown(srv', u) /\ CallInv(u)'
  <2>1. CASE u = t
    BY <1>3, <2>1 DEF CallInv
  <2>2. CASE u # t
    <3>1. Shown(srv', u) /\ (u \in alive <=> u \in alive')
      BY <2>2 DEF IInv, Away
    <3>2. CASE u \in alive
      <4>1. Stack(srv, u, calls[u])
        BY <3>2 DEF IInv, CallInv
      <4>2. Stack(srv', u, calls[u])
        BY <2>2, <4>1, StackKept DEF Away
      <4> QED
        BY <1>3, <2>2, <3>1, <3>2, <4>2 DEF CallInv
    <3>3. CASE u \notin alive
      <4>1. calls[u] = <<>>
        BY <3>3 DEF IInv, CallInv
      <4> QED
        BY <1>3, <2>2, <3>1, <3>3, <4>1 DEF CallInv
    <3> QED
      BY <3>2, <3>3
  <2> QED
    BY <2>1, <2>2
<1> QED
  BY <1>2, <1>4 DEF IInv

\* The thread t, in a call of its own that is not the taking of a result, calls k: k comes
\* with the result that was added to its stack, if any was.
LEMMA StackPush ==
  ASSUME NEW s, NEW x, NEW t, NEW c \in Seq(CallRecords), Stack(s, t, c),
         NEW k \in CallRecords, k.at \notin {"peek", "retrieve"} => k.msg \in Messages,
         k.at # "retrieve", c # <<>> => c[1].at # "retrieve", x.attr = s.attr,
         s.send_result[t] \in Seq(Messages), s.recv_result[t] \in Seq(Messages),
         x.send_result[t] = IF k \in WaitCalls THEN <<k.msg>> \o s.send_result[t]
                            ELSE s.send_result[t],
         x.recv_result[t] = IF k \in ProcCalls(s) THEN <<k.msg>> \o s.recv_result[t]
                            ELSE s.recv_result[t],
         NEW d, d = <<k>> \o c
  PROVE  d \in Seq(CallRecords) /\ Stack(x, t, d)
<1>1. /\ d \in Seq(CallRecords) /\ Len(d) = Len(c) + 1 /\ d[1] = k
      /\ \A i \in 1..Len(c) : d[i + 1] = c[i]
  BY Pushed
<1>2. Len(c) \in Nat /\ DOMAIN d = 1..Len(d) /\ DOMAIN c = 1..Len(c)
  BY <1>1
<1>3. ProcCalls(x) = ProcCalls(s)
  BY DEF ProcCalls, Kind
<1>4. k \in WaitCalls \/ k \in ProcCalls(s) => k.msg \in Messages
  BY DEF WaitCalls, ProcCalls
<1>5. InStep(x.send_result[t], d, Where(d, WaitCalls))
  <2>1. InStep(s.send_result[t], c, Where(c, WaitCalls))
    BY DEF Stack
  <2> QED
    BY <1>4, <2>1, PushStep
<1>6. InStep(x.recv_result[t], d, Where(d, ProcCalls(s)))
  <2>1. InStep(s.recv_result[t], c, Where(c, ProcCalls(s)))
    BY DEF Stack
  <2> QED
    BY <1>4, <2>1, PushStep
<1>7. ASSUME NEW i \in 1..Len(d)
      PROVE  /\ d[i].at # "peek" => d[i].msg \in Messages
             /\ d[i].at # "retrieve"
  <2>1. CASE i = 1
    BY <1>1, <2>1
  <2>2. CASE i # 1
    <3>1. PICK j \in 1..Len(c) : j + 1 = i
      <4>1. i - 1 \in 1..Len(c) /\ i - 1 + 1 = i
        BY <1>1, <1>2, <2>2
      <4> QED
        BY <4>1
    <3>2. d[i] = c[j] /\ c # <<>>
      BY <1>1, <1>2, <3>1
    <3>3. /\ c[j].at # "peek" => c[j].msg \in Messages
          /\ c[j].at = "retrieve" => j = 1
      BY <1>2 DEF Stack
    <3> QED
      BY <3>2, <3>3
  <2> QED
    BY <2>1, <2>2
<1> QED
  BY <1>1, <1>2, <1>3, <1>5, <1>6, <1>7 DEF Stack

\* The innermost call has the first result.
LEMMA StackTop ==
  ASSUME NEW s, NEW t, NEW c \in Seq(CallRecords), c # <<>>, Stack(s, t, c),
         s.send_result[t] \in Seq(Messages), s.recv_result[t] \in Seq(Messages)
  PROVE  /\ Head(c) = c[1] /\ Head(c) \in CallRecords
         /\ Head(c).at # "peek" => Head(c).msg \in Messages
         /\ Head(c) \in WaitCalls => /\ s.send_result[t] # <<>>
                                     /\ Head(s.send_result[t]) = Head(c).msg
         /\ Head(c) \in ProcCalls(s) => /\ s.recv_result[t] # <<>>
                                        /\ Head(s.recv_result[t]) = Head(c).msg
<1>1. Head(c) = c[1] /\ 1 \in DOMAIN c /\ Head(c) \in CallRecords
  OBVIOUS
<1>2. Head(c).at # "peek" => Head(c).msg \in Messages
  BY <1>1 DEF Stack
<1>3. ASSUME Head(c) \in WaitCalls
      PROVE  s.send_result[t] # <<>> /\ Head(s.send_result[t]) = Head(c).msg
  <2>1. InStep(s.send_result[t], c, Where(c, WaitCalls))
    BY DEF Stack
  <2> QED
    BY <1>3, <2>1, PopStep
<1>4. ASSUME Head(c) \in ProcCalls(s)
      PROVE  s.recv_result[t] # <<>> /\ Head(s.recv_result[t]) = Head(c).msg
  <2>1. InStep(s.recv_result[t], c, Where(c, ProcCalls(s)))
    BY DEF Stack
  <2> QED
    BY <1>4, <2>1, PopStep
<1> QED
  BY <1>1, <1>2, <1>3, <1>4

\* The innermost call returns, and its result is off the stack.
LEMMA StackPop ==
  ASSUME NEW s, NEW x, NEW t, NEW c \in Seq(CallRecords), c # <<>>, Stack(s, t, c),
         s.send_result[t] \in Seq(Messages), s.recv_result[t] \in Seq(Messages), x.attr = s.attr,
         x.send_result[t] = IF Head(c) \in WaitCalls THEN Tail(s.send_result[t])
                            ELSE s.send_result[t],
         x.recv_result[t] = IF Head(c) \in ProcCalls(s) THEN Tail(s.recv_result[t])
                            ELSE s.recv_result[t],
         NEW d, d = Tail(c)
  PROVE  d \in Seq(CallRecords) /\ Stack(x, t, d)
<1>1. /\ d \in Seq(CallRecords) /\ Len(d) = Len(c) - 1 /\ \A i \in 1..Len(d) : d[i] = c[i + 1]
      /\ Len(c) \in Nat \ {0} /\ DOMAIN d = 1..Len(d) /\ DOMAIN c = 1..Len(c)
  OBVIOUS
<1>2. ProcCalls(x) = ProcCalls(s)
  BY DEF ProcCalls, Kind
<1>3. InStep(x.send_result[t], d, Where(d, WaitCalls))
  <2>1. InStep(s.send_result[t], c, Where(c, WaitCalls))
    BY DEF Stack
  <2>2. PICK q \in Seq(Messages) : q = s.send_result[t]
    OBVIOUS
  <2>3. IF Head(c) \in WaitCalls
        THEN q # <<>> /\ Head(q) = Head(c).msg /\ InStep(Tail(q), d, Where(d, WaitCalls))
        ELSE InStep(q, d, Where(d, WaitCalls))
    BY <2>1, <2>2, PopStep
  <2> QED
    BY <2>2, <2>3
<1>4. InStep(x.recv_result[t], d, Where(d, ProcCalls(s)))
  <2>1. InStep(s.recv_result[t], c, Where(c, ProcCalls(s)))
    BY DEF Stack
  <2>2. PICK q \in Seq(Messages) : q = s.recv_result[t]
    OBVIOUS
  <2>3. IF Head(c) \in ProcCalls(s)
        THEN q # <<>> /\ Head(q) = Head(c).msg /\ InStep(Tail(q), d, Where(d, ProcCalls(s)))
        ELSE InStep(q, d, Where(d, ProcCalls(s)))
    BY <2>1, <2>2, PopStep
  <2> QED
    BY <2>2, <2>3
<1>5. ASSUME NEW i \in 1..Len(d)
      PROVE  /\ d[i].at # "peek" => d[i].msg \in Messages
             /\ d[i].at # "retrieve"
  <2>1. i + 1 \in 1..Len(c) /\ i + 1 # 1 /\ d[i] = c[i + 1]
    BY <1>1
  <2> QED
    BY <1>1, <2>1 DEF Stack
<1> QED
  BY <1>1, <1>2, <1>3, <1>4, <1>5 DEF Stack

\* The innermost call goes on.
LEMMA StackSwap ==
  ASSUME NEW s, NEW x, NEW t, NEW c \in Seq(CallRecords), c # <<>>, Stack(s, t, c),
         s.send_result[t] \in Seq(Messages), s.recv_result[t] \in Seq(Messages), x.attr = s.attr,
         x.send_result[t] = s.send_result[t], x.recv_result[t] = s.recv_result[t],
         NEW k \in CallRecords, k.msg = Head(c).msg, k.at # "peek", k.msg \in Messages,
         k \in WaitCalls <=> Head(c) \in WaitCalls,
         k \in ProcCalls(s) <=> Head(c) \in ProcCalls(s),
         k.at = "retrieve" => "SMRESULT" \in x.bits[t],
         NEW d, d = <<k>> \o Tail(c)
  PROVE  d \in Seq(CallRecords) /\ Stack(x, t, d)
<1>1. PICK b \in Seq(CallRecords) : b = Tail(c) /\ Len(b) = Len(c) - 1
  BY HeadTailProperties
<1>2. /\ d \in Seq(CallRecords) /\ Len(d) = Len(b) + 1 /\ d[1] = k
      /\ \A i \in 1..Len(b) : d[i + 1] = b[i]
  BY <1>1, Pushed
<1>3. Len(c) \in Nat \ {0} /\ DOMAIN d = 1..Len(d) /\ DOMAIN c = 1..Len(c) /\ Len(d) = Len(c)
  BY <1>1, <1>2
<1>4. ProcCalls(x) = ProcCalls(s)
  BY DEF ProcCalls, Kind
<1>5. InStep(x.send_result[t], d, Where(d, WaitCalls))
  <2>1. InStep(s.send_result[t], c, Where(c, WaitCalls))
    BY DEF Stack
  <2> QED
    BY <2>1, SwapStep
<1>6. InStep(x.recv_result[t], d, Where(d, ProcCalls(s)))
  <2>1. InStep(s.recv_result[t], c, Where(c, ProcCalls(s)))
    BY DEF Stack
  <2> QED
    BY <2>1, SwapStep
<1>7. ASSUME NEW i \in 1..Len(d)
      PROVE  /\ d[i].at # "peek" => d[i].msg \in Messages
             /\ d[i].at = "retrieve" => i = 1 /\ "SMRESULT" \in x.bits[t]
  <2>1. CASE i = 1
    BY <1>2, <2>1
  <2>2. CASE i # 1
    <3>1. PICK j \in 1..Len(b) : j + 1 = i
      <4>1. i - 1 \in 1..Len(b) /\ i - 1 + 1 = i
        BY <1>1, <1>2, <1>3, <2>2
      <4> QED
        BY <4>1
    <3>2. d[i] = c[i]
      BY <1>1, <1>2, <3>1
    <3> QED
      BY <1>3, <2>2, <3>2 DEF Stack
  <2> QED
    BY <2>1, <2>2
<1> QED
  BY <1>2, <1>3, <1>4, <1>5, <1>6, <1>7 DEF Stack

\* What the invariant says of a thread
LEMMA Inside ==
  ASSUME IInv, NEW t \in Threads
  PROVE  /\ ServerInv(srv, used) /\ srv \in Server /\ Shown(srv, t) /\ used \subseteq Messages
         /\ calls[t] \in Seq(CallRecords) /\ calls \in [Threads -> Seq(CallRecords)]
         /\ srv.send_result[t] \in Seq(Messages) /\ srv.recv_result[t] \in Seq(Messages)
         /\ t \in alive => Stack(srv, t, calls[t])
         /\ t \notin alive => calls[t] = <<>>
         /\ told \in Told
<1>1. srv \in Server /\ ServerInv(srv, used)
  BY DEF IInv, ServerInv, Links
<1>2. srv.send_result[t] \in Seq(Messages) /\ srv.recv_result[t] \in Seq(Messages)
  BY <1>1, ServerFields
<1> QED
  BY <1>1, <1>2 DEF IInv, CallTypes, CallInv

\* A thread that is in a call
LEMMA AtCall ==
  ASSUME IInv, NEW t \in Threads, NEW pc, At(t, pc), pc # "application"
  PROVE  /\ t \in alive /\ calls[t] # <<>> /\ Top(t) = Head(calls[t]) /\ Head(calls[t]) = calls[t][1]
         /\ Head(calls[t]) \in CallRecords /\ Head(calls[t]).at = pc
         /\ pc # "peek" => Head(calls[t]).msg \in Messages
         /\ Stack(srv, t, calls[t])
<1>1. calls[t] # <<>> /\ Top(t) = Head(calls[t]) /\ Head(calls[t]).at = pc
  BY DEF At, Top, Call
<1>2. t \in alive /\ Stack(srv, t, calls[t])
  BY <1>1, Inside
<1>3. /\ Head(calls[t]) = calls[t][1] /\ Head(calls[t]) \in CallRecords
      /\ Head(calls[t]).at # "peek" => Head(calls[t]).msg \in Messages
  BY <1>1, <1>2, Inside, StackTop
<1> QED
  BY <1>1, <1>2, <1>3

\* Calls are call records.
LEMMA CallTypeOf ==
  ASSUME NEW at \in {"wait", "asleep", "retrieve", "peek", "proc", "replied"},
         NEW m \in Messages \union {NoMessage}
  PROVE  LET k == Call(at, m)
         IN /\ k \in CallRecords /\ k.at = at /\ k.msg = m
            /\ k \in WaitCalls <=> at \in {"wait", "asleep", "retrieve"}
            /\ \A s : k \in ProcCalls(s) <=> at \in {"proc", "replied"} /\ Kind(s, m) # "notify"
<1>1. Call(at, m) \in CallRecords /\ Call(at, m).at = at /\ Call(at, m).msg = m
  BY DEF Call, CallRecords
<1> QED
  BY <1>1 DEF WaitCalls, ProcCalls

\* The classes of a call
LEMMA ClassOf ==
  ASSUME NEW k \in CallRecords, NEW s
  PROVE  /\ k \in WaitCalls <=> k.at \in {"wait", "asleep", "retrieve"}
         /\ k \in ProcCalls(s) <=> k.at \in {"proc", "replied"} /\ Kind(s, k.msg) # "notify"
BY DEF WaitCalls, ProcCalls

\* Nothing changes for the others when the bits and masks of t do.
LEMMA AwayBits ==
  ASSUME NEW s \in Server, NEW t, NEW x, OnlyBits(s, x), x.bits = s.bits
  PROVE  Away(s, x, t) /\ \A u : Shown(s, u) <=> Shown(x, u)
BY DEF OnlyBits, Away, Shown

SetMask(s, t, mask) == [s EXCEPT !.mask[t] = mask]

\* A state of which a mask is set
LEMMA MaskSet ==
  ASSUME NEW s \in Server, NEW t \in Threads, NEW mask \in SUBSET Bits,
         NEW x, x = SetMask(s, t, mask)
  PROVE  OnlyBits(s, x) /\ x.bits = s.bits
<1>1. PICK Bs \in [Threads -> SUBSET Bits] : Bs = s.bits
  BY ServerFields
<1>2. PICK Ms \in [Threads -> SUBSET Bits] : Ms = [s.mask EXCEPT ![t] = mask]
  BY ServerFields
<1>3. x = SetMasks(s, Bs, Ms)
  BY <1>1, <1>2, ServerFields DEF SetMasks, SetMask
<1> QED
  BY <1>1, <1>3, WithBits

\* The thread goes to another point of the call it is in, or calls the next one; only its
\* mask may change.
LEMMA MaskStep ==
  ASSUME IInv, NEW t \in Threads, t \in alive, OnlyBits(srv, srv'), srv'.bits = srv.bits,
         NEW d \in Seq(CallRecords), Stack(srv, t, d),
         calls' = [calls EXCEPT ![t] = d], UNCHANGED <<alive, used, told>>
  PROVE  IInv'
<1>1. ServerInv(srv', used')
  BY Inside, OnlyBitsInv
<1>2. Away(srv, srv', t) /\ Shown(srv', t)
  BY Inside, AwayBits
<1>3. Stack(srv', t, d)
  BY StackKept DEF OnlyBits
<1>4. ToldInv'
  BY <1>2, ToldKept DEF IInv, Away
<1>5. used' \subseteq Messages /\ told' \in Told
  BY Inside
<1> QED
  BY <1>1, <1>2, <1>3, <1>4, <1>5, ThreadStep

-----------------------------------------------------------------------------
(* The actions.                                                             *)

\* send_hook_ll_message for the input of a device
LEMMA HardwareInputInv ==
  ASSUME IInv, NEW m \in Messages, HardwareInput(m)
  PROVE  IInv'
<1>1. /\ srv.attr[m].from = NoThread /\ m \notin used /\ used' = used \union {m}
      /\ srv' = Queued(srv, m) /\ UNCHANGED <<alive, calls, told>>
  BY DEF HardwareInput
<1>2. ServerInv(srv, used) /\ used \subseteq Messages
  BY DEF IInv, CallTypes
<1>3. ServerInv(srv', used') /\ Sent(srv, srv', m)
  BY <1>1, <1>2, QueuedInv
<1>4. ~Awaited(srv, m) /\ NoThread \notin Threads
  BY <1>1, MessageAssumption DEF Awaited
<1>5. Still(srv, srv')
  BY <1>1, <1>3, <1>4 DEF Still, Quiet, Sent
<1> QED
  BY <1>1, <1>2, <1>3, <1>5, ServerStep

\* result_timeout
LEMMA TimeOutInv ==
  ASSUME IInv, NEW m \in Messages, TimeOut(m)
  PROVE  IInv'
<1>1. /\ srv.res[m].timeout /\ srv' = ResultTimeout(srv, m)
      /\ UNCHANGED <<alive, calls, used, told>>
  BY DEF TimeOut
<1>2. ServerInv(srv, used) /\ used \subseteq Messages
  BY DEF IInv, CallTypes
<1>3. ServerInv(srv', used) /\ Still(srv, srv')
  BY <1>1, <1>2, TimeoutInv DEF Still
<1> QED
  BY <1>1, <1>2, <1>3, ServerStep

\* queue_cleanup_window
LEMMA DestroyWindowInv ==
  ASSUME IInv, NEW t \in Threads, DestroyWindow(t)
  PROVE  IInv'
<1>1. srv' = WindowDestroyed(srv, t) /\ UNCHANGED <<alive, calls, used, told>>
  BY DEF DestroyWindow
<1>2. ServerInv(srv, used) /\ used \subseteq Messages
  BY DEF IInv, CallTypes
<1>3. ServerInv(srv', used) /\ Still(srv, srv')
  BY <1>1, <1>2, WindowInv DEF WindowOff, Still
<1> QED
  BY <1>1, <1>2, <1>3, ServerStep

\* The thread dies with its queue.
LEMMA DieInv ==
  ASSUME IInv, NEW t \in Threads, Die(t)
  PROVE  IInv'
<1>1. /\ t \in alive /\ alive' = alive \ {t} /\ srv' = QueueDestroyed(srv, t)
      /\ calls' = [calls EXCEPT ![t] = <<>>] /\ UNCHANGED <<used, told>>
  BY DEF Die
<1>2. ServerInv(srv', used') /\ Away(srv, srv', t) /\ Shown(srv', t)
  BY <1>1, Inside, DestroyedInv
<1>3. ToldInv'
  BY <1>1, <1>2, ToldKept DEF IInv, Away
<1>4. /\ used' \subseteq Messages /\ <<>> \in Seq(CallRecords)
      /\ told' \in Told
  BY <1>1, Inside
<1>5. t \notin alive' /\ alive' \subseteq alive /\ alive \subseteq alive' \union {t}
  BY <1>1
<1> QED
  BY <1>1, <1>2, <1>3, <1>4, <1>5, ThreadStep

\* The thread is terminated, and its queue stays.
LEMMA TerminateInv ==
  ASSUME IInv, NEW t \in Threads, Terminate(t)
  PROVE  IInv'
<1>1. /\ t \in alive /\ alive' = alive \ {t} /\ srv' = WindowDestroyed(srv, t)
      /\ calls' = [calls EXCEPT ![t] = <<>>] /\ UNCHANGED <<used, told>>
  BY DEF Terminate
<1>2. WindowOff(srv, used, srv')
  BY <1>1, Inside, WindowInv
<1>3. ServerInv(srv', used') /\ Away(srv, srv', t) /\ Shown(srv', t)
  BY <1>1, <1>2, Inside DEF WindowOff, Quiet, Away
<1>4. ToldInv'
  BY <1>1, <1>3, ToldKept DEF IInv, Away
<1>5. /\ used' \subseteq Messages /\ <<>> \in Seq(CallRecords)
      /\ told' \in Told
  BY <1>1, Inside
<1>6. t \notin alive' /\ alive' \subseteq alive /\ alive \subseteq alive' \union {t}
  BY <1>1
<1> QED
  BY <1>1, <1>3, <1>4, <1>5, <1>6, ThreadStep

\* The state as it is
LEMMA SameServer ==
  ASSUME IInv, srv' = srv
  PROVE  OnlyBits(srv, srv') /\ srv'.bits = srv.bits
BY DEF IInv, ServerInv, Links, OnlyBits

\* A call at pc, with the message of the innermost one, in its place
LEMMA GotoStep ==
  ASSUME IInv, NEW t \in Threads, NEW pc, At(t, pc), NEW to,
         \/ pc \in {"wait", "asleep"} /\ to \in {"wait", "asleep", "retrieve"}
         \/ pc = "proc" /\ to = "replied",
         to = "retrieve" => "SMRESULT" \in srv.bits[t], Goto(t, to)
  PROVE  \E d \in Seq(CallRecords) : calls' = [calls EXCEPT ![t] = d] /\ Stack(srv, t, d)
<1>1. pc # "application" /\ pc # "peek"
  OBVIOUS
<1>2. PICK c \in Seq(CallRecords) : c = calls[t]
  BY Inside
<1>3. /\ c # <<>> /\ Top(t) = Head(c) /\ Head(c) \in CallRecords /\ Head(c).at = pc
      /\ Head(c).msg \in Messages /\ Stack(srv, t, c)
  BY <1>1, <1>2, AtCall
<1>4. PICK k \in CallRecords : k = Call(to, Head(c).msg) /\ k.at = to /\ k.msg = Head(c).msg
  BY <1>3, CallTypeOf
<1>5. /\ k \in WaitCalls <=> Head(c) \in WaitCalls
      /\ k \in ProcCalls(srv) <=> Head(c) \in ProcCalls(srv)
  BY <1>3, <1>4, ClassOf
<1>6. PICK d : d = <<k>> \o Tail(c)
  OBVIOUS
<1>7. srv.send_result[t] \in Seq(Messages) /\ srv.recv_result[t] \in Seq(Messages)
  BY Inside
<1>8. k.at # "peek" /\ k.msg \in Messages /\ (k.at = "retrieve" => "SMRESULT" \in srv.bits[t])
  BY <1>3, <1>4
<1>9. d \in Seq(CallRecords) /\ Stack(srv, t, d)
  BY <1>3, <1>4, <1>5, <1>6, <1>7, <1>8, StackSwap
<1>10. calls' = [calls EXCEPT ![t] = d]
  BY <1>2, <1>3, <1>4, <1>6 DEF Goto
<1> QED
  BY <1>9, <1>10

\* The thread calls peek_message.
LEMMA PeekStep ==
  ASSUME IInv, NEW t \in Threads, t \in alive, calls[t] # <<>> => Head(calls[t]).at # "retrieve",
         Push(t, Call("peek", NoMessage))
  PROVE  \E d \in Seq(CallRecords) : calls' = [calls EXCEPT ![t] = d] /\ Stack(srv, t, d)
<1>1. PICK c \in Seq(CallRecords) : c = calls[t] /\ Stack(srv, t, c)
  BY Inside
<1>2. PICK k \in CallRecords : k = Call("peek", NoMessage) /\ k.at = "peek"
  BY CallTypeOf
<1>3. k \notin WaitCalls /\ k \notin ProcCalls(srv)
  BY <1>2, ClassOf
<1>4. PICK d : d = <<k>> \o c
  OBVIOUS
<1>5. srv.send_result[t] \in Seq(Messages) /\ srv.recv_result[t] \in Seq(Messages)
  BY Inside
<1>6. c # <<>> => c[1].at # "retrieve"
  BY <1>1
<1>7. d \in Seq(CallRecords) /\ Stack(srv, t, d)
  BY <1>1, <1>2, <1>3, <1>4, <1>5, <1>6, StackPush
<1>8. calls' = [calls EXCEPT ![t] = d]
  BY <1>1, <1>2, <1>4, Inside DEF Push
<1> QED
  BY <1>7, <1>8

\* wait_message_reply
LEMMA CheckBitsInv ==
  ASSUME IInv, NEW t \in Threads, CheckBits(t)
  PROVE  IInv'
<1>1. PICK mask \in SUBSET Bits : srv' = SetMask(srv, t, mask)
  BY DEF CheckBits, Bits, SetMask
<1>2. /\ At(t, "wait") /\ UNCHANGED <<alive, used, told>>
      /\ \/ "SMRESULT" \in srv.bits[t] /\ Goto(t, "retrieve")
         \/ Push(t, Call("peek", NoMessage))
         \/ Goto(t, "asleep")
  BY DEF CheckBits
<1>3. t \in alive /\ Head(calls[t]).at = "wait"
  BY <1>2, AtCall
<1>4. PICK d \in Seq(CallRecords) : calls' = [calls EXCEPT ![t] = d] /\ Stack(srv, t, d)
  <2>1. CASE "SMRESULT" \in srv.bits[t] /\ Goto(t, "retrieve")
    BY <1>2, <2>1, GotoStep
  <2>2. CASE Push(t, Call("peek", NoMessage))
    BY <1>3, <2>2, PeekStep
  <2>3. CASE Goto(t, "asleep")
    BY <1>2, <2>3, GotoStep
  <2> QED
    BY <1>2, <2>1, <2>2, <2>3
<1>5. srv \in Server
  BY Inside
<1>6. OnlyBits(srv, srv') /\ srv'.bits = srv.bits
  BY <1>1, <1>5, MaskSet
<1> QED
  BY <1>2, <1>3, <1>4, <1>6, MaskStep

\* wait_message returns.
LEMMA WakeInv ==
  ASSUME IInv, NEW t \in Threads, Wake(t)
  PROVE  IInv'
<1>1. At(t, "asleep") /\ Goto(t, "wait") /\ UNCHANGED <<srv, alive, used, told>>
  BY DEF Wake
<1>2. t \in alive
  BY <1>1, AtCall
<1>3. PICK d \in Seq(CallRecords) : calls' = [calls EXCEPT ![t] = d] /\ Stack(srv, t, d)
  BY <1>1, GotoStep
<1>4. OnlyBits(srv, srv') /\ srv'.bits = srv.bits
  BY <1>1, SameServer
<1> QED
  BY <1>1, <1>2, <1>3, <1>4, MaskStep

\* The application asks for messages.
LEMMA PumpInv ==
  ASSUME IInv, NEW t \in Threads, Pump(t)
  PROVE  IInv'
<1>1. /\ t \in alive /\ calls[t] = <<>> /\ Push(t, Call("peek", NoMessage))
      /\ UNCHANGED <<srv, alive, used, told>>
  BY DEF Pump
<1>2. PICK d \in Seq(CallRecords) : calls' = [calls EXCEPT ![t] = d] /\ Stack(srv, t, d)
  BY <1>1, PeekStep
<1>3. OnlyBits(srv, srv') /\ srv'.bits = srv.bits
  BY <1>1, SameServer
<1> QED
  BY <1>1, <1>2, <1>3, MaskStep

\* The thread t, which is alive and stays so, goes on: what happens to the others
LEMMA CallStep ==
  ASSUME IInv, NEW t \in Threads, t \in alive, ServerInv(srv', used'), used' \subseteq Messages,
         Away(srv, srv', t), Shown(srv', t), NEW d \in Seq(CallRecords), Stack(srv', t, d),
         calls' = [calls EXCEPT ![t] = d], UNCHANGED <<alive, told>>
  PROVE  IInv'
<1>1. ToldInv'
  BY ToldKept DEF IInv, Away
<1>2. told' \in Told
  BY Inside
<1> QED
  BY <1>1, <1>2, ThreadStep

\* What is quiet leaves the others alone but for the results that t has received.
LEMMA QuietAway ==
  ASSUME NEW s, NEW x, NEW t \in Threads, Quiet(s, x), Shown(s, t),
         \A u \in Threads \ {t} : x.recv_result[u] = s.recv_result[u]
  PROVE  Away(s, x, t) /\ Shown(x, t)
BY DEF Quiet, Away

\* retrieve_reply: the first result is the one of the innermost call.
LEMMA RetrieveInv ==
  ASSUME IInv, NEW t \in Threads, Retrieve(t)
  PROVE  IInv'
<1>1. /\ At(t, "retrieve") /\ srv.send_result[t] # <<>> /\ srv' = ReplyTaken(srv, t) /\ Pop(t)
      /\ UNCHANGED <<alive, used>>
  BY DEF Retrieve
<1>2. PICK c \in Seq(CallRecords) : c = calls[t]
  BY Inside
<1>3. /\ t \in alive /\ c # <<>> /\ Top(t) = Head(c) /\ Head(c) \in CallRecords
      /\ Head(c).at = "retrieve" /\ Head(c).msg \in Messages /\ Head(c) = c[1]
      /\ Stack(srv, t, c)
  BY <1>1, <1>2, AtCall
<1>4. Head(c) \in WaitCalls /\ Head(c) \notin ProcCalls(srv)
  BY <1>3, ClassOf
<1>5. srv.send_result[t] \in Seq(Messages) /\ srv.recv_result[t] \in Seq(Messages)
  BY Inside
<1>6. PICK m \in Messages : m = Head(c).msg /\ m = Head(srv.send_result[t])
  BY <1>3, <1>4, <1>5, StackTop
<1>7. srv.res[m].replied
  <2>1. 1 \in DOMAIN c
    BY <1>3
  <2>2. "SMRESULT" \in srv.bits[t]
    BY <1>3, <2>1 DEF Stack
  <2> QED
    BY <1>6, <2>2, Inside DEF Shown
<1>8. ServerInv(srv', used') /\ Taken(srv, srv', t)
  BY <1>1, Inside, TakenInv
<1>9. srv \in Server /\ srv.send_result \in [Threads -> Seq(Messages)]
  BY Inside, ServerFields
<1>10. /\ srv'.send_result[t] = Tail(srv.send_result[t])
       /\ \A u \in Threads \ {t} : srv'.send_result[u] = srv.send_result[u]
  BY <1>8, <1>9 DEF Taken
<1>11. Away(srv, srv', t) /\ Shown(srv', t)
  BY <1>8, <1>10, Inside DEF Taken, Away
<1>12. PICK d : d = Tail(c)
  OBVIOUS
<1>13. d \in Seq(CallRecords) /\ Stack(srv', t, d)
  <2>1. srv'.recv_result[t] = srv.recv_result[t] /\ srv'.attr = srv.attr
    BY <1>8 DEF Taken
  <2> QED
    BY <1>3, <1>4, <1>5, <1>10, <1>12, <2>1, StackPop
<1>14. calls' = [calls EXCEPT ![t] = d]
  BY <1>1, <1>2, <1>12, Inside DEF Pop
<1>15. srv.res[m].answer \in Answers
  BY <1>9, ServerFields DEF Results
<1>16. told' = [told EXCEPT ![m] = [msg |-> m, answer |-> srv.res[m].answer]]
  BY <1>3, <1>6, <1>7 DEF Retrieve
<1>17. told \in Told
  BY Inside
<1>18. told' \in Told
  BY <1>15, <1>16, <1>17 DEF Told
<1>19. ToldInv'
  <2> SUFFICES ASSUME NEW n \in Messages, told'[n].msg # NoMessage
               PROVE  /\ srv'.res[n].replied
                      /\ told'[n] = [msg |-> n, answer |-> srv'.res[n].answer]
    BY DEF ToldInv
  <2>1. srv'.res[n].replied = srv.res[n].replied /\ srv'.res[n].answer = srv.res[n].answer
    BY <1>8 DEF Taken
  <2>2. CASE n = m
    BY <1>7, <1>16, <1>17, <2>1, <2>2 DEF Told
  <2>3. CASE n # m
    <3>1. told'[n] = told[n]
      BY <1>16, <1>17, <2>3 DEF Told
    <3> QED
      BY <2>1, <3>1 DEF IInv, ToldInv
  <2> QED
    BY <2>2, <2>3
<1>20. used' \subseteq Messages /\ t \in alive' /\ alive' \subseteq alive
  BY <1>1, <1>3, Inside
<1> QED
  BY <1>1, <1>8, <1>11, <1>13, <1>14, <1>18, <1>19, <1>20, ThreadStep

\* peek_message
LEMMA PeekInv ==
  ASSUME IInv, NEW t \in Threads, Peek(t)
  PROVE  IInv'
<1>1. At(t, "peek") /\ UNCHANGED <<alive, used, told>>
  BY DEF Peek
<1>2. PICK c \in Seq(CallRecords) : c = calls[t]
  BY Inside
<1>3. /\ t \in alive /\ c # <<>> /\ Head(c) \in CallRecords /\ Head(c).at = "peek"
      /\ Head(c) = c[1] /\ Stack(srv, t, c)
  BY <1>1, <1>2, AtCall
<1>4. Head(c) \notin WaitCalls /\ Head(c) \notin ProcCalls(srv)
  BY <1>3, ClassOf
<1>5. srv.send_result[t] \in Seq(Messages) /\ srv.recv_result[t] \in Seq(Messages)
  BY Inside
<1>6. srv \in Server /\ srv.recv_result \in [Threads -> Seq(Messages)] /\ srv.list \in [Threads -> Seq(Entries)]
  BY Inside, ServerFields
<1>7. CASE srv.list[t] = <<>>
  <2>1. srv' = SetMask(srv, t, {}) /\ Pop(t) /\ {} \in SUBSET Bits
    BY <1>7 DEF Peek, SetMask
  <2>2. OnlyBits(srv, srv') /\ srv'.bits = srv.bits
    BY <1>6, <2>1, MaskSet
  <2>3. PICK d : d = Tail(c)
    OBVIOUS
  <2>4. d \in Seq(CallRecords) /\ Stack(srv, t, d)
    BY <1>3, <1>4, <1>5, <2>3, StackPop
  <2>5. calls' = [calls EXCEPT ![t] = d]
    BY <1>2, <2>1, <2>3, Inside DEF Pop
  <2> QED
    BY <1>1, <1>3, <2>2, <2>4, <2>5, MaskStep
<1>8. CASE srv.list[t] # <<>>
  <2>1. PICK e \in Entries : e = Head(srv.list[t])
    BY <1>6, <1>8, ToSetTail
  <2>2. /\ srv' = Received(srv, t)
        /\ IF e.type = "message" THEN Push(t, Call("proc", e.msg)) ELSE UNCHANGED calls
    BY <1>8, <2>1 DEF Peek
  <2>3. /\ ServerInv(srv', used) /\ Quiet(srv, srv')
        /\ srv'.recv_result = IF e.type = "message" /\ Kind(srv, e.msg) # "notify"
                              THEN [srv.recv_result EXCEPT ![t] = <<e.msg>> \o @]
                              ELSE srv.recv_result
    <3>1. ReceivedDone(srv, used, srv', t)
      BY <1>8, <2>2, Inside, ReceivedInv
    <3> QED
      BY <2>1, <3>1 DEF ReceivedDone
  <2>4. \A u \in Threads \ {t} : srv'.recv_result[u] = srv.recv_result[u]
    BY <1>6, <2>3
  <2>5. Away(srv, srv', t) /\ Shown(srv', t)
    BY <2>3, <2>4, Inside, QuietAway
  <2>6. PICK m \in Messages : m = e.msg
    BY DEF Entries
  <2>7. PICK d \in Seq(CallRecords) : calls' = [calls EXCEPT ![t] = d] /\ Stack(srv', t, d)
    <3>1. CASE e.type = "message"
      <4>1. PICK k \in CallRecords : /\ k = Call("proc", m) /\ k.at = "proc" /\ k.msg = m
        BY CallTypeOf
      <4>2. k \notin WaitCalls /\ (k \in ProcCalls(srv) <=> Kind(srv, m) # "notify")
        BY <4>1, ClassOf
      <4>3. /\ srv'.recv_result[t] = IF k \in ProcCalls(srv) THEN <<k.msg>> \o srv.recv_result[t]
                                     ELSE srv.recv_result[t]
            /\ srv'.send_result[t] = IF k \in WaitCalls THEN <<k.msg>> \o srv.send_result[t]
                                     ELSE srv.send_result[t]
            /\ srv'.attr = srv.attr
        BY <1>6, <2>3, <2>6, <3>1, <4>1, <4>2 DEF Quiet
      <4>4. PICK d : d = <<k>> \o c
        OBVIOUS
      <4>5. c[1].at # "retrieve" /\ k.at # "retrieve" /\ k.msg \in Messages
        BY <1>3, <4>1
      <4>6. d \in Seq(CallRecords) /\ Stack(srv', t, d)
        BY <1>3, <1>5, <4>3, <4>4, <4>5, StackPush
      <4>7. calls' = [calls EXCEPT ![t] = d]
        BY <1>2, <2>2, <2>6, <3>1, <4>1, <4>4, Inside DEF Push
      <4> QED
        BY <4>6, <4>7
    <3>2. CASE e.type # "message"
      <4>1. Stack(srv', t, c)
        BY <1>3, <2>3, <3>2, StackKept DEF Quiet
      <4>2. calls' = [calls EXCEPT ![t] = c]
        BY <1>2, <2>2, <3>2, Inside
      <4> QED
        BY <4>1, <4>2
    <3> QED
      BY <3>1, <3>2
  <2>8. used' \subseteq Messages /\ ServerInv(srv', used')
    BY <1>1, <2>3, Inside
  <2> QED
    BY <1>1, <1>3, <2>5, <2>7, <2>8, CallStep
<1> QED
  BY <1>7, <1>8

\* NtUserReplyMessage
LEMMA ReplyMessageInv ==
  ASSUME IInv, NEW t \in Threads, ReplyMessage(t)
  PROVE  IInv'
<1>1. /\ At(t, "proc") /\ Kind(srv, Top(t).msg) \in {"send", "callback"}
      /\ srv' = Reply(srv, t, "value", FALSE) /\ Goto(t, "replied")
      /\ UNCHANGED <<alive, used, told>>
  BY DEF ReplyMessage
<1>2. PICK c \in Seq(CallRecords) : c = calls[t]
  BY Inside
<1>3. /\ t \in alive /\ c # <<>> /\ Top(t) = Head(c) /\ Head(c) \in CallRecords
      /\ Head(c).at = "proc" /\ Stack(srv, t, c)
  BY <1>1, <1>2, AtCall
<1>4. Head(c) \in ProcCalls(srv)
  BY <1>1, <1>3, ClassOf
<1>5. srv.send_result[t] \in Seq(Messages) /\ srv.recv_result[t] \in Seq(Messages)
  BY Inside
<1>6. srv.recv_result[t] # <<>>
  BY <1>3, <1>4, <1>5, StackTop
<1>7. "value" \in Answers /\ FALSE \in BOOLEAN
  BY DEF Answers
<1>8. ReplyDone(srv, used, srv', t, FALSE)
  BY <1>1, <1>6, <1>7, Inside, ReplyInv
<1>9. ServerInv(srv', used') /\ Quiet(srv, srv') /\ srv'.recv_result = srv.recv_result
  BY <1>1, <1>8 DEF ReplyDone, Answered
<1>10. Away(srv, srv', t) /\ Shown(srv', t)
  BY <1>9, Inside, QuietAway
<1>11. PICK d \in Seq(CallRecords) : calls' = [calls EXCEPT ![t] = d] /\ Stack(srv, t, d)
  BY <1>1, GotoStep
<1>12. Stack(srv', t, d)
  BY <1>9, <1>11, StackKept DEF Quiet
<1>13. used' \subseteq Messages
  BY <1>1, Inside
<1> QED
  BY <1>1, <1>3, <1>9, <1>10, <1>11, <1>12, <1>13, CallStep

\* The window procedure or the hook returns.
LEMMA ProcReturnsInv ==
  ASSUME IInv, NEW t \in Threads, ProcReturns(t)
  PROVE  IInv'
<1>1. PICK pc \in {"proc", "replied"} : At(t, pc)
  BY DEF ProcReturns
<1>2. /\ \/ Kind(srv, Top(t).msg) = "notify" /\ srv' = srv
         \/ /\ Kind(srv, Top(t).msg) # "notify"
            /\ \E answer \in Answers : srv' = Reply(srv, t, answer, TRUE)
      /\ Pop(t) /\ UNCHANGED <<alive, used, told>>
  BY DEF ProcReturns, Answers
<1>3. PICK c \in Seq(CallRecords) : c = calls[t]
  BY Inside
<1>4. /\ t \in alive /\ c # <<>> /\ Top(t) = Head(c) /\ Head(c) \in CallRecords
      /\ Head(c).at = pc /\ Stack(srv, t, c)
  BY <1>1, <1>3, AtCall
<1>5. Head(c) \notin WaitCalls /\ (Head(c) \in ProcCalls(srv) <=> Kind(srv, Top(t).msg) # "notify")
  BY <1>4, ClassOf
<1>6. srv.send_result[t] \in Seq(Messages) /\ srv.recv_result[t] \in Seq(Messages)
  BY Inside
<1>7. PICK d : d = Tail(c)
  OBVIOUS
<1>8. calls' = [calls EXCEPT ![t] = d]
  BY <1>2, <1>3, <1>7, Inside DEF Pop
<1>9. CASE Kind(srv, Top(t).msg) = "notify"
  <2>1. srv' = srv
    BY <1>2, <1>9
  <2>2. OnlyBits(srv, srv') /\ srv'.bits = srv.bits
    BY <2>1, SameServer
  <2>3. d \in Seq(CallRecords) /\ Stack(srv, t, d)
    BY <1>4, <1>5, <1>6, <1>7, <1>9, StackPop
  <2> QED
    BY <1>2, <1>4, <1>8, <2>2, <2>3, MaskStep
<1>10. CASE Kind(srv, Top(t).msg) # "notify"
  <2>1. PICK answer \in Answers : srv' = Reply(srv, t, answer, TRUE)
    BY <1>2, <1>10
  <2>2. srv.recv_result[t] # <<>>
    BY <1>4, <1>5, <1>6, <1>10, StackTop
  <2>3. ReplyDone(srv, used, srv', t, TRUE)
    BY <2>1, <2>2, Inside, ReplyInv
  <2>4. srv.recv_result \in [Threads -> Seq(Messages)]
    BY Inside, ServerFields
  <2>5. /\ ServerInv(srv', used') /\ Quiet(srv, srv')
        /\ srv'.recv_result = [srv.recv_result EXCEPT ![t] = Tail(srv.recv_result[t])]
    BY <1>2, <2>3 DEF ReplyDone, Answered
  <2>6. /\ srv'.recv_result[t] = Tail(srv.recv_result[t])
        /\ \A u \in Threads \ {t} : srv'.recv_result[u] = srv.recv_result[u]
    BY <2>4, <2>5
  <2>7. Away(srv, srv', t) /\ Shown(srv', t)
    BY <2>5, <2>6, Inside, QuietAway
  <2>8. srv'.send_result[t] = srv.send_result[t] /\ srv'.attr = srv.attr
    BY <2>5 DEF Quiet
  <2>9. d \in Seq(CallRecords) /\ Stack(srv', t, d)
    BY <1>4, <1>5, <1>6, <1>7, <1>10, <2>6, <2>8, StackPop
  <2>10. used' \subseteq Messages
    BY <1>2, Inside
  <2> QED
    BY <1>2, <1>4, <1>8, <2>5, <2>7, <2>9, <2>10, CallStep
<1> QED
  BY <1>9, <1>10

\* A message that is not sent is used all the same: nothing is said of it any more.
LEMMA UsedMore ==
  ASSUME NEW s, NEW U, ServerInv(s, U), NEW m
  PROVE  ServerInv(s, U \union {m})
BY DEF ServerInv, Links

\* send_message, and the sender that goes on to wait
LEMMA SendInv ==
  ASSUME IInv, NEW t \in Threads, NEW m \in Messages, Send(t, m)
  PROVE  IInv'
<1>1. /\ InApplication(t) /\ srv.attr[m].from = t /\ m \notin used /\ used' = used \union {m}
      /\ UNCHANGED <<alive, told>>
  BY DEF Send
<1>2. PICK c \in Seq(CallRecords) : c = calls[t]
  BY Inside
<1>3. t \in alive /\ Stack(srv, t, c) /\ (c # <<>> => c[1].at # "retrieve")
  <2>1. t \in alive
    BY <1>1 DEF InApplication
  <2>2. c # <<>> => Top(t) = Head(c) /\ Head(c) = c[1]
    BY <1>2 DEF Top
  <2>3. c # <<>> => c[1].at # "retrieve"
    BY <1>1, <2>2 DEF InApplication
  <2> QED
    BY <1>2, <2>1, <2>3, Inside
<1>4. srv.send_result[t] \in Seq(Messages) /\ srv.recv_result[t] \in Seq(Messages)
  BY Inside
<1>5. used' \subseteq Messages
  BY <1>1, Inside
<1>6. CASE srv.attr[m].to \in alive
  <2>1. /\ srv' = Queued(srv, m)
        /\ IF Kind(srv, m) \in {"send", "hook"} THEN Push(t, Call("wait", m)) ELSE UNCHANGED calls
    BY <1>6 DEF Send
  <2>2. ServerInv(srv', used') /\ Sent(srv, srv', m)
    BY <1>1, <2>1, Inside, QueuedInv
  <2>3. Awaited(srv, m) <=> Kind(srv, m) \in {"send", "hook"}
    BY <1>1, MessageAssumption DEF Awaited
  <2>4. srv.send_result \in [Threads -> Seq(Messages)]
    BY Inside, ServerFields
  <2>5. /\ srv'.send_result[t] = IF Kind(srv, m) \in {"send", "hook"}
                                 THEN <<m>> \o srv.send_result[t] ELSE srv.send_result[t]
        /\ \A u \in Threads \ {t} : srv'.send_result[u] = srv.send_result[u]
        /\ srv'.recv_result = srv.recv_result /\ srv'.attr = srv.attr
    BY <1>1, <2>2, <2>3, <2>4 DEF Sent
  <2>6. Away(srv, srv', t) /\ Shown(srv', t)
    BY <1>1, <2>2, <2>5, Inside DEF Sent, Away
  <2>7. PICK d \in Seq(CallRecords) : calls' = [calls EXCEPT ![t] = d] /\ Stack(srv', t, d)
    <3>1. CASE Kind(srv, m) \in {"send", "hook"}
      <4>1. PICK k \in CallRecords : k = Call("wait", m) /\ k.at = "wait" /\ k.msg = m
        BY CallTypeOf
      <4>2. k \in WaitCalls /\ k \notin ProcCalls(srv)
        BY <4>1, ClassOf
      <4>3. PICK d : d = <<k>> \o c
        OBVIOUS
      <4>4. k.at # "retrieve" /\ k.msg \in Messages
        BY <4>1
      <4>5. /\ srv'.send_result[t] = <<k.msg>> \o srv.send_result[t]
            /\ srv'.recv_result[t] = srv.recv_result[t]
        BY <2>5, <3>1, <4>1
      <4>6. d \in Seq(CallRecords) /\ Stack(srv', t, d)
        BY <1>3, <1>4, <2>5, <4>2, <4>3, <4>4, <4>5, StackPush
      <4>7. calls' = [calls EXCEPT ![t] = d]
        BY <1>2, <2>1, <3>1, <4>1, <4>3, Inside DEF Push
      <4> QED
        BY <4>6, <4>7
    <3>2. CASE Kind(srv, m) \notin {"send", "hook"}
      <4>1. calls' = [calls EXCEPT ![t] = c]
        BY <1>2, <2>1, <3>2, Inside
      <4>2. /\ ProcCalls(srv') = ProcCalls(srv) /\ srv'.send_result[t] = srv.send_result[t]
            /\ srv'.recv_result[t] = srv.recv_result[t]
        BY <2>5, <3>2 DEF ProcCalls, Kind
      <4>3. \A i \in DOMAIN c : c[i].at # "retrieve"
        BY <1>3 DEF Stack
      <4>4. Stack(srv', t, c)
        BY <1>3, <4>2, <4>3 DEF Stack
      <4> QED
        BY <4>1, <4>4
    <3> QED
      BY <3>1, <3>2
  <2> QED
    BY <1>1, <1>3, <1>5, <2>2, <2>6, <2>7, CallStep
<1>7. CASE srv.attr[m].to \notin alive
  <2>1. UNCHANGED <<srv, calls>>
    BY <1>7 DEF Send
  <2>2. ServerInv(srv', used')
    BY <1>1, <2>1, Inside, UsedMore
  <2>3. Still(srv, srv')
    BY <2>1 DEF Still, Quiet
  <2> QED
    BY <1>1, <1>5, <2>1, <2>2, <2>3, ServerStep
<1> QED
  BY <1>6, <1>7

-----------------------------------------------------------------------------
(* The theorems.                                                            *)

\* The invariant holds at the start.
LEMMA InitInv ==
  ASSUME Init
  PROVE  IInv
<1>1. PICK attr \in Attrs :
        srv = [list |-> [t \in Threads |-> <<>>],
               send_result |-> [t \in Threads |-> <<>>],
               callback_result |-> [t \in Threads |-> <<>>],
               recv_result |-> [t \in Threads |-> <<>>],
               bits |-> [t \in Threads |-> {}],
               mask |-> [t \in Threads |-> {}],
               res |-> [m \in Messages |-> NoResult],
               input |-> [m \in Messages |-> "none"],
               attr |-> attr]
  BY DEF Init
<1>2. /\ alive = Threads /\ calls = [t \in Threads |-> <<>>] /\ used = {}
      /\ told = [m \in Messages |-> [msg |-> NoMessage, answer |-> "none"]]
  BY DEF Init
<1>3. NoResult \in Results
  BY DEF NoResult, Results, Somebody, Answers
<1>4. srv \in Server
  <2>1. [t \in Threads |-> <<>>] \in [Threads -> Seq(Entries)]
    OBVIOUS
  <2>2. [t \in Threads |-> <<>>] \in [Threads -> Seq(Messages)]
    OBVIOUS
  <2>3. [t \in Threads |-> {}] \in [Threads -> SUBSET Bits]
    OBVIOUS
  <2>4. [m \in Messages |-> NoResult] \in [Messages -> Results]
    BY <1>3
  <2>5. [m \in Messages |-> "none"]
          \in [Messages -> {"none", "held", "queued", "rejected", "lost"}]
    OBVIOUS
  <2> QED
    BY <1>1, <2>1, <2>2, <2>3, <2>4, <2>5 DEF Server
<1>5. /\ \A t \in Threads : /\ srv.list[t] = <<>> /\ srv.send_result[t] = <<>>
                            /\ srv.callback_result[t] = <<>> /\ srv.recv_result[t] = <<>>
                            /\ srv.bits[t] = {}
      /\ \A m \in Messages : srv.res[m] = NoResult /\ srv.input[m] = "none"
  BY <1>1
<1>6. ToSet(<<>>) = {} /\ Distinct(<<>>)
  BY DEF ToSet, Distinct
<1>7. Lists(srv)
  BY <1>5, <1>6 DEF Lists
<1>8. /\ NoResult.sender = NoThread /\ NoResult.receiver = NoThread /\ NoResult.msg = FALSE
      /\ NoResult.live = FALSE /\ NoResult.hardware = FALSE /\ NoResult.timeout = FALSE
  BY DEF NoResult
<1>9. ASSUME NEW m \in Messages
      PROVE  SentLink(srv, m) /\ ReceivedLink(srv, m) /\ Unsent(srv, m) /\ Lives(srv, m)
  <2>1. srv.res[m] = NoResult /\ srv.input[m] = "none"
    BY <1>5
  <2>2. SentLink(srv, m)
    BY <1>5, <1>6, <1>8, <2>1, MessageAssumption DEF SentLink
  <2>3. ReceivedLink(srv, m)
    BY <1>5, <1>6, <1>8, <2>1, MessageAssumption DEF ReceivedLink
  <2>4. Unsent(srv, m)
    BY <1>5, <1>6, <2>1 DEF Unsent
  <2>5. Lives(srv, m)
    BY <1>8, <2>1 DEF Lives, Held
  <2> QED
    BY <2>2, <2>3, <2>4, <2>5
<1>10. ServerInv(srv, used)
  BY <1>4, <1>5, <1>7, <1>9 DEF ServerInv, Links
<1>11. CallTypes
  <2>1. [t \in Threads |-> <<>>] \in [Threads -> Seq(CallRecords)]
    OBVIOUS
  <2> QED
    BY <1>2, <2>1 DEF CallTypes, Told, Answers
<1>12. ASSUME NEW t \in Threads
       PROVE  Shown(srv, t) /\ CallInv(t)
  <2>1. Shown(srv, t)
    BY <1>5 DEF Shown
  <2>2. \A A : InStep(<<>>, <<>>, Where(<<>>, A))
    <3> SUFFICES ASSUME NEW A PROVE InStep(<<>>, <<>>, Where(<<>>, A))
      OBVIOUS
    <3>1. Where(<<>>, A) = {} /\ DOMAIN <<>> = {}
      BY DEF Where
    <3>2. PICK f : f = [i \in {} |-> i]
      OBVIOUS
    <3>3. f \in [DOMAIN <<>> -> Where(<<>>, A)]
      BY <3>1, <3>2
    <3> QED
      BY <3>1, <3>3 DEF InStep
  <2>3. Stack(srv, t, <<>>)
    BY <1>5, <2>2 DEF Stack
  <2> QED
    BY <1>2, <2>1, <2>3 DEF CallInv
<1>13. ToldInv
  BY <1>2 DEF ToldInv
<1> QED
  BY <1>10, <1>11, <1>12, <1>13 DEF IInv

\* Every step keeps it.
LEMMA NextInv ==
  ASSUME IInv, [Next]_vars
  PROVE  IInv'
<1>1. ASSUME NEW t \in Threads, ClientStep(t)
      PROVE  IInv'
  BY <1>1, CheckBitsInv, WakeInv, RetrieveInv, PumpInv, PeekInv, ProcReturnsInv DEF ClientStep
<1>2. ASSUME NEW t \in Threads, \/ ReplyMessage(t) \/ DestroyWindow(t) \/ Die(t) \/ Terminate(t)
                                \/ \E m \in Messages : Send(t, m)
      PROVE  IInv'
  BY <1>2, ReplyMessageInv, DestroyWindowInv, DieInv, TerminateInv, SendInv
<1>3. ASSUME NEW m \in Messages, HardwareInput(m) \/ TimeOut(m)
      PROVE  IInv'
  BY <1>3, HardwareInputInv, TimeOutInv
<1>4. CASE UNCHANGED vars
  <2>1. UNCHANGED <<srv, alive, calls, used, told>>
    BY <1>4 DEF vars
  <2>2. Still(srv, srv')
    BY <2>1 DEF Still, Quiet
  <2>3. ServerInv(srv', used') /\ used' \subseteq Messages
    BY <2>1 DEF IInv, CallTypes
  <2> QED
    BY <2>1, <2>2, <2>3, ServerStep
<1> QED
  BY <1>1, <1>2, <1>3, <1>4 DEF Next

\* The server agrees with itself and with its clients: the lists of the queues, the links
\* and flags of the results, the wake bits, the stacks of calls of the threads that live
\* and what senders were told, at every step of every number of threads and messages.
THEOREM ServerAgrees == Spec => []IInv
<1>1. Init => IInv
  BY InitInv
<1>2. IInv /\ [Next]_vars => IInv'
  BY NextInv
<1> QED
  BY <1>1, <1>2, PTL DEF Spec

\* The queue bits, the input held for hooks, the threads and the messages have their types.
THEOREM TypeCorrect == Spec => []TypeOK
<1>1. IInv => TypeOK
  <2> SUFFICES ASSUME IInv PROVE TypeOK
    OBVIOUS
  <2>1. srv \in Server /\ CallTypes
    BY DEF IInv, ServerInv, Links
  <2>2. /\ srv.bits \in [Threads -> SUBSET Bits]
        /\ srv.input \in [Messages -> {"none", "held", "queued", "rejected", "lost"}]
    BY <2>1, ServerFields
  <2> QED
    BY <2>1, <2>2 DEF TypeOK, CallTypes, Bits
<1> QED
  BY <1>1, ServerAgrees, PTL

\* What the links say of the references to one result
LEMMA OwnedInv ==
  ASSUME IInv
  PROVE  ResultsOwned
<1> SUFFICES ASSUME NEW m \in Messages
             PROVE  LET r == srv.res[m]
                        sent == {t \in Threads : m \in ToSet(srv.send_result[t] \o srv.callback_result[t])}
                        queued == {t \in Threads : Entry("message", m) \in ToSet(srv.list[t])}
                        received == {t \in Threads : m \in ToSet(srv.recv_result[t])}
                    IN /\ sent = (IF r.sender = NoThread THEN {} ELSE {r.sender})
                       /\ Kind(srv, m) # "notify" => r.msg = (queued # {})
                       /\ (queued \union received = {}) = (r.receiver = NoThread) \/ Kind(srv, m) = "notify"
                       /\ received # {} => received = {r.receiver} /\ ~r.msg
                       /\ r.live = (sent # {} \/ r.receiver # NoThread)
                       /\ r.hardware = (srv.input[m] = "held") /\ srv.input[m] # "lost"
                       /\ r.timeout => r.live /\ ~r.replied
  BY Zenon DEF ResultsOwned
<1> DEFINE sent == {t \in Threads : m \in ToSet(srv.send_result[t] \o srv.callback_result[t])}
           queued == {t \in Threads : Entry("message", m) \in ToSet(srv.list[t])}
           received == {t \in Threads : m \in ToSet(srv.recv_result[t])}
<1>1. srv \in Server /\ SentLink(srv, m) /\ ReceivedLink(srv, m) /\ Lives(srv, m)
  BY DEF IInv, ServerInv, Links
<1>2. PICK r \in Results : r = srv.res[m]
  BY <1>1, ServerFields
<1>3. /\ r.sender \in Somebody /\ r.receiver \in Somebody /\ r.msg \in BOOLEAN /\ r.live \in BOOLEAN
      /\ r.hardware \in BOOLEAN /\ NoThread \notin Threads
  BY MessageAssumption DEF Results
<1>4. \A t \in Threads : t \in sent <=> r.sender = t
  <2> SUFFICES ASSUME NEW t \in Threads
               PROVE  m \in ToSet(srv.send_result[t] \o srv.callback_result[t]) <=> r.sender = t
    OBVIOUS
  <2>1. srv.send_result[t] \in Seq(Messages) /\ srv.callback_result[t] \in Seq(Messages)
    BY <1>1, ServerFields
  <2>2. ToSet(srv.send_result[t] \o srv.callback_result[t])
          = ToSet(srv.send_result[t]) \union ToSet(srv.callback_result[t])
    BY <2>1, ToSetConcat
  <2> QED
    BY <1>1, <1>2, <2>2 DEF SentLink
<1>5. \A t \in Threads : t \in received <=> r.receiver = t /\ ~r.msg
  BY <1>1, <1>2 DEF ReceivedLink
<1>6. Kind(srv, m) # "notify" => \A t \in Threads : t \in queued <=> r.receiver = t /\ r.msg
  BY <1>1, <1>2 DEF ReceivedLink
<1>7. sent \subseteq Threads /\ queued \subseteq Threads /\ received \subseteq Threads
  OBVIOUS
<1>8. /\ r.live <=> r.sender # NoThread \/ r.receiver # NoThread
      /\ r.hardware <=> srv.input[m] = "held"
      /\ srv.input[m] # "lost"
      /\ r.timeout => r.live /\ ~r.replied
  BY <1>1, <1>2 DEF Lives, Held
<1>9. r.msg => r.receiver \in Threads
  <2>1. srv.attr[m].to \in Threads
    BY <1>1, Attributes
  <2> QED
    BY <1>1, <1>2, <2>1 DEF ReceivedLink
<1> HIDE DEF sent, queued, received
<1>10. sent = (IF r.sender = NoThread THEN {} ELSE {r.sender})
  BY <1>3, <1>4, <1>7 DEF Somebody
<1>11. Kind(srv, m) # "notify" => r.msg = (queued # {})
  BY <1>3, <1>6, <1>7, <1>9
<1>12. Kind(srv, m) # "notify" => (queued \union received = {}) = (r.receiver = NoThread)
  BY <1>3, <1>5, <1>6, <1>7 DEF Somebody
<1>13. received # {} => received = {r.receiver} /\ ~r.msg
  BY <1>5, <1>7
<1>14. r.live = (sent # {} \/ r.receiver # NoThread)
  BY <1>3, <1>8, <1>10
<1>15. r.hardware = (srv.input[m] = "held") /\ srv.input[m] # "lost"
  BY <1>3, <1>8
<1> USE DEF sent, queued, received
<1> QED
  BY <1>2, <1>8, <1>10, <1>11, <1>12, <1>13, <1>14, <1>15

\* A result of a message is owned by the stack of its sender, the list or the stack of its
\* receiver, and by nobody else; it is freed when the last of them lets it go, never
\* before, and never with the hardware message of a hook (alloc_message_result,
\* receive_message, reply_message, remove_result_from_sender, free_result).
THEOREM ResultsAreOwned == Spec => []ResultsOwned
<1>1. IInv => ResultsOwned
  BY OwnedInv
<1> QED
  BY <1>1, ServerAgrees, PTL

\* The calls, the bits and the answers are as RightReply says.
LEMMA RightInv ==
  ASSUME IInv
  PROVE  RightReply
<1>1. ASSUME NEW t \in alive
      PROVE  LET results == srv.send_result[t]
                 waits == {i \in DOMAIN calls[t] : calls[t][i].at \in {"wait", "asleep", "retrieve"}}
             IN /\ InStep(results, calls[t], waits)
                /\ ("SMRESULT" \in srv.bits[t]) = (results # <<>> /\ srv.res[Head(results)].replied)
                /\ ("SENDMESSAGE" \in srv.bits[t]) = (srv.list[t] # <<>>)
                /\ At(t, "retrieve") => "SMRESULT" \in srv.bits[t]
  <2>1. t \in Threads
    BY DEF IInv, CallTypes
  <2>2. PICK c \in Seq(CallRecords) : c = calls[t] /\ Stack(srv, t, c)
    BY <2>1, Inside
  <2>3. {i \in DOMAIN c : c[i].at \in {"wait", "asleep", "retrieve"}} = Where(c, WaitCalls)
    <3>1. \A i \in DOMAIN c : c[i] \in CallRecords
      OBVIOUS
    <3> QED
      BY <3>1 DEF Where, WaitCalls
  <2>4. InStep(srv.send_result[t], c, Where(c, WaitCalls))
    BY <2>2 DEF Stack
  <2>5. Shown(srv, t)
    BY <2>1, Inside
  <2>6. srv.send_result[t] # <<>> => srv.res[Head(srv.send_result[t])].replied \in BOOLEAN
    <3>1. srv \in Server /\ srv.send_result[t] \in Seq(Messages)
      BY <2>1, Inside
    <3>2. srv.send_result[t] # <<>> => Head(srv.send_result[t]) \in Messages
      BY <3>1, ToSetTail
    <3> QED
      BY <3>1, <3>2, ServerFields DEF Results
  <2>7. ("SMRESULT" \in srv.bits[t])
          = (srv.send_result[t] # <<>> /\ srv.res[Head(srv.send_result[t])].replied)
    BY <2>5, <2>6 DEF Shown
  <2>8. ("SENDMESSAGE" \in srv.bits[t]) = (srv.list[t] # <<>>)
    BY <2>5 DEF Shown
  <2>9. At(t, "retrieve") => "SMRESULT" \in srv.bits[t]
    <3> SUFFICES ASSUME At(t, "retrieve") PROVE "SMRESULT" \in srv.bits[t]
      OBVIOUS
    <3>1. c # <<>> /\ c[1].at = "retrieve"
      BY <2>1, <2>2, AtCall
    <3>2. 1 \in DOMAIN c
      BY <3>1
    <3> QED
      BY <2>2, <3>1, <3>2 DEF Stack
  <2> QED
    BY <2>2, <2>3, <2>4, <2>7, <2>8, <2>9
<1>2. \A m \in Messages : told[m].msg # NoMessage => told[m] = [msg |-> m, answer |-> srv.res[m].answer]
  BY DEF IInv, ToldInv
<1> QED
  BY <1>1, <1>2, Zenon DEF RightReply

\* A sender is told the answer to its own message, and the answer is final, however sends
\* nest, replies overtake each other, timeouts and deaths intervene: the results on the
\* stack of a queue are those of the calls that wait, in their order, and QS_SMRESULT is
\* set exactly while the first of them is answered (store_message_result,
\* alloc_message_result, get_message_reply, wait_message_reply).
THEOREM RepliesAreRight == Spec => []RightReply
<1>1. IInv => RightReply
  BY RightInv
<1> QED
  BY <1>1, ServerAgrees, PTL
=============================================================================
