------------------------- MODULE SelectProtocolProofs -------------------------
(***************************************************************************)
(* For any suspend count, any number of queued APCs and however often the  *)
(* signal handler interrupts server_select: a level that reads the pipe    *)
(* has exactly one answer coming, and the server never refuses a context.  *)
(*                                                                         *)
(* OneAnswer alone is not inductive.  That the answers of the two levels   *)
(* are not mixed up has to be known from where they can be: Talk lists     *)
(* what the waits, the pipe and the stolen replies hold for each level.    *)
(* NotRefused needs to know that a context is valid only while level 2     *)
(* runs and no reply that ends it is underway (ContextInv).                *)
(***************************************************************************)
EXTENDS SelectProtocol, FiniteSetTheorems, SequenceTheorems, TLAPS

\* Level 1 has its one answer, or none if it does not read: its wait, or the reply in the pipe.
AloneTalk ==
  IF pc[1] = "read"
  THEN \/ wait = << 1 >> /\ pipe = <<>>
       \/ wait = <<>> /\ \E s \in Status : pipe = <<[cookie |-> 1, status |-> s]>>
  ELSE wait = <<>> /\ pipe = <<>>

\* Level 2 reads on top of level 1: the answer of level 1 may be in the pipe, before or after
\* its own, or be stolen.
BothTalk ==
  \/ /\ wait = <<2, 1>> /\ pipe = <<>> /\ stolen = <<>>
  \/ \E s \in Status :
       \/ /\ wait = << 1 >> /\ pipe = <<[cookie |-> 2, status |-> s]>> /\ stolen = <<>>
       \/ /\ wait = << 2 >> /\ pipe = <<[cookie |-> 1, status |-> s]>> /\ stolen = <<>>
       \/ /\ wait = << 2 >> /\ pipe = <<>> /\ stolen = <<[cookie |-> 1, status |-> s]>>
  \/ \E r, s \in Status :
       LET a == [cookie |-> 1, status |-> r]
           b == [cookie |-> 2, status |-> s]
       IN /\ wait = <<>>
          /\ \/ pipe = <<a, b>> /\ stolen = <<>>
             \/ pipe = <<b, a>> /\ stolen = <<>>
             \/ pipe = <<b>> /\ stolen = <<a>>

\* Level 2 reads while level 1 runs its program or prepares a request.
OverTalk ==
  /\ stolen = <<>>
  /\ \/ wait = << 2 >> /\ pipe = <<>>
     \/ wait = <<>> /\ \E s \in Status : pipe = <<[cookie |-> 2, status |-> s]>>

Talk ==
  /\ level = 1 => pc[2] = "idle"
  /\ level = 2 => pc[2] # "idle" /\ pc[1] # "apc"
  /\ pc[2] # "read" => stolen = <<>> /\ AloneTalk
  /\ pc[2] = "read" /\ pc[1] = "read" => BothTalk
  /\ pc[2] = "read" /\ pc[1] # "read" => OverTalk

\* A valid context is the one of the level 2 that runs, which goes on until it is dropped.
ContextInv ==
  context = "valid" =>
    /\ state = "RUNNING" /\ level = 2 /\ ~ suspend_context /\ suspend_cookie = 2
    /\ \A i \in 1..Len(pipe) : pipe[i].cookie = 2 => pipe[i].status = "KERNEL_APC"

SelectInv == TypeOK /\ (state = "RUNNING" => Talk) /\ ContextInv

-------------------------------------------------------------------------------
(* Short sequences.                                                        *)

LEMMA Tuples ==
  /\ \A a : /\ <<a>> # <<>> /\ Head(<<a>>) = a /\ Tail(<<a>>) = <<>>
            /\ Append(<<>>, a) = <<a>> /\ <<a>> \o <<>> = <<a>> /\ <<>> \o <<a>> = <<a>>
  /\ \A a, b : /\ <<a, b>> # <<>> /\ Head(<<a, b>>) = a /\ Tail(<<a, b>>) = <<b>>
               /\ Append(<<a>>, b) = <<a, b>> /\ <<a>> \o <<b>> = <<a, b>>
               /\ <<a, b>> \o <<>> = <<a, b>>
<1>1. ASSUME NEW a PROVE /\ <<a>> # <<>> /\ Head(<<a>>) = a /\ Tail(<<a>>) = <<>>
                         /\ Append(<<>>, a) = <<a>> /\ <<a>> \o <<>> = <<a>> /\ <<>> \o <<a>> = <<a>>
  OBVIOUS
<1>2. ASSUME NEW a, NEW b PROVE <<a, b>> # <<>> /\ Head(<<a, b>>) = a /\ Tail(<<a, b>>) = <<b>>
  OBVIOUS
<1>5. ASSUME NEW a, NEW b, NEW q \in Seq({a, b}), Len(q) = 2, q[1] = a, q[2] = b PROVE q = <<a, b>>
  <2>0. <<a, b>> \in Seq({a, b})
    OBVIOUS
  <2>4. Len(<<a, b>>) = 2 /\ <<a, b>>[1] = a /\ <<a, b>>[2] = b
    OBVIOUS
  <2>1. PICK r \in Seq({a, b}) : r = <<a, b>> /\ Len(r) = 2 /\ r[1] = a /\ r[2] = b
    BY <2>0, <2>4, Zenon
  <2>2. Len(q) = Len(r) /\ \A i \in 1..Len(q) : q[i] = r[i]
    BY <1>5, <2>1
  <2>3. q = r
    BY <2>2, SeqEqual
  <2> QED
    BY <2>1, <2>3
<1>3. ASSUME NEW a, NEW b PROVE Append(<<a>>, b) = <<a, b>>
  <2>1. <<a>> \in Seq({a, b})
    OBVIOUS
  <2>2. PICK q : q = Append(<<a>>, b)
    OBVIOUS
  <2>3. q \in Seq({a, b}) /\ Len(q) = 2 /\ q[1] = a /\ q[2] = b
    BY <2>1, <2>2
  <2> QED
    BY <2>2, <2>3, <1>5
<1>4. ASSUME NEW a, NEW b PROVE <<a>> \o <<b>> = <<a, b>> /\ <<a, b>> \o <<>> = <<a, b>>
  <2>1. /\ <<a>> \in Seq({a, b}) /\ <<b>> \in Seq({a, b}) /\ <<a, b>> \in Seq({a, b})
        /\ Len(<<a>>) = 1 /\ Len(<<b>>) = 1
    OBVIOUS
  <2>2. PICK q : q = <<a>> \o <<b>>
    OBVIOUS
  <2>3. q \in Seq({a, b}) /\ Len(q) = 2 /\ q[1] = a /\ q[2] = b
    BY <2>1, <2>2
  <2>4. q = <<a, b>>
    BY <2>3, <1>5
  <2>5. <<a, b>> \o <<>> = <<a, b>>
    BY <2>1, ConcatEmptySeq
  <2> QED
    BY <2>2, <2>4, <2>5
<1> QED
  BY <1>1, <1>2, <1>3, <1>4

LEMMA ReverseShort == Reverse(<<>>) = <<>> /\ \A a : Reverse(<<a>>) = <<a>>
<1>1. Reverse(<<>>) = <<>>
  BY DEF Reverse
<1>2. ASSUME NEW a PROVE Reverse(<<a>>) = <<a>>
  BY DEF Reverse
<1> QED
  BY <1>1, <1>2

\* Putting replies back makes a sequence of replies.
LEMMA PutBackTyped ==
  ASSUME NEW p \in Seq(Reply), NEW q \in Seq(Reply)
  PROVE  /\ p \o Reverse(q) \in Seq(Reply)
         /\ p # <<>> => Tail(p) \in Seq(Reply) /\ Head(p) \in Reply
<1>1. Reverse(q) \in Seq(Reply)
  BY DEF Reverse
<1> QED
  BY <1>1

\* What check_wait() can say of each level
LEMMA CheckWaitIs ==
  /\ \A l : CheckWait(l) \in Status
  /\ CheckWait(2) \in {"none", "TIMEOUT", "KERNEL_APC"}
  /\ CheckWait(1) # "TIMEOUT"
BY DEF CheckWait, Status

-------------------------------------------------------------------------------
(* Types.                                                                  *)

\* The waits, when one ends and when one is added
LEMMA WaitsTyped ==
  ASSUME TypeOK
  PROVE  wait # <<>> => /\ Tail(wait) \in {<<>>, << 1 >>} /\ Head(wait) \in Levels
                        /\ Tail(wait) = << 1 >> => wait = <<2, 1>>
<1>1. /\ Tail(<< 1 >>) = <<>> /\ Tail(<< 2 >>) = <<>> /\ Tail(<<2, 1>>) = << 1 >>
      /\ Head(<< 1 >>) = 1 /\ Head(<< 2 >>) = 2 /\ Head(<<2, 1>>) = 2 /\ << 1 >> # <<>>
  BY Tuples
<1>2. wait \in {<<>>, << 1 >>, << 2 >>, <<2, 1>>}
  BY DEF TypeOK, Waits
<1>3. CASE wait = << 1 >> \/ wait = << 2 >>
  BY <1>1, <1>3 DEF Levels
<1>4. CASE wait = <<2, 1>>
  BY <1>1, <1>4 DEF Levels
<1> QED
  BY <1>2, <1>3, <1>4

LEMMA ServerTyped ==
  ASSUME TypeOK, Server
  PROVE  TypeOK'
<1>1. CASE WakeThread
  <2>1. PICK l \in Levels, s \in Status : pipe' = Append(pipe, [cookie |-> l, status |-> s])
    <3>1. /\ Head(wait) \in Levels /\ CheckWait(Head(wait)) \in Status /\ "KERNEL_APC" \in Status
          /\ \/ pipe' = Append(pipe, [cookie |-> Head(wait), status |-> "KERNEL_APC"])
             \/ pipe' = Append(pipe, [cookie |-> Head(wait), status |-> CheckWait(Head(wait))])
      BY <1>1, WaitsTyped, CheckWaitIs DEF WakeThread, Status
    <3> QED
      BY <3>1
  <2>2. [cookie |-> l, status |-> s] \in Reply
    BY DEF Reply
  <2>3. pipe' \in Seq(Reply)
    BY <2>1, <2>2 DEF TypeOK
  <2>4. wait' \in Waits
    BY <1>1, WaitsTyped DEF WakeThread, Waits
  <2>5. context' \in {"none", "pending", "valid"} /\ event' \in BOOLEAN
    BY <1>1 DEF WakeThread, TypeOK, Satisfy
  <2> QED
    BY <1>1, <2>3, <2>4, <2>5 DEF WakeThread, TypeOK, clientVars
<1>2. CASE WakeThreadDone
  BY <1>2 DEF WakeThreadDone, TypeOK, clientVars
<1> QED
  BY <1>1, <1>2 DEF Server

LEMMA OthersTyped ==
  ASSUME TypeOK, Others
  PROVE  TypeOK'
<1> USE ConstantsAssumption DEF clientVars
<1>1. CASE SetEvent
  <2>1. waking' \in BOOLEAN
    BY <1>1 DEF SetEvent
  <2> QED
    BY <1>1, <2>1 DEF SetEvent, TypeOK
<1>7. ASSUME StopThread PROVE usr1' \in BOOLEAN /\ context' \in {"none", "pending", "valid"}
  BY <1>7, Zenon DEF StopThread, TypeOK
<1>8. CASE SetThreadContext
  BY <1>7, <1>8 DEF SetThreadContext, TypeOK
<1>2. CASE SuspendThread
  <2>1. usr1' \in BOOLEAN /\ context' \in {"none", "pending", "valid"}
    BY <1>2, <1>7 DEF SuspendThread, TypeOK
  <2>2. suspend' \in 0..SuspendMax
    BY <1>2 DEF SuspendThread, TypeOK
  <2> QED
    BY <1>2, <2>1, <2>2 DEF SuspendThread, TypeOK
<1>3. CASE ResumeThread
  BY <1>3 DEF ResumeThread, Free, TypeOK
<1>4. CASE QueueSystemApc
  <2>1. usr1' \in BOOLEAN
    BY <1>4, Zenon DEF QueueSystemApc, TypeOK
  <2> QED
    BY <1>4, <2>1 DEF QueueSystemApc, Free, TypeOK
<1>5. CASE QueueUserApc
  BY <1>5 DEF QueueUserApc, Free, TypeOK
<1>6. CASE KillThread
  <2>1. [cookie |-> 0, status |-> "none"] \in Reply
    BY DEF Reply, Status
  <2>2. pipe' \in Seq(Reply)
    BY <1>6, <2>1 DEF KillThread, TypeOK
  <2>3. wait' \in Waits
    BY <1>6 DEF KillThread, Waits
  <2>4. /\ state' = "TERMINATED" /\ context' = "none" /\ modified' = FALSE
        /\ system_apc' \in 0..ApcMax /\ user_apc' \in 0..ApcMax
        /\ UNCHANGED <<waking, suspend, suspend_cookie, event, usr1, clientVars>>
    BY <1>6 DEF KillThread
  <2> QED
    BY <2>2, <2>3, <2>4 DEF TypeOK
<1> QED
  BY <1>1, <1>2, <1>3, <1>4, <1>5, <1>6, <1>8 DEF Others

LEMMA ClientTyped ==
  ASSUME SelectInv, Client \/ Call
  PROVE  TypeOK'
<1> USE DEF serverVars, Levels
<1>0. TypeOK
  BY DEF SelectInv
<1>1. CASE Call
  <2>1. truncated' \in BOOLEAN /\ pc' \in [Levels -> Pc] /\ signals' \in 0..SignalsMax
    BY <1>0, <1>1, ConstantsAssumption DEF Call, TypeOK, Pc
  <2> QED
    BY <1>0, <1>1, <2>1 DEF Call, TypeOK
<1>2. CASE Interrupt
  BY <1>0, <1>2 DEF Interrupt, TypeOK, Pc
<1>3. CASE Abort
  BY <1>0, <1>3 DEF Abort, TypeOK
<1>4. ASSUME NEW l \in Levels, SelectRequest(l) PROVE TypeOK'
  <2>1. level = l /\ Talk /\ pc[l] \in {"start", "apc"}
    BY <1>4 DEF SelectRequest, Running, Free, SelectInv
  <2>2. wait' \in Waits
    <3>1. wait \in {<<>>, << 1 >>} /\ (l = 1 => wait = <<>>)
      BY <2>1 DEF Talk, AloneTalk
    <3>2. wait' = wait \/ wait' = <<l>> \o wait
      BY <1>4 DEF SelectRequest
    <3> QED
      <4>1. CASE l = 1
        BY <3>1, <3>2, <4>1, Tuples DEF Waits
      <4>2. CASE l = 2 /\ wait = <<>>
        BY <3>2, <4>2, Tuples DEF Waits
      <4>3. CASE l = 2 /\ wait = << 1 >>
        BY <3>2, <4>3, Tuples DEF Waits
      <4> QED
        BY <3>1, <4>1, <4>2, <4>3
  <2>3. system_apc' \in 0..ApcMax /\ user_apc' \in 0..ApcMax
    BY <1>0, <1>4, ConstantsAssumption DEF SelectRequest, TypeOK, CheckWait
  <2>4. signals' \in 0..SignalsMax
    BY <1>0, <1>4, ConstantsAssumption DEF SelectRequest, TypeOK
  <2>5. pc' \in [Levels -> Pc] /\ level' \in Levels
    BY <1>0, <1>4 DEF SelectRequest, TypeOK, Return, Pc
  <2>6. suspend_cookie' \in {0, 2} /\ context' \in {"none", "pending", "valid"}
    BY <1>0, <1>4 DEF SelectRequest, TypeOK, BringsContext
  <2>7. modified' \in BOOLEAN /\ event' \in BOOLEAN /\ suspend_context' \in BOOLEAN /\ truncated' \in BOOLEAN
    BY <1>0, <1>4 DEF SelectRequest, TypeOK, Satisfy
  <2> QED
    BY <1>0, <1>4, <2>2, <2>3, <2>4, <2>5, <2>6, <2>7 DEF SelectRequest, TypeOK
<1>5. ASSUME NEW l \in Levels, ReadReply(l) PROVE TypeOK'
  <2>1. pipe' \in Seq(Reply) /\ stolen' \in Seq(Reply)
    BY <1>0, <1>5, PutBackTyped DEF ReadReply, TypeOK
  <2>2. pc' \in [Levels -> Pc] /\ level' \in Levels
    BY <1>0, <1>5 DEF ReadReply, TypeOK, Return, Pc
  <2> QED
    BY <1>0, <1>5, <2>1, <2>2 DEF ReadReply, TypeOK
<1>6. ASSUME NEW l \in Levels, StealReply(l) PROVE TypeOK'
  <2>1. pipe' \in Seq(Reply) /\ stolen' \in Seq(Reply)
    BY <1>0, <1>6, PutBackTyped DEF StealReply, TypeOK
  <2> QED
    BY <1>0, <1>6, <2>1 DEF StealReply, TypeOK
<1> QED
  BY <1>1, <1>2, <1>3, <1>4, <1>5, <1>6 DEF Client

-------------------------------------------------------------------------------
(* Where the answers are.                                                  *)

\* What is different is in the server: a wait ends, with its reply.
LEMMA WakeThreadTalks ==
  ASSUME TypeOK, Talk, WakeThread
  PROVE  Talk'
<1> DEFINE R(l, s) == [cookie |-> l, status |-> s]
<1>1. PICK s \in Status : pipe' = Append(pipe, R(Head(wait), s))
  BY CheckWaitIs DEF WakeThread, Status
<1>2. wait # <<>> /\ wait' = Tail(wait) /\ UNCHANGED <<level, pc, stolen>>
  BY DEF WakeThread, clientVars
<1>3. CASE pc[2] # "read"
  <2>1. wait = << 1 >> /\ pipe = <<>> /\ pc[1] = "read" /\ stolen = <<>>
    BY <1>2, <1>3 DEF Talk, AloneTalk
  <2>2. wait' = <<>> /\ pipe' = <<R(1, s)>>
    BY <1>1, <1>2, <2>1, Tuples
  <2>3. AloneTalk'
    BY <1>2, <2>1, <2>2 DEF AloneTalk
  <2> QED
    BY <1>2, <1>3, <2>1, <2>3 DEF Talk
<1>4. CASE pc[2] = "read" /\ pc[1] # "read"
  <2>1. wait = << 2 >> /\ pipe = <<>> /\ stolen = <<>>
    BY <1>2, <1>4 DEF Talk, OverTalk
  <2>2. wait' = <<>> /\ pipe' = <<R(2, s)>>
    BY <1>1, <1>2, <2>1, Tuples
  <2>3. OverTalk'
    BY <1>2, <2>1, <2>2 DEF OverTalk
  <2> QED
    BY <1>2, <1>4, <2>3 DEF Talk
<1>5. CASE pc[2] = "read" /\ pc[1] = "read"
  <2>0. BothTalk
    BY <1>5 DEF Talk
  <2>1. ASSUME wait = <<2, 1>>, pipe = <<>>, stolen = <<>> PROVE BothTalk'
    <3>1. wait' = << 1 >> /\ pipe' = <<R(2, s)>>
      BY <1>1, <1>2, <2>1, Tuples
    <3> QED
      BY <1>2, <2>1, <3>1 DEF BothTalk
  <2>2. ASSUME NEW r \in Status, wait = << 1 >>, pipe = <<R(2, r)>>, stolen = <<>> PROVE BothTalk'
    <3>1. wait' = <<>> /\ pipe' = <<R(2, r), R(1, s)>>
      BY <1>1, <1>2, <2>2, Tuples
    <3> QED
      BY <1>2, <2>2, <3>1 DEF BothTalk
  <2>3. ASSUME NEW r \in Status, wait = << 2 >>, pipe = <<R(1, r)>>, stolen = <<>> PROVE BothTalk'
    <3>1. wait' = <<>> /\ pipe' = <<R(1, r), R(2, s)>>
      BY <1>1, <1>2, <2>3, Tuples
    <3> QED
      BY <1>2, <2>3, <3>1 DEF BothTalk
  <2>4. ASSUME NEW r \in Status, wait = << 2 >>, pipe = <<>>, stolen = <<R(1, r)>> PROVE BothTalk'
    <3>1. wait' = <<>> /\ pipe' = <<R(2, s)>>
      BY <1>1, <1>2, <2>4, Tuples
    <3> QED
      BY <1>2, <2>4, <3>1 DEF BothTalk
  <2>5. BothTalk'
    BY <1>2, <2>0, <2>1, <2>2, <2>3, <2>4 DEF BothTalk
  <2> QED
    BY <1>2, <1>5, <2>5 DEF Talk
<1> QED
  BY <1>3, <1>4, <1>5

\* A select request is answered at once, or leaves a wait.
LEMMA SelectRequestTalks ==
  ASSUME TypeOK, Talk, NEW l \in Levels, SelectRequest(l)
  PROVE  Talk'
<1>0. pc \in [Levels -> Pc] /\ 1 \in Levels /\ 2 \in Levels
  BY DEF TypeOK, Levels
<1>1. level = l /\ pc[l] \in {"start", "apc"} /\ UNCHANGED <<pipe, stolen>>
  BY DEF SelectRequest, Running
<1>2. pc[2] # "read" /\ stolen = <<>> /\ AloneTalk /\ (l = 1 => pc[2] = "idle")
  BY <1>1 DEF Talk, Levels
<1>3. CASE CheckWait(l) = "none"
  <2>1. wait' = <<l>> \o wait /\ pc' = [pc EXCEPT ![l] = "read"] /\ UNCHANGED level
    BY <1>3 DEF SelectRequest
  <2>2. CASE l = 1
    <3>1. wait = <<>> /\ pipe = <<>>
      BY <1>1, <1>2, <2>2 DEF AloneTalk
    <3>2. wait' = << 1 >> /\ pc'[1] = "read" /\ pc'[2] = "idle"
      BY <1>0, <1>2, <2>1, <2>2, <3>1, Tuples
    <3> QED
      BY <1>1, <1>2, <2>1, <2>2, <3>1, <3>2 DEF Talk, AloneTalk
  <2>3. CASE l = 2
    <3>1. pc'[2] = "read" /\ pc'[1] = pc[1] /\ pc[1] # "apc"
      BY <1>0, <1>1, <2>1, <2>3 DEF Talk
    <3>2. CASE wait = <<>> /\ pipe = <<>> /\ pc[1] # "read"
      <4>1. wait' = << 2 >>
        BY <2>1, <2>3, <3>2, Tuples
      <4> QED
        BY <1>1, <1>2, <2>1, <2>3, <3>1, <3>2, <4>1 DEF Talk, OverTalk
    <3>3. CASE wait = << 1 >> /\ pipe = <<>> /\ pc[1] = "read"
      <4>1. wait' = <<2, 1>>
        BY <2>1, <2>3, <3>3, Tuples
      <4> QED
        BY <1>1, <1>2, <2>1, <2>3, <3>1, <3>3, <4>1 DEF Talk, BothTalk
    <3>4. ASSUME NEW s \in Status, wait = <<>>, pipe = <<[cookie |-> 1, status |-> s]>>, pc[1] = "read"
          PROVE  Talk'
      <4>1. wait' = << 2 >>
        BY <2>1, <2>3, <3>4, Tuples
      <4>2. BothTalk'
        BY <1>1, <1>2, <3>4, <4>1 DEF BothTalk
      <4> QED
        BY <1>1, <2>1, <2>3, <3>1, <3>4, <4>2 DEF Talk
    <3> QED
      BY <1>2, <3>2, <3>3, <3>4 DEF AloneTalk
  <2> QED
    BY <2>2, <2>3 DEF Levels
<1>4. CASE CheckWait(l) # "none"
  <2>1. UNCHANGED wait
    BY <1>4 DEF SelectRequest
  <2>2. \/ pc' = [pc EXCEPT ![l] = "apc"] /\ level' = level
        \/ pc' = [pc EXCEPT ![l] = "idle"] /\ level' = 1
    BY <1>4 DEF SelectRequest, Return
  <2>3. AloneTalk'
    <3>1. pc'[1] = "read" <=> pc[1] = "read"
      BY <1>0, <1>1, <2>2 DEF Levels
    <3> QED
      BY <1>1, <1>2, <2>1, <3>1 DEF AloneTalk
  <2>4. pc'[2] # "read" /\ (level' = 1 => pc'[2] = "idle") /\ (level' = 2 => pc'[2] # "idle" /\ pc'[1] # "apc")
    BY <1>0, <1>1, <1>2, <2>2 DEF Levels, Talk
  <2> QED
    BY <1>1, <1>2, <2>3, <2>4 DEF Talk
<1> QED
  BY <1>3, <1>4

\* wait_select_reply() has the answer of its own level, and puts the other back.
LEMMA ReadReplyTalks ==
  ASSUME TypeOK, Talk, NEW l \in Levels, ReadReply(l)
  PROVE  Talk'
<1> DEFINE R(k, s) == [cookie |-> k, status |-> s]
<1>0. pc \in [Levels -> Pc] /\ 1 \in Levels /\ 2 \in Levels /\ \A k, s : R(k, s).cookie = k
  BY DEF TypeOK, Levels
<1> HIDE DEF R
<1>1. level = l /\ pc[l] = "read" /\ pipe # <<>> /\ Head(pipe).cookie = l /\ UNCHANGED wait
  BY DEF ReadReply, Running, serverVars
<1>2. pipe' = Tail(pipe) \o Reverse(stolen) /\ stolen' = <<>>
  BY DEF ReadReply
<1>3. \/ pc' = [pc EXCEPT ![l] = "start"] /\ level' = level
      \/ pc' = [pc EXCEPT ![l] = "idle"] /\ level' = 1
  BY DEF ReadReply, Return
<1>4. pc'[l] # "read" /\ \A k \in Levels : k # l => pc'[k] = pc[k]
  BY <1>0, <1>3
<1>5. /\ level' = 1 => pc'[2] = "idle"
      /\ level' = 2 => pc'[2] # "idle" /\ pc'[1] # "apc"
  BY <1>0, <1>1, <1>3 DEF Levels, Talk
<1>6. CASE l = 1
  <2>1. pc[2] = "idle" /\ stolen = <<>> /\ AloneTalk
    BY <1>1, <1>6 DEF Talk
  <2>2. PICK s \in Status : pipe = <<R(1, s)>> /\ wait = <<>>
    BY <1>1, <1>6, <2>1 DEF AloneTalk, R
  <2>3. pipe' = <<>>
    BY <1>2, <2>1, <2>2, Tuples, ReverseShort
  <2> QED
    BY <1>0, <1>1, <1>2, <1>4, <1>5, <1>6, <2>1, <2>2, <2>3 DEF Talk, AloneTalk
<1>7. CASE l = 2 /\ pc[1] # "read"
  <2>1. PICK s \in Status : pipe = <<R(2, s)>> /\ wait = <<>> /\ stolen = <<>>
    BY <1>1, <1>7 DEF Talk, OverTalk, R
  <2>2. pipe' = <<>>
    BY <1>2, <2>1, Tuples, ReverseShort
  <2> QED
    BY <1>0, <1>1, <1>2, <1>4, <1>5, <1>7, <2>1, <2>2 DEF Talk, AloneTalk
<1>8. CASE l = 2 /\ pc[1] = "read"
  <2>0. BothTalk
    BY <1>1, <1>8 DEF Talk
  <2>1. AloneTalk'
    <3>1. ASSUME NEW s \in Status, wait = << 1 >>, pipe = <<R(2, s)>>, stolen = <<>> PROVE AloneTalk'
      <4>1. pipe' = <<>>
        BY <1>2, <3>1, Tuples, ReverseShort
      <4> QED
        BY <1>0, <1>1, <1>4, <1>8, <3>1, <4>1 DEF AloneTalk
    <3>2. ASSUME NEW s \in Status, pipe = <<R(1, s)>> PROVE FALSE
      BY <1>0, <1>1, <1>8, <3>2, Tuples
    <3>3. ASSUME NEW r \in Status, NEW s \in Status, pipe = <<R(1, r), R(2, s)>> PROVE FALSE
      BY <1>0, <1>1, <1>8, <3>3, Tuples
    <3>4. ASSUME NEW r \in Status, NEW s \in Status, wait = <<>>,
                 \/ pipe = <<R(2, s), R(1, r)>> /\ stolen = <<>>
                 \/ pipe = <<R(2, s)>> /\ stolen = <<R(1, r)>>
          PROVE  AloneTalk'
      <4>1. pipe' = <<R(1, r)>>
        <5>1. CASE pipe = <<R(2, s), R(1, r)>> /\ stolen = <<>>
          <6>1. Tail(pipe) = <<R(1, r)>> /\ Reverse(stolen) = <<>>
            BY <5>1, Tuples, ReverseShort
          <6> QED
            BY <1>2, <6>1, Tuples
        <5>2. CASE pipe = <<R(2, s)>> /\ stolen = <<R(1, r)>>
          <6>1. Tail(pipe) = <<>> /\ Reverse(stolen) = <<R(1, r)>>
            BY <5>2, Tuples, ReverseShort
          <6> QED
            BY <1>2, <6>1, Tuples
        <5> QED
          BY <3>4, <5>1, <5>2
      <4> QED
        BY <1>0, <1>1, <1>4, <1>8, <3>4, <4>1 DEF AloneTalk, R
    <3> QED
      BY <1>1, <2>0, <3>1, <3>2, <3>3, <3>4 DEF BothTalk, R
  <2> QED
    BY <1>0, <1>2, <1>4, <1>5, <1>8, <2>1 DEF Talk
<1> QED
  BY <1>6, <1>7, <1>8 DEF Levels

\* Only level 2 finds a reply that is not for it.
LEMMA StealReplyTalks ==
  ASSUME TypeOK, Talk, NEW l \in Levels, StealReply(l)
  PROVE  Talk'
<1> DEFINE R(k, s) == [cookie |-> k, status |-> s]
<1>0. \A k, s : R(k, s).cookie = k
  OBVIOUS
<1> HIDE DEF R
<1>1. /\ level = l /\ pc[l] = "read" /\ pipe # <<>> /\ Head(pipe).cookie # l
      /\ UNCHANGED <<wait, level, pc>>
  BY DEF StealReply, Running, serverVars
<1>2. pipe' = Tail(pipe) /\ stolen' = Append(stolen, Head(pipe))
  BY DEF StealReply
<1>3. CASE l = 1
  <2>1. AloneTalk
    BY <1>1, <1>3 DEF Talk
  <2>2. PICK s \in Status : pipe = <<R(1, s)>>
    BY <1>1, <1>3, <2>1 DEF AloneTalk, R
  <2> QED
    BY <1>0, <1>1, <1>3, <2>2, Tuples
<1>4. CASE l = 2 /\ pc[1] # "read"
  <2>1. PICK s \in Status : pipe = <<R(2, s)>>
    BY <1>1, <1>4 DEF Talk, OverTalk, R
  <2> QED
    BY <1>0, <1>1, <1>4, <2>1, Tuples
<1>5. CASE l = 2 /\ pc[1] = "read"
  <2>0. BothTalk
    BY <1>1, <1>5 DEF Talk
  <2>1. BothTalk'
    <3>1. ASSUME NEW s \in Status, pipe = <<R(2, s)>> PROVE FALSE
      BY <1>0, <1>1, <1>5, <3>1, Tuples
    <3>2. ASSUME NEW r \in Status, NEW s \in Status, pipe = <<R(2, s), R(1, r)>> PROVE FALSE
      BY <1>0, <1>1, <1>5, <3>2, Tuples
    <3>3. ASSUME NEW s \in Status, wait = << 2 >>, pipe = <<R(1, s)>>, stolen = <<>> PROVE BothTalk'
      <4>1. pipe' = <<>> /\ stolen' = <<R(1, s)>>
        BY <1>2, <3>3, Tuples
      <4> QED
        BY <1>1, <3>3, <4>1 DEF BothTalk, R
    <3>4. ASSUME NEW r \in Status, NEW s \in Status, wait = <<>>, pipe = <<R(1, r), R(2, s)>>, stolen = <<>>
          PROVE  BothTalk'
      <4>1. pipe' = <<R(2, s)>> /\ stolen' = <<R(1, r)>>
        BY <1>2, <3>4, Tuples
      <4> QED
        BY <1>1, <3>4, <4>1 DEF BothTalk, R
    <3> QED
      BY <1>1, <2>0, <3>1, <3>2, <3>3, <3>4 DEF BothTalk, R
  <2> QED
    BY <1>1, <1>5, <2>1 DEF Talk
<1> QED
  BY <1>3, <1>4, <1>5 DEF Levels

\* The program calls, and the signal handler interrupts it.
LEMMA CallTalks ==
  ASSUME TypeOK, Talk, Call \/ Interrupt
  PROVE  Talk'
<1>0. pc \in [Levels -> Pc] /\ 1 \in Levels /\ 2 \in Levels
  BY DEF TypeOK, Levels
<1>1. UNCHANGED <<wait, pipe, stolen>> /\ level = 1 /\ pc[2] = "idle" /\ AloneTalk /\ stolen = <<>>
  BY DEF Call, Interrupt, SignalsOpen, Running, serverVars, Talk
<1>2. CASE Call
  <2>1. pc[1] = "idle" /\ pc'[1] = "start" /\ pc'[2] = "idle" /\ level' = 1
    BY <1>0, <1>1, <1>2 DEF Call
  <2> QED
    BY <1>1, <2>1 DEF Talk, AloneTalk
<1>3. CASE Interrupt
  <2>1. pc[1] # "apc" /\ pc'[1] = pc[1] /\ pc'[2] = "start" /\ level' = 2
    BY <1>0, <1>1, <1>3 DEF Interrupt, SignalsOpen
  <2> QED
    BY <1>1, <2>1 DEF Talk, AloneTalk
<1> QED
  BY <1>2, <1>3

\* Every step that is left leaves the answers where they are.
LEMMA TalkKept ==
  ASSUME Talk, UNCHANGED <<level, pc, wait, pipe, stolen>>
  PROVE  Talk'
<1>1. (AloneTalk' <=> AloneTalk) /\ (BothTalk' <=> BothTalk) /\ (OverTalk' <=> OverTalk)
  BY DEF AloneTalk, BothTalk, OverTalk
<1> QED
  BY <1>1 DEF Talk

LEMMA NextTalks ==
  ASSUME SelectInv, [Next]_vars
  PROVE  state' = "RUNNING" => Talk'
<1> SUFFICES ASSUME state' = "RUNNING" PROVE Talk'
  OBVIOUS
<1>1. TypeOK /\ Talk
  <2>1. state = "RUNNING"
    BY DEF SelectInv, TypeOK, Next, Server, WakeThread, WakeThreadDone, Client, Interrupt, Abort, SelectRequest,
       ReadReply, StealReply, Others, SetEvent, SuspendThread, ResumeThread, SetThreadContext, QueueSystemApc,
       QueueUserApc, KillThread, Call, vars, serverVars
  <2> QED
    BY <2>1 DEF SelectInv
<1>2. CASE WakeThread
  BY <1>1, <1>2, WakeThreadTalks
<1>3. CASE Call \/ Interrupt
  BY <1>1, <1>3, CallTalks
<1>4. CASE \E l \in Levels : SelectRequest(l) \/ ReadReply(l) \/ StealReply(l)
  BY <1>1, <1>4, SelectRequestTalks, ReadReplyTalks, StealReplyTalks
<1>5. CASE WakeThreadDone \/ Abort \/ Others \/ UNCHANGED vars
  <2>1. UNCHANGED <<level, pc, wait, pipe, stolen>>
    BY <1>5 DEF WakeThreadDone, Abort, Others, SetEvent, SuspendThread, ResumeThread, SetThreadContext,
       QueueSystemApc, QueueUserApc, KillThread, vars, serverVars, clientVars
  <2> QED
    BY <1>1, <2>1, TalkKept
<1> QED
  BY <1>2, <1>3, <1>4, <1>5 DEF Next, Server, Client

-------------------------------------------------------------------------------
(* Contexts.                                                               *)

\* The replies underway when level 2 prepares a request are not for it.
LEMMA NoReplyForTwo ==
  ASSUME NEW p, p = <<>> \/ \E s \in Status : p = <<[cookie |-> 1, status |-> s]>>
  PROVE  \A i \in 1..Len(p) : p[i].cookie # 2
<1>1. CASE p = <<>>
  BY <1>1
<1>2. ASSUME NEW s \in Status, p = <<[cookie |-> 1, status |-> s]>>
      PROVE  \A i \in 1..Len(p) : p[i].cookie # 2
  <2>1. Len(p) = 1 /\ p[1].cookie = 1
    BY <1>2
  <2> QED
    BY <2>1
<1> QED
  BY <1>1, <1>2

LEMMA WakeThreadContext ==
  ASSUME TypeOK, ContextInv, WakeThread
  PROVE  ContextInv'
<1> SUFFICES ASSUME context' = "valid"
             PROVE  /\ state' = "RUNNING" /\ level' = 2 /\ ~ suspend_context' /\ suspend_cookie' = 2
                    /\ \A i \in 1..Len(pipe') : pipe'[i].cookie = 2 => pipe'[i].status = "KERNEL_APC"
  BY DEF ContextInv
<1>1. context = "valid" /\ UNCHANGED <<state, level, suspend_context, suspend_cookie>>
  BY DEF WakeThread, clientVars
<1>2. PICK k \in Levels, s \in Status :
        /\ pipe' = Append(pipe, [cookie |-> k, status |-> s])
        /\ k = 2 => s = "KERNEL_APC"
  <2>1. PICK k : k = Head(wait)
    OBVIOUS
  <2>2. PICK s : s = IF EndsSuspension(k, CheckWait(k)) /\ modified THEN "KERNEL_APC" ELSE CheckWait(k)
    OBVIOUS
  <2>3. pipe' = Append(pipe, [cookie |-> k, status |-> s])
    BY <2>1, <2>2 DEF WakeThread
  <2>4. k \in Levels /\ s \in Status
    BY <2>1, <2>2, WaitsTyped, CheckWaitIs DEF WakeThread, Status
  <2>5. ASSUME k = 2, CheckWait(k) = "TIMEOUT" PROVE s = "KERNEL_APC"
    <3>1. EndsSuspension(k, CheckWait(k))
      BY <1>1, <2>5 DEF EndsSuspension, ContextInv
    <3>2. modified
      BY <1>1, <2>1, <3>1 DEF WakeThread
    <3> QED
      BY <2>2, <3>1, <3>2
  <2>6. CheckWait(k) # "none"
    BY <2>1 DEF WakeThread
  <2>7. k = 2 => s = "KERNEL_APC"
    BY <2>2, <2>5, <2>6, CheckWaitIs
  <2> QED
    BY <2>3, <2>4, <2>7
<1>3. ASSUME NEW i \in 1..Len(pipe'), pipe'[i].cookie = 2 PROVE pipe'[i].status = "KERNEL_APC"
  <2>3. PICK e : e = [cookie |-> k, status |-> s]
    OBVIOUS
  <2>0. e = [cookie |-> k, status |-> s] /\ e.cookie = k /\ e.status = s
    BY <2>3
  <2>1. pipe' = Append(pipe, e) /\ pipe \in Seq(Reply) /\ e \in Reply
    BY <1>2, <2>0 DEF TypeOK, Reply
  <2>2. \/ i \in 1..Len(pipe) /\ pipe'[i] = pipe[i]
        \/ pipe'[i] = e
    BY <2>1
  <2> QED
    BY <1>1, <1>2, <1>3, <2>0, <2>2 DEF ContextInv
<1> QED
  BY <1>1, <1>3 DEF ContextInv

LEMMA SelectRequestContext ==
  ASSUME SelectInv, NEW l \in Levels, SelectRequest(l)
  PROVE  ContextInv'
<1>0. TypeOK /\ Talk /\ ContextInv /\ state' = "RUNNING"
  BY DEF SelectInv, SelectRequest, Free
<1>1. CASE l = 1
  <2>1. level = 1 /\ UNCHANGED context
    BY <1>1, CheckWaitIs DEF SelectRequest, Running, BringsContext
  <2> QED
    BY <1>0, <2>1 DEF ContextInv
<1>2. CASE l = 2
  <2> SUFFICES ASSUME context' = "valid"
               PROVE  /\ level' = 2 /\ ~ suspend_context' /\ suspend_cookie' = 2
                      /\ \A i \in 1..Len(pipe') : pipe'[i].cookie = 2 => pipe'[i].status = "KERNEL_APC"
    BY <1>0 DEF ContextInv
  <2>1. level = 2 /\ ~ suspend_context' /\ UNCHANGED pipe /\ pc[2] # "read"
    BY <1>2 DEF SelectRequest, Running
  <2>2. suspend_cookie' = 2
    BY <1>0, <1>2 DEF SelectRequest, BringsContext, ContextInv
  <2>3. CheckWait(2) # "TIMEOUT"
    BY <1>2, <2>2 DEF SelectRequest
  <2>4. level' = 2
    BY <1>2, <2>1, <2>3, CheckWaitIs DEF SelectRequest
  <2>5. \A i \in 1..Len(pipe) : pipe[i].cookie # 2
    <3>1. PICK p : p = pipe /\ (p = <<>> \/ \E s \in Status : p = <<[cookie |-> 1, status |-> s]>>)
      BY <1>0, <2>1 DEF Talk, AloneTalk
    <3> QED
      BY <3>1, NoReplyForTwo
  <2> QED
    BY <2>1, <2>2, <2>4, <2>5
<1> QED
  BY <1>1, <1>2 DEF Levels

LEMMA ReadReplyContext ==
  ASSUME SelectInv, NEW l \in Levels, ReadReply(l) \/ StealReply(l)
  PROVE  ContextInv'
<1> SUFFICES ASSUME context' = "valid" PROVE ContextInv'
  BY DEF ContextInv
<1>1. /\ context = "valid" /\ UNCHANGED <<state, suspend_context, suspend_cookie>>
      /\ level = l /\ pipe # <<>> /\ pc[l] = "read"
  BY DEF ReadReply, StealReply, Running, serverVars
<1>2. /\ state = "RUNNING" /\ l = 2 /\ ~ suspend_context /\ suspend_cookie = 2 /\ Talk
      /\ pipe \in Seq(Reply) /\ stolen \in Seq(Reply)
      /\ \A i \in 1..Len(pipe) : pipe[i].cookie = 2 => pipe[i].status = "KERNEL_APC"
  BY <1>1 DEF SelectInv, ContextInv, TypeOK
<1>3. \A i \in 1..Len(Tail(pipe)) : Tail(pipe)[i].cookie = 2 => Tail(pipe)[i].status = "KERNEL_APC"
  BY <1>1, <1>2
<1>4. CASE StealReply(l)
  BY <1>1, <1>2, <1>3, <1>4 DEF StealReply, ContextInv
<1>5. CASE ReadReply(l)
  <2>1. Head(pipe).cookie = 2 /\ Head(pipe) = pipe[1] /\ 1 \in 1..Len(pipe)
    BY <1>1, <1>2, <1>5 DEF ReadReply
  <2>2. Head(pipe).status = "KERNEL_APC"
    BY <1>2, <2>1
  <2>3. level' = 2 /\ pipe' = Tail(pipe) \o Reverse(stolen)
    BY <1>1, <1>2, <1>5, <2>2 DEF ReadReply
  <2>4. pc'[2] # "read" /\ Talk'
    <3>1. pc \in [Levels -> Pc] /\ 2 \in Levels /\ TypeOK
      BY DEF SelectInv, TypeOK, Levels
    <3>2. pc' = [pc EXCEPT ![2] = "start"]
      BY <1>2, <1>5, <2>2 DEF ReadReply
    <3> QED
      BY <1>2, <1>5, <3>1, <3>2, ReadReplyTalks
  <2>5. \A i \in 1..Len(pipe') : pipe'[i].cookie # 2
    <3>1. PICK p : p = pipe' /\ (p = <<>> \/ \E s \in Status : p = <<[cookie |-> 1, status |-> s]>>)
      BY <2>4 DEF Talk, AloneTalk
    <3> QED
      BY <3>1, NoReplyForTwo
  <2> QED
    BY <1>1, <1>2, <2>3, <2>5 DEF ContextInv
<1> QED
  BY <1>4, <1>5

LEMMA NextContext ==
  ASSUME SelectInv, [Next]_vars
  PROVE  ContextInv'
<1>0. TypeOK /\ ContextInv
  BY DEF SelectInv
<1>1. CASE WakeThread
  BY <1>0, <1>1, WakeThreadContext
<1>2. CASE \E l \in Levels : SelectRequest(l) \/ ReadReply(l) \/ StealReply(l)
  BY <1>2, SelectRequestContext, ReadReplyContext
<1>3. CASE Interrupt
  BY <1>0, <1>3 DEF Interrupt, SignalsOpen, Running, ContextInv, serverVars
<1>4. CASE KillThread
  BY <1>4 DEF KillThread, ContextInv
<1>5. CASE \/ WakeThreadDone \/ Abort \/ Call \/ UNCHANGED vars \/ SetEvent \/ SuspendThread
           \/ ResumeThread \/ SetThreadContext \/ QueueSystemApc \/ QueueUserApc
  <2>1. /\ UNCHANGED <<state, level, suspend_context, suspend_cookie, pipe>>
        /\ context' = "valid" => context = "valid"
    BY <1>5 DEF WakeThreadDone, Abort, Call, vars, SetEvent, SuspendThread, ResumeThread, SetThreadContext,
       StopThread, QueueSystemApc, QueueUserApc, serverVars, clientVars
  <2> QED
    BY <1>0, <2>1 DEF ContextInv
<1> QED
  BY <1>1, <1>2, <1>3, <1>4, <1>5 DEF Next, Server, Client, Others

-------------------------------------------------------------------------------
(* The theorems.                                                           *)

(***************************************************************************)
(* The answers of the two levels of server_select are always where Talk    *)
(* says, and a valid context belongs to the level 2 that runs (select,     *)
(* wake_thread, send_thread_wakeup, wait_select_reply, wait_suspend).      *)
(***************************************************************************)
THEOREM SelectInvariant == Spec => []SelectInv
<1>1. Init => SelectInv
  <2> SUFFICES ASSUME Init PROVE SelectInv
    OBVIOUS
  <2>1. TypeOK
    <3>1. wait \in Waits /\ pipe \in Seq(Reply) /\ stolen \in Seq(Reply)
      BY DEF Init, Waits
    <3>2. pc \in [Levels -> Pc] /\ level \in Levels
      BY DEF Init, Pc, Levels
    <3>3. 0 \in 0..SuspendMax /\ 0 \in 0..ApcMax /\ 0 \in 0..SignalsMax
      BY ConstantsAssumption
    <3>4. /\ state = "RUNNING" /\ waking = FALSE /\ suspend = 0 /\ system_apc = 0 /\ user_apc = 0
          /\ context = "none" /\ modified = FALSE /\ suspend_cookie = 0 /\ event = FALSE /\ usr1 = FALSE
          /\ suspend_context = FALSE /\ truncated = FALSE /\ signals = 0 /\ ended = FALSE
      BY DEF Init
    <3> QED
      BY <3>1, <3>2, <3>3, <3>4 DEF TypeOK
  <2>2. pc[1] = "idle" /\ pc[2] = "idle"
    BY DEF Init, Levels
  <2> QED
    BY <2>1, <2>2 DEF Init, SelectInv, Talk, AloneTalk, ContextInv
<1>2. SelectInv /\ [Next]_vars => SelectInv'
  <2> SUFFICES ASSUME SelectInv, [Next]_vars PROVE SelectInv'
    OBVIOUS
  <2>1. TypeOK'
    <3>1. CASE UNCHANGED vars
      BY <3>1 DEF SelectInv, TypeOK, vars, serverVars, clientVars
    <3> QED
      BY <3>1, ServerTyped, OthersTyped, ClientTyped DEF Next, SelectInv
  <2> QED
    BY <2>1, NextTalks, NextContext DEF SelectInv
<1> QED
  BY <1>1, <1>2, PTL DEF Spec

\* Counting short sequences
LEMMA ShortCounts ==
  /\ Cardinality({}) = 0 /\ Cardinality({1}) = 1 /\ Cardinality({2}) = 1
BY FS_EmptySet, FS_Singleton

\* A level that reads the pipe has exactly one answer coming, whichever level takes it out of the
\* pipe and however APCs, suspensions and contexts set from outside interrupt the waits
\* (wait_select_reply, wake_thread, select).
THEOREM AnswersMatch == Spec => []OneAnswer
<1>1. SelectInv => OneAnswer
  <2> SUFFICES ASSUME Talk, TypeOK, NEW l \in Levels
               PROVE  Answers(l) = IF pc[l] = "read" THEN 1 ELSE 0
    BY DEF SelectInv, OneAnswer
  <2> DEFINE R(k, s) == [cookie |-> k, status |-> s]
             W == {i \in 1..Len(wait) : wait[i] = l}
             P == {i \in 1..Len(pipe \o stolen) : (pipe \o stolen)[i].cookie = l}
  <2>0. \A k, s : R(k, s).cookie = k
    OBVIOUS
  <2> HIDE DEF R
  <2>1. /\ wait = <<>> => W = {}
        /\ wait = << 1 >> => W = IF l = 1 THEN {1} ELSE {}
        /\ wait = << 2 >> => W = IF l = 2 THEN {1} ELSE {}
        /\ wait = <<2, 1>> => W = IF l = 2 THEN {1} ELSE {2}
    <3>1. CASE wait = <<>>
      BY <3>1
    <3>2. CASE wait = << 1 >>
      BY <3>2 DEF Levels
    <3>3. CASE wait = << 2 >>
      BY <3>3 DEF Levels
    <3>4. CASE wait = <<2, 1>>
      BY <3>4 DEF Levels
    <3> QED
      BY <3>1, <3>2, <3>3, <3>4 DEF TypeOK, Waits
  <2>2. pipe \o stolen = <<>> => P = {}
    OBVIOUS
  <2>3. ASSUME NEW k \in Levels, NEW s, pipe \o stolen = <<R(k, s)>>
        PROVE  P = IF l = k THEN {1} ELSE {}
    BY <2>0, <2>3 DEF Levels
  <2>4. ASSUME NEW k \in Levels, NEW s, NEW r, pipe \o stolen = <<R(k, s), R(3 - k, r)>>
        PROVE  P = IF l = k THEN {1} ELSE {2}
    BY <2>0, <2>4 DEF Levels
  <2>5. Cardinality({}) = 0 /\ Cardinality({1}) = 1 /\ Cardinality({2}) = 1
    BY ShortCounts
  <2>6. Answers(l) = Cardinality(W) + Cardinality(P)
    BY DEF Answers
  <2> HIDE DEF W, P
  <2>7. CASE pc[2] # "read"
    <3>1. stolen = <<>> /\ AloneTalk
      BY <2>7 DEF Talk
    <3>2. ASSUME pc[1] # "read" \/ wait = << 1 >> PROVE Answers(l) = IF pc[l] = "read" THEN 1 ELSE 0
      <4>1. pipe = <<>> /\ pipe \o stolen = <<>>
        BY <3>1, <3>2 DEF AloneTalk
      <4>2. P = {} /\ W = IF pc[l] = "read" THEN {1} ELSE {}
        BY <2>1, <2>2, <2>7, <3>1, <3>2, <4>1 DEF AloneTalk, Levels
      <4>3. Cardinality(P) = 0 /\ Cardinality(W) = IF pc[l] = "read" THEN 1 ELSE 0
        BY <2>5, <4>2
      <4> QED
        BY <2>6, <4>3
    <3>3. ASSUME NEW s \in Status, pc[1] = "read", wait = <<>>, pipe = <<R(1, s)>>
          PROVE  Answers(l) = IF pc[l] = "read" THEN 1 ELSE 0
      <4>1. pipe \o stolen = <<R(1, s)>> /\ 1 \in Levels
        BY <3>1, <3>3, Tuples DEF Levels
      <4>2. W = {} /\ P = IF l = 1 THEN {1} ELSE {}
        BY <2>1, <2>3, <3>3, <4>1
      <4> QED
        BY <2>5, <2>6, <2>7, <3>3, <4>2 DEF Levels
    <3> QED
      BY <3>1, <3>2, <3>3 DEF AloneTalk, R
  <2>8. CASE pc[2] = "read" /\ pc[1] # "read"
    <3>1. stolen = <<>> /\ OverTalk
      BY <2>8 DEF Talk, OverTalk
    <3>2. CASE wait = << 2 >> /\ pipe = <<>>
      <4>1. pipe \o stolen = <<>>
        BY <3>1, <3>2
      <4>2. P = {} /\ W = IF pc[l] = "read" THEN {1} ELSE {}
        BY <2>1, <2>2, <2>8, <3>2, <4>1 DEF Levels
      <4>3. Cardinality(P) = 0 /\ Cardinality(W) = IF pc[l] = "read" THEN 1 ELSE 0
        BY <2>5, <4>2
      <4> QED
        BY <2>6, <4>3
    <3>3. ASSUME NEW s \in Status, wait = <<>>, pipe = <<R(2, s)>>
          PROVE  Answers(l) = IF pc[l] = "read" THEN 1 ELSE 0
      <4>1. pipe \o stolen = <<R(2, s)>> /\ 2 \in Levels
        BY <3>1, <3>3, Tuples DEF Levels
      <4>2. W = {} /\ P = IF l = 2 THEN {1} ELSE {}
        BY <2>1, <2>3, <3>3, <4>1
      <4> QED
        BY <2>5, <2>6, <2>8, <4>2 DEF Levels
    <3> QED
      BY <3>1, <3>2, <3>3 DEF OverTalk, R
  <2>9. CASE pc[2] = "read" /\ pc[1] = "read"
    <3>0. pc[l] = "read" /\ BothTalk /\ 1 \in Levels /\ 2 \in Levels
      BY <2>9 DEF Talk, Levels
    <3>1. ASSUME wait = <<2, 1>>, pipe = <<>>, stolen = <<>> PROVE Answers(l) = 1
      <4>1. pipe \o stolen = <<>>
        BY <3>1
      <4>2. P = {} /\ (W = {1} \/ W = {2})
        BY <2>1, <2>2, <3>1, <4>1
      <4>3. Cardinality(P) = 0 /\ Cardinality(W) = 1
        BY <2>5, <4>2
      <4> QED
        BY <2>6, <4>3
    <3>2. ASSUME NEW k \in Levels, NEW s \in Status, pipe \o stolen = <<R(k, s)>>,
                 wait = <<3 - k>>
          PROVE  Answers(l) = 1
      <4>1. P = IF l = k THEN {1} ELSE {}
        BY <2>3, <3>2
      <4>2. W = IF l = k THEN {} ELSE {1}
        BY <2>1, <3>2 DEF Levels
      <4> QED
        BY <2>5, <2>6, <4>1, <4>2
    <3>3. ASSUME NEW k \in Levels, NEW r \in Status, NEW s \in Status, wait = <<>>,
                 pipe \o stolen = <<R(k, s), R(3 - k, r)>>
          PROVE  Answers(l) = 1
      <4>1. W = {} /\ (P = {1} \/ P = {2})
        BY <2>1, <2>4, <3>3
      <4>2. Cardinality(W) = 0 /\ Cardinality(P) = 1
        BY <2>5, <4>1
      <4> QED
        BY <2>6, <4>2
    <3>4. ASSUME NEW s \in Status,
                 \/ wait = << 1 >> /\ pipe = <<R(2, s)>> /\ stolen = <<>>
                 \/ wait = << 2 >> /\ pipe = <<R(1, s)>> /\ stolen = <<>>
                 \/ wait = << 2 >> /\ pipe = <<>> /\ stolen = <<R(1, s)>>
          PROVE  Answers(l) = 1
      <4>1. \/ wait = << 1 >> /\ pipe \o stolen = <<R(2, s)>>
            \/ wait = << 2 >> /\ pipe \o stolen = <<R(1, s)>>
        BY <3>4, Tuples
      <4>2. 3 - 2 = 1 /\ 3 - 1 = 2
        OBVIOUS
      <4> QED
        BY <3>0, <3>2, <4>1, <4>2
    <3>5. ASSUME NEW r \in Status, NEW s \in Status, wait = <<>>,
                 \/ pipe = <<R(1, r), R(2, s)>> /\ stolen = <<>>
                 \/ pipe = <<R(2, s), R(1, r)>> /\ stolen = <<>>
                 \/ pipe = <<R(2, s)>> /\ stolen = <<R(1, r)>>
          PROVE  Answers(l) = 1
      <4>1. \/ pipe \o stolen = <<R(1, r), R(2, s)>>
            \/ pipe \o stolen = <<R(2, s), R(1, r)>>
        <5>1. CASE pipe = <<R(2, s)>> /\ stolen = <<R(1, r)>>
          BY <5>1, Tuples
        <5>2. CASE pipe = <<R(2, s), R(1, r)>> /\ stolen = <<>>
          BY <5>2, Tuples
        <5>3. CASE pipe = <<R(1, r), R(2, s)>> /\ stolen = <<>>
          BY <5>3, Tuples
        <5> QED
          BY <3>5, <5>1, <5>2, <5>3
      <4>2. 3 - 2 = 1 /\ 3 - 1 = 2
        OBVIOUS
      <4> QED
        BY <3>0, <3>3, <3>5, <4>1, <4>2
    <3>6. Answers(l) = 1
      BY <3>0, <3>1, <3>4, <3>5 DEF BothTalk, R
    <3> QED
      BY <3>0, <3>6
  <2> QED
    BY <2>7, <2>8, <2>9
<1> QED
  BY <1>1, SelectInvariant, PTL

\* The select handler never refuses a context, whatever order of suspensions, resumptions and
\* contexts set from outside the handler of SIGUSR1 meets (select, send_thread_wakeup).
THEOREM ContextsAccepted == Spec => []NotRefused
<1>1. SelectInv => NotRefused
  BY DEF SelectInv, ContextInv, NotRefused
<1> QED
  BY <1>1, SelectInvariant, PTL

\* A context set from outside is dropped only by the reply that hands it over, or with the thread
\* (select, send_thread_wakeup, kill_thread).
THEOREM ContextsHandedOver == Spec => ContextHandedOver
<1>1. [Next]_vars => [modified /\ ~ modified' => (level = 2 /\ level' = 1) \/ state' = "TERMINATED"]_vars
  <2> SUFFICES ASSUME Next, modified, ~ modified'
               PROVE  (level = 2 /\ level' = 1) \/ state' = "TERMINATED"
    OBVIOUS
  <2>1. KillThread \/ \E l \in Levels : SelectRequest(l)
    BY DEF Next, Server, WakeThread, WakeThreadDone, Client, Interrupt, Abort, ReadReply, StealReply, Others,
       SetEvent, SuspendThread, ResumeThread, SetThreadContext, QueueSystemApc, QueueUserApc, Call, serverVars
  <2>2. ASSUME NEW l \in Levels, SelectRequest(l) PROVE level = 2 /\ level' = 1
    <3>1. CheckWait(l) = "TIMEOUT"
      BY <2>2 DEF SelectRequest
    <3>2. l = 2
      BY <3>1, CheckWaitIs DEF Levels
    <3> QED
      BY <2>2, <3>1, <3>2 DEF SelectRequest, Running, Return
  <2> QED
    BY <2>1, <2>2 DEF KillThread
<1> QED
  BY <1>1, PTL DEF Spec, ContextHandedOver
=============================================================================
