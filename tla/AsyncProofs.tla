---------------------------- MODULE AsyncProofs ----------------------------
(* Proofs about Async: a completion is posted once, and what the server      *)
(* relies on when it cancels.                                                *)
EXTENDS Async, QueueLemmas, FiniteSetTheorems, TLAPS

-----------------------------------------------------------------------------
(* The server's state.                                                      *)

Statuses == {"pending", "alerted", "success", "error", "cancelled", "timeout", "closed",
             "user_apc"}
AsyncRecords ==
  [used : BOOLEAN, terminated : BOOLEAN, alerted : BOOLEAN, canceled : BOOLEAN,
   unknown : BOOLEAN, direct : BOOLEAN, pending : BOOLEAN, signaled : BOOLEAN,
   blocking : BOOLEAN, timeout : BOOLEAN, handle : BOOLEAN, fd : BOOLEAN,
   iosb : Statuses, initial : Statuses, group : Nat, posted : Nat, missed : BOOLEAN,
   skip : BOOLEAN]
Apcs == [at : {"none", "queued", "ran", "lost"}, thread : Threads, status : Statuses]
Irps == [at : {"none", "queued", "current", "held"}, canceled : BOOLEAN]
Server == [attr : Attrs, async : [Asyncs -> AsyncRecords], queue : [Fds -> Seq(Asyncs)],
           apc : [Asyncs -> Apcs], irp : [Asyncs -> Irps], requests : Seq(Asyncs),
           groups : Seq(Int), user_apc : [Threads -> BOOLEAN], open : SUBSET Fds,
           alive : SUBSET Threads, aborted : BOOLEAN, faulted : BOOLEAN]
\* a call is "made" while the server handles its request
CallRecords == [at : {"none", "made", "io", "report", "wait", "returned", "dead"},
                status : Statuses]

-----------------------------------------------------------------------------
(* One async: its record r, its APC p, where its IRP is, whether it is on    *)
(* the queue of its file (q), the kind k of the file, and the call c.        *)

Unused(r, p, i, q, c) ==
  /\ ~r.used => /\ r = NoAsync /\ p.at = "none" /\ i = "none" /\ ~q
                /\ c.at \in {"none", "dead"}
  /\ r.used => c.at # "none"

\* What is woken up: by an APC, or by the reply to the client, which does the I/O
Woken(k, r, p, c) ==
  /\ r.alerted => r.terminated /\ r.group = 0 /\ ~r.canceled /\ k = "socket"
  /\ p.at # "none" => r.terminated /\ ~r.direct /\ r.posted = 0
  /\ c.at \in {"io", "report"} =>
       /\ r.used /\ r.unknown /\ r.terminated /\ r.alerted /\ r.direct /\ r.handle
       /\ ~r.pending /\ ~r.signaled /\ r.posted = 0
  /\ c.at = "report" => c.status \in {"success", "pending", "error"}
  /\ r.unknown /\ k # "device" => r.direct
  /\ r.timeout => k = "socket"

\* What waits
Waits(k, r, i, q, c) ==
  /\ r.used /\ ~r.terminated => q \/ (r.missed /\ k = "socket")
  /\ r.used /\ ~r.terminated /\ r.direct => c.at = "made"
  /\ ~r.terminated /\ (r.canceled \/ r.group # 0) => k = "device"
  /\ r.used /\ ~r.fd => ~q
  /\ i # "none" => k = "device" /\ r.used /\ ~r.terminated
  /\ i \in {"queued", "current"} => r.unknown
  /\ i = "held" => ~r.unknown /\ r.pending

\* The result of it: the status of its APC, its IOSB, and the completion that is posted
Resulting(k, r, p, c) ==
  /\ r.used /\ r.terminated => r.iosb # "pending"
  /\ r.used /\ ~r.terminated /\ k # "socket" => r.iosb = "pending"
  /\ p.at # "none" =>
       IF k = "socket" THEN p.status \in {"alerted", "pending"} => r.alerted
       ELSE p.status # "pending" /\ (IsError(p.status) <=> IsError(r.iosb))
  /\ p.at = "queued" => p.status # "pending"
  /\ r.posted # 0 => r.posted = 1 /\ r.terminated /\ (c.at = "wait" => ~r.direct)
  /\ r.used /\ r.terminated /\ ~r.direct /\ p.at = "none" =>
       r.posted = (IF Posts(r, r.iosb) THEN 1 ELSE 0)
  /\ r.group # 0 => ~r.direct /\ (r.terminated => p.at # "none")
  /\ r.pending => ~r.direct

\* What a device, and what a caller that waits or has returned, can be told
Told(k, r, p, c) ==
  /\ r.used /\ k = "device" =>
       /\ ~r.direct
       /\ r.unknown => ~r.terminated /\ ~r.pending
       /\ ~r.unknown /\ r.pending => r.initial = "pending"
       /\ ~r.unknown /\ ~r.pending =>
            /\ r.initial # "pending"
            /\ r.terminated => (IsError(r.initial) <=> IsError(r.iosb))
  /\ r.signaled /\ ~r.direct => \/ r.terminated /\ p.at = "none"
                                \/ k = "device" /\ ~r.blocking /\ r.pending
  /\ r.signaled /\ k = "device" => ~r.unknown
  /\ c.at = "wait" =>
       /\ r.used /\ r.handle
       /\ r.direct => /\ r.terminated /\ ~r.alerted /\ ~r.unknown /\ r.initial = r.iosb
                      /\ ~IsError(r.iosb)
       /\ ~r.direct /\ k # "device" => r.blocking /\ r.initial = "pending"
  /\ c.at = "returned" =>
       /\ r.used
       /\ c.status = "success" =>
            r.terminated /\ p.at = "none" /\ r.posted = IF r.skip /\ ~r.pending THEN 0 ELSE 1
       /\ IsError(c.status) => r.blocking \/ (r.terminated /\ p.at = "none" /\ r.posted = 0)
       /\ c.status = "pending" => r.pending

Fits(k, r, p, i, q, c) ==
  /\ Unused(r, p, i, q, c) /\ Woken(k, r, p, c) /\ Waits(k, r, i, q, c)
  /\ Resulting(k, r, p, c) /\ Told(k, r, p, c)

-----------------------------------------------------------------------------
(* The server.                                                              *)

AsyncInv(s, a, c) == Fits(Kind[Fd(s, a)], s.async[a], s.apc[a], s.irp[a].at, Queued(s, a), c)

Lists(s) ==
  /\ \A f \in Fds : Distinct(s.queue[f]) /\ \A a \in ToSet(s.queue[f]) : Fd(s, a) = f
  /\ Distinct(s.requests) /\ \A a \in ToSet(s.requests) : s.irp[a].at = "queued"

InRange(s) == \A a \in Asyncs : s.async[a].group \in 0..Len(s.groups)

ServerInv(s, C) ==
  s \in Server /\ Lists(s) /\ InRange(s) /\ \A a \in Asyncs : AsyncInv(s, a, C[a])

\* The counts of the cancel groups
Members(s, g) == {a \in Asyncs : s.async[a].group = g}
Counts(s) == \A g \in 1..Len(s.groups) : s.groups[g] = Cardinality(Members(s, g))

\* The server ends only so.
Ends(s) ==
  /\ s.faulted => Orphans(s) # {}
  /\ s.aborted => \E a \in Live(s) : Kind[Fd(s, a)] = "device" /\ s.async[a].group # 0

IInv ==
  /\ call \in [Asyncs -> CallRecords] /\ ServerInv(srv, call) /\ Counts(srv) /\ Ends(srv)
  /\ \A a \in Asyncs : call[a].at # "made"

-----------------------------------------------------------------------------
(* Loops.                                                                   *)

\* The states that a loop goes through.
LEMMA EachRuns ==
  ASSUME NEW loop, NEW s, NEW S, NEW q \in Seq(S)
  PROVE  \E g : /\ g[0] = s /\ \A n \in 1..Len(q) : g[n] = LoopStep(loop, g[n - 1], q[n])
                /\ Each(loop, s, q) = g[Len(q)]
<1> DEFINE IsRun(g, N) == g = [n \in 0..N |-> IF n = 0 THEN s ELSE LoopStep(loop, g[n - 1], q[n])]
           P == {N \in Nat : \E g : IsRun(g, N)}
<1>1. Len(q) \in Nat
  OBVIOUS
<1>2. 0 \in P
  <2>1. IsRun([n \in 0..0 |-> s], 0)
    OBVIOUS
  <2> QED
    BY <2>1
<1>3. ASSUME NEW N \in 1..Len(q), N - 1 \in P
      PROVE  N \in P
  <2>1. PICK g : IsRun(g, N - 1)
    BY <1>3
  <2>2. DEFINE h == [n \in 0..N |-> IF n = N THEN LoopStep(loop, g[N - 1], q[N]) ELSE g[n]]
  <2>3. ASSUME NEW n \in 0..N
        PROVE  h[n] = IF n = 0 THEN s ELSE LoopStep(loop, h[n - 1], q[n])
    <3>1. CASE n = N
      BY <1>1, <1>3, <2>1, <3>1
    <3>2. CASE n # N
      BY <1>1, <1>3, <2>1, <3>2
    <3> QED
      BY <3>1, <3>2
  <2>4. IsRun(h, N)
    <3> HIDE DEF h
    <3>1. h = [n \in 0..N |-> h[n]]
      BY DEF h
    <3> QED
      BY <2>3, <3>1
  <2>5. N \in Nat
    BY <1>1
  <2> HIDE DEF h, IsRun
  <2> QED
    BY <2>4, <2>5
<1>4. Len(q) \in P
  <2> HIDE DEF P
  <2> QED
    BY <1>1, <1>2, <1>3, UpTo, SMTT(30)
<1>5. PICK g : IsRun(g, Len(q))
  BY <1>4
<1> DEFINE run == CHOOSE h : IsRun(h, Len(q))
<1>6. IsRun(run, Len(q))
  <2> HIDE DEF IsRun
  <2> QED
    BY <1>5
<1>7. Each(loop, s, q) = run[Len(q)]
  BY DEF Each
<1> HIDE DEF run
<1>8. run[0] = s
  BY <1>1, <1>6
<1>9. \A n \in 1..Len(q) : run[n] = LoopStep(loop, run[n - 1], q[n])
  BY <1>1, <1>6
<1> QED
  BY <1>7, <1>8, <1>9
-----------------------------------------------------------------------------
(* What a function of the server changes: at most what is about one async.   *)

\* All that is known of the async b is the same.
Same(s, s2, b) ==
  /\ s2.async[b] = s.async[b] /\ s2.apc[b] = s.apc[b] /\ s2.irp[b] = s.irp[b]
  /\ Queued(s2, b) <=> Queued(s, b)

\* The async stays in its group, or leaves it.
Grouped(s, s2, a) ==
  LET g == s.async[a].group
  IN \/ s2.groups = s.groups /\ s2.async[a].group = g
     \/ g # 0 /\ s2.groups = [s.groups EXCEPT ![g] = @ - 1] /\ s2.async[a].group = 0

Touches(s, s2, a) ==
  /\ s2 \in Server /\ Lists(s2)
  /\ s2.attr = s.attr /\ s2.alive = s.alive
  /\ s2.aborted = s.aborted /\ s2.faulted = s.faulted
  /\ \A b \in Asyncs \ {a} : Same(s, s2, b)
  /\ Grouped(s, s2, a)

\* The fields of the server have their types.
LEMMA Fields ==
  ASSUME NEW s \in Server
  PROVE  /\ s.attr \in Attrs /\ s.async \in [Asyncs -> AsyncRecords]
         /\ s.queue \in [Fds -> Seq(Asyncs)] /\ s.apc \in [Asyncs -> Apcs]
         /\ s.irp \in [Asyncs -> Irps] /\ s.requests \in Seq(Asyncs)
         /\ s.groups \in Seq(Int) /\ s.user_apc \in [Threads -> BOOLEAN]
         /\ s.open \in SUBSET Fds /\ s.alive \in SUBSET Threads
         /\ s.aborted \in BOOLEAN /\ s.faulted \in BOOLEAN
BY DEF Server

\* An async has a thread and a file of a kind.
LEMMA AttrTypes ==
  ASSUME NEW s \in Server, NEW a \in Asyncs
  PROVE  /\ s.attr[a].thread \in Threads /\ Fd(s, a) \in Fds
         /\ s.attr[a].blocking \in BOOLEAN /\ s.attr[a].timed \in BOOLEAN
         /\ Kind[Fd(s, a)] \in {"socket", "pipe", "device"}
<1>1. s.attr \in [Asyncs -> [thread : Threads, fd : Fds, blocking : BOOLEAN,
                             timed : BOOLEAN, alertable : BOOLEAN,
                             notify : {"apc", "event", "port", "skip"}]]
  BY Fields, AsyncAssumption
<1>2. s.attr[a] \in [thread : Threads, fd : Fds, blocking : BOOLEAN,
                     timed : BOOLEAN, alertable : BOOLEAN,
                     notify : {"apc", "event", "port", "skip"}]
  BY <1>1
<1>3. s.attr[a].fd \in Fds
  BY <1>2
<1> QED
  BY <1>2, <1>3, AsyncAssumption DEF Fd

\* The async is changed to r, its APC to p and its IRP to i; the queues and requests stay,
\* or it leaves its queue.
Edited(s, s2, a, r, p, i) ==
  /\ s2 \in Server
  /\ s2.attr = s.attr /\ s2.alive = s.alive
  /\ s2.aborted = s.aborted /\ s2.faulted = s.faulted
  /\ s2.async = [s.async EXCEPT ![a] = r] /\ s2.apc = [s.apc EXCEPT ![a] = p]
  /\ s2.irp = [s.irp EXCEPT ![a] = i] /\ s2.requests = s.requests
  /\ i.at = s.irp[a].at \/ a \notin ToSet(s.requests)
  /\ \/ s2.queue = s.queue
     \/ s2.queue = [s.queue EXCEPT ![Fd(s, a)] = RemoveFirst(@, a)]

\* Such a change is about the async only.
LEMMA EditedOnly ==
  ASSUME NEW s \in Server, NEW s2, NEW a \in Asyncs, NEW r, NEW p, NEW i, Lists(s),
         Edited(s, s2, a, r, p, i)
  PROVE  /\ Lists(s2) /\ \A b \in Asyncs \ {a} : Same(s, s2, b)
         /\ s2.async[a] = r /\ s2.apc[a] = p /\ s2.irp[a] = i
         /\ s2.queue = s.queue => (Queued(s2, a) <=> Queued(s, a))
         /\ s2.queue # s.queue => ~Queued(s2, a)
<1> DEFINE f == Fd(s, a)
<1>1. f \in Fds /\ s2 \in Server
  BY AttrTypes DEF Edited
<1>2. /\ s2.async[a] = r /\ s2.apc[a] = p /\ s2.irp[a] = i
      /\ \A b \in Asyncs \ {a} : s2.async[b] = s.async[b] /\ s2.apc[b] = s.apc[b]
                                   /\ s2.irp[b] = s.irp[b]
  BY Fields DEF Edited
<1>3. \A b \in Asyncs : Fd(s2, b) = Fd(s, b)
  BY DEF Edited, Fd
<1>4. s.queue \in [Fds -> Seq(Asyncs)] /\ s.queue[f] \in Seq(Asyncs) /\ Distinct(s.queue[f])
  BY <1>1, Fields DEF Lists
<1>5. /\ Distinct(RemoveFirst(s.queue[f], a))
      /\ ToSet(RemoveFirst(s.queue[f], a)) = ToSet(s.queue[f]) \ {a}
  BY <1>4, RemoveFirstDistinct
<1> HIDE DEF f
<1>6. \A e \in Fds : /\ Distinct(s2.queue[e])
                     /\ \/ s2.queue[e] = s.queue[e]
                        \/ e = f /\ ToSet(s2.queue[e]) = ToSet(s.queue[e]) \ {a}
  <2>1. CASE s2.queue = s.queue
    BY <2>1 DEF Lists
  <2>2. CASE s2.queue = [s.queue EXCEPT ![f] = RemoveFirst(@, a)]
    BY <1>1, <1>4, <1>5, <2>2 DEF Lists
  <2> QED
    BY <2>1, <2>2 DEF Edited, f
<1>7. \A e \in Fds : ToSet(s2.queue[e]) \subseteq ToSet(s.queue[e])
  BY <1>6
<1>8. ToSet(s.requests) \subseteq Asyncs
  BY Fields, ToSetMembers
<1>9. \A b \in ToSet(s.requests) : s2.irp[b].at = s.irp[b].at
  BY <1>2, <1>8 DEF Edited
<1>10. \A e \in Fds : ToSet(s.queue[e]) \subseteq Asyncs
  BY <1>4, ToSetMembers
<1>11. ASSUME NEW e \in Fds, NEW b \in ToSet(s2.queue[e]) PROVE Fd(s2, b) = e
  BY <1>3, <1>7, <1>10, <1>11 DEF Lists
<1>12. Lists(s2)
  BY <1>6, <1>9, <1>11 DEF Lists, Edited
<1>13. ASSUME NEW b \in Asyncs \ {a} PROVE Queued(s2, b) <=> Queued(s, b)
  BY <1>3, <1>6, <1>13, AttrTypes DEF Queued
<1>14. \A b \in Asyncs \ {a} : Same(s, s2, b)
  BY <1>2, <1>13 DEF Same
<1>15. s2.queue = s.queue => (Queued(s2, a) <=> Queued(s, a))
  BY <1>3 DEF Queued
<1>16. s2.queue # s.queue => ~Queued(s2, a)
  <2>1. SUFFICES ASSUME s2.queue = [s.queue EXCEPT ![f] = RemoveFirst(@, a)]
                 PROVE  ~Queued(s2, a)
    BY DEF Edited, f
  <2>2. s2.queue[f] = RemoveFirst(s.queue[f], a)
    BY <1>1, <1>4, <2>1
  <2> QED
    BY <1>3, <1>5, <2>2 DEF Queued, f
<1> QED
  BY <1>2, <1>12, <1>14, <1>15, <1>16

\* An edit of one async, with its groups kept, is a step that touches only that async.
LEMMA EditedTouches ==
  ASSUME NEW s \in Server, NEW s2, NEW a \in Asyncs, NEW r, NEW p, NEW i, Lists(s),
         Edited(s, s2, a, r, p, i), Grouped(s, s2, a)
  PROVE  /\ Touches(s, s2, a)
         /\ s2.async[a] = r /\ s2.apc[a] = p /\ s2.irp[a] = i
         /\ s2.queue = s.queue => (Queued(s2, a) <=> Queued(s, a))
         /\ s2.queue # s.queue => ~Queued(s2, a)
<1>1. /\ Lists(s2) /\ \A b \in Asyncs \ {a} : Same(s, s2, b)
      /\ s2.async[a] = r /\ s2.apc[a] = p /\ s2.irp[a] = i
      /\ s2.queue = s.queue => (Queued(s2, a) <=> Queued(s, a))
      /\ s2.queue # s.queue => ~Queued(s2, a)
  BY EditedOnly
<1>2. Touches(s, s2, a)
  BY <1>1 DEF Edited, Touches
<1> QED
  BY <1>1, <1>2

\* Changes to one async after another
LEMMA TouchesTwice ==
  ASSUME NEW s, NEW s1, NEW s2, NEW a \in Asyncs, Touches(s, s1, a), Touches(s1, s2, a)
  PROVE  Touches(s, s2, a)
<1>1. Grouped(s, s2, a)
  BY DEF Touches, Grouped
<1>2. \A b \in Asyncs \ {a} : Same(s, s2, b)
  BY DEF Touches, Same
<1> QED
  BY <1>1, <1>2 DEF Touches
\* The counts of the groups stay right when an async leaves its group.
LEMMA CountsKept ==
  ASSUME NEW s \in Server, NEW s2, NEW a \in Asyncs, InRange(s), Touches(s, s2, a)
  PROVE  InRange(s2) /\ (Counts(s) => Counts(s2))
<1> DEFINE h == s.async[a].group
<1>1. /\ s.groups \in Seq(Int) /\ s.async \in [Asyncs -> AsyncRecords] /\ h \in 0..Len(s.groups)
      /\ s2 \in Server /\ s2.groups \in Seq(Int) /\ Len(s.groups) \in Nat
  BY Fields DEF InRange, Touches
<1>2. \A b \in Asyncs \ {a} : s2.async[b].group = s.async[b].group
  BY DEF Touches, Same
<1>3. CASE s2.groups = s.groups /\ s2.async[a].group = h
  <2>1. \A b \in Asyncs : s2.async[b].group = s.async[b].group
    BY <1>2, <1>3
  <2>2. \A g : Members(s2, g) = Members(s, g)
    BY <2>1 DEF Members
  <2> QED
    BY <1>3, <2>1, <2>2 DEF InRange, Counts
<1>4. CASE h # 0 /\ s2.groups = [s.groups EXCEPT ![h] = @ - 1] /\ s2.async[a].group = 0
  <2>1. Len(s2.groups) = Len(s.groups)
    BY <1>1, <1>4
  <2>2. InRange(s2)
    BY <1>1, <1>2, <1>4, <2>1 DEF InRange
  <2>3. ASSUME Counts(s), NEW g \in 1..Len(s.groups)
        PROVE  s2.groups[g] = Cardinality(Members(s2, g))
    <3>1. CASE g # h
      <4>1. Members(s2, g) = Members(s, g)
        <5>1. \A b \in Asyncs : s2.async[b].group = g <=> s.async[b].group = g
          BY <1>1, <1>2, <1>4, <3>1, SMTT(30)
        <5> QED
          BY <5>1 DEF Members
      <4>2. s2.groups[g] = s.groups[g]
        BY <1>1, <1>4, <3>1
      <4> QED
        BY <2>3, <4>1, <4>2 DEF Counts
    <3>2. CASE g = h
      <4>1. Members(s2, g) = Members(s, g) \ {a} /\ a \in Members(s, g)
        BY <1>2, <1>4, <3>2, <1>1 DEF Members
      <4>2. IsFiniteSet(Members(s, g))
        <5>1. Members(s, g) \subseteq Asyncs
          BY DEF Members
        <5> QED
          BY <5>1, FS_Subset, AsyncAssumption
      <4>3. Cardinality(Members(s, g) \ {a}) = Cardinality(Members(s, g)) - 1
        BY <4>1, <4>2, FS_RemoveElement
      <4>4. s2.groups[g] = s.groups[g] - 1
        BY <1>1, <1>4, <3>2
      <4>5. s.groups[g] = Cardinality(Members(s, g))
        BY <2>3 DEF Counts
      <4> QED
        BY <4>1, <4>3, <4>4, <4>5
    <3> QED
      BY <3>1, <3>2
  <2> QED
    BY <2>1, <2>2, <2>3 DEF Counts
<1> QED
  BY <1>3, <1>4 DEF Touches, Grouped

\* What is the same of an async keeps its invariant.
LEMMA SameKeeps ==
  ASSUME NEW s, NEW s2, NEW b \in Asyncs, NEW c, s2.attr = s.attr, Same(s, s2, b),
         AsyncInv(s, b, c)
  PROVE  AsyncInv(s2, b, c)
<1>1. Kind[Fd(s2, b)] = Kind[Fd(s, b)]
  BY DEF Fd
<1>2. CASE Queued(s, b)
  <2>1. Queued(s2, b) = TRUE /\ Queued(s, b) = TRUE
    BY <1>2 DEF Same, Queued
  <2> QED
    BY <1>1, <2>1 DEF AsyncInv, Same
<1>3. CASE ~Queued(s, b)
  <2>1. Queued(s2, b) = FALSE /\ Queued(s, b) = FALSE
    BY <1>3 DEF Same, Queued
  <2> QED
    BY <1>1, <2>1 DEF AsyncInv, Same
<1> QED
  BY <1>2, <1>3

\* So a change to one async is right when that async is.
LEMMA Kept ==
  ASSUME NEW s, NEW s2, NEW a \in Asyncs, NEW C, NEW D, ServerInv(s, C), Touches(s, s2, a),
         AsyncInv(s2, a, D[a]), \A b \in Asyncs \ {a} : D[b] = C[b]
  PROVE  ServerInv(s2, D)
<1>1. \A b \in Asyncs \ {a} : AsyncInv(s2, b, D[b])
  BY SameKeeps DEF ServerInv, Touches
<1>2. InRange(s2)
  BY CountsKept DEF ServerInv
<1> QED
  BY <1>1, <1>2 DEF ServerInv, Touches
-----------------------------------------------------------------------------
(* The result of an async.                                                  *)

\* async_set_result, when the client asks to be alerted again
Again(r, r2, q, status) ==
  /\ r2 \in AsyncRecords /\ r2.used = r.used /\ r2.terminated = FALSE /\ r2.alerted = FALSE
  /\ r2.canceled = r.canceled /\ r2.unknown = FALSE /\ r2.direct = r.direct
  /\ r2.pending = r.pending /\ r2.signaled = r.signaled /\ r2.blocking = r.blocking
  /\ r2.skip = r.skip
  /\ r2.timeout = r.timeout /\ r2.handle = r.handle /\ r2.fd = r.fd /\ r2.iosb = r.iosb
  /\ r2.initial = (IF r.unknown THEN status ELSE r.initial)
  /\ r2.group = r.group /\ r2.posted = r.posted /\ r2.missed = (r.missed \/ ~q)

\* and when the result is final
Final(r, r2, status) ==
  /\ r2 \in AsyncRecords /\ r2.used = r.used /\ r2.terminated = TRUE /\ r2.alerted = r.alerted
  /\ r2.canceled = r.canceled /\ r2.unknown = FALSE /\ r2.direct = r.direct
  /\ r2.pending = r.pending /\ r2.signaled = TRUE /\ r2.blocking = r.blocking
  /\ r2.skip = r.skip
  /\ r2.timeout = FALSE /\ r2.handle = r.handle /\ r2.fd = FALSE /\ r2.iosb = status
  /\ r2.initial = (IF r.unknown THEN status ELSE r.initial)
  /\ r2.group = 0 /\ r2.missed = r.missed
  /\ r2.posted = (IF Posts(r, status) THEN r.posted + 1 ELSE r.posted)

\* The record that the client's I/O leaves when it is to be alerted again
AgainRecord(r, q, status) ==
  [[r EXCEPT !.initial = IF r.unknown THEN status ELSE @, !.unknown = FALSE] EXCEPT
     !.terminated = FALSE, !.alerted = FALSE, !.missed = @ \/ ~q]
\* and the one with the result, except for its group
DoneRecord(r, status) ==
  [[r EXCEPT !.initial = IF r.unknown THEN status ELSE @, !.unknown = FALSE] EXCEPT
     !.timeout = FALSE, !.terminated = TRUE, !.iosb = status, !.signaled = TRUE, !.fd = FALSE,
     !.posted = IF Posts(r, status) THEN @ + 1 ELSE @]

\* The fields of those records
LEMMA AgainFields ==
  ASSUME NEW r \in AsyncRecords, NEW q \in BOOLEAN, NEW status \in Statuses
  PROVE  /\ Again(r, AgainRecord(r, q, status), q, status)
         /\ AgainRecord(r, q, status) \in AsyncRecords
<1>1. PICK i \in Statuses : i = IF r.unknown THEN status ELSE r.initial
  BY DEF AsyncRecords
<1>2. PICK m \in BOOLEAN : m = (r.missed \/ ~q)
  BY DEF AsyncRecords
<1>3. PICK r2 : r2 = [r EXCEPT !.initial = i, !.unknown = FALSE, !.terminated = FALSE,
                               !.alerted = FALSE, !.missed = m]
  OBVIOUS
<1>4. AgainRecord(r, q, status) = r2
  BY <1>1, <1>2, <1>3 DEF AgainRecord, AsyncRecords
<1>5. r2 \in AsyncRecords
  BY <1>3 DEF AsyncRecords
<1>6. Again(r, r2, q, status)
  BY <1>1, <1>2, <1>3, <1>5 DEF Again, AsyncRecords
<1> QED
  BY <1>4, <1>5, <1>6

\* The record that async_set_result leaves is the final one, but for the group it still counts in.
LEMMA DoneFields ==
  ASSUME NEW r \in AsyncRecords, NEW status \in Statuses
  PROVE  /\ Final(r, [DoneRecord(r, status) EXCEPT !.group = 0], status)
         /\ DoneRecord(r, status) \in AsyncRecords
         /\ DoneRecord(r, status).group = r.group
         /\ r.group = 0 => Final(r, DoneRecord(r, status), status)
<1>1. PICK i \in Statuses : i = IF r.unknown THEN status ELSE r.initial
  BY DEF AsyncRecords
<1>2. PICK n \in Nat : n = IF Posts(r, status) THEN r.posted + 1 ELSE r.posted
  BY DEF AsyncRecords
<1>3. PICK r2 : r2 = [r EXCEPT !.initial = i, !.unknown = FALSE, !.timeout = FALSE,
                               !.terminated = TRUE, !.iosb = status, !.signaled = TRUE,
                               !.fd = FALSE, !.posted = n]
  OBVIOUS
<1>4. DoneRecord(r, status) = r2
  BY <1>1, <1>2, <1>3 DEF DoneRecord, AsyncRecords
<1>5. r2 \in AsyncRecords
  BY <1>3, ZenonT(30) DEF AsyncRecords
<1>6. PICK r3 : r3 = [r2 EXCEPT !.group = 0]
  OBVIOUS
<1>7. r3 \in AsyncRecords
  BY <1>5, <1>6 DEF AsyncRecords
<1>8. Final(r, r3, status)
  <2>1. r3 = [r EXCEPT !.initial = i, !.unknown = FALSE, !.timeout = FALSE,
                       !.terminated = TRUE, !.iosb = status, !.signaled = TRUE,
                       !.fd = FALSE, !.posted = n, !.group = 0]
    BY <1>3, <1>6
  <2>2. /\ r3.used = r.used /\ r3.terminated = TRUE /\ r3.alerted = r.alerted
        /\ r3.canceled = r.canceled /\ r3.unknown = FALSE /\ r3.direct = r.direct
        /\ r3.pending = r.pending /\ r3.signaled = TRUE /\ r3.blocking = r.blocking
        /\ r3.skip = r.skip
        /\ r3.timeout = FALSE /\ r3.handle = r.handle /\ r3.fd = FALSE /\ r3.iosb = status
        /\ r3.initial = i /\ r3.group = 0 /\ r3.missed = r.missed /\ r3.posted = n
    BY <2>1 DEF AsyncRecords
  <2> QED
    BY <1>1, <1>2, <1>7, <2>2 DEF Final
<1>9. r2.group = r.group
  BY <1>3 DEF AsyncRecords
<1>10. r.group = 0 => Final(r, r2, status)
  BY <1>1, <1>2, <1>3, <1>5 DEF Final, AsyncRecords
<1> QED
  BY <1>4, <1>5, <1>6, <1>8, <1>9, <1>10
\* What a result that is not final does
LEMMA SetResultAgain ==
  ASSUME NEW s \in Server, NEW a \in Asyncs, NEW s2, Lists(s), s.async[a].alerted,
         s2 = SetResult(s, a, "pending")
  PROVE  /\ Touches(s, s2, a) /\ Again(s.async[a], s2.async[a], Queued(s, a), "pending")
         /\ s2.apc[a] = s.apc[a] /\ s2.irp[a] = s.irp[a] /\ (Queued(s2, a) <=> Queued(s, a))
<1>1. PICK r \in AsyncRecords : r = s.async[a]
  BY Fields
<1>2. PICK q \in BOOLEAN : q = Queued(s, a)
  <2>1. Queued(s, a) \in BOOLEAN
    BY DEF Queued
  <2> QED
    BY <2>1
<1>3. PICK r2 \in AsyncRecords : r2 = AgainRecord(r, q, "pending")
  BY AgainFields DEF Statuses
<1>4. s2 = [s EXCEPT !.async[a] = r2]
  BY <1>1, <1>2, <1>3 DEF SetResult, AgainRecord, AsyncRecords
<1>5. s2 = [s EXCEPT !.async = [s.async EXCEPT ![a] = r2]]
  BY <1>4, Fields
<1>6. [s.async EXCEPT ![a] = r2] \in [Asyncs -> AsyncRecords]
  BY Fields
<1>7. s2 \in Server
  BY <1>5, <1>6 DEF Server
<1>8. Edited(s, s2, a, r2, s.apc[a], s.irp[a]) /\ s2.groups = s.groups /\ s2.queue = s.queue
  BY <1>5, <1>7, Fields DEF Edited, Server
<1>9. Again(r, r2, q, "pending")
  BY <1>3, AgainFields DEF Statuses
<1>10. Grouped(s, s2, a)
  <2>1. s2.async[a] = r2
    BY <1>8, Fields DEF Edited
  <2> QED
    BY <1>1, <1>8, <1>9, <2>1 DEF Grouped, Again
<1>11. /\ Touches(s, s2, a) /\ s2.async[a] = r2 /\ s2.apc[a] = s.apc[a] /\ s2.irp[a] = s.irp[a]
       /\ Queued(s2, a) <=> Queued(s, a)
  BY <1>8, <1>10, EditedTouches
<1> QED
  BY <1>1, <1>2, <1>9, <1>11

\* What the final result does
LEMMA SetResultFinal ==
  ASSUME NEW s \in Server, NEW a \in Asyncs, NEW s2, NEW status \in Statuses, Lists(s),
         s.async[a].group \in 0..Len(s.groups),
         ~(s.async[a].alerted /\ status = "pending"), s2 = SetResult(s, a, status)
  PROVE  /\ Touches(s, s2, a) /\ Final(s.async[a], s2.async[a], status)
         /\ s2.apc[a] = s.apc[a] /\ s2.irp[a] = s.irp[a] /\ ~Queued(s2, a)
<1>1. PICK r \in AsyncRecords : r = s.async[a]
  BY Fields
<1>2. PICK d \in AsyncRecords : d = DoneRecord(r, status)
  BY DoneFields
<1>3. d.group = r.group
  BY <1>2, DoneFields
<1>4. PICK q \in [Fds -> Seq(Asyncs)] : q = [s.queue EXCEPT ![Fd(s, a)] = RemoveFirst(@, a)]
  <2>1. s.queue[Fd(s, a)] \in Seq(Asyncs) /\ s.queue \in [Fds -> Seq(Asyncs)]
    BY Fields, AttrTypes
  <2>2. RemoveFirst(s.queue[Fd(s, a)], a) \in Seq(Asyncs)
    BY <2>1, RemoveFirstType
  <2> QED
    BY <2>1, <2>2
<1>5. PICK u \in [Threads -> BOOLEAN] :
        u = [s.user_apc EXCEPT ![s.attr[a].thread] =
               @ \/ (/\ Posts(r, status) /\ s.attr[a].notify = "apc"
                      /\ s.attr[a].thread \in s.alive)]
  BY Fields, AttrTypes
<1>6. PICK s1 : s1 = [s EXCEPT !.async = [s.async EXCEPT ![a] = d], !.user_apc = u, !.queue = q]
  OBVIOUS
<1>7. [s.async EXCEPT ![a] = d] \in [Asyncs -> AsyncRecords]
  BY Fields
<1>8. s1 \in Server
  BY <1>6, <1>7 DEF Server
<1>9. /\ s1.attr = s.attr /\ s1.async = [s.async EXCEPT ![a] = d] /\ s1.queue = q
      /\ s1.apc = s.apc /\ s1.irp = s.irp /\ s1.requests = s.requests /\ s1.groups = s.groups
      /\ s1.alive = s.alive /\ s1.aborted = s.aborted /\ s1.faulted = s.faulted
      /\ s1.async[a] = d
  BY <1>6, Fields DEF Server
<1>10. s2 = CompleteCancel(s1, a)
  <2> DEFINE x == [r EXCEPT !.initial = IF r.unknown THEN status ELSE @, !.unknown = FALSE]
  <2>1. /\ x.alerted = r.alerted /\ Posts(x, status) = Posts(r, status)
        /\ x.pending = r.pending
    BY DEF AsyncRecords, Posts
  <2>2. [x EXCEPT !.timeout = FALSE, !.terminated = TRUE, !.iosb = status,
                  !.signaled = TRUE, !.fd = FALSE,
                  !.posted = IF Posts(x, status) THEN @ + 1 ELSE @] = d
    BY <1>2, <2>1 DEF DoneRecord, Posts
  <2> HIDE DEF x
  <2>3. s1 = [s EXCEPT !.async[a] = d,
                       !.user_apc[s.attr[a].thread] =
                          @ \/ (/\ Posts(x, status) /\ s.attr[a].notify = "apc"
                                 /\ s.attr[a].thread \in s.alive),
                       !.queue[Fd(s, a)] = RemoveFirst(@, a)]
    BY <1>4, <1>5, <1>6, <2>1, Fields DEF Server
  <2>4. ~(x.alerted /\ status = "pending")
    BY <1>1, <2>1
  <2>5. PICK y : y = x
    OBVIOUS
  <2>6. SetResult(s, a, status) =
          IF y.alerted /\ status = "pending"
          THEN [s EXCEPT !.async[a] = [y EXCEPT !.terminated = FALSE, !.alerted = FALSE,
                                                !.missed = @ \/ ~Queued(s, a)]]
          ELSE CompleteCancel(
                 [s EXCEPT !.async[a] = [y EXCEPT !.timeout = FALSE, !.terminated = TRUE,
                                                  !.iosb = status, !.signaled = TRUE,
                                                  !.fd = FALSE,
                                                  !.posted = IF Posts(y, status) THEN @ + 1
                                                             ELSE @],
                           !.user_apc[s.attr[a].thread] =
                              @ \/ (/\ Posts(y, status) /\ s.attr[a].notify = "apc"
                                     /\ s.attr[a].thread \in s.alive),
                           !.queue[Fd(s, a)] = RemoveFirst(@, a)], a)
    BY <1>1, <2>5 DEF SetResult, x
  <2>7. ~(y.alerted /\ status = "pending") /\ d = [y EXCEPT !.timeout = FALSE, !.terminated = TRUE,
                    !.iosb = status, !.signaled = TRUE, !.fd = FALSE,
                    !.posted = IF Posts(y, status) THEN @ + 1 ELSE @]
    BY <2>2, <2>4, <2>5
  <2> QED
    BY <2>3, <2>5, <2>6, <2>7
<1>11. CASE r.group = 0
  <2>1. s2 = s1
    BY <1>3, <1>9, <1>10, <1>11 DEF CompleteCancel
  <2>2. Final(r, d, status)
    BY <1>2, <1>11, DoneFields
  <2>3. Edited(s, s2, a, d, s.apc[a], s.irp[a])
    BY <1>4, <1>8, <1>9, <2>1, Fields DEF Edited
  <2>4. Grouped(s, s2, a)
    BY <1>1, <1>3, <1>9, <2>1 DEF Grouped
  <2>5. Touches(s, s2, a) /\ s2.async[a] = d /\ s2.apc[a] = s.apc[a] /\ s2.irp[a] = s.irp[a]
    BY <2>3, <2>4, EditedTouches
  <2>6. ~Queued(s2, a)
    BY <1>4, <1>9, <2>1, AttrTypes, Fields, RemoveFirstDistinct DEF Queued, Lists, Fd
  <2> QED
    BY <1>1, <2>2, <2>5, <2>6
<1>12. CASE r.group # 0
  <2>1. PICK e \in AsyncRecords : e = [d EXCEPT !.group = 0]
    BY DEF AsyncRecords
  <2>2. Final(r, e, status)
    BY <1>2, <2>1, DoneFields
  <2>3. PICK g \in Seq(Int) : g = [s.groups EXCEPT ![r.group] = @ - 1]
    <3>1. r.group \in 1..Len(s.groups) /\ s.groups \in Seq(Int)
      BY <1>1, <1>12, Fields
    <3>2. s.groups[r.group] - 1 \in Int
      BY <3>1
    <3>3. [s.groups EXCEPT ![r.group] = s.groups[r.group] - 1] \in Seq(Int)
      BY <3>1, <3>2, ExceptSeq
    <3> QED
      BY <3>3
  <2>4. s2 = [s1 EXCEPT !.async = [s.async EXCEPT ![a] = e], !.groups = g]
    BY <1>3, <1>8, <1>9, <1>10, <1>12, <2>1, <2>3, Fields, ZenonT(30) DEF CompleteCancel, Server
  <2>5. [s.async EXCEPT ![a] = e] \in [Asyncs -> AsyncRecords]
    BY Fields
  <2>6. s2 \in Server
    BY <1>8, <2>4, <2>5 DEF Server
  <2>7. /\ s2.attr = s1.attr /\ s2.async = [s.async EXCEPT ![a] = e] /\ s2.queue = s1.queue
        /\ s2.apc = s1.apc /\ s2.irp = s1.irp /\ s2.requests = s1.requests /\ s2.groups = g
        /\ s2.alive = s1.alive /\ s2.aborted = s1.aborted /\ s2.faulted = s1.faulted
    BY <1>8, <2>4 DEF Server
  <2>8. Edited(s, s2, a, e, s.apc[a], s.irp[a])
    BY <1>4, <1>9, <2>6, <2>7, Fields DEF Edited
  <2>9. s2.async[a] = e
    BY <2>7, Fields
  <2>10. Grouped(s, s2, a)
    BY <1>1, <1>12, <2>1, <2>3, <2>7, <2>9 DEF Grouped, AsyncRecords
  <2>11. Touches(s, s2, a) /\ s2.apc[a] = s.apc[a] /\ s2.irp[a] = s.irp[a]
    BY <2>8, <2>10, EditedTouches
  <2>12. ~Queued(s2, a)
    BY <1>4, <1>9, <2>7, AttrTypes, Fields, RemoveFirstDistinct DEF Queued, Lists, Fd
  <2> QED
    BY <1>1, <2>2, <2>9, <2>11, <2>12
<1> QED
  BY <1>11, <1>12
-----------------------------------------------------------------------------
(* The end of an async.                                                     *)

\* What async_terminate does to its record
Out(r, r2, status) ==
  /\ r2 \in AsyncRecords /\ r2.used = r.used /\ r2.terminated = TRUE
  /\ r2.alerted = (r.alerted \/ status = "alerted")
  /\ r2.canceled = r.canceled /\ r2.unknown = r.unknown /\ r2.direct = r.direct
  /\ r2.pending = r.pending /\ r2.signaled = r.signaled /\ r2.blocking = r.blocking
  /\ r2.skip = r.skip
  /\ r2.timeout = r.timeout /\ r2.handle = r.handle /\ r2.fd = r.fd
  /\ r2.iosb = (IF r.iosb = "pending" THEN status ELSE r.iosb)
  /\ r2.initial = r.initial /\ r2.group = r.group /\ r2.posted = r.posted
  /\ r2.missed = r.missed

\* The status that the APC has
ApcStatus(k, status) == IF status = "success" /\ k # "socket" THEN "alerted" ELSE status

\* The fields of that record
LEMMA OutFields ==
  ASSUME NEW r \in AsyncRecords, NEW status \in Statuses
  PROVE  Out(r, Terminated(r, status), status) /\ Terminated(r, status) \in AsyncRecords
<1>1. PICK i \in Statuses : i = IF r.iosb = "pending" THEN status ELSE r.iosb
  BY DEF AsyncRecords
<1>2. PICK b \in BOOLEAN : b = (r.alerted \/ status = "alerted")
  BY DEF AsyncRecords
<1>3. PICK r2 : r2 = [r EXCEPT !.terminated = TRUE, !.iosb = i, !.alerted = b]
  OBVIOUS
<1>4. Terminated(r, status) = r2
  BY <1>1, <1>2, <1>3 DEF Terminated, AsyncRecords
<1>5. r2 \in AsyncRecords
  BY <1>3 DEF AsyncRecords
<1>6. Out(r, r2, status)
  BY <1>1, <1>2, <1>3, <1>5 DEF Out, AsyncRecords
<1> QED
  BY <1>4, <1>5, <1>6

\* Direct I/O is told by the reply, the rest by an APC, or it ends when no thread is left
\* to tell.
EndedDirect(r, r2, p, p2, q, q2, status) ==
  r.direct /\ Out(r, r2, status) /\ p2 = p /\ (q2 <=> q)
EndedByApc(k, r, r2, p2, q, q2, status) ==
  /\ ~r.direct /\ Out(r, r2, status) /\ p2.at = "queued" /\ p2.status = ApcStatus(k, status)
  /\ q2 <=> q
EndedAlone(k, r, r2, p, p2, q2, status) ==
  /\ ~r.direct /\ p2 = p /\ ~q2
  /\ \E e \in AsyncRecords : Out(r, e, status) /\ Final(e, r2, ApcStatus(k, status))
EndedSo(k, r, r2, p, p2, q, q2, status) ==
  \/ EndedDirect(r, r2, p, p2, q, q2, status)
  \/ EndedByApc(k, r, r2, p2, q, q2, status)
  \/ EndedAlone(k, r, r2, p, p2, q2, status)

\* async_terminate of an async that has not ended
LEMMA TerminateDoes ==
  ASSUME NEW s \in Server, NEW a \in Asyncs, NEW s2, NEW status \in Statuses \ {"pending"},
         Lists(s), s.async[a].group \in 0..Len(s.groups), ~s.async[a].terminated,
         s2 = Terminate(s, a, status)
  PROVE  /\ Touches(s, s2, a) /\ s2.irp[a] = s.irp[a]
         /\ EndedSo(Kind[Fd(s, a)], s.async[a], s2.async[a], s.apc[a], s2.apc[a],
                       Queued(s, a), Queued(s2, a), status)
         /\ s.alive # {} => s2.groups = s.groups
         /\ s.alive # {} /\ ~s.async[a].direct => s2.apc[a].at = "queued"
<1>1. PICK r \in AsyncRecords : r = s.async[a]
  BY Fields
<1>2. PICK e \in AsyncRecords : e = Terminated(r, status)
  BY OutFields
<1>3. Out(r, e, status)
  BY <1>2, OutFields
<1>4. PICK s1 : s1 = [s EXCEPT !.async = [s.async EXCEPT ![a] = e]]
  OBVIOUS
<1>5. [s.async EXCEPT ![a] = e] \in [Asyncs -> AsyncRecords]
  BY Fields
<1>6. s1 \in Server
  BY <1>4, <1>5 DEF Server
<1>7. Edited(s, s1, a, e, s.apc[a], s.irp[a]) /\ s1.groups = s.groups /\ s1.queue = s.queue
  BY <1>4, <1>6, Fields DEF Edited, Server
<1>8. s1.async[a] = e
  BY <1>7, Fields DEF Edited
<1>9. Grouped(s, s1, a)
  BY <1>1, <1>3, <1>7, <1>8 DEF Grouped, Out
<1>10. /\ Touches(s, s1, a) /\ s1.apc[a] = s.apc[a] /\ s1.irp[a] = s.irp[a]
       /\ Queued(s1, a) <=> Queued(s, a)
  BY <1>7, <1>9, EditedTouches
<1>11. PICK k : k = Kind[Fd(s, a)]
  OBVIOUS
<1>12. PICK st \in Statuses \ {"pending"} : st = ApcStatus(k, status)
  BY DEF ApcStatus, Statuses
<1>13. s2 = IF r.direct THEN s1 ELSE QueueApc(s1, a, st)
  <2>1. s1 = [s EXCEPT !.async[a] = Terminated(s.async[a], status)]
    BY <1>1, <1>2, <1>4
  <2> QED
    BY <1>1, <1>11, <1>12, <2>1 DEF Terminate, ApcStatus
<1>14. CASE r.direct
  <2>1. s2 = s1
    BY <1>13, <1>14
  <2>2. EndedDirect(r, s2.async[a], s.apc[a], s2.apc[a], Queued(s, a), Queued(s2, a), status)
    BY <1>3, <1>8, <1>10, <1>14, <2>1 DEF EndedDirect
  <2> QED
    BY <1>1, <1>7, <1>10, <1>14, <2>1, <2>2 DEF EndedSo
<1>15. CASE ~r.direct /\ s.alive # {}
  <2>1. PICK t \in Threads :
          t = IF s1.attr[a].thread \in s1.alive THEN s1.attr[a].thread
              ELSE CHOOSE u \in s1.alive : TRUE
    <3>1. s1.alive # {} /\ s1.alive \subseteq Threads
      BY <1>6, <1>7, <1>15, Fields DEF Edited
    <3>2. (CHOOSE u \in s1.alive : TRUE) \in s1.alive
      BY <3>1
    <3> QED
      BY <3>1, <3>2
  <2>2. PICK p \in Apcs : p = [at |-> "queued", status |-> st, thread |-> t]
    BY DEF Apcs
  <2>3. s1.alive # {}
    BY <1>7, <1>15 DEF Edited
  <2>4. s2 = [s1 EXCEPT !.apc = [s1.apc EXCEPT ![a] = p]]
    BY <1>6, <1>13, <1>15, <2>1, <2>2, <2>3, Fields DEF QueueApc
  <2>5. [s1.apc EXCEPT ![a] = p] \in [Asyncs -> Apcs]
    BY <1>6, Fields
  <2>6. s2 \in Server
    BY <1>6, <2>4, <2>5 DEF Server
  <2>7. /\ s2.attr = s1.attr /\ s2.async = s1.async /\ s2.queue = s1.queue
        /\ s2.apc = [s1.apc EXCEPT ![a] = p] /\ s2.irp = s1.irp /\ s2.requests = s1.requests
        /\ s2.groups = s1.groups /\ s2.alive = s1.alive /\ s2.aborted = s1.aborted
        /\ s2.faulted = s1.faulted
    BY <1>6, <2>4 DEF Server
  <2>8. Edited(s1, s2, a, e, p, s.irp[a])
    BY <1>6, <1>8, <1>10, <2>6, <2>7, Fields DEF Edited
  <2>9. Grouped(s1, s2, a) /\ Lists(s1)
    BY <1>10, <2>7 DEF Grouped, Touches
  <2>10. /\ Touches(s1, s2, a) /\ s2.async[a] = e /\ s2.apc[a] = p /\ s2.irp[a] = s.irp[a]
         /\ Queued(s2, a) <=> Queued(s1, a)
    <3>1. PICK i : i = s.irp[a]
      OBVIOUS
    <3>2. Edited(s1, s2, a, e, p, i)
      BY <2>8, <3>1
    <3>3. s2.queue = s1.queue
      BY <2>7
    <3>4. /\ Touches(s1, s2, a) /\ s2.async[a] = e /\ s2.apc[a] = p /\ s2.irp[a] = i
          /\ s2.queue = s1.queue => (Queued(s2, a) <=> Queued(s1, a))
      BY <1>6, <2>9, <3>2, EditedTouches
    <3> QED
      BY <3>1, <3>3, <3>4
  <2>11. Touches(s, s2, a)
    BY <1>10, <2>10, TouchesTwice
  <2>12. EndedByApc(k, r, s2.async[a], s2.apc[a], Queued(s, a), Queued(s2, a), status)
    BY <1>3, <1>10, <1>12, <1>15, <2>2, <2>10 DEF EndedByApc
  <2> QED
    BY <1>1, <1>7, <1>11, <2>2, <2>7, <2>10, <2>11, <2>12 DEF EndedSo
<1>16. CASE ~r.direct /\ s.alive = {}
  <2>1. s2 = SetResult(s1, a, st)
    BY <1>7, <1>13, <1>16 DEF QueueApc, Edited
  <2>2. Lists(s1) /\ s1.async[a].group \in 0..Len(s1.groups)
    BY <1>1, <1>3, <1>7, <1>8, <1>10 DEF Touches, Out
  <2>3. /\ Touches(s1, s2, a) /\ Final(s1.async[a], s2.async[a], st)
        /\ s2.apc[a] = s1.apc[a] /\ s2.irp[a] = s1.irp[a] /\ ~Queued(s2, a)
    BY <1>6, <1>12, <2>1, <2>2, SetResultFinal
  <2>4. Touches(s, s2, a)
    BY <1>10, <2>3, TouchesTwice
  <2>5. EndedAlone(k, r, s2.async[a], s.apc[a], s2.apc[a], Queued(s2, a), status)
    BY <1>3, <1>8, <1>10, <1>12, <1>16, <2>3 DEF EndedAlone
  <2> QED
    BY <1>1, <1>10, <1>11, <1>16, <2>3, <2>4, <2>5 DEF EndedSo
<1> QED
  BY <1>14, <1>15, <1>16
\* An async that async_terminate can end with the status
CanEnd(k, r, p, c, status) ==
  /\ r.used /\ ~r.terminated /\ ~r.alerted /\ r.posted = 0 /\ p.at = "none"
  /\ status = "alerted" => k = "socket" /\ r.group = 0 /\ ~r.canceled
  /\ k # "socket" => r.iosb \in {"pending", status}
  /\ r.unknown => r.direct
  /\ r.timeout => k = "socket"
  /\ r.pending \/ r.group # 0 \/ k = "device" \/ c.at \in {"wait", "returned"} => ~r.direct
  /\ k = "device" =>
       IF r.pending THEN r.initial = "pending"
       ELSE r.initial # "pending" /\ (IsError(r.initial) <=> IsError(status))
  /\ r.signaled /\ ~r.direct => k = "device" /\ ~r.blocking /\ r.pending
  /\ c.at \notin {"none", "io", "report"}
  /\ c.at = "wait" => r.handle /\ (k # "device" => r.blocking /\ r.initial = "pending")
  /\ c.at = "returned" => /\ c.status # "success" /\ (IsError(c.status) => r.blocking)
                          /\ c.status = "pending" => r.pending

\* fits when it has been told so.
LEMMA EndFits ==
  ASSUME NEW k \in {"socket", "pipe", "device"}, NEW r \in AsyncRecords, NEW r2 \in AsyncRecords,
         NEW p \in Apcs, NEW p2 \in Apcs, NEW q \in BOOLEAN, NEW q2 \in BOOLEAN,
         NEW c \in CallRecords, NEW status \in Statuses \ {"pending"},
         CanEnd(k, r, p, c, status), EndedSo(k, r, r2, p, p2, q, q2, status),
         q2 => r2.fd
  PROVE  Fits(k, r2, p2, "none", q2, c)
<1>1. CASE EndedDirect(r, r2, p, p2, q, q2, status)
  <2>1. Woken(k, r2, p2, c)
    BY <1>1 DEF CanEnd, EndedDirect, Out, Woken, AsyncRecords, Apcs, CallRecords
  <2>2. Waits(k, r2, "none", q2, c)
    BY <1>1 DEF CanEnd, EndedDirect, Out, Waits, AsyncRecords, Apcs, CallRecords
  <2>3. Resulting(k, r2, p2, c)
    BY <1>1 DEF CanEnd, EndedDirect, Out, Resulting, Posts, AsyncRecords, Apcs, CallRecords
  <2>4. Told(k, r2, p2, c)
    BY <1>1 DEF CanEnd, EndedDirect, Out, Told, AsyncRecords, Apcs, CallRecords
  <2>5. r2.used
    BY <1>1 DEF CanEnd, EndedDirect, Out
  <2> QED
    BY <2>1, <2>2, <2>3, <2>4, <2>5 DEF Fits, Unused, CanEnd
<1>2. CASE EndedByApc(k, r, r2, p2, q, q2, status)
  <2>1. Woken(k, r2, p2, c)
    BY <1>2 DEF CanEnd, EndedByApc, Out, Woken, AsyncRecords, Apcs, CallRecords
  <2>2. Waits(k, r2, "none", q2, c)
    BY <1>2 DEF CanEnd, EndedByApc, Out, Waits, AsyncRecords, Apcs, CallRecords
  <2>3. Resulting(k, r2, p2, c)
    BY <1>2 DEF CanEnd, EndedByApc, Out, Resulting, Posts, ApcStatus, IsError, AsyncRecords, Apcs,
                CallRecords
  <2>4. Told(k, r2, p2, c)
    BY <1>2 DEF CanEnd, EndedByApc, Out, Told, AsyncRecords, Apcs, CallRecords
  <2>5. r2.used
    BY <1>2 DEF CanEnd, EndedByApc, Out
  <2> QED
    BY <2>1, <2>2, <2>3, <2>4, <2>5 DEF Fits, Unused, CanEnd
<1>3. CASE EndedAlone(k, r, r2, p, p2, q2, status)
  <2>1. PICK e \in AsyncRecords : Out(r, e, status) /\ Final(e, r2, ApcStatus(k, status))
    BY <1>3 DEF EndedAlone
  <2>2. ~r.direct /\ p2 = p /\ ~q2
    BY <1>3 DEF EndedAlone
  <2>3. Woken(k, r2, p2, c)
    BY <2>1, <2>2 DEF CanEnd, Out, Final, Woken, AsyncRecords, Apcs, CallRecords
  <2>4. Waits(k, r2, "none", q2, c)
    BY <2>1, <2>2 DEF CanEnd, Out, Final, Waits, AsyncRecords, Apcs, CallRecords
  <2>5. Resulting(k, r2, p2, c)
    BY <2>1, <2>2 DEF CanEnd, Out, Final, Resulting, Posts, ApcStatus, IsError, AsyncRecords, Apcs,
                      CallRecords
  <2>6. Told(k, r2, p2, c)
    BY <2>1, <2>2 DEF CanEnd, Out, Final, Told, ApcStatus, IsError, AsyncRecords, Apcs,
                      CallRecords
  <2>7. r2.used
    BY <2>1 DEF CanEnd, Out, Final
  <2> QED
    BY <2>3, <2>4, <2>5, <2>6, <2>7 DEF Fits, Unused, CanEnd
<1> QED
  BY <1>1, <1>2, <1>3 DEF EndedSo
\* What is left alone before an async is ended
AlikeBut(r, r2) ==
  /\ r2.used = r.used /\ r2.terminated = r.terminated /\ r2.alerted = r.alerted
  /\ r2.unknown = r.unknown /\ r2.direct = r.direct /\ r2.pending = r.pending
  /\ r2.signaled = r.signaled /\ r2.blocking = r.blocking /\ r2.handle = r.handle
  /\ r2.skip = r.skip
  /\ r2.initial = r.initial /\ r2.group = r.group /\ r2.posted = r.posted
  /\ r2.timeout => r.timeout

\* An async of a socket or a pipe that waits can be ended.
LEMMA LiveCanEnd ==
  ASSUME NEW k \in {"socket", "pipe"}, NEW r \in AsyncRecords, NEW r2 \in AsyncRecords,
         NEW p \in Apcs, NEW i, NEW q \in BOOLEAN, NEW c \in CallRecords,
         NEW status \in Statuses \ {"pending"},
         Fits(k, r, p, i, q, c), r.used, ~r.terminated, AlikeBut(r, r2),
         status = "alerted" => k = "socket" /\ r2.canceled = r.canceled,
         k # "socket" => r2.iosb \in {"pending", status}
  PROVE  CanEnd(k, r2, p, c, status)
<1>1. /\ ~r.alerted /\ p.at = "none" /\ r.posted = 0
      /\ c.at \notin {"none", "io", "report"}
      /\ r.unknown => r.direct
      /\ r.timeout => k = "socket"
      /\ r.direct => c.at = "made"
      /\ ~r.canceled /\ r.group = 0
  BY DEF Fits, Unused, Woken, Waits, Resulting, Posts, AsyncRecords
<1>2. /\ r.pending => ~r.direct
      /\ r.signaled => r.direct
      /\ c.at = "wait" => r.handle /\ r.blocking /\ r.initial = "pending"
      /\ c.at = "returned" => /\ c.status # "success" /\ (IsError(c.status) => r.blocking)
                              /\ c.status = "pending" => r.pending
  BY <1>1 DEF Fits, Resulting, Posts, Told
<1> QED
  BY <1>1, <1>2 DEF CanEnd, AlikeBut

\* async_terminate has told of the end.
Woke(s1, s2, a, status) ==
  /\ s2.async[a].terminated /\ s2.async[a].direct = s1.async[a].direct
  /\ s2.async[a].canceled = s1.async[a].canceled
  /\ s1.async[a].direct => Out(s1.async[a], s2.async[a], status)
  /\ s1.alive # {} /\ ~s1.async[a].direct => s2.apc[a].at = "queued"

\* async_terminate keeps the invariant.
LEMMA TerminateKeeps ==
  ASSUME NEW s, NEW s1, NEW s2, NEW a \in Asyncs, NEW C \in [Asyncs -> CallRecords],
         NEW status \in Statuses \ {"pending"},
         ServerInv(s, C), Touches(s, s1, a), s1.irp[a].at = "none",
         Queued(s1, a) => s1.async[a].fd,
         CanEnd(Kind[Fd(s1, a)], s1.async[a], s1.apc[a], C[a], status),
         s2 = Terminate(s1, a, status)
  PROVE  ServerInv(s2, C) /\ Touches(s, s2, a) /\ Woke(s1, s2, a, status)
<1>1. s \in Server /\ InRange(s) /\ s1 \in Server /\ Lists(s1) /\ InRange(s1)
  BY CountsKept DEF ServerInv, Touches
<1>2. s1.async[a].group \in 0..Len(s1.groups) /\ ~s1.async[a].terminated
  BY <1>1 DEF InRange, CanEnd
<1>3. PICK k \in {"socket", "pipe", "device"} : k = Kind[Fd(s1, a)]
  BY <1>1, AttrTypes
<1>4. PICK r \in AsyncRecords, p \in Apcs : r = s1.async[a] /\ p = s1.apc[a]
  BY <1>1, Fields
<1>5. PICK q \in BOOLEAN, q2 \in BOOLEAN : q = Queued(s1, a) /\ q2 = Queued(s2, a)
  <2>1. Queued(s1, a) \in BOOLEAN /\ Queued(s2, a) \in BOOLEAN
    BY DEF Queued
  <2> QED
    BY <2>1
<1>6. /\ Touches(s1, s2, a) /\ s2.irp[a] = s1.irp[a]
      /\ EndedSo(k, r, s2.async[a], p, s2.apc[a], q, q2, status)
      /\ s1.alive # {} /\ ~s1.async[a].direct => s2.apc[a].at = "queued"
  BY <1>1, <1>2, <1>3, <1>4, <1>5, TerminateDoes
<1>7. s2 \in Server /\ s2.attr = s1.attr /\ s2.irp[a].at = "none"
  BY <1>6 DEF Touches
<1>8. PICK r2 \in AsyncRecords, p2 \in Apcs : r2 = s2.async[a] /\ p2 = s2.apc[a]
  BY <1>7, Fields
<1>9. EndedSo(k, r, r2, p, p2, q, q2, status) /\ C[a] \in CallRecords
  BY <1>6, <1>8
<1>10. (q2 => r2.fd) /\ r2.terminated /\ r2.direct = r.direct /\ r2.canceled = r.canceled
  BY <1>4, <1>5, <1>9 DEF EndedSo, EndedDirect, EndedByApc, EndedAlone, Out, Final
<1>11. CanEnd(k, r, p, C[a], status)
  BY <1>3, <1>4
<1>12. Fits(k, r2, p2, "none", q2, C[a])
  BY <1>9, <1>10, <1>11, EndFits
<1>13. AsyncInv(s2, a, C[a])
  BY <1>3, <1>5, <1>7, <1>8, <1>12 DEF AsyncInv, Fd
<1>14. Touches(s, s2, a)
  BY <1>6, TouchesTwice
<1>15. ServerInv(s2, C)
  BY <1>13, <1>14, Kept
<1>16. r.direct => Out(r, r2, status)
  BY <1>9 DEF EndedSo, EndedDirect, EndedByApc, EndedAlone
<1>17. Woke(s1, s2, a, status)
  BY <1>4, <1>6, <1>8, <1>10, <1>16 DEF Woke
<1> QED
  BY <1>14, <1>15, <1>17

\* An async of a socket or a pipe that waits is ended: LiveCanEnd and TerminateKeeps.
LEMMA LiveEnds ==
  ASSUME NEW s, NEW s1, NEW s2, NEW a \in Asyncs, NEW C \in [Asyncs -> CallRecords],
         NEW status \in Statuses \ {"pending"},
         ServerInv(s, C), Touches(s, s1, a), s1.irp[a] = s.irp[a], s1.apc[a] = s.apc[a],
         Queued(s1, a) <=> Queued(s, a), s1.async[a].fd = s.async[a].fd,
         Kind[Fd(s, a)] \in {"socket", "pipe"}, s.async[a].used, ~s.async[a].terminated,
         AlikeBut(s.async[a], s1.async[a]),
         status = "alerted" => /\ Kind[Fd(s, a)] = "socket"
                               /\ s1.async[a].canceled = s.async[a].canceled,
         Kind[Fd(s, a)] # "socket" => s1.async[a].iosb \in {"pending", status},
         s2 = Terminate(s1, a, status)
  PROVE  ServerInv(s2, C) /\ Touches(s, s2, a) /\ Woke(s1, s2, a, status)
<1>1. s \in Server /\ s1 \in Server /\ s1.attr = s.attr
  BY DEF ServerInv, Touches
<1>2. PICK k \in {"socket", "pipe"} : k = Kind[Fd(s, a)] /\ k = Kind[Fd(s1, a)]
  BY <1>1 DEF Fd
<1>3. PICK r \in AsyncRecords, r1 \in AsyncRecords : r = s.async[a] /\ r1 = s1.async[a]
  BY <1>1, Fields
<1>4. PICK p \in Apcs, i \in {s.irp[a].at} : p = s.apc[a]
  BY <1>1, Fields
<1>5. PICK q \in BOOLEAN : q = Queued(s, a)
  <2>1. Queued(s, a) \in BOOLEAN
    BY DEF Queued
  <2> QED
    BY <2>1
<1>6. Fits(k, r, p, i, q, C[a])
  BY <1>2, <1>3, <1>4, <1>5 DEF ServerInv, AsyncInv
<1>7. C[a] \in CallRecords
  OBVIOUS
<1>8. CanEnd(k, r1, p, C[a], status)
  BY <1>2, <1>3, <1>6, <1>7, LiveCanEnd
<1>9. i = "none" /\ (q => r.fd)
  BY <1>2, <1>3, <1>6 DEF Fits, Waits
<1>10. CanEnd(Kind[Fd(s1, a)], s1.async[a], s1.apc[a], C[a], status)
  BY <1>2, <1>3, <1>4, <1>8
<1>11. s1.irp[a].at = "none" /\ (Queued(s1, a) => s1.async[a].fd)
  BY <1>3, <1>4, <1>5, <1>9
<1> QED
  BY <1>10, <1>11, TerminateKeeps
-----------------------------------------------------------------------------
(* Changes to the fields of one async.                                      *)

Edit(s, a, r, p, i) ==
  [s EXCEPT !.async = [s.async EXCEPT ![a] = r], !.apc = [s.apc EXCEPT ![a] = p],
            !.irp = [s.irp EXCEPT ![a] = i]]

\* What such a change does
LEMMA EditDoes ==
  ASSUME NEW s \in Server, NEW a \in Asyncs, NEW r \in AsyncRecords, NEW p \in Apcs,
         NEW i \in Irps, NEW s2, Lists(s), r.group = s.async[a].group,
         i.at = s.irp[a].at \/ a \notin ToSet(s.requests), s2 = Edit(s, a, r, p, i)
  PROVE  /\ Touches(s, s2, a) /\ s2.async[a] = r /\ s2.apc[a] = p /\ s2.irp[a] = i
         /\ s2.groups = s.groups /\ s2.requests = s.requests /\ (Queued(s2, a) <=> Queued(s, a))
<1>1. /\ [s.async EXCEPT ![a] = r] \in [Asyncs -> AsyncRecords]
      /\ [s.apc EXCEPT ![a] = p] \in [Asyncs -> Apcs]
      /\ [s.irp EXCEPT ![a] = i] \in [Asyncs -> Irps]
  BY Fields
<1>2. s2 \in Server
  BY <1>1 DEF Edit, Server
<1>3. /\ s2.async = [s.async EXCEPT ![a] = r] /\ s2.apc = [s.apc EXCEPT ![a] = p]
      /\ s2.irp = [s.irp EXCEPT ![a] = i]
      /\ s2.attr = s.attr /\ s2.alive = s.alive /\ s2.aborted = s.aborted
      /\ s2.faulted = s.faulted /\ s2.requests = s.requests /\ s2.queue = s.queue
      /\ s2.groups = s.groups
  BY DEF Edit, Server
<1>4. Edited(s, s2, a, r, p, i)
  BY <1>2, <1>3 DEF Edited
<1>5. s2.async[a] = r
  BY <1>3, Fields
<1>6. Grouped(s, s2, a)
  BY <1>3, <1>5 DEF Grouped
<1>7. /\ Touches(s, s2, a) /\ s2.async[a] = r /\ s2.apc[a] = p /\ s2.irp[a] = i
      /\ s2.queue = s.queue => (Queued(s2, a) <=> Queued(s, a))
  BY <1>4, <1>6, EditedTouches
<1> QED
  BY <1>3, <1>7

\* It keeps the invariant when the async still fits.
LEMMA EditKeeps ==
  ASSUME NEW s, NEW a \in Asyncs, NEW r \in AsyncRecords, NEW p \in Apcs,
         NEW i \in Irps, NEW s2, NEW C, NEW D, ServerInv(s, C), r.group = s.async[a].group,
         i.at = s.irp[a].at \/ a \notin ToSet(s.requests), s2 = Edit(s, a, r, p, i),
         Fits(Kind[Fd(s, a)], r, p, i.at, Queued(s, a), D[a]),
         \A b \in Asyncs \ {a} : D[b] = C[b]
  PROVE  ServerInv(s2, D)
<1>1. s \in Server /\ Lists(s)
  BY DEF ServerInv
<1>2. /\ Touches(s, s2, a) /\ s2.async[a] = r /\ s2.apc[a] = p /\ s2.irp[a] = i
      /\ Queued(s2, a) <=> Queued(s, a)
  BY <1>1, EditDoes
<1>3. Queued(s2, a) = Queued(s, a)
  BY <1>2 DEF Queued
<1>4. AsyncInv(s2, a, D[a])
  BY <1>2, <1>3 DEF AsyncInv, Touches, Fd
<1> QED
  BY <1>2, <1>4, Kept

\* What the invariant says of one async, by its parts
LEMMA Parts ==
  ASSUME NEW s, NEW a \in Asyncs, NEW C, ServerInv(s, C)
  PROVE  /\ s \in Server /\ Lists(s) /\ InRange(s)
         /\ Kind[Fd(s, a)] \in {"socket", "pipe", "device"} /\ Fd(s, a) \in Fds
         /\ s.async[a] \in AsyncRecords /\ s.apc[a] \in Apcs /\ s.irp[a] \in Irps
         /\ Queued(s, a) \in BOOLEAN
         /\ Fits(Kind[Fd(s, a)], s.async[a], s.apc[a], s.irp[a].at, Queued(s, a), C[a])
<1>1. Queued(s, a) \in BOOLEAN
  BY DEF Queued
<1>2. s \in Server
  BY DEF ServerInv
<1> QED
  BY <1>1, <1>2, Fields, AttrTypes DEF ServerInv, AsyncInv
-----------------------------------------------------------------------------
(* Steps that are about one async.                                          *)

\* async_wake_up and async_terminate of one that may have ended
LEMMA WakeUpKeeps ==
  ASSUME NEW s, NEW s2, NEW a \in Asyncs, NEW C \in [Asyncs -> CallRecords],
         NEW status \in Statuses \ {"pending"}, ServerInv(s, C), Kind[Fd(s, a)] = "socket",
         s.async[a].used, s2 = Terminate(s, a, status)
  PROVE  ServerInv(s2, C) /\ Touches(s, s2, a)
<1>1. CASE s.async[a].terminated
  <2>1. s2 = s
    BY <1>1 DEF Terminate
  <2> QED
    BY <2>1 DEF Touches, Grouped, Same, ServerInv
<1>2. CASE ~s.async[a].terminated
  <2>1. s \in Server /\ Lists(s)
    BY DEF ServerInv
  <2>2. Touches(s, s, a)
    BY <2>1 DEF Touches, Grouped, Same
  <2>3. AlikeBut(s.async[a], s.async[a])
    BY DEF AlikeBut
  <2>4. ServerInv(s2, C) /\ Touches(s, s2, a)
    BY <1>2, <2>2, <2>3, LiveEnds
  <2> QED
    BY <2>4
<1> QED
  BY <1>1, <1>2

\* The completion of a read of a pipe end
LEMMA PipeReadKeeps ==
  ASSUME NEW s, NEW s2, NEW a \in Asyncs, NEW C \in [Asyncs -> CallRecords],
         ServerInv(s, C), Kind[Fd(s, a)] = "pipe",
         s.async[a].used, ~s.async[a].terminated, s2 = RequestComplete(s, a, "success")
  PROVE  /\ ServerInv(s2, C) /\ Touches(s, s2, a) /\ s2.async[a].terminated
         /\ s.async[a].direct => Out(s.async[a], s2.async[a], "success")
<1>1. /\ s \in Server /\ Lists(s) /\ s.async[a] \in AsyncRecords /\ s.apc[a] \in Apcs
      /\ s.irp[a] \in Irps
      /\ Fits(Kind[Fd(s, a)], s.async[a], s.apc[a], s.irp[a].at, Queued(s, a), C[a])
  BY Parts
<1>2. s.async[a].iosb = "pending"
  BY <1>1 DEF Fits, Resulting, Posts
<1>3. PICK r \in AsyncRecords : r = [s.async[a] EXCEPT !.iosb = "success"]
  BY <1>1 DEF AsyncRecords, Statuses
<1>4. PICK s1 : s1 = Edit(s, a, r, s.apc[a], s.irp[a])
  OBVIOUS
<1>5. s2 = Terminate(s1, a, "success")
  <2>1. s1 = [s EXCEPT !.async[a].iosb = "success"]
    BY <1>1, <1>3, <1>4, Fields DEF Edit, Server
  <2> QED
    BY <1>2, <2>1 DEF RequestComplete
<1>6. r.group = s.async[a].group /\ AlikeBut(s.async[a], r) /\ r.fd = s.async[a].fd
      /\ r.iosb = "success" /\ r.canceled = s.async[a].canceled
  BY <1>1, <1>3 DEF AlikeBut, AsyncRecords
<1>7. /\ Touches(s, s1, a) /\ s1.async[a] = r /\ s1.apc[a] = s.apc[a] /\ s1.irp[a] = s.irp[a]
      /\ Queued(s1, a) <=> Queued(s, a)
  BY <1>1, <1>4, <1>6, EditDoes
<1>8. "success" \in Statuses \ {"pending"}
  BY DEF Statuses
<1>9. ServerInv(s2, C) /\ Touches(s, s2, a) /\ Woke(s1, s2, a, "success")
  BY <1>5, <1>6, <1>7, <1>8, LiveEnds
<1>10. ASSUME s.async[a].direct PROVE Out(s.async[a], s2.async[a], "success")
  <2>1. Out(r, s2.async[a], "success")
    BY <1>6, <1>7, <1>9, <1>10 DEF Woke, AlikeBut
  <2>2. /\ r.used = s.async[a].used /\ r.alerted = s.async[a].alerted
        /\ r.canceled = s.async[a].canceled /\ r.unknown = s.async[a].unknown
        /\ r.direct = s.async[a].direct /\ r.pending = s.async[a].pending
        /\ r.signaled = s.async[a].signaled /\ r.blocking = s.async[a].blocking
        /\ r.skip = s.async[a].skip
        /\ r.timeout = s.async[a].timeout /\ r.handle = s.async[a].handle
        /\ r.fd = s.async[a].fd /\ r.initial = s.async[a].initial
        /\ r.group = s.async[a].group /\ r.posted = s.async[a].posted
        /\ r.missed = s.async[a].missed
    BY <1>1, <1>3 DEF AsyncRecords
  <2> QED
    BY <1>2, <1>6, <2>1, <2>2, ZenonT(30) DEF Out
<1> QED
  BY <1>9, <1>10 DEF Woke

\* async_timeout
LEMMA TimeoutKeeps ==
  ASSUME NEW s2, NEW a \in Asyncs, NEW C \in [Asyncs -> CallRecords],
         ServerInv(srv, C), AsyncTimeout(a), s2 = srv'
  PROVE  ServerInv(s2, C) /\ Touches(srv, s2, a)
<1>1. /\ srv \in Server /\ Lists(srv) /\ srv.async[a] \in AsyncRecords /\ srv.apc[a] \in Apcs
      /\ srv.irp[a] \in Irps
      /\ Fits(Kind[Fd(srv, a)], srv.async[a], srv.apc[a], srv.irp[a].at, Queued(srv, a), C[a])
      /\ Kind[Fd(srv, a)] \in {"socket", "pipe", "device"}
  BY Parts
<1>2. PICK m \in BOOLEAN : m = (srv.async[a].missed \/ (srv.async[a].alerted
                                                         /\ srv.async[a].terminated))
  BY <1>1 DEF AsyncRecords
<1>3. PICK r \in AsyncRecords : r = [srv.async[a] EXCEPT !.timeout = FALSE, !.missed = m]
  BY <1>1 DEF AsyncRecords
<1>4. PICK s1 : s1 = Edit(srv, a, r, srv.apc[a], srv.irp[a])
  OBVIOUS
<1>5. s2 = Terminate(s1, a, "timeout")
  <2>1. s1 = [srv EXCEPT !.async[a].timeout = FALSE, !.async[a].missed = m]
    BY <1>1, <1>3, <1>4, Fields, ZenonT(30) DEF Edit, Server
  <2>2. s1 = [srv EXCEPT !.async[a].timeout = FALSE,
                         !.async[a].missed = @ \/ (srv.async[a].alerted
                                                     /\ srv.async[a].terminated)]
    BY <1>1, <1>2, <2>1, Fields DEF Server, AsyncRecords
  <2> QED
    BY <2>2 DEF AsyncTimeout
<1>6. /\ r.group = srv.async[a].group /\ AlikeBut(srv.async[a], r) /\ r.fd = srv.async[a].fd
      /\ r.iosb = srv.async[a].iosb /\ r.canceled = srv.async[a].canceled /\ ~r.timeout
      /\ r.missed = m
  BY <1>1, <1>3 DEF AlikeBut, AsyncRecords
<1>7. /\ Touches(srv, s1, a) /\ s1.async[a] = r /\ s1.apc[a] = srv.apc[a]
      /\ s1.irp[a] = srv.irp[a] /\ (Queued(s1, a) <=> Queued(srv, a))
  BY <1>1, <1>4, <1>6, EditDoes
<1>8. srv.async[a].used /\ Kind[Fd(srv, a)] = "socket"
  BY <1>1 DEF AsyncTimeout, Exists, Fits, Woken
<1>9. CASE srv.async[a].terminated
  <2>1. s2 = s1
    BY <1>5, <1>6, <1>7, <1>9 DEF Terminate, AlikeBut
  <2>2. Fits(Kind[Fd(srv, a)], r, srv.apc[a], srv.irp[a].at, Queued(srv, a), C[a])
    BY <1>1, <1>6, <1>8, <1>9
       DEF Fits, Unused, Woken, Waits, Resulting, Posts, Told, AlikeBut, AsyncRecords
  <2>3. ServerInv(s2, C)
    BY <1>1, <1>4, <1>6, <2>1, <2>2, EditKeeps
  <2> QED
    BY <1>7, <2>1, <2>3
<1>10. CASE ~srv.async[a].terminated
  <2>1. "timeout" \in Statuses \ {"pending"}
    BY DEF Statuses
  <2> QED
    BY <1>5, <1>6, <1>7, <1>8, <1>10, <2>1, LiveEnds
<1> QED
  BY <1>9, <1>10
-----------------------------------------------------------------------------
(* Loops over asyncs.                                                       *)

\* SetToSeq lists the members of a finite set.
LEMMA SetToSeqLists ==
  ASSUME NEW S, IsFiniteSet(S)
  PROVE  SetToSeq(S) \in Seq(S) /\ ToSet(SetToSeq(S)) = S /\ Distinct(SetToSeq(S))
<1>1. PICK n \in Nat : n = Cardinality(S)
  BY FS_CardinalityType
<1>2. ExistsBijection(1..n, S)
  BY <1>1, FS_CardinalityType
<1>3. \E f \in [1..n -> S] : IsInjective(f)
  BY <1>2 DEF ExistsBijection, Bijection, Injection
<1>4. PICK q \in [1..n -> S] : q = SetToSeq(S) /\ IsInjective(q)
  BY <1>1, <1>3 DEF SetToSeq
<1>5. q \in Seq(S) /\ Len(q) = n /\ DOMAIN q = 1..n
  BY <1>4
<1>6. Distinct(q)
  BY <1>4, <1>5 DEF Distinct, IsInjective
<1>7. q \in Injection(1..n, S)
  BY <1>4 DEF Injection
<1>8. Cardinality(1..n) = n
  BY FS_Interval
<1>9. q \in Surjection(1..n, S)
  BY <1>1, <1>7, <1>8, FS_Injection
<1>10. ToSet(q) = S
  BY <1>4, <1>5, <1>9 DEF Surjection, ToSet
<1> QED
  BY <1>4, <1>5, <1>6, <1>10

\* The invariant is about these fields of the server.
LEMMA ViewKeeps ==
  ASSUME NEW s, NEW s2 \in Server, NEW C, ServerInv(s, C),
         s2.attr = s.attr, s2.async = s.async, s2.apc = s.apc, s2.irp = s.irp,
         s2.queue = s.queue, s2.requests = s.requests, s2.groups = s.groups
  PROVE  /\ ServerInv(s2, C) /\ (Counts(s) => Counts(s2))
         /\ \A b \in Asyncs : Same(s, s2, b)
<1>1. \A b \in Asyncs : Same(s, s2, b)
  BY DEF Same, Queued, Fd
<1>2. \A b \in Asyncs : AsyncInv(s2, b, C[b])
  BY <1>1, SameKeeps DEF ServerInv
<1>3. Lists(s2)
  BY DEF ServerInv, Lists, Fd
<1>4. \A g : Members(s2, g) = Members(s, g)
  BY DEF Members
<1>5. InRange(s2) /\ (Counts(s) => Counts(s2))
  BY <1>4 DEF ServerInv, InRange, Counts
<1> QED
  BY <1>1, <1>2, <1>3, <1>5 DEF ServerInv

\* What is the same of an async keeps it live, or without its file.
LEMMA SameLives ==
  ASSUME NEW s, NEW s2, NEW b \in Asyncs, s2.attr = s.attr, Same(s, s2, b)
  PROVE  /\ b \in Live(s2) <=> b \in Live(s)
         /\ b \in Orphans(s2) <=> b \in Orphans(s)
         /\ Fd(s2, b) = Fd(s, b)
<1>1. Exists(s2, b) <=> Exists(s, b)
  BY DEF Exists, Same
<1>2. b \in Live(s2) <=> b \in Live(s)
  BY <1>1 DEF Live, Same
<1>3. b \in Orphans(s2) <=> b \in Orphans(s)
  BY <1>2 DEF Orphans, Same
<1> QED
  BY <1>2, <1>3 DEF Fd

\* A loop that began in s0 has come to s, and has not come to the asyncs R.
Faults(s) == s.faulted => Orphans(s) # {}
Carries(s0, s, C, R) ==
  /\ ServerInv(s, C) /\ Counts(s) /\ Faults(s)
  /\ s.attr = s0.attr /\ s.alive = s0.alive /\ s.aborted = s0.aborted
  /\ \A b \in R : Same(s0, s, b)
StepsCarry(loop, s0, C, A) ==
  \A s, R : \A a \in A : a \in R /\ R \subseteq Asyncs /\ Carries(s0, s, C, R) =>
                           Carries(s0, LoopStep(loop, s, a), C, R \ {a})

\* When each step of a loop keeps the invariant, the loop does.
LEMMA EachCarries ==
  ASSUME NEW loop, NEW s0, NEW C, NEW q \in Seq(Asyncs), Distinct(q),
         ServerInv(s0, C), Counts(s0), Faults(s0), StepsCarry(loop, s0, C, ToSet(q))
  PROVE  Carries(s0, Each(loop, s0, q), C, Asyncs \ ToSet(q))
<1>1. PICK g : /\ g[0] = s0 /\ \A n \in 1..Len(q) : g[n] = LoopStep(loop, g[n - 1], q[n])
               /\ Each(loop, s0, q) = g[Len(q)]
  BY EachRuns
<1>2. PICK N \in Nat : N = Len(q)
  OBVIOUS
<1> DEFINE R(n) == {b \in Asyncs : \A j \in 1..n : q[j] # b}
           P == {n \in 0..N : Carries(s0, g[n], C, R(n))}
<1>3. 0 \in P
  <2>1. \A b \in Asyncs : Same(s0, s0, b)
    BY DEF Same
  <2>2. R(0) \subseteq Asyncs
    OBVIOUS
  <2> QED
    BY <1>1, <1>2, <2>1, <2>2 DEF Carries
<1>4. ASSUME NEW n \in 1..N, n - 1 \in P
      PROVE  n \in P
  <2>1. n \in 1..Len(q) /\ q[n] \in ToSet(q) /\ q[n] \in Asyncs
    BY <1>2, ToSetMembers
  <2>2. q[n] \in R(n - 1)
    BY <1>2, <2>1 DEF Distinct
  <2>3. R(n) = R(n - 1) \ {q[n]} /\ R(n - 1) \subseteq Asyncs
    BY <1>2, <2>1
  <2>4. Carries(s0, g[n - 1], C, R(n - 1))
    BY <1>4
  <2> HIDE DEF R
  <2>5. Carries(s0, LoopStep(loop, g[n - 1], q[n]), C, R(n - 1) \ {q[n]})
    BY <2>1, <2>2, <2>3, <2>4 DEF StepsCarry
  <2>6. g[n] = LoopStep(loop, g[n - 1], q[n]) /\ n \in 0..N
    BY <1>1, <2>1
  <2>7. Carries(s0, g[n], C, R(n))
    BY <2>3, <2>5, <2>6
  <2> QED
    BY <2>6, <2>7
<1>5. N \in P
  <2> HIDE DEF P
  <2> QED
    BY <1>3, <1>4, UpTo
<1>6. R(N) = Asyncs \ ToSet(q)
  BY <1>2, ToSetMembers
<1> QED
  BY <1>1, <1>2, <1>5, <1>6
\* cancel_async of an async that waits
LEMMA CancelKeeps ==
  ASSUME NEW s, NEW s2, NEW a \in Live(s), NEW C \in [Asyncs -> CallRecords], ServerInv(s, C),
         s.async[a].fd, s2 = CancelAsync(s, a)
  PROVE  /\ ServerInv(s2, C) /\ Touches(s, s2, a)
         /\ s2.async[a].canceled /\ s2.async[a].direct = s.async[a].direct
         /\ IF Kind[Fd(s, a)] = "device" THEN ~s2.async[a].terminated
            ELSE /\ s2.async[a].terminated
                 /\ s.alive # {} /\ ~s.async[a].direct => s2.apc[a].at = "queued"
<1>1. /\ a \in Asyncs /\ s.async[a].used /\ ~s.async[a].terminated
  BY DEF Live, Exists
<1>2. /\ s \in Server /\ Lists(s) /\ s.async[a] \in AsyncRecords /\ s.apc[a] \in Apcs
      /\ s.irp[a] \in Irps /\ Kind[Fd(s, a)] \in {"socket", "pipe", "device"}
      /\ Fits(Kind[Fd(s, a)], s.async[a], s.apc[a], s.irp[a].at, Queued(s, a), C[a])
  BY <1>1, Parts
<1>3. PICK r \in AsyncRecords : r = [s.async[a] EXCEPT !.canceled = TRUE]
  BY <1>2 DEF AsyncRecords
<1>4. PICK s1 : s1 = Edit(s, a, r, s.apc[a], s.irp[a])
  OBVIOUS
<1>5. s1 = [s EXCEPT !.async[a].canceled = TRUE]
  BY <1>1, <1>2, <1>3, <1>4, Fields DEF Edit, Server
<1>6. /\ r.group = s.async[a].group /\ AlikeBut(s.async[a], r) /\ r.fd = s.async[a].fd
      /\ r.iosb = s.async[a].iosb /\ r.timeout = s.async[a].timeout
      /\ r.missed = s.async[a].missed /\ r.canceled
  <2>1. PICK x \in AsyncRecords : x = s.async[a]
    BY <1>2
  <2>2. r = [x EXCEPT !.canceled = TRUE]
    BY <1>3, <2>1
  <2>3. /\ r.group = x.group /\ AlikeBut(x, r) /\ r.fd = x.fd
        /\ r.iosb = x.iosb /\ r.timeout = x.timeout /\ r.missed = x.missed
        /\ r.canceled
    BY <2>2 DEF AlikeBut, AsyncRecords
  <2> QED
    BY <2>1, <2>3
<1>7. /\ Touches(s, s1, a) /\ s1.async[a] = r /\ s1.apc[a] = s.apc[a] /\ s1.irp[a] = s.irp[a]
      /\ Queued(s1, a) <=> Queued(s, a)
  BY <1>1, <1>2, <1>4, <1>6, EditDoes
<1>8. CASE Kind[Fd(s, a)] = "device"
  <2>1. Fits("device", r, s.apc[a], s.irp[a].at, Queued(s, a), C[a])
    BY <1>1, <1>2, <1>6, <1>8
       DEF Fits, Unused, Woken, Waits, Resulting, Posts, Told, AlikeBut, AsyncRecords
  <2>2. PICK i \in Irps : /\ i.at = s.irp[a].at
                          /\ s2 = Edit(s, a, r, s.apc[a], i)
    <3>1. CASE s.irp[a].at \in {"queued", "current", "held"}
      <4>1. PICK i \in Irps : i = [s.irp[a] EXCEPT !.canceled = TRUE]
        BY <1>2 DEF Irps
      <4>2. s2 = [s1 EXCEPT !.irp[a].canceled = TRUE]
        BY <1>1, <1>5, <1>8, <3>1 DEF CancelAsync, CancelIrp
      <4>3. s2 = Edit(s, a, r, s.apc[a], i)
        BY <1>1, <1>2, <1>4, <4>1, <4>2, Fields, ZenonT(30) DEF Edit, Server
      <4>4. i.at = s.irp[a].at
        BY <1>2, <4>1 DEF Irps
      <4> QED
        BY <4>3, <4>4
    <3>2. CASE s.irp[a].at \notin {"queued", "current", "held"}
      BY <1>2, <1>4, <1>5, <1>8, <3>2 DEF CancelAsync
    <3> QED
      BY <3>1, <3>2
  <2>3. ServerInv(s2, C)
    BY <1>1, <1>2, <1>6, <1>8, <2>1, <2>2, EditKeeps
  <2>4. Touches(s, s2, a) /\ s2.async[a] = r
    BY <1>1, <1>2, <1>6, <2>2, EditDoes
  <2> QED
    BY <1>1, <1>6, <1>8, <2>3, <2>4 DEF AlikeBut
<1>9. CASE Kind[Fd(s, a)] # "device"
  <2>1. s2 = Terminate(s1, a, "cancelled")
    BY <1>5, <1>9 DEF CancelAsync
  <2>2. "cancelled" \in Statuses \ {"pending"} /\ Kind[Fd(s, a)] \in {"socket", "pipe"}
    BY <1>2, <1>9 DEF Statuses
  <2>3. Kind[Fd(s, a)] # "socket" => s1.async[a].iosb \in {"pending", "cancelled"}
    BY <1>1, <1>2, <1>6, <1>7 DEF Fits, Resulting, Posts
  <2>4. ServerInv(s2, C) /\ Touches(s, s2, a) /\ Woke(s1, s2, a, "cancelled")
    BY <1>1, <1>6, <1>7, <2>1, <2>2, <2>3, LiveEnds
  <2> QED
    BY <1>6, <1>7, <1>9, <2>4 DEF Woke, AlikeBut, Touches
<1> QED
  BY <1>8, <1>9

\* The loops with cancel_async
LEMMA CancelsCarry ==
  ASSUME NEW s0, NEW C \in [Asyncs -> CallRecords], NEW A \in SUBSET Live(s0)
  PROVE  StepsCarry("cancel", s0, C, A)
<1>1. SUFFICES ASSUME NEW s, NEW R, NEW a \in A, a \in R, R \subseteq Asyncs,
                      Carries(s0, s, C, R)
               PROVE  Carries(s0, LoopStep("cancel", s, a), C, R \ {a})
  BY DEF StepsCarry
<1>2. PICK s2 : s2 = CancelAsync(s, a)
  OBVIOUS
<1>3. LoopStep("cancel", s, a) = s2
  BY <1>2 DEF LoopStep
<1>4. /\ ServerInv(s, C) /\ Counts(s) /\ InRange(s) /\ Faults(s)
      /\ s.attr = s0.attr /\ s.alive = s0.alive /\ s.aborted = s0.aborted
      /\ (\A b \in R : Same(s0, s, b)) /\ s \in Server
  BY <1>1 DEF Carries, ServerInv
<1>5. a \in Asyncs /\ a \in Live(s)
  BY <1>1, <1>4, SameLives
<1>6. CASE ~s.async[a].fd
  <2>1. s2 = [s EXCEPT !.faulted = TRUE]
    BY <1>2, <1>6 DEF CancelAsync
  <2>2. s2 \in Server
    BY <1>4, <2>1 DEF Server
  <2>3. /\ s2.attr = s.attr /\ s2.async = s.async /\ s2.apc = s.apc /\ s2.irp = s.irp
        /\ s2.queue = s.queue /\ s2.requests = s.requests /\ s2.groups = s.groups
        /\ s2.alive = s.alive /\ s2.aborted = s.aborted
    BY <1>4, <2>1 DEF Server
  <2>4. ServerInv(s2, C) /\ Counts(s2) /\ \A b \in Asyncs : Same(s, s2, b)
    BY <1>4, <2>2, <2>3, ViewKeeps
  <2>5. a \in Orphans(s2)
    <3>1. a \in Orphans(s)
      BY <1>5, <1>6 DEF Orphans
    <3> QED
      BY <1>5, <2>3, <2>4, <3>1, SameLives
  <2>6. \A b \in R \ {a} : Same(s0, s2, b)
    BY <1>1, <1>4, <2>4 DEF Same
  <2> QED
    BY <1>3, <1>4, <2>3, <2>4, <2>5, <2>6 DEF Carries, Faults
<1>7. CASE s.async[a].fd
  <2>1. ServerInv(s2, C) /\ Counts(s2) /\ Touches(s, s2, a)
    BY <1>2, <1>4, <1>5, <1>7, CancelKeeps, CountsKept
  <2>2. /\ s2.attr = s.attr /\ s2.alive = s.alive /\ s2.aborted = s.aborted
        /\ s2.faulted = s.faulted /\ \A b \in Asyncs \ {a} : Same(s, s2, b)
    BY <2>1 DEF Touches
  <2>3. \A b \in R \ {a} : Same(s0, s2, b)
    BY <1>1, <1>4, <2>2 DEF Same
  <2>4. Faults(s2)
    <3>1. ASSUME s.faulted, NEW b \in Orphans(s) PROVE b \in Orphans(s2)
      <4>1. b \in Asyncs \ {a}
        BY <1>7, <3>1 DEF Orphans, Live
      <4> QED
        BY <2>2, <3>1, <4>1, SameLives
    <3> QED
      BY <1>4, <2>2, <3>1 DEF Faults
  <2> QED
    BY <1>3, <1>4, <2>1, <2>2, <2>3, <2>4 DEF Carries
<1> QED
  BY <1>6, <1>7
-----------------------------------------------------------------------------
(* The end of an APC.                                                       *)

\* The async fits when the client asks to be alerted again
LEMMA AgainFits ==
  ASSUME NEW k \in {"socket", "pipe", "device"}, NEW r \in AsyncRecords, NEW r2 \in AsyncRecords,
         NEW p \in Apcs, NEW p2 \in Apcs, NEW i, NEW q \in BOOLEAN, NEW c \in CallRecords,
         Fits(k, r, p, i, q, c), p.at # "none", r.alerted, p2.at = "none",
         Again(r, r2, q, "pending")
  PROVE  Fits(k, r2, p2, i, q, c)
<1>1. /\ r.used /\ r.terminated /\ k = "socket" /\ r.group = 0 /\ ~r.canceled /\ ~r.direct
      /\ r.posted = 0 /\ i = "none" /\ c.at \notin {"none", "io", "report"} /\ ~r.unknown
      /\ (r.fd \/ ~q)
  BY DEF Fits, Unused, Woken, Waits, AsyncRecords
<1>2. /\ ~r.signaled
      /\ c.at = "wait" => r.handle /\ r.blocking /\ r.initial = "pending"
      /\ c.at = "returned" => /\ c.status # "success" /\ (IsError(c.status) => r.blocking)
                              /\ c.status = "pending" => r.pending
  BY <1>1 DEF Fits, Told
<1>3. Unused(r2, p2, i, q, c) /\ Woken(k, r2, p2, c)
  BY <1>1 DEF Again, Unused, Woken
<1>4. Waits(k, r2, i, q, c)
  BY <1>1 DEF Again, Waits
<1>5. Resulting(k, r2, p2, c)
  BY <1>1 DEF Again, Resulting, Posts
<1>6. Told(k, r2, p2, c)
  BY <1>1, <1>2 DEF Again, Told
<1> QED
  BY <1>3, <1>4, <1>5, <1>6 DEF Fits

\* and when the APC brings its result.
LEMMA FinalFits ==
  ASSUME NEW k \in {"socket", "pipe", "device"}, NEW r \in AsyncRecords, NEW r2 \in AsyncRecords,
         NEW p \in Apcs, NEW p2 \in Apcs, NEW i, NEW q \in BOOLEAN, NEW c \in CallRecords,
         Fits(k, r, p, i, q, c), p.at # "none", ~(r.alerted /\ p.status = "pending"),
         p2.at = "none", NEW f \in BOOLEAN, ~f, Final(r, r2, p.status)
  PROVE  Fits(k, r2, p2, i, f, c)
<1>1. /\ r.used /\ r.terminated /\ ~r.direct /\ r.posted = 0 /\ i = "none"
      /\ c.at \notin {"none", "io", "report"} /\ ~r.unknown
      /\ r.alerted => ~r.canceled /\ k = "socket"
  BY DEF Fits, Unused, Woken, Waits, Told, AsyncRecords
<1>2. /\ c.at = "wait" => r.handle /\ (k # "device" => r.blocking /\ r.initial = "pending")
      /\ c.at = "returned" => /\ c.status # "success" /\ (IsError(c.status) => r.blocking)
                              /\ c.status = "pending" => r.pending
      /\ k = "device" =>
           IF r.pending THEN r.initial = "pending"
           ELSE r.initial # "pending" /\ (IsError(r.initial) <=> IsError(r.iosb))
  BY <1>1 DEF Fits, Told
<1>3. /\ p.status # "pending"
      /\ k # "socket" => (IsError(p.status) <=> IsError(r.iosb))
  BY <1>1 DEF Fits, Resulting, Posts
<1>4. Unused(r2, p2, i, f, c) /\ Woken(k, r2, p2, c)
  BY <1>1 DEF Final, Unused, Woken
<1>5. Waits(k, r2, i, f, c)
  BY <1>1 DEF Final, Waits
<1>6. Resulting(k, r2, p2, c)
  BY <1>1, <1>3 DEF Final, Resulting, Posts, AsyncRecords
<1>7. Told(k, r2, p2, c)
  BY <1>1, <1>2, <1>3 DEF Final, Told, AsyncRecords
<1> QED
  BY <1>4, <1>5, <1>6, <1>7 DEF Fits

\* thread_apc_destroy keeps the invariant.
LEMMA ApcKeeps ==
  ASSUME NEW s, NEW s2, NEW a \in Asyncs, NEW C \in [Asyncs -> CallRecords], ServerInv(s, C),
         s.apc[a].at # "none", s2 = ApcDestroyed(s, a)
  PROVE  ServerInv(s2, C) /\ Touches(s, s2, a)
<1>1. /\ s \in Server /\ Lists(s) /\ InRange(s) /\ Queued(s, a) \in BOOLEAN
  BY Parts
<1>2. PICK r \in AsyncRecords, p \in Apcs, i \in Irps, k \in {"socket", "pipe", "device"} :
        r = s.async[a] /\ p = s.apc[a] /\ i = s.irp[a] /\ k = Kind[Fd(s, a)]
  BY Parts
<1>3. PICK q \in BOOLEAN : q = Queued(s, a)
  BY <1>1
<1>4. Fits(k, r, p, i.at, q, C[a]) /\ C[a] \in CallRecords
  BY <1>2, <1>3, Parts
<1>5. PICK p1 \in Apcs : p1 = [p EXCEPT !.at = "none"]
  BY DEF Apcs
<1>6. p1.at = "none"
  BY <1>5 DEF Apcs
<1>7. PICK s1 : s1 = Edit(s, a, r, p1, i)
  OBVIOUS
<1>8. s2 = SetResult(s1, a, p.status) /\ p.status \in Statuses
  <2>1. s1 = [s EXCEPT !.apc[a].at = "none"]
    BY <1>1, <1>2, <1>5, <1>7, Fields DEF Edit, Server
  <2> QED
    BY <1>2, <2>1 DEF ApcDestroyed, Apcs
<1>9. /\ Touches(s, s1, a) /\ s1.async[a] = r /\ s1.apc[a] = p1 /\ s1.irp[a] = i
      /\ Queued(s1, a) <=> Queued(s, a)
  BY <1>1, <1>2, <1>7, EditDoes
<1>10. s1 \in Server /\ Lists(s1) /\ s1.attr = s.attr /\ InRange(s1)
  BY <1>1, <1>9, CountsKept DEF Touches
<1>11. Queued(s1, a) = q
  BY <1>3, <1>9 DEF Queued
<1>12. CASE r.alerted /\ p.status = "pending"
  <2>1. /\ Touches(s1, s2, a) /\ Again(s1.async[a], s2.async[a], Queued(s1, a), "pending")
        /\ s2.apc[a] = s1.apc[a] /\ s2.irp[a] = s1.irp[a] /\ (Queued(s2, a) <=> Queued(s1, a))
    BY <1>8, <1>9, <1>10, <1>12, SetResultAgain
  <2>2. s2 \in Server /\ s2.attr = s.attr /\ Queued(s2, a) = q
    BY <1>10, <1>11, <2>1 DEF Touches, Queued
  <2>3. PICK r2 \in AsyncRecords : r2 = s2.async[a]
    BY <2>2, Fields
  <2>4. Again(r, r2, q, "pending")
    BY <1>9, <1>11, <2>1, <2>3
  <2>5. Fits(k, r2, p1, i.at, q, C[a])
    BY <1>2, <1>4, <1>6, <1>12, <2>4, AgainFits
  <2>6. AsyncInv(s2, a, C[a])
    BY <1>2, <1>9, <2>1, <2>2, <2>3, <2>5 DEF AsyncInv, Fd
  <2>7. Touches(s, s2, a)
    BY <1>9, <2>1, TouchesTwice
  <2> QED
    BY <2>6, <2>7, Kept
<1>13. CASE ~(r.alerted /\ p.status = "pending")
  <2>1. s1.async[a].group \in 0..Len(s1.groups)
    BY <1>10 DEF InRange
  <2>2. /\ Touches(s1, s2, a) /\ Final(s1.async[a], s2.async[a], p.status)
        /\ s2.apc[a] = s1.apc[a] /\ s2.irp[a] = s1.irp[a] /\ ~Queued(s2, a)
    BY <1>8, <1>9, <1>10, <1>13, <2>1, SetResultFinal
  <2>3. s2 \in Server /\ s2.attr = s.attr /\ Queued(s2, a) = FALSE
    BY <1>10, <2>2 DEF Touches, Queued
  <2>4. PICK r2 \in AsyncRecords : r2 = s2.async[a]
    BY <2>3, Fields
  <2>5. Final(r, r2, p.status)
    BY <1>9, <2>2, <2>4
  <2>6. Fits(k, r2, p1, i.at, FALSE, C[a])
    <3>1. p.at # "none" /\ ~FALSE /\ FALSE \in BOOLEAN
      BY <1>2
    <3> QED
      BY <1>4, <1>6, <1>13, <2>5, <3>1, FinalFits
  <2>7. AsyncInv(s2, a, C[a])
    BY <1>2, <1>9, <2>2, <2>3, <2>4, <2>6 DEF AsyncInv, Fd
  <2>8. Touches(s, s2, a)
    BY <1>9, <2>2, TouchesTwice
  <2> QED
    BY <2>7, <2>8, Kept
<1> QED
  BY <1>12, <1>13
-----------------------------------------------------------------------------
(* The other loops.                                                         *)

\* A step of a loop that touches one async, which has its file or has ended
LEMMA TouchCarries ==
  ASSUME NEW s0, NEW s, NEW s2, NEW C, NEW R \in SUBSET Asyncs, NEW a \in R,
         Carries(s0, s, C, R), a \notin Orphans(s), ServerInv(s2, C), Touches(s, s2, a)
  PROVE  Carries(s0, s2, C, R \ {a})
<1>1. /\ s2.attr = s.attr /\ s2.alive = s.alive /\ s2.aborted = s.aborted
      /\ s2.faulted = s.faulted /\ \A b \in Asyncs \ {a} : Same(s, s2, b)
  BY DEF Touches
<1>2. \A b \in R \ {a} : Same(s0, s2, b)
  BY <1>1 DEF Same, Carries
<1>3. Faults(s2)
  <2>1. ASSUME NEW b \in Orphans(s) PROVE b \in Orphans(s2)
    <3>1. b \in Asyncs \ {a}
      BY <2>1 DEF Orphans, Live
    <3> QED
      BY <1>1, <2>1, <3>1, SameLives
  <2> QED
    BY <1>1, <2>1 DEF Faults, Carries
<1>4. Counts(s2)
  BY CountsKept DEF Carries, ServerInv
<1> QED
  BY <1>1, <1>2, <1>3, <1>4 DEF Carries

\* An async on a queue exists, and has its file.
LEMMA QueuedHas ==
  ASSUME NEW s, NEW a \in Asyncs, NEW C, ServerInv(s, C), Queued(s, a)
  PROVE  s.async[a].used /\ s.async[a].fd /\ a \notin Orphans(s)
<1>1. /\ s.async[a] \in AsyncRecords
      /\ Fits(Kind[Fd(s, a)], s.async[a], s.apc[a], s.irp[a].at, Queued(s, a), C[a])
  BY Parts
<1>2. s.async[a].used /\ s.async[a].fd
  BY <1>1 DEF Fits, Unused, Waits, AsyncRecords
<1> QED
  BY <1>2 DEF Orphans

\* The loop when a socket hangs up
LEMMA HangupsCarry ==
  ASSUME NEW s0, NEW C \in [Asyncs -> CallRecords], NEW A \in SUBSET Asyncs,
         \A a \in A : Queued(s0, a) /\ Kind[Fd(s0, a)] = "socket"
  PROVE  StepsCarry("hangup", s0, C, A)
<1>1. SUFFICES ASSUME NEW s, NEW R, NEW a \in A, a \in R, R \subseteq Asyncs,
                      Carries(s0, s, C, R)
               PROVE  Carries(s0, LoopStep("hangup", s, a), C, R \ {a})
  BY DEF StepsCarry
<1>2. PICK s2 : s2 = Terminate(s, a, "error")
  OBVIOUS
<1>3. LoopStep("hangup", s, a) = s2
  BY <1>2 DEF LoopStep
<1>4. ServerInv(s, C) /\ Queued(s, a) /\ Kind[Fd(s, a)] = "socket" /\ a \in Asyncs
  BY <1>1 DEF Carries, Same, Fd
<1>5. s.async[a].used /\ a \notin Orphans(s)
  BY <1>4, QueuedHas
<1>6. "error" \in Statuses \ {"pending"}
  BY DEF Statuses
<1>7. ServerInv(s2, C) /\ Touches(s, s2, a)
  BY <1>2, <1>4, <1>5, <1>6, WakeUpKeeps
<1> QED
  BY <1>1, <1>3, <1>5, <1>7, TouchCarries

\* The loop in clear_apc_queue
LEMMA ClearsCarry ==
  ASSUME NEW s0, NEW C \in [Asyncs -> CallRecords], NEW A \in SUBSET Asyncs,
         \A a \in A : s0.apc[a].at # "none"
  PROVE  StepsCarry("clear", s0, C, A)
<1>1. SUFFICES ASSUME NEW s, NEW R, NEW a \in A, a \in R, R \subseteq Asyncs,
                      Carries(s0, s, C, R)
               PROVE  Carries(s0, LoopStep("clear", s, a), C, R \ {a})
  BY DEF StepsCarry
<1>2. PICK s2 : s2 = ApcDestroyed(s, a)
  OBVIOUS
<1>3. LoopStep("clear", s, a) = s2
  BY <1>2 DEF LoopStep
<1>4. ServerInv(s, C) /\ s.apc[a].at # "none" /\ a \in Asyncs
  BY <1>1 DEF Carries, Same
<1>5. a \notin Orphans(s)
  <2>1. Fits(Kind[Fd(s, a)], s.async[a], s.apc[a], s.irp[a].at, Queued(s, a), C[a])
    BY <1>4, Parts
  <2> QED
    BY <1>4, <2>1 DEF Fits, Woken, Orphans, Live
<1>6. ServerInv(s2, C) /\ Touches(s, s2, a)
  BY <1>2, <1>4, ApcKeeps
<1> QED
  BY <1>1, <1>3, <1>5, <1>6, TouchCarries

\* An async leaves the queue of its file.
LEMMA LeaveQueue ==
  ASSUME NEW s \in Server, NEW a \in Asyncs, NEW s2, Lists(s),
         s2 = [s EXCEPT !.queue[Fd(s, a)] = RemoveFirst(@, a)]
  PROVE  /\ Touches(s, s2, a) /\ s2.async[a] = s.async[a] /\ s2.apc[a] = s.apc[a]
         /\ s2.irp[a] = s.irp[a] /\ ~Queued(s2, a)
<1>1. Fd(s, a) \in Fds /\ s.queue \in [Fds -> Seq(Asyncs)]
  BY Fields, AttrTypes
<1>2. PICK q \in [Fds -> Seq(Asyncs)] : q = [s.queue EXCEPT ![Fd(s, a)] = RemoveFirst(@, a)]
  <2>1. RemoveFirst(s.queue[Fd(s, a)], a) \in Seq(Asyncs)
    BY <1>1, RemoveFirstType
  <2> QED
    BY <1>1, <2>1
<1>3. s2 = [s EXCEPT !.queue = q]
  BY <1>2
<1>4. s2 \in Server
  BY <1>3 DEF Server
<1>5. /\ s2.attr = s.attr /\ s2.alive = s.alive /\ s2.aborted = s.aborted
      /\ s2.faulted = s.faulted /\ s2.async = s.async /\ s2.apc = s.apc /\ s2.irp = s.irp
      /\ s2.requests = s.requests /\ s2.groups = s.groups /\ s2.queue = q
  BY <1>3 DEF Server
<1>6. PICK r \in AsyncRecords, p \in Apcs, i \in Irps :
        r = s.async[a] /\ p = s.apc[a] /\ i = s.irp[a]
  BY Fields
<1>7. Edited(s, s2, a, r, p, i)
  BY <1>2, <1>4, <1>5, <1>6, Fields DEF Edited
<1>8. Grouped(s, s2, a)
  BY <1>5 DEF Grouped
<1>9. Touches(s, s2, a) /\ s2.async[a] = r /\ s2.apc[a] = p /\ s2.irp[a] = i
  BY <1>7, <1>8, EditedTouches, ZenonT(30)
<1>10. ToSet(q[Fd(s, a)]) = ToSet(s.queue[Fd(s, a)]) \ {a}
  BY <1>1, <1>2, RemoveFirstDistinct DEF Lists
<1>11. ~Queued(s2, a)
  BY <1>5, <1>10 DEF Queued, Fd
<1> QED
  BY <1>6, <1>9, <1>11
\* free_async_queue of a socket, for one async
LEMMA CloseKeeps ==
  ASSUME NEW s, NEW s2, NEW a \in Asyncs, NEW C \in [Asyncs -> CallRecords], ServerInv(s, C),
         Queued(s, a), Kind[Fd(s, a)] = "socket", s2 = LoopStep("close", s, a)
  PROVE  ServerInv(s2, C) /\ Touches(s, s2, a)
<1>1. s \in Server /\ Lists(s) /\ InRange(s) /\ s.async[a].used
  BY Parts, QueuedHas
<1>2. PICK r \in AsyncRecords, p \in Apcs, i \in Irps :
        r = s.async[a] /\ p = s.apc[a] /\ i = s.irp[a]
  BY Parts
<1>3. PICK q \in BOOLEAN : q = Queued(s, a)
  BY Parts
<1>4. Fits("socket", r, p, i.at, q, C[a]) /\ C[a] \in CallRecords /\ i.at = "none"
  <2>1. Fits("socket", r, p, i.at, q, C[a])
    BY <1>2, <1>3, Parts
  <2> QED
    BY <2>1 DEF Fits, Waits
<1>5. PICK r1 \in AsyncRecords : r1 = [r EXCEPT !.fd = FALSE]
  BY DEF AsyncRecords
<1>6. /\ AlikeBut(r, r1) /\ r1.canceled = r.canceled /\ ~r1.fd /\ r1.iosb = r.iosb
      /\ r1.missed = r.missed /\ r1.timeout = r.timeout
  BY <1>5 DEF AlikeBut, AsyncRecords
<1>7. PICK s1 : s1 = Edit(s, a, r1, p, i)
  OBVIOUS
<1>8. s1 = [s EXCEPT !.async[a].fd = FALSE]
  BY <1>1, <1>2, <1>5, <1>7, Fields DEF Edit, Server
<1>9. /\ Touches(s, s1, a) /\ s1.async[a] = r1 /\ s1.apc[a] = p /\ s1.irp[a] = i
      /\ Queued(s1, a) <=> Queued(s, a)
  BY <1>1, <1>2, <1>6, <1>7, EditDoes DEF AlikeBut
<1>10. s1 \in Server /\ Lists(s1) /\ s1.attr = s.attr /\ InRange(s1)
  BY <1>1, <1>9, CountsKept DEF Touches
<1>11. PICK e : e = Terminate(s1, a, "closed")
  OBVIOUS
<1>12. /\ Touches(s1, e, a) /\ e.irp[a] = i
       /\ Fits("socket", e.async[a], e.apc[a], "none", FALSE, C[a])
  <2>1. CASE r.terminated
    <3>1. e = s1
      BY <1>6, <1>9, <1>11, <2>1 DEF Terminate, AlikeBut
    <3>2. Touches(s1, s1, a)
      BY <1>10 DEF Touches, Grouped, Same
    <3>3. Fits("socket", r1, p, "none", FALSE, C[a])
      BY <1>1, <1>2, <1>4, <1>6, <2>1
         DEF Fits, Unused, Woken, Waits, Resulting, Posts, Told, AlikeBut, AsyncRecords
    <3> QED
      BY <1>9, <3>1, <3>2, <3>3
  <2>2. CASE ~r.terminated
    <3>1. "closed" \in Statuses \ {"pending"} /\ s1.async[a].group \in 0..Len(s1.groups)
      BY <1>10 DEF Statuses, InRange
    <3>2. CanEnd("socket", r1, p, C[a], "closed")
      BY <1>1, <1>2, <1>4, <1>6, <2>2, <3>1, LiveCanEnd
    <3>3. Kind[Fd(s1, a)] = "socket" /\ ~s1.async[a].terminated
      BY <1>6, <1>9, <1>10, <2>2 DEF Fd, AlikeBut
    <3>4. /\ Touches(s1, e, a) /\ e.irp[a] = s1.irp[a]
          /\ EndedSo("socket", r1, e.async[a], p, e.apc[a], Queued(s1, a), Queued(e, a),
                     "closed")
      BY <1>9, <1>10, <1>11, <3>1, <3>3, TerminateDoes
    <3>5. e \in Server
      BY <3>4 DEF Touches
    <3>6. PICK r2 \in AsyncRecords, p2 \in Apcs : r2 = e.async[a] /\ p2 = e.apc[a]
      BY <3>5, Fields
    <3>7. EndedSo("socket", r1, r2, p, p2, FALSE, FALSE, "closed")
      BY <3>4, <3>6 DEF EndedSo, EndedDirect, EndedByApc, EndedAlone
    <3>8. Fits("socket", r2, p2, "none", FALSE, C[a])
      <4>1. FALSE \in BOOLEAN /\ (FALSE => r2.fd)
        OBVIOUS
      <4> QED
        BY <1>4, <3>1, <3>2, <3>7, <4>1, EndFits
    <3> QED
      BY <1>9, <3>4, <3>6, <3>8
  <2> QED
    BY <2>1, <2>2
<1>13. e \in Server /\ Lists(e) /\ e.attr = s1.attr
  BY <1>12 DEF Touches
<1>14. s2 = [e EXCEPT !.queue[Fd(e, a)] = RemoveFirst(@, a)]
  <2>1. Fd(e, a) = Fd(s, a)
    BY <1>10, <1>13 DEF Fd
  <2> QED
    BY <1>8, <1>11, <2>1 DEF LoopStep
<1>15. /\ Touches(e, s2, a) /\ s2.async[a] = e.async[a] /\ s2.apc[a] = e.apc[a]
       /\ s2.irp[a] = e.irp[a] /\ ~Queued(s2, a)
  BY <1>13, <1>14, LeaveQueue
<1>16. Queued(s2, a) = FALSE /\ s2.attr = s.attr
  BY <1>10, <1>13, <1>15 DEF Queued, Touches
<1>17. AsyncInv(s2, a, C[a])
  BY <1>4, <1>12, <1>15, <1>16 DEF AsyncInv, Fd
<1>18. Touches(s, s2, a)
  <2>1. Touches(s1, s2, a)
    BY <1>12, <1>15, TouchesTwice
  <2> QED
    BY <1>9, <2>1, TouchesTwice
<1> QED
  BY <1>17, <1>18, Kept

\* The loop in free_async_queue
LEMMA ClosesCarry ==
  ASSUME NEW s0, NEW C \in [Asyncs -> CallRecords], NEW A \in SUBSET Asyncs,
         \A a \in A : Queued(s0, a) /\ Kind[Fd(s0, a)] = "socket"
  PROVE  StepsCarry("close", s0, C, A)
<1>1. SUFFICES ASSUME NEW s, NEW R, NEW a \in A, a \in R, R \subseteq Asyncs,
                      Carries(s0, s, C, R)
               PROVE  Carries(s0, LoopStep("close", s, a), C, R \ {a})
  BY DEF StepsCarry
<1>2. PICK s2 : s2 = LoopStep("close", s, a)
  OBVIOUS
<1>3. ServerInv(s, C) /\ Queued(s, a) /\ Kind[Fd(s, a)] = "socket" /\ a \in Asyncs
  BY <1>1 DEF Carries, Same, Fd
<1>4. a \notin Orphans(s)
  BY <1>3, QueuedHas
<1>5. ServerInv(s2, C) /\ Touches(s, s2, a)
  BY <1>2, <1>3, CloseKeeps
<1> QED
  BY <1>1, <1>2, <1>4, <1>5, TouchCarries
-----------------------------------------------------------------------------
(* The loop of cancel_process_async with a thread.                          *)

\* The async joins a group.
JoinRecord(r, r2, g) ==
  /\ r2.used = r.used /\ r2.terminated = r.terminated /\ r2.alerted = r.alerted
  /\ r2.canceled = r.canceled /\ r2.unknown = r.unknown /\ r2.direct = r.direct
  /\ r2.pending = r.pending /\ r2.signaled = r.signaled /\ r2.blocking = r.blocking
  /\ r2.skip = r.skip
  /\ r2.timeout = r.timeout /\ r2.handle = r.handle /\ r2.fd = r.fd /\ r2.iosb = r.iosb
  /\ r2.initial = r.initial /\ r2.group = g /\ r2.posted = r.posted /\ r2.missed = r.missed

\* It fits when it has been cancelled and waits for a device or its APC.
LEMMA JoinFits ==
  ASSUME NEW k \in {"socket", "pipe", "device"}, NEW r \in AsyncRecords, NEW r2 \in AsyncRecords,
         NEW p \in Apcs, NEW i, NEW q \in BOOLEAN, NEW c \in CallRecords, NEW g \in Nat,
         Fits(k, r, p, i, q, c), r.used, ~r.direct, r.canceled, JoinRecord(r, r2, g),
         IF k = "device" THEN ~r.terminated ELSE r.terminated /\ p.at # "none"
  PROVE  Fits(k, r2, p, i, q, c)
<1>1. Unused(r2, p, i, q, c) /\ Woken(k, r2, p, c)
  BY DEF Fits, JoinRecord, Unused, Woken, AsyncRecords
<1>2. Waits(k, r2, i, q, c)
  BY DEF Fits, JoinRecord, Waits, AsyncRecords
<1>3. Resulting(k, r2, p, c)
  BY DEF Fits, JoinRecord, Resulting, Posts, AsyncRecords
<1>4. Told(k, r2, p, c)
  BY DEF Fits, JoinRecord, Told, AsyncRecords
<1> QED
  BY <1>1, <1>2, <1>3, <1>4 DEF Fits

\* The loop that began in s0 has come to s: the asyncs that it has come to are in the
\* group g, the others (R) are as they were.
Joined(s0, s, C, R, g) ==
  /\ ServerInv(s, C) /\ s.groups = s0.groups /\ s.attr = s0.attr /\ s.alive = s0.alive
  /\ s.aborted = s0.aborted /\ s.faulted = s0.faulted
  /\ \A b \in Asyncs \ R : s.async[b].group = g
  /\ \A b \in R : Same(s0, s, b)

\* A step of the loop
LEMMA JoinStep ==
  ASSUME NEW s0, NEW s, NEW s2, NEW C \in [Asyncs -> CallRecords], NEW R \in SUBSET Asyncs,
         NEW a \in R, NEW g \in Nat, Joined(s0, s, C, R, g), g = Len(s.groups), s0.alive # {},
         a \in Live(s0), s0.async[a].fd, s0.async[a].group = 0, C[a].at # "made",
         s2 = LoopStep("join", s, a)
  PROVE  Joined(s0, s2, C, R \ {a}, g)
<1>1. /\ ServerInv(s, C) /\ s.groups = s0.groups /\ s.attr = s0.attr /\ s.alive = s0.alive
      /\ s.aborted = s0.aborted /\ s.faulted = s0.faulted
      /\ s \in Server /\ Lists(s) /\ InRange(s) /\ a \in Asyncs
  BY DEF Joined, ServerInv
<1>2. /\ a \in Live(s) /\ s.async[a].fd /\ s.async[a].group = 0
      /\ s.async[a].used /\ ~s.async[a].terminated
  <2>1. Same(s0, s, a)
    BY DEF Joined
  <2> QED
    BY <1>1, <2>1, SameLives DEF Same, Live, Exists
<1>3. PICK e : e = IF s.async[a].canceled THEN s ELSE CancelAsync(s, a)
  OBVIOUS
<1>4. ~s.async[a].direct
  <2>1. /\ s.async[a] \in AsyncRecords
        /\ Fits(Kind[Fd(s, a)], s.async[a], s.apc[a], s.irp[a].at, Queued(s, a), C[a])
    BY <1>1, Parts
  <2> QED
    BY <1>2, <2>1 DEF Fits, Waits
<1>5. /\ ServerInv(e, C) /\ Touches(s, e, a) /\ e.async[a].canceled /\ ~e.async[a].direct
      /\ IF Kind[Fd(s, a)] = "device" THEN ~e.async[a].terminated
         ELSE e.async[a].terminated /\ e.apc[a].at = "queued"
  <2>1. CASE s.async[a].canceled
    <3>1. Kind[Fd(s, a)] = "device"
      <4>1. Fits(Kind[Fd(s, a)], s.async[a], s.apc[a], s.irp[a].at, Queued(s, a), C[a])
        BY <1>1, Parts
      <4> QED
        BY <1>2, <2>1, <4>1 DEF Fits, Waits
    <3>2. Touches(s, s, a)
      BY <1>1 DEF Touches, Grouped, Same
    <3> QED
      BY <1>1, <1>2, <1>3, <1>4, <2>1, <3>1, <3>2
  <2>2. CASE ~s.async[a].canceled
    <3>1. e = CancelAsync(s, a)
      BY <1>3, <2>2
    <3>2. /\ ServerInv(e, C) /\ Touches(s, e, a)
          /\ e.async[a].canceled /\ e.async[a].direct = s.async[a].direct
          /\ IF Kind[Fd(s, a)] = "device" THEN ~e.async[a].terminated
             ELSE /\ e.async[a].terminated
                  /\ s.alive # {} /\ ~s.async[a].direct => e.apc[a].at = "queued"
      BY <1>1, <1>2, <3>1, CancelKeeps, SMTT(30)
    <3> QED
      BY <1>1, <1>4, <3>2
  <2> QED
    BY <2>1, <2>2
<1>6. /\ e \in Server /\ Lists(e) /\ e.attr = s.attr /\ e.alive = s.alive
      /\ e.aborted = s.aborted /\ e.faulted = s.faulted /\ e.groups = s.groups
      /\ \A b \in Asyncs \ {a} : Same(s, e, b)
  BY <1>2, <1>5 DEF Touches, Grouped
<1>7. PICK r \in AsyncRecords, p \in Apcs, i \in Irps, k \in {"socket", "pipe", "device"} :
        r = e.async[a] /\ p = e.apc[a] /\ i = e.irp[a] /\ k = Kind[Fd(e, a)]
  BY <1>1, <1>5, Parts
<1>8. PICK q \in BOOLEAN : q = Queued(e, a)
  BY <1>1, <1>5, Parts
<1>9. Fits(k, r, p, i.at, q, C[a]) /\ C[a] \in CallRecords /\ k = Kind[Fd(s, a)] /\ r.used
  <2>1. Fits(k, r, p, i.at, q, C[a])
    BY <1>1, <1>5, <1>7, <1>8, Parts
  <2>2. r.used
    BY <1>5, <1>7, <2>1 DEF Fits, Unused, NoAsync
  <2> QED
    BY <1>1, <1>6, <1>7, <2>1, <2>2 DEF Fd
<1>10. PICK r2 \in AsyncRecords : r2 = [r EXCEPT !.group = g]
  BY DEF AsyncRecords
<1>11. JoinRecord(r, r2, g)
  BY <1>10 DEF JoinRecord, AsyncRecords
<1>12. Fits(k, r2, p, i.at, q, C[a])
  BY <1>5, <1>7, <1>9, <1>11, JoinFits
<1>13. s2 = Edit(e, a, r2, p, i)
  <2>1. s2 = [e EXCEPT !.async[a].group = g]
    BY <1>3 DEF LoopStep
  <2>2. s2 = [e EXCEPT !.async = [e.async EXCEPT ![a] = r2]]
    BY <1>7, <1>10, <2>1
  <2>3. [e.apc EXCEPT ![a] = p] = e.apc /\ [e.irp EXCEPT ![a] = i] = e.irp
    BY <1>6, <1>7, Fields
  <2>4. PICK x : x = [e.async EXCEPT ![a] = r2]
    OBVIOUS
  <2>5. [e EXCEPT !.async = x] = [e EXCEPT !.async = x, !.apc = e.apc, !.irp = e.irp]
    BY <1>6 DEF Server
  <2> QED
    BY <2>2, <2>3, <2>4, <2>5 DEF Edit
<1>14. /\ [e.async EXCEPT ![a] = r2] \in [Asyncs -> AsyncRecords]
       /\ [e.apc EXCEPT ![a] = p] \in [Asyncs -> Apcs]
       /\ [e.irp EXCEPT ![a] = i] \in [Asyncs -> Irps]
  BY <1>6, Fields
<1>15. s2 \in Server
  BY <1>6, <1>13, <1>14 DEF Edit, Server
<1>16. /\ s2.async = [e.async EXCEPT ![a] = r2] /\ s2.apc = [e.apc EXCEPT ![a] = p]
       /\ s2.irp = [e.irp EXCEPT ![a] = i]
       /\ s2.attr = e.attr /\ s2.alive = e.alive /\ s2.aborted = e.aborted
       /\ s2.faulted = e.faulted /\ s2.requests = e.requests /\ s2.queue = e.queue
       /\ s2.groups = e.groups
  BY <1>6, <1>13 DEF Edit, Server
<1>17. Edited(e, s2, a, r2, p, i)
  BY <1>7, <1>15, <1>16 DEF Edited
<1>18. /\ Lists(s2) /\ (\A b \in Asyncs \ {a} : Same(e, s2, b))
       /\ s2.async[a] = r2 /\ s2.apc[a] = p /\ s2.irp[a] = i
       /\ s2.queue = e.queue => (Queued(s2, a) <=> Queued(e, a))
  BY <1>1, <1>6, <1>17, EditedOnly
<1>19. \A b \in Asyncs \ {a} : AsyncInv(s2, b, C[b]) /\ s2.async[b].group = e.async[b].group
  BY <1>5, <1>16, <1>18, SameKeeps DEF ServerInv, Same
<1>20. AsyncInv(s2, a, C[a])
  <2>1. Queued(s2, a) = q
    BY <1>8, <1>16, <1>18 DEF Queued
  <2> QED
    BY <1>7, <1>12, <1>16, <1>18, <2>1 DEF AsyncInv, Fd
<1>21. InRange(s2)
  <2>1. s2.async[a].group = g
    BY <1>11, <1>18 DEF JoinRecord
  <2>2. \A b \in Asyncs \ {a} : s2.async[b].group \in 0..Len(s2.groups)
    BY <1>5, <1>16, <1>19 DEF ServerInv, InRange
  <2>3. g \in 0..Len(s2.groups)
    BY <1>6, <1>16
  <2> QED
    BY <2>1, <2>2, <2>3 DEF InRange
<1>22. ServerInv(s2, C)
  BY <1>15, <1>18, <1>19, <1>20, <1>21 DEF ServerInv
<1>23. \A b \in Asyncs \ (R \ {a}) : s2.async[b].group = g
  <2>1. s2.async[a].group = g
    BY <1>11, <1>18 DEF JoinRecord
  <2>2. \A b \in Asyncs \ R : s2.async[b].group = g
    BY <1>6, <1>18 DEF Same, Joined
  <2> QED
    BY <2>1, <2>2
<1>24. \A b \in R \ {a} : Same(s0, s2, b)
  BY <1>6, <1>18 DEF Same, Joined
<1> QED
  BY <1>1, <1>6, <1>16, <1>22, <1>23, <1>24 DEF Joined
\* The loop over the asyncs q
LEMMA EachJoins ==
  ASSUME NEW s0, NEW C \in [Asyncs -> CallRecords], NEW q \in Seq(Asyncs), NEW g \in Nat,
         Distinct(q), ServerInv(s0, C), s0.alive # {}, g = Len(s0.groups),
         \A a \in ToSet(q) : /\ a \in Live(s0) /\ s0.async[a].fd /\ s0.async[a].group = 0
                             /\ C[a].at # "made"
  PROVE  Joined(s0, Each("join", s0, q), C, Asyncs \ ToSet(q), g)
<1>1. PICK h : /\ h[0] = s0 /\ \A n \in 1..Len(q) : h[n] = LoopStep("join", h[n - 1], q[n])
               /\ Each("join", s0, q) = h[Len(q)]
  BY EachRuns
<1>2. PICK N \in Nat : N = Len(q)
  OBVIOUS
<1> DEFINE R(n) == {b \in Asyncs : \A j \in 1..n : q[j] # b}
           P == {n \in 0..N : Joined(s0, h[n], C, R(n), g)}
<1>3. 0 \in P
  <2>1. \A b \in Asyncs : Same(s0, s0, b)
    BY DEF Same
  <2>2. R(0) = Asyncs
    OBVIOUS
  <2>3. Joined(s0, s0, C, Asyncs, g)
    BY <2>1 DEF Joined
  <2> HIDE DEF R
  <2>4. Joined(s0, h[0], C, R(0), g) /\ 0 \in 0..N
    BY <1>1, <1>2, <2>2, <2>3
  <2> QED
    BY <2>4
<1>4. ASSUME NEW n \in 1..N, n - 1 \in P
      PROVE  n \in P
  <2>1. n \in 1..Len(q) /\ q[n] \in ToSet(q) /\ q[n] \in Asyncs
    BY <1>2, ToSetMembers
  <2>2. q[n] \in R(n - 1)
    BY <1>2, <2>1 DEF Distinct
  <2>3. R(n) = R(n - 1) \ {q[n]} /\ R(n - 1) \in SUBSET Asyncs
    BY <1>2, <2>1
  <2>4. Joined(s0, h[n - 1], C, R(n - 1), g)
    BY <1>4
  <2> HIDE DEF R
  <2>5. PICK a \in R(n - 1) : a = q[n]
    BY <2>2
  <2>6. g = Len(h[n - 1].groups)
    BY <2>4 DEF Joined
  <2>7. /\ a \in Live(s0) /\ s0.async[a].fd /\ s0.async[a].group = 0
        /\ C[a].at # "made"
    BY <2>1, <2>5
  <2>8. h[n] = LoopStep("join", h[n - 1], a) /\ n \in 0..N
    BY <1>1, <2>1, <2>5
  <2>9. Joined(s0, h[n], C, R(n - 1) \ {a}, g)
    BY <2>3, <2>4, <2>6, <2>7, <2>8, JoinStep
  <2>10. Joined(s0, h[n], C, R(n), g)
    BY <2>3, <2>5, <2>9
  <2> QED
    BY <2>8, <2>10
<1>5. N \in P
  <2> HIDE DEF P
  <2>1. \A n \in 1..N : n - 1 \in P => n \in P
    BY <1>4
  <2>2. N \in 0..N
    BY <1>2
  <2> QED
    BY <1>2, <1>3, <2>1, <2>2, UpTo
<1>6. R(N) = Asyncs \ ToSet(q)
  BY <1>2, ToSetMembers
<1> QED
  BY <1>1, <1>2, <1>5, <1>6

\* A state in which the server ends keeps the invariant.
LEMMA FlagKeeps ==
  ASSUME NEW s, NEW s2, NEW C, ServerInv(s, C), Counts(s), ~s.faulted, ~s.aborted,
         \/ s2 = [s EXCEPT !.faulted = TRUE] /\ Orphans(s) # {}
         \/ /\ s2 = [s EXCEPT !.aborted = TRUE]
            /\ \E a \in Live(s) : Kind[Fd(s, a)] = "device" /\ s.async[a].group # 0
  PROVE  ServerInv(s2, C) /\ Counts(s2) /\ Ends(s2)
<1>1. s \in Server
  BY DEF ServerInv
<1>2. s2 \in Server
  BY <1>1, ZenonT(30) DEF Server
<1>3. /\ s2.attr = s.attr /\ s2.async = s.async /\ s2.apc = s.apc /\ s2.irp = s.irp
      /\ s2.queue = s.queue /\ s2.requests = s.requests /\ s2.groups = s.groups
  BY <1>1 DEF Server
<1>4. ServerInv(s2, C) /\ Counts(s2) /\ \A b \in Asyncs : Same(s, s2, b)
  BY <1>2, <1>3, ViewKeeps
<1>5. /\ \A b \in Asyncs : b \in Live(s2) <=> b \in Live(s)
      /\ \A b \in Asyncs : b \in Orphans(s2) <=> b \in Orphans(s)
  BY <1>3, <1>4, SameLives
<1>6. s2.faulted => Orphans(s2) # {}
  <2>1. SUFFICES ASSUME s2.faulted PROVE Orphans(s2) # {}
    OBVIOUS
  <2>2. Orphans(s) # {}
    BY <1>1, <2>1 DEF Server
  <2> QED
    BY <1>5, <2>2 DEF Orphans, Live
<1>7. s2.aborted => \E a \in Live(s2) : Kind[Fd(s2, a)] = "device" /\ s2.async[a].group # 0
  <2>1. SUFFICES ASSUME s2.aborted
                 PROVE  \E a \in Live(s2) : Kind[Fd(s2, a)] = "device" /\ s2.async[a].group # 0
    OBVIOUS
  <2>2. PICK a \in Live(s) : Kind[Fd(s, a)] = "device" /\ s.async[a].group # 0
    BY <1>1, <2>1 DEF Server
  <2>3. a \in Live(s2)
    BY <1>5, <2>2 DEF Live
  <2> QED
    BY <1>3, <2>2, <2>3 DEF Fd
<1> QED
  BY <1>4, <1>6, <1>7 DEF Ends

\* A set of asyncs is finite.
LEMMA FiniteAsyncs ==
  ASSUME NEW S \in SUBSET Asyncs
  PROVE  IsFiniteSet(S) /\ Cardinality(S) \in Nat
BY AsyncAssumption, FS_Subset, FS_CardinalityType

\* The list of a set of asyncs
LEMMA AsyncsListed ==
  ASSUME NEW S \in SUBSET Asyncs
  PROVE  SetToSeq(S) \in Seq(Asyncs) /\ ToSet(SetToSeq(S)) = S /\ Distinct(SetToSeq(S))
<1>1. SetToSeq(S) \in Seq(S) /\ ToSet(SetToSeq(S)) = S /\ Distinct(SetToSeq(S))
  BY FiniteAsyncs, SetToSeqLists
<1>2. Seq(S) \subseteq Seq(Asyncs)
  OBVIOUS
<1> QED
  BY <1>1, <1>2

\* cancel_process_async with a thread
LEMMA GroupKeeps ==
  ASSUME NEW s, NEW s2, NEW C \in [Asyncs -> CallRecords], NEW t, NEW f, ServerInv(s, C),
         Counts(s), ~s.faulted, ~s.aborted, s.alive # {}, \A a \in Asyncs : C[a].at # "made",
         s2 = CancelGroup(s, t, f)
  PROVE  /\ ServerInv(s2, C) /\ Counts(s2) /\ Ends(s2)
         /\ s2.faulted \/ s2.aborted \/ Len(s2.groups) = Len(s.groups) + 1
<1> DEFINE S == {a \in Live(s) : Fd(s, a) = f /\ s.attr[a].thread = t}
<1>1. s \in Server /\ Lists(s) /\ InRange(s)
  BY DEF ServerInv
<1>2. S \in SUBSET Asyncs /\ \A a \in S : a \in Live(s)
  BY DEF Live
<1>3. s2 = IF Orphans(s) # {} THEN [s EXCEPT !.faulted = TRUE]
           ELSE IF \E a \in S : s.async[a].group # 0 THEN [s EXCEPT !.aborted = TRUE]
           ELSE Each("join", [s EXCEPT !.groups = Append(@, Cardinality(S))], SetToSeq(S))
  BY DEF CancelGroup
<1> HIDE DEF S
<1>4. CASE Orphans(s) # {}
  <2>1. s2 = [s EXCEPT !.faulted = TRUE]
    BY <1>3, <1>4
  <2>2. s2.faulted
    BY <1>1, <2>1 DEF Server
  <2> QED
    BY <1>4, <2>1, <2>2, FlagKeeps
<1>5. CASE Orphans(s) = {} /\ \E a \in S : s.async[a].group # 0
  <2>1. s2 = [s EXCEPT !.aborted = TRUE]
    BY <1>3, <1>5
  <2>2. PICK a \in S : s.async[a].group # 0
    BY <1>5
  <2>3. a \in Asyncs /\ a \in Live(s) /\ ~s.async[a].terminated
    BY <1>2 DEF Live
  <2>4. Kind[Fd(s, a)] = "device"
    <3>1. Fits(Kind[Fd(s, a)], s.async[a], s.apc[a], s.irp[a].at, Queued(s, a), C[a])
      BY <2>3, Parts
    <3> QED
      BY <2>2, <2>3, <3>1 DEF Fits, Waits
  <2>5. \E b \in Live(s) : Kind[Fd(s, b)] = "device" /\ s.async[b].group # 0
    BY <2>2, <2>3, <2>4
  <2>6. s2.aborted
    BY <1>1, <2>1 DEF Server
  <2> QED
    BY <2>1, <2>5, <2>6, FlagKeeps
<1>6. CASE Orphans(s) = {} /\ \A a \in S : s.async[a].group = 0
  <2>1. PICK n \in Nat : n = Cardinality(S)
    BY <1>2, FiniteAsyncs
  <2>2. PICK q \in Seq(Asyncs) : q = SetToSeq(S)
    BY <1>2, AsyncsListed
  <2>3. ToSet(q) = S /\ Distinct(q)
    BY <1>2, <2>2, AsyncsListed
  <2>4. s.groups \in Seq(Int)
    BY <1>1, Fields
  <2>5. PICK w \in Seq(Int) : w = Append(s.groups, n)
    <3>1. n \in Int
      OBVIOUS
    <3>2. Append(s.groups, n) \in Seq(Int)
      BY <2>4, <3>1
    <3> QED
      BY <3>2
  <2>6. PICK m \in Nat : m = Len(s.groups)
    BY <2>4
  <2>7. PICK g \in Nat : g = m + 1
    OBVIOUS
  <2>8. Len(w) = g /\ w[g] = n /\ \A h \in 1..m : w[h] = s.groups[h]
    BY <2>4, <2>5, <2>6, <2>7
  <2>9. PICK s0 : s0 = [s EXCEPT !.groups = w]
    OBVIOUS
  <2>10. s2 = Each("join", s0, q)
    BY <1>3, <1>6, <2>1, <2>2, <2>5, <2>9
  <2>11. /\ s0.attr = s.attr /\ s0.async = s.async /\ s0.apc = s.apc /\ s0.irp = s.irp
         /\ s0.queue = s.queue /\ s0.requests = s.requests /\ s0.groups = w
         /\ s0.alive = s.alive /\ s0.aborted = s.aborted /\ s0.faulted = s.faulted
    BY <1>1, <2>9 DEF Server
  <2>12. s0 \in Server
    BY <1>1, <2>9 DEF Server
  <2>13. \A b \in Asyncs : Same(s, s0, b)
    BY <2>11 DEF Same, Queued, Fd
  <2>14. \A b \in Asyncs : AsyncInv(s0, b, C[b])
    BY <2>11, <2>13, SameKeeps DEF ServerInv
  <2>15. Lists(s0)
    BY <1>1, <2>11 DEF Lists, Fd
  <2>16. \A b \in Asyncs : s.async[b].group \in 0..m
    BY <1>1, <2>6 DEF InRange
  <2>17. InRange(s0)
    BY <2>6, <2>7, <2>8, <2>11, <2>16 DEF InRange
  <2>18. ServerInv(s0, C)
    BY <2>12, <2>14, <2>15, <2>17 DEF ServerInv
  <2>19. ASSUME NEW a \in S
         PROVE  a \in Live(s0) /\ s0.async[a].fd /\ s0.async[a].group = 0 /\ C[a].at # "made"
    <3>1. a \in Asyncs /\ a \in Live(s) /\ s.async[a].group = 0
      BY <1>2, <1>6
    <3>2. a \in Live(s0)
      BY <2>11, <2>13, <3>1, SameLives
    <3>3. s.async[a].fd
      BY <1>6, <3>1 DEF Orphans
    <3> QED
      BY <2>11, <3>1, <3>2, <3>3
  <2>20. Joined(s0, s2, C, Asyncs \ S, g)
    BY <2>3, <2>8, <2>10, <2>11, <2>18, <2>19, EachJoins
  <2>21. /\ ServerInv(s2, C) /\ s2.groups = w
         /\ ~s2.aborted /\ ~s2.faulted
    BY <2>11, <2>20 DEF Joined
  <2>22. \A b \in S : s2.async[b].group = g
    BY <1>2, <2>20 DEF Joined
  <2>23. \A b \in Asyncs \ S : s2.async[b].group = s.async[b].group
    BY <2>11, <2>20 DEF Joined, Same
  <2>24. Members(s2, g) = S
    BY <1>2, <2>7, <2>16, <2>22, <2>23 DEF Members
  <2>25. ASSUME NEW h \in 1..m PROVE Members(s2, h) = Members(s, h)
    <3>1. ASSUME NEW b \in Asyncs PROVE s2.async[b].group = h <=> s.async[b].group = h
      BY <1>6, <2>7, <2>22, <2>23
    <3> QED
      BY <3>1 DEF Members
  <2>26. ASSUME NEW h \in 1..g PROVE w[h] = Cardinality(Members(s2, h))
    <3>1. CASE h = g
      BY <2>1, <2>8, <2>24, <3>1
    <3>2. CASE h # g
      <4>1. h \in 1..m
        BY <2>7, <3>2
      <4> QED
        BY <2>6, <2>8, <2>25, <4>1 DEF Counts
    <3> QED
      BY <3>1, <3>2
  <2>27. Counts(s2)
    BY <2>8, <2>21, <2>26 DEF Counts
  <2>28. Len(s2.groups) = Len(s.groups) + 1
    BY <2>6, <2>7, <2>8, <2>21
  <2> QED
    BY <2>21, <2>27, <2>28 DEF Ends
<1> QED
  BY <1>4, <1>5, <1>6

\* The loops of cancel_async: the server ends only when an async has lost its file.
LEMMA CancelsKeep ==
  ASSUME NEW s, NEW s2, NEW C \in [Asyncs -> CallRecords], NEW S \in SUBSET Live(s),
         ServerInv(s, C), Counts(s), Faults(s), ~s.aborted, s2 = Each("cancel", s, SetToSeq(S))
  PROVE  ServerInv(s2, C) /\ Counts(s2) /\ Ends(s2)
<1>1. S \in SUBSET Asyncs
  BY DEF Live
<1>2. PICK q \in Seq(Asyncs) : q = SetToSeq(S)
  BY <1>1, AsyncsListed
<1>3. ToSet(q) = S /\ Distinct(q)
  BY <1>1, <1>2, AsyncsListed
<1>4. StepsCarry("cancel", s, C, ToSet(q))
  BY <1>3, CancelsCarry
<1>5. Carries(s, s2, C, Asyncs \ ToSet(q))
  BY <1>2, <1>3, <1>4, EachCarries
<1> QED
  BY <1>5 DEF Carries, Faults, Ends

\* cancel_process_async without a thread
LEMMA FileKeeps ==
  ASSUME NEW s, NEW s2, NEW C \in [Asyncs -> CallRecords], NEW f, ServerInv(s, C),
         Counts(s), ~s.faulted, ~s.aborted, NEW A, s2 = CancelFile(s, f, A)
  PROVE  ServerInv(s2, C) /\ Counts(s2) /\ Ends(s2)
<1>1. CASE Orphans(s) # {}
  <2>1. s2 = [s EXCEPT !.faulted = TRUE]
    BY <1>1 DEF CancelFile
  <2> QED
    BY <1>1, <2>1, FlagKeeps
<1>2. CASE Orphans(s) = {}
  <2>1. PICK S \in SUBSET Live(s) : s2 = Each("cancel", s, SetToSeq(S))
    BY <1>2 DEF CancelFile
  <2> QED
    BY <2>1, CancelsKeep DEF Faults
<1> QED
  BY <1>1, <1>2

\* cancel_blocking and cancel_terminating_thread_asyncs
LEMMA ThreadKeeps ==
  ASSUME NEW s, NEW s2, NEW C \in [Asyncs -> CallRecords], NEW t, ServerInv(s, C),
         Counts(s), Faults(s), ~s.aborted, NEW A,
         s2 = CancelBlocking(s, t, A) \/ s2 = CancelThread(s, t)
  PROVE  ServerInv(s2, C) /\ Counts(s2) /\ Ends(s2)
<1>1. PICK S \in SUBSET Live(s) : s2 = Each("cancel", s, SetToSeq(S))
  <2>1. CASE s2 = CancelBlocking(s, t, A)
    BY <2>1 DEF CancelBlocking
  <2>2. CASE s2 = CancelThread(s, t)
    BY <2>2 DEF CancelThread
  <2> QED
    BY <2>1, <2>2
<1> QED
  BY <1>1, CancelsKeep
-----------------------------------------------------------------------------
(* The reads that wait for a pipe.                                          *)

\* What the loop of reselect_read_queue does with a read
ReadOne(p, a) ==
  IF p.left = 0 \/ p.state.async[a].terminated THEN p
  ELSE [state |-> RequestComplete(p.state, a, "success"), left |-> p.left - 1]

\* The states that the loop goes through
ReadRun(g, s, n, q, out) ==
  /\ g[0] = [state |-> s, left |-> n]
  /\ \A j \in 1..Len(q) : g[j] = ReadOne(g[j - 1], q[j])
  /\ out = g[Len(q)]

\* The loop has such states.
LEMMA ReadsRun ==
  ASSUME NEW s, NEW S, NEW n, NEW f, NEW q \in Seq(S), q = s.queue[f]
  PROVE  \E g : ReadRun(g, s, n, q, ReselectReads(s, f, n))
<1> DEFINE o == [state |-> s, left |-> n]
           IsRun(g, N) == g = [j \in 0..N |-> IF j = 0 THEN o ELSE ReadOne(g[j - 1], q[j])]
           P == {N \in Nat : \E g : IsRun(g, N)}
<1>1. Len(q) \in Nat
  OBVIOUS
<1>2. ReselectReads(s, f, n) = (CHOOSE h : IsRun(h, Len(q)))[Len(q)]
  BY DEF ReselectReads, ReadOne
<1> HIDE DEF o
<1>3. 0 \in P
  <2>1. IsRun([j \in 0..0 |-> o], 0)
    OBVIOUS
  <2> QED
    BY <2>1
<1>4. ASSUME NEW N \in 1..Len(q), N - 1 \in P
      PROVE  N \in P
  <2>1. PICK g : IsRun(g, N - 1)
    BY <1>4
  <2>2. DEFINE h == [j \in 0..N |-> IF j = N THEN ReadOne(g[N - 1], q[N]) ELSE g[j]]
  <2>3. ASSUME NEW j \in 0..N
        PROVE  h[j] = IF j = 0 THEN o ELSE ReadOne(h[j - 1], q[j])
    <3>1. CASE j = N
      BY <1>1, <1>4, <2>1, <3>1
    <3>2. CASE j # N
      BY <1>1, <1>4, <2>1, <3>2
    <3> QED
      BY <3>1, <3>2
  <2>4. IsRun(h, N)
    <3> HIDE DEF h
    <3>1. h = [j \in 0..N |-> h[j]]
      BY DEF h
    <3> QED
      BY <2>3, <3>1
  <2>5. N \in Nat
    BY <1>1
  <2> HIDE DEF h, IsRun
  <2> QED
    BY <2>4, <2>5
<1>5. Len(q) \in P
  <2> HIDE DEF P
  <2>1. PICK N \in Nat : N = Len(q)
    BY <1>1
  <2>2. \A j \in 1..N : j - 1 \in P => j \in P
    BY <1>4, <2>1
  <2>3. N \in 0..N
    OBVIOUS
  <2> QED
    BY <1>3, <2>1, <2>2, <2>3, UpTo
<1>6. PICK g : IsRun(g, Len(q))
  BY <1>5
<1> DEFINE run == CHOOSE h : IsRun(h, Len(q))
<1>7. IsRun(run, Len(q))
  <2> HIDE DEF IsRun
  <2> QED
    BY <1>6
<1>8. ReselectReads(s, f, n) = run[Len(q)]
  BY <1>2
<1> HIDE DEF run
<1>9. run[0] = o
  BY <1>1, <1>7
<1>10. \A j \in 1..Len(q) : run[j] = ReadOne(run[j - 1], q[j])
  BY <1>1, <1>7
<1>11. ReadRun(run, s, n, q, ReselectReads(s, f, n))
  BY <1>8, <1>9, <1>10 DEF o, ReadRun
<1> QED
  BY <1>11

\* The loop that began in s0 has come to s.  A read of which the call is still being made
\* is as it was, or has its data.
Met(s0, s, C) ==
  /\ ServerInv(s, C) /\ Counts(s)
  /\ s.attr = s0.attr /\ s.alive = s0.alive
  /\ s.aborted = s0.aborted /\ s.faulted = s0.faulted
  /\ \A b \in Asyncs : (Queued(s0, b) => s.async[b].used)
                       /\ (s0.async[b].direct => \/ s.async[b] = s0.async[b]
                                                 \/ s.async[b].terminated
                                                    /\ Out(s0.async[b], s.async[b], "success"))

HasMet(s0, out, C) == \E s, n : out = [state |-> s, left |-> n] /\ Met(s0, s, C)

\* A read that meets a message
LEMMA ReadMeets ==
  ASSUME NEW s0, NEW s, NEW s2, NEW C \in [Asyncs -> CallRecords], NEW a \in Asyncs, NEW n,
         Met(s0, s, C), Queued(s0, a), Kind[Fd(s0, a)] = "pipe",
         NEW p, p = [state |-> s, left |-> n], s2 = ReadOne(p, a)
  PROVE  HasMet(s0, s2, C)
<1>1. CASE n = 0 \/ s.async[a].terminated
  <2>1. s2 = p
    BY <1>1 DEF ReadOne
  <2> QED
    BY <2>1 DEF HasMet
<1>2. CASE ~(n = 0 \/ s.async[a].terminated)
  <2>1. PICK e : e = RequestComplete(s, a, "success")
    OBVIOUS
  <2>2. s2 = [state |-> e, left |-> n - 1]
    BY <1>2, <2>1 DEF ReadOne
  <2>3. /\ ServerInv(s, C) /\ s.async[a].used /\ ~s.async[a].terminated
        /\ Kind[Fd(s, a)] = "pipe"
    BY <1>2 DEF Met, Fd
  <2>4. /\ ServerInv(e, C) /\ Touches(s, e, a) /\ e.async[a].terminated
        /\ s.async[a].direct => Out(s.async[a], e.async[a], "success")
    BY <2>1, <2>3, PipeReadKeeps
  <2>5. Counts(e)
    BY <2>3, <2>4, CountsKept DEF Met, ServerInv
  <2>6. /\ e.attr = s0.attr /\ e.alive = s0.alive
        /\ e.aborted = s0.aborted /\ e.faulted = s0.faulted
        /\ \A b \in Asyncs \ {a} : e.async[b] = s.async[b]
    BY <2>4 DEF Met, Touches, Same
  <2>7. e.async[a].used
    <3>1. Fits(Kind[Fd(e, a)], e.async[a], e.apc[a], e.irp[a].at, Queued(e, a), C[a])
      BY <2>4, Parts
    <3> QED
      BY <2>4, <3>1 DEF Fits, Unused, NoAsync
  <2>8. s0.async[a].direct => /\ e.async[a].terminated
                              /\ Out(s0.async[a], e.async[a], "success")
    <3>1. SUFFICES ASSUME s0.async[a].direct
                   PROVE  e.async[a].terminated /\ Out(s0.async[a], e.async[a], "success")
      OBVIOUS
    <3>2. s.async[a] = s0.async[a]
      BY <2>3, <3>1 DEF Met
    <3> QED
      BY <2>4, <3>1, <3>2 DEF Out
  <2>9. Met(s0, e, C)
    BY <2>4, <2>5, <2>6, <2>7, <2>8 DEF Met
  <2> QED
    BY <2>2, <2>9 DEF HasMet
<1> QED
  BY <1>1, <1>2

\* The reads of a pipe that wait meet the messages.
LEMMA ReadsMeet ==
  ASSUME NEW s0, NEW C \in [Asyncs -> CallRecords], NEW f \in Fds, NEW n,
         ServerInv(s0, C), Counts(s0), Kind[f] = "pipe"
  PROVE  Met(s0, ReselectReads(s0, f, n).state, C)
<1>1. s0 \in Server /\ Lists(s0)
  BY DEF ServerInv
<1>2. PICK q \in Seq(Asyncs) : q = s0.queue[f]
  BY <1>1, Fields
<1>3. PICK g : ReadRun(g, s0, n, q, ReselectReads(s0, f, n))
  BY <1>2, ReadsRun
<1>4. PICK N \in Nat : N = Len(q)
  OBVIOUS
<1> DEFINE P == {j \in 0..N : HasMet(s0, g[j], C)}
<1>5. 0 \in P
  <2>1. \A b \in Asyncs : Queued(s0, b) => s0.async[b].used
    BY QueuedHas
  <2>2. Met(s0, s0, C)
    BY <2>1 DEF Met
  <2>3. HasMet(s0, g[0], C)
    BY <1>3, <2>2 DEF HasMet, ReadRun
  <2> QED
    BY <2>3
<1>6. ASSUME NEW j \in 1..N, j - 1 \in P
      PROVE  j \in P
  <2>1. HasMet(s0, g[j - 1], C)
    BY <1>6
  <2>2. PICK s, m : g[j - 1] = [state |-> s, left |-> m] /\ Met(s0, s, C)
    BY <2>1 DEF HasMet
  <2>3. q[j] \in Asyncs /\ q[j] \in ToSet(q) /\ j \in 1..Len(q)
    BY <1>4, ToSetMembers
  <2>4. PICK a \in Asyncs : a = q[j]
    BY <2>3
  <2>5. Fd(s0, a) = f /\ Queued(s0, a)
    BY <1>1, <1>2, <2>3, <2>4 DEF Lists, Queued
  <2>6. g[j] = ReadOne(g[j - 1], a)
    BY <1>3, <2>3, <2>4 DEF ReadRun
  <2>7. HasMet(s0, g[j], C)
    <3>1. PICK e, p : e = g[j] /\ p = g[j - 1]
      OBVIOUS
    <3>2. e = ReadOne(p, a) /\ p = [state |-> s, left |-> m]
      BY <2>2, <2>6, <3>1
    <3>3. HasMet(s0, e, C)
      BY <2>2, <2>5, <3>2, ReadMeets
    <3> QED
      BY <3>1, <3>3
  <2>8. j \in 0..N
    OBVIOUS
  <2> QED
    BY <2>7, <2>8
<1>7. N \in P
  <2> HIDE DEF P
  <2>1. \A j \in 1..N : j - 1 \in P => j \in P
    BY <1>6
  <2>2. N \in 0..N
    BY <1>4
  <2> QED
    BY <1>4, <1>5, <2>1, <2>2, UpTo
<1>8. HasMet(s0, g[N], C)
  BY <1>7
<1>9. PICK out : out = ReselectReads(s0, f, n)
  OBVIOUS
<1>10. HasMet(s0, out, C)
  BY <1>3, <1>4, <1>8, <1>9 DEF ReadRun
<1>11. Met(s0, out.state, C)
  BY <1>10 DEF HasMet
<1> QED
  BY <1>9, <1>11

\* No more data is left than there was.
LEMMA ReadsLeave ==
  ASSUME NEW s, NEW f, NEW n \in Nat, s.queue[f] \in Seq(Asyncs)
  PROVE  ReselectReads(s, f, n).left \in 0..n
<1>1. PICK q \in Seq(Asyncs) : q = s.queue[f]
  OBVIOUS
<1>2. PICK g : ReadRun(g, s, n, q, ReselectReads(s, f, n))
  BY <1>1, ReadsRun
<1>3. PICK N \in Nat : N = Len(q)
  OBVIOUS
<1> DEFINE P == {j \in 0..N : g[j].left \in 0..n}
<1>4. 0 \in P
  BY <1>2, <1>3 DEF ReadRun
<1>5. ASSUME NEW j \in 1..N, j - 1 \in P
      PROVE  j \in P
  <2>1. g[j] = ReadOne(g[j - 1], q[j])
    BY <1>2, <1>3 DEF ReadRun
  <2>2. PICK p : p = g[j - 1] /\ p.left \in 0..n
    BY <1>5
  <2>3. ReadOne(p, q[j]).left \in 0..n
    BY <2>2 DEF ReadOne
  <2>4. j \in 0..N
    OBVIOUS
  <2> QED
    BY <2>1, <2>2, <2>3, <2>4
<1>6. N \in P
  <2> HIDE DEF P
  <2>1. \A j \in 1..N : j - 1 \in P => j \in P
    BY <1>5
  <2>2. N \in 0..N
    BY <1>3
  <2> QED
    BY <1>3, <1>4, <2>1, <2>2, UpTo
<1>7. g[N].left \in 0..n
  BY <1>6
<1> QED
  BY <1>2, <1>3, <1>7 DEF ReadRun
-----------------------------------------------------------------------------
(* Requests that start an async.                                            *)

\* An async is started: its record is r, its IRP i; it has failed, or is put on the queue of
\* its file, perhaps also among the requests of the device manager.
Ways == {"failed", "queued", "request"}
Start(s, a, r, i, how) ==
  [s EXCEPT !.async = [s.async EXCEPT ![a] = r], !.irp = [s.irp EXCEPT ![a] = i],
            !.queue = IF how = "failed" THEN s.queue
                      ELSE [s.queue EXCEPT ![Fd(s, a)] = Append(@, a)],
            !.requests = IF how = "request" THEN Append(s.requests, a) ELSE s.requests]

\* That is about this async only.
LEMMA StartTouches ==
  ASSUME NEW s \in Server, NEW s2, NEW a \in Asyncs, NEW r \in AsyncRecords, NEW i \in Irps,
         NEW how \in Ways, Lists(s), ~Queued(s, a), a \notin ToSet(s.requests),
         r.group = s.async[a].group, how = "request" => i.at = "queued",
         s2 = Start(s, a, r, i, how)
  PROVE  /\ Touches(s, s2, a) /\ s2.async[a] = r /\ s2.apc[a] = s.apc[a] /\ s2.irp[a] = i
         /\ Queued(s2, a) <=> how # "failed"
<1>1. PICK f \in Fds : f = Fd(s, a)
  BY AttrTypes
<1>2. /\ s.queue \in [Fds -> Seq(Asyncs)] /\ s.queue[f] \in Seq(Asyncs)
      /\ Distinct(s.queue[f]) /\ a \notin ToSet(s.queue[f])
      /\ s.requests \in Seq(Asyncs) /\ Distinct(s.requests)
  BY <1>1, Fields DEF Lists, Queued
<1>3. PICK u : u = Append(s.queue[f], a)
  OBVIOUS
<1>4. u \in Seq(Asyncs) /\ Distinct(u) /\ ToSet(u) = ToSet(s.queue[f]) \union {a}
  BY <1>2, <1>3, AppendDistinct
<1>5. PICK w : w = IF how = "failed" THEN s.queue ELSE [s.queue EXCEPT ![f] = u]
  OBVIOUS
<1>6. /\ w \in [Fds -> Seq(Asyncs)]
      /\ \A e \in Fds : w[e] = IF how # "failed" /\ e = f THEN u ELSE s.queue[e]
  BY <1>2, <1>4, <1>5
<1>7. PICK v : v = IF how = "request" THEN Append(s.requests, a) ELSE s.requests
  OBVIOUS
<1>8. /\ v \in Seq(Asyncs) /\ Distinct(v)
      /\ ToSet(v) = IF how = "request" THEN ToSet(s.requests) \union {a} ELSE ToSet(s.requests)
  <2>1. CASE how = "request"
    <3>1. v = Append(s.requests, a)
      BY <1>7, <2>1
    <3>2. /\ v \in Seq(Asyncs) /\ Distinct(v) /\ ToSet(v) = ToSet(s.requests) \union {a}
      BY <1>2, <3>1, AppendDistinct
    <3> QED
      BY <2>1, <3>2
  <2>2. CASE how # "request"
    BY <1>2, <1>7, <2>2
  <2> QED
    BY <2>1, <2>2
<1>9. PICK x \in [Asyncs -> AsyncRecords], y \in [Asyncs -> Irps] :
        x = [s.async EXCEPT ![a] = r] /\ y = [s.irp EXCEPT ![a] = i]
  BY Fields
<1>10. s2 = [s EXCEPT !.async = x, !.irp = y, !.queue = w, !.requests = v]
  BY <1>1, <1>3, <1>5, <1>7, <1>9 DEF Start
<1>11. s2 \in Server
  BY <1>6, <1>8, <1>10 DEF Server
<1>12. /\ s2.attr = s.attr /\ s2.alive = s.alive /\ s2.aborted = s.aborted
       /\ s2.faulted = s.faulted /\ s2.async = x /\ s2.apc = s.apc /\ s2.irp = y
       /\ s2.requests = v /\ s2.groups = s.groups /\ s2.queue = w
  BY <1>10 DEF Server
<1>13. /\ s2.async[a] = r /\ s2.irp[a] = i
       /\ \A c \in Asyncs \ {a} : s2.async[c] = s.async[c] /\ s2.irp[c] = s.irp[c]
  BY <1>9, <1>12, Fields
<1>14. \A c \in Asyncs : Fd(s2, c) = Fd(s, c) /\ Fd(s, c) \in Fds
  BY <1>12, AttrTypes DEF Fd
<1>15. Queued(s2, a) <=> how # "failed"
  <2>1. CASE how # "failed"
    BY <1>1, <1>4, <1>6, <1>12, <1>14, <2>1 DEF Queued
  <2>2. CASE how = "failed"
    BY <1>1, <1>2, <1>6, <1>12, <1>14, <2>2 DEF Queued
  <2> QED
    BY <2>1, <2>2
<1>16. \A e \in Fds : ToSet(w[e]) \ {a} = ToSet(s.queue[e]) \ {a}
  BY <1>4, <1>6
<1>17. ASSUME NEW c \in Asyncs \ {a} PROVE Queued(s2, c) <=> Queued(s, c)
  BY <1>12, <1>14, <1>16 DEF Queued
<1>18. \A c \in Asyncs \ {a} : Same(s, s2, c)
  BY <1>12, <1>13, <1>17 DEF Same
<1>19. ASSUME NEW e \in Fds
       PROVE  Distinct(s2.queue[e]) /\ \A c \in ToSet(s2.queue[e]) : Fd(s2, c) = e
  <2>1. CASE how # "failed" /\ e = f
    <3>1. ASSUME NEW c \in ToSet(u) PROVE Fd(s2, c) = e
      BY <1>1, <1>4, <1>12, <2>1 DEF Lists, Fd
    <3> QED
      BY <1>4, <1>6, <1>12, <2>1, <3>1
  <2>2. CASE ~(how # "failed" /\ e = f)
    BY <1>6, <1>12, <2>2 DEF Lists, Fd
  <2> QED
    BY <2>1, <2>2
<1>20. ASSUME NEW c \in ToSet(v) PROVE s2.irp[c].at = "queued"
  <2>1. CASE c = a
    BY <1>8, <1>13, <2>1
  <2>2. CASE c # a
    <3>1. c \in ToSet(s.requests) /\ c \in Asyncs
      BY <1>2, <1>8, <2>2, ToSetMembers
    <3> QED
      BY <1>13, <2>2, <3>1 DEF Lists
  <2> QED
    BY <2>1, <2>2
<1>21. Lists(s2)
  BY <1>8, <1>12, <1>19, <1>20 DEF Lists
<1>22. Grouped(s, s2, a)
  BY <1>12, <1>13 DEF Grouped
<1>23. Touches(s, s2, a)
  BY <1>11, <1>12, <1>18, <1>21, <1>22 DEF Touches
<1> QED
  BY <1>12, <1>13, <1>15, <1>23

\* What is known of an async that has not been used
LEMMA FreshAsync ==
  ASSUME NEW s, NEW a \in Asyncs, NEW C, ServerInv(s, C), ~s.async[a].used
  PROVE  /\ s \in Server /\ Lists(s) /\ s.async[a] = NoAsync /\ s.apc[a] \in Apcs
         /\ s.apc[a].at = "none" /\ s.irp[a] \in Irps /\ s.irp[a].at = "none" /\ ~Queued(s, a)
         /\ a \notin ToSet(s.requests)
<1>1. /\ s \in Server /\ Lists(s) /\ s.apc[a] \in Apcs /\ s.irp[a] \in Irps
      /\ Fits(Kind[Fd(s, a)], s.async[a], s.apc[a], s.irp[a].at, Queued(s, a), C[a])
  BY Parts
<1>2. /\ s.async[a] = NoAsync /\ s.apc[a].at = "none" /\ s.irp[a].at = "none" /\ ~Queued(s, a)
  BY <1>1 DEF Fits, Unused
<1>3. a \notin ToSet(s.requests)
  BY <1>1, <1>2 DEF Lists
<1> QED
  BY <1>1, <1>2, <1>3

\* A started async that fits keeps the invariant.
LEMMA StartKeeps ==
  ASSUME NEW s, NEW s2, NEW a \in Asyncs, NEW r \in AsyncRecords, NEW i \in Irps,
         NEW how \in Ways, NEW C, NEW D, ServerInv(s, C), ~s.async[a].used, r.group = 0,
         how = "request" => i.at = "queued", s2 = Start(s, a, r, i, how),
         \A q \in BOOLEAN : (q <=> how # "failed") =>
                             Fits(Kind[Fd(s, a)], r, s.apc[a], i.at, q, D[a]),
         \A c \in Asyncs \ {a} : D[c] = C[c]
  PROVE  ServerInv(s2, D) /\ Touches(s, s2, a)
<1>1. /\ s \in Server /\ Lists(s) /\ s.async[a].group = 0
      /\ ~Queued(s, a) /\ a \notin ToSet(s.requests)
  BY FreshAsync DEF NoAsync
<1>2. /\ Touches(s, s2, a) /\ s2.async[a] = r /\ s2.apc[a] = s.apc[a] /\ s2.irp[a] = i
      /\ Queued(s2, a) <=> how # "failed"
  BY <1>1, StartTouches
<1>3. PICK q \in BOOLEAN : q = Queued(s2, a)
  <2>1. Queued(s2, a) \in BOOLEAN
    BY DEF Queued
  <2> QED
    BY <2>1
<1>4. Fits(Kind[Fd(s, a)], r, s.apc[a], i.at, q, D[a])
  BY <1>2, <1>3
<1>5. AsyncInv(s2, a, D[a])
  BY <1>2, <1>3, <1>4 DEF AsyncInv, Touches, Fd
<1> QED
  BY <1>2, <1>5, Kept

\* The record of the async is changed to r.
With(s, a, r) == [s EXCEPT !.async = [s.async EXCEPT ![a] = r]]

\* What that changes, and changes in turn
LEMMA WithFields ==
  ASSUME NEW s \in Server, NEW a \in Asyncs, NEW r \in AsyncRecords, NEW r2 \in AsyncRecords
  PROVE  /\ With(s, a, r) \in Server /\ With(s, a, r).async[a] = r
         /\ With(With(s, a, r), a, r2) = With(s, a, r2)
         /\ With(s, a, r).attr = s.attr
<1>1. PICK x \in [Asyncs -> AsyncRecords], y \in [Asyncs -> AsyncRecords] :
        x = [s.async EXCEPT ![a] = r] /\ y = [s.async EXCEPT ![a] = r2]
  BY Fields
<1>2. PICK e : e = [s EXCEPT !.async = x]
  OBVIOUS
<1>3. e \in Server /\ e.async = x /\ e.attr = s.attr
  BY <1>2 DEF Server
<1>4. [x EXCEPT ![a] = r2] = y /\ x[a] = r
  BY <1>1, Fields
<1>5. [e EXCEPT !.async = y] = [s EXCEPT !.async = y]
  BY <1>2 DEF Server
<1>6. e = With(s, a, r)
  BY <1>1, <1>2 DEF With
<1>7. With(e, a, r2) = With(s, a, r2)
  BY <1>1, <1>3, <1>4, <1>5 DEF With
<1> QED
  BY <1>3, <1>4, <1>6, <1>7

\* The records that async_handoff leaves
FailedRecord(r) ==
  [r EXCEPT !.initial = "error", !.terminated = TRUE, !.iosb = "error", !.handle = FALSE]
AlertedRecord(r) ==
  [r EXCEPT !.unknown = TRUE, !.terminated = TRUE, !.iosb = "alerted", !.alerted = TRUE]
PendingRecord(r) ==
  [r EXCEPT !.initial = "pending", !.direct = FALSE, !.pending = TRUE, !.handle = r.blocking]
DataRecord(r) == [r EXCEPT !.initial = r.iosb, !.signaled = TRUE]

\* async_handoff of direct I/O that has not ended: it failed,
LEMMA HandoffError ==
  ASSUME NEW s \in Server, NEW a \in Asyncs, NEW r \in AsyncRecords, r = s.async[a],
         r.direct, ~r.unknown, ~r.terminated, ~r.alerted, ~r.pending, r.iosb = "pending"
  PROVE  Handoff(s, a, "error") = With(s, a, FailedRecord(r))
<1>1. PICK r1 \in AsyncRecords : r1 = [r EXCEPT !.initial = "error"]
  BY DEF AsyncRecords, Statuses
<1>2. PICK r2 \in AsyncRecords : r2 = [r1 EXCEPT !.terminated = TRUE, !.iosb = "error"]
  BY DEF AsyncRecords, Statuses
<1>3. PICK r3 \in AsyncRecords : r3 = [r2 EXCEPT !.handle = FALSE]
  <2>1. FALSE \in BOOLEAN
    OBVIOUS
  <2>2. [r2 EXCEPT !.handle = FALSE] \in AsyncRecords
    BY <2>1 DEF AsyncRecords
  <2> QED
    BY <2>2
<1>4. PICK s1 \in Server : s1 = With(s, a, r1) /\ s1.async[a] = r1
  BY WithFields
<1>5. s1 = [s EXCEPT !.async[a].initial = "error"]
  BY <1>1, <1>4 DEF With
<1>6. /\ r1.direct /\ ~r1.terminated /\ ~r1.alerted /\ r1.iosb = "pending"
      /\ Terminated(r1, "error") = r2
  <2>1. r1.direct /\ ~r1.terminated /\ ~r1.alerted /\ r1.iosb = "pending"
    BY <1>1 DEF AsyncRecords
  <2>2. PICK b \in BOOLEAN : b = (r1.alerted \/ "error" = "alerted")
    BY DEF AsyncRecords
  <2>3. b = r1.alerted
    BY <2>1, <2>2 DEF AsyncRecords
  <2>4. Terminated(r1, "error") = [r1 EXCEPT !.terminated = TRUE, !.iosb = "error", !.alerted = b]
    BY <2>1, <2>2 DEF Terminated, AsyncRecords
  <2>5. [r1 EXCEPT !.terminated = TRUE, !.iosb = "error", !.alerted = b] = r2
    BY <1>2, <2>3 DEF AsyncRecords
  <2> QED
    BY <2>1, <2>4, <2>5
<1>7. PICK s2 \in Server : s2 = With(s1, a, r2) /\ s2.async[a] = r2
  BY <1>4, WithFields
<1>8. Terminate(s1, a, "error") = s2
  BY <1>4, <1>6, <1>7 DEF Terminate, With
<1>9. ~r2.pending /\ IsError(r2.iosb)
  BY <1>1, <1>2 DEF IsError, AsyncRecords
<1>10. Handoff(s, a, "error") = [s2 EXCEPT !.async[a].handle = FALSE]
  BY <1>5, <1>7, <1>8, <1>9 DEF Handoff
<1>11. Handoff(s, a, "error") = With(s2, a, r3)
  BY <1>3, <1>7, <1>10 DEF With
<1>12. With(s2, a, r3) = With(s, a, r3)
  BY <1>4, <1>7, WithFields
<1>13. r3 = FailedRecord(r)
  BY <1>1, <1>2, <1>3 DEF FailedRecord, AsyncRecords
<1> QED
  BY <1>11, <1>12, <1>13

\* the client is to do it,
LEMMA HandoffAlerted ==
  ASSUME NEW s \in Server, NEW a \in Asyncs, NEW r \in AsyncRecords, r = s.async[a],
         r.direct, ~r.unknown, ~r.terminated, r.iosb = "pending"
  PROVE  Handoff(s, a, "alerted") = With(s, a, AlertedRecord(r))
<1>1. PICK r1 \in AsyncRecords : r1 = [r EXCEPT !.unknown = TRUE]
  BY DEF AsyncRecords
<1>2. PICK r2 \in AsyncRecords : r2 = [r1 EXCEPT !.terminated = TRUE, !.iosb = "alerted",
                                                 !.alerted = TRUE]
  BY DEF AsyncRecords, Statuses
<1>3. PICK s1 \in Server : s1 = With(s, a, r1) /\ s1.async[a] = r1
  BY WithFields
<1>4. s1 = [s EXCEPT !.async[a].unknown = TRUE]
  BY <1>1, <1>3 DEF With
<1>5. r1.direct /\ ~r1.terminated /\ r1.iosb = "pending" /\ Terminated(r1, "alerted") = r2
  BY <1>1, <1>2, ZenonT(30) DEF Terminated, AsyncRecords
<1>6. Terminate(s1, a, "alerted") = With(s1, a, r2)
  BY <1>3, <1>5 DEF Terminate, With
<1>7. Handoff(s, a, "alerted") = Terminate(s1, a, "alerted")
  BY <1>4 DEF Handoff
<1>8. With(s1, a, r2) = With(s, a, r2)
  BY <1>3, WithFields
<1>9. r2 = AlertedRecord(r)
  BY <1>1, <1>2 DEF AlertedRecord, AsyncRecords
<1> QED
  BY <1>6, <1>7, <1>8, <1>9

\* it goes on,
LEMMA HandoffPending ==
  ASSUME NEW s \in Server, NEW a \in Asyncs, NEW r \in AsyncRecords, r = s.async[a],
         ~r.unknown, r.iosb = "pending"
  PROVE  Handoff(s, a, "pending") = With(s, a, PendingRecord(r))
<1>1. PICK r1 \in AsyncRecords : r1 = [r EXCEPT !.initial = "pending"]
  BY DEF AsyncRecords, Statuses
<1>2. PICK r2 \in AsyncRecords : r2 = [r1 EXCEPT !.direct = FALSE, !.pending = TRUE,
                                                 !.handle = r1.blocking]
  BY ZenonT(30) DEF AsyncRecords
<1>3. PICK s1 \in Server : s1 = With(s, a, r1) /\ s1.async[a] = r1
  BY WithFields
<1>4. s1 = [s EXCEPT !.async[a].initial = "pending"]
  BY <1>1, <1>3 DEF With
<1>5. r1.iosb = "pending" /\ ~IsError(r1.iosb)
  BY <1>1 DEF IsError, AsyncRecords
<1>6. Handoff(s, a, "pending") =
        [s1 EXCEPT !.async[a] = [@ EXCEPT !.direct = FALSE, !.pending = TRUE,
                                          !.handle = r1.blocking]]
  BY <1>3, <1>4, <1>5 DEF Handoff
<1>7. Handoff(s, a, "pending") = With(s1, a, r2)
  BY <1>2, <1>3, <1>6 DEF With
<1>8. With(s1, a, r2) = With(s, a, r2)
  BY <1>3, WithFields
<1>9. r2 = PendingRecord(r)
  BY <1>1, <1>2 DEF PendingRecord, AsyncRecords
<1> QED
  BY <1>7, <1>8, <1>9

\* or it has its data.
LEMMA HandoffDone ==
  ASSUME NEW s \in Server, NEW a \in Asyncs, NEW r \in AsyncRecords, r = s.async[a],
         ~r.unknown, r.iosb # "pending", ~IsError(r.iosb)
  PROVE  Handoff(s, a, "pending") = With(s, a, DataRecord(r))
<1>1. PICK r1 \in AsyncRecords : r1 = [r EXCEPT !.initial = "pending"]
  BY DEF AsyncRecords, Statuses
<1>2. PICK r2 \in AsyncRecords : r2 = [r1 EXCEPT !.signaled = TRUE, !.initial = r1.iosb]
  BY DEF AsyncRecords
<1>3. PICK s1 \in Server : s1 = With(s, a, r1) /\ s1.async[a] = r1
  BY WithFields
<1>4. s1 = [s EXCEPT !.async[a].initial = "pending"]
  BY <1>1, <1>3 DEF With
<1>5. r1.iosb # "pending" /\ ~IsError(r1.iosb)
  BY <1>1 DEF AsyncRecords
<1>6. Handoff(s, a, "pending") =
        [s1 EXCEPT !.async[a].signaled = TRUE, !.async[a].initial = r1.iosb]
  BY <1>3, <1>4, <1>5 DEF Handoff
<1>7. Handoff(s, a, "pending") = With(s1, a, r2)
  <2>1. PICK v \in Statuses : v = r1.iosb
    BY DEF AsyncRecords
  <2>2. PICK x \in AsyncRecords : x = [r1 EXCEPT !.signaled = TRUE]
    BY DEF AsyncRecords
  <2>3. PICK e \in Server : e = With(s1, a, x) /\ e.async[a] = x
    BY <1>3, WithFields
  <2>4. e = [s1 EXCEPT !.async[a].signaled = TRUE]
    BY <1>3, <2>2, <2>3 DEF With
  <2>5. Handoff(s, a, "pending") = [e EXCEPT !.async[a].initial = v]
    BY <1>6, <2>1, <2>4
  <2>6. [e EXCEPT !.async[a].initial = v] = With(e, a, [x EXCEPT !.initial = v])
    BY <2>3 DEF With
  <2>7. r2 = [x EXCEPT !.initial = v]
    BY <1>2, <2>1, <2>2
  <2>8. With(e, a, r2) = With(s1, a, r2)
    BY <1>3, <2>3, WithFields
  <2> QED
    BY <2>5, <2>6, <2>7, <2>8
<1>8. With(s1, a, r2) = With(s, a, r2)
  BY <1>3, WithFields
<1>9. r2 = DataRecord(r)
  BY <1>1, <1>2 DEF DataRecord, AsyncRecords
<1> QED
  BY <1>7, <1>8, <1>9

\* A started async, and changes to its record
LEMMA StartWith ==
  ASSUME NEW s \in Server, NEW a \in Asyncs, NEW r \in AsyncRecords, NEW r2 \in AsyncRecords,
         NEW i \in Irps, NEW how \in Ways
  PROVE  /\ Start(s, a, r, i, how) \in Server /\ Start(s, a, r, i, how).async[a] = r
         /\ Start(s, a, r, i, how).attr = s.attr
         /\ With(Start(s, a, r, i, how), a, r2) = Start(s, a, r2, i, how)
<1>1. PICK x \in [Asyncs -> AsyncRecords], x2 \in [Asyncs -> AsyncRecords],
           y \in [Asyncs -> Irps] :
        x = [s.async EXCEPT ![a] = r] /\ x2 = [s.async EXCEPT ![a] = r2]
        /\ y = [s.irp EXCEPT ![a] = i]
  BY Fields
<1>2. PICK w \in [Fds -> Seq(Asyncs)] :
        w = IF how = "failed" THEN s.queue
            ELSE [s.queue EXCEPT ![Fd(s, a)] = Append(@, a)]
  <2>1. s.queue \in [Fds -> Seq(Asyncs)] /\ Fd(s, a) \in Fds
    BY Fields, AttrTypes
  <2>2. Append(s.queue[Fd(s, a)], a) \in Seq(Asyncs)
    BY <2>1
  <2> QED
    BY <2>1, <2>2
<1>3. PICK v \in Seq(Asyncs) : v = IF how = "request" THEN Append(s.requests, a) ELSE s.requests
  <2>1. s.requests \in Seq(Asyncs)
    BY Fields
  <2>2. Append(s.requests, a) \in Seq(Asyncs)
    BY <2>1
  <2> QED
    BY <2>1, <2>2
<1>4. PICK e : e = [s EXCEPT !.async = x, !.irp = y, !.queue = w, !.requests = v]
  OBVIOUS
<1>5. e \in Server /\ e.async = x /\ e.attr = s.attr
  BY <1>4 DEF Server
<1>6. [x EXCEPT ![a] = r2] = x2 /\ x[a] = r
  BY <1>1, Fields
<1>7. [e EXCEPT !.async = x2] = [s EXCEPT !.async = x2, !.irp = y, !.queue = w, !.requests = v]
  BY <1>4 DEF Server
<1>8. e = Start(s, a, r, i, how)
  BY <1>1, <1>2, <1>3, <1>4 DEF Start
<1>9. With(e, a, r2) = Start(s, a, r2, i, how)
  BY <1>1, <1>2, <1>3, <1>5, <1>6, <1>7 DEF With, Start
<1> QED
  BY <1>5, <1>6, <1>8, <1>9

\* A record is changed, and the async may be put on the queue of its file.
LEMMA WithStart ==
  ASSUME NEW s \in Server, NEW a \in Asyncs, NEW r \in AsyncRecords
  PROVE  /\ With(s, a, r) = Start(s, a, r, s.irp[a], "failed")
         /\ Enqueued(With(s, a, r), a) = Start(s, a, r, s.irp[a], "queued")
<1>1. PICK x \in [Asyncs -> AsyncRecords] : x = [s.async EXCEPT ![a] = r]
  BY Fields
<1>2. [s.irp EXCEPT ![a] = s.irp[a]] = s.irp
  BY Fields
<1>3. PICK w : w = [s.queue EXCEPT ![Fd(s, a)] = Append(@, a)]
  OBVIOUS
<1>4. PICK e : e = [s EXCEPT !.async = x]
  OBVIOUS
<1>5. e = [s EXCEPT !.async = x, !.irp = s.irp, !.queue = s.queue, !.requests = s.requests]
  BY <1>4 DEF Server
<1>6. e = With(s, a, r)
  BY <1>1, <1>4 DEF With
<1>7. e = Start(s, a, r, s.irp[a], "failed")
  BY <1>1, <1>2, <1>5 DEF Start
<1>8. e.queue = s.queue /\ e.attr = s.attr
  BY <1>4 DEF Server
<1>9. Enqueued(e, a) = [e EXCEPT !.queue = w]
  BY <1>3, <1>8 DEF Enqueued, Fd
<1>10. [e EXCEPT !.queue = w] =
         [s EXCEPT !.async = x, !.irp = s.irp, !.queue = w, !.requests = s.requests]
  BY <1>4 DEF Server
<1>11. Enqueued(e, a) = Start(s, a, r, s.irp[a], "queued")
  BY <1>1, <1>2, <1>3, <1>9, <1>10 DEF Start
<1> QED
  BY <1>6, <1>7, <1>11

\* The record of a new async
Born(r, blocking, timeout) ==
  /\ r \in AsyncRecords /\ r.used /\ ~r.terminated /\ ~r.alerted /\ ~r.canceled /\ ~r.unknown
  /\ r.direct /\ ~r.pending /\ ~r.signaled /\ r.blocking = blocking /\ r.timeout = timeout
  /\ r.handle /\ r.fd /\ r.iosb = "pending" /\ r.initial = "pending" /\ r.group = 0
  /\ r.posted = 0 /\ ~r.missed

\* create_request_async makes such a record.
LEMMA CreatedIs ==
  ASSUME NEW s \in Server, NEW a \in Asyncs
  PROVE  \E r \in AsyncRecords : Born(r, s.attr[a].blocking, FALSE) /\ Created(s, a) = With(s, a, r)
<1>1. PICK bl \in BOOLEAN : bl = s.attr[a].blocking
  BY AttrTypes
<1>a. PICK sk \in BOOLEAN : sk = (s.attr[a].notify = "skip")
  OBVIOUS
<1>2. PICK r : r = [NoAsync EXCEPT !.used = TRUE, !.direct = TRUE, !.handle = TRUE,
                                   !.fd = TRUE, !.blocking = bl, !.skip = sk]
  OBVIOUS
<1>3. r \in AsyncRecords
  BY <1>2 DEF AsyncRecords, NoAsync, Statuses
<1>4. Born(r, bl, FALSE)
  BY <1>2, <1>3 DEF Born, NoAsync
<1>5. Created(s, a) = With(s, a, r)
  BY <1>1, <1>a, <1>2 DEF Created, With
<1> QED
  BY <1>1, <1>3, <1>4, <1>5

\* A step that is about one async
LEMMA Touched ==
  ASSUME IInv, Runs, NEW a \in Asyncs, Touches(srv, srv', a), ServerInv(srv', call'),
         call' \in [Asyncs -> CallRecords], \A b \in Asyncs : call'[b].at # "made"
  PROVE  IInv'
<1>1. Counts(srv')
  BY CountsKept DEF IInv, ServerInv
<1>2. Ends(srv')
  BY DEF Ends, Runs, Touches
<1> QED
  BY <1>1, <1>2 DEF IInv

\* A step with which the calls stay
LEMMA Stays ==
  ASSUME IInv, call' = call, ServerInv(srv', call), Counts(srv'), Ends(srv')
  PROVE  IInv'
BY DEF IInv

\* What HandedOff makes of the calls
LEMMA CallMade ==
  ASSUME IInv, NEW a \in Asyncs, NEW c \in CallRecords, c.at # "made",
         call' = [call EXCEPT ![a] = c]
  PROVE  /\ call' \in [Asyncs -> CallRecords] /\ call'[a] = c
         /\ \A b \in Asyncs \ {a} : call'[b] = call[b]
         /\ \A b \in Asyncs : call'[b].at # "made"
<1>1. call \in [Asyncs -> CallRecords] /\ \A b \in Asyncs : call[b].at # "made"
  BY DEF IInv
<1>2. /\ call' \in [Asyncs -> CallRecords] /\ call'[a] = c
      /\ \A b \in Asyncs \ {a} : call'[b] = call[b]
  BY <1>1
<1>3. \A b \in Asyncs : call'[b].at # "made"
  BY <1>1, <1>2
<1> QED
  BY <1>2, <1>3

\* The records of a new async fit: of a socket, with the call that failed,
LEMMA FailedFits ==
  ASSUME NEW r, NEW r2, NEW p \in Apcs, NEW q \in BOOLEAN, NEW bl \in BOOLEAN,
         NEW x \in BOOLEAN, Born(r, bl, x),
         p.at = "none", NEW c, c = [at |-> "returned", status |-> "error"],
         r2 = FailedRecord(r)
  PROVE  /\ r2 \in AsyncRecords /\ r2.group = 0 /\ ~r2.handle /\ ~r2.unknown
         /\ r2.iosb = "error" /\ Fits("socket", r2, p, "none", q, c)
<1>1. r2 \in AsyncRecords
  BY DEF FailedRecord, Born, AsyncRecords, Statuses
<1>2. /\ r2.used /\ r2.terminated /\ ~r2.alerted /\ ~r2.canceled /\ ~r2.unknown
      /\ r2.direct /\ ~r2.pending /\ ~r2.signaled /\ r2.blocking = bl /\ r2.timeout = x
      /\ ~r2.handle /\ r2.fd /\ r2.iosb = "error" /\ r2.initial = "error" /\ r2.group = 0
      /\ r2.posted = 0 /\ ~r2.missed
  BY DEF FailedRecord, Born, AsyncRecords
<1>3. c.at = "returned" /\ c.status = "error"
  OBVIOUS
<1>4. Fits("socket", r2, p, "none", q, c)
  BY <1>2, <1>3 DEF Fits, Unused, Woken, Waits, Resulting, Posts, Told, IsError
<1> QED
  BY <1>1, <1>2, <1>4 DEF AsyncRecords

\* with the client that does the I/O,
LEMMA AlertedFits ==
  ASSUME NEW r, NEW r2, NEW p \in Apcs, NEW q \in BOOLEAN, NEW bl \in BOOLEAN,
         NEW x \in BOOLEAN, Born(r, bl, x),
         p.at = "none", NEW c, c = [at |-> "io", status |-> "alerted"],
         r2 = AlertedRecord(r)
  PROVE  /\ r2 \in AsyncRecords /\ r2.group = 0
         /\ Fits("socket", r2, p, "none", q, c)
<1>1. r2 \in AsyncRecords
  BY DEF AlertedRecord, Born, AsyncRecords, Statuses
<1>2. /\ r2.used /\ r2.terminated /\ r2.alerted /\ ~r2.canceled /\ r2.unknown
      /\ r2.direct /\ ~r2.pending /\ ~r2.signaled /\ r2.blocking = bl /\ r2.timeout = x
      /\ r2.handle /\ r2.fd /\ r2.iosb = "alerted" /\ r2.initial = "pending" /\ r2.group = 0
      /\ r2.posted = 0 /\ ~r2.missed
  BY DEF AlertedRecord, Born, AsyncRecords
<1>3. c.at = "io" /\ c.status = "alerted"
  OBVIOUS
<1>4. Fits("socket", r2, p, "none", q, c)
  BY <1>2, <1>3 DEF Fits, Unused, Woken, Waits, Resulting, Posts, Told, IsError
<1> QED
  BY <1>1, <1>2, <1>4

\* and of a socket or a pipe that goes on: the caller waits, or has been told so.
LEMMA PendingFits ==
  ASSUME NEW r, NEW r2, NEW p \in Apcs, NEW q \in BOOLEAN, NEW bl \in BOOLEAN,
         NEW x \in BOOLEAN, Born(r, bl, x),
         NEW k \in {"socket", "pipe"}, x => k = "socket", q, p.at = "none", NEW c,
         c = IF bl THEN [at |-> "wait", status |-> "pending"]
             ELSE [at |-> "returned", status |-> "pending"],
         r2 = PendingRecord(r)
  PROVE  /\ r2 \in AsyncRecords /\ r2.group = 0 /\ r2.handle = bl /\ ~r2.unknown
         /\ r2.iosb = "pending" /\ Fits(k, r2, p, "none", q, c)
<1>1. r2 \in AsyncRecords
  BY DEF PendingRecord, Born, AsyncRecords, Statuses
<1>2. /\ r2.used /\ ~r2.terminated /\ ~r2.alerted /\ ~r2.canceled /\ ~r2.unknown
      /\ ~r2.direct /\ r2.pending /\ ~r2.signaled /\ r2.blocking = bl /\ r2.timeout = x
      /\ r2.handle = bl /\ r2.fd /\ r2.iosb = "pending" /\ r2.initial = "pending"
      /\ r2.group = 0 /\ r2.posted = 0 /\ ~r2.missed
  BY DEF PendingRecord, Born, AsyncRecords
<1>3. /\ c.at = "wait" \/ c.at = "returned"
      /\ c.at = "wait" => bl
      /\ c.status = "pending"
  OBVIOUS
<1>4. Unused(r2, p, "none", q, c) /\ Woken(k, r2, p, c) /\ Waits(k, r2, "none", q, c)
  BY <1>2, <1>3 DEF Unused, Woken, Waits
<1>5. Resulting(k, r2, p, c) /\ Told(k, r2, p, c)
  BY <1>2, <1>3 DEF Resulting, Posts, Told, IsError
<1> QED
  BY <1>1, <1>2, <1>4, <1>5 DEF AsyncRecords, Fits

\* recv_socket
LEMMA RecvSocketKeeps ==
  ASSUME IInv, Runs, NEW t, NEW a \in Asyncs, RecvSocket(t, a)
  PROVE  IInv'
<1>1. /\ ServerInv(srv, call) /\ ~srv.async[a].used /\ Kind[Fd(srv, a)] = "socket"
      /\ srv \in Server /\ srv.apc[a] \in Apcs /\ srv.irp[a] \in Irps /\ srv.irp[a].at = "none"
  BY FreshAsync DEF IInv, RecvSocket
<1>2. PICK bl \in BOOLEAN, x \in BOOLEAN :
        bl = srv.attr[a].blocking /\ x = (srv.attr[a].timed /\ ~srv.attr[a].blocking)
  BY <1>1, AttrTypes
<1>3. PICK n \in AsyncRecords : Born(n, bl, FALSE) /\ Created(srv, a) = With(srv, a, n)
  BY <1>1, <1>2, CreatedIs
<1>4. PICK r \in AsyncRecords : r = [n EXCEPT !.timeout = x]
  BY DEF AsyncRecords
<1>5. Born(r, bl, x)
  BY <1>3, <1>4 DEF Born, AsyncRecords
<1>6. PICK e \in Server : e = With(srv, a, r)
  BY <1>1, WithFields
<1>7. e = [Created(srv, a) EXCEPT !.async[a].timeout = x]
  <2>1. PICK e1 \in Server : e1 = With(srv, a, n) /\ e1.async[a] = n
    BY <1>1, WithFields
  <2>2. [e1 EXCEPT !.async[a].timeout = x] = With(e1, a, r)
    BY <1>4, <2>1 DEF With
  <2>3. With(e1, a, r) = With(srv, a, r)
    BY <1>1, <2>1, WithFields
  <2> QED
    BY <1>3, <1>6, <2>1, <2>2, <2>3
<1>8. PICK i \in Irps, p \in Apcs :
        i = srv.irp[a] /\ i.at = "none" /\ p = srv.apc[a] /\ p.at = "none"
  BY <1>1, FreshAsync
<1>9. PICK d \in Server, u \in Server :
        /\ d = Start(srv, a, r, i, "failed") /\ u = Start(srv, a, r, i, "queued")
        /\ d.async[a] = r /\ u.async[a] = r
  BY <1>1, StartWith DEF Ways
<1>10. e = d /\ Enqueued(e, a) = u
  BY <1>1, <1>6, <1>8, <1>9, WithStart
<1>11. PICK error : /\ error \in {"error", "alerted", "pending"}
                    /\ srv' = Handoff(IF error = "error" THEN d ELSE u, a, error)
                    /\ HandedOff(srv', a, error)
  <2>1. e = [Created(srv, a) EXCEPT !.async[a].timeout =
                                      srv.attr[a].timed /\ ~srv.attr[a].blocking]
    BY <1>2, <1>7
  <2> QED
    BY <1>10, <2>1 DEF RecvSocket
<1>12. CASE error = "error"
  <2>1. PICK r2 : r2 = FailedRecord(r)
    OBVIOUS
  <2>2. PICK c \in CallRecords : c = [at |-> "returned", status |-> "error"]
    BY DEF CallRecords, Statuses
  <2>3. /\ r2 \in AsyncRecords /\ r2.group = 0 /\ ~r2.handle /\ ~r2.unknown
        /\ r2.iosb = "error"
    BY <1>5, <1>8, <2>1, <2>2, FailedFits
  <2>4. srv' = With(d, a, r2)
    BY <1>5, <1>9, <1>11, <1>12, <2>1, HandoffError DEF Born
  <2>5. srv' = Start(srv, a, r2, i, "failed") /\ srv'.async[a] = r2
    BY <1>1, <1>9, <2>3, <2>4, StartWith DEF Ways
  <2>6. call' = [call EXCEPT ![a] = c]
    BY <1>11, <1>12, <2>2, <2>3, <2>5 DEF HandedOff
  <2>7. /\ call' \in [Asyncs -> CallRecords] /\ call'[a] = c
        /\ \A b \in Asyncs \ {a} : call'[b] = call[b]
        /\ \A b \in Asyncs : call'[b].at # "made"
    BY <2>2, <2>6, CallMade
  <2>8. ASSUME NEW q \in BOOLEAN
        PROVE  Fits(Kind[Fd(srv, a)], r2, srv.apc[a], i.at, q, call'[a])
    <3>1. Fits("socket", r2, p, "none", q, c)
      BY <1>5, <1>8, <2>1, <2>2, FailedFits
    <3> QED
      BY <1>1, <1>8, <2>7, <3>1
  <2>9. ServerInv(srv', call') /\ Touches(srv, srv', a)
    <3>1. PICK s2, D : s2 = srv' /\ D = call'
      OBVIOUS
    <3>2. ServerInv(s2, D) /\ Touches(srv, s2, a)
      BY <1>1, <1>8, <2>3, <2>5, <2>7, <2>8, <3>1, StartKeeps, SMTT(30) DEF Ways
    <3> QED
      BY <3>1, <3>2
  <2> QED
    BY <2>7, <2>9, Touched
<1>13. CASE error = "alerted"
  <2>1. PICK r2 : r2 = AlertedRecord(r)
    OBVIOUS
  <2>2. PICK c \in CallRecords : c = [at |-> "io", status |-> "alerted"]
    BY DEF CallRecords, Statuses
  <2>3. /\ r2 \in AsyncRecords /\ r2.group = 0
    BY <1>5, <1>8, <2>1, <2>2, AlertedFits
  <2>4. srv' = With(u, a, r2)
    BY <1>5, <1>9, <1>11, <1>13, <2>1, HandoffAlerted DEF Born
  <2>5. srv' = Start(srv, a, r2, i, "queued") /\ srv'.async[a] = r2
    BY <1>1, <1>9, <2>3, <2>4, StartWith DEF Ways
  <2>6. call' = [call EXCEPT ![a] = c]
    BY <1>11, <1>13, <2>2 DEF HandedOff
  <2>7. /\ call' \in [Asyncs -> CallRecords] /\ call'[a] = c
        /\ \A b \in Asyncs \ {a} : call'[b] = call[b]
        /\ \A b \in Asyncs : call'[b].at # "made"
    BY <2>2, <2>6, CallMade
  <2>8. ASSUME NEW q \in BOOLEAN, q <=> "queued" # "failed"
        PROVE  Fits(Kind[Fd(srv, a)], r2, srv.apc[a], i.at, q, call'[a])
    <3>1. Fits("socket", r2, p, "none", q, c)
      BY <1>5, <1>8, <2>1, <2>2, <2>8, AlertedFits
    <3> QED
      BY <1>1, <1>8, <2>7, <3>1
  <2>9. ServerInv(srv', call') /\ Touches(srv, srv', a)
    <3>1. PICK s2, D : s2 = srv' /\ D = call'
      OBVIOUS
    <3>2. ServerInv(s2, D) /\ Touches(srv, s2, a)
      BY <1>1, <1>8, <2>3, <2>5, <2>7, <2>8, <3>1, StartKeeps DEF Ways
    <3> QED
      BY <3>1, <3>2
  <2> QED
    BY <2>7, <2>9, Touched
<1>14. CASE error = "pending"
  <2>1. PICK r2 : r2 = PendingRecord(r)
    OBVIOUS
  <2>2. PICK c \in CallRecords : c = IF bl THEN [at |-> "wait", status |-> "pending"]
                                     ELSE [at |-> "returned", status |-> "pending"]
    BY DEF CallRecords, Statuses
  <2>3. /\ r2 \in AsyncRecords /\ r2.group = 0 /\ r2.handle = bl /\ ~r2.unknown
        /\ r2.iosb = "pending"
    BY <1>5, <1>8, <2>1, <2>2, PendingFits
  <2>4. srv' = With(u, a, r2)
    BY <1>5, <1>9, <1>11, <1>14, <2>1, HandoffPending DEF Born
  <2>5. srv' = Start(srv, a, r2, i, "queued") /\ srv'.async[a] = r2
    BY <1>1, <1>9, <2>3, <2>4, StartWith DEF Ways
  <2>6. call' = [call EXCEPT ![a] = c]
    BY <1>11, <1>14, <2>2, <2>3, <2>5 DEF HandedOff
  <2>7. /\ call' \in [Asyncs -> CallRecords] /\ call'[a] = c
        /\ \A b \in Asyncs \ {a} : call'[b] = call[b]
        /\ \A b \in Asyncs : call'[b].at # "made"
    BY <2>2, <2>6, CallMade
  <2>8. ASSUME NEW q \in BOOLEAN, q <=> "queued" # "failed"
        PROVE  Fits(Kind[Fd(srv, a)], r2, srv.apc[a], i.at, q, call'[a])
    <3>1. Fits("socket", r2, p, "none", q, c)
      BY <1>5, <1>8, <2>1, <2>2, <2>8, PendingFits
    <3> QED
      BY <1>1, <1>8, <2>7, <3>1
  <2>9. ServerInv(srv', call') /\ Touches(srv, srv', a)
    <3>1. PICK s2, D : s2 = srv' /\ D = call'
      OBVIOUS
    <3>2. ServerInv(s2, D) /\ Touches(srv, s2, a)
      BY <1>1, <1>8, <2>3, <2>5, <2>7, <2>8, <3>1, StartKeeps, SMTT(30) DEF Ways
    <3> QED
      BY <3>1, <3>2
  <2> QED
    BY <2>7, <2>9, Touched
<1> QED
  BY <1>11, <1>12, <1>13, <1>14

\* A new async on the queue of its file
LEMMA EnqueuedIs ==
  ASSUME NEW s \in Server, NEW a \in Asyncs
  PROVE  \E r \in AsyncRecords : /\ Born(r, s.attr[a].blocking, FALSE)
                                 /\ Enqueued(Created(s, a), a) = Start(s, a, r, s.irp[a], "queued")
<1>1. PICK r \in AsyncRecords : Born(r, s.attr[a].blocking, FALSE) /\ Created(s, a) = With(s, a, r)
  BY CreatedIs
<1>2. Enqueued(With(s, a, r), a) = Start(s, a, r, s.irp[a], "queued")
  BY WithStart
<1> QED
  BY <1>1, <1>2

\* The record of a request to a device
DeviceRecord(r) == [r EXCEPT !.unknown = TRUE, !.direct = FALSE]

\* It fits, with the caller that waits.
LEMMA RequestFits ==
  ASSUME NEW r, NEW r2, NEW p \in Apcs, NEW q \in BOOLEAN, NEW bl \in BOOLEAN,
         Born(r, bl, FALSE), q, p.at = "none", NEW c, c = [at |-> "wait", status |-> "pending"],
         r2 = DeviceRecord(r)
  PROVE  /\ r2 \in AsyncRecords /\ r2.group = 0 /\ r2.handle /\ r2.unknown
         /\ Fits("device", r2, p, "queued", q, c)
<1>1. r2 \in AsyncRecords
  BY DEF DeviceRecord, Born, AsyncRecords
<1>2. /\ r2.used /\ ~r2.terminated /\ ~r2.alerted /\ ~r2.canceled /\ r2.unknown
      /\ ~r2.direct /\ ~r2.pending /\ ~r2.signaled /\ r2.blocking = bl /\ ~r2.timeout
      /\ r2.handle /\ r2.fd /\ r2.iosb = "pending" /\ r2.initial = "pending" /\ r2.group = 0
      /\ r2.posted = 0 /\ ~r2.missed
  BY DEF DeviceRecord, Born, AsyncRecords
<1>3. c.at = "wait" /\ c.status = "pending"
  OBVIOUS
<1>4. Fits("device", r2, p, "queued", q, c)
  BY <1>2, <1>3 DEF Fits, Unused, Woken, Waits, Resulting, Posts, Told
<1> QED
  BY <1>1, <1>2, <1>4

\* The request is queued.
Requested(s, a) ==
  [s EXCEPT !.async[a].unknown = TRUE, !.async[a].direct = FALSE,
            !.irp[a].at = "queued", !.requests = Append(@, a)]

\* The async is started with it.
LEMMA RequestIs ==
  ASSUME NEW s \in Server, NEW a \in Asyncs, NEW r \in AsyncRecords, NEW r2 \in AsyncRecords,
         NEW i \in Irps, r2 = DeviceRecord(r), i = [s.irp[a] EXCEPT !.at = "queued"]
  PROVE  Requested(Start(s, a, r, s.irp[a], "queued"), a) = Start(s, a, r2, i, "request")
<1>1. PICK x : x = [s.async EXCEPT ![a] = r]
  OBVIOUS
<1>2. x \in [Asyncs -> AsyncRecords] /\ x[a] = r
  BY <1>1, Fields
<1>3. PICK w, v : /\ w = [s.queue EXCEPT ![Fd(s, a)] = Append(@, a)]
                  /\ v = Append(s.requests, a)
  OBVIOUS
<1>4. PICK y \in [Asyncs -> Irps] : y = s.irp /\ y = [s.irp EXCEPT ![a] = s.irp[a]]
  BY Fields
<1>5. PICK e : e = [s EXCEPT !.async = x, !.irp = y, !.queue = w, !.requests = s.requests]
  OBVIOUS
<1>6. e = Start(s, a, r, s.irp[a], "queued")
  BY <1>1, <1>3, <1>4, <1>5 DEF Start
<1>7. e.async = x /\ e.irp = y /\ e.requests = s.requests
  BY <1>5 DEF Server
<1>8. PICK z : z = [e EXCEPT !.async[a].unknown = TRUE, !.async[a].direct = FALSE,
                             !.irp[a].at = "queued", !.requests = Append(@, a)]
  OBVIOUS
<1>9. PICK x1 : x1 = [x EXCEPT ![a] = r2]
  OBVIOUS
<1>10. x1 = [s.async EXCEPT ![a] = r2]
  BY <1>1, <1>9, Fields
<1>11. PICK r1 \in AsyncRecords : r1 = [r EXCEPT !.unknown = TRUE]
  BY DEF AsyncRecords
<1>12. r2 = [r1 EXCEPT !.direct = FALSE]
  BY <1>11 DEF DeviceRecord
<1>13. PICK x2 : x2 = [x EXCEPT ![a] = r1]
  OBVIOUS
<1>14. x2 = [x EXCEPT ![a].unknown = TRUE] /\ x2[a] = r1
  BY <1>2, <1>11, <1>13
<1>15. [x2 EXCEPT ![a].direct = FALSE] = x1
  BY <1>2, <1>9, <1>12, <1>13, <1>14
<1>16. PICK y2 : y2 = [y EXCEPT ![a] = i]
  OBVIOUS
<1>17. y2 = [y EXCEPT ![a].at = "queued"]
  BY <1>4, <1>16
<1>18. z = [e EXCEPT !.async = x1, !.irp = y2, !.requests = v]
  <2>1. PICK e1 : e1 = [e EXCEPT !.async[a].unknown = TRUE]
    OBVIOUS
  <2>2. z = [e1 EXCEPT !.async[a].direct = FALSE, !.irp[a].at = "queued",
                       !.requests = Append(@, a)]
    BY <1>8, <2>1
  <2>3. PICK e2 : e2 = [e1 EXCEPT !.async[a].direct = FALSE]
    OBVIOUS
  <2>4. z = [e2 EXCEPT !.irp[a].at = "queued", !.requests = Append(@, a)]
    BY <2>2, <2>3
  <2>5. PICK e3 : e3 = [e2 EXCEPT !.irp[a].at = "queued"]
    OBVIOUS
  <2>6. z = [e3 EXCEPT !.requests = Append(@, a)]
    BY <2>4, <2>5
  <2>7. e1 = [e EXCEPT !.async = x2]
    BY <1>7, <1>14, <2>1
  <2>8. e1.async = x2 /\ e1.irp = y /\ e1.requests = s.requests
    BY <1>5, <2>7 DEF Server
  <2>9. e2 = [e1 EXCEPT !.async = x1]
    BY <1>15, <2>3, <2>8
  <2>10. e2.irp = y /\ e2.requests = s.requests
    BY <1>5, <2>7, <2>9 DEF Server
  <2>11. e3 = [e2 EXCEPT !.irp = y2]
    BY <1>17, <2>5, <2>10
  <2>12. e3.requests = s.requests
    BY <1>5, <2>7, <2>9, <2>11 DEF Server
  <2>13. z = [e3 EXCEPT !.requests = v]
    BY <1>3, <2>6, <2>12
  <2> QED
    BY <1>5, <2>7, <2>9, <2>11, <2>13 DEF Server
<1>19. z = [s EXCEPT !.async = x1, !.irp = y2, !.queue = w, !.requests = v]
  BY <1>5, <1>18 DEF Server
<1>20. z = Start(s, a, r2, i, "request")
  BY <1>3, <1>4, <1>10, <1>16, <1>19 DEF Start
<1>21. z = Requested(e, a)
  BY <1>8 DEF Requested
<1> QED
  BY <1>6, <1>20, <1>21

\* A read of a device
LEMMA ReadDeviceKeeps ==
  ASSUME IInv, Runs, NEW t, NEW a \in Asyncs, ReadDevice(t, a)
  PROVE  IInv'
<1>1. /\ ServerInv(srv, call) /\ ~srv.async[a].used /\ Kind[Fd(srv, a)] = "device"
      /\ srv \in Server /\ srv.apc[a] \in Apcs /\ srv.irp[a] \in Irps /\ srv.apc[a].at = "none"
  BY FreshAsync DEF IInv, ReadDevice
<1>2. PICK bl \in BOOLEAN : bl = srv.attr[a].blocking
  BY <1>1, AttrTypes
<1>3. PICK r \in AsyncRecords :
        Born(r, bl, FALSE) /\ Enqueued(Created(srv, a), a) = Start(srv, a, r, srv.irp[a], "queued")
  BY <1>1, <1>2, EnqueuedIs
<1>4. PICK r2 : r2 = DeviceRecord(r)
  OBVIOUS
<1>5. PICK c \in CallRecords : c = [at |-> "wait", status |-> "pending"]
  BY DEF CallRecords, Statuses
<1>6. PICK p \in Apcs : p = srv.apc[a] /\ p.at = "none"
  BY <1>1
<1>7. ASSUME NEW q \in BOOLEAN, q
      PROVE  /\ r2 \in AsyncRecords /\ r2.group = 0 /\ r2.handle /\ r2.unknown
             /\ Fits("device", r2, p, "queued", q, c)
  BY <1>3, <1>4, <1>5, <1>6, <1>7, RequestFits
<1>8. r2 \in AsyncRecords /\ r2.group = 0 /\ r2.handle /\ r2.unknown
  <2>1. TRUE \in BOOLEAN
    OBVIOUS
  <2> QED
    BY <1>7, <2>1
<1>9. PICK i \in Irps : i = [srv.irp[a] EXCEPT !.at = "queued"] /\ i.at = "queued"
  <2>1. PICK j \in Irps : j = srv.irp[a]
    BY <1>1
  <2>2. [j EXCEPT !.at = "queued"] \in Irps /\ [j EXCEPT !.at = "queued"].at = "queued"
    BY DEF Irps
  <2> QED
    BY <2>1, <2>2
<1>10. PICK s : s = Start(srv, a, r2, i, "request")
  OBVIOUS
<1>11. s.async[a] = r2
  BY <1>1, <1>8, <1>10, StartWith DEF Ways
<1>12. srv' = Handoff(s, a, "pending") /\ HandedOff(srv', a, "pending")
  <2>1. PICK e : e = Enqueued(Created(srv, a), a)
    OBVIOUS
  <2>2. PICK y : y = Requested(e, a)
    OBVIOUS
  <2>3. srv' = Handoff(y, a, "pending") /\ HandedOff(srv', a, "pending")
    BY <2>1, <2>2 DEF ReadDevice, Requested
  <2>4. e = Start(srv, a, r, srv.irp[a], "queued")
    BY <1>3, <2>1
  <2>5. y = s
    BY <1>1, <1>4, <1>8, <1>9, <1>10, <2>2, <2>4, RequestIs
  <2> QED
    BY <2>3, <2>5
<1>13. srv' = s
  BY <1>8, <1>11, <1>12 DEF Handoff
<1>14. call' = [call EXCEPT ![a] = c]
  BY <1>5, <1>8, <1>11, <1>12, <1>13 DEF HandedOff
<1>15. /\ call' \in [Asyncs -> CallRecords] /\ call'[a] = c
       /\ \A b \in Asyncs \ {a} : call'[b] = call[b]
       /\ \A b \in Asyncs : call'[b].at # "made"
  BY <1>5, <1>14, CallMade
<1>16. PICK D, how : D = call' /\ how = "request"
  OBVIOUS
<1>17. ASSUME NEW q \in BOOLEAN, q <=> how # "failed"
       PROVE  Fits(Kind[Fd(srv, a)], r2, srv.apc[a], i.at, q, D[a])
  <2>1. q
    BY <1>16, <1>17
  <2>2. Fits("device", r2, p, "queued", q, c)
    BY <1>7, <2>1
  <2> QED
    BY <1>1, <1>6, <1>9, <1>15, <1>16, <2>2
<1>18. ServerInv(s, D) /\ Touches(srv, s, a)
  <2>1. how \in Ways /\ i.at = "queued" /\ s = Start(srv, a, r2, i, how)
    BY <1>9, <1>10, <1>16 DEF Ways
  <2>2. \A b \in Asyncs \ {a} : D[b] = call[b]
    BY <1>15, <1>16
  <2> QED
    BY <1>1, <1>8, <1>17, <2>1, <2>2, StartKeeps
<1> QED
  BY <1>13, <1>15, <1>16, <1>18, Touched

\* A new read of a pipe fits while its call is made,
LEMMA MadeFits ==
  ASSUME NEW r, NEW p \in Apcs, NEW q \in BOOLEAN, NEW bl \in BOOLEAN, Born(r, bl, FALSE), q,
         p.at = "none", NEW c, c = [at |-> "made", status |-> "pending"]
  PROVE  Fits("pipe", r, p, "none", q, c)
<1>1. c.at = "made"
  OBVIOUS
<1> QED
  BY <1>1 DEF Born, Fits, Unused, Woken, Waits, Resulting, Posts, Told

\* and when it has met its data.
LEMMA DataFits ==
  ASSUME NEW n, NEW r, NEW r2, NEW p \in Apcs, NEW q \in BOOLEAN, NEW bl \in BOOLEAN,
         Born(n, bl, FALSE), Out(n, r, "success"), p.at = "none", r2 = DataRecord(r),
         NEW c, c = [at |-> "wait", status |-> "pending"]
  PROVE  /\ ~r.unknown /\ r.iosb # "pending" /\ ~IsError(r.iosb) /\ r2 \in AsyncRecords
         /\ r2.handle /\ r2.group = r.group /\ Fits("pipe", r2, p, "none", q, c)
<1>1. /\ r \in AsyncRecords /\ r.used /\ r.terminated /\ ~r.alerted /\ ~r.canceled /\ ~r.unknown
      /\ r.direct /\ ~r.pending /\ ~r.signaled /\ r.blocking = bl /\ ~r.timeout
      /\ r.handle /\ r.fd /\ r.iosb = "success" /\ r.initial = "pending" /\ r.group = 0
      /\ r.posted = 0 /\ ~r.missed
  BY DEF Born, Out
<1>2. r2 \in AsyncRecords
  BY <1>1 DEF DataRecord, AsyncRecords
<1>3. /\ r2.used /\ r2.terminated /\ ~r2.alerted /\ ~r2.canceled /\ ~r2.unknown
      /\ r2.direct /\ ~r2.pending /\ r2.signaled /\ r2.blocking = bl /\ ~r2.timeout
      /\ r2.handle /\ r2.fd /\ r2.iosb = "success" /\ r2.initial = "success" /\ r2.group = 0
      /\ r2.posted = 0 /\ ~r2.missed
  BY <1>1 DEF DataRecord, AsyncRecords
<1>4. c.at = "wait" /\ c.status = "pending"
  OBVIOUS
<1>5. Fits("pipe", r2, p, "none", q, c)
  BY <1>3, <1>4 DEF Fits, Unused, Woken, Waits, Resulting, Posts, Told, IsError
<1> QED
  BY <1>1, <1>2, <1>3, <1>5 DEF IsError

\* A change of the record only
LEMMA WithEdit ==
  ASSUME NEW s \in Server, NEW a \in Asyncs, NEW r
  PROVE  With(s, a, r) = Edit(s, a, r, s.apc[a], s.irp[a])
<1>1. [s.apc EXCEPT ![a] = s.apc[a]] = s.apc /\ [s.irp EXCEPT ![a] = s.irp[a]] = s.irp
  BY Fields
<1>2. PICK x : x = [s.async EXCEPT ![a] = r]
  OBVIOUS
<1>3. [s EXCEPT !.async = x] = [s EXCEPT !.async = x, !.apc = s.apc, !.irp = s.irp]
  BY DEF Server
<1> QED
  BY <1>1, <1>2, <1>3 DEF With, Edit

\* A change of the record that fits
LEMMA WithKeeps ==
  ASSUME NEW s, NEW s2, NEW a \in Asyncs, NEW r \in AsyncRecords, NEW C, NEW D,
         ServerInv(s, C), r.group = s.async[a].group, s2 = With(s, a, r),
         Fits(Kind[Fd(s, a)], r, s.apc[a], s.irp[a].at, Queued(s, a), D[a]),
         \A b \in Asyncs \ {a} : D[b] = C[b]
  PROVE  ServerInv(s2, D) /\ Touches(s, s2, a) /\ s2.async[a] = r
<1>1. s \in Server /\ Lists(s) /\ s.apc[a] \in Apcs /\ s.irp[a] \in Irps
  BY Parts
<1>2. PICK p \in Apcs, i \in Irps : p = s.apc[a] /\ i = s.irp[a]
  BY <1>1
<1>3. s2 = Edit(s, a, r, p, i)
  BY <1>1, <1>2, WithEdit
<1>4. Touches(s, s2, a) /\ s2.async[a] = r
  BY <1>1, <1>2, <1>3, EditDoes
<1>5. Fits(Kind[Fd(s, a)], r, p, i.at, Queued(s, a), D[a])
  BY <1>2
<1>6. ServerInv(s2, D)
  BY <1>2, <1>3, <1>5, EditKeeps
<1> QED
  BY <1>4, <1>6

\* A read of a pipe
LEMMA ReadPipeKeeps ==
  ASSUME IInv, Runs, NEW t, NEW a \in Asyncs, ReadPipe(t, a)
  PROVE  IInv'
<1>1. /\ ServerInv(srv, call) /\ ~srv.async[a].used /\ Kind[Fd(srv, a)] = "pipe"
      /\ srv \in Server /\ srv.apc[a] \in Apcs /\ srv.irp[a] \in Irps /\ srv.apc[a].at = "none"
      /\ srv.irp[a].at = "none" /\ Fd(srv, a) \in Fds /\ InRange(srv) /\ Counts(srv)
      /\ call \in [Asyncs -> CallRecords]
  BY FreshAsync, Parts DEF IInv, ReadPipe
<1>2. PICK bl \in BOOLEAN : bl = srv.attr[a].blocking
  BY <1>1, AttrTypes
<1>3. PICK i \in Irps : i = srv.irp[a]
  BY <1>1
<1>4. PICK n, s0 :
        /\ n \in AsyncRecords /\ Born(n, bl, FALSE) /\ s0 = Enqueued(Created(srv, a), a)
        /\ s0 = Start(srv, a, n, i, "queued")
  BY <1>1, <1>2, <1>3, EnqueuedIs
<1>5. PICK m \in CallRecords : m = [at |-> "made", status |-> "pending"]
  BY DEF CallRecords, Statuses
<1>6. PICK D \in [Asyncs -> CallRecords] : D = [call EXCEPT ![a] = m]
  BY <1>1
<1>7. D[a] = m /\ \A b \in Asyncs \ {a} : D[b] = call[b]
  BY <1>1, <1>6
<1>8. ServerInv(s0, D) /\ Touches(srv, s0, a)
  <2>1. PICK how : how = "queued"
    OBVIOUS
  <2>2. ASSUME NEW q \in BOOLEAN, q <=> how # "failed"
        PROVE  Fits(Kind[Fd(srv, a)], n, srv.apc[a], i.at, q, D[a])
    <3>1. q
      BY <2>1, <2>2
    <3>2. PICK p \in Apcs : p = srv.apc[a]
      BY <1>1
    <3>3. Fits("pipe", n, p, "none", q, m)
      BY <1>1, <1>4, <1>5, <3>1, <3>2, MadeFits
    <3> QED
      BY <1>1, <1>3, <1>7, <3>2, <3>3
  <2>3. how \in Ways /\ how # "request" /\ s0 = Start(srv, a, n, i, how)
    BY <1>4, <2>1 DEF Ways
  <2>4. n \in AsyncRecords /\ n.group = 0
    BY <1>4 DEF Born
  <2> QED
    BY <1>1, <1>7, <2>2, <2>3, <2>4, StartKeeps
<1>9. Counts(s0)
  BY <1>1, <1>8, CountsKept
<1>10. s0.async[a] = n
  BY <1>1, <1>3, <1>4, StartWith DEF Ways
<1>11. PICK e : e = ReselectReads(s0, Fd(srv, a), ready[Fd(srv, a)]).state
  OBVIOUS
<1>12. Met(s0, e, D)
  BY <1>1, <1>8, <1>9, <1>11, ReadsMeet
<1>13. srv' = Handoff(e, a, "pending") /\ HandedOff(srv', a, "pending")
  BY <1>4, <1>11 DEF ReadPipe
<1>14. /\ ServerInv(e, D) /\ e.attr = srv.attr /\ e.aborted = srv.aborted
       /\ e.faulted = srv.faulted /\ Counts(e)
  BY <1>8, <1>12 DEF Met, Touches
<1>15. e.async[a] = n \/ (e.async[a].terminated /\ Out(n, e.async[a], "success"))
  BY <1>4, <1>10, <1>12 DEF Met, Born
<1>16. PICK r \in AsyncRecords, p \in Apcs : r = e.async[a] /\ p = e.apc[a]
  BY <1>14, Parts
<1>17. PICK q \in BOOLEAN : q = Queued(e, a)
  BY <1>14, Parts
<1>18. Kind[Fd(e, a)] = "pipe" /\ e \in Server /\ InRange(e)
  BY <1>1, <1>14 DEF Fd, ServerInv
<1>19. Fits("pipe", r, p, e.irp[a].at, q, m)
  <2>1. Fits(Kind[Fd(e, a)], e.async[a], e.apc[a], e.irp[a].at, Queued(e, a), D[a])
    BY <1>14, Parts
  <2> QED
    BY <1>7, <1>16, <1>17, <1>18, <2>1
<1>20. e.irp[a].at = "none"
  BY <1>19 DEF Fits, Waits
<1>21. PICK r2 \in AsyncRecords, c \in CallRecords :
         /\ r2.group = r.group /\ srv' = With(e, a, r2) /\ Fits("pipe", r2, p, "none", q, c)
         /\ call' = [call EXCEPT ![a] = c] /\ c.at # "made"
  <2>1. CASE r = n
    <3>1. /\ r.used /\ ~r.terminated /\ ~r.unknown /\ r.iosb = "pending" /\ r.direct
          /\ r.group = 0 /\ Born(r, bl, FALSE)
      BY <1>4, <2>1 DEF Born
    <3>2. p.at = "none" /\ q
      BY <1>19, <3>1 DEF Fits, Woken, Waits
    <3>3. PICK r2 : r2 = PendingRecord(r)
      OBVIOUS
    <3>4. PICK c \in CallRecords : c = IF bl THEN [at |-> "wait", status |-> "pending"]
                                       ELSE [at |-> "returned", status |-> "pending"]
      BY DEF CallRecords, Statuses
    <3>5. PICK x, k : x \in BOOLEAN /\ x = FALSE /\ k = "pipe"
      OBVIOUS
    <3>6. /\ r2 \in AsyncRecords /\ r2.group = 0 /\ r2.handle = bl /\ ~r2.unknown
          /\ r2.iosb = "pending" /\ Fits(k, r2, p, "none", q, c)
      <4>1. Born(r, bl, x) /\ k \in {"socket", "pipe"} /\ x \in BOOLEAN /\ ~x
        BY <3>1, <3>5
      <4> QED
        BY <3>2, <3>3, <3>4, <4>1, PendingFits
    <3>7. srv' = With(e, a, r2)
      BY <1>13, <1>16, <1>18, <3>1, <3>3, HandoffPending
    <3>8. srv'.async[a] = r2
      BY <1>18, <3>6, <3>7, WithFields
    <3>9. call' = [call EXCEPT ![a] = c]
      BY <1>13, <3>4, <3>6, <3>8 DEF HandedOff
    <3>10. c.at # "made"
      BY <3>4
    <3> QED
      BY <3>1, <3>5, <3>6, <3>7, <3>9, <3>10
  <2>2. CASE r.terminated /\ Out(n, r, "success")
    <3>1. r.direct
      BY <1>4, <2>2 DEF Out, Born
    <3>2. p.at = "none"
      BY <1>19, <3>1 DEF Fits, Woken
    <3>3. PICK r2 : r2 = DataRecord(r)
      OBVIOUS
    <3>4. PICK c \in CallRecords : c = [at |-> "wait", status |-> "pending"]
      BY DEF CallRecords, Statuses
    <3>5. /\ ~r.unknown /\ r.iosb # "pending" /\ ~IsError(r.iosb) /\ r2 \in AsyncRecords
          /\ r2.handle /\ r2.group = r.group /\ Fits("pipe", r2, p, "none", q, c)
      BY <1>4, <2>2, <3>2, <3>3, <3>4, DataFits
    <3>6. srv' = With(e, a, r2)
      BY <1>13, <1>16, <1>18, <3>3, <3>5, HandoffDone
    <3>7. srv'.async[a] = r2
      BY <1>18, <3>5, <3>6, WithFields
    <3>8. call' = [call EXCEPT ![a] = c]
      BY <1>13, <3>4, <3>5, <3>7 DEF HandedOff
    <3>9. c.at # "made"
      BY <3>4
    <3> QED
      BY <3>5, <3>6, <3>8, <3>9
  <2> QED
    BY <1>15, <1>16, <2>1, <2>2
<1>22. /\ call' \in [Asyncs -> CallRecords] /\ call'[a] = c
       /\ \A b \in Asyncs \ {a} : call'[b] = call[b]
       /\ \A b \in Asyncs : call'[b].at # "made"
  BY <1>21, CallMade
<1>23. PICK s2, E : s2 = srv' /\ E = call'
  OBVIOUS
<1>24. Fits(Kind[Fd(e, a)], r2, e.apc[a], e.irp[a].at, Queued(e, a), E[a])
  BY <1>16, <1>17, <1>18, <1>20, <1>21, <1>22, <1>23
<1>25. ServerInv(s2, E) /\ Touches(e, s2, a)
  <2>1. \A b \in Asyncs \ {a} : E[b] = D[b]
    BY <1>7, <1>22, <1>23
  <2>2. r2.group = e.async[a].group /\ s2 = With(e, a, r2)
    BY <1>16, <1>21, <1>23
  <2> QED
    BY <1>14, <1>24, <2>1, <2>2, WithKeeps
<1>26. Counts(s2)
  BY <1>14, <1>18, <1>25, CountsKept
<1>27. Ends(s2)
  BY <1>14, <1>25 DEF Ends, Touches, Runs
<1> QED
  BY <1>22, <1>23, <1>25, <1>26, <1>27 DEF IInv

\* The server has not ended after a step that leaves that alone.
LEMMA RunsOn ==
  ASSUME NEW s, Runs, s.aborted = srv.aborted, s.faulted = srv.faulted
  PROVE  Ends(s)
BY DEF Ends, Runs

\* Data comes
LEMMA DataArrivesKeeps ==
  ASSUME IInv, Runs, NEW f \in Fds, DataArrives(f)
  PROVE  IInv'
<1>1. /\ ServerInv(srv, call) /\ Counts(srv) /\ call \in [Asyncs -> CallRecords]
      /\ call' = call
  BY DEF IInv, DataArrives
<1>2. CASE Kind[f] = "pipe"
  <2>1. PICK s2 : s2 = ReselectReads(srv, f, ready[f] + 1).state
    OBVIOUS
  <2>2. srv' = s2
    BY <1>2, <2>1 DEF DataArrives
  <2>3. Met(srv, s2, call)
    BY <1>1, <1>2, <2>1, ReadsMeet
  <2>4. ServerInv(s2, call) /\ Counts(s2) /\ Ends(s2)
    BY <2>3, RunsOn DEF Met
  <2> QED
    BY <1>1, <2>2, <2>4, Stays
<1>3. CASE Kind[f] # "pipe"
  <2>1. srv' = srv
    BY <1>3 DEF DataArrives
  <2>2. Ends(srv)
    BY DEF IInv
  <2> QED
    BY <1>1, <2>1, <2>2, Stays
<1> QED
  BY <1>2, <1>3

\* A change to one async that leaves the calls alone
LEMMA TouchStays ==
  ASSUME IInv, Runs, NEW s2, NEW a \in Asyncs, srv' = s2, call' = call,
         ServerInv(s2, call), Touches(srv, s2, a)
  PROVE  IInv'
BY Touched DEF IInv

\* The APC has run and is reported.
LEMMA ReportApcKeeps ==
  ASSUME IInv, Runs, NEW a \in Asyncs, ReportApc(a)
  PROVE  IInv'
<1>1. PICK s2 : s2 = ApcDestroyed(srv, a)
  OBVIOUS
<1>2. /\ ServerInv(srv, call) /\ call \in [Asyncs -> CallRecords] /\ srv.apc[a].at # "none"
      /\ srv' = s2 /\ call' = call
  BY <1>1 DEF IInv, ReportApc
<1>3. ServerInv(s2, call) /\ Touches(srv, s2, a)
  BY <1>1, <1>2, ApcKeeps
<1> QED
  BY <1>2, <1>3, TouchStays

\* The timeout of an async expires.
LEMMA AsyncTimeoutKeeps ==
  ASSUME IInv, Runs, NEW a \in Asyncs, AsyncTimeout(a)
  PROVE  IInv'
<1>1. PICK s2 : s2 = srv'
  OBVIOUS
<1>2. ServerInv(srv, call) /\ call \in [Asyncs -> CallRecords] /\ call' = call
  BY DEF IInv, AsyncTimeout
<1>3. ServerInv(s2, call) /\ Touches(srv, s2, a)
  BY <1>1, <1>2, TimeoutKeeps
<1> QED
  BY <1>1, <1>2, <1>3, TouchStays

\* NtCancelIoFile
LEMMA NtCancelIoFileKeeps ==
  ASSUME IInv, Runs, NEW t, NEW f, NtCancelIoFile(t, f)
  PROVE  IInv'
<1>1. PICK s2 : s2 = CancelGroup(srv, t, f)
  OBVIOUS
<1>2. /\ ServerInv(srv, call) /\ call \in [Asyncs -> CallRecords] /\ Counts(srv)
      /\ \A a \in Asyncs : call[a].at # "made"
      /\ ~srv.faulted /\ ~srv.aborted
  BY DEF IInv, Runs
<1>3. srv' = s2 /\ call' = call /\ t \in srv.alive
  BY <1>1 DEF NtCancelIoFile
<1>4. srv.alive # {}
  BY <1>3
<1>5. ServerInv(s2, call) /\ Counts(s2) /\ Ends(s2)
  BY <1>1, <1>2, <1>4, GroupKeeps
<1> QED
  BY <1>3, <1>5, Stays

\* NtCancelIoFileEx
LEMMA NtCancelIoFileExKeeps ==
  ASSUME IInv, Runs, NEW f, NEW A, NtCancelIoFileEx(f, A)
  PROVE  IInv'
<1>1. PICK s2 : s2 = CancelFile(srv, f, A)
  OBVIOUS
<1>2. /\ ServerInv(srv, call) /\ call \in [Asyncs -> CallRecords] /\ Counts(srv)
      /\ ~srv.faulted /\ ~srv.aborted
  BY DEF IInv, Runs
<1>3. srv' = s2 /\ call' = call
  BY <1>1 DEF NtCancelIoFileEx
<1>4. ServerInv(s2, call) /\ Counts(s2) /\ Ends(s2)
  BY <1>1, <1>2, FileKeeps
<1> QED
  BY <1>3, <1>4, Stays

\* NtCancelSynchronousIoFile
LEMMA NtCancelSynchronousIoFileKeeps ==
  ASSUME IInv, Runs, NEW t, NEW A, NtCancelSynchronousIoFile(t, A)
  PROVE  IInv'
<1>1. PICK s2 : s2 = CancelBlocking(srv, t, A)
  OBVIOUS
<1>2. /\ ServerInv(srv, call) /\ call \in [Asyncs -> CallRecords] /\ Counts(srv)
      /\ Faults(srv) /\ ~srv.aborted
  BY DEF IInv, Runs, Faults
<1>3. srv' = s2 /\ call' = call
  BY <1>1 DEF NtCancelSynchronousIoFile
<1>4. ServerInv(s2, call) /\ Counts(s2) /\ Ends(s2)
  BY <1>1, <1>2, ThreadKeeps
<1> QED
  BY <1>3, <1>4, Stays

\* A field that the invariant does not speak of
LEMMA ViewStays ==
  ASSUME IInv, Runs, NEW s2 \in Server, srv' = s2, call' = call,
         s2.attr = srv.attr, s2.async = srv.async, s2.apc = srv.apc, s2.irp = srv.irp,
         s2.queue = srv.queue, s2.requests = srv.requests, s2.groups = srv.groups,
         s2.aborted = srv.aborted, s2.faulted = srv.faulted
  PROVE  IInv'
<1>1. ServerInv(srv, call) /\ Counts(srv)
  BY DEF IInv
<1>2. ServerInv(s2, call) /\ Counts(s2)
  BY <1>1, ViewKeeps
<1>3. Ends(s2)
  BY RunsOn
<1> QED
  BY <1>2, <1>3, Stays

\* The wait for a cancel group ends.
LEMMA CancelReturnsKeeps ==
  ASSUME IInv, Runs, NEW t \in Threads, CancelReturns(t)
  PROVE  IInv'
<1>1. srv \in Server /\ call' = call
  BY DEF IInv, ServerInv, CancelReturns
<1>2. CASE UNCHANGED srv
  BY <1>1, <1>2, ViewStays
<1>3. CASE srv' = [srv EXCEPT !.user_apc[t] = FALSE]
  <2>1. PICK u \in [Threads -> BOOLEAN] : u = [srv.user_apc EXCEPT ![t] = FALSE]
    BY <1>1, Fields
  <2>2. PICK s2 : s2 = [srv EXCEPT !.user_apc = u]
    OBVIOUS
  <2>3. srv' = s2
    BY <1>3, <2>1, <2>2
  <2>4. s2 \in Server
    BY <1>1, <2>2 DEF Server
  <2>5. /\ s2.attr = srv.attr /\ s2.async = srv.async /\ s2.apc = srv.apc
        /\ s2.irp = srv.irp /\ s2.queue = srv.queue /\ s2.requests = srv.requests
        /\ s2.groups = srv.groups /\ s2.aborted = srv.aborted /\ s2.faulted = srv.faulted
    BY <1>1, <2>2 DEF Server
  <2> QED
    BY <1>1, <2>3, <2>4, <2>5, ViewStays
<1> QED
  BY <1>2, <1>3 DEF CancelReturns

\* The members of a queue
LEMMA QueueMembers ==
  ASSUME NEW s, NEW C, NEW f \in Fds, ServerInv(s, C)
  PROVE  /\ s.queue[f] \in Seq(Asyncs) /\ Distinct(s.queue[f])
         /\ ToSet(s.queue[f]) \subseteq Asyncs
         /\ \A a \in ToSet(s.queue[f]) : Fd(s, a) = f /\ Queued(s, a)
<1>1. s.queue[f] \in Seq(Asyncs) /\ Lists(s)
  BY Fields DEF ServerInv
<1>2. ToSet(s.queue[f]) \subseteq Asyncs
  BY <1>1, ToSetMembers
<1> QED
  BY <1>1, <1>2 DEF Lists, Queued

\* A socket has data.
LEMMA PollInKeeps ==
  ASSUME IInv, Runs, NEW f \in Fds, PollIn(f)
  PROVE  IInv'
<1>1. ServerInv(srv, call) /\ call \in [Asyncs -> CallRecords] /\ call' = call
  BY DEF IInv, PollIn
<1>2. PICK a : a = Head(srv.queue[f])
  OBVIOUS
<1>3. srv.queue[f] \in Seq(Asyncs) /\ srv.queue[f] # <<>>
  BY <1>1, QueueMembers DEF PollIn
<1>4. a \in ToSet(srv.queue[f])
  BY <1>2, <1>3 DEF ToSet
<1>5. a \in Asyncs /\ Fd(srv, a) = f /\ Queued(srv, a)
  BY <1>1, <1>4, QueueMembers
<1>6. srv.async[a].used /\ Kind[Fd(srv, a)] = "socket"
  BY <1>1, <1>5, QueuedHas DEF PollIn
<1>7. PICK s2 : s2 = Terminate(srv, a, "alerted")
  OBVIOUS
<1>8. srv' = s2
  BY <1>2, <1>7 DEF PollIn
<1>9. ServerInv(s2, call) /\ Touches(srv, s2, a)
  BY <1>1, <1>5, <1>6, <1>7, WakeUpKeeps DEF Statuses
<1> QED
  BY <1>1, <1>5, <1>8, <1>9, TouchStays

\* What a loop over a queue does
LEMMA LoopKeeps ==
  ASSUME IInv, Runs, NEW f \in Fds, NEW loop \in {"hangup", "close"}, NEW s2,
         Kind[f] = "socket", s2 = Each(loop, srv, srv.queue[f])
  PROVE  ServerInv(s2, call) /\ Counts(s2) /\ Faults(s2) /\ s2.aborted = srv.aborted
<1>1. ServerInv(srv, call) /\ call \in [Asyncs -> CallRecords] /\ Counts(srv) /\ Faults(srv)
  BY DEF IInv, Runs, Faults
<1>2. PICK q, A : q = srv.queue[f] /\ A = ToSet(q)
  OBVIOUS
<1>3. /\ q \in Seq(Asyncs) /\ A \in SUBSET Asyncs /\ Distinct(q)
      /\ \A a \in A : Queued(srv, a) /\ Kind[Fd(srv, a)] = "socket"
  BY <1>1, <1>2, QueueMembers
<1>4. StepsCarry(loop, srv, call, A)
  BY <1>1, <1>3, HangupsCarry, ClosesCarry
<1>5. Carries(srv, s2, call, Asyncs \ ToSet(q))
  BY <1>1, <1>2, <1>3, <1>4, EachCarries
<1> QED
  BY <1>5 DEF Carries

\* A socket hangs up.
LEMMA PollHupKeeps ==
  ASSUME IInv, Runs, NEW f \in Fds, PollHup(f)
  PROVE  IInv'
<1>1. PICK s2, loop : loop = "hangup" /\ s2 = Each(loop, srv, srv.queue[f])
  OBVIOUS
<1>2. srv' = s2 /\ call' = call /\ Kind[f] = "socket"
  BY <1>1 DEF PollHup
<1>3. ServerInv(s2, call) /\ Counts(s2) /\ Faults(s2) /\ s2.aborted = srv.aborted
  BY <1>1, <1>2, LoopKeeps
<1>4. Ends(s2)
  BY <1>3 DEF Ends, Faults, Runs
<1> QED
  BY <1>2, <1>3, <1>4, Stays

\* The file of a socket is destroyed.
LEMMA CloseFileKeeps ==
  ASSUME IInv, Runs, NEW f \in Fds, CloseFile(f)
  PROVE  IInv'
<1>1. PICK s, loop : loop = "close" /\ s = Each(loop, srv, srv.queue[f])
  OBVIOUS
<1>2. srv' = [s EXCEPT !.open = @ \ {f}] /\ call' = call /\ Kind[f] = "socket"
  BY <1>1 DEF CloseFile, FreeAsyncQueue
<1>3. ServerInv(s, call) /\ Counts(s) /\ Faults(s) /\ s.aborted = srv.aborted
  BY <1>1, <1>2, LoopKeeps
<1>4. s \in Server
  BY <1>3 DEF ServerInv
<1>5. PICK s2 : s2 = [s EXCEPT !.open = @ \ {f}]
  OBVIOUS
<1>6. s2 \in Server
  BY <1>4, <1>5 DEF Server
<1>7. /\ s2.attr = s.attr /\ s2.async = s.async /\ s2.apc = s.apc
      /\ s2.irp = s.irp /\ s2.queue = s.queue /\ s2.requests = s.requests
      /\ s2.groups = s.groups /\ s2.aborted = s.aborted /\ s2.faulted = s.faulted
  BY <1>4, <1>5 DEF Server
<1>8. /\ ServerInv(s2, call) /\ Counts(s2)
      /\ \A b \in Asyncs : Same(s, s2, b)
  BY <1>3, <1>6, <1>7, ViewKeeps
<1>9. \A b \in Asyncs : b \in Orphans(s2) <=> b \in Orphans(s)
  BY <1>7, <1>8, SameLives
<1>10. Orphans(s) \subseteq Asyncs
  BY DEF Orphans, Live
<1>11. Ends(s2)
  BY <1>3, <1>7, <1>9, <1>10 DEF Ends, Faults, Runs
<1> QED
  BY <1>2, <1>5, <1>8, <1>11, Stays

\* The caller does the I/O that it was told to do.
LEMMA DirectFits ==
  ASSUME NEW k \in {"socket", "pipe", "device"}, NEW r \in AsyncRecords, NEW p \in Apcs, NEW i,
         NEW q \in BOOLEAN, NEW c, NEW d, Fits(k, r, p, i, q, c), c.at = "io",
         d.at = "report", d.status \in {"success", "pending", "error"}
  PROVE  Fits(k, r, p, i, q, d)
BY DEF Fits, Unused, Woken, Waits, Resulting, Posts, Told

\* The client's own try at the I/O keeps the agreement.
LEMMA DirectIoKeeps ==
  ASSUME IInv, Runs, NEW a \in Asyncs, DirectIo(a)
  PROVE  IInv'
<1>1. /\ ServerInv(srv, call) /\ call \in [Asyncs -> CallRecords] /\ call[a].at = "io"
      /\ srv' = srv
  BY DEF IInv, DirectIo
<1>2. PICK status \in {"success", "pending", "error"} :
        call' = [call EXCEPT ![a] = [at |-> "report", status |-> status]]
  BY DEF DirectIo
<1>3. PICK d \in CallRecords : d = [at |-> "report", status |-> status]
  BY DEF CallRecords, Statuses
<1>4. d.at = "report" /\ d.status \in {"success", "pending", "error"}
  BY <1>3
<1>5. call' = [call EXCEPT ![a] = d] /\ d.at # "made"
  BY <1>2, <1>3
<1>6. /\ call' \in [Asyncs -> CallRecords] /\ call'[a] = d
      /\ \A b \in Asyncs \ {a} : call'[b] = call[b]
      /\ \A b \in Asyncs : call'[b].at # "made"
  BY <1>5, CallMade
<1>7. /\ srv \in Server /\ Lists(srv) /\ srv.async[a] \in AsyncRecords /\ srv.apc[a] \in Apcs
      /\ Queued(srv, a) \in BOOLEAN /\ Kind[Fd(srv, a)] \in {"socket", "pipe", "device"}
      /\ Fits(Kind[Fd(srv, a)], srv.async[a], srv.apc[a], srv.irp[a].at, Queued(srv, a), call[a])
  BY <1>1, Parts
<1>8. Fits(Kind[Fd(srv, a)], srv.async[a], srv.apc[a], srv.irp[a].at, Queued(srv, a), d)
  <2>1. PICK k, r, p, i, q, c :
          /\ k = Kind[Fd(srv, a)] /\ r = srv.async[a] /\ p = srv.apc[a] /\ i = srv.irp[a].at
          /\ q = Queued(srv, a) /\ c = call[a]
    OBVIOUS
  <2>2. Fits(k, r, p, i, q, d)
    BY <1>1, <1>4, <1>7, <2>1, DirectFits
  <2> QED
    BY <2>1, <2>2
<1>9. Touches(srv, srv', a)
  BY <1>1, <1>7 DEF Touches, Same, Grouped
<1>10. AsyncInv(srv', a, call'[a])
  BY <1>1, <1>6, <1>8 DEF AsyncInv
<1>11. ServerInv(srv', call')
  <2>1. PICK s2, D : s2 = srv' /\ D = call'
    OBVIOUS
  <2>2. ServerInv(s2, D)
    BY <1>1, <1>6, <1>9, <1>10, <2>1, Kept
  <2> QED
    BY <2>1, <2>2
<1> QED
  BY <1>6, <1>9, <1>11, Touched

\* An APC runs, with the result that it is to report.
LEMMA RunFits ==
  ASSUME NEW k \in {"socket", "pipe", "device"}, NEW r \in AsyncRecords, NEW p \in Apcs,
         NEW p2 \in Apcs, NEW i, NEW q \in BOOLEAN, NEW c,
         Fits(k, r, p, i, q, c), p.at = "queued", p2.at = "ran",
         \/ p.status # "alerted" /\ p2.status = p.status
         \/ p.status = "alerted" /\ k # "socket" /\ p2.status = r.iosb
         \/ p.status = "alerted" /\ k = "socket" /\ p2.status # "alerted"
  PROVE  Fits(k, r, p2, i, q, c)
BY DEF Fits, Unused, Woken, Waits, Resulting, Posts, Told

\* The client that runs an async's system APC keeps the agreement.
LEMMA RunApcKeeps ==
  ASSUME IInv, Runs, NEW a \in Asyncs, RunApc(a)
  PROVE  IInv'
<1>1. /\ ServerInv(srv, call) /\ srv.apc[a].at = "queued" /\ call' = call
  BY DEF IInv, RunApc
<1>2. PICK status \in Statuses \ {"alerted"} :
        /\ \/ srv.apc[a].status # "alerted" /\ status = srv.apc[a].status
           \/ /\ srv.apc[a].status = "alerted" /\ Kind[Fd(srv, a)] # "socket"
              /\ status = srv.async[a].iosb
           \/ srv.apc[a].status = "alerted" /\ Kind[Fd(srv, a)] = "socket"
        /\ srv' = [srv EXCEPT !.apc[a].at = "ran", !.apc[a].status = status]
  BY DEF RunApc, Statuses
<1>3. /\ srv \in Server /\ Lists(srv) /\ srv.async[a] \in AsyncRecords /\ srv.apc[a] \in Apcs
      /\ srv.irp[a] \in Irps
      /\ Queued(srv, a) \in BOOLEAN /\ Kind[Fd(srv, a)] \in {"socket", "pipe", "device"}
      /\ Fits(Kind[Fd(srv, a)], srv.async[a], srv.apc[a], srv.irp[a].at, Queued(srv, a), call[a])
  BY <1>1, Parts
<1>4. PICK p \in Apcs, i \in Irps, r \in AsyncRecords :
        p = srv.apc[a] /\ i = srv.irp[a] /\ r = srv.async[a]
  BY <1>3
<1>5. PICK p2 : p2 = [p EXCEPT !.at = "ran", !.status = status]
  OBVIOUS
<1>6. p2 \in Apcs /\ p2.at = "ran" /\ p2.status = status
  BY <1>5 DEF Apcs
<1>7. PICK k, q, c : k = Kind[Fd(srv, a)] /\ q = Queued(srv, a) /\ c = call[a]
  OBVIOUS
<1>8. Fits(k, r, p2, i.at, q, c)
  BY <1>1, <1>2, <1>3, <1>4, <1>6, <1>7, RunFits
<1>9. PICK s2 : s2 = Edit(srv, a, r, p2, i)
  OBVIOUS
<1>10. srv' = s2
  <2>1. PICK x, y, z : x = [srv.async EXCEPT ![a] = r] /\ y = [srv.irp EXCEPT ![a] = i]
                       /\ z = [srv.apc EXCEPT ![a] = p2]
    OBVIOUS
  <2>2. x = srv.async /\ y = srv.irp
    BY <1>3, <1>4, <2>1, Fields
  <2>3. s2 = [srv EXCEPT !.async = x, !.apc = z, !.irp = y]
    BY <1>9, <2>1 DEF Edit
  <2>4. s2 = [srv EXCEPT !.apc = z]
    BY <1>3, <2>2, <2>3 DEF Server
  <2>5. PICK e : e = [srv EXCEPT !.apc[a].at = "ran"]
    OBVIOUS
  <2>6. srv' = [e EXCEPT !.apc[a].status = status]
    BY <1>2, <2>5
  <2>7. PICK p1 : p1 = [p EXCEPT !.at = "ran"]
    OBVIOUS
  <2>8. PICK z1 : z1 = [srv.apc EXCEPT ![a] = p1]
    OBVIOUS
  <2>9. e = [srv EXCEPT !.apc = z1]
    BY <1>4, <2>5, <2>7, <2>8
  <2>10. e.apc = z1 /\ z1[a] = p1
    BY <1>3, <2>8, <2>9, Fields DEF Server
  <2>11. p2 = [p1 EXCEPT !.status = status]
    BY <1>5, <2>7
  <2>12. z = [z1 EXCEPT ![a] = p2]
    BY <1>3, <2>1, <2>8, Fields
  <2>13. srv' = [e EXCEPT !.apc = z]
    BY <2>6, <2>10, <2>11, <2>12
  <2> QED
    BY <1>3, <2>4, <2>9, <2>13 DEF Server
<1>11. Touches(srv, s2, a)
  BY <1>3, <1>4, <1>6, <1>9, EditDoes
<1>12. ServerInv(s2, call)
  <2>1. Fits(Kind[Fd(srv, a)], r, p2, i.at, Queued(srv, a), call[a])
    BY <1>7, <1>8
  <2> QED
    BY <1>1, <1>4, <1>6, <1>9, <2>1, EditKeeps
<1> QED
  BY <1>1, <1>10, <1>11, <1>12, TouchStays

\* The manager of the devices takes a request.
LEMMA NextFits ==
  ASSUME NEW k \in {"socket", "pipe", "device"}, NEW r \in AsyncRecords, NEW p \in Apcs,
         NEW q \in BOOLEAN, NEW c, Fits(k, r, p, "queued", q, c)
  PROVE  Fits(k, r, p, "current", q, c)
BY DEF Fits, Unused, Woken, Waits, Resulting, Posts, Told

\* get_next_device_request keeps the agreement.
LEMMA NextDeviceRequestKeeps ==
  ASSUME IInv, Runs, NEW a \in Asyncs, NextDeviceRequest(a)
  PROVE  IInv'
<1>1. /\ ServerInv(srv, call) /\ srv.requests # <<>> /\ a = Head(srv.requests) /\ call' = call
      /\ srv' = [srv EXCEPT !.requests = Tail(@), !.irp[a].at = "current"]
  BY DEF IInv, NextDeviceRequest
<1>2. /\ srv \in Server /\ Lists(srv) /\ srv.async[a] \in AsyncRecords /\ srv.apc[a] \in Apcs
      /\ srv.irp[a] \in Irps
      /\ Queued(srv, a) \in BOOLEAN /\ Kind[Fd(srv, a)] \in {"socket", "pipe", "device"}
      /\ Fits(Kind[Fd(srv, a)], srv.async[a], srv.apc[a], srv.irp[a].at, Queued(srv, a), call[a])
  BY <1>1, Parts
<1>3. PICK w \in Seq(Asyncs) : w = srv.requests
  BY <1>2, Fields
<1>4. w # <<>> /\ a = Head(w) /\ Distinct(w) /\ \A b \in ToSet(w) : srv.irp[b].at = "queued"
  BY <1>1, <1>2, <1>3 DEF Lists
<1>5. Tail(w) \in Seq(Asyncs) /\ Distinct(Tail(w)) /\ ToSet(Tail(w)) = ToSet(w) \ {a}
  BY <1>4, TailDistinct, ToSetTail
<1>6. a \in ToSet(w)
  BY <1>4 DEF ToSet
<1>7. PICK j \in Irps : j = srv.irp[a]
  BY <1>2
<1>8. PICK i \in Irps : i = [j EXCEPT !.at = "current"] /\ i.at = "current"
  <2>1. [j EXCEPT !.at = "current"] \in Irps /\ [j EXCEPT !.at = "current"].at = "current"
    BY DEF Irps
  <2> QED
    BY <2>1
<1>9. PICK y \in [Asyncs -> Irps] : y = [srv.irp EXCEPT ![a] = i]
  BY <1>2, Fields
<1>10. PICK s2 : s2 = [srv EXCEPT !.requests = Tail(w), !.irp = y]
  OBVIOUS
<1>11. srv' = s2
  <2>1. PICK e : e = [srv EXCEPT !.requests = Tail(w)]
    OBVIOUS
  <2>2. srv' = [e EXCEPT !.irp[a].at = "current"]
    BY <1>1, <1>3, <2>1
  <2>3. e.irp = srv.irp
    BY <1>2, <2>1 DEF Server
  <2>4. srv' = [e EXCEPT !.irp = y]
    BY <1>7, <1>8, <1>9, <2>2, <2>3
  <2> QED
    BY <1>10, <2>1, <2>4
<1>12. s2 \in Server
  BY <1>2, <1>5, <1>10 DEF Server
<1>13. /\ s2.attr = srv.attr /\ s2.async = srv.async /\ s2.apc = srv.apc
       /\ s2.irp = y /\ s2.queue = srv.queue /\ s2.requests = Tail(w)
       /\ s2.groups = srv.groups /\ s2.aborted = srv.aborted /\ s2.faulted = srv.faulted
       /\ s2.alive = srv.alive
  BY <1>2, <1>10 DEF Server
<1>14. s2.irp[a] = i /\ \A b \in Asyncs \ {a} : s2.irp[b] = srv.irp[b]
  BY <1>2, <1>9, <1>13, Fields
<1>15. ToSet(w) \subseteq Asyncs
  BY ToSetMembers
<1>16. \A b \in Asyncs : Fd(s2, b) = Fd(srv, b) /\ (Queued(s2, b) <=> Queued(srv, b))
  BY <1>13 DEF Fd, Queued
<1>17. \A b \in ToSet(s2.requests) : s2.irp[b].at = "queued"
  BY <1>4, <1>5, <1>13, <1>14, <1>15
<1>18. Lists(s2)
  <2>1. ASSUME NEW f \in Fds
        PROVE  Distinct(s2.queue[f]) /\ \A b \in ToSet(s2.queue[f]) : Fd(s2, b) = f
    BY <1>2, <1>13 DEF Lists, Fd
  <2> QED
    BY <1>5, <1>13, <1>17, <2>1 DEF Lists
<1>19. Touches(srv, s2, a)
  BY <1>12, <1>13, <1>14, <1>16, <1>18 DEF Touches, Same, Grouped
<1>20. AsyncInv(s2, a, call[a])
  <2>1. PICK k, r, p, q, c :
          /\ k = Kind[Fd(srv, a)] /\ r = srv.async[a] /\ p = srv.apc[a]
          /\ q = Queued(srv, a) /\ c = call[a]
    OBVIOUS
  <2>2. Fits(k, r, p, "queued", q, c)
    BY <1>2, <1>4, <1>6, <2>1
  <2>3. Fits(k, r, p, "current", q, c)
    BY <1>2, <2>1, <2>2, NextFits
  <2>4. Queued(s2, a) = Queued(srv, a)
    BY <1>13 DEF Queued, Fd
  <2> QED
    BY <1>8, <1>13, <1>14, <1>16, <2>1, <2>3, <2>4 DEF AsyncInv
<1>21. ServerInv(s2, call)
  BY <1>1, <1>19, <1>20, Kept
<1> QED
  BY <1>1, <1>11, <1>19, <1>21, TouchStays

\* A change to one async that ends with one of its record
LEMMA ThenWith ==
  ASSUME NEW s, NEW e, NEW s2, NEW a \in Asyncs, NEW C, NEW D, NEW r \in AsyncRecords,
         ServerInv(s, C), Touches(s, e, a), r.group = e.async[a].group, s2 = With(e, a, r),
         Fits(Kind[Fd(s, a)], r, e.apc[a], e.irp[a].at, Queued(e, a), D[a]),
         \A b \in Asyncs \ {a} : D[b] = C[b]
  PROVE  ServerInv(s2, D) /\ Touches(s, s2, a)
<1>1. e \in Server /\ Lists(e) /\ e.apc[a] \in Apcs /\ e.irp[a] \in Irps /\ e.attr = s.attr
  BY Fields DEF Touches
<1>2. PICK p \in Apcs, i \in Irps : p = e.apc[a] /\ i = e.irp[a]
  BY <1>1
<1>3. s2 = Edit(e, a, r, p, i)
  BY <1>1, <1>2, WithEdit
<1>4. /\ Touches(e, s2, a) /\ s2.async[a] = r /\ s2.apc[a] = p /\ s2.irp[a] = i
      /\ Queued(s2, a) <=> Queued(e, a)
  BY <1>1, <1>2, <1>3, EditDoes
<1>5. Touches(s, s2, a)
  BY <1>4, TouchesTwice
<1>6. Queued(s2, a) = Queued(e, a) /\ Fd(s2, a) = Fd(s, a)
  BY <1>4, <1>5 DEF Queued, Touches, Fd
<1>7. AsyncInv(s2, a, D[a])
  BY <1>2, <1>4, <1>6 DEF AsyncInv
<1> QED
  BY <1>5, <1>7, Kept

\* The last words on a handle: all but handle and direct stay.
Closing(r, r2, direct, handle) ==
  /\ r2 \in AsyncRecords /\ r2.used = r.used /\ r2.terminated = r.terminated
  /\ r2.alerted = r.alerted /\ r2.canceled = r.canceled /\ r2.unknown = r.unknown
  /\ r2.direct = direct /\ r2.pending = r.pending /\ r2.signaled = r.signaled
  /\ r2.blocking = r.blocking /\ r2.timeout = r.timeout /\ r2.handle = handle
  /\ r2.skip = r.skip
  /\ r2.fd = r.fd /\ r2.iosb = r.iosb /\ r2.initial = r.initial /\ r2.group = r.group
  /\ r2.posted = r.posted /\ r2.missed = r.missed

\* A change of one field of the record
LEMMA FieldSet ==
  ASSUME NEW s \in Server, NEW a \in Asyncs, NEW h \in BOOLEAN
  PROVE  /\ [s EXCEPT !.async[a].handle = h] = With(s, a, [s.async[a] EXCEPT !.handle = h])
         /\ [s EXCEPT !.async[a].direct = h] = With(s, a, [s.async[a] EXCEPT !.direct = h])
         /\ [s EXCEPT !.async[a].pending = h] = With(s, a, [s.async[a] EXCEPT !.pending = h])
         /\ [s EXCEPT !.async[a].unknown = h] = With(s, a, [s.async[a] EXCEPT !.unknown = h])
         /\ [s EXCEPT !.async[a].signaled = h] = With(s, a, [s.async[a] EXCEPT !.signaled = h])
BY DEF With

\* What set_async_direct_result does with the report of the I/O that the caller has done, r
\* before it and r3 after,
Reported(k, r, r2, r3, p, i, q, f, c, d, dir, h) ==
  /\ k \in {"socket", "pipe", "device"} /\ r \in AsyncRecords /\ p \in Apcs /\ q \in BOOLEAN
  /\ f \in BOOLEAN /\ c \in CallRecords /\ d \in CallRecords /\ h \in BOOLEAN
  /\ Fits(k, r, p, i, q, c) /\ c.at = "report" /\ c.status # "pending" /\ ~f /\ ~h
  /\ Final(r, r2, c.status) /\ dir = r.direct /\ Closing(r2, r3, dir, h)
  /\ d.at = "returned" /\ d.status = c.status

\* (the record of one that goes on)
PendingDirect(r) == [r EXCEPT !.direct = FALSE, !.pending = TRUE]

\* or with the report that there was nothing to do
ReportedAgain(k, r, r1, r2, r3, p, i, q, c, d, h, dir) ==
  /\ k \in {"socket", "pipe", "device"} /\ r \in AsyncRecords /\ p \in Apcs /\ q \in BOOLEAN
  /\ c \in CallRecords /\ d \in CallRecords /\ h \in BOOLEAN
  /\ Fits(k, r, p, i, q, c) /\ c.at = "report" /\ r1 = PendingDirect(r)
  /\ Again(r1, r2, q, "pending") /\ dir = r2.direct /\ Closing(r2, r3, dir, h)
  /\ h = r.blocking /\ (h => d.at = "wait") /\ (~h => d.at = "returned") /\ d.status = "pending"

\* The async then fits its call.
LEMMA ReportFits ==
  ASSUME NEW k, NEW r, NEW r2, NEW r3, NEW p, NEW i, NEW q, NEW f, NEW c, NEW d, NEW dir, NEW h,
         Reported(k, r, r2, r3, p, i, q, f, c, d, dir, h)
  PROVE  Fits(k, r3, p, i, f, d)
<1>1. /\ r \in AsyncRecords /\ c \in CallRecords /\ d \in CallRecords /\ f \in BOOLEAN
      /\ Fits(k, r, p, i, q, c) /\ c.at = "report" /\ c.status # "pending" /\ ~f /\ ~h
      /\ Final(r, r2, c.status) /\ dir = r.direct /\ Closing(r2, r3, dir, h)
      /\ d.at = "returned" /\ d.status = c.status /\ k \in {"socket", "pipe", "device"}
  BY DEF Reported
<1>2. /\ r.used /\ r.unknown /\ r.terminated /\ r.alerted /\ r.direct /\ r.handle
      /\ ~r.pending /\ ~r.signaled /\ r.posted = 0 /\ r.group = 0 /\ ~r.canceled
      /\ k = "socket" /\ i = "none" /\ p.at = "none" /\ c.status \in {"success", "error"}
  BY <1>1 DEF Fits, Unused, Woken, Waits
<1>3. /\ r3.used /\ ~r3.unknown /\ r3.terminated /\ r3.alerted /\ r3.direct /\ ~r3.handle
      /\ ~r3.pending /\ r3.signaled /\ r3.group = 0 /\ ~r3.canceled /\ ~r3.timeout /\ ~r3.fd
      /\ r3.iosb = c.status /\ r3.posted = IF c.status = "error" \/ r3.skip THEN 0 ELSE 1
  BY <1>1, <1>2 DEF Final, Closing, Posts, IsError
<1> QED
  BY <1>1, <1>2, <1>3 DEF Fits, Unused, Woken, Waits, Resulting, Posts, Told, IsError

\* So does one that goes on.
LEMMA AgainReportFits ==
  ASSUME NEW k, NEW r, NEW r1, NEW r2, NEW r3, NEW p, NEW i, NEW q, NEW c, NEW d, NEW h, NEW dir,
         ReportedAgain(k, r, r1, r2, r3, p, i, q, c, d, h, dir)
  PROVE  Fits(k, r3, p, i, q, d)
<1>1. /\ r \in AsyncRecords /\ c \in CallRecords /\ d \in CallRecords /\ q \in BOOLEAN
      /\ h \in BOOLEAN /\ k \in {"socket", "pipe", "device"} /\ p \in Apcs
      /\ Fits(k, r, p, i, q, c) /\ c.at = "report" /\ r1 = PendingDirect(r)
      /\ Again(r1, r2, q, "pending") /\ dir = r2.direct /\ Closing(r2, r3, dir, h)
      /\ h = r.blocking /\ (h => d.at = "wait") /\ (~h => d.at = "returned")
      /\ d.status = "pending"
  BY DEF ReportedAgain
<1>2. /\ r.used /\ r.unknown /\ r.terminated /\ r.alerted /\ r.direct /\ r.handle
      /\ ~r.pending /\ ~r.signaled /\ r.posted = 0 /\ r.group = 0 /\ ~r.canceled
      /\ k = "socket" /\ i = "none" /\ p.at = "none" /\ (~r.fd => ~q)
  BY <1>1 DEF Fits, Unused, Woken, Waits
<1>3. /\ r1.used /\ r1.unknown /\ ~r1.direct /\ r1.pending /\ ~r1.signaled /\ r1.posted = 0
      /\ r1.group = 0 /\ ~r1.canceled /\ r1.fd = r.fd /\ r1.blocking = r.blocking
      /\ r1.skip = r.skip
  BY <1>1, <1>2 DEF AsyncRecords, PendingDirect
<1>4. /\ r3.used /\ ~r3.unknown /\ ~r3.terminated /\ ~r3.alerted /\ ~r3.direct /\ r3.handle = h
      /\ r3.pending /\ ~r3.signaled /\ r3.group = 0 /\ ~r3.canceled /\ r3.fd = r.fd
      /\ r3.posted = 0 /\ r3.initial = "pending" /\ r3.blocking = r.blocking
      /\ r3.skip = r.skip
      /\ ~q => r3.missed
  BY <1>1, <1>3, ZenonT(30) DEF Again, Closing
<1> QED
  BY <1>1, <1>2, <1>4 DEF Fits, Unused, Woken, Waits, Resulting, Posts, Told, IsError

\* The caller has waited for a result that it gets now,
LEMMA WaitDirectFits ==
  ASSUME NEW k \in {"socket", "pipe", "device"}, NEW r \in AsyncRecords, NEW r2, NEW r3,
         NEW p \in Apcs, NEW i, NEW q \in BOOLEAN, NEW f \in BOOLEAN, NEW h \in BOOLEAN,
         NEW c \in CallRecords, NEW d \in CallRecords,
         Fits(k, r, p, i, q, c), c.at = "wait", r.direct, ~f, ~h,
         Final(r, r2, r.iosb), Closing(r2, r3, h, h), d.at = "returned",
         d.status = IF r3.initial = "pending" /\ r3.blocking THEN r3.iosb ELSE r3.initial
  PROVE  Fits(k, r3, p, i, f, d)
<1>1. /\ r.used /\ r.terminated /\ ~r.alerted /\ ~r.unknown /\ r.initial = r.iosb
      /\ ~IsError(r.iosb) /\ r.posted = 0 /\ r.group = 0 /\ ~r.pending /\ k # "device"
      /\ i = "none" /\ p.at = "none" /\ r.iosb # "pending"
  BY DEF Fits, Unused, Woken, Waits, Resulting, Posts, Told
<1>2. /\ r3.used /\ ~r3.unknown /\ r3.terminated /\ ~r3.alerted /\ ~r3.direct /\ ~r3.handle
      /\ ~r3.pending /\ r3.signaled /\ r3.group = 0 /\ ~r3.timeout /\ ~r3.fd
      /\ r3.iosb = r.iosb /\ r3.initial = r.iosb /\ r3.posted = IF r3.skip THEN 0 ELSE 1
  BY <1>1 DEF Final, Closing, Posts
<1>3. d.status = r.iosb
  BY <1>2
<1> QED
  BY <1>1, <1>2, <1>3 DEF Fits, Unused, Woken, Waits, Resulting, Posts, Told

\* or that it has had already.
LEMMA WaitFits ==
  ASSUME NEW k \in {"socket", "pipe", "device"}, NEW r \in AsyncRecords, NEW r3,
         NEW p \in Apcs, NEW i, NEW q \in BOOLEAN, NEW h \in BOOLEAN,
         NEW c \in CallRecords, NEW d \in CallRecords,
         Fits(k, r, p, i, q, c), c.at = "wait", r.signaled, ~r.direct, ~h,
         Closing(r, r3, h, h), d.at = "returned",
         d.status = IF r3.initial = "pending" /\ r3.blocking THEN r3.iosb ELSE r3.initial
  PROVE  Fits(k, r3, p, i, q, d)
<1>1. /\ Unused(r3, p, i, q, d) /\ Woken(k, r3, p, d) /\ Waits(k, r3, i, q, d)
      /\ Resulting(k, r3, p, d)
  BY DEF Closing, Fits, Unused, Woken, Waits, Resulting, Posts
<1>2. /\ r.used /\ k = "device" =>
           /\ ~r.unknown /\ r.pending => r.initial = "pending"
           /\ ~r.unknown /\ ~r.pending =>
                /\ r.initial # "pending"
                /\ r.terminated => (IsError(r.initial) <=> IsError(r.iosb))
      /\ \/ r.terminated /\ p.at = "none"
         \/ k = "device" /\ ~r.blocking /\ r.pending
      /\ k = "device" => ~r.unknown
      /\ r.used /\ (k # "device" => r.blocking /\ r.initial = "pending")
  BY DEF Fits, Told
<1>3. /\ r.terminated => r.iosb # "pending"
      /\ r.terminated /\ p.at = "none" =>
           r.posted = IF Posts(r, r.iosb) THEN 1 ELSE 0
  BY <1>2 DEF Fits, Resulting, Posts
<1>4. d.status = IF r.initial = "pending" /\ r.blocking THEN r.iosb ELSE r.initial
  BY DEF Closing
<1>5. CASE r.terminated /\ p.at = "none"
  <2>1. d.status = "success" => r.posted = IF r.skip /\ ~r.pending THEN 0 ELSE 1
    BY <1>2, <1>3, <1>4, <1>5 DEF Posts, IsError
  <2>2. IsError(d.status) => r.blocking \/ r.posted = 0
    BY <1>2, <1>3, <1>4, <1>5 DEF Posts, IsError
  <2>3. d.status = "pending" => r.pending
    BY <1>2, <1>3, <1>4, <1>5
  <2>4. Told(k, r3, p, d)
    BY <1>2, <1>5, <2>1, <2>2, <2>3 DEF Told, Closing, Fits
  <2> QED
    BY <1>1, <2>4 DEF Fits
<1>6. CASE k = "device" /\ ~r.blocking /\ r.pending
  <2>1. d.status = "pending"
    BY <1>2, <1>4, <1>6
  <2>2. Told(k, r3, p, d)
    BY <1>2, <1>6, <2>1 DEF Told, Closing, Fits, IsError
  <2> QED
    BY <1>1, <2>2 DEF Fits
<1> QED
  BY <1>2, <1>5, <1>6

\* A change of the handle, and of direct with it
LEMMA ClosingFields ==
  ASSUME NEW r \in AsyncRecords, NEW h \in BOOLEAN
  PROVE  /\ [r EXCEPT !.handle = h] \in AsyncRecords
         /\ Closing(r, [r EXCEPT !.handle = h], r.direct, h)
         /\ [r EXCEPT !.direct = h, !.handle = h] \in AsyncRecords
         /\ Closing(r, [r EXCEPT !.direct = h, !.handle = h], h, h)
<1>1. /\ [r EXCEPT !.handle = h] \in AsyncRecords
      /\ [r EXCEPT !.direct = h, !.handle = h] \in AsyncRecords
  BY DEF AsyncRecords
<1>2. Closing(r, [r EXCEPT !.handle = h], r.direct, h)
  BY <1>1 DEF Closing, AsyncRecords
<1>3. Closing(r, [r EXCEPT !.direct = h, !.handle = h], h, h)
  BY <1>1 DEF Closing, AsyncRecords
<1> QED
  BY <1>1, <1>2, <1>3

\* The caller reports the result of the I/O,
LEMMA DirectResult ==
  ASSUME IInv, Runs, NEW a \in Asyncs, SetAsyncDirectResult(a), call[a].status # "pending"
  PROVE  IInv'
<1>1. ServerInv(srv, call) /\ call \in [Asyncs -> CallRecords] /\ call[a].at = "report"
  BY DEF IInv, SetAsyncDirectResult
<1>2. /\ srv \in Server /\ Lists(srv) /\ srv.async[a] \in AsyncRecords /\ srv.apc[a] \in Apcs
      /\ Queued(srv, a) \in BOOLEAN /\ Kind[Fd(srv, a)] \in {"socket", "pipe", "device"}
      /\ Fits(Kind[Fd(srv, a)], srv.async[a], srv.apc[a], srv.irp[a].at, Queued(srv, a), call[a])
      /\ InRange(srv)
  BY <1>1, Parts
<1>3. PICK c \in CallRecords, status \in Statuses : c = call[a] /\ status = c.status
  BY <1>1 DEF CallRecords
<1>4. PICK h \in BOOLEAN : h = FALSE
  OBVIOUS
<1>5. PICK e : e = SetResult(srv, a, status)
  OBVIOUS
<1>6. PICK s2 : s2 = [e EXCEPT !.async[a].handle = h]
  OBVIOUS
<1>7. status # "pending"
  BY <1>3
<1>8. (status = "pending" /\ srv.async[a].blocking) = h
  BY <1>4, <1>7
<1>9. srv' = s2 /\ call' = [call EXCEPT ![a].at = IF s2.async[a].handle THEN "wait" ELSE "returned"]
  BY <1>3, <1>5, <1>6, <1>7, <1>8 DEF SetAsyncDirectResult
<1>10. srv.async[a].group \in 0..Len(srv.groups)
  BY <1>2 DEF InRange
<1>11. /\ Touches(srv, e, a) /\ Final(srv.async[a], e.async[a], status)
       /\ e.apc[a] = srv.apc[a] /\ e.irp[a] = srv.irp[a] /\ ~Queued(e, a)
  BY <1>2, <1>5, <1>7, <1>10, SetResultFinal
<1>12. PICK r2 \in AsyncRecords : r2 = e.async[a]
  BY <1>11, Fields DEF Touches
<1>13. PICK r3 : r3 = [r2 EXCEPT !.handle = h]
  OBVIOUS
<1>14. r3 \in AsyncRecords /\ Closing(r2, r3, r2.direct, h)
  BY <1>13, ClosingFields
<1>15. e \in Server
  BY <1>11 DEF Touches
<1>16. s2 = With(e, a, r3)
  BY <1>6, <1>12, <1>13 DEF With
<1>17. s2.async[a] = r3
  BY <1>14, <1>15, <1>16, WithFields
<1>18. PICK d \in CallRecords :
         d = [c EXCEPT !.at = "returned"] /\ d.at = "returned" /\ d.status = status
  <2>1. /\ [c EXCEPT !.at = "returned"] \in CallRecords
        /\ [c EXCEPT !.at = "returned"].at = "returned"
        /\ [c EXCEPT !.at = "returned"].status = c.status
    BY DEF CallRecords
  <2> QED
    BY <1>3, <2>1
<1>19. call' = [call EXCEPT ![a] = d]
  BY <1>3, <1>4, <1>9, <1>14, <1>17, <1>18 DEF Closing
<1>20. /\ call' \in [Asyncs -> CallRecords] /\ call'[a] = d
       /\ \A b \in Asyncs \ {a} : call'[b] = call[b]
       /\ \A b \in Asyncs : call'[b].at # "made"
  BY <1>18, <1>19, CallMade
<1>21. PICK k, r, p, i, q, dir :
         /\ k = Kind[Fd(srv, a)] /\ r = srv.async[a] /\ p = srv.apc[a] /\ i = srv.irp[a].at
         /\ q = Queued(srv, a) /\ dir = r.direct
  OBVIOUS
<1>22. PICK f \in BOOLEAN : f = Queued(e, a) /\ ~f
  <2>1. Queued(e, a) \in BOOLEAN
    BY DEF Queued
  <2> QED
    BY <1>11, <2>1
<1>23. Closing(r2, r3, dir, h)
  BY <1>11, <1>12, <1>14, <1>21 DEF Final
<1>24. Fits(k, r3, p, i, f, d)
  <2>1. /\ Fits(k, r, p, i, q, c) /\ c.at = "report" /\ c.status # "pending" /\ ~h
        /\ Final(r, r2, c.status)
    BY <1>1, <1>2, <1>3, <1>4, <1>7, <1>11, <1>12, <1>21
  <2>2. k \in {"socket", "pipe", "device"} /\ r \in AsyncRecords /\ p \in Apcs /\ q \in BOOLEAN
    BY <1>2, <1>21
  <2>3. d.at = "returned" /\ d.status = c.status /\ dir = r.direct /\ ~f
    BY <1>3, <1>18, <1>21, <1>22
  <2>4. c \in CallRecords /\ d \in CallRecords /\ h \in BOOLEAN /\ f \in BOOLEAN
    BY <1>3, <1>4, <1>18, <1>22
  <2>5. Reported(k, r, r2, r3, p, i, q, f, c, d, dir, h)
    BY <1>23, <2>1, <2>2, <2>3, <2>4 DEF Reported
  <2> QED
    BY <2>5, ReportFits
<1>25. PICK D : D = call'
  OBVIOUS
<1>26. ServerInv(s2, D) /\ Touches(srv, s2, a)
  <2>1. Fits(Kind[Fd(srv, a)], r3, e.apc[a], e.irp[a].at, Queued(e, a), D[a])
    BY <1>11, <1>20, <1>21, <1>22, <1>24, <1>25
  <2>2. r3.group = e.async[a].group
    BY <1>12, <1>14 DEF Closing
  <2>3. \A b \in Asyncs \ {a} : D[b] = call[b]
    BY <1>20, <1>25
  <2> QED
    BY <1>1, <1>11, <1>14, <1>16, <2>1, <2>2, <2>3, ThenWith
<1> QED
  BY <1>9, <1>20, <1>25, <1>26, Touched

\* or that there was nothing to do.
LEMMA DirectAgain ==
  ASSUME IInv, Runs, NEW a \in Asyncs, SetAsyncDirectResult(a), call[a].status = "pending"
  PROVE  IInv'
<1>1. ServerInv(srv, call) /\ call \in [Asyncs -> CallRecords] /\ call[a].at = "report"
  BY DEF IInv, SetAsyncDirectResult
<1>2. /\ srv \in Server /\ Lists(srv) /\ srv.async[a] \in AsyncRecords /\ srv.apc[a] \in Apcs
      /\ Queued(srv, a) \in BOOLEAN /\ Kind[Fd(srv, a)] \in {"socket", "pipe", "device"}
      /\ Fits(Kind[Fd(srv, a)], srv.async[a], srv.apc[a], srv.irp[a].at, Queued(srv, a), call[a])
      /\ InRange(srv) /\ srv.irp[a] \in Irps
  BY <1>1, Parts
<1>3. PICK c \in CallRecords : c = call[a] /\ c.status = "pending" /\ c.at = "report"
  BY <1>1
<1>4. PICK r \in AsyncRecords, q \in BOOLEAN, p \in Apcs :
        r = srv.async[a] /\ q = Queued(srv, a) /\ p = srv.apc[a]
  BY <1>2
<1>5. PICK h \in BOOLEAN : h = r.blocking
  BY DEF AsyncRecords
<1>6. PICK r1 : r1 = PendingDirect(r)
  OBVIOUS
<1>7. r1 \in AsyncRecords /\ r1.group = r.group /\ r1.alerted = r.alerted
  BY <1>6 DEF AsyncRecords, PendingDirect
<1>8. PICK s1 : s1 = [srv EXCEPT !.async[a].direct = FALSE, !.async[a].pending = TRUE]
  OBVIOUS
<1>9. s1 = With(srv, a, r1)
  <2>1. PICK x, y : x \in BOOLEAN /\ y \in BOOLEAN /\ x = FALSE /\ y = TRUE
    OBVIOUS
  <2>2. PICK u : u = [srv EXCEPT !.async[a].direct = x]
    OBVIOUS
  <2>3. s1 = [u EXCEPT !.async[a].pending = y]
    BY <1>8, <2>1, <2>2
  <2>4. PICK r0 \in AsyncRecords : r0 = [r EXCEPT !.direct = x]
    BY <2>1 DEF AsyncRecords
  <2>5. u = With(srv, a, r0)
    BY <1>2, <1>4, <2>1, <2>2, <2>4, FieldSet
  <2>6. u \in Server /\ u.async[a] = r0
    BY <1>2, <2>4, <2>5, WithFields
  <2>7. r1 = [r0 EXCEPT !.pending = y]
    BY <1>6, <2>1, <2>4 DEF PendingDirect
  <2>8. s1 = With(u, a, r1)
    BY <2>1, <2>3, <2>6, <2>7, FieldSet
  <2> QED
    BY <1>2, <1>7, <2>4, <2>5, <2>8, WithFields
<1>10. PICK i \in Irps : i = srv.irp[a]
  BY <1>2
<1>11. /\ Touches(srv, s1, a) /\ s1.async[a] = r1 /\ s1.apc[a] = p /\ s1.irp[a] = i
       /\ (Queued(s1, a) <=> Queued(srv, a))
  <2>1. s1 = Edit(srv, a, r1, p, i)
    BY <1>2, <1>4, <1>9, <1>10, WithEdit
  <2> QED
    BY <1>2, <1>4, <1>7, <1>10, <2>1, EditDoes
<1>12. PICK e : e = SetResult(s1, a, "pending")
  OBVIOUS
<1>13. PICK s2 : s2 = [e EXCEPT !.async[a].handle = h]
  OBVIOUS
<1>14. (call[a].status = "pending" /\ srv.async[a].blocking) = h
  BY <1>3, <1>4, <1>5
<1>15. /\ srv' = s2
       /\ call' = [call EXCEPT ![a].at = IF s2.async[a].handle THEN "wait" ELSE "returned"]
  <2>1. PICK b : b = (call[a].status = "pending" /\ srv.async[a].blocking)
    OBVIOUS
  <2>2. srv' = [SetResult(s1, a, call[a].status) EXCEPT !.async[a].handle = b]
    BY <1>8, <2>1 DEF SetAsyncDirectResult
  <2>3. srv' = s2
    BY <1>12, <1>13, <1>14, <2>1, <2>2
  <2>4. call' = [call EXCEPT ![a].at = IF srv'.async[a].handle THEN "wait" ELSE "returned"]
    BY DEF SetAsyncDirectResult
  <2> QED
    BY <2>3, <2>4
<1>16. r.alerted
  BY <1>2, <1>3, <1>4 DEF Fits, Woken
<1>17. /\ Touches(s1, e, a) /\ Again(s1.async[a], e.async[a], Queued(s1, a), "pending")
       /\ e.apc[a] = s1.apc[a] /\ e.irp[a] = s1.irp[a] /\ (Queued(e, a) <=> Queued(s1, a))
  <2>1. s1 \in Server /\ Lists(s1) /\ s1.async[a].alerted
    BY <1>7, <1>11, <1>16 DEF Touches
  <2> QED
    BY <1>12, <2>1, SetResultAgain
<1>18. PICK r2 \in AsyncRecords : r2 = e.async[a]
  BY <1>17, Fields DEF Touches
<1>19. PICK r3 : r3 = [r2 EXCEPT !.handle = h]
  OBVIOUS
<1>20. r3 \in AsyncRecords /\ Closing(r2, r3, r2.direct, h)
  BY <1>19, ClosingFields
<1>21. e \in Server /\ Touches(srv, e, a)
  BY <1>11, <1>17, TouchesTwice DEF Touches
<1>22. s2 = With(e, a, r3)
  BY <1>13, <1>18, <1>19 DEF With
<1>23. s2.async[a] = r3
  BY <1>20, <1>21, <1>22, WithFields
<1>24. PICK x : x = IF h THEN "wait" ELSE "returned"
  OBVIOUS
<1>25. PICK d \in CallRecords : d = [c EXCEPT !.at = x] /\ d.at = x /\ d.status = "pending"
  <2>1. /\ [c EXCEPT !.at = x] \in CallRecords /\ [c EXCEPT !.at = x].at = x
        /\ [c EXCEPT !.at = x].status = c.status
    BY <1>24 DEF CallRecords
  <2> QED
    BY <1>3, <2>1
<1>26. call' = [call EXCEPT ![a] = d]
  BY <1>3, <1>15, <1>20, <1>23, <1>24, <1>25 DEF Closing
<1>27. /\ call' \in [Asyncs -> CallRecords] /\ call'[a] = d
       /\ \A b \in Asyncs \ {a} : call'[b] = call[b]
       /\ \A b \in Asyncs : call'[b].at # "made"
  <2>1. d.at # "made"
    BY <1>24, <1>25
  <2> QED
    BY <1>26, <2>1, CallMade
<1>28. Again(r1, r2, q, "pending")
  <2>1. Queued(s1, a) = q
    BY <1>4, <1>11 DEF Queued
  <2> QED
    BY <1>11, <1>17, <1>18, <2>1
<1>29. PICK k, dir, j : k = Kind[Fd(srv, a)] /\ dir = r2.direct /\ j = srv.irp[a].at
  OBVIOUS
<1>30. Fits(k, r3, p, j, q, d)
  <2>1. Fits(k, r, p, j, q, c) /\ k \in {"socket", "pipe", "device"}
    BY <1>2, <1>3, <1>4, <1>29
  <2>2. Closing(r2, r3, dir, h)
    BY <1>20, <1>29
  <2>3. (h => d.at = "wait") /\ (~h => d.at = "returned") /\ d.status = "pending"
    BY <1>24, <1>25
  <2>4. ReportedAgain(k, r, r1, r2, r3, p, j, q, c, d, h, dir)
    BY <1>3, <1>5, <1>6, <1>28, <1>29, <2>1, <2>2, <2>3 DEF ReportedAgain
  <2> QED
    BY <2>4, AgainReportFits
<1>31. PICK D : D = call'
  OBVIOUS
<1>32. ServerInv(s2, D) /\ Touches(srv, s2, a)
  <2>1. Fits(Kind[Fd(srv, a)], r3, e.apc[a], e.irp[a].at, Queued(e, a), D[a])
    <3>1. Queued(e, a) = q
      BY <1>4, <1>11, <1>17 DEF Queued
    <3> QED
      BY <1>10, <1>11, <1>17, <1>27, <1>29, <1>30, <1>31, <3>1
  <2>2. r3.group = e.async[a].group
    BY <1>18, <1>20 DEF Closing
  <2>3. \A b \in Asyncs \ {a} : D[b] = call[b]
    BY <1>27, <1>31
  <2> QED
    BY <1>1, <1>20, <1>21, <1>22, <2>1, <2>2, <2>3, ThenWith
<1> QED
  BY <1>15, <1>27, <1>31, <1>32, Touched

\* The caller reports what it has done.
LEMMA SetAsyncDirectResultKeeps ==
  ASSUME IInv, Runs, NEW a \in Asyncs, SetAsyncDirectResult(a)
  PROVE  IInv'
BY DirectResult, DirectAgain

\* The handle is closed.
Closed(e, a) == [e EXCEPT !.async[a].direct = FALSE, !.async[a].handle = FALSE]

IsClosed(e, s2, a, r, h) ==
  \E r3 \in AsyncRecords : s2 = With(e, a, r3) /\ Closing(r, r3, h, h) /\ s2.async[a] = r3

\* What the end of the wait makes of the record, with the state e before it
LEMMA SatisfiedIs ==
  ASSUME NEW e \in Server, NEW a \in Asyncs, NEW r \in AsyncRecords, r = e.async[a], NEW s2,
         NEW h \in BOOLEAN, ~h, s2 = Closed(e, a)
  PROVE  IsClosed(e, s2, a, r, h)
<1>1. PICK u : u = [e EXCEPT !.async[a].direct = h]
  OBVIOUS
<1>2. s2 = [u EXCEPT !.async[a].handle = h]
  BY <1>1 DEF Closed
<1>3. PICK r2 : r2 = [r EXCEPT !.direct = h]
  OBVIOUS
<1>4. r2 \in AsyncRecords
  BY <1>3 DEF AsyncRecords
<1>5. u = With(e, a, r2)
  BY <1>1, <1>3 DEF With
<1>6. u.async[a] = r2
  BY <1>4, <1>5, WithFields
<1>7. PICK r3 : r3 = [r EXCEPT !.direct = h, !.handle = h]
  OBVIOUS
<1>8. r3 \in AsyncRecords /\ Closing(r, r3, h, h)
  BY <1>7, ClosingFields
<1>9. r3 = [r2 EXCEPT !.handle = h]
  BY <1>3, <1>7
<1>10. s2 = With(u, a, r3)
  BY <1>2, <1>6, <1>9 DEF With
<1>11. s2 = With(e, a, r3)
  BY <1>4, <1>5, <1>8, <1>10, WithFields
<1>12. With(e, a, r3).async[a] = r3
  BY <1>8, WithFields
<1> QED
  BY <1>8, <1>11, <1>12 DEF IsClosed

\* The wait for the handle of an async ends.
LEMMA WaitReturnsKeeps ==
  ASSUME IInv, Runs, NEW a \in Asyncs, WaitReturns(a)
  PROVE  IInv'
<1>1. /\ ServerInv(srv, call) /\ call \in [Asyncs -> CallRecords] /\ call[a].at = "wait"
      /\ srv.async[a].signaled
  BY DEF IInv, WaitReturns
<1>2. /\ srv \in Server /\ Lists(srv) /\ srv.async[a] \in AsyncRecords /\ srv.apc[a] \in Apcs
      /\ Queued(srv, a) \in BOOLEAN /\ Kind[Fd(srv, a)] \in {"socket", "pipe", "device"}
      /\ Fits(Kind[Fd(srv, a)], srv.async[a], srv.apc[a], srv.irp[a].at, Queued(srv, a), call[a])
      /\ InRange(srv)
  BY <1>1, Parts
<1>3. PICK e, s2 :
        /\ e = (IF srv.async[a].direct THEN SetResult(srv, a, srv.async[a].iosb) ELSE srv)
        /\ s2 = Closed(e, a)
  OBVIOUS
<1>4. /\ srv' = s2
      /\ call' = [call EXCEPT ![a] = [at |-> "returned", status |-> WaitStatus(srv', a)]]
  BY <1>3 DEF WaitReturns, Satisfied, Closed
<1>5. PICK h \in BOOLEAN : h = FALSE
  OBVIOUS
<1>6. PICK k \in {"socket", "pipe", "device"}, r \in AsyncRecords, p \in Apcs, q \in BOOLEAN,
           c \in CallRecords :
        /\ k = Kind[Fd(srv, a)] /\ r = srv.async[a] /\ p = srv.apc[a] /\ q = Queued(srv, a)
        /\ c = call[a]
  BY <1>1, <1>2
<1>7. PICK i : i = srv.irp[a].at
  OBVIOUS
<1>8. Fits(k, r, p, i, q, c) /\ c.at = "wait" /\ r.signaled
  BY <1>1, <1>2, <1>6, <1>7
<1>9. r.iosb \in Statuses
  BY DEF AsyncRecords
<1>10. PICK f \in BOOLEAN :
         /\ Touches(srv, e, a) /\ e.apc[a] = srv.apc[a] /\ e.irp[a] = srv.irp[a]
         /\ f = Queued(e, a)
         /\ \/ r.direct /\ ~f /\ Final(r, e.async[a], r.iosb)
            \/ ~r.direct /\ f = q /\ e.async[a] = r
  <2>1. CASE r.direct
    <3>1. e = SetResult(srv, a, r.iosb)
      BY <1>3, <1>6, <2>1
    <3>2. srv.async[a].group \in 0..Len(srv.groups)
      BY <1>2 DEF InRange
    <3>3. ~(r.alerted /\ r.iosb = "pending")
      BY <1>8, <2>1 DEF Fits, Told
    <3>4. /\ Touches(srv, e, a) /\ Final(srv.async[a], e.async[a], r.iosb)
          /\ e.apc[a] = srv.apc[a] /\ e.irp[a] = srv.irp[a] /\ ~Queued(e, a)
      BY <1>2, <1>6, <1>9, <3>1, <3>2, <3>3, SetResultFinal
    <3>5. Queued(e, a) \in BOOLEAN
      BY DEF Queued
    <3> QED
      BY <1>6, <2>1, <3>4, <3>5
  <2>2. CASE ~r.direct
    <3>1. e = srv
      BY <1>3, <1>6, <2>2
    <3>2. Touches(srv, e, a)
      BY <1>2, <3>1 DEF Touches, Same, Grouped
    <3> QED
      BY <1>6, <2>2, <3>1, <3>2
  <2> QED
    BY <2>1, <2>2
<1>11. e \in Server /\ e.async[a] \in AsyncRecords
  BY <1>10, Fields DEF Touches
<1>12. PICK r2 \in AsyncRecords : r2 = e.async[a]
  BY <1>11
<1>13. PICK r3 \in AsyncRecords :
         s2 = With(e, a, r3) /\ Closing(r2, r3, h, h) /\ s2.async[a] = r3
  <2>1. s2 = Closed(e, a)
    BY <1>3
  <2>2. IsClosed(e, s2, a, r2, h)
    BY <1>5, <1>11, <1>12, <2>1, SatisfiedIs
  <2> QED
    BY <2>2 DEF IsClosed
<1>14. PICK status \in Statuses :
         status = IF r3.initial = "pending" /\ r3.blocking THEN r3.iosb ELSE r3.initial
  BY DEF AsyncRecords
<1>15. PICK d \in CallRecords : d = [at |-> "returned", status |-> status]
  BY DEF CallRecords
<1>16. d.at = "returned" /\ d.status = status
  BY <1>15
<1>17. WaitStatus(srv', a) = status
  BY <1>4, <1>13, <1>14 DEF WaitStatus
<1>18. call' = [call EXCEPT ![a] = d] /\ d.at # "made"
  BY <1>4, <1>15, <1>17
<1>19. /\ call' \in [Asyncs -> CallRecords] /\ call'[a] = d
       /\ \A b \in Asyncs \ {a} : call'[b] = call[b]
       /\ \A b \in Asyncs : call'[b].at # "made"
  BY <1>18, CallMade
<1>20. Fits(k, r3, p, i, f, d)
  <2>1. d.status = IF r3.initial = "pending" /\ r3.blocking THEN r3.iosb ELSE r3.initial
    BY <1>14, <1>16
  <2>2. CASE r.direct
    <3>1. ~f /\ Final(r, r2, r.iosb) /\ ~h
      BY <1>5, <1>10, <1>12, <2>2
    <3> QED
      BY <1>8, <1>13, <1>16, <2>1, <2>2, <3>1, WaitDirectFits
  <2>3. CASE ~r.direct
    <3>1. f = q /\ Closing(r, r3, h, h) /\ ~h
      BY <1>5, <1>10, <1>12, <1>13, <2>3
    <3>2. Fits(k, r3, p, i, q, d)
      BY <1>8, <1>16, <2>1, <2>3, <3>1, WaitFits
    <3> QED
      BY <3>1, <3>2
  <2> QED
    BY <2>2, <2>3
<1>21. PICK D : D = call'
  OBVIOUS
<1>22. ServerInv(s2, D) /\ Touches(srv, s2, a)
  <2>1. Fits(Kind[Fd(srv, a)], r3, e.apc[a], e.irp[a].at, Queued(e, a), D[a])
    BY <1>6, <1>7, <1>10, <1>19, <1>20, <1>21
  <2>2. r3.group = e.async[a].group
    BY <1>12, <1>13 DEF Closing
  <2>3. \A b \in Asyncs \ {a} : D[b] = call[b]
    BY <1>19, <1>21
  <2>4. Touches(srv, e, a) /\ s2 = With(e, a, r3)
    BY <1>10, <1>13
  <2> QED
    BY <1>1, <2>1, <2>2, <2>3, <2>4, ThenWith
<1> QED
  BY <1>4, <1>19, <1>21, <1>22, Touched

\* A change of the IRP after one of the record, and the other way round
LEMMA IrpSet ==
  ASSUME NEW s \in Server, NEW a \in Asyncs, NEW r \in AsyncRecords, NEW x, NEW i,
         i = [s.irp[a] EXCEPT !.at = x]
  PROVE  [With(s, a, r) EXCEPT !.irp[a].at = x] = Edit(s, a, r, s.apc[a], i)
<1>1. PICK z : z = [s.async EXCEPT ![a] = r]
  OBVIOUS
<1>2. PICK e : e = [s EXCEPT !.async = z]
  OBVIOUS
<1>3. e = With(s, a, r)
  BY <1>1, <1>2 DEF With
<1>4. e.irp = s.irp
  BY <1>2 DEF Server
<1>5. PICK y : y = [s.irp EXCEPT ![a] = i]
  OBVIOUS
<1>6. [e EXCEPT !.irp[a].at = x] = [e EXCEPT !.irp = y]
  BY <1>4, <1>5
<1>7. [s.apc EXCEPT ![a] = s.apc[a]] = s.apc
  BY Fields
<1>8. Edit(s, a, r, s.apc[a], i) = [s EXCEPT !.async = z, !.apc = s.apc, !.irp = y]
  BY <1>1, <1>5, <1>7 DEF Edit
<1>9. [e EXCEPT !.irp = y] = [s EXCEPT !.async = z, !.apc = s.apc, !.irp = y]
  BY <1>2 DEF Server
<1> QED
  BY <1>3, <1>6, <1>8, <1>9

\* A change of the record
LEMMA WithDoes ==
  ASSUME NEW s \in Server, NEW s2, NEW a \in Asyncs, NEW r \in AsyncRecords, Lists(s),
         r.group = s.async[a].group, s2 = With(s, a, r)
  PROVE  /\ Touches(s, s2, a) /\ s2.async[a] = r /\ s2.apc[a] = s.apc[a]
         /\ s2.irp[a] = s.irp[a] /\ (Queued(s2, a) <=> Queued(s, a))
<1>1. PICK p \in Apcs, i \in Irps : p = s.apc[a] /\ i = s.irp[a]
  BY Fields
<1>2. s2 = Edit(s, a, r, p, i)
  BY <1>1, WithEdit
<1> QED
  BY <1>1, <1>2, EditDoes

\* The record with a result
Answered(r, status) == [r EXCEPT !.iosb = status]

\* What the driver's answer leads to
LEMMA IrpEnds ==
  ASSUME IInv, Runs, NEW a \in Asyncs, NEW r \in AsyncRecords, NEW r2, NEW p \in Apcs,
         NEW i \in Irps, NEW status \in {"success", "error", "cancelled"}, NEW s1, NEW s2,
         p = srv.apc[a], s1 = Edit(srv, a, r, p, i), s2 = RequestComplete(s1, a, status),
         srv.irp[a].at \in {"current", "held"}, i.at = "none", r.iosb = "pending",
         r.fd = srv.async[a].fd, r.used, r.group = srv.async[a].group,
         r2 = Answered(r, status), CanEnd(Kind[Fd(srv, a)], r2, p, call[a], status)
  PROVE  ServerInv(s2, call) /\ Touches(srv, s2, a)
<1>1. ServerInv(srv, call) /\ call \in [Asyncs -> CallRecords]
  BY DEF IInv
<1>2. /\ srv \in Server /\ Lists(srv)
      /\ Fits(Kind[Fd(srv, a)], srv.async[a], srv.apc[a], srv.irp[a].at, Queued(srv, a), call[a])
  BY <1>1, Parts
<1>3. a \notin ToSet(srv.requests)
  BY <1>2 DEF Lists
<1>4. /\ Touches(srv, s1, a) /\ s1.async[a] = r /\ s1.apc[a] = p /\ s1.irp[a] = i
      /\ (Queued(s1, a) <=> Queued(srv, a))
  BY <1>2, <1>3, EditDoes
<1>5. r2 \in AsyncRecords /\ r2.group = r.group /\ r2.fd = r.fd
  BY DEF AsyncRecords, Statuses, Answered
<1>6. PICK e : e = [s1 EXCEPT !.async[a].iosb = status]
  OBVIOUS
<1>7. s2 = Terminate(e, a, status)
  BY <1>4, <1>6 DEF RequestComplete
<1>8. e = With(s1, a, r2)
  BY <1>4, <1>6 DEF With, Answered
<1>9. s1 \in Server /\ Lists(s1)
  BY <1>4 DEF Touches
<1>10. r2.group = s1.async[a].group
  BY <1>4, <1>5
<1>11. /\ Touches(s1, e, a) /\ e.async[a] = r2 /\ e.apc[a] = s1.apc[a]
       /\ e.irp[a] = s1.irp[a] /\ (Queued(e, a) <=> Queued(s1, a))
  BY <1>5, <1>8, <1>9, <1>10, WithDoes
<1>12. Touches(srv, e, a)
  BY <1>4, <1>11, TouchesTwice
<1>13. Queued(e, a) => e.async[a].fd
  BY <1>1, <1>4, <1>5, <1>11, QueuedHas
<1>14. Fd(e, a) = Fd(srv, a)
  BY <1>12 DEF Touches, Fd
<1>15. CanEnd(Kind[Fd(e, a)], e.async[a], e.apc[a], call[a], status)
  BY <1>4, <1>11, <1>14
<1>16. e.irp[a].at = "none" /\ status \in Statuses \ {"pending"}
  BY <1>4, <1>11 DEF Statuses
<1> QED
  BY <1>1, <1>7, <1>12, <1>13, <1>15, <1>16, TerminateKeeps

\* The record of a request that the driver has seen
Dispatched(r, x, y) == [r EXCEPT !.pending = x, !.initial = y, !.unknown = FALSE]
Signaled(r, h) == [r EXCEPT !.signaled = h]
HeldRecord(r, h) == Signaled(Dispatched(r, TRUE, "pending"), h)
DispatchedIn(s, a, x, y) ==
  [s EXCEPT !.async[a].pending = x, !.async[a].initial = y, !.async[a].unknown = FALSE]

\* It is all that changes.
LEMMA DispatchIs ==
  ASSUME NEW s \in Server, NEW s2, NEW a \in Asyncs, NEW x \in BOOLEAN, NEW y \in Statuses,
         NEW r \in AsyncRecords, r = s.async[a],
         s2 = DispatchedIn(s, a, x, y)
  PROVE  s2 = With(s, a, Dispatched(r, x, y)) /\ Dispatched(r, x, y) \in AsyncRecords
<1>1. PICK e1 : e1 = [s EXCEPT !.async[a].pending = x]
  OBVIOUS
<1>2. PICK e2 : e2 = [e1 EXCEPT !.async[a].initial = y]
  OBVIOUS
<1>3. s2 = [e2 EXCEPT !.async[a].unknown = FALSE]
  BY <1>1, <1>2 DEF DispatchedIn
<1>4. PICK r1 : r1 = [r EXCEPT !.pending = x]
  OBVIOUS
<1>5. PICK r2 : r2 = [r1 EXCEPT !.initial = y]
  OBVIOUS
<1>6. PICK r3 : r3 = [r2 EXCEPT !.unknown = FALSE]
  OBVIOUS
<1>7. r1 \in AsyncRecords
  BY <1>4 DEF AsyncRecords
<1>8. r2 \in AsyncRecords
  BY <1>5, <1>7 DEF AsyncRecords
<1>9. r3 \in AsyncRecords
  BY <1>6, <1>8 DEF AsyncRecords
<1>10. e1 = With(s, a, r1)
  BY <1>1, <1>4 DEF With
<1>11. e1.async[a] = r1 /\ e1 \in Server
  BY <1>7, <1>10, WithFields
<1>12. e2 = With(e1, a, r2)
  BY <1>2, <1>5, <1>11 DEF With
<1>13. e2 = With(s, a, r2)
  BY <1>7, <1>8, <1>10, <1>12, WithFields
<1>14. e2.async[a] = r2
  BY <1>8, <1>13, WithFields
<1>15. s2 = With(e2, a, r3)
  BY <1>3, <1>6, <1>14 DEF With
<1>16. With(e2, a, r3) = With(s, a, r3)
  BY <1>8, <1>9, <1>13, WithFields
<1>17. r3 = Dispatched(r, x, y)
  BY <1>4, <1>5, <1>6 DEF Dispatched
<1> QED
  BY <1>9, <1>15, <1>16, <1>17

\* It can end with the driver's answer,
LEMMA DispatchEnds ==
  ASSUME NEW k \in {"socket", "pipe", "device"}, NEW r \in AsyncRecords, NEW r1, NEW r2,
         NEW p \in Apcs, NEW q \in BOOLEAN, NEW c \in CallRecords, NEW x \in BOOLEAN,
         NEW y \in Statuses, NEW status \in {"success", "error"},
         Fits(k, r, p, "current", q, c), r1 = Dispatched(r, x, y), r2 = Answered(r1, status),
         IF x THEN y = "pending" ELSE y = status
  PROVE  /\ r1 \in AsyncRecords /\ r1.iosb = "pending" /\ r1.fd = r.fd /\ r1.used
         /\ r1.group = r.group /\ CanEnd(k, r2, p, c, status)
<1>1. /\ k = "device" /\ r.used /\ ~r.terminated /\ r.unknown /\ ~r.pending /\ ~r.direct
      /\ ~r.signaled /\ ~r.alerted /\ r.posted = 0 /\ p.at = "none" /\ r.iosb = "pending"
      /\ ~r.timeout
  BY DEF Fits, Waits, Woken, Resulting, Posts, Told
<1>2. r1 \in AsyncRecords
  BY DEF Dispatched, AsyncRecords
<1>3. /\ r1.used = r.used /\ r1.terminated = r.terminated /\ r1.alerted = r.alerted
      /\ r1.unknown = FALSE /\ r1.direct = r.direct /\ r1.pending = x
      /\ r1.signaled = r.signaled /\ r1.blocking = r.blocking /\ r1.timeout = r.timeout
      /\ r1.skip = r.skip
      /\ r1.handle = r.handle /\ r1.fd = r.fd /\ r1.iosb = r.iosb /\ r1.initial = y
      /\ r1.group = r.group /\ r1.posted = r.posted
  BY DEF Dispatched, AsyncRecords
<1>4. /\ r2.used = r.used /\ r2.terminated = r.terminated /\ r2.alerted = r.alerted
      /\ r2.unknown = FALSE /\ r2.direct = r.direct /\ r2.pending = x
      /\ r2.signaled = r.signaled /\ r2.blocking = r.blocking /\ r2.timeout = r.timeout
      /\ r2.skip = r.skip
      /\ r2.handle = r.handle /\ r2.iosb = status /\ r2.initial = y /\ r2.posted = r.posted
  BY <1>2, <1>3 DEF Answered, AsyncRecords
<1>5. /\ c.at \notin {"none", "io", "report"} /\ (c.at = "wait" => r.handle)
      /\ c.at = "returned" => /\ c.status # "success" /\ (IsError(c.status) => r.blocking)
                              /\ c.status # "pending"
  BY <1>1 DEF Fits, Unused, Woken, Told
<1>6. CanEnd(k, r2, p, c, status)
  BY <1>1, <1>4, <1>5 DEF CanEnd
<1> QED
  BY <1>1, <1>2, <1>3, <1>6

\* or go on.
LEMMA DispatchGoes ==
  ASSUME NEW k \in {"socket", "pipe", "device"}, NEW r \in AsyncRecords, NEW r2,
         NEW p \in Apcs, NEW q \in BOOLEAN, NEW c \in CallRecords, NEW h \in BOOLEAN,
         Fits(k, r, p, "current", q, c), r2 = HeldRecord(r, h), h => ~r.blocking
  PROVE  r2 \in AsyncRecords /\ r2.group = r.group /\ Fits(k, r2, p, "held", q, c)
<1> DEFINE r1 == Dispatched(r, TRUE, "pending")
<1>1. /\ k = "device" /\ r.used /\ ~r.terminated /\ r.unknown /\ ~r.pending /\ ~r.direct
      /\ ~r.signaled /\ ~r.alerted /\ r.posted = 0 /\ p.at = "none" /\ r.iosb = "pending"
      /\ ~r.timeout /\ (q \/ r.missed) /\ q /\ (~r.fd => ~q)
  BY DEF Fits, Waits, Woken, Resulting, Posts, Told
<1>2. r1 \in AsyncRecords
  BY DEF Dispatched, AsyncRecords, Statuses
<1>3. /\ r1.used = r.used /\ r1.terminated = r.terminated /\ r1.alerted = r.alerted
      /\ r1.unknown = FALSE /\ r1.direct = r.direct /\ r1.pending = TRUE
      /\ r1.blocking = r.blocking /\ r1.timeout = r.timeout
      /\ r1.skip = r.skip
      /\ r1.handle = r.handle /\ r1.fd = r.fd /\ r1.iosb = r.iosb /\ r1.initial = "pending"
      /\ r1.group = r.group /\ r1.posted = r.posted
  BY DEF Dispatched, AsyncRecords, Statuses
<1> HIDE DEF r1
<1>4. r2 \in AsyncRecords
  <2>1. ASSUME NEW r0 \in AsyncRecords
        PROVE  Signaled(r0, h) \in AsyncRecords
    BY DEF AsyncRecords, Signaled
  <2> QED
    BY <1>2, <2>1 DEF HeldRecord, r1
<1>5. /\ r2.used = r.used /\ r2.terminated = r.terminated /\ r2.alerted = r.alerted
      /\ r2.unknown = FALSE /\ r2.direct = r.direct /\ r2.pending = TRUE
      /\ r2.signaled = h /\ r2.blocking = r.blocking /\ r2.timeout = r.timeout
      /\ r2.skip = r.skip
      /\ r2.handle = r.handle /\ r2.fd = r.fd /\ r2.iosb = r.iosb /\ r2.initial = "pending"
      /\ r2.group = r.group /\ r2.posted = r.posted
  BY <1>2, <1>3 DEF AsyncRecords, Signaled, HeldRecord, r1
<1>6. /\ c.at \notin {"none", "io", "report"} /\ (c.at = "wait" => r.handle)
      /\ c.at = "returned" => /\ c.status # "success" /\ (IsError(c.status) => r.blocking)
                              /\ c.status # "pending"
  BY <1>1 DEF Fits, Unused, Woken, Told
<1>7. /\ Unused(r2, p, "held", q, c) /\ Woken(k, r2, p, c) /\ Waits(k, r2, "held", q, c)
      /\ Resulting(k, r2, p, c) /\ Told(k, r2, p, c)
  BY <1>1, <1>5, <1>6 DEF Unused, Woken, Waits, Resulting, Posts, Told
<1> QED
  BY <1>4, <1>5, <1>7 DEF Fits

\* A kept request ends with the driver's answer.
LEMMA HeldEnds ==
  ASSUME NEW k \in {"socket", "pipe", "device"}, NEW r \in AsyncRecords, NEW r2,
         NEW p \in Apcs, NEW q \in BOOLEAN, NEW c \in CallRecords,
         NEW status \in {"success", "error", "cancelled"},
         Fits(k, r, p, "held", q, c), r2 = Answered(r, status)
  PROVE  r.iosb = "pending" /\ r.used /\ CanEnd(k, r2, p, c, status)
<1>1. /\ k = "device" /\ r.used /\ ~r.terminated /\ ~r.unknown /\ r.pending /\ ~r.direct
      /\ r.initial = "pending" /\ (r.signaled => ~r.blocking)
      /\ ~r.alerted /\ r.posted = 0 /\ p.at = "none" /\ r.iosb = "pending" /\ ~r.timeout
  BY DEF Fits, Waits, Woken, Resulting, Posts, Told
<1>2. /\ r2.used = r.used /\ r2.terminated = r.terminated /\ r2.alerted = r.alerted
      /\ r2.unknown = r.unknown /\ r2.direct = r.direct /\ r2.pending = r.pending
      /\ r2.signaled = r.signaled /\ r2.blocking = r.blocking /\ r2.timeout = r.timeout
      /\ r2.skip = r.skip
      /\ r2.handle = r.handle /\ r2.iosb = status /\ r2.initial = r.initial
      /\ r2.posted = r.posted
  BY DEF Answered, AsyncRecords
<1>3. /\ c.at \notin {"none", "io", "report"} /\ (c.at = "wait" => r.handle)
      /\ c.at = "returned" => c.status # "success" /\ (IsError(c.status) => r.blocking)
  BY <1>1 DEF Fits, Unused, Woken, Told
<1>4. CanEnd(k, r2, p, c, status)
  BY <1>1, <1>2, <1>3 DEF CanEnd
<1> QED
  BY <1>1, <1>4

\* The driver returns from the dispatch of a request.
LEMMA DispatchReturnsKeeps ==
  ASSUME IInv, Runs, NEW a \in Asyncs, DispatchReturns(a)
  PROVE  IInv'
<1>1. /\ ServerInv(srv, call) /\ call \in [Asyncs -> CallRecords]
      /\ srv.irp[a].at = "current" /\ call' = call
  BY DEF IInv, DispatchReturns
<1>2. /\ srv \in Server /\ Lists(srv) /\ srv.async[a] \in AsyncRecords /\ srv.apc[a] \in Apcs
      /\ Queued(srv, a) \in BOOLEAN /\ Kind[Fd(srv, a)] \in {"socket", "pipe", "device"}
      /\ Fits(Kind[Fd(srv, a)], srv.async[a], srv.apc[a], srv.irp[a].at, Queued(srv, a), call[a])
      /\ InRange(srv) /\ srv.irp[a] \in Irps
  BY <1>1, Parts
<1>3. PICK k \in {"socket", "pipe", "device"}, r \in AsyncRecords, p \in Apcs, q \in BOOLEAN,
           c \in CallRecords, j \in Irps :
        /\ k = Kind[Fd(srv, a)] /\ r = srv.async[a] /\ p = srv.apc[a] /\ q = Queued(srv, a)
        /\ c = call[a] /\ j = srv.irp[a]
  BY <1>1, <1>2
<1>4. Fits(k, r, p, "current", q, c)
  BY <1>1, <1>2, <1>3
<1>5. ~r.terminated /\ ~r.pending /\ ~r.signaled
  BY <1>4 DEF Fits, Waits, Told
<1>6. PICK marked \in BOOLEAN, status \in {"success", "error", "pending"} :
        LET d == srv.async[a]
            s == [srv EXCEPT !.async[a].pending = @ \/ (marked /\ ~d.terminated),
                             !.async[a].initial = IF marked THEN "pending" ELSE status,
                             !.async[a].unknown = FALSE]
        IN /\ status = "pending" => marked
           /\ srv' = IF status # "pending"
                     THEN RequestComplete([s EXCEPT !.irp[a].at = "none"], a, status)
                     ELSE [s EXCEPT !.irp[a].at = "held",
                                    !.async[a].signaled = @ \/ ~d.blocking]
  BY DEF DispatchReturns
<1>7. PICK x, y : /\ x = (srv.async[a].pending \/ (marked /\ ~srv.async[a].terminated))
                  /\ y = IF marked THEN "pending" ELSE status
  OBVIOUS
<1>8. x \in BOOLEAN /\ y \in Statuses /\ (IF x THEN y = "pending" ELSE y = status) /\ x = marked
  BY <1>3, <1>5, <1>7 DEF Statuses
<1>9. PICK s : /\ s = DispatchedIn(srv, a, x, y)
               /\ srv' = IF status # "pending"
                         THEN RequestComplete([s EXCEPT !.irp[a].at = "none"], a, status)
                         ELSE [s EXCEPT !.irp[a].at = "held",
                                        !.async[a].signaled = @ \/ ~srv.async[a].blocking]
  <2>1. PICK s : s = [srv EXCEPT !.async[a].pending = @ \/ (marked /\ ~srv.async[a].terminated),
                                 !.async[a].initial = IF marked THEN "pending" ELSE status,
                                 !.async[a].unknown = FALSE]
    OBVIOUS
  <2>2. s = DispatchedIn(srv, a, x, y)
    BY <1>7, <2>1 DEF DispatchedIn
  <2>3. srv' = IF status # "pending"
               THEN RequestComplete([s EXCEPT !.irp[a].at = "none"], a, status)
               ELSE [s EXCEPT !.irp[a].at = "held",
                              !.async[a].signaled = @ \/ ~srv.async[a].blocking]
    BY <1>6, <2>1
  <2> QED
    BY <2>2, <2>3
<1>10. PICK r1 : r1 = Dispatched(r, x, y)
  OBVIOUS
<1>11. s = With(srv, a, r1) /\ r1 \in AsyncRecords
  BY <1>2, <1>3, <1>8, <1>9, <1>10, DispatchIs
<1>12. CASE status # "pending"
  <2>1. PICK i : i = [j EXCEPT !.at = "none"]
    OBVIOUS
  <2>2. i \in Irps /\ i.at = "none"
    BY <2>1 DEF Irps
  <2>3. PICK s1 : s1 = [s EXCEPT !.irp[a].at = "none"]
    OBVIOUS
  <2>4. s1 = Edit(srv, a, r1, p, i)
    <3>1. [With(srv, a, r1) EXCEPT !.irp[a].at = "none"] = Edit(srv, a, r1, srv.apc[a], i)
      BY <1>2, <1>3, <1>11, <2>1, IrpSet
    <3> QED
      BY <1>3, <1>11, <2>3, <3>1
  <2>5. PICK s2 : s2 = RequestComplete(s1, a, status)
    OBVIOUS
  <2>6. srv' = s2
    BY <1>9, <1>12, <2>3, <2>5
  <2>7. PICK r2 : r2 = Answered(r1, status)
    OBVIOUS
  <2>8. /\ r1.iosb = "pending" /\ r1.fd = r.fd /\ r1.used
        /\ r1.group = r.group /\ CanEnd(k, r2, p, c, status)
    <3>1. status \in {"success", "error"}
      BY <1>12
    <3> QED
      BY <1>4, <1>8, <1>10, <2>7, <3>1, DispatchEnds
  <2>9. ServerInv(s2, call) /\ Touches(srv, s2, a)
    <3>1. /\ CanEnd(Kind[Fd(srv, a)], r2, p, call[a], status)
          /\ r1.fd = srv.async[a].fd /\ r1.group = srv.async[a].group
          /\ srv.irp[a].at \in {"current", "held"} /\ p = srv.apc[a]
          /\ status \in {"success", "error", "cancelled"}
      BY <1>1, <1>3, <1>12, <2>8
    <3> QED
      BY <1>11, <2>2, <2>4, <2>5, <2>7, <2>8, <3>1, IrpEnds
  <2> QED
    BY <1>1, <2>6, <2>9, TouchStays
<1>13. CASE status = "pending"
  <2>1. PICK i : i = [j EXCEPT !.at = "held"]
    OBVIOUS
  <2>2. i \in Irps /\ i.at = "held"
    BY <2>1 DEF Irps
  <2>3. PICK s1 : s1 = [s EXCEPT !.irp[a].at = "held"]
    OBVIOUS
  <2>4. s1 = Edit(srv, a, r1, p, i)
    <3>1. [With(srv, a, r1) EXCEPT !.irp[a].at = "held"] = Edit(srv, a, r1, srv.apc[a], i)
      BY <1>2, <1>3, <1>11, <2>1, IrpSet
    <3> QED
      BY <1>3, <1>11, <2>3, <3>1
  <2>5. a \notin ToSet(srv.requests)
    BY <1>1, <1>2 DEF Lists
  <2>6. r1.group = r.group
    BY <1>10 DEF Dispatched, AsyncRecords
  <2>7. /\ Touches(srv, s1, a) /\ s1.async[a] = r1 /\ s1.apc[a] = p /\ s1.irp[a] = i
        /\ (Queued(s1, a) <=> Queued(srv, a))
    BY <1>2, <1>3, <1>11, <2>2, <2>4, <2>5, <2>6, EditDoes
  <2>8. PICK h \in BOOLEAN : h = (s1.async[a].signaled \/ ~srv.async[a].blocking)
    OBVIOUS
  <2>9. PICK s2 : s2 = [s1 EXCEPT !.async[a].signaled = h]
    OBVIOUS
  <2>10. srv' = s2
    <3>1. srv' = [s1 EXCEPT !.async[a].signaled = @ \/ ~srv.async[a].blocking]
      BY <1>9, <1>13, <2>3
    <3> QED
      BY <2>8, <2>9, <3>1
  <2>11. PICK r2 : r2 = Signaled(r1, h)
    OBVIOUS
  <2>12. h => ~r.blocking
    <3>1. r1.signaled = r.signaled
      BY <1>10 DEF Dispatched, AsyncRecords
    <3> QED
      BY <1>3, <1>5, <2>7, <2>8, <3>1
  <2>13. r2 \in AsyncRecords /\ r2.group = r.group /\ Fits(k, r2, p, "held", q, c)
    <3>1. x = TRUE /\ y = "pending"
      BY <1>6, <1>8, <1>13
    <3>2. r2 = HeldRecord(r, h)
      BY <1>10, <2>11, <3>1 DEF HeldRecord
    <3> QED
      BY <1>4, <2>12, <3>2, DispatchGoes
  <2>14. s2 = With(s1, a, r2)
    BY <2>7, <2>9, <2>11 DEF With, Signaled
  <2>15. ServerInv(s2, call) /\ Touches(srv, s2, a)
    <3>1. Queued(s1, a) = q
      BY <1>3, <2>7 DEF Queued
    <3>2. Fits(Kind[Fd(srv, a)], r2, s1.apc[a], s1.irp[a].at, Queued(s1, a), call[a])
      BY <1>3, <2>2, <2>7, <2>13, <3>1
    <3>3. r2.group = s1.async[a].group
      BY <2>6, <2>7, <2>13
    <3>4. Touches(srv, s1, a) /\ r2 \in AsyncRecords
      BY <2>7, <2>13
    <3> QED
      BY <1>1, <2>14, <3>2, <3>3, <3>4, ThenWith
  <2> QED
    BY <1>1, <2>10, <2>15, TouchStays
<1> QED
  BY <1>12, <1>13

\* The driver completes a request that it has kept.
LEMMA SetIrpResultKeeps ==
  ASSUME IInv, Runs, NEW a \in Asyncs, SetIrpResult(a)
  PROVE  IInv'
<1>1. /\ ServerInv(srv, call) /\ call \in [Asyncs -> CallRecords]
      /\ srv.irp[a].at = "held" /\ call' = call
  BY DEF IInv, SetIrpResult
<1>2. /\ srv \in Server /\ Lists(srv) /\ srv.async[a] \in AsyncRecords /\ srv.apc[a] \in Apcs
      /\ Queued(srv, a) \in BOOLEAN /\ Kind[Fd(srv, a)] \in {"socket", "pipe", "device"}
      /\ Fits(Kind[Fd(srv, a)], srv.async[a], srv.apc[a], srv.irp[a].at, Queued(srv, a), call[a])
      /\ srv.irp[a] \in Irps
  BY <1>1, Parts
<1>3. PICK k \in {"socket", "pipe", "device"}, r \in AsyncRecords, p \in Apcs, q \in BOOLEAN,
           c \in CallRecords, j \in Irps :
        /\ k = Kind[Fd(srv, a)] /\ r = srv.async[a] /\ p = srv.apc[a] /\ q = Queued(srv, a)
        /\ c = call[a] /\ j = srv.irp[a]
  BY <1>1, <1>2
<1>4. Fits(k, r, p, "held", q, c)
  BY <1>1, <1>2, <1>3
<1>5. PICK status \in {"success", "error", "cancelled"} :
        \E s1, s2 : /\ s1 = [srv EXCEPT !.irp[a].at = "none"]
                    /\ s2 = RequestComplete(s1, a, status) /\ srv' = s2
  BY DEF SetIrpResult
<1>6. PICK s1, s2 : /\ s1 = [srv EXCEPT !.irp[a].at = "none"]
                    /\ s2 = RequestComplete(s1, a, status) /\ srv' = s2
  BY <1>5
<1>7. PICK i : i = [j EXCEPT !.at = "none"]
  OBVIOUS
<1>8. i \in Irps /\ i.at = "none"
  BY <1>7 DEF Irps
<1>9. s1 = Edit(srv, a, r, p, i)
  <2>1. [With(srv, a, r) EXCEPT !.irp[a].at = "none"] = Edit(srv, a, r, srv.apc[a], i)
    BY <1>2, <1>3, <1>7, IrpSet
  <2>2. [srv.async EXCEPT ![a] = r] = srv.async
    BY <1>2, <1>3, Fields
  <2>3. With(srv, a, r) = srv
    BY <1>2, <2>2 DEF With, Server
  <2> QED
    BY <1>3, <1>6, <2>1, <2>3
<1>10. PICK r2 : r2 = Answered(r, status)
  OBVIOUS
<1>11. r.iosb = "pending" /\ r.used /\ CanEnd(k, r2, p, c, status)
  BY <1>4, <1>10, HeldEnds
<1>12. ServerInv(s2, call) /\ Touches(srv, s2, a)
  <2>1. /\ CanEnd(Kind[Fd(srv, a)], r2, p, call[a], status)
        /\ r.fd = srv.async[a].fd /\ r.group = srv.async[a].group
        /\ srv.irp[a].at \in {"current", "held"} /\ p = srv.apc[a]
    BY <1>1, <1>3, <1>11
  <2>2. s2 = RequestComplete(s1, a, status)
    BY <1>6
  <2> QED
    BY <1>8, <1>9, <1>10, <1>11, <2>1, <2>2, IrpEnds
<1> QED
  BY <1>1, <1>6, <1>12, TouchStays

\* What the end of a thread makes of the record of an async, of its APC and of its call
Lost(r, m) == [r EXCEPT !.missed = @ \/ m]
LostApc(p, l) == [p EXCEPT !.at = IF l THEN "lost" ELSE @]
LostCall(c, x) == IF x /\ c.at # "returned" THEN [c EXCEPT !.at = "dead"] ELSE c

\* that t took with it, if at all
TookAsync(r, r2, p, c) ==
  \E m \in BOOLEAN : r2 = Lost(r, m) /\ (m => p.at = "ran" \/ c.at \in {"io", "report"})
TookApc(p, p2) == \E l \in BOOLEAN : p2 = LostApc(p, l) /\ (l => p.at = "ran")
TookCall(c, d) == \E x \in BOOLEAN : d = LostCall(c, x)

\* The async fits as before.
LEMMA DeadFits ==
  ASSUME NEW k \in {"socket", "pipe", "device"}, NEW r \in AsyncRecords, NEW r2, NEW p \in Apcs,
         NEW p2, NEW i, NEW q \in BOOLEAN, NEW c \in CallRecords, NEW d,
         Fits(k, r, p, i, q, c), c.at # "made",
         TookAsync(r, r2, p, c), TookApc(p, p2), TookCall(c, d)
  PROVE  /\ r2 \in AsyncRecords /\ p2 \in Apcs /\ d \in CallRecords /\ d.at # "made"
         /\ r2.group = r.group /\ Fits(k, r2, p2, i, q, d)
<1>1. PICK m \in BOOLEAN, l \in BOOLEAN, x \in BOOLEAN :
        /\ r2 = Lost(r, m) /\ p2 = LostApc(p, l) /\ d = LostCall(c, x)
        /\ (l => p.at = "ran") /\ (m => p.at = "ran" \/ c.at \in {"io", "report"})
  BY DEF TookAsync, TookApc, TookCall
<1>2. r2 \in AsyncRecords
  BY <1>1 DEF Lost, AsyncRecords
<1>3. /\ r2.used = r.used /\ r2.terminated = r.terminated /\ r2.alerted = r.alerted
      /\ r2.canceled = r.canceled /\ r2.unknown = r.unknown /\ r2.direct = r.direct
      /\ r2.pending = r.pending /\ r2.signaled = r.signaled /\ r2.blocking = r.blocking
      /\ r2.skip = r.skip
      /\ r2.timeout = r.timeout /\ r2.handle = r.handle /\ r2.fd = r.fd /\ r2.iosb = r.iosb
      /\ r2.initial = r.initial /\ r2.group = r.group /\ r2.posted = r.posted
      /\ r2.missed = (r.missed \/ m)
  BY <1>1 DEF Lost, AsyncRecords
<1>4. p2 \in Apcs /\ p2.status = p.status /\ p2.at = IF l THEN "lost" ELSE p.at
  BY <1>1 DEF LostApc, Apcs
<1>5. d \in CallRecords /\ d.status = c.status
      /\ d.at = IF x /\ c.at # "returned" THEN "dead" ELSE c.at
  BY <1>1 DEF LostCall, CallRecords
<1>6. ~r.used => r2 = r
  <2>1. ~r.used => ~m
    BY <1>1 DEF Fits, Unused, Woken
  <2>2. ~m => r2 = r
    BY <1>1 DEF Lost, AsyncRecords
  <2> QED
    BY <2>1, <2>2
<1>7. Unused(r2, p2, i, q, d)
  BY <1>1, <1>3, <1>4, <1>5, <1>6 DEF Fits, Unused
<1>8. Woken(k, r2, p2, d)
  BY <1>1, <1>3, <1>4, <1>5 DEF Fits, Woken
<1>9. Waits(k, r2, i, q, d)
  BY <1>3, <1>5 DEF Fits, Waits
<1>10. Resulting(k, r2, p2, d)
  BY <1>1, <1>3, <1>4, <1>5 DEF Fits, Resulting, Posts
<1>11. Told(k, r2, p2, d)
  BY <1>1, <1>3, <1>4, <1>5 DEF Fits, Told
<1> QED
  BY <1>2, <1>3, <1>4, <1>5, <1>7, <1>8, <1>9, <1>10, <1>11 DEF Fits

\* So does each async of the server.
LEMMA DeadAsync ==
  ASSUME NEW a \in Asyncs, ServerInv(srv, call), call \in [Asyncs -> CallRecords],
         call[a].at # "made", NEW r2, NEW p2, NEW d,
         TookAsync(srv.async[a], r2, srv.apc[a], call[a]), TookApc(srv.apc[a], p2),
         TookCall(call[a], d)
  PROVE  /\ r2 \in AsyncRecords /\ p2 \in Apcs /\ d \in CallRecords /\ d.at # "made"
         /\ r2.group = srv.async[a].group
         /\ Fits(Kind[Fd(srv, a)], r2, p2, srv.irp[a].at, Queued(srv, a), d)
<1>1. /\ srv.async[a] \in AsyncRecords /\ srv.apc[a] \in Apcs
      /\ Queued(srv, a) \in BOOLEAN /\ Kind[Fd(srv, a)] \in {"socket", "pipe", "device"}
      /\ Fits(Kind[Fd(srv, a)], srv.async[a], srv.apc[a], srv.irp[a].at, Queued(srv, a), call[a])
  BY Parts
<1>2. PICK k \in {"socket", "pipe", "device"}, r \in AsyncRecords, p \in Apcs, q \in BOOLEAN,
           c \in CallRecords :
        /\ k = Kind[Fd(srv, a)] /\ r = srv.async[a] /\ p = srv.apc[a] /\ q = Queued(srv, a)
        /\ c = call[a]
  BY <1>1
<1>3. PICK i : i = srv.irp[a].at
  OBVIOUS
<1>4. Fits(k, r, p, i, q, c) /\ c.at # "made"
  BY <1>1, <1>2, <1>3
<1>5. TookAsync(r, r2, p, c) /\ TookApc(p, p2) /\ TookCall(c, d)
  BY <1>2
<1>6. /\ r2 \in AsyncRecords /\ p2 \in Apcs /\ d \in CallRecords /\ d.at # "made"
      /\ r2.group = r.group /\ Fits(k, r2, p2, i, q, d)
  BY <1>4, <1>5, DeadFits
<1> QED
  BY <1>2, <1>3, <1>6

\* The thread t is dead, with the asyncs M missed and the APCs L lost.
Dead(s, t, L, M) ==
  [s EXCEPT !.alive = @ \ {t}, !.user_apc[t] = FALSE,
            !.async = [a \in Asyncs |-> [s.async[a] EXCEPT !.missed = @ \/ a \in M]],
            !.apc = [a \in Asyncs |-> [s.apc[a] EXCEPT !.at = IF a \in L THEN "lost" ELSE @]]]

\* Its fields
LEMMA DeadIs ==
  ASSUME NEW s \in Server, NEW t \in Threads, NEW L, NEW M, NEW s2, s2 = Dead(s, t, L, M)
  PROVE  /\ s2.attr = s.attr /\ s2.queue = s.queue /\ s2.irp = s.irp
         /\ s2.requests = s.requests /\ s2.groups = s.groups
         /\ s2.aborted = s.aborted /\ s2.faulted = s.faulted
         /\ s2.async = [a \in Asyncs |-> s2.async[a]]
         /\ s2.apc = [a \in Asyncs |-> s2.apc[a]]
         /\ \A a \in Asyncs : \A l, m \in BOOLEAN :
              (l <=> a \in L) /\ (m <=> a \in M) =>
                s2.async[a] = Lost(s.async[a], m) /\ s2.apc[a] = LostApc(s.apc[a], l)
         /\ (s2.async \in [Asyncs -> AsyncRecords] /\ s2.apc \in [Asyncs -> Apcs]
               => s2 \in Server)
<1>1. PICK x, y, u, v :
        /\ x = [a \in Asyncs |-> [s.async[a] EXCEPT !.missed = @ \/ a \in M]]
        /\ y = [a \in Asyncs |-> [s.apc[a] EXCEPT !.at = IF a \in L THEN "lost" ELSE @]]
        /\ u = s.alive \ {t} /\ v = [s.user_apc EXCEPT ![t] = FALSE]
  OBVIOUS
<1>2. s2 = [s EXCEPT !.alive = u, !.user_apc = v, !.async = x, !.apc = y]
  <2>1. PICK e : e = [s EXCEPT !.alive = @ \ {t}, !.user_apc[t] = FALSE]
    OBVIOUS
  <2>2. e = [s EXCEPT !.alive = u, !.user_apc = v]
    <3>1. PICK e1 : e1 = [s EXCEPT !.alive = u]
      OBVIOUS
    <3>2. e1.user_apc = s.user_apc
      BY <3>1 DEF Server
    <3>3. e = [e1 EXCEPT !.user_apc[t] = FALSE]
      BY <1>1, <2>1, <3>1
    <3> QED
      BY <1>1, <3>1, <3>2, <3>3
  <2>3. s2 = [e EXCEPT !.async = x, !.apc = y]
    BY <1>1, <2>1 DEF Dead
  <2> QED
    BY <2>2, <2>3
<1>3. /\ s2.attr = s.attr /\ s2.queue = s.queue /\ s2.irp = s.irp
      /\ s2.requests = s.requests /\ s2.groups = s.groups
      /\ s2.aborted = s.aborted /\ s2.faulted = s.faulted
      /\ s2.async = x /\ s2.apc = y
  BY <1>2 DEF Server
<1>4. ASSUME NEW a \in Asyncs, NEW l \in BOOLEAN, NEW m \in BOOLEAN, l <=> a \in L, m <=> a \in M
      PROVE  x[a] = Lost(s.async[a], m) /\ y[a] = LostApc(s.apc[a], l)
  <2>1. x[a] = [s.async[a] EXCEPT !.missed = @ \/ a \in M]
    BY <1>1
  <2>2. y[a] = [s.apc[a] EXCEPT !.at = IF a \in L THEN "lost" ELSE @]
    BY <1>1
  <2>3. (s.async[a].missed \/ a \in M) = (s.async[a].missed \/ m)
    BY <1>4
  <2>4. x[a] = Lost(s.async[a], m)
    BY <2>1, <2>3 DEF Lost
  <2>5. y[a] = LostApc(s.apc[a], l)
    BY <1>4, <2>2 DEF LostApc
  <2> QED
    BY <2>4, <2>5
<1>5. u \in SUBSET Threads /\ v \in [Threads -> BOOLEAN]
  BY <1>1, Fields
<1>6. ASSUME x \in [Asyncs -> AsyncRecords], y \in [Asyncs -> Apcs]
      PROVE  s2 \in Server
  BY <1>2, <1>5, <1>6 DEF Server
<1>7. x = [a \in Asyncs |-> x[a]] /\ y = [a \in Asyncs |-> y[a]]
  BY <1>1
<1> QED
  BY <1>3, <1>4, <1>6, <1>7

\* The server with the dead thread is as good as before.
LEMMA DeadKeeps ==
  ASSUME IInv, Runs, NEW t \in Threads, NEW L, NEW M, NEW s2, NEW D,
         s2 = Dead(srv, t, L, M),
         \A a \in L : srv.apc[a].at = "ran",
         \A a \in M : srv.apc[a].at = "ran" \/ call[a].at \in {"io", "report"},
         D = [a \in Asyncs |-> IF srv.attr[a].thread = t /\ call[a].at # "returned"
                               THEN [call[a] EXCEPT !.at = "dead"] ELSE call[a]]
  PROVE  /\ D \in [Asyncs -> CallRecords] /\ ServerInv(s2, D) /\ Counts(s2) /\ Faults(s2)
         /\ \A a \in Asyncs : D[a].at # "made" /\ (a \notin L => s2.apc[a] = srv.apc[a])
         /\ ~s2.aborted
<1>1. /\ ServerInv(srv, call) /\ call \in [Asyncs -> CallRecords] /\ Counts(srv)
      /\ \A a \in Asyncs : call[a].at # "made"
  BY DEF IInv
<1>2. srv \in Server /\ Lists(srv) /\ InRange(srv)
  BY <1>1 DEF ServerInv
<1>3. /\ s2.attr = srv.attr /\ s2.queue = srv.queue /\ s2.irp = srv.irp
      /\ s2.requests = srv.requests /\ s2.groups = srv.groups
      /\ s2.aborted = srv.aborted /\ s2.faulted = srv.faulted
      /\ s2.async = [a \in Asyncs |-> s2.async[a]]
      /\ s2.apc = [a \in Asyncs |-> s2.apc[a]]
      /\ \A a \in Asyncs : \A l, m \in BOOLEAN :
           (l <=> a \in L) /\ (m <=> a \in M) =>
             s2.async[a] = Lost(srv.async[a], m) /\ s2.apc[a] = LostApc(srv.apc[a], l)
      /\ (s2.async \in [Asyncs -> AsyncRecords] /\ s2.apc \in [Asyncs -> Apcs]
            => s2 \in Server)
  BY <1>2, DeadIs
<1>4. ASSUME NEW a \in Asyncs
      PROVE  /\ s2.async[a] \in AsyncRecords /\ s2.apc[a] \in Apcs /\ D[a] \in CallRecords
             /\ D[a].at # "made" /\ s2.async[a].group = srv.async[a].group
             /\ a \notin L => s2.apc[a] = srv.apc[a]
             /\ Fits(Kind[Fd(srv, a)], s2.async[a], s2.apc[a], srv.irp[a].at, Queued(srv, a),
                     D[a])
  <2>1. PICK l \in BOOLEAN, m \in BOOLEAN, x \in BOOLEAN :
          (l <=> a \in L) /\ (m <=> a \in M) /\ (x <=> srv.attr[a].thread = t)
    OBVIOUS
  <2>2. PICK r2, p2, d : r2 = s2.async[a] /\ p2 = s2.apc[a] /\ d = D[a]
    OBVIOUS
  <2>3. r2 = Lost(srv.async[a], m) /\ p2 = LostApc(srv.apc[a], l)
    BY <1>3, <2>1, <2>2
  <2>4. d = LostCall(call[a], x)
    BY <2>1, <2>2 DEF LostCall
  <2>5. /\ l => srv.apc[a].at = "ran"
        /\ m => srv.apc[a].at = "ran" \/ call[a].at \in {"io", "report"}
    BY <2>1
  <2>6. /\ TookAsync(srv.async[a], r2, srv.apc[a], call[a]) /\ TookApc(srv.apc[a], p2)
        /\ TookCall(call[a], d)
    BY <2>3, <2>4, <2>5 DEF TookAsync, TookApc, TookCall
  <2>7. /\ r2 \in AsyncRecords /\ p2 \in Apcs /\ d \in CallRecords /\ d.at # "made"
        /\ r2.group = srv.async[a].group
        /\ Fits(Kind[Fd(srv, a)], r2, p2, srv.irp[a].at, Queued(srv, a), d)
    BY <1>1, <2>6, DeadAsync
  <2>8. a \notin L => p2 = srv.apc[a]
    <3>1. srv.apc[a] \in Apcs
      BY <1>2, Fields
    <3> QED
      BY <2>1, <2>3, <3>1 DEF LostApc, Apcs
  <2> QED
    BY <2>2, <2>7, <2>8
<1>5. D \in [Asyncs -> CallRecords]
  <2>1. DOMAIN D = Asyncs /\ D = [a \in Asyncs |-> D[a]]
    OBVIOUS
  <2> QED
    BY <1>4, <2>1
<1>6. s2 \in Server
  <2>1. PICK x, y : x = s2.async /\ y = s2.apc
    OBVIOUS
  <2>2. x = [a \in Asyncs |-> x[a]] /\ y = [a \in Asyncs |-> y[a]]
    BY <1>3, <2>1
  <2>3. x \in [Asyncs -> AsyncRecords] /\ y \in [Asyncs -> Apcs]
    BY <1>4, <2>1, <2>2
  <2> QED
    BY <1>3, <2>1, <2>3
<1>7. Lists(s2)
  <2>1. ASSUME NEW f \in Fds
        PROVE  Distinct(s2.queue[f]) /\ \A b \in ToSet(s2.queue[f]) : Fd(s2, b) = f
    BY <1>2, <1>3 DEF Lists, Fd
  <2> QED
    BY <1>2, <1>3, <2>1 DEF Lists
<1>8. InRange(s2)
  BY <1>2, <1>3, <1>4 DEF InRange
<1>9. ASSUME NEW a \in Asyncs PROVE AsyncInv(s2, a, D[a])
  <2>1. Fd(s2, a) = Fd(srv, a) /\ Queued(s2, a) = Queued(srv, a)
    BY <1>3 DEF Fd, Queued
  <2> QED
    BY <1>3, <1>4, <2>1 DEF AsyncInv
<1>10. ServerInv(s2, D)
  BY <1>6, <1>7, <1>8, <1>9 DEF ServerInv
<1>11. Counts(s2)
  <2>1. ASSUME NEW g PROVE Members(s2, g) = Members(srv, g)
    BY <1>4 DEF Members
  <2> QED
    BY <1>1, <1>3, <2>1 DEF Counts
<1>12. Faults(s2) /\ ~s2.aborted
  BY <1>3 DEF Faults, Runs
<1> QED
  BY <1>4, <1>5, <1>10, <1>11, <1>12

\* A thread is terminated.
LEMMA TerminateThreadKeeps ==
  ASSUME IInv, Runs, NEW t \in Threads, TerminateThread(t)
  PROVE  IInv'
<1> DEFINE S == {a \in Asyncs : srv.apc[a].at = "queued" /\ srv.apc[a].thread = t}
           L == {a \in Asyncs : srv.apc[a].at = "ran" /\ srv.apc[a].thread = t}
           M == L \union {a \in Asyncs : call[a].at \in {"io", "report"} /\ srv.attr[a].thread = t}
<1>1. PICK dead, D : /\ dead = Dead(srv, t, L, M)
                     /\ D = [a \in Asyncs |-> IF srv.attr[a].thread = t /\ call[a].at # "returned"
                                              THEN [call[a] EXCEPT !.at = "dead"] ELSE call[a]]
  OBVIOUS
<1>2. PICK s, s2 : s = Each("clear", dead, SetToSeq(S)) /\ s2 = CancelThread(s, t)
  OBVIOUS
<1>3. srv' = s2 /\ call' = D
  BY <1>1, <1>2 DEF TerminateThread, Dead
<1>4. S \in SUBSET Asyncs /\ \A a \in S : srv.apc[a].at = "queued" /\ a \notin L
  OBVIOUS
<1>5. /\ \A a \in L : srv.apc[a].at = "ran"
      /\ \A a \in M : srv.apc[a].at = "ran" \/ call[a].at \in {"io", "report"}
  OBVIOUS
<1> HIDE DEF S, L, M
<1>6. /\ D \in [Asyncs -> CallRecords] /\ ServerInv(dead, D) /\ Counts(dead) /\ Faults(dead)
      /\ \A a \in Asyncs : D[a].at # "made" /\ (a \notin L => dead.apc[a] = srv.apc[a])
      /\ ~dead.aborted
  BY <1>1, <1>5, DeadKeeps
<1>7. PICK q, loop : q = SetToSeq(S) /\ loop = "clear"
  OBVIOUS
<1>8. q \in Seq(Asyncs) /\ ToSet(q) = S /\ Distinct(q)
  BY <1>4, <1>7, AsyncsListed
<1>9. \A a \in S : dead.apc[a].at # "none"
  BY <1>4, <1>6
<1>10. StepsCarry(loop, dead, D, S)
  BY <1>4, <1>6, <1>7, <1>9, ClearsCarry
<1>11. Carries(dead, s, D, Asyncs \ ToSet(q))
  BY <1>2, <1>6, <1>7, <1>8, <1>10, EachCarries
<1>12. ServerInv(s, D) /\ Counts(s) /\ Faults(s) /\ ~s.aborted
  BY <1>6, <1>11 DEF Carries
<1>13. ServerInv(s2, D) /\ Counts(s2) /\ Ends(s2)
  BY <1>2, <1>6, <1>12, ThreadKeeps
<1> QED
  BY <1>3, <1>6, <1>13 DEF IInv

-----------------------------------------------------------------------------
(* The invariant.                                                           *)

\* An async that is not used fits.
LEMMA NoneFits ==
  ASSUME NEW k, NEW r, r = NoAsync, NEW p, p.at = "none", NEW q \in BOOLEAN, ~q, NEW c,
         c.at = "none"
  PROVE  Fits(k, r, p, "none", q, c)
<1>1. /\ ~r.used /\ ~r.terminated /\ ~r.alerted /\ ~r.canceled /\ ~r.unknown /\ ~r.direct
      /\ ~r.pending /\ ~r.signaled /\ ~r.timeout /\ r.group = 0 /\ r.posted = 0
  BY DEF NoAsync
<1> QED
  BY <1>1 DEF Fits, Unused, Woken, Waits, Resulting, Posts, Told

\* The server starts so.
LEMMA InitIInv ==
  ASSUME Init
  PROVE  IInv
<1>1. PICK attr \in Attrs :
        srv = [attr |-> attr,
               async |-> [a \in Asyncs |-> NoAsync],
               queue |-> [f \in Fds |-> <<>>],
               apc |-> [a \in Asyncs |-> NoApc],
               irp |-> [a \in Asyncs |-> NoIrp],
               requests |-> <<>>,
               groups |-> <<>>,
               user_apc |-> [t \in Threads |-> FALSE],
               open |-> Fds, alive |-> Threads,
               aborted |-> FALSE, faulted |-> FALSE]
  BY DEF Init
<1>2. call = [a \in Asyncs |-> [at |-> "none", status |-> "pending"]]
  BY DEF Init
<1>3. /\ srv.attr = attr /\ srv.async = [a \in Asyncs |-> NoAsync]
      /\ srv.queue = [f \in Fds |-> <<>>] /\ srv.apc = [a \in Asyncs |-> NoApc]
      /\ srv.irp = [a \in Asyncs |-> NoIrp] /\ srv.requests = <<>> /\ srv.groups = <<>>
      /\ ~srv.aborted /\ ~srv.faulted
  BY <1>1
<1>4. NoAsync \in AsyncRecords /\ NoAsync.group = 0
  BY DEF NoAsync, AsyncRecords, Statuses
<1>5. ASSUME NEW a \in Asyncs PROVE NoApc \in Apcs /\ NoApc.at = "none"
  <2>1. attr[a].thread \in Threads
    <3>1. attr \in [Asyncs -> [thread : Threads, fd : Fds, blocking : BOOLEAN,
                               timed : BOOLEAN, alertable : BOOLEAN,
                               notify : {"apc", "event", "port", "skip"}]]
      BY AsyncAssumption
    <3>2. attr[a] \in [thread : Threads, fd : Fds, blocking : BOOLEAN,
                       timed : BOOLEAN, alertable : BOOLEAN,
                       notify : {"apc", "event", "port", "skip"}]
      BY <3>1
    <3> QED
      BY <3>2
  <2>2. PICK t : t = CHOOSE u \in Threads : TRUE
    OBVIOUS
  <2>3. t \in Threads
    BY <2>1, <2>2
  <2> QED
    BY <2>2, <2>3 DEF NoApc, Apcs, Statuses
<1>6. NoIrp \in Irps /\ NoIrp.at = "none"
  BY DEF NoIrp, Irps
<1>7. srv \in Server
  <2>1. [a \in Asyncs |-> NoAsync] \in [Asyncs -> AsyncRecords]
    BY <1>4
  <2>2. [a \in Asyncs |-> NoApc] \in [Asyncs -> Apcs]
    BY <1>5
  <2>3. [a \in Asyncs |-> NoIrp] \in [Asyncs -> Irps]
    BY <1>6
  <2>4. <<>> \in Seq(Asyncs) /\ <<>> \in Seq(Int)
    OBVIOUS
  <2>5. [f \in Fds |-> <<>>] \in [Fds -> Seq(Asyncs)]
    BY <2>4
  <2>6. [t \in Threads |-> FALSE] \in [Threads -> BOOLEAN]
    OBVIOUS
  <2> QED
    BY <1>1, <2>1, <2>2, <2>3, <2>4, <2>5, <2>6 DEF Server
<1>8. ToSet(<<>>) = {} /\ Distinct(<<>>) /\ Len(<<>>) = 0
  BY DEF ToSet, Distinct
<1>9. \A f \in Fds : srv.queue[f] = <<>>
  BY <1>3
<1>10. Lists(srv)
  BY <1>3, <1>8, <1>9 DEF Lists
<1>11. InRange(srv)
  BY <1>3, <1>4, <1>8 DEF InRange
<1>12. ASSUME NEW a \in Asyncs PROVE AsyncInv(srv, a, call[a])
  <2>1. srv.async[a] = NoAsync /\ srv.apc[a] = NoApc /\ srv.irp[a] = NoIrp
    BY <1>3
  <2>2. Fd(srv, a) \in Fds
    BY <1>7, AttrTypes
  <2>3. PICK q \in BOOLEAN : q = Queued(srv, a)
    <3>1. Queued(srv, a) \in BOOLEAN
      BY DEF Queued
    <3> QED
      BY <3>1
  <2>4. ~q
    BY <1>8, <1>9, <2>2, <2>3 DEF Queued
  <2>5. PICK k, r, p, c : /\ k = Kind[Fd(srv, a)] /\ r = srv.async[a] /\ p = srv.apc[a]
                          /\ c = call[a]
    OBVIOUS
  <2>6. c.at = "none"
    BY <1>2, <2>5
  <2>7. Fits(k, r, p, "none", q, c)
    BY <1>5, <2>1, <2>4, <2>5, <2>6, NoneFits
  <2> QED
    BY <1>6, <2>1, <2>3, <2>5, <2>7 DEF AsyncInv
<1>13. Counts(srv)
  BY <1>3, <1>8 DEF Counts
<1>14. Ends(srv)
  BY <1>3 DEF Ends
<1>15. call \in [Asyncs -> CallRecords] /\ \A a \in Asyncs : call[a].at # "made"
  BY <1>2 DEF CallRecords, Statuses
<1> QED
  BY <1>7, <1>10, <1>11, <1>12, <1>13, <1>14, <1>15 DEF IInv, ServerInv

\* A user APC ends the wait for the handle of an async.
LEMMA WaitAlertedKeeps ==
  ASSUME IInv, Runs, NEW a \in Asyncs, WaitAlerted(a)
  PROVE  IInv'
<1>1. ServerInv(srv, call) /\ call \in [Asyncs -> CallRecords] /\ call[a].at = "wait"
  BY DEF IInv, WaitAlerted
<1>2. /\ srv \in Server /\ Lists(srv) /\ srv.async[a] \in AsyncRecords /\ srv.apc[a] \in Apcs
      /\ Queued(srv, a) \in BOOLEAN /\ Kind[Fd(srv, a)] \in {"socket", "pipe", "device"}
      /\ Fits(Kind[Fd(srv, a)], srv.async[a], srv.apc[a], srv.irp[a].at, Queued(srv, a), call[a])
  BY <1>1, Parts
<1>3. PICK d \in CallRecords : d = [at |-> "returned", status |-> "user_apc"]
  BY DEF CallRecords, Statuses
<1>4. call' = [call EXCEPT ![a] = d] /\ d.at = "returned" /\ d.status = "user_apc"
  BY <1>3 DEF WaitAlerted
<1>5. /\ call' \in [Asyncs -> CallRecords] /\ call'[a] = d
      /\ \A b \in Asyncs \ {a} : call'[b] = call[b]
      /\ \A b \in Asyncs : call'[b].at # "made"
  BY <1>4, CallMade
<1>6. PICK u \in [Threads -> BOOLEAN] : u = [srv.user_apc EXCEPT ![srv.attr[a].thread] = FALSE]
  BY <1>2, Fields
<1>7. PICK s2 : s2 = [srv EXCEPT !.user_apc = u]
  OBVIOUS
<1>8. srv' = s2
  BY <1>6, <1>7 DEF WaitAlerted
<1>9. /\ s2 \in Server /\ s2.attr = srv.attr /\ s2.async = srv.async /\ s2.apc = srv.apc
      /\ s2.irp = srv.irp /\ s2.queue = srv.queue /\ s2.requests = srv.requests
      /\ s2.groups = srv.groups /\ s2.aborted = srv.aborted /\ s2.faulted = srv.faulted
      /\ s2.alive = srv.alive
  BY <1>2, <1>7 DEF Server
<1>10. /\ Lists(s2) /\ Fd(s2, a) = Fd(srv, a)
       /\ \A b \in Asyncs : Queued(s2, b) <=> Queued(srv, b)
  BY <1>2, <1>9 DEF Lists, Queued, Fd
<1>11. Touches(srv, s2, a)
  BY <1>9, <1>10 DEF Touches, Same, Grouped
<1>12. AsyncInv(s2, a, d)
  <2>1. PICK k, r, p, i, q, c :
          /\ k = Kind[Fd(srv, a)] /\ r = srv.async[a] /\ p = srv.apc[a] /\ i = srv.irp[a].at
          /\ q = Queued(srv, a) /\ c = call[a]
    OBVIOUS
  <2>2. Fits(k, r, p, i, q, c) /\ c.at = "wait"
    BY <1>1, <1>2, <2>1
  <2>3. Unused(r, p, i, q, d) /\ Woken(k, r, p, d) /\ Waits(k, r, i, q, d)
    BY <1>4, <2>2 DEF Fits, Unused, Woken, Waits, Told
  <2>4. Resulting(k, r, p, d) /\ Told(k, r, p, d)
    BY <1>4, <2>2 DEF Fits, Resulting, Told, IsError
  <2>5. Queued(s2, a) = Queued(srv, a)
    BY <1>9 DEF Queued, Fd
  <2> QED
    BY <1>9, <1>10, <2>1, <2>3, <2>4, <2>5 DEF AsyncInv, Fits
<1>13. ServerInv(s2, call')
  <2>1. PICK D : D = call'
    OBVIOUS
  <2>2. ServerInv(s2, D)
    BY <1>1, <1>5, <1>11, <1>12, <2>1, Kept
  <2> QED
    BY <2>1, <2>2
<1> QED
  BY <1>5, <1>8, <1>11, <1>13, Touched

\* Every step keeps it.
LEMMA NextIInv ==
  ASSUME IInv, [Next]_vars
  PROVE  IInv'
<1>1. CASE UNCHANGED vars
  BY <1>1 DEF vars, IInv
<1>2. ASSUME Runs, NEW a \in Asyncs, Goes(a) \/ SetIrpResult(a)
      PROVE  IInv'
  BY <1>2, DirectIoKeeps, SetAsyncDirectResultKeeps, WaitReturnsKeeps, WaitAlertedKeeps,
     RunApcKeeps, ReportApcKeeps, AsyncTimeoutKeeps, NextDeviceRequestKeeps, DispatchReturnsKeeps,
     SetIrpResultKeeps DEF Goes
<1>3. ASSUME Runs, NEW t \in Threads, NEW A,
             CancelReturns(t) \/ NtCancelSynchronousIoFile(t, A) \/ TerminateThread(t)
      PROVE  IInv'
  BY <1>3, CancelReturnsKeeps, NtCancelSynchronousIoFileKeeps, TerminateThreadKeeps
<1>4. ASSUME Runs, NEW t \in Threads, NEW f \in Fds, NtCancelIoFile(t, f)
      PROVE  IInv'
  BY <1>4, NtCancelIoFileKeeps
<1>5. ASSUME Runs, NEW t \in Threads, NEW a \in Asyncs,
             RecvSocket(t, a) \/ ReadPipe(t, a) \/ ReadDevice(t, a)
      PROVE  IInv'
  BY <1>5, RecvSocketKeeps, ReadPipeKeeps, ReadDeviceKeeps
<1>6. ASSUME Runs, NEW f \in Fds, NEW A,
             DataArrives(f) \/ PollIn(f) \/ PollHup(f) \/ NtCancelIoFileEx(f, A) \/ CloseFile(f)
      PROVE  IInv'
  BY <1>6, DataArrivesKeeps, PollInKeeps, PollHupKeeps, NtCancelIoFileExKeeps, CloseFileKeeps
<1> QED
  BY <1>1, <1>2, <1>3, <1>4, <1>5, <1>6 DEF Next, Step

\* What the server knows of its asyncs, their queues, APCs, IRPs and cancel groups agrees
\* with what their callers have been told, in every reachable state (async.c).
THEOREM AsyncsAgree == Spec => []IInv
<1>1. Init => IInv
  BY InitIInv
<1>2. IInv /\ [Next]_vars => IInv'
  BY NextIInv
<1> QED
  BY <1>1, <1>2, PTL DEF Spec

\* Data that is read was there: TryRecv takes what a file has, reselect_read_queue no more.
LEMMA ReadyStep ==
  ASSUME IInv, TypeOK, Next
  PROVE  ready' \in [Fds -> 0..ReadyMax]
<1>1. /\ ready \in [Fds -> 0..ReadyMax] /\ ReadyMax \in Nat /\ srv \in Server
      /\ \A a \in Asyncs : Fd(srv, a) \in Fds
  BY AsyncAssumption, AttrTypes DEF TypeOK, IInv, ServerInv
<1>2. ASSUME NEW f \in Fds, NEW status, TryRecv(f, status)
      PROVE  ready' \in [Fds -> 0..ReadyMax]
  <2>1. PICK n \in 0..ReadyMax : n = ready[f]
    BY <1>1
  <2>2. PICK m : m = IF status = "success" THEN n - 1 ELSE n
    OBVIOUS
  <2>3. ready' = [ready EXCEPT ![f] = m] /\ (status = "success" => n > 0)
    BY <1>2, <2>1, <2>2 DEF TryRecv
  <2>4. m \in 0..ReadyMax
    BY <1>1, <2>2, <2>3
  <2> QED
    BY <1>1, <2>3, <2>4
<1>3. ASSUME NEW a \in Asyncs, DirectIo(a) \/ RunApc(a)
      PROVE  ready' \in [Fds -> 0..ReadyMax]
  <2>1. UNCHANGED ready \/ \E status : TryRecv(Fd(srv, a), status)
    BY <1>3 DEF DirectIo, RunApc
  <2> QED
    BY <1>1, <1>2, <2>1
<1>4. ASSUME NEW t, NEW a \in Asyncs, ReadPipe(t, a)
      PROVE  ready' \in [Fds -> 0..ReadyMax]
  <2>1. PICK f \in Fds : f = Fd(srv, a)
    BY <1>1
  <2>2. PICK s : s = Enqueued(Created(srv, a), a)
    OBVIOUS
  <2>3. PICK n \in 0..ReadyMax : n = ready[f]
    BY <1>1
  <2>4. s.queue[f] \in Seq(Asyncs)
    <3>1. PICK c : c = Created(srv, a)
      OBVIOUS
    <3>2. c.queue = srv.queue /\ c.attr = srv.attr /\ DOMAIN c = DOMAIN srv
      BY <1>1, <3>1 DEF Created, Server
    <3>3. s.queue = [srv.queue EXCEPT ![f] = Append(@, a)]
      BY <1>1, <2>1, <2>2, <3>1, <3>2 DEF Enqueued, Fd, Server
    <3>4. srv.queue \in [Fds -> Seq(Asyncs)]
      BY <1>1, Fields
    <3> QED
      BY <3>3, <3>4
  <2>5. ReselectReads(s, f, n).left \in 0..n /\ n \in Nat
    BY <1>1, <2>3, <2>4, ReadsLeave
  <2>6. ready' = [ready EXCEPT ![f] = ReselectReads(s, f, n).left]
    BY <1>4, <2>1, <2>2, <2>3 DEF ReadPipe
  <2> QED
    BY <1>1, <2>5, <2>6
<1>5. ASSUME NEW f \in Fds, DataArrives(f)
      PROVE  ready' \in [Fds -> 0..ReadyMax]
  <2>1. PICK n \in 0..ReadyMax : n = ready[f] /\ n < ReadyMax
    BY <1>1, <1>5 DEF DataArrives
  <2>2. ReselectReads(srv, f, n + 1).left \in 0..(n + 1)
    <3>1. PICK m \in Nat : m = n + 1
      BY <1>1
    <3>2. srv.queue[f] \in Seq(Asyncs)
      BY <1>1, Fields
    <3>3. ReselectReads(srv, f, m).left \in 0..m
      BY <3>2, ReadsLeave
    <3> QED
      BY <3>1, <3>3
  <2>3. \/ ready' = [ready EXCEPT ![f] = ReselectReads(srv, f, n + 1).left]
        \/ ready' = [ready EXCEPT ![f] = n + 1]
    BY <1>5, <2>1 DEF DataArrives
  <2> QED
    BY <1>1, <2>1, <2>2, <2>3
<1>6. ASSUME NEW a \in Asyncs,
             \/ SetAsyncDirectResult(a) \/ WaitReturns(a) \/ WaitAlerted(a) \/ ReportApc(a)
             \/ AsyncTimeout(a) \/ NextDeviceRequest(a) \/ DispatchReturns(a) \/ SetIrpResult(a)
      PROVE  ready' \in [Fds -> 0..ReadyMax]
  BY <1>1, <1>6 DEF SetAsyncDirectResult, WaitReturns, WaitAlerted, ReportApc, AsyncTimeout,
     NextDeviceRequest, DispatchReturns, SetIrpResult
<1>7. ASSUME NEW t, NEW A,
             CancelReturns(t) \/ NtCancelSynchronousIoFile(t, A) \/ TerminateThread(t)
      PROVE  ready' \in [Fds -> 0..ReadyMax]
  BY <1>1, <1>7 DEF CancelReturns, NtCancelSynchronousIoFile, TerminateThread
<1>a. ASSUME NEW t, NEW f, NtCancelIoFile(t, f)
      PROVE  ready' \in [Fds -> 0..ReadyMax]
  BY <1>1, <1>a DEF NtCancelIoFile
<1>b. ASSUME NEW t, NEW a, RecvSocket(t, a) \/ ReadDevice(t, a)
      PROVE  ready' \in [Fds -> 0..ReadyMax]
  BY <1>1, <1>b DEF RecvSocket, ReadDevice
<1>8. ASSUME NEW f, NEW A, PollIn(f) \/ PollHup(f) \/ NtCancelIoFileEx(f, A) \/ CloseFile(f)
      PROVE  ready' \in [Fds -> 0..ReadyMax]
  BY <1>1, <1>8 DEF PollIn, PollHup, NtCancelIoFileEx, CloseFile
<1>9. \/ \E a \in Asyncs : Goes(a) \/ SetIrpResult(a)
      \/ \E t \in Threads :
           \/ CancelReturns(t) \/ TerminateThread(t)
           \/ \E A \in Meant : NtCancelSynchronousIoFile(t, A)
           \/ \E f \in Fds : NtCancelIoFile(t, f)
           \/ \E a \in Asyncs : RecvSocket(t, a) \/ ReadPipe(t, a) \/ ReadDevice(t, a)
      \/ \E f \in Fds :
           \/ DataArrives(f) \/ PollIn(f) \/ PollHup(f) \/ CloseFile(f)
           \/ \E A \in Meant : NtCancelIoFileEx(f, A)
  BY DEF Next, Step
<1>10. ASSUME NEW a \in Asyncs, Goes(a) \/ SetIrpResult(a)
       PROVE  ready' \in [Fds -> 0..ReadyMax]
  BY <1>3, <1>6, <1>10, Zenon DEF Goes
<1>11. CASE \E a \in Asyncs : Goes(a) \/ SetIrpResult(a)
  BY <1>10, <1>11, Zenon
<1>12. CASE \E t \in Threads :
              \/ CancelReturns(t) \/ TerminateThread(t)
              \/ \E A \in Meant : NtCancelSynchronousIoFile(t, A)
              \/ \E f \in Fds : NtCancelIoFile(t, f)
              \/ \E a \in Asyncs : RecvSocket(t, a) \/ ReadPipe(t, a) \/ ReadDevice(t, a)
  <2>1. PICK t \in Threads :
          \/ CancelReturns(t) \/ TerminateThread(t)
          \/ \E A \in Meant : NtCancelSynchronousIoFile(t, A)
          \/ \E f \in Fds : NtCancelIoFile(t, f)
          \/ \E a \in Asyncs : RecvSocket(t, a) \/ ReadPipe(t, a) \/ ReadDevice(t, a)
    BY <1>12
  <2> QED
    BY <1>4, <1>7, <1>a, <1>b, <2>1
<1>13. CASE \E f \in Fds :
              \/ DataArrives(f) \/ PollIn(f) \/ PollHup(f) \/ CloseFile(f)
              \/ \E A \in Meant : NtCancelIoFileEx(f, A)
  BY <1>5, <1>8, <1>13, Zenon
<1> QED
  BY <1>9, <1>11, <1>12, <1>13, Zenon

\* Who waits for a cancel group waits for one that NtCancelIoFile made.
LEMMA ToldStep ==
  ASSUME IInv, TypeOK, Next
  PROVE  told' \in [Threads -> 0..CancelMax]
<1>1. told \in [Threads -> 0..CancelMax] /\ CancelMax \in Nat /\ srv \in Server
  BY AsyncAssumption DEF TypeOK, IInv, ServerInv
<1>2. ASSUME NEW t \in Threads, NEW f, Runs, NtCancelIoFile(t, f)
      PROVE  told' \in [Threads -> 0..CancelMax]
  <2>1. PICK s2 : s2 = CancelGroup(srv, t, f)
    OBVIOUS
  <2>2. /\ ServerInv(srv, call) /\ call \in [Asyncs -> CallRecords] /\ Counts(srv)
        /\ \A a \in Asyncs : call[a].at # "made"
        /\ ~srv.faulted /\ ~srv.aborted
    BY <1>2 DEF IInv, Runs
  <2>3. srv.alive # {} /\ Len(srv.groups) < CancelMax
    BY <1>2 DEF NtCancelIoFile
  <2>4. s2.faulted \/ s2.aborted \/ Len(s2.groups) = Len(srv.groups) + 1
    BY <2>1, <2>2, <2>3, GroupKeeps
  <2>5. PICK g : g = IF s2.faulted \/ s2.aborted THEN 0 ELSE Len(s2.groups)
    OBVIOUS
  <2>6. told' = [told EXCEPT ![t] = g]
    BY <1>2, <2>1, <2>5 DEF NtCancelIoFile
  <2>7. Len(srv.groups) \in Nat
    BY <1>1, Fields
  <2>8. g \in 0..CancelMax
    BY <1>1, <2>3, <2>4, <2>5, <2>7
  <2> QED
    BY <1>1, <2>6, <2>8
<1>3. ASSUME NEW t \in Threads, CancelReturns(t) \/ TerminateThread(t)
      PROVE  told' \in [Threads -> 0..CancelMax]
  <2>1. told' = [told EXCEPT ![t] = 0]
    BY <1>3 DEF CancelReturns, TerminateThread
  <2> QED
    BY <1>1, <2>1
<1>4. ASSUME NEW a, Goes(a) \/ SetIrpResult(a)
      PROVE  told' \in [Threads -> 0..CancelMax]
  BY <1>1, <1>4 DEF Goes, DirectIo, SetAsyncDirectResult, WaitReturns, WaitAlerted, RunApc,
     ReportApc, AsyncTimeout, NextDeviceRequest, DispatchReturns, SetIrpResult
<1>5. ASSUME NEW t, \/ \E A \in Meant : NtCancelSynchronousIoFile(t, A)
                   \/ \E a \in Asyncs : RecvSocket(t, a) \/ ReadPipe(t, a) \/ ReadDevice(t, a)
      PROVE  told' \in [Threads -> 0..CancelMax]
  BY <1>1, <1>5 DEF NtCancelSynchronousIoFile, RecvSocket, ReadPipe, ReadDevice
<1>6. ASSUME NEW f, \/ DataArrives(f) \/ PollIn(f) \/ PollHup(f) \/ CloseFile(f)
                   \/ \E A \in Meant : NtCancelIoFileEx(f, A)
      PROVE  told' \in [Threads -> 0..CancelMax]
  BY <1>1, <1>6 DEF DataArrives, PollIn, PollHup, NtCancelIoFileEx, CloseFile
<1> QED
  BY <1>2, <1>3, <1>4, <1>5, <1>6 DEF Next, Step

\* The data of the files, the calls and the groups that are waited for have their types:
\* no more is read than came, and NtCancelIoFile waits for a group that there is.
THEOREM TypeCorrect == Spec => []TypeOK
<1>1. Init /\ IInv => TypeOK
  BY AsyncAssumption DEF Init, TypeOK
<1>2. IInv /\ IInv' /\ TypeOK /\ [Next]_vars => TypeOK'
  <2> SUFFICES ASSUME IInv, IInv', TypeOK, [Next]_vars
               PROVE  TypeOK'
    OBVIOUS
  <2>1. CASE UNCHANGED vars
    BY <2>1 DEF vars, TypeOK
  <2>2. CASE Next
    <3>1. ready' \in [Fds -> 0..ReadyMax] /\ told' \in [Threads -> 0..CancelMax]
      BY <2>2, ReadyStep, ToldStep
    <3>2. call' \in [Asyncs -> CallRecords] /\ \A a \in Asyncs : call'[a].at # "made"
      BY DEF IInv
    <3>3. call' \in [Asyncs -> [at : {"none", "io", "report", "wait", "returned", "dead"},
                                status : Statuses]]
      BY <3>2 DEF CallRecords
    <3> QED
      BY <3>1, <3>3 DEF TypeOK, Statuses
  <2> QED
    BY <2>1, <2>2
<1> QED
  BY <1>1, <1>2, AsyncsAgree, PTL DEF Spec

\* A completion is posted exactly once for a call that was told STATUS_PENDING or succeeded,
\* unless it succeeded at once and the file skips the port then, and never for one that was
\* told of its failure (async_set_result); asyncs that lost their file, timeout or thread
\* while the client did the I/O (missed) are left out.
THEOREM CompletionsPostedOnce == Spec => []CompletedOnce
<1>1. IInv => CompletedOnce
  <2>1. SUFFICES ASSUME IInv, NEW a \in Asyncs, NEW r, r = srv.async[a], NEW c, c = call[a]
                 PROVE  /\ r.posted <= 1
                        /\ c.at = "returned" /\ c.status = "success" =>
                             r.posted = IF r.skip /\ ~r.pending THEN 0 ELSE 1
                        /\ c.at = "returned" /\ IsError(c.status) => r.posted = 0 \/ r.blocking
                        /\ c.at = "returned" /\ c.status = "pending" /\ ~Exists(srv, a) =>
                             r.posted = 1 \/ r.missed
    BY DEF CompletedOnce
  <2>2. /\ r \in AsyncRecords /\ srv.apc[a] \in Apcs /\ Queued(srv, a) \in BOOLEAN
        /\ Fits(Kind[Fd(srv, a)], r, srv.apc[a], srv.irp[a].at, Queued(srv, a), c)
    BY <2>1, Parts DEF IInv
  <2>3. r.posted \in Nat
    BY <2>2 DEF AsyncRecords
  <2>4. r.posted <= 1
    BY <2>2, <2>3 DEF Fits, Resulting, Posts
  <2>5. /\ c.at = "returned" /\ c.status = "success" =>
            r.posted = IF r.skip /\ ~r.pending THEN 0 ELSE 1
        /\ c.at = "returned" /\ IsError(c.status) => r.posted = 0 \/ r.blocking
    BY <2>2 DEF Fits, Told
  <2>6. ASSUME c.at = "returned", c.status = "pending", ~Exists(srv, a)
        PROVE  r.posted = 1 \/ r.missed
    <3>1. r.used /\ r.pending
      BY <2>2, <2>6 DEF Fits, Told
    <3>2. ~Queued(srv, a) /\ srv.apc[a].at = "none"
      BY <2>1, <2>6, <3>1 DEF Exists
    <3>3. CASE r.terminated
      BY <2>2, <3>1, <3>2, <3>3 DEF Fits, Resulting, Posts
    <3>4. CASE ~r.terminated
      BY <2>2, <3>1, <3>2, <3>4 DEF Fits, Waits
    <3> QED
      BY <3>3, <3>4
  <2> QED
    BY <2>4, <2>5, <2>6
<1> QED
  BY <1>1, AsyncsAgree, PTL

\* The counts of the cancel groups are those of the asyncs in them, which exist; the server
\* ends only at the assertion in cancel_process_async about a device's read, or for an
\* async whose file was closed while the client did its I/O; results come only for asyncs
\* that were woken up; an async that waits is on its queue, or has missed its file's end.
THEOREM CancelsAreCounted == Spec => []CancelCounts
<1>1. IInv => CancelCounts
  <2>1. SUFFICES ASSUME IInv PROVE CancelCounts
    OBVIOUS
  <2>2. ServerInv(srv, call) /\ Counts(srv) /\ Ends(srv)
    BY <2>1 DEF IInv
  <2>3. ASSUME NEW a \in Asyncs
        PROVE  /\ srv.async[a].group # 0 => Exists(srv, a)
               /\ srv.apc[a].at # "none" => srv.async[a].terminated
               /\ call[a].at \in {"io", "report"} =>
                    srv.async[a].unknown /\ srv.async[a].terminated /\ srv.async[a].alerted
               /\ a \in Live(srv) => Queued(srv, a) \/ srv.async[a].missed
               /\ a \in Orphans(srv) => srv.async[a].missed /\ ~Queued(srv, a)
    <3>1. PICK k, r, p, i, q, c :
            /\ k = Kind[Fd(srv, a)] /\ r = srv.async[a] /\ p = srv.apc[a] /\ i = srv.irp[a].at
            /\ q = Queued(srv, a) /\ c = call[a]
      OBVIOUS
    <3>2. /\ r \in AsyncRecords /\ p \in Apcs /\ q \in BOOLEAN /\ Fits(k, r, p, i, q, c)
      BY <2>2, <3>1, Parts
    <3>3. r.group # 0 => r.used /\ (q \/ p.at # "none")
      <4>1. ~r.used => r.group = 0
        BY <3>2 DEF Fits, Unused, NoAsync
      <4> QED
        BY <3>2, <4>1 DEF Fits, Waits, Resulting, Posts
    <3>4. /\ p.at # "none" => r.terminated
          /\ c.at \in {"io", "report"} => r.unknown /\ r.terminated /\ r.alerted
      BY <3>2 DEF Fits, Woken
    <3>5. /\ r.used /\ ~r.terminated => q \/ r.missed
          /\ r.used /\ ~r.fd => ~q
      BY <3>2 DEF Fits, Waits
    <3>6. a \in Live(srv) => r.used /\ ~r.terminated
      BY <3>1 DEF Live, Exists
    <3>7. a \in Orphans(srv) => a \in Live(srv) /\ ~r.fd
      BY <3>1 DEF Orphans
    <3>8. r.group # 0 => Exists(srv, a)
      BY <3>1, <3>3 DEF Exists
    <3> QED
      BY <3>1, <3>4, <3>5, <3>6, <3>7, <3>8
  <2>4. Orphans(srv) \subseteq Asyncs
    BY DEF Orphans, Live
  <2>5. srv.faulted => \E a \in Orphans(srv) : srv.async[a].missed /\ ~Queued(srv, a)
    BY <2>2, <2>3, <2>4 DEF Ends
  <2>6. srv.aborted => \E a \in Live(srv) : Kind[Fd(srv, a)] = "device" /\ srv.async[a].group # 0
    BY <2>2 DEF Ends
  <2>7. DOMAIN srv.groups = 1..Len(srv.groups)
    BY <2>2, Fields DEF ServerInv
  <2>8. \A g \in DOMAIN srv.groups :
          srv.groups[g] = Cardinality({a \in Asyncs : srv.async[a].group = g})
    BY <2>2, <2>7 DEF Counts, Members
  <2> QED
    BY <2>3, <2>5, <2>6, <2>8 DEF CancelCounts
<1> QED
  BY <1>1, AsyncsAgree, PTL
=============================================================================
