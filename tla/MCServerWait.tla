---------------------------- MODULE MCServerWait ----------------------------
(* Instances of ServerWait for TLC.                                         *)
EXTENDS ServerWait

CONSTANTS t1, t2, t3, e1, e2, m1, m2, s1

Symmetry3 == Permutations({t1, t2, t3})

\* Every wait of the client sets SELECT_INTERRUPTIBLE.
Req(sel, objs, a, w) ==
  [select |-> sel, objs |-> objs, signal |-> NoThread,
   interruptible |-> TRUE, alertable |-> a, when |-> w]

Plain(sel, objs) == Req(sel, objs, FALSE, "infinite")

SignalReq(sig, o, a, w) ==
  [select |-> "signal_and_wait", objs |-> <<o>>, signal |-> sig,
   interruptible |-> TRUE, alertable |-> a, when |-> w]

\* An auto-reset event, a manual-reset one and two mutexes, waited for singly,
\* either or together, also while signaling the first; and threads that wait for
\* another to end.
CoreRequests ==
  {Plain("wait", <<m1>>), Req("wait", <<m2, e1>>, FALSE, "past"),
   Plain("wait_all", <<e1, m1>>), Plain("wait_all", <<m1, m2>>),
   Plain("wait", <<e2, m2>>), SignalReq(e1, m1, FALSE, "infinite")}
  \union {Plain("wait", <<t, m2>>) : t \in Threads}

\* SELECT_SIGNAL_AND_WAIT from a mutex to a semaphore, alertable and with a
\* deadline; both together; the end of a thread.
InterruptRequests ==
  {SignalReq(m1, s1, TRUE, "future"), Plain("wait_all", <<s1, m1>>)}
  \union {Plain("wait", <<t>>) : t \in Threads}

\* SELECT_SIGNAL_AND_WAIT that releases a mutex and waits for it with timeout 0.
SelfWokenRequests ==
  {SignalReq(m1, m1, FALSE, "past"), Plain("wait", <<m1>>)}

\* WAIT_ALL with a deadline beside a wait for the semaphore alone.
TimedAllRequests ==
  {Req("wait_all", <<s1, e1>>, FALSE, "future"), Plain("wait", <<s1>>)}
=============================================================================
