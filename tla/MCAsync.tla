------------------------------ MODULE MCAsync ------------------------------
(* Instances of Async for TLC.                                              *)
EXTENDS Async

CONSTANTS t1, t2, a1, a2, sock, pipe, dev

TheKind == [f \in Fds |-> IF f = sock THEN "socket" ELSE IF f = pipe THEN "pipe" ELSE "device"]

Op(t, f, blocking, timed, notify) ==
  [thread |-> t, fd |-> f, blocking |-> blocking, timed |-> timed, notify |-> notify,
   alertable |-> FALSE]

Alertable(op) == [op EXCEPT !.alertable = TRUE]

Pair(x, y) == [a \in Asyncs |-> IF a = a1 THEN x ELSE y]

\* One thread reads a device and, with an APC, a socket.
ApcAttrs == {Pair(Op(t1, dev, FALSE, FALSE, "port"), Op(t1, sock, FALSE, FALSE, "apc"))}

\* Also two reads of one socket, by one thread or two; a blocking one beside one with a
\* timeout, or in the thread that gets the APC; a pipe; a device, also read by a thread
\* that blocks.
TheAttrs ==
  ApcAttrs \union
  {Pair(Op(t1, sock, FALSE, TRUE, "event"), Op(t1, sock, FALSE, FALSE, "apc")),
   Pair(Op(t1, sock, TRUE, FALSE, "event"), Op(t2, sock, TRUE, FALSE, "event")),
   Pair(Alertable(Op(t1, pipe, TRUE, FALSE, "event")), Op(t1, sock, FALSE, FALSE, "apc")),
   Pair(Op(t1, pipe, FALSE, FALSE, "skip"), Op(t2, pipe, TRUE, FALSE, "event")),
   Pair(Op(t1, dev, FALSE, FALSE, "skip"), Op(t2, dev, TRUE, FALSE, "event"))}

=============================================================================
