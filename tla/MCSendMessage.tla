---------------------------- MODULE MCSendMessage ----------------------------
(* Instances of SendMessage for TLC.                                        *)
EXTENDS SendMessage, TLC

CONSTANTS a, b, m1, m2, m3, m4

Sent(kind, from, to, timed, block) ==
  [kind |-> kind, from |-> from, to |-> to, timed |-> timed, block |-> block,
   win |-> kind # "hook"]

\* The threads send to each other, also while they wait, one of the messages with a
\* timeout; a notification.
Nested ==
  (m1 :> Sent("send", a, b, TRUE, FALSE)) @@ (m2 :> Sent("send", b, a, FALSE, FALSE))
  @@ (m3 :> Sent("send", a, b, FALSE, FALSE)) @@ (m4 :> Sent("notify", b, a, FALSE, FALSE))

\* A sender that only waits; a callback; the input of a device and of a thread passes a
\* hook.
Hooked ==
  (m1 :> Sent("send", a, b, TRUE, TRUE)) @@ (m2 :> Sent("callback", b, a, FALSE, FALSE))
  @@ (m3 :> Sent("hook", NoThread, b, TRUE, FALSE)) @@ (m4 :> Sent("hook", b, a, TRUE, FALSE))

TheAttrs == {Nested, Hooked}

=============================================================================
