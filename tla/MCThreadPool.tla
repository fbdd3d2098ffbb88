---------------------------- MODULE MCThreadPool ----------------------------
(* Instances of the thread pool for TLC.                                    *)
EXTENDS ThreadPool, TLC

CONSTANTS a, b, c1, c2

ThePriority == (a :> 0) @@ (b :> 1)

\* Two threads that share a work object; a thread with a periodic timer; one with a
\* simple callback and a timer in one cleanup group.
ThePrograms == {
  [kind |-> (a :> "unused") @@ (b :> "work"), group |-> {b}, periodic |-> {},
   callers |-> {c1, c2}],
  [kind |-> (a :> "unused") @@ (b :> "timer"), group |-> {b}, periodic |-> {b},
   callers |-> {c1}],
  [kind |-> (a :> "simple") @@ (b :> "timer"), group |-> {a, b}, periodic |-> {},
   callers |-> {c1}]}
=============================================================================
