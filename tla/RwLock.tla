------------------------------- MODULE RwLock -------------------------------
(***************************************************************************)
(* What an SRW lock promises its callers: one exclusive holder or any      *)
(* number of shared ones, and no new shared holder while a thread wants    *)
(* the lock exclusive.  Nothing is said of how a thread sleeps.            *)
(***************************************************************************)
CONSTANT Threads

VARIABLES
  exclusive,  \* the threads that hold the lock exclusive
  shared,     \* the threads that hold it shared
  wanting     \* the threads in RtlAcquireSRWLockExclusive

vars == <<exclusive, shared, wanting>>

Init == exclusive = {} /\ shared = {} /\ wanting = {}

Want(t) ==
  /\ t \notin exclusive \union shared \union wanting
  /\ wanting' = wanting \union {t}
  /\ UNCHANGED <<exclusive, shared>>

\* A thread that has wanted it, or one that only tries, gets the lock exclusive.
TakeExclusive(t) ==
  /\ exclusive \union shared = {}
  /\ exclusive' = {t}
  /\ wanting' = wanting \ {t}
  /\ UNCHANGED shared

TakeShared(t) ==
  /\ exclusive \union wanting = {} /\ t \notin shared
  /\ shared' = shared \union {t}
  /\ UNCHANGED <<exclusive, wanting>>

Release(t) ==
  /\ t \in exclusive \union shared
  /\ exclusive' = exclusive \ {t}
  /\ shared' = shared \ {t}
  /\ UNCHANGED wanting

Next == \E t \in Threads : Want(t) \/ TakeExclusive(t) \/ TakeShared(t) \/ Release(t)

Spec == Init /\ [][Next]_vars
=============================================================================
