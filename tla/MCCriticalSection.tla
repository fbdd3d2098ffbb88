--------------------------- MODULE MCCriticalSection ---------------------------
(***************************************************************************)
(* A producer that wakes inside or outside the section, a consumer, and a  *)
(* third thread that consumes, produces for all, or enters thrice.         *)
(***************************************************************************)
EXTENDS CriticalSection

CONSTANTS t1, t2, t3

TheThreads   == {t1, t2, t3}
TheAddresses == {"LockSemaphore", "Ptr"}

Take1 == <<"enter", "take", "leave">>

ThePrograms ==
     t1 :> { <<"enter", "put", "wake_one", "leave">>, <<"enter", "put", "leave", "wake_one">> }
  @@ t2 :> { Take1 }
  @@ t3 :> { Take1, <<"enter", "put", "leave", "wake_all">>,
            <<"try", "enter", "try", "leave", "leave", "leave">> }
=============================================================================
