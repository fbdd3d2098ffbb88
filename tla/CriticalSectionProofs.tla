------------------------ MODULE CriticalSectionProofs ------------------------
(***************************************************************************)
(* For any number of threads and any programs that leave what they have    *)
(* entered: a critical section is always in one place, and its fields      *)
(* count who has it and who waits for it.                                  *)
(*                                                                         *)
(* HandedOver alone is not inductive.  That RtlLeaveCriticalSection is     *)
(* called by the owner alone has to be known from the programs: what a     *)
(* thread has yet to do is nested (ProgramsNested).  That somebody waits   *)
(* when LockSemaphore is set has to be known from the time at which the    *)
(* leaving thread saw LockCount (PassedToWaiter).  A step of a thread is   *)
(* shown to be one of nine moves of the section, or none (StepMoves).      *)
(***************************************************************************)
EXTENDS CriticalSection, QueueLemmas, FiniteSetTheorems

Owners  == {t \in Threads : depth[t] > 0}
Leaving == {t \in Threads : GivesUp(t)}
Passing == {t \in Threads : PassesOn(t)}
Waiting == {t \in Threads : Waits(t)}

\* Where the section is, but for LockSemaphore
Places == Owners \union Leaving \union Passing

\* The part of TypeOK about the section and the threads' places in the code
SectionTypeOK ==
  /\ LockCount \in Nat \cup {-1}
  /\ RecursionCount \in Nat
  /\ OwningThread \in Threads \cup {NoThread}
  /\ LockSemaphore \in 0 .. 1
  /\ todo \in [Threads -> Seq(Calls)]
  /\ pc \in [Threads -> Pc]
  /\ depth \in [Threads -> Nat]

\* A thread is at a place in the code of the call that it makes.
Fits(t) ==
  /\ pc[t] # "call" => todo[t] # <<>>
  /\ pc[t] = "semaphore" => Head(todo[t]) = "enter"
  /\ pc[t] \in {"compare", "sleep", "remove"} => Head(todo[t]) \in {"enter", "wait"}
  /\ pc[t] \in {"release", "unwait"} => Head(todo[t]) = "leave"
  /\ pc[t] \in {"wake", "alert"} => Head(todo[t]) \in {"leave", "wake_one", "wake_all"}

PcFits == \A t \in Threads : Fits(t)

\* How often a thread had the section before the call it is in
Before(t) == IF pc[t] # "call" /\ Head(todo[t]) = "leave" THEN depth[t] + 1 ELSE depth[t]

ProperRest(s, n) == \E d \in [1..(Len(s) + 1) -> Nat] : d[1] = n /\ Nested(s, d)

ProgramsNested == \A t \in Threads : ProperRest(todo[t], Before(t))

\* HandedOver, and what else must be known of the fields
OwnerRecorded ==
  /\ \A t \in Owners : OwningThread = t /\ RecursionCount = depth[t]
  /\ OwningThread # NoThread => OwningThread \in Owners
  /\ Owners = {} => RecursionCount = 0

InOnePlace ==
  Cardinality(Places) + LockSemaphore = IF LockCount = -1 THEN 0 ELSE 1

CountCounts ==
  LockCount + 1 = RecursionCount + Cardinality(Leaving) + Cardinality(Waiting)

PassedToWaiter == LockSemaphore = 1 \/ Passing # {} => Waiting # {}

LeaversGone == \A t \in Leaving \union Passing : depth[t] = 0

\* Where the section is, and how its fields tell it
PlaceInv == OwnerRecorded /\ InOnePlace /\ CountCounts /\ PassedToWaiter /\ LeaversGone

SectionInv == SectionTypeOK /\ PcFits /\ ProgramsNested /\ PlaceInv

\* The moves: what a step of t does to the section
EntersFree(t) ==
  /\ LockCount = -1 /\ LockCount' = 0
  /\ OwningThread' = t /\ RecursionCount' = 1 /\ depth' = [depth EXCEPT ![t] = 1]
  /\ UNCHANGED <<LockSemaphore, Leaving, Passing, Waiting>>

Reenters(t) ==
  /\ LockCount # -1 /\ OwningThread = t /\ LockCount' = LockCount + 1
  /\ RecursionCount' = RecursionCount + 1 /\ depth' = [depth EXCEPT ![t] = depth[t] + 1]
  /\ UNCHANGED <<OwningThread, LockSemaphore, Leaving, Passing, Waiting>>

Queues(t) ==
  /\ LockCount # -1 /\ LockCount' = LockCount + 1
  /\ t \notin Waiting /\ Waiting' = Waiting \union {t}
  /\ UNCHANGED <<OwningThread, RecursionCount, depth, LockSemaphore, Leaving, Passing>>

TakesOver(t) ==
  /\ LockSemaphore = 1 /\ LockSemaphore' = 0
  /\ OwningThread' = t /\ RecursionCount' = 1 /\ depth' = [depth EXCEPT ![t] = 1]
  /\ t \in Waiting /\ Waiting' = Waiting \ {t}
  /\ UNCHANGED <<LockCount, Leaving, Passing>>

LeavesOnce(t) ==
  /\ t \in Owners /\ RecursionCount > 1 /\ LockCount' = LockCount - 1
  /\ RecursionCount' = RecursionCount - 1 /\ depth' = [depth EXCEPT ![t] = depth[t] - 1]
  /\ UNCHANGED <<OwningThread, LockSemaphore, Leaving, Passing, Waiting>>

BeginsLeaving(t) ==
  /\ t \in Owners /\ RecursionCount = 1 /\ RecursionCount' = 0 /\ OwningThread' = NoThread
  /\ depth' = [depth EXCEPT ![t] = depth[t] - 1]
  /\ Leaving' = Leaving \union {t}
  /\ UNCHANGED <<LockCount, LockSemaphore, Passing, Waiting>>

LeavesFree(t) ==
  /\ t \in Leaving /\ Leaving' = Leaving \ {t} /\ LockCount = 0 /\ LockCount' = -1
  /\ UNCHANGED <<OwningThread, RecursionCount, depth, LockSemaphore, Passing, Waiting>>

LeavesWanted(t) ==
  /\ t \in Leaving /\ Leaving' = Leaving \ {t} /\ Passing' = Passing \union {t}
  /\ LockCount >= 1 /\ LockCount' = LockCount - 1
  /\ UNCHANGED <<OwningThread, RecursionCount, depth, LockSemaphore, Waiting>>

Passes(t) ==
  /\ t \in Passing /\ Passing' = Passing \ {t} /\ LockSemaphore' = 1
  /\ UNCHANGED <<LockCount, OwningThread, RecursionCount, depth, Leaving, Waiting>>

Stays == UNCHANGED <<section, Leaving, Passing, Waiting>>

Moves(t) ==
  \/ EntersFree(t) \/ Reenters(t) \/ Queues(t) \/ TakesOver(t) \/ LeavesOnce(t)
  \/ BeginsLeaving(t) \/ LeavesFree(t) \/ LeavesWanted(t) \/ Passes(t) \/ Stays

-------------------------------------------------------------------------------
(* Programs.                                                               *)

\* What is left of proper calls after the first is proper.
LEMMA ProperTail ==
  ASSUME NEW s \in Seq(Calls), s # <<>>, NEW n \in Nat, ProperRest(s, n)
  PROVE  /\ Head(s) \in {"leave", "take"} => n > 0
         /\ n + Change(Head(s)) \in Nat
         /\ ProperRest(Tail(s), n + Change(Head(s)))
<1>1. PICK d \in [1..(Len(s) + 1) -> Nat] : d[1] = n /\ Nested(s, d)
  BY DEF ProperRest
<1>2. /\ Tail(s) \in Seq(Calls) /\ Len(Tail(s)) = Len(s) - 1 /\ Len(s) \in Nat \ {0}
      /\ \A i \in 1..Len(Tail(s)) : Tail(s)[i] = s[i + 1]
      /\ Head(s) = s[1]
  BY HeadTailProperties, EmptySeq, LenProperties
<1> DEFINE e == [i \in 1..(Len(Tail(s)) + 1) |-> d[i + 1]]
<1>3. e \in [1..(Len(Tail(s)) + 1) -> Nat]
  BY <1>2
<1>4. /\ d[2] = n + Change(Head(s)) /\ d[2] \in Nat
      /\ Head(s) \in {"leave", "take"} => n > 0
  BY <1>1, <1>2 DEF Nested
<1>5. e[1] = n + Change(Head(s))
  BY <1>2, <1>4
<1>6. Nested(Tail(s), e)
  <2>1. \A i \in 1..(Len(Tail(s)) + 1) : e[i] = d[i + 1]
    OBVIOUS
  <2>2. \A i \in 1..Len(s) : /\ d[i + 1] = d[i] + Change(s[i])
                             /\ s[i] \in {"leave", "take"} => d[i] > 0
    BY <1>1 DEF Nested
  <2> HIDE DEF e
  <2>3. ASSUME NEW i \in 1..Len(Tail(s))
        PROVE  /\ e[i + 1] = e[i] + Change(Tail(s)[i])
               /\ Tail(s)[i] \in {"leave", "take"} => e[i] > 0
    <3>1. i + 1 \in 1..Len(s) /\ e[i] = d[i + 1] /\ e[i + 1] = d[(i + 1) + 1] /\ Tail(s)[i] = s[i + 1]
      BY <1>2, <2>1
    <3> QED
      BY <2>2, <3>1
  <2>4. e[Len(Tail(s)) + 1] = 0
    BY <1>1, <1>2, <2>1 DEF Nested
  <2> QED
    BY <2>3, <2>4 DEF Nested
<1> QED
  BY <1>3, <1>4, <1>5, <1>6 DEF ProperRest

\* RtlSleepConditionVariableCS leaves the section and enters it again.
LEMMA ProperSleep ==
  ASSUME NEW s \in Seq(Calls), NEW n \in Nat \ {0}, ProperRest(s, n)
  PROVE  ProperRest(<<"leave", "wait", "enter">> \o s, n)
<1>1. PICK d \in [1..(Len(s) + 1) -> Nat] : d[1] = n /\ Nested(s, d)
  BY DEF ProperRest
<1> DEFINE p == <<"leave", "wait", "enter">>
           r == p \o s
<1>2. p \in Seq(Calls) /\ Len(p) = 3 /\ p[1] = "leave" /\ p[2] = "wait" /\ p[3] = "enter"
  BY DEF Calls
<1>3. /\ Len(r) = Len(s) + 3 /\ Len(s) \in Nat
      /\ \A i \in 1..Len(r) : r[i] = IF i <= 3 THEN p[i] ELSE s[i - 3]
  <2> HIDE DEF p
  <2>0. p \in Seq(Calls)
    BY <1>2
  <2>1. /\ Len(p \o s) = Len(p) + Len(s)
        /\ \A i \in 1..(Len(p) + Len(s)) :
             (p \o s)[i] = IF i <= Len(p) THEN p[i] ELSE s[i - Len(p)]
    BY <2>0, ConcatProperties, Zenon
  <2> HIDE DEF r
  <2> QED
    BY <1>2, <2>1, LenProperties DEF r
<1> HIDE DEF p, r
<1> DEFINE e == [i \in 1..(Len(r) + 1) |-> IF i = 1 THEN n ELSE IF i <= 3 THEN n - 1 ELSE d[i - 3]]
<1>4. e \in [1..(Len(r) + 1) -> Nat]
  BY <1>3
<1>5. \A i \in 1..(Len(r) + 1) : e[i] = IF i = 1 THEN n ELSE IF i <= 3 THEN n - 1 ELSE d[i - 3]
  OBVIOUS
<1> HIDE DEF e
<1>a. ASSUME NEW j \in 1..(Len(s) + 1) PROVE e[j + 3] = d[j]
  <2>1. j + 3 \in 1..(Len(r) + 1) /\ j + 3 > 3 /\ (j + 3) - 3 = j
    BY <1>3
  <2> QED
    BY <1>5, <2>1
<1>6. \A i \in 1..Len(s) : /\ d[i + 1] = d[i] + Change(s[i])
                           /\ s[i] \in {"leave", "take"} => d[i] > 0
  BY <1>1 DEF Nested
<1>7. ASSUME NEW i \in 1..Len(r)
      PROVE  e[i + 1] = e[i] + Change(r[i]) /\ (r[i] \in {"leave", "take"} => e[i] > 0)
  <2>1. CASE i = 1 \/ i = 2 \/ i = 3
    <3>0. /\ 1 \in 1..(Len(r) + 1) /\ 2 \in 1..(Len(r) + 1) /\ 3 \in 1..(Len(r) + 1)
          /\ 4 \in 1..(Len(r) + 1) /\ 1 \in 1..Len(r) /\ 2 \in 1..Len(r) /\ 3 \in 1..Len(r)
      BY <1>3
    <3>4. e[1] = n /\ e[2] = n - 1 /\ e[3] = n - 1 /\ e[4] = d[1]
      BY <1>5, <3>0
    <3>5. r[1] = "leave" /\ r[2] = "wait" /\ r[3] = "enter" /\ d[1] = n
      BY <1>1, <1>2, <1>3, <3>0
    <3>1. CASE i = 1
      BY <3>1, <3>4, <3>5 DEF Change
    <3>2. CASE i = 2
      BY <3>2, <3>4, <3>5 DEF Change
    <3>3. CASE i = 3
      BY <3>3, <3>4, <3>5 DEF Change
    <3> QED
      BY <2>1, <3>1, <3>2, <3>3
  <2>2. CASE i > 3
    <3>1. PICK j \in 1..Len(s) : i = j + 3
      BY <1>3, <2>2, i - 3 \in 1..Len(s)
    <3>2. r[i] = s[j] /\ e[i] = d[j] /\ e[i + 1] = d[j + 1]
      BY <1>3, <1>a, <3>1
    <3> QED
      BY <1>6, <3>2
  <2> QED
    BY <1>3, <2>1, <2>2
<1>8. e[Len(r) + 1] = 0 /\ e[1] = n
  <2>1. Len(r) + 1 = (Len(s) + 1) + 3 /\ Len(s) + 1 \in 1..(Len(s) + 1) /\ 1 \in 1..(Len(r) + 1)
    BY <1>3
  <2> QED
    BY <1>1, <1>5, <1>a, <2>1 DEF Nested
<1>9. Nested(r, e)
  BY <1>7, <1>8 DEF Nested
<1> QED
  BY <1>4, <1>8, <1>9 DEF ProperRest, r, p

\* A program that has ended has left the section, and one that starts is proper.
LEMMA ProperEnds ==
  /\ ProperRest(<<>>, 0)
  /\ \A n \in Nat : ProperRest(<<>>, n) => n = 0
  /\ \A t \in Threads : \A p \in Programs[t] : p \in Seq(Calls) /\ ProperRest(p, 0)
<1>1. ProperRest(<<>>, 0)
  <2> DEFINE d == [i \in 1..1 |-> 0]
  <2>1. d \in [1..(Len(<<>>) + 1) -> Nat] /\ d[1] = 0 /\ Nested(<<>>, d)
    BY DEF Nested
  <2> QED
    BY <2>1 DEF ProperRest
<1>2. \A n \in Nat : ProperRest(<<>>, n) => n = 0
  BY DEF ProperRest, Nested
<1>3. ASSUME NEW t \in Threads, NEW p \in Programs[t]
      PROVE  p \in Seq(Calls) /\ ProperRest(p, 0)
  <2>1. p \in Seq(Calls) /\ Len(p) \in Nat
    BY ProgramAssumption, LenProperties
  <2>2. PICK d \in [1..(Len(p) + 1) -> 0..Len(p)] : d[1] = 0 /\ Nested(p, d)
    BY NestingAssumption
  <2>3. d \in [1..(Len(p) + 1) -> Nat]
    BY <2>1, <2>2
  <2> QED
    BY <2>1, <2>2, <2>3 DEF ProperRest
<1> QED
  BY <1>1, <1>2, <1>3

-------------------------------------------------------------------------------
(* Where the section is.                                                   *)

\* The sets of threads that the fields count are finite.
LEMMA SetsFinite ==
  /\ \A A \in SUBSET Threads : IsFiniteSet(A) /\ Cardinality(A) \in Nat
  /\ {Owners, Leaving, Passing, Waiting, Places} \subseteq SUBSET Threads
<1>1. \A A \in SUBSET Threads : IsFiniteSet(A) /\ Cardinality(A) \in Nat
  BY FS_Subset, FS_CardinalityType, ThreadsAssumption
<1> QED
  BY <1>1 DEF Owners, Leaving, Passing, Waiting, Places

\* What the fields say of the places
LEMMA PlacesSay ==
  ASSUME SectionTypeOK, PlaceInv
  PROVE  /\ LockCount = -1 => Places = {} /\ LockSemaphore = 0
         /\ LockSemaphore = 1 => Places = {} /\ LockCount \in Nat
         /\ \A t \in Places : Places = {t} /\ LockSemaphore = 0 /\ LockCount \in Nat
         /\ \A t \in Leaving : Leaving = {t} /\ Owners = {} /\ Passing \subseteq {t}
         /\ \A t \in Passing : Owners = {} /\ Leaving \subseteq {t}
         /\ \A t \in Owners : Owners = {t} /\ Leaving = {} /\ Passing = {}
<1> DEFINE n == Cardinality(Places)
<1>0. /\ n \in Nat /\ n + LockSemaphore = (IF LockCount = -1 THEN 0 ELSE 1) /\ LockSemaphore \in 0..1
      /\ LockCount \in Nat \cup {-1} /\ IsFiniteSet(Places)
  BY SetsFinite DEF SectionTypeOK, PlaceInv, InOnePlace
<1>1. n = 0 <=> Places = {}
  BY <1>0, FS_EmptySet
<1>2. ASSUME NEW t \in Places, n = 1 PROVE Places = {t}
  <2>1. Cardinality(Places \ {t}) = 0
    BY <1>0, <1>2, FS_RemoveElement
  <2>2. Places \ {t} = {}
    BY <1>0, <2>1, FS_RemoveElement, FS_EmptySet
  <2> QED
    BY <1>2, <2>2
<1>3. LockCount = -1 => Places = {} /\ LockSemaphore = 0
  BY <1>0, <1>1
<1>4. LockSemaphore = 1 => Places = {} /\ LockCount \in Nat
  BY <1>0, <1>1
<1>5. ASSUME NEW t \in Places PROVE Places = {t} /\ LockSemaphore = 0 /\ LockCount \in Nat
  <2>1. n # 0
    BY <1>1
  <2>2. n = 1 /\ LockSemaphore = 0 /\ LockCount \in Nat
    BY <1>0, <2>1
  <2> QED
    BY <1>2, <2>2
<1>6. Owners \intersect (Leaving \union Passing) = {}
  BY DEF PlaceInv, LeaversGone, Owners
<1> QED
  BY <1>3, <1>4, <1>5, <1>6 DEF Places

\* A move keeps what the fields say.
LEMMA MovesKeep ==
  ASSUME SectionTypeOK, SectionTypeOK', PlaceInv, NEW t \in Threads, Moves(t)
  PROVE  PlaceInv'
<1> DEFINE w == Cardinality(Waiting)
<1>0. /\ LockCount \in Nat \cup {-1} /\ RecursionCount \in Nat /\ depth \in [Threads -> Nat]
      /\ LockSemaphore \in 0..1 /\ t # NoThread
  BY NoThreadAssumption DEF SectionTypeOK
<1>1. /\ w \in Nat /\ IsFiniteSet(Waiting) /\ Cardinality({}) = 0
      /\ \A u : Cardinality({u}) = 1
  BY SetsFinite, FS_EmptySet, FS_Singleton
<1>2. /\ Cardinality(Places) + LockSemaphore = (IF LockCount = -1 THEN 0 ELSE 1)
      /\ LockCount + 1 = RecursionCount + Cardinality(Leaving) + w
      /\ OwnerRecorded /\ LeaversGone
      /\ LockSemaphore = 1 \/ Passing # {} => Waiting # {}
  BY DEF PlaceInv, InOnePlace, CountCounts, PassedToWaiter
<1>3. /\ LockCount = -1 => Places = {} /\ LockSemaphore = 0
      /\ LockSemaphore = 1 => Places = {} /\ LockCount \in Nat
      /\ \A u \in Places : Places = {u} /\ LockSemaphore = 0 /\ LockCount \in Nat
      /\ \A u \in Leaving : Leaving = {u} /\ Owners = {} /\ Passing \subseteq {u}
      /\ \A u \in Passing : Owners = {} /\ Leaving \subseteq {u}
      /\ \A u \in Owners : Owners = {u} /\ Leaving = {} /\ Passing = {}
  BY PlacesSay
<1>4. SUFFICES /\ Cardinality(Places') + LockSemaphore' = (IF LockCount' = -1 THEN 0 ELSE 1)
               /\ LockCount' + 1 = RecursionCount' + Cardinality(Leaving') + Cardinality(Waiting')
               /\ OwnerRecorded' /\ LeaversGone'
               /\ LockSemaphore' = 1 \/ Passing' # {} => Waiting' # {}
  BY DEF PlaceInv, InOnePlace, CountCounts, PassedToWaiter
<1>5. Owners' = {u \in Threads : depth'[u] > 0}
  BY DEF Owners
<1>6. CASE EntersFree(t)
  <2>0. Places = {} /\ LockSemaphore = 0 /\ Owners = {} /\ Leaving = {} /\ Passing = {}
    BY <1>3, <1>6 DEF EntersFree, Places
  <2>a. Cardinality(Leaving) = 0 /\ RecursionCount = 0 /\ LockCount = -1
    BY <1>1, <1>2, <1>6, <2>0 DEF EntersFree, OwnerRecorded
  <2>1. Places = {} /\ LockSemaphore = 0 /\ Owners = {} /\ Leaving = {} /\ Passing = {} /\ w = 0
    BY <1>1, <1>2, <2>0, <2>a
  <2>2. /\ LockCount' = 0 /\ OwningThread' = t /\ RecursionCount' = 1
        /\ depth' = [depth EXCEPT ![t] = 1] /\ LockSemaphore' = 0
        /\ Leaving' = {} /\ Passing' = {} /\ Waiting' = Waiting
    BY <1>6, <2>1 DEF EntersFree
  <2>3. Owners' = {t} /\ depth'[t] = 1
    BY <1>0, <1>5, <2>1, <2>2 DEF Owners
  <2>4. Places' = {t}
    BY <2>2, <2>3 DEF Places
  <2>5. Cardinality(Places') = 1 /\ Cardinality(Leaving') = 0 /\ Cardinality(Waiting') = 0
    BY <1>1, <2>1, <2>2, <2>4
  <2>6. OwnerRecorded' /\ LeaversGone'
    BY <2>2, <2>3 DEF OwnerRecorded, LeaversGone
  <2> QED
    BY <2>2, <2>5, <2>6
<1>7. CASE Reenters(t)
  <2>1. t \in Owners /\ Owners = {t} /\ RecursionCount = depth[t] /\ Leaving = {} /\ Passing = {}
    BY <1>0, <1>2, <1>3, <1>7 DEF Reenters, OwnerRecorded
  <2>2. /\ LockCount' = LockCount + 1 /\ OwningThread' = t /\ RecursionCount' = RecursionCount + 1
        /\ depth' = [depth EXCEPT ![t] = depth[t] + 1] /\ LockSemaphore' = LockSemaphore
        /\ Leaving' = {} /\ Passing' = {} /\ Waiting' = Waiting /\ LockCount # -1
    BY <1>7, <2>1 DEF Reenters
  <2>3. Owners' = {t} /\ depth'[t] = depth[t] + 1
    BY <1>0, <1>5, <2>1, <2>2 DEF Owners
  <2>4. Places' = {t} /\ Places = {t}
    BY <2>1, <2>2, <2>3 DEF Places
  <2> QED
    BY <1>0, <1>1, <1>2, <1>3, <2>1, <2>2, <2>3, <2>4 DEF OwnerRecorded, LeaversGone
<1>8. CASE Queues(t)
  <2>1. /\ LockCount' = LockCount + 1 /\ LockCount # -1 /\ LockSemaphore' = LockSemaphore
        /\ OwningThread' = OwningThread /\ RecursionCount' = RecursionCount /\ depth' = depth
        /\ Leaving' = Leaving /\ Passing' = Passing /\ Waiting' = Waiting \union {t}
    BY <1>8 DEF Queues
  <2>2. Owners' = Owners /\ Places' = Places
    BY <1>5, <2>1 DEF Owners, Places
  <2>3. Cardinality(Waiting') = w + 1
    BY <1>1, <1>8, <2>1, FS_AddElement DEF Queues
  <2>4. OwnerRecorded' /\ LeaversGone'
    BY <1>2, <2>1, <2>2 DEF OwnerRecorded, LeaversGone
  <2>5. Cardinality(Leaving) \in Nat
    BY SetsFinite
  <2> QED
    BY <1>0, <1>1, <1>2, <2>1, <2>2, <2>3, <2>4, <2>5
<1>9. CASE TakesOver(t)
  <2>1. Places = {} /\ Owners = {} /\ Leaving = {} /\ Passing = {} /\ LockCount \in Nat
    BY <1>3, <1>9 DEF TakesOver, Places
  <2>2. /\ LockCount' = LockCount /\ OwningThread' = t /\ RecursionCount' = 1
        /\ depth' = [depth EXCEPT ![t] = 1] /\ LockSemaphore' = 0
        /\ Leaving' = {} /\ Passing' = {} /\ Waiting' = Waiting \ {t} /\ t \in Waiting
    BY <1>9, <2>1 DEF TakesOver
  <2>3. Owners' = {t} /\ depth'[t] = 1
    BY <1>0, <1>5, <2>1, <2>2 DEF Owners
  <2>4. Places' = {t}
    BY <2>2, <2>3 DEF Places
  <2>5. Cardinality(Waiting') = w - 1
    BY <1>1, <2>2, FS_RemoveElement
  <2>6. RecursionCount = 0
    BY <1>2, <2>1 DEF OwnerRecorded
  <2>7. OwnerRecorded' /\ LeaversGone'
    BY <2>2, <2>3 DEF OwnerRecorded, LeaversGone
  <2>8. Cardinality(Places') = 1 /\ Cardinality(Leaving) = 0 /\ Cardinality(Leaving') = 0
    BY <1>1, <2>1, <2>2, <2>4
  <2> QED
    BY <1>0, <1>1, <1>2, <2>1, <2>2, <2>5, <2>6, <2>7, <2>8
<1>10. CASE LeavesOnce(t)
  <2>1. t \in Owners /\ Owners = {t} /\ RecursionCount = depth[t] /\ Leaving = {} /\ Passing = {}
    BY <1>2, <1>3, <1>10 DEF LeavesOnce, OwnerRecorded
  <2>2. /\ LockCount' = LockCount - 1 /\ OwningThread' = t /\ RecursionCount' = RecursionCount - 1
        /\ depth' = [depth EXCEPT ![t] = depth[t] - 1] /\ LockSemaphore' = LockSemaphore
        /\ Leaving' = {} /\ Passing' = {} /\ Waiting' = Waiting /\ RecursionCount > 1
    BY <1>2, <1>10, <2>1 DEF LeavesOnce, OwnerRecorded
  <2>3. Owners' = {t} /\ depth'[t] = depth[t] - 1
    BY <1>0, <1>5, <2>1, <2>2 DEF Owners
  <2>4. Places' = {t} /\ Places = {t}
    BY <2>1, <2>2, <2>3 DEF Places
  <2>5. LockCount' \in Nat /\ LockCount \in Nat /\ LockSemaphore = 0
    BY <1>0, <1>1, <1>2, <1>3, <2>1, <2>2, <2>4
  <2> QED
    BY <1>0, <1>1, <1>2, <2>1, <2>2, <2>3, <2>4, <2>5 DEF OwnerRecorded, LeaversGone
<1>11. CASE BeginsLeaving(t)
  <2>1. t \in Owners /\ Owners = {t} /\ depth[t] = 1 /\ Leaving = {} /\ Passing = {}
    BY <1>2, <1>3, <1>11 DEF BeginsLeaving, OwnerRecorded
  <2>2. /\ LockCount' = LockCount /\ OwningThread' = NoThread /\ RecursionCount' = 0
        /\ depth' = [depth EXCEPT ![t] = depth[t] - 1] /\ LockSemaphore' = LockSemaphore
        /\ Leaving' = {t} /\ Passing' = {} /\ Waiting' = Waiting /\ RecursionCount = 1
    BY <1>11, <2>1 DEF BeginsLeaving
  <2>3. Owners' = {} /\ depth'[t] = 0
    BY <1>0, <1>5, <2>1, <2>2 DEF Owners
  <2>4. Places' = {t} /\ Places = {t}
    BY <2>1, <2>2, <2>3 DEF Places
  <2>5. Cardinality(Places') = 1 /\ Cardinality(Leaving) = 0 /\ Cardinality(Leaving') = 1
    BY <1>1, <2>1, <2>2, <2>4
  <2>6. OwnerRecorded' /\ LeaversGone'
    BY <2>2, <2>3 DEF OwnerRecorded, LeaversGone
  <2>7. LockCount \in Nat /\ LockSemaphore = 0
    BY <1>3, <2>4
  <2> QED
    BY <1>0, <1>1, <1>2, <2>2, <2>5, <2>6, <2>7
<1>12. CASE LeavesFree(t)
  <2>1. Owners = {} /\ Leaving = {t} /\ Passing \subseteq {t} /\ RecursionCount = 0
    BY <1>2, <1>3, <1>12 DEF LeavesFree, OwnerRecorded
  <2>2. /\ LockCount = 0 /\ LockCount' = -1 /\ LockSemaphore' = LockSemaphore
        /\ OwningThread' = OwningThread /\ RecursionCount' = RecursionCount /\ depth' = depth
        /\ Leaving' = {} /\ Passing' = Passing /\ Waiting' = Waiting
    BY <1>12, <2>1 DEF LeavesFree
  <2>a. Cardinality(Leaving) = 1 /\ Cardinality(Leaving') = 0
    BY <1>1, <2>1, <2>2
  <2>b. w = 0
    BY <1>1, <1>2, <2>1, <2>2, <2>a
  <2>3. w = 0 /\ Waiting = {}
    BY <1>1, <2>b, FS_EmptySet
  <2>4. Owners' = {} /\ Places = {t} /\ LockSemaphore = 0 /\ Passing = {}
    BY <1>2, <1>3, <1>5, <2>1, <2>2, <2>3 DEF Owners, Places
  <2>5. Places' = {} /\ Cardinality(Places') = 0
    BY <1>1, <2>2, <2>4 DEF Places
  <2>6. OwnerRecorded' /\ LeaversGone'
    BY <1>2, <2>1, <2>2, <2>4 DEF OwnerRecorded, LeaversGone
  <2> QED
    BY <2>1, <2>2, <2>3, <2>4, <2>5, <2>6, <2>a
<1>13. CASE LeavesWanted(t)
  <2>1. Owners = {} /\ Leaving = {t} /\ Passing \subseteq {t} /\ RecursionCount = 0
    BY <1>2, <1>3, <1>13 DEF LeavesWanted, OwnerRecorded
  <2>2. /\ LockCount >= 1 /\ LockCount' = LockCount - 1 /\ LockSemaphore' = LockSemaphore
        /\ OwningThread' = OwningThread /\ RecursionCount' = RecursionCount /\ depth' = depth
        /\ Leaving' = {} /\ Passing' = {t} /\ Waiting' = Waiting
    BY <1>13, <2>1 DEF LeavesWanted
  <2>3. Owners' = {} /\ Places = {t} /\ LockSemaphore = 0
    BY <1>3, <1>5, <2>1, <2>2 DEF Owners, Places
  <2>4. Places' = {t}
    BY <2>2, <2>3 DEF Places
  <2>a. /\ Cardinality(Leaving) = 1 /\ Cardinality(Leaving') = 0 /\ Cardinality(Places') = 1
    BY <1>1, <2>1, <2>2, <2>4
  <2>b. w # 0
    BY <1>0, <1>1, <1>2, <2>1, <2>2, <2>a
  <2>5. w # 0 /\ Waiting # {}
    BY <1>1, <2>b
  <2>6. depth[t] = 0
    BY <1>2, <2>1 DEF LeaversGone
  <2>7. OwnerRecorded' /\ LeaversGone'
    BY <1>2, <2>1, <2>2, <2>3, <2>6 DEF OwnerRecorded, LeaversGone
  <2> QED
    BY <1>0, <1>1, <1>2, <2>1, <2>2, <2>3, <2>5, <2>7, <2>a
<1>14. CASE Passes(t)
  <2>1. /\ LockCount' = LockCount /\ LockSemaphore' = 1
        /\ OwningThread' = OwningThread /\ RecursionCount' = RecursionCount /\ depth' = depth
        /\ Leaving' = Leaving /\ Passing' = Passing \ {t} /\ Waiting' = Waiting
    BY <1>14 DEF Passes
  <2>2. Owners = {} /\ Places = {t} /\ LockSemaphore = 0 /\ LockCount \in Nat
    BY <1>3, <1>14 DEF Passes, Places
  <2>3. Leaving = {}
    <3>1. ASSUME NEW u \in Leaving PROVE FALSE
      <4>1. u = t /\ pc[t] = "release" /\ pc[t] = "unwait"
        BY <1>14, <2>2 DEF Passes, Places, Leaving, Passing, GivesUp, PassesOn, In
      <4> QED
        BY <4>1
    <3> QED
      BY <3>1
  <2>4. Owners' = {} /\ Places' = {}
    BY <1>5, <2>1, <2>2, <2>3 DEF Owners, Places
  <2>5. OwnerRecorded' /\ LeaversGone'
    BY <1>2, <2>1, <2>2, <2>4 DEF OwnerRecorded, LeaversGone
  <2> QED
    BY <1>0, <1>1, <1>2, <1>14, <2>1, <2>2, <2>3, <2>4, <2>5 DEF Passes
<1>15. CASE Stays
  BY <1>2, <1>5, <1>15 DEF Stays, section, Owners, Places, OwnerRecorded, LeaversGone
<1> QED
  BY <1>6, <1>7, <1>8, <1>9, <1>10, <1>11, <1>12, <1>13, <1>14, <1>15 DEF Moves

-------------------------------------------------------------------------------
(* The steps of a thread.                                                  *)

\* A step of t alone: its place and what it has change, and nobody else's
Alone(t) ==
  /\ todo' \in [Threads -> Seq(Calls)] /\ pc' \in [Threads -> Pc] /\ depth' \in [Threads -> Nat]
  /\ \A u \in Threads \ {t} : todo'[u] = todo[u] /\ pc'[u] = pc[u] /\ depth'[u] = depth[u]

\* What t must have kept for the threads to be where their programs say
Proper(t) == Fits(t) /\ ProperRest(todo[t], Before(t))

\* The sets change by t alone.
LEMMA AlonePlaces ==
  ASSUME NEW t \in Threads, Alone(t)
  PROVE  /\ Leaving' = IF GivesUp(t)' THEN Leaving \union {t} ELSE Leaving \ {t}
         /\ Passing' = IF PassesOn(t)' THEN Passing \union {t} ELSE Passing \ {t}
         /\ Waiting' = IF Waits(t)' THEN Waiting \union {t} ELSE Waiting \ {t}
         /\ t \in Leaving <=> GivesUp(t)
         /\ t \in Passing <=> PassesOn(t)
         /\ t \in Waiting <=> Waits(t)
<1>1. ASSUME NEW u \in Threads \ {t}
      PROVE  /\ GivesUp(u)' <=> GivesUp(u)
             /\ PassesOn(u)' <=> PassesOn(u)
             /\ Waits(u)' <=> Waits(u)
  BY DEF Alone, GivesUp, PassesOn, Waits, In
<1>2. /\ Leaving' = {u \in Threads : GivesUp(u)'}
      /\ Passing' = {u \in Threads : PassesOn(u)'}
      /\ Waiting' = {u \in Threads : Waits(u)'}
  BY DEF Leaving, Passing, Waiting
<1> QED
  BY <1>1, <1>2 DEF Leaving, Passing, Waiting

\* Only t has to be looked at.
LEMMA AloneKeeps ==
  ASSUME PcFits, ProgramsNested, NEW t \in Threads, Alone(t), Proper(t)'
  PROVE  PcFits' /\ ProgramsNested'
<1>1. ASSUME NEW u \in Threads \ {t} PROVE Fits(u)' /\ ProperRest(todo[u], Before(u))'
  <2>1. Fits(u) /\ ProperRest(todo[u], Before(u))
    BY DEF PcFits, ProgramsNested
  <2>2. todo'[u] = todo[u] /\ Before(u)' = Before(u)
    BY DEF Alone, Before
  <2>3. Fits(u)'
    BY <2>1 DEF Alone, Fits
  <2>4. ProperRest(todo'[u], Before(u)')
    BY <2>1, <2>2
  <2> QED
    BY <2>3, <2>4
<1>2. ASSUME NEW u \in Threads PROVE Fits(u)' /\ ProperRest(todo[u], Before(u))'
  BY <1>1 DEF Proper
<1> QED
  BY <1>2 DEF PcFits, ProgramsNested

\* A thread whose call returns has the section as its program says.
LEMMA ReturnProper ==
  ASSUME SectionTypeOK, PcFits, ProgramsNested, NEW t \in Threads, todo[t] # <<>>, Return(t),
         \A u \in Threads \ {t} : depth'[u] = depth[u], depth' \in [Threads -> Nat],
         depth'[t] = Before(t) + Change(Head(todo[t]))
  PROVE  /\ Alone(t) /\ Proper(t)'
         /\ ~ GivesUp(t)' /\ ~ PassesOn(t)' /\ ~ Waits(t)'
<1>1. todo[t] \in Seq(Calls) /\ Before(t) \in Nat /\ ProperRest(todo[t], Before(t))
  BY DEF SectionTypeOK, ProgramsNested, Before
<1>2. Tail(todo[t]) \in Seq(Calls)
  BY <1>1, HeadTailProperties
<1>3. todo'[t] = Tail(todo[t]) /\ pc'[t] = "call"
  BY DEF Return, Continue, SectionTypeOK
<1>4. Alone(t)
  BY <1>2 DEF Return, Continue, Alone, SectionTypeOK, Pc
<1>5. PICK s : s = todo[t]
  OBVIOUS
<1>6. PICK n : n = Before(t)
  OBVIOUS
<1>7. ProperRest(Tail(s), n + Change(Head(s)))
  BY <1>1, <1>5, <1>6, ProperTail
<1>8. Before(t)' = depth'[t]
  BY <1>3 DEF Before
<1>9. ProperRest(todo'[t], Before(t)')
  BY <1>3, <1>5, <1>6, <1>7, <1>8
<1>10. Fits(t)' /\ ~ GivesUp(t)' /\ ~ PassesOn(t)' /\ ~ Waits(t)'
  BY <1>3 DEF Fits, GivesUp, PassesOn, Waits, In
<1> QED
  BY <1>4, <1>9, <1>10 DEF Proper

\* A thread that goes on in its call
LEMMA GotoProper ==
  ASSUME SectionTypeOK, PcFits, ProgramsNested, NEW t \in Threads, NEW l \in Pc \ {"call"}, Goto(t, l),
         \A u \in Threads \ {t} : depth'[u] = depth[u], depth' \in [Threads -> Nat],
         Before(t)' = Before(t), Fits(t)'
  PROVE  Alone(t) /\ Proper(t)' /\ todo' = todo /\ pc'[t] = l
<1>1. todo' = todo /\ pc' = [pc EXCEPT ![t] = l]
  BY DEF Goto
<1>2. Alone(t) /\ pc'[t] = l
  BY <1>1 DEF Alone, SectionTypeOK
<1>3. ProperRest(todo'[t], Before(t)')
  BY <1>1 DEF ProgramsNested
<1> QED
  BY <1>1, <1>2, <1>3 DEF Proper

\* A step of t that leaves the section as it is, and t in the set it was in
LEMMA StaysThere ==
  ASSUME NEW t \in Threads, Alone(t), UNCHANGED section,
         GivesUp(t)' <=> GivesUp(t), PassesOn(t)' <=> PassesOn(t), Waits(t)' <=> Waits(t)
  PROVE  Moves(t)
  BY AlonePlaces DEF Stays, Moves

\* Entering the section
LEMMA EnterMoves ==
  ASSUME SectionInv, NEW t \in Threads,
         RtlEnterCriticalSection(t) \/ RtlTryEnterCriticalSection(t) \/ wait_semaphore(t)
  PROVE  Moves(t) /\ Alone(t) /\ Proper(t)' /\ SectionTypeOK'
<1>0. /\ SectionTypeOK /\ PcFits /\ ProgramsNested /\ PlaceInv
      /\ todo[t] # <<>> /\ Head(todo[t]) \in {"enter", "try"} /\ pc[t] \in {"call", "semaphore"}
      /\ depth[t] \in Nat /\ Before(t) = depth[t] /\ Change(Head(todo[t])) = 1
      /\ depth \in [Threads -> Nat]
  BY DEF SectionInv, RtlEnterCriticalSection, RtlTryEnterCriticalSection, wait_semaphore, In,
         SectionTypeOK, Before, Change
<1>1. ~ GivesUp(t) /\ ~ PassesOn(t) /\ (pc[t] = "call" => ~ Waits(t))
  BY <1>0 DEF GivesUp, PassesOn, Waits, In
<1>2. CASE LockCount = -1 /\ LockCount' = 0 /\ Own(t) /\ Return(t) /\ pc[t] = "call" /\ UNCHANGED LockSemaphore
  <2>1. depth[t] = 0
    BY <1>0, <1>2, PlacesSay DEF Places, Owners
  <2>2. Alone(t) /\ Proper(t)' /\ ~ GivesUp(t)' /\ ~ PassesOn(t)' /\ ~ Waits(t)'
    BY <1>0, <1>2, <2>1, ReturnProper DEF Own
  <2>3. UNCHANGED <<Leaving, Passing, Waiting>>
    BY <1>1, <1>2, <2>2, AlonePlaces
  <2>4. EntersFree(t)
    BY <1>2, <2>3 DEF EntersFree, Own
  <2> QED
    BY <1>0, <1>2, <2>2, <2>4 DEF Moves, SectionTypeOK, Own, Alone
<1>3. CASE LockCount # -1 /\ LockCount' = LockCount + 1 /\ Recurse(t) /\ Return(t) /\ pc[t] = "call"
           /\ UNCHANGED LockSemaphore
  <2>2. Alone(t) /\ Proper(t)' /\ ~ GivesUp(t)' /\ ~ PassesOn(t)' /\ ~ Waits(t)'
    BY <1>0, <1>3, ReturnProper DEF Recurse
  <2>3. UNCHANGED <<Leaving, Passing, Waiting>>
    BY <1>1, <1>3, <2>2, AlonePlaces
  <2>4. Reenters(t)
    BY <1>3, <2>3 DEF Reenters, Recurse
  <2> QED
    BY <1>0, <1>3, <2>2, <2>4 DEF Moves, SectionTypeOK, Recurse, Alone
<1>4. CASE /\ LockCount # -1 /\ LockCount' = LockCount + 1 /\ Goto(t, "semaphore")
           /\ pc[t] = "call" /\ Head(todo[t]) = "enter"
           /\ UNCHANGED <<LockSemaphore, RecursionCount, OwningThread, depth>>
  <2>1. "semaphore" \in Pc \ {"call"} /\ pc'[t] = "semaphore" /\ todo' = todo
    BY <1>0, <1>4 DEF Pc, Goto, SectionTypeOK
  <2>2. Fits(t)' /\ Before(t)' = Before(t) /\ ~ GivesUp(t)' /\ ~ PassesOn(t)' /\ Waits(t)'
    BY <1>0, <1>4, <2>1 DEF Fits, Before, GivesUp, PassesOn, Waits, In
  <2>3. Alone(t) /\ Proper(t)'
    BY <1>0, <1>4, <2>1, <2>2, GotoProper
  <2>4. Queues(t)
    BY <1>1, <1>4, <2>2, <2>3, AlonePlaces DEF Queues
  <2> QED
    BY <1>0, <1>4, <2>3, <2>4 DEF Moves, SectionTypeOK, Alone
<1>5. CASE /\ LockCount # -1 /\ OwningThread # t /\ Continue(t, <<>>) /\ pc[t] = "call"
           /\ UNCHANGED <<LockCount, LockSemaphore, RecursionCount, OwningThread, depth>>
  <2>1. depth[t] = 0
    BY <1>0, <1>5 DEF PlaceInv, OwnerRecorded, Owners
  <2>2. todo'[t] = <<>> /\ pc'[t] = "call" /\ Alone(t)
    BY <1>0, <1>5, EmptySeq DEF Continue, SectionTypeOK, Alone, Pc
  <2>3. Fits(t)' /\ Before(t)' = 0 /\ ~ GivesUp(t)' /\ ~ PassesOn(t)' /\ ~ Waits(t)'
    BY <1>0, <1>5, <2>1, <2>2 DEF Fits, Before, GivesUp, PassesOn, Waits, In
  <2>4. Proper(t)'
    BY <2>2, <2>3, ProperEnds DEF Proper
  <2>5. Moves(t)
    BY <1>1, <1>5, <2>2, <2>3, StaysThere DEF section
  <2> QED
    BY <1>0, <1>5, <2>2, <2>4, <2>5 DEF SectionTypeOK, Alone
<1>6. CASE /\ LockSemaphore = 1 /\ LockSemaphore' = 0 /\ Own(t) /\ Return(t) /\ UNCHANGED LockCount
           /\ pc[t] = "semaphore" /\ Head(todo[t]) = "enter"
  <2>1. depth[t] = 0
    BY <1>0, <1>6, PlacesSay DEF Places, Owners
  <2>2. Alone(t) /\ Proper(t)' /\ ~ GivesUp(t)' /\ ~ PassesOn(t)' /\ ~ Waits(t)'
    BY <1>0, <1>6, <2>1, ReturnProper DEF Own
  <2>3. Waits(t)
    BY <1>0, <1>6 DEF Waits
  <2>4. TakesOver(t)
    BY <1>1, <1>6, <2>2, <2>3, AlonePlaces DEF TakesOver, Own
  <2> QED
    BY <1>0, <1>6, <2>2, <2>4 DEF Moves, SectionTypeOK, Own, Alone
<1>7. CASE /\ Goto(t, "compare") /\ pc[t] = "semaphore" /\ Head(todo[t]) = "enter"
           /\ UNCHANGED <<LockCount, LockSemaphore, RecursionCount, OwningThread, depth>>
  <2>1. "compare" \in Pc \ {"call"} /\ pc'[t] = "compare" /\ todo' = todo
    BY <1>0, <1>7 DEF Pc, Goto, SectionTypeOK
  <2>2. Fits(t)' /\ Before(t)' = Before(t) /\ ~ GivesUp(t)' /\ ~ PassesOn(t)' /\ Waits(t)' /\ Waits(t)
    BY <1>0, <1>7, <2>1 DEF Fits, Before, GivesUp, PassesOn, Waits, In
  <2>3. Alone(t) /\ Proper(t)'
    BY <1>0, <1>7, <2>1, <2>2, GotoProper
  <2>4. Moves(t)
    BY <1>1, <1>7, <2>2, <2>3, StaysThere DEF section
  <2> QED
    BY <1>0, <1>7, <2>3, <2>4 DEF SectionTypeOK, Alone
<1>8. CASE RtlEnterCriticalSection(t)
  BY <1>0, <1>2, <1>3, <1>4, <1>8 DEF RtlEnterCriticalSection, In
<1>9. CASE RtlTryEnterCriticalSection(t)
  BY <1>0, <1>2, <1>3, <1>5, <1>9 DEF RtlTryEnterCriticalSection, In
<1>10. CASE wait_semaphore(t)
  BY <1>0, <1>6, <1>7, <1>10 DEF wait_semaphore, In
<1> QED
  BY <1>8, <1>9, <1>10

\* Leaving it
LEMMA LeaveMoves ==
  ASSUME SectionInv, NEW t \in Threads,
         RtlLeaveCriticalSection(t) \/ ReleaseSection(t) \/ RtlpUnWaitCriticalSection(t)
  PROVE  Moves(t) /\ Alone(t) /\ Proper(t)' /\ SectionTypeOK'
<1>0. /\ SectionTypeOK /\ PcFits /\ ProgramsNested /\ PlaceInv
      /\ todo[t] # <<>> /\ Head(todo[t]) = "leave"
      /\ depth[t] \in Nat /\ Change(Head(todo[t])) = -1
      /\ depth \in [Threads -> Nat]
      /\ ~ Waits(t)
  BY DEF SectionInv, RtlLeaveCriticalSection, ReleaseSection, RtlpUnWaitCriticalSection, In,
         SectionTypeOK, Change, Waits
<1>1. CASE RtlLeaveCriticalSection(t)
  <2>1. pc[t] = "call" /\ Before(t) = depth[t] /\ ~ GivesUp(t) /\ ~ PassesOn(t)
    BY <1>0, <1>1 DEF RtlLeaveCriticalSection, In, Before, GivesUp, PassesOn
  <2>2. depth[t] > 0
    <3>1. PICK s : s = todo[t]
      OBVIOUS
    <3>2. PICK n : n = depth[t]
      OBVIOUS
    <3>3. s \in Seq(Calls) /\ s # <<>> /\ n \in Nat /\ ProperRest(s, n) /\ Head(s) = "leave"
      BY <1>0, <2>1, <3>1, <3>2 DEF ProgramsNested, SectionTypeOK
    <3> QED
      BY <3>2, <3>3, ProperTail
  <2>3. /\ t \in Owners /\ OwningThread = t /\ RecursionCount = depth[t]
        /\ LockCount \in Nat /\ Leaving = {} /\ Passing = {}
    BY <1>0, <2>2, PlacesSay DEF PlaceInv, OwnerRecorded, Owners, Places
  <2>4. /\ RecursionCount' = RecursionCount - 1 /\ depth' = [depth EXCEPT ![t] = depth[t] - 1]
        /\ LockSemaphore' = LockSemaphore
        /\ \/ RecursionCount > 1 /\ LockCount' = LockCount - 1 /\ Return(t) /\ UNCHANGED OwningThread
           \/ /\ RecursionCount = 1
              /\ OwningThread' = NoThread /\ Goto(t, "release") /\ UNCHANGED LockCount
    BY <1>1 DEF RtlLeaveCriticalSection
  <2>5. /\ depth' \in [Threads -> Nat] /\ depth'[t] = depth[t] - 1
        /\ \A u \in Threads \ {t} : depth'[u] = depth[u]
    BY <1>0, <2>2, <2>4
  <2>6. CASE RecursionCount > 1 /\ LockCount' = LockCount - 1 /\ Return(t) /\ UNCHANGED OwningThread
    <3>1. Alone(t) /\ Proper(t)' /\ ~ GivesUp(t)' /\ ~ PassesOn(t)' /\ ~ Waits(t)'
      BY <1>0, <2>1, <2>5, <2>6, ReturnProper
    <3>2. LeavesOnce(t)
      BY <1>0, <2>1, <2>3, <2>4, <2>6, <3>1, AlonePlaces DEF LeavesOnce
    <3> QED
      BY <1>0, <2>3, <2>4, <2>6, <3>1, <3>2 DEF Moves, SectionTypeOK, Alone
  <2>7. CASE RecursionCount = 1 /\ OwningThread' = NoThread /\ Goto(t, "release") /\ UNCHANGED LockCount
    <3>1. "release" \in Pc \ {"call"} /\ pc'[t] = "release" /\ todo' = todo
      BY <1>0, <2>7 DEF Pc, Goto, SectionTypeOK
    <3>2. Fits(t)' /\ Before(t)' = Before(t) /\ GivesUp(t)' /\ ~ PassesOn(t)' /\ ~ Waits(t)'
      BY <1>0, <2>1, <2>5, <3>1 DEF Fits, Before, GivesUp, PassesOn, Waits, In
    <3>3. Alone(t) /\ Proper(t)'
      BY <1>0, <2>5, <2>7, <3>1, <3>2, GotoProper
    <3>4. BeginsLeaving(t)
      BY <1>0, <2>1, <2>3, <2>4, <2>7, <3>2, <3>3, AlonePlaces DEF BeginsLeaving
    <3> QED
      BY <1>0, <2>3, <2>4, <2>7, <3>3, <3>4 DEF Moves, SectionTypeOK, Alone
  <2> QED
    BY <2>4, <2>6, <2>7
<1>2. CASE ReleaseSection(t)
  <2>1. /\ pc[t] = "release" /\ Before(t) = depth[t] + 1 /\ GivesUp(t) /\ ~ PassesOn(t)
        /\ UNCHANGED <<RecursionCount, OwningThread, LockSemaphore, depth>>
        /\ LockCount' = LockCount - 1 /\ LockCount \in Nat \cup {-1}
    BY <1>0, <1>2 DEF ReleaseSection, In, Before, GivesUp, PassesOn, SectionTypeOK
  <2>2. CASE LockCount >= 1 /\ Goto(t, "unwait")
    <3>1. "unwait" \in Pc \ {"call"} /\ pc'[t] = "unwait" /\ todo' = todo
      BY <1>0, <2>2 DEF Pc, Goto, SectionTypeOK
    <3>2. Fits(t)' /\ Before(t)' = Before(t) /\ ~ GivesUp(t)' /\ PassesOn(t)' /\ ~ Waits(t)'
      BY <1>0, <2>1, <3>1 DEF Fits, Before, GivesUp, PassesOn, Waits, In
    <3>3. Alone(t) /\ Proper(t)'
      BY <1>0, <2>1, <2>2, <3>1, <3>2, GotoProper
    <3>4. LeavesWanted(t)
      BY <1>0, <2>1, <2>2, <3>2, <3>3, AlonePlaces DEF LeavesWanted
    <3> QED
      BY <1>0, <2>1, <2>2, <3>3, <3>4 DEF Moves, SectionTypeOK, Alone
  <2>3. CASE LockCount = 0 /\ Return(t)
    <3>1. Alone(t) /\ Proper(t)' /\ ~ GivesUp(t)' /\ ~ PassesOn(t)' /\ ~ Waits(t)'
      BY <1>0, <2>1, <2>3, ReturnProper
    <3>a. LockCount' = -1 /\ UNCHANGED <<OwningThread, RecursionCount, depth, LockSemaphore>>
      BY <2>1, <2>3
    <3>b. t \in Leaving /\ Leaving' = Leaving \ {t} /\ Passing' = Passing /\ Waiting' = Waiting
      BY <1>0, <2>1, <3>1, AlonePlaces
    <3>2. LeavesFree(t)
      BY <2>3, <3>a, <3>b DEF LeavesFree
    <3> QED
      BY <1>0, <2>1, <2>3, <3>1, <3>2 DEF Moves, SectionTypeOK, Alone
  <2> QED
    BY <1>2, <2>2, <2>3 DEF ReleaseSection
<1>3. CASE RtlpUnWaitCriticalSection(t)
  <2>1. /\ pc[t] = "unwait" /\ Before(t) = depth[t] + 1 /\ ~ GivesUp(t) /\ PassesOn(t)
        /\ UNCHANGED <<LockCount, RecursionCount, OwningThread, depth>> /\ LockSemaphore' = 1
        /\ Goto(t, "wake")
    BY <1>0, <1>3 DEF RtlpUnWaitCriticalSection, In, Before, GivesUp, PassesOn
  <2>2. "wake" \in Pc \ {"call"} /\ pc'[t] = "wake" /\ todo' = todo
    BY <1>0, <2>1 DEF Pc, Goto, SectionTypeOK
  <2>3. Fits(t)' /\ Before(t)' = Before(t) /\ ~ GivesUp(t)' /\ ~ PassesOn(t)' /\ ~ Waits(t)'
    BY <1>0, <2>1, <2>2 DEF Fits, Before, GivesUp, PassesOn, Waits, In
  <2>4. Alone(t) /\ Proper(t)'
    BY <1>0, <2>1, <2>2, <2>3, GotoProper
  <2>5. Passes(t)
    BY <1>0, <2>1, <2>3, <2>4, AlonePlaces DEF Passes
  <2> QED
    BY <1>0, <2>1, <2>4, <2>5 DEF Moves, SectionTypeOK, Alone
<1> QED
  BY <1>1, <1>2, <1>3

\* A thread that goes on in its call, without the section changing or the thread moving
\* to another set
LEMMA GotoStays ==
  ASSUME SectionInv, NEW t \in Threads, NEW l \in Pc \ {"call"}, Goto(t, l), UNCHANGED section,
         todo[t] # <<>>, Fits(t)', Before(t)' = Before(t),
         pc[t] \notin {"release", "unwait"}, l \notin {"release", "unwait"},
         Head(todo[t]) = "enter" => pc[t] # "call"
  PROVE  Moves(t) /\ Alone(t) /\ Proper(t)' /\ SectionTypeOK'
<1>0. SectionTypeOK /\ PcFits /\ ProgramsNested /\ depth' = depth /\ depth \in [Threads -> Nat] /\ Fits(t)
  BY DEF SectionInv, section, SectionTypeOK, PcFits
<1>1. Alone(t) /\ Proper(t)' /\ todo' = todo /\ pc'[t] = l
  BY <1>0, GotoProper
<1>2. GivesUp(t)' = GivesUp(t) /\ PassesOn(t)' = PassesOn(t)
  BY <1>1 DEF GivesUp, PassesOn, In
<1>3. Waits(t)' <=> Waits(t)
  <2>1. pc[t] \in Pc
    BY <1>0 DEF SectionTypeOK
  <2> QED
    BY <1>0, <1>1, <2>1 DEF Waits, Fits, Pc
<1>4. Moves(t)
  BY <1>1, <1>2, <1>3, StaysThere
<1> QED
  BY <1>0, <1>1, <1>4 DEF SectionTypeOK, Alone, section

\* A call that does not have to do with the section, or is done with it, returns.
LEMMA ReturnStays ==
  ASSUME SectionInv, NEW t \in Threads, Return(t), UNCHANGED section, todo[t] # <<>>,
         Head(todo[t]) \notin {"enter", "try"}, pc[t] \notin {"release", "unwait"},
         Head(todo[t]) = "leave" => pc[t] # "call"
  PROVE  Moves(t) /\ Alone(t) /\ Proper(t)' /\ SectionTypeOK'
<1>0. SectionTypeOK /\ PcFits /\ ProgramsNested /\ depth' = depth /\ depth \in [Threads -> Nat]
  BY DEF SectionInv, section, SectionTypeOK
<1>1. depth'[t] = Before(t) + Change(Head(todo[t]))
  BY <1>0 DEF Before, Change
<1>2. Alone(t) /\ Proper(t)' /\ ~ GivesUp(t)' /\ ~ PassesOn(t)' /\ ~ Waits(t)'
  BY <1>0, <1>1, ReturnProper
<1>3. ~ GivesUp(t) /\ ~ PassesOn(t) /\ ~ Waits(t)
  BY DEF GivesUp, PassesOn, Waits, In
<1>4. Moves(t)
  BY <1>2, <1>3, StaysThere
<1> QED
  BY <1>0, <1>2, <1>4 DEF SectionTypeOK, Alone, section

\* The steps in which a thread uses or waits for something else
LEMMA OtherMoves ==
  ASSUME SectionInv, NEW t \in Threads,
         Put(t) \/ Take(t) \/ BeginWait(t) \/ Signal(t) \/ Compare(t) \/ Alerted(t) \/ TimesOut(t)
         \/ RemoveEntry(t) \/ WakeAddress(t) \/ SendAlert(t) \/ Start(t) \/ Stray(t)
  PROVE  Moves(t) /\ Alone(t) /\ Proper(t)' /\ SectionTypeOK'
<1>0. /\ SectionTypeOK /\ PcFits /\ ProgramsNested /\ PlaceInv /\ Fits(t)
      /\ depth[t] \in Nat /\ depth \in [Threads -> Nat] /\ ProperRest(todo[t], Before(t))
      /\ todo[t] \in Seq(Calls) /\ Before(t) \in Nat
  BY DEF SectionInv, SectionTypeOK, PcFits, ProgramsNested, Before
<1>1. UNCHANGED section
  BY DEF Put, Take, BeginWait, Signal, Compare, Alerted, TimesOut, RemoveEntry, WakeAddress, SendAlert,
         Start, Stray
<1>2. UNCHANGED <<LockCount, RecursionCount, OwningThread, LockSemaphore, depth>>
  BY <1>1 DEF section
<1>3. {"compare", "sleep", "remove", "semaphore", "wake", "alert"} \subseteq Pc \ {"call"}
  BY DEF Pc
<1>4. \A l : Goto(t, l) => todo' = todo /\ pc'[t] = l
  BY <1>0 DEF Goto, SectionTypeOK
<1>5. CASE Put(t)
  BY <1>0, <1>1, <1>5, ReturnStays DEF Put, In
<1>6. CASE Take(t)
  <2>1. todo[t] # <<>> /\ Head(todo[t]) = "take" /\ pc[t] = "call" /\ Before(t) = depth[t]
    BY <1>6 DEF Take, In, Before
  <2>2. CASE Return(t)
    BY <1>0, <1>1, <2>1, <2>2, ReturnStays
  <2>3. CASE Continue(t, <<"leave", "wait", "enter">> \o todo[t])
    <3>1. PICK s : s = todo[t]
      OBVIOUS
    <3>2. PICK n : n = depth[t]
      OBVIOUS
    <3>3. s \in Seq(Calls) /\ n \in Nat /\ ProperRest(s, n) /\ s # <<>> /\ Head(s) = "take"
      BY <1>0, <2>1, <3>1, <3>2
    <3>4. n > 0
      BY <3>3, ProperTail
    <3>5. ProperRest(<<"leave", "wait", "enter">> \o s, n)
      BY <3>3, <3>4, ProperSleep
    <3>6. <<"leave", "wait", "enter">> \in Seq(Calls)
      BY DEF Calls
    <3>7. <<"leave", "wait", "enter">> \o s \in Seq(Calls)
      BY <3>3, <3>6, ConcatProperties, Zenon
    <3>8. todo'[t] = <<"leave", "wait", "enter">> \o s /\ pc'[t] = "call" /\ Alone(t)
      BY <1>0, <1>2, <2>3, <3>1, <3>7 DEF Continue, SectionTypeOK, Alone, Pc
    <3>9. Before(t)' = n /\ Fits(t)' /\ ~ GivesUp(t)' /\ ~ PassesOn(t)' /\ ~ Waits(t)'
      BY <1>2, <3>2, <3>8 DEF Before, Fits, GivesUp, PassesOn, Waits, In
    <3>10. Proper(t)'
      BY <3>5, <3>8, <3>9 DEF Proper
    <3>11. ~ GivesUp(t) /\ ~ PassesOn(t) /\ ~ Waits(t)
      BY <2>1 DEF GivesUp, PassesOn, Waits, In
    <3>12. Moves(t)
      BY <1>1, <3>8, <3>9, <3>11, StaysThere
    <3> QED
      BY <1>0, <1>2, <3>8, <3>10, <3>12 DEF SectionTypeOK, Alone
  <2> QED
    BY <1>6, <2>2, <2>3 DEF Take
<1>7. CASE BeginWait(t)
  <2>1. todo[t] # <<>> /\ Head(todo[t]) = "wait" /\ pc[t] = "call" /\ Goto(t, "compare")
    BY <1>7 DEF BeginWait, In
  <2>2. Fits(t)' /\ Before(t)' = Before(t)
    BY <1>2, <1>4, <2>1 DEF Fits, Before
  <2> QED
    BY <1>1, <1>3, <2>1, <2>2, GotoStays
<1>8. CASE Signal(t)
  <2>1. todo[t] # <<>> /\ Head(todo[t]) \in {"wake_one", "wake_all"} /\ pc[t] = "call" /\ Goto(t, "wake")
    BY <1>8 DEF Signal, In
  <2>2. Fits(t)' /\ Before(t)' = Before(t)
    BY <1>2, <1>4, <2>1 DEF Fits, Before
  <2> QED
    BY <1>1, <1>3, <2>1, <2>2, GotoStays
<1>9. ASSUME pc[t] \in {"compare", "sleep", "remove"}, NEW l \in {"sleep", "remove"}, Goto(t, l)
      PROVE  Moves(t) /\ Alone(t) /\ Proper(t)' /\ SectionTypeOK'
  <2>1. todo[t] # <<>> /\ Head(todo[t]) \in {"enter", "wait"}
    BY <1>0, <1>9 DEF Fits
  <2>2. Fits(t)' /\ Before(t)' = Before(t)
    BY <1>2, <1>4, <1>9, <2>1 DEF Fits, Before
  <2> QED
    BY <1>1, <1>3, <1>9, <2>1, <2>2, GotoStays
<1>10. ASSUME pc[t] \in {"compare", "remove"}, WaitReturns(t)
       PROVE  Moves(t) /\ Alone(t) /\ Proper(t)' /\ SectionTypeOK'
  <2>1. todo[t] # <<>> /\ Head(todo[t]) \in {"enter", "wait"}
    BY <1>0, <1>10 DEF Fits
  <2>2. CASE Head(todo[t]) = "enter"
    <3>1. Goto(t, "semaphore")
      BY <1>10, <2>2 DEF WaitReturns, Address
    <3>2. Fits(t)' /\ Before(t)' = Before(t)
      BY <1>2, <1>4, <2>1, <2>2, <3>1 DEF Fits, Before
    <3> QED
      BY <1>1, <1>3, <1>10, <2>1, <3>1, <3>2, GotoStays
  <2>3. CASE Head(todo[t]) = "wait"
    <3>1. Return(t)
      BY <1>10, <2>3 DEF WaitReturns, Address
    <3> QED
      BY <1>1, <1>10, <2>1, <2>3, <3>1, ReturnStays
  <2> QED
    BY <2>1, <2>2, <2>3
<1>11. CASE Compare(t)
  BY <1>9, <1>10, <1>11 DEF Compare
<1>12. CASE Alerted(t)
  BY <1>9, <1>12 DEF Alerted
<1>13. CASE TimesOut(t)
  BY <1>9, <1>13 DEF TimesOut
<1>14. CASE RemoveEntry(t)
  BY <1>10, <1>14 DEF RemoveEntry
<1>15. ASSUME pc[t] \in {"wake", "alert"}, Goto(t, "alert")
       PROVE  Moves(t) /\ Alone(t) /\ Proper(t)' /\ SectionTypeOK'
  <2>1. todo[t] # <<>> /\ Head(todo[t]) \in {"leave", "wake_one", "wake_all"}
    BY <1>0, <1>15 DEF Fits
  <2>2. Fits(t)' /\ Before(t)' = Before(t)
    BY <1>2, <1>4, <1>15, <2>1 DEF Fits, Before
  <2> QED
    BY <1>1, <1>3, <1>15, <2>1, <2>2, GotoStays
<1>16. CASE WakeAddress(t)
  BY <1>15, <1>16 DEF WakeAddress
<1>17. CASE SendAlert(t)
  <2>1. pc[t] = "alert" /\ (Goto(t, "alert") \/ Return(t))
    BY <1>17 DEF SendAlert
  <2>2. todo[t] # <<>> /\ Head(todo[t]) \in {"leave", "wake_one", "wake_all"}
    BY <1>0, <2>1 DEF Fits
  <2> QED
    BY <1>1, <1>15, <2>1, <2>2, ReturnStays
<1>18. CASE Start(t)
  <2>1. PICK p \in Programs[t] : Continue(t, p)
    BY <1>18 DEF Start
  <2>2. todo[t] = <<>>
    BY <1>18 DEF Start
  <2>3. pc[t] = "call" /\ Before(t) = depth[t]
    BY <1>0, <2>2 DEF Fits, Before
  <2>4. depth[t] = 0
    <3>1. PICK n : n = depth[t]
      OBVIOUS
    <3> QED
      BY <1>0, <2>2, <2>3, <3>1, ProperEnds
  <2>5. p \in Seq(Calls) /\ ProperRest(p, 0)
    BY ProperEnds
  <2>6. todo'[t] = p /\ pc'[t] = "call" /\ Alone(t)
    BY <1>0, <1>2, <2>1, <2>5 DEF Continue, SectionTypeOK, Alone, Pc
  <2>7. Before(t)' = 0 /\ Fits(t)' /\ ~ GivesUp(t)' /\ ~ PassesOn(t)' /\ ~ Waits(t)'
    BY <1>2, <2>4, <2>6 DEF Before, Fits, GivesUp, PassesOn, Waits, In
  <2>8. Proper(t)'
    BY <2>5, <2>6, <2>7 DEF Proper
  <2>9. ~ GivesUp(t) /\ ~ PassesOn(t) /\ ~ Waits(t)
    BY <2>2 DEF GivesUp, PassesOn, Waits, In
  <2>10. Moves(t)
    BY <1>1, <2>6, <2>7, <2>9, StaysThere
  <2> QED
    BY <1>0, <1>2, <2>6, <2>8, <2>10 DEF SectionTypeOK, Alone
<1>19. CASE Stray(t)
  <2>1. UNCHANGED <<todo, pc>>
    BY <1>19 DEF Stray
  <2>2. Alone(t) /\ Before(t)' = Before(t)
    BY <1>0, <1>2, <2>1 DEF Alone, SectionTypeOK, Before
  <2>3. Proper(t)'
    BY <1>0, <2>1, <2>2 DEF Proper, Fits
  <2>4. GivesUp(t)' = GivesUp(t) /\ PassesOn(t)' = PassesOn(t) /\ Waits(t)' = Waits(t)
    BY <2>1 DEF GivesUp, PassesOn, Waits, In
  <2>5. Moves(t)
    BY <1>1, <2>2, <2>4, StaysThere
  <2> QED
    BY <1>0, <1>2, <2>1, <2>2, <2>3, <2>5 DEF SectionTypeOK, Alone
<1> QED
  BY <1>5, <1>6, <1>7, <1>8, <1>11, <1>12, <1>13, <1>14, <1>16, <1>17, <1>18, <1>19

-------------------------------------------------------------------------------
(* The theorems.                                                           *)

\* The inductive invariant: whatever the threads' steps, the section and the places of
\* the threads in their programs agree.
\* (RtlEnterCriticalSection, RtlLeaveCriticalSection, RtlSleepConditionVariableCS)
THEOREM SectionInvariant == Spec => []SectionInv
<1>1. Init => SectionInv
  <2> SUFFICES ASSUME Init PROVE SectionInv
    OBVIOUS
  <2>1. SectionTypeOK
    BY EmptySeq DEF Init, SectionTypeOK, Pc
  <2>2. PcFits
    BY DEF Init, PcFits, Fits
  <2>3. ASSUME NEW t \in Threads PROVE ProperRest(todo[t], Before(t))
    <3>1. todo[t] = <<>> /\ Before(t) = 0
      BY DEF Init, Before
    <3> QED
      BY <3>1, ProperEnds
  <2>4. Owners = {} /\ Leaving = {} /\ Passing = {} /\ Waiting = {} /\ Places = {}
    BY DEF Init, Owners, Leaving, Passing, Waiting, Places, GivesUp, PassesOn, Waits, In
  <2>5. Cardinality({}) = 0
    BY FS_EmptySet
  <2>6. OwnerRecorded /\ LeaversGone /\ PassedToWaiter
    BY <2>4 DEF Init, OwnerRecorded, LeaversGone, PassedToWaiter
  <2>7. Cardinality(Places) = 0 /\ Cardinality(Leaving) = 0 /\ Cardinality(Waiting) = 0
    BY <2>4, <2>5
  <2>8. LockCount = -1 /\ RecursionCount = 0 /\ LockSemaphore = 0
    BY DEF Init
  <2>9. InOnePlace /\ CountCounts
    BY <2>7, <2>8 DEF InOnePlace, CountCounts
  <2> QED
    BY <2>1, <2>2, <2>3, <2>6, <2>9 DEF SectionInv, PlaceInv, ProgramsNested
<1>2. SectionInv /\ [Next]_vars => SectionInv'
  <2> SUFFICES ASSUME SectionInv, [Next]_vars PROVE SectionInv'
    OBVIOUS
  <2>1. CASE Next
    <3>1. PICK t \in Threads : Step(t) \/ Start(t) \/ TimesOut(t) \/ Stray(t)
      BY <2>1 DEF Next
    <3>2. Moves(t) /\ Alone(t) /\ Proper(t)' /\ SectionTypeOK'
      BY <3>1, EnterMoves, LeaveMoves, OtherMoves DEF Step
    <3>3. PcFits' /\ ProgramsNested'
      BY <3>2, AloneKeeps DEF SectionInv
    <3>4. PlaceInv'
      BY <3>2, MovesKeep DEF SectionInv
    <3> QED
      BY <3>2, <3>3, <3>4 DEF SectionInv
  <2>2. CASE UNCHANGED vars
    BY <2>2 DEF vars, section, SectionInv, SectionTypeOK, PcFits, Fits, ProgramsNested, Before, ProperRest,
           PlaceInv, OwnerRecorded, InOnePlace, CountCounts, PassedToWaiter, LeaversGone, Owners,
           Leaving, Passing, Waiting, Places, GivesUp, PassesOn, Waits, In
  <2> QED
    BY <2>1, <2>2
<1> QED
  BY <1>1, <1>2, PTL DEF Spec

\* A critical section is in one place, with one thread, with one that is leaving it or in
\* LockSemaphore for one that waits, and LockCount and RecursionCount count exactly who
\* has it and who waits: for any number of threads and any nested programs.
\* (RtlEnterCriticalSection, wait_semaphore, RtlLeaveCriticalSection)
THEOREM SectionHandedOver == Spec => []HandedOver
<1>1. SectionInv => HandedOver
  BY DEF SectionInv, PlaceInv, OwnerRecorded, InOnePlace, CountCounts, PassedToWaiter, HandedOver,
         Owners, Leaving, Passing, Waiting, Places
<1> QED
  BY <1>1, SectionInvariant, PTL
=============================================================================
