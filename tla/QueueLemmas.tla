----------------------------- MODULE QueueLemmas -----------------------------
(***************************************************************************)
(* What the operations on wait queues do to a queue's members and to their *)
(* order: RemoveAt and RemoveFirst of SequencesExt, and Append.            *)
(***************************************************************************)
EXTENDS Integers, SequencesExt, SequenceTheorems, WellFoundedInduction, TLAPS

\* No member is in the queue twice.
Distinct(q) == \A i, j \in 1..Len(q) : q[i] = q[j] => i = j

\* A nonempty set of positions has a least one, and Min is in the set.
LEMMA MinIsMember ==
  ASSUME NEW I, I \subseteq Nat, I # {}
  PROVE  Min(I) \in I /\ \A y \in I : Min(I) <= y
<1> DEFINE Below == {ss \in Nat \X Nat : ss[1] < ss[2]}
<1>1. IsWellFoundedOn(Below, Nat)
  BY NatLessThanWellFounded DEF OpToRel
<1>2. \E x \in I : \A y \in I : x <= y
  <2>1. PICK x \in I : \A y \in I : <<y, x>> \notin Below
    BY <1>1, WFMin
  <2>2. \A y \in I : ~ (y < x)
    BY <2>1
  <2> QED
    BY <2>2
<1> QED
  BY <1>2 DEF Min

\* The members of a queue.
LEMMA ToSetMembers ==
  ASSUME NEW S, NEW q \in Seq(S)
  PROVE  /\ ToSet(q) = {q[i] : i \in 1..Len(q)}
         /\ ToSet(q) \subseteq S
BY LenProperties, ElementOfSeq DEF ToSet

\* RemoveAt takes one position out and moves the later ones up.
LEMMA RemoveAtElements ==
  ASSUME NEW S, NEW q \in Seq(S), NEW i \in 1..Len(q)
  PROVE  /\ RemoveAt(q, i) \in Seq(S)
         /\ Len(RemoveAt(q, i)) = Len(q) - 1
         /\ \A j \in 1..(Len(q) - 1) :
              RemoveAt(q, i)[j] = IF j < i THEN q[j] ELSE q[j + 1]
<1> DEFINE a == SubSeq(q, 1, i - 1)
           b == SubSeq(q, i + 1, Len(q))
<1>0. Len(q) \in Nat /\ \A k \in 1..Len(q) : q[k] \in S
  BY LenProperties, ElementOfSeq
<1>1. /\ a \in Seq(S) /\ Len(a) = i - 1
      /\ \A j \in 1..(i - 1) : a[j] = q[j]
  <2>1. \A k \in 1..(i - 1) : q[k] \in S
    BY <1>0
  <2>2. /\ a \in Seq(S)
        /\ Len(a) = IF 1 <= i - 1 THEN (i - 1) - 1 + 1 ELSE 0
        /\ \A j \in 1..((i - 1) - 1 + 1) : a[j] = q[1 + j - 1]
    BY <2>1, SubSeqProperties, 1 \in Int, i - 1 \in Int
  <2> HIDE DEF a
  <2> QED
    BY <2>2, <1>0
<1>2. /\ b \in Seq(S) /\ Len(b) = Len(q) - i
      /\ \A j \in 1..(Len(q) - i) : b[j] = q[i + j]
  <2>1. \A k \in (i + 1)..Len(q) : q[k] \in S
    BY <1>0
  <2>2. /\ b \in Seq(S)
        /\ Len(b) = IF i + 1 <= Len(q) THEN Len(q) - (i + 1) + 1 ELSE 0
        /\ \A j \in 1..(Len(q) - (i + 1) + 1) : b[j] = q[(i + 1) + j - 1]
    BY <2>1, SubSeqProperties, i + 1 \in Int, Len(q) \in Int, <1>0
  <2> HIDE DEF b
  <2> QED
    BY <2>2, <1>0
<1>3. RemoveAt(q, i) = a \o b
  BY DEF RemoveAt
<1> HIDE DEF a, b
<1>4. /\ a \o b \in Seq(S) /\ Len(a \o b) = Len(a) + Len(b)
      /\ \A j \in 1..(Len(a) + Len(b)) : (a \o b)[j] = IF j <= Len(a) THEN a[j] ELSE b[j - Len(a)]
  BY <1>1, <1>2, ConcatProperties
<1> QED
  BY <1>0, <1>1, <1>2, <1>3, <1>4

\* RemoveFirst of a member takes out one of its positions.
LEMMA RemoveFirstIsRemoveAt ==
  ASSUME NEW S, NEW q \in Seq(S), NEW e \in ToSet(q)
  PROVE  \E i \in 1..Len(q) : q[i] = e /\ RemoveFirst(q, e) = RemoveAt(q, i)
<1> DEFINE I == {i \in 1..Len(q) : q[i] = e}
<1>1. PICK k \in 1..Len(q) : q[k] = e
  BY ToSetMembers
<1>2. I # {} /\ I \subseteq Nat
  BY <1>1
<1>3. RemoveFirst(q, e) = RemoveAt(q, Min(I))
  BY <1>1, <1>2 DEF RemoveFirst, SelectInSeq
<1>4. Min(I) \in I
  BY <1>2, MinIsMember
<1> QED
  BY <1>3, <1>4

\* Removing what is not there changes nothing.
LEMMA RemoveFirstAbsent ==
  ASSUME NEW S, NEW q \in Seq(S), NEW e, e \notin ToSet(q)
  PROVE  RemoveFirst(q, e) = q
BY ToSetMembers DEF RemoveFirst

\* RemoveFirst stays within the element type.
LEMMA RemoveFirstType ==
  ASSUME NEW S, NEW q \in Seq(S), NEW e
  PROVE  RemoveFirst(q, e) \in Seq(S)
<1>1. CASE e \in ToSet(q)
  BY <1>1, RemoveFirstIsRemoveAt, RemoveAtElements
<1>2. CASE e \notin ToSet(q)
  BY <1>2, RemoveFirstAbsent
<1> QED
  BY <1>1, <1>2

\* remove_queue() of a queue without duplicates: the member is gone, the others
\* stay, and there are still no duplicates.
LEMMA RemoveFirstDistinct ==
  ASSUME NEW S, NEW q \in Seq(S), NEW e, Distinct(q)
  PROVE  /\ Distinct(RemoveFirst(q, e))
         /\ ToSet(RemoveFirst(q, e)) = ToSet(q) \ {e}
<1>1. CASE e \notin ToSet(q)
  BY <1>1, RemoveFirstAbsent, Zenon
<1>2. CASE e \in ToSet(q)
  <2>1. PICK i \in 1..Len(q) : q[i] = e /\ RemoveFirst(q, e) = RemoveAt(q, i)
    BY <1>2, RemoveFirstIsRemoveAt
  <2> DEFINE r == RemoveAt(q, i)
  <2>2. /\ r \in Seq(S) /\ Len(r) = Len(q) - 1 /\ Len(q) \in Nat
        /\ \A j \in 1..(Len(q) - 1) : r[j] = IF j < i THEN q[j] ELSE q[j + 1]
    BY RemoveAtElements, LenProperties
  <2> HIDE DEF r
  <2>3. Distinct(r)
    BY <2>2 DEF Distinct
  <2>4. ToSet(r) = {r[j] : j \in 1..Len(r)} /\ ToSet(q) = {q[j] : j \in 1..Len(q)}
    BY <2>2, ToSetMembers
  <2>5. \A x \in ToSet(r) : x \in ToSet(q) \ {e}
    BY <2>1, <2>2, <2>4 DEF Distinct
  <2>6. \A x \in ToSet(q) \ {e} : x \in ToSet(r)
    <3> SUFFICES ASSUME NEW j \in 1..Len(q), q[j] # e
                 PROVE  q[j] \in ToSet(r)
      BY <2>4
    <3>1. j # i
      BY <2>1
    <3>2. CASE j < i
      <4>1. j \in 1..Len(r) /\ r[j] = q[j]
        BY <3>2, <2>2
      <4> QED
        BY <4>1, <2>4
    <3>3. CASE j > i
      <4>1. j - 1 \in 1..Len(r) /\ r[j - 1] = q[j]
        BY <3>3, <2>2
      <4> QED
        BY <4>1, <2>4
    <3> QED
      BY <3>1, <3>2, <3>3
  <2> QED
    BY <2>1, <2>3, <2>5, <2>6 DEF r
<1> QED
  BY <1>1, <1>2

\* add_queue() of a thread that is not in the queue yet.
LEMMA AppendDistinct ==
  ASSUME NEW S, NEW q \in Seq(S), NEW e \in S
  PROVE  /\ Append(q, e) \in Seq(S)
         /\ ToSet(Append(q, e)) = ToSet(q) \union {e}
         /\ Distinct(q) /\ e \notin ToSet(q) => Distinct(Append(q, e))
<1> DEFINE r == Append(q, e)
<1>1. /\ r \in Seq(S) /\ Len(r) = Len(q) + 1 /\ Len(q) \in Nat
      /\ \A i \in 1..Len(q) : r[i] = q[i]
      /\ r[Len(q) + 1] = e
  BY AppendProperties, LenProperties
<1> HIDE DEF r
<1>2. ToSet(r) = {r[j] : j \in 1..Len(r)} /\ ToSet(q) = {q[j] : j \in 1..Len(q)}
  BY <1>1, ToSetMembers
<1>3. ToSet(r) = ToSet(q) \union {e}
  <2>1. \A x \in ToSet(r) : x \in ToSet(q) \union {e}
    BY <1>1, <1>2
  <2>2. e \in ToSet(r)
    BY <1>1, <1>2
  <2>3. \A x \in ToSet(q) : x \in ToSet(r)
    BY <1>1, <1>2
  <2> QED
    BY <2>1, <2>2, <2>3
<1>4. ASSUME Distinct(q), e \notin ToSet(q) PROVE Distinct(r)
  BY <1>1, <1>2, <1>4 DEF Distinct
<1> QED
  BY <1>1, <1>3, <1>4 DEF r

\* The call stack: what lies below the top frame, and what is pushed on it.
LEMMA ToSetTail ==
  ASSUME NEW S, NEW q \in Seq(S), q # <<>>
  PROVE  /\ Head(q) \in S /\ Tail(q) \in Seq(S)
         /\ ToSet(q) = {Head(q)} \union ToSet(Tail(q))
<1>1. /\ Head(q) \in S /\ Tail(q) \in Seq(S) /\ Len(Tail(q)) = Len(q) - 1
      /\ \A i \in 1..Len(Tail(q)) : Tail(q)[i] = q[i + 1]
  BY HeadTailProperties
<1>2. Len(q) \in Nat \ {0} /\ Head(q) = q[1]
  BY EmptySeq, LenProperties
<1>3. ToSet(q) = {q[j] : j \in 1..Len(q)} /\ ToSet(Tail(q)) = {Tail(q)[j] : j \in 1..Len(Tail(q))}
  BY <1>1, ToSetMembers
<1>4. \A x \in ToSet(q) : x \in {Head(q)} \union ToSet(Tail(q))
  <2> SUFFICES ASSUME NEW j \in 1..Len(q), j # 1
               PROVE  q[j] \in ToSet(Tail(q))
    BY <1>2, <1>3
  <2>1. j - 1 \in 1..Len(Tail(q)) /\ Tail(q)[j - 1] = q[j]
    BY <1>1, <1>2
  <2> QED
    BY <1>3, <2>1
<1>5. \A x \in ToSet(Tail(q)) : x \in ToSet(q)
  <2> SUFFICES ASSUME NEW j \in 1..Len(Tail(q))
               PROVE  Tail(q)[j] \in ToSet(q)
    BY <1>3
  <2>1. j + 1 \in 1..Len(q) /\ Tail(q)[j] = q[j + 1]
    BY <1>1, <1>2
  <2> QED
    BY <1>3, <2>1
<1>6. Head(q) \in ToSet(q)
  BY <1>2, <1>3
<1> QED
  BY <1>1, <1>4, <1>5, <1>6

\* The elements of a concatenation are those of its two parts.
LEMMA ToSetConcat ==
  ASSUME NEW S, NEW p \in Seq(S), NEW q \in Seq(S)
  PROVE  p \o q \in Seq(S) /\ ToSet(p \o q) = ToSet(p) \union ToSet(q)
<1>1. \A r : ToSet(r) = Range(r)
  BY DEF ToSet, Range
<1> QED
  BY <1>1, RangeConcatenation, ConcatProperties

\* A push adds one element.
LEMMA ToSetPush ==
  ASSUME NEW S, NEW q \in Seq(S), NEW f \in S, NEW s, s = <<f>> \o q
  PROVE  s \in Seq(S) /\ ToSet(s) = {f} \union ToSet(q)
<1> DEFINE one == <<f>>
<1>1. one \in Seq(S) /\ ToSet(one) = {f} /\ s = one \o q
  BY DEF ToSet
<1> HIDE DEF one
<1>2. \A r : ToSet(r) = Range(r)
  BY DEF ToSet, Range
<1> QED
  BY <1>1, <1>2, RangeConcatenation, ConcatProperties

\* The elements of the sequences of at most two elements
LEMMA ToSetShort ==
  ASSUME NEW S, NEW f \in S, NEW g \in S
  PROVE  /\ <<f>> \in Seq(S) /\ ToSet(<<f>>) = {f}
         /\ <<f, g>> \in Seq(S) /\ ToSet(<<f, g>>) = {f, g}
         /\ <<>> \in Seq(S) /\ ToSet(<<>>) = {}
BY DEF ToSet

\* The head of a queue without duplicates is not also behind itself.
LEMMA TailDistinct ==
  ASSUME NEW S, NEW q \in Seq(S), q # <<>>, Distinct(q)
  PROVE  Distinct(Tail(q)) /\ ToSet(Tail(q)) = ToSet(q) \ {Head(q)}
<1>1. /\ Tail(q) \in Seq(S) /\ Len(Tail(q)) = Len(q) - 1
      /\ \A i \in 1..Len(Tail(q)) : Tail(q)[i] = q[i + 1]
  BY HeadTailProperties
<1>2. Len(q) \in Nat \ {0} /\ Head(q) = q[1]
  BY EmptySeq, LenProperties
<1>3. ToSet(q) = {Head(q)} \union ToSet(Tail(q))
  BY ToSetTail
<1>4. Distinct(Tail(q))
  BY <1>1, <1>2 DEF Distinct
<1>5. Head(q) \notin ToSet(Tail(q))
  <2>1. ToSet(Tail(q)) = {Tail(q)[j] : j \in 1..Len(Tail(q))}
    BY <1>1, ToSetMembers
  <2> SUFFICES ASSUME NEW j \in 1..Len(Tail(q)), Tail(q)[j] = Head(q) PROVE FALSE
    BY <2>1
  <2>2. q[j + 1] = q[1] /\ j + 1 \in 1..Len(q) /\ 1 \in 1..Len(q) /\ j + 1 # 1
    BY <1>1, <1>2
  <2> QED
    BY <2>2 DEF Distinct
<1> QED
  BY <1>3, <1>4, <1>5

\* What is only at the end of a queue stays only there when a member leaves.
LEMMA RemoveFirstLast ==
  ASSUME NEW S, NEW q \in Seq(S), NEW e, NEW U, \A i \in 1..Len(q) : q[i] \in U => i = Len(q)
  PROVE  \A i \in 1..Len(RemoveFirst(q, e)) :
           RemoveFirst(q, e)[i] \in U => i = Len(RemoveFirst(q, e))
<1>1. CASE e \notin ToSet(q)
  BY <1>1, RemoveFirstAbsent
<1>2. CASE e \in ToSet(q)
  <2>1. PICK k \in 1..Len(q) : RemoveFirst(q, e) = RemoveAt(q, k)
    BY <1>2, RemoveFirstIsRemoveAt
  <2>2. PICK r : r = RemoveAt(q, k)
    OBVIOUS
  <2>3. /\ Len(r) = Len(q) - 1 /\ Len(q) \in Nat
        /\ \A j \in 1..(Len(q) - 1) : r[j] = IF j < k THEN q[j] ELSE q[j + 1]
    BY <2>2, RemoveAtElements, LenProperties
  <2>4. ASSUME NEW j \in 1..Len(r), r[j] \in U PROVE j = Len(r)
    <3>1. CASE j < k
      BY <2>3, <2>4, <3>1
    <3>2. CASE ~ (j < k)
      <4>1. q[j + 1] \in U /\ j + 1 \in 1..Len(q)
        BY <2>3, <2>4, <3>2
      <4> QED
        BY <2>3, <4>1
    <3> QED
      BY <3>1, <3>2
  <2> QED
    BY <2>1, <2>2, <2>4
<1> QED
  BY <1>1, <1>2

\* Induction up to N: what holds of 0, and of n when it does of n - 1, is so up to N.
LEMMA UpTo ==
  ASSUME NEW P, NEW N \in Nat, 0 \in P, \A n \in 1..N : n - 1 \in P => n \in P
  PROVE  \A n \in 0..N : n \in P
<1> DEFINE Bad == {n \in 0..N : n \notin P}
<1>1. SUFFICES ASSUME Bad # {} PROVE FALSE
  OBVIOUS
<1>2. PICK k \in Bad : \A n \in Bad : k <= n
  <2>1. Bad \subseteq Nat
    OBVIOUS
  <2> HIDE DEF Bad
  <2> QED
    BY <1>1, <2>1, MinIsMember
<1>3. k \in 1..N /\ k - 1 \in 0..N
  BY <1>2
<1>4. k - 1 \in P
  BY <1>2, <1>3
<1> QED
  BY <1>2, <1>3, <1>4
=============================================================================
