---------------------------- MODULE CommonProofs ----------------------------
(***************************************************************************)
(* Facts that the proofs of several modules rest on: about sequences, the  *)
(* queues of MessageQueueProtocol (the receiver sees the messages in the   *)
(* order in which they were enqueued) and sets of numbers.                 *)
(***************************************************************************)
EXTENDS MessageQueueProtocol, SequenceTheorems, FiniteSetTheorems, TLAPS

-----------------------------------------------------------------------------
(* Sequences.                                                              *)

\* The first message of a sequence, and the rest.
LEMMA HeadAndTail ==
  ASSUME NEW S, NEW s \in Seq(S), s # <<>>
  PROVE  /\ Head(s) \in S /\ Head(s) = s[1]
         /\ Tail(s) \in Seq(S) /\ Len(Tail(s)) = Len(s) - 1
         /\ \A i \in 1 .. Len(Tail(s)) : Tail(s)[i] = s[i + 1]
         /\ Len(s) \in Nat \ {0}
         /\ s = <<Head(s)>> \o Tail(s)
<1>1. Len(s) \in Nat /\ Len(s) # 0
  BY EmptySeq, LenProperties
<1>2. /\ Head(s) \in S /\ Head(s) = s[1]
      /\ Tail(s) \in Seq(S) /\ Len(Tail(s)) = Len(s) - 1
      /\ \A i \in 1 .. Len(Tail(s)) : Tail(s)[i] = s[i + 1]
  BY <1>1, HeadTailProperties, ElementOfSeq
<1>3. <<Head(s)>> \in Seq(S) /\ Len(<<Head(s)>>) = 1 /\ <<Head(s)>>[1] = s[1]
  BY <1>2
<1>4. /\ <<Head(s)>> \o Tail(s) \in Seq(S) /\ Len(<<Head(s)>> \o Tail(s)) = Len(s)
      /\ \A i \in 1 .. Len(s) : (<<Head(s)>> \o Tail(s))[i] = s[i]
  <2>1. /\ <<Head(s)>> \o Tail(s) \in Seq(S) /\ Len(<<Head(s)>> \o Tail(s)) = Len(s)
        /\ \A i \in 1 .. Len(s) : (<<Head(s)>> \o Tail(s))[i] =
             IF i <= 1 THEN <<Head(s)>>[i] ELSE Tail(s)[i - 1]
    BY <1>1, <1>2, <1>3, ConcatProperties
  <2>2. ASSUME NEW i \in 1 .. Len(s)
        PROVE  (<<Head(s)>> \o Tail(s))[i] = s[i]
    <3>1. CASE i = 1
      BY <2>1, <1>3, <3>1
    <3>2. CASE i # 1
      <4>1. i - 1 \in 1 .. Len(Tail(s)) /\ ~ i <= 1
        BY <1>1, <1>2, <3>2
      <4> QED
        BY <4>1, <2>1, <1>2
    <3> QED
      BY <3>1, <3>2
  <2> QED
    BY <2>1, <2>2
<1>5. <<Head(s)>> \o Tail(s) = s
  BY <1>4, SeqEqual
<1> QED
  BY <1>1, <1>2, <1>5

\* Appending is concatenation with a sequence of one element.
LEMMA Appending ==
  ASSUME NEW S, NEW s \in Seq(S), NEW x \in S
  PROVE  /\ <<x>> \in Seq(S) /\ Len(<<x>>) = 1 /\ <<x>>[1] = x
         /\ Append(s, x) = s \o <<x>> /\ Append(s, x) \in Seq(S)
         /\ Len(Append(s, x)) = Len(s) + 1
         /\ Append(s, x) # <<>>
<1>1. <<x>> \in Seq(S) /\ Len(<<x>>) = 1 /\ <<x>>[1] = x
  OBVIOUS
<1>2. Append(s, x) = s \o <<x>>
  BY AppendIsConcat
<1>3. Append(s, x) \in Seq(S) /\ Len(Append(s, x)) = Len(s) + 1
  BY AppendProperties
<1>4. Append(s, x) # <<>>
  BY <1>3, LenProperties, EmptySeq
<1> QED
  BY <1>1, <1>2, <1>3, <1>4

\* A sequence with an element in front of it.
LEMMA Prefixing ==
  ASSUME NEW S, NEW t \in Seq(S), NEW x \in S
  PROVE  <<x>> \o t # <<>> /\ Head(<<x>> \o t) = x /\ Tail(<<x>> \o t) = t
<1>1. <<x>> \in Seq(S) /\ Len(<<x>>) = 1 /\ <<x>>[1] = x /\ Len(t) \in Nat
  BY LenProperties
<1>2. /\ <<x>> \o t \in Seq(S) /\ Len(<<x>> \o t) = 1 + Len(t)
      /\ \A i \in 1 .. 1 + Len(t) : (<<x>> \o t)[i] = IF i <= 1 THEN <<x>>[i] ELSE t[i - 1]
  BY <1>1, ConcatProperties
<1>3. <<x>> \o t # <<>>
  BY <1>1, <1>2, EmptySeq
<1>4. /\ Head(<<x>> \o t) = (<<x>> \o t)[1]
      /\ Tail(<<x>> \o t) \in Seq(S) /\ Len(Tail(<<x>> \o t)) = Len(t)
      /\ \A i \in 1 .. Len(t) : Tail(<<x>> \o t)[i] = (<<x>> \o t)[i + 1]
  BY <1>1, <1>2, <1>3, HeadAndTail
<1>5. Tail(<<x>> \o t) = t
  <2>1. ASSUME NEW i \in 1 .. Len(t)
        PROVE  Tail(<<x>> \o t)[i] = t[i]
    <3>1. i + 1 \in 1 .. 1 + Len(t) /\ ~ i + 1 <= 1 /\ i + 1 - 1 = i
      BY <1>1
    <3> QED
      BY <1>2, <1>4, <3>1
  <2> QED
    BY <1>4, <2>1, SeqEqual
<1> QED
  BY <1>1, <1>2, <1>3, <1>4, <1>5

\* Appending to the second part of a concatenation appends to the whole.
LEMMA AppendingToConcatenation ==
  ASSUME NEW S, NEW s \in Seq(S), NEW t \in Seq(S), NEW x \in S
  PROVE  s \o Append(t, x) = Append(s \o t, x)
<1>1. <<x>> \in Seq(S) /\ s \o t \in Seq(S)
  BY ConcatProperties
<1>2. Append(t, x) = t \o <<x>> /\ Append(s \o t, x) = (s \o t) \o <<x>>
  BY <1>1, AppendIsConcat
<1> QED
  BY <1>1, <1>2, ConcatAssociative

\* The first message of a concatenation is the first message of its first part.
LEMMA FirstOfConcatenation ==
  ASSUME NEW S, NEW s \in Seq(S), NEW t \in Seq(S), s # <<>>
  PROVE  s \o t # <<>> /\ Head(s \o t) = Head(s) /\ Tail(s \o t) = Tail(s) \o t
<1>1. Head(s) \in S /\ Tail(s) \in Seq(S) /\ s = <<Head(s)>> \o Tail(s)
  BY HeadAndTail
<1>2. <<Head(s)>> \in Seq(S) /\ Tail(s) \o t \in Seq(S)
  BY <1>1, ConcatProperties
<1>3. s \o t = <<Head(s)>> \o (Tail(s) \o t)
  BY <1>1, <1>2, ConcatAssociative
<1> QED
  BY <1>1, <1>2, <1>3, Prefixing

\* An element may be counted as the last one of a part or as the first one of the next.
LEMMA MovedAcross ==
  ASSUME NEW S, NEW s \in Seq(S), NEW t \in Seq(S), NEW x \in S
  PROVE  Append(s, x) \o t = s \o (<<x>> \o t)
<1>1. <<x>> \in Seq(S) /\ Append(s, x) = s \o <<x>>
  BY Appending
<1> QED
  BY <1>1, ConcatAssociative

\* The parts of a concatenation.
LEMMA PartsOfConcatenation ==
  ASSUME NEW S, NEW s \in Seq(S), NEW t \in Seq(S)
  PROVE  /\ SubSeq(s \o t, 1, Len(s)) = s
         /\ SubSeq(s \o t, Len(s) + 1, Len(s \o t)) = t
<1> DEFINE c == s \o t
           m == Len(s)
           n == Len(t)
           p == SubSeq(c, 1, m)
           q == SubSeq(c, m + 1, m + n)
<1>1. /\ m \in Nat /\ n \in Nat /\ c \in Seq(S) /\ Len(c) = m + n
      /\ \A i \in 1 .. m + n : c[i] = IF i <= m THEN s[i] ELSE t[i - m]
  BY ConcatProperties, LenProperties
<1> HIDE DEF c
<1>2. \A i \in 1 .. m + n : c[i] \in S
  BY <1>1, ElementOfSeq
<1>3. p = s
  <2>1. \A i \in 1 .. m : c[i] \in S
    BY <1>1, <1>2
  <2>2. /\ p \in Seq(S) /\ Len(p) = IF 1 <= m THEN m - 1 + 1 ELSE 0
        /\ \A i \in 1 .. m - 1 + 1 : p[i] = c[1 + i - 1]
    <3> HIDE DEF m
    <3> QED
      BY <1>1, <2>1, SubSeqProperties
  <2>3. Len(p) = m
    <3>1. Len(p) = IF 1 <= m THEN m - 1 + 1 ELSE 0
      BY <2>2
    <3> HIDE DEF m, p
    <3> QED
      BY <1>1, <3>1
  <2>4. ASSUME NEW i \in 1 .. m
        PROVE  p[i] = s[i]
    <3>1. i \in 1 .. m - 1 + 1 /\ 1 + i - 1 = i /\ i \in 1 .. m + n /\ i <= m
      BY <1>1
    <3> HIDE DEF p
    <3> QED
      BY <1>1, <2>2, <3>1
  <2> HIDE DEF p
  <2> QED
    BY <2>2, <2>3, <2>4, SeqEqual
<1>4. q = t
  <2>1. \A i \in m + 1 .. m + n : c[i] \in S
    BY <1>1, <1>2
  <2>2. /\ q \in Seq(S) /\ Len(q) = IF m + 1 <= m + n THEN m + n - (m + 1) + 1 ELSE 0
        /\ \A i \in 1 .. m + n - (m + 1) + 1 : q[i] = c[m + 1 + i - 1]
    <3> DEFINE a == m + 1
               b == m + n
    <3>1. a \in Int /\ b \in Int
      BY <1>1
    <3>2. \A i \in a .. b : c[i] \in S
      BY <2>1
    <3> HIDE DEF a, b
    <3>3. /\ SubSeq(c, a, b) \in Seq(S)
          /\ Len(SubSeq(c, a, b)) = IF a <= b THEN b - a + 1 ELSE 0
          /\ \A i \in 1 .. b - a + 1 : SubSeq(c, a, b)[i] = c[a + i - 1]
      BY <3>1, <3>2, SubSeqProperties
    <3> QED
      BY <3>3 DEF a, b
  <2>3. Len(q) = n
    <3>1. Len(q) = IF m + 1 <= m + n THEN m + n - (m + 1) + 1 ELSE 0
      BY <2>2
    <3> HIDE DEF m, n, q
    <3> QED
      BY <1>1, <3>1
  <2>4. ASSUME NEW i \in 1 .. n
        PROVE  q[i] = t[i]
    <3>1. /\ i \in 1 .. m + n - (m + 1) + 1 /\ m + 1 + i - 1 = m + i /\ m + i \in 1 .. m + n
          /\ ~ m + i <= m /\ m + i - m = i
      BY <1>1
    <3> HIDE DEF q
    <3>2. q[i] = c[m + i]
      BY <2>2, <3>1
    <3>3. c[m + i] = t[i]
      BY <1>1, <3>1
    <3> QED
      BY <3>2, <3>3
  <2> HIDE DEF q
  <2> QED
    BY <2>2, <2>3, <2>4, SeqEqual
<1> QED
  BY <1>1, <1>3, <1>4 DEF c

\* The last message of a sequence, and those before it.
LEMMA FrontAndLast ==
  ASSUME NEW S, NEW s \in Seq(S), s # <<>>
  PROVE  /\ Len(s) \in Nat \ {0} /\ Last(s) \in S /\ Last(s) = s[Len(s)]
         /\ Front(s) \in Seq(S) /\ Len(Front(s)) = Len(s) - 1
         /\ \A i \in 1 .. Len(s) - 1 : Front(s)[i] = s[i]
<1> DEFINE n == Len(s)
           f == Front(s)
<1>1. n \in Nat /\ n >= 1
  BY EmptySeq, LenProperties
<1>2. Last(s) = s[n] /\ Last(s) \in S
  BY <1>1, ElementOfSeq DEF Last
<1>3. /\ f \in Seq(S)
      /\ Len(f) = IF 1 <= n - 1 THEN n - 1 - 1 + 1 ELSE 0
      /\ \A i \in 1 .. n - 1 - 1 + 1 : f[i] = s[1 + i - 1]
  <2>1. f = SubSeq(s, 1, n - 1)
    BY DEF Front
  <2>2. \A i \in 1 .. n - 1 : s[i] \in S
    BY <1>1, ElementOfSeq
  <2> HIDE DEF f
  <2> QED
    BY <1>1, <2>1, <2>2, SubSeqProperties
<1>4. Len(f) = n - 1
  <2>1. (IF 1 <= n - 1 THEN n - 1 - 1 + 1 ELSE 0) = n - 1
    <3> HIDE DEF n
    <3> QED
      BY <1>1
  <2>2. Len(f) = IF 1 <= n - 1 THEN n - 1 - 1 + 1 ELSE 0
    BY <1>3
  <2> HIDE DEF n, f
  <2> QED
    BY <2>1, <2>2
<1>5. ASSUME NEW i \in 1 .. n - 1
      PROVE  f[i] = s[i]
  <2>1. i \in 1 .. n - 1 - 1 + 1 /\ 1 + i - 1 = i
    BY <1>1
  <2>2. f[i] = s[1 + i - 1]
    <3> HIDE DEF f
    <3> QED
      BY <1>3, <2>1
  <2> QED
    BY <2>1, <2>2
<1> QED
  BY <1>1, <1>2, <1>3, <1>4, <1>5

\* A sequence of one element.
LEMMA Singleton ==
  ASSUME NEW S, NEW s \in Seq(S), Len(s) = 1
  PROVE  s # <<>> /\ s[1] \in S /\ Tail(s) = <<>> /\ DOMAIN s = {1}
<1>1. s # <<>> /\ s[1] \in S /\ DOMAIN s = 1 .. 1
  BY LenProperties, ElementOfSeq, EmptySeq
<1>2. Tail(s) \in Seq(S) /\ Len(Tail(s)) = 0
  BY <1>1, HeadAndTail
<1>3. Tail(s) = <<>>
  BY <1>2, EmptySeq
<1> QED
  BY <1>1, <1>3

-----------------------------------------------------------------------------
(* Queues.                                                                 *)

\* What pml::MessageQueueProtocol delivers: all messages, in order.
LEMMA PendingOfQueue ==
  ASSUME NEW S, NEW q \in Seq(S)
  PROVE  /\ Pending(q) \in Seq(S) /\ Len(Pending(q)) = Len(q) /\ Len(q) \in Nat
         /\ \A i \in 1 .. Len(q) : Pending(q)[i] = q[Len(q) - i + 1]
<1>1. Len(q) \in Nat /\ \A i \in 1 .. Len(q) : q[i] \in S
  BY LenProperties, ElementOfSeq
<1>2. Pending(q) = [i \in 1 .. Len(q) |-> q[Len(q) - i + 1]]
  BY DEF Pending, Reverse
<1>3. \A i \in 1 .. Len(q) : Len(q) - i + 1 \in 1 .. Len(q)
  BY <1>1
<1>4. Pending(q) \in [1 .. Len(q) -> S]
  BY <1>1, <1>2, <1>3
<1>5. Pending(q) \in Seq(S)
  BY <1>1, <1>4, IsASeq
<1>6. Len(Pending(q)) = Len(q)
  BY <1>1, <1>4, <1>5, LenProperties
<1> QED
  BY <1>1, <1>2, <1>5, <1>6

\* An enqueued message comes last.
LEMMA EnqueuedLast ==
  ASSUME NEW S, NEW q \in Seq(S), NEW m \in S
  PROVE  /\ Enqueue(q, m) \in Seq(S) /\ Len(Enqueue(q, m)) = Len(q) + 1
         /\ Pending(Enqueue(q, m)) = Append(Pending(q), m)
<1> DEFINE e == Enqueue(q, m)
<1>1. <<m>> \in Seq(S) /\ Len(<<m>>) = 1 /\ <<m>>[1] = m /\ Len(q) \in Nat
  BY LenProperties
<1>2. /\ e \in Seq(S) /\ Len(e) = 1 + Len(q)
      /\ \A i \in 1 .. 1 + Len(q) : e[i] = IF i <= 1 THEN <<m>>[i] ELSE q[i - 1]
  BY <1>1, ConcatProperties DEF Enqueue
<1>3. /\ Pending(e) \in Seq(S) /\ Len(Pending(e)) = Len(e)
      /\ \A i \in 1 .. Len(e) : Pending(e)[i] = e[Len(e) - i + 1]
  BY <1>2, PendingOfQueue
<1>4. /\ Pending(q) \in Seq(S) /\ Len(Pending(q)) = Len(q)
      /\ \A i \in 1 .. Len(q) : Pending(q)[i] = q[Len(q) - i + 1]
  BY PendingOfQueue
<1>5. /\ Append(Pending(q), m) \in Seq(S) /\ Len(Append(Pending(q), m)) = Len(q) + 1
      /\ \A i \in 1 .. Len(q) : Append(Pending(q), m)[i] = Pending(q)[i]
      /\ Append(Pending(q), m)[Len(q) + 1] = m
  BY <1>4, AppendProperties
<1>6. ASSUME NEW i \in 1 .. Len(e)
      PROVE  Pending(e)[i] = Append(Pending(q), m)[i]
  <2>1. CASE i = Len(q) + 1
    <3>1. Len(e) - i + 1 = 1 /\ 1 \in 1 .. 1 + Len(q)
      BY <1>1, <1>2, <2>1
    <3>2. Pending(e)[i] = e[1]
      BY <1>3, <3>1
    <3>3. e[1] = m
      <4>1. e[1] = IF 1 <= 1 THEN <<m>>[1] ELSE q[1 - 1]
        BY <1>2, <3>1
      <4> QED
        BY <4>1
    <3> QED
      BY <1>5, <2>1, <3>2, <3>3
  <2>2. CASE i # Len(q) + 1
    <3>1. /\ i \in 1 .. Len(q) /\ Len(e) - i + 1 \in 1 .. 1 + Len(q)
          /\ ~ Len(e) - i + 1 <= 1 /\ Len(e) - i + 1 - 1 = Len(q) - i + 1
      BY <1>1, <1>2, <2>2
    <3> QED
      BY <1>2, <1>3, <1>4, <1>5, <3>1
  <2> QED
    BY <2>1, <2>2
<1>7. Pending(e) = Append(Pending(q), m)
  <2>1. Len(Pending(e)) = Len(Append(Pending(q), m))
    BY <1>1, <1>2, <1>3, <1>5
  <2>2. \A i \in 1 .. Len(Pending(e)) : Pending(e)[i] = Append(Pending(q), m)[i]
    BY <1>3, <1>6
  <2> HIDE DEF e
  <2> QED
    BY <1>3, <1>5, <2>1, <2>2, SeqEqual
<1> QED
  BY <1>1, <1>2, <1>7

\* The element the receiver takes from the queue comes first.
LEMMA NextFirst ==
  ASSUME NEW S, NEW q \in Seq(S), q # EmptyQueue
  PROVE  /\ NextElement(q) \in S /\ PopNextElement(q) \in Seq(S)
         /\ Pending(q) = <<NextElement(q)>> \o Pending(PopNextElement(q))
<1> DEFINE f == PopNextElement(q)
           x == NextElement(q)
<1>1. Len(q) \in Nat /\ Len(q) >= 1
  BY EmptySeq, LenProperties DEF EmptyQueue
<1>2. x = q[Len(q)] /\ x \in S
  BY FrontAndLast DEF NextElement, EmptyQueue
<1>3. /\ f \in Seq(S) /\ Len(f) = Len(q) - 1
      /\ \A i \in 1 .. Len(q) - 1 : f[i] = q[i]
  BY FrontAndLast DEF PopNextElement, EmptyQueue
<1>4. /\ Pending(f) \in Seq(S) /\ Len(Pending(f)) = Len(f)
      /\ \A i \in 1 .. Len(f) : Pending(f)[i] = f[Len(f) - i + 1]
  BY <1>3, PendingOfQueue
<1>5. /\ Pending(q) \in Seq(S) /\ Len(Pending(q)) = Len(q)
      /\ \A i \in 1 .. Len(q) : Pending(q)[i] = q[Len(q) - i + 1]
  BY PendingOfQueue
<1>6. <<x>> \in Seq(S) /\ Len(<<x>>) = 1 /\ <<x>>[1] = x
  BY <1>2
<1>7. /\ <<x>> \o Pending(f) \in Seq(S) /\ Len(<<x>> \o Pending(f)) = Len(q)
      /\ \A i \in 1 .. Len(q) :
           (<<x>> \o Pending(f))[i] = IF i <= 1 THEN <<x>>[i] ELSE Pending(f)[i - 1]
  BY <1>1, <1>3, <1>4, <1>6, ConcatProperties
<1>8. ASSUME NEW i \in 1 .. Len(q)
      PROVE  Pending(q)[i] = (<<x>> \o Pending(f))[i]
  <2>1. CASE i = 1
    <3>1. Len(q) - i + 1 = Len(q)
      BY <1>1, <2>1
    <3> QED
      BY <1>2, <1>5, <1>6, <1>7, <2>1, <3>1
  <2>2. CASE i # 1
    <3>1. /\ ~ i <= 1 /\ i - 1 \in 1 .. Len(f)
          /\ Len(f) - (i - 1) + 1 = Len(q) - i + 1
          /\ Len(q) - i + 1 \in 1 .. Len(q) - 1
      BY <1>1, <1>3, <2>2
    <3> QED
      BY <1>3, <1>4, <1>5, <1>7, <3>1
  <2> QED
    BY <2>1, <2>2
<1>9. Pending(q) = <<x>> \o Pending(f)
  <2> HIDE DEF f, x
  <2> QED
    BY <1>5, <1>7, <1>8, SeqEqual
<1> QED
  BY <1>2, <1>3, <1>9

-----------------------------------------------------------------------------
(* Least and greatest numbers.                                             *)

\* A set of natural numbers has a least one.
LEMMA LeastNumber ==
  ASSUME NEW S, S \subseteq Nat, S # {}
  PROVE  Min(S) \in S /\ \A n \in S : Min(S) <= n
<1>1. PICK x \in S : \A y \in S : <<y, x>> \notin OpToRel(<, Nat)
  <2> DEFINE R == OpToRel(<, Nat)
  <2>1. IsWellFoundedOn(R, Nat)
    BY NatLessThanWellFounded
  <2> HIDE DEF R
  <2>2. \E x \in S : \A y \in S : ~ (<<y, x>> \in R)
    BY <2>1, WFMin
  <2> QED
    BY <2>2 DEF R
<1>2. \A y \in S : x <= y
  <2>1. ASSUME NEW y \in S, y < x
        PROVE  FALSE
    <3>1. <<y, x>> \in OpToRel(<, Nat)
      BY <2>1 DEF OpToRel
    <3> QED
      BY <1>1, <3>1
  <2> QED
    BY <2>1
<1> QED
  BY <1>2 DEF Min

\* A bounded one has a greatest one.
LEMMA GreatestNumber ==
  ASSUME NEW b \in Nat, NEW S, S \subseteq 0 .. b, S # {}
  PROVE  Max(S) \in S /\ \A n \in S : n <= Max(S)
<1> DEFINE T == {m \in 0 .. b : b - m \in S}
<1>1. PICK s \in S : TRUE
  OBVIOUS
<1>2. b - s \in T
  <2>1. b - s \in 0 .. b /\ b - (b - s) = s
    OBVIOUS
  <2> QED
    BY <1>1, <2>1
<1>3. Min(T) \in T /\ \A m \in T : Min(T) <= m
  <2>1. T \subseteq Nat
    OBVIOUS
  <2> HIDE DEF T
  <2>2. T # {}
    BY <1>2
  <2> QED
    BY <2>1, <2>2, LeastNumber
<1>4. b - Min(T) \in S
  BY <1>3
<1>5. ASSUME NEW n \in S
      PROVE  n <= b - Min(T)
  <2>1. b - n \in 0 .. b /\ b - (b - n) = n
    OBVIOUS
  <2>2. Min(T) <= b - n
    BY <1>3, <2>1
  <2> QED
    BY <1>3, <2>2
<1>6. b - Min(T) >= b - Min(T)
  BY <1>3
<1>7. \E x \in S : \A y \in S : x >= y
  BY <1>3, <1>4, <1>5
<1> QED
  BY <1>7 DEF Max

\* The numbers below a number, and the bytes of a set of equally long channels.
LEMMA SizeOfRange ==
  ASSUME NEW n \in Nat
  PROVE  IsFiniteSet(0 .. n - 1) /\ Cardinality(0 .. n - 1) = n
<1>1. 0 \in Int /\ n - 1 \in Int
  OBVIOUS
<1>2. (IF 0 > n - 1 THEN 0 ELSE n - 1 - 0 + 1) = n
  OBVIOUS
<1>3. /\ IsFiniteSet(0 .. n - 1)
      /\ Cardinality(0 .. n - 1) = IF 0 > n - 1 THEN 0 ELSE n - 1 - 0 + 1
  BY <1>1, FS_Interval
<1> QED
  BY <1>2, <1>3

LEMMA SizeOfGrid ==
  ASSUME NEW C, IsFiniteSet(C), NEW n \in Nat
  PROVE  /\ IsFiniteSet(C \X (0 .. n - 1))
         /\ Cardinality(C \X (0 .. n - 1)) = Cardinality(C) * n
<1> DEFINE N == 0 .. n - 1
<1>1. IsFiniteSet(N) /\ Cardinality(N) = n
  BY SizeOfRange
<1> HIDE DEF N
<1>2. IsFiniteSet(C \X N) /\ Cardinality(C \X N) = Cardinality(C) * Cardinality(N)
  BY <1>1, FS_Product
<1>3. Cardinality(C \X N) = Cardinality(C) * n
  BY <1>1, <1>2
<1> QED
  BY <1>2, <1>3 DEF N
=============================================================================
