-------------------------- MODULE CollectionLemmas --------------------------
(***************************************************************************)
(* Facts about the operators on sequences and sums the models are built    *)
(* from: what each command on a Redis list keeps of the list's range and   *)
(* of its order, and how a sum over a finite set follows one summand.      *)
(***************************************************************************)
EXTENDS Integers, SequencesExt, SequenceTheorems, FiniteSetTheorems, NaturalsInduction,
        WellFoundedInduction, TLAPS

\* A nonempty set of naturals has a least element, and Min is it.
LEMMA MinOfNats ==
  ASSUME NEW I, I \subseteq Nat, I # {}
  PROVE  Min(I) \in I /\ \A y \in I : Min(I) <= y
<1>1. \A x, y \in Nat : <<y, x>> \in OpToRel(<, Nat) <=> y < x
  BY Zenon DEF OpToRel
<1>2. \E R : IsWellFoundedOn(R, Nat) /\ \A x, y \in Nat : <<y, x>> \in R <=> y < x
  BY <1>1, NatLessThanWellFounded, Zenon
<1>3. PICK R : IsWellFoundedOn(R, Nat) /\ \A x, y \in Nat : <<y, x>> \in R <=> y < x
  BY <1>2
<1>4. PICK x \in I : \A y \in I : ~ (<<y, x>> \in R)
  BY <1>3, WFMin
<1>5. \A y \in I : x <= y
  <2>1. TAKE y \in I
  <2>2. x \in Nat /\ y \in Nat /\ ~ (y < x)
    BY <1>3, <1>4
  <2> QED BY <2>2
<1> QED BY <1>5 DEF Min

\* RemoveFirst cuts out one position that holds the element, if there is one.
LEMMA RemoveFirstIndex ==
  ASSUME NEW S, NEW s \in Seq(S), NEW e, \E i \in 1..Len(s) : s[i] = e
  PROVE  \E k \in 1..Len(s) :
            /\ s[k] = e
            /\ RemoveFirst(s, e) = SubSeq(s, 1, k-1) \o SubSeq(s, k+1, Len(s))
<1> DEFINE I == {i \in 1..Len(s) : s[i] = e}
           k == Min(I)
<1>1. k \in 1..Len(s) /\ s[k] = e
  BY MinOfNats, I \subseteq Nat, I # {}
<1>2. RemoveFirst(s, e) = SubSeq(s, 1, k-1) \o SubSeq(s, k+1, Len(s))
  BY <1>1 DEF RemoveFirst, RemoveAt, SelectInSeq
<1> QED BY <1>1, <1>2

\* Cutting out one position shortens a sequence by one, adds nothing to it and
\* loses nothing else.
LEMMA RemoveAtRange ==
  ASSUME NEW S, NEW s \in Seq(S), NEW k \in 1..Len(s)
  PROVE  /\ RemoveAt(s, k) \in Seq(S)
         /\ Len(RemoveAt(s, k)) = Len(s) - 1
         /\ Range(RemoveAt(s, k)) \subseteq Range(s)
         /\ \A x \in Range(s) : x = s[k] \/ x \in Range(RemoveAt(s, k))
<1> DEFINE a == SubSeq(s, 1, k-1)
           b == SubSeq(s, k+1, Len(s))
<1>1. /\ a \in Seq(S) /\ Len(a) = k - 1
      /\ \A i \in 1..(k-1) : a[i] = s[i]
  BY SubSeqProperties
<1>2. /\ b \in Seq(S) /\ Len(b) = Len(s) - k
      /\ \A i \in 1..(Len(s)-k) : b[i] = s[k+i]
  BY SubSeqProperties
<1>3. RemoveAt(s, k) = a \o b
  BY DEF RemoveAt
<1> HIDE DEF a, b
<1>4. Range(a \o b) = Range(a) \cup Range(b)
  BY <1>1, <1>2, RangeConcatenation
<1>5. a \o b \in Seq(S) /\ Len(a \o b) = Len(s) - 1
  <2>1. a \o b \in Seq(S) /\ Len(a \o b) = Len(a) + Len(b)
    BY <1>1, <1>2, ConcatProperties
  <2>2. Len(s) \in Nat /\ k \in Int
    BY LenProperties
  <2> QED BY <1>1, <1>2, <2>1, <2>2
<1>6. Range(a) \subseteq Range(s)
  BY <1>1 DEF Range
<1>7. Range(b) \subseteq Range(s)
  <2>1. SUFFICES ASSUME NEW i \in 1..Len(b) PROVE b[i] \in Range(s)
    BY <1>2 DEF Range
  <2>2. k + i \in DOMAIN s /\ b[i] = s[k+i]
    BY <1>2
  <2> QED BY <2>2 DEF Range
<1>8. ASSUME NEW i \in 1..Len(s), i # k PROVE s[i] \in Range(a) \cup Range(b)
  <2>0. Len(s) \in Nat /\ DOMAIN a = 1..(k - 1) /\ DOMAIN b = 1..(Len(s) - k)
    BY <1>1, <1>2, LenProperties
  <2>1. CASE i < k
    <3>1. i \in 1..(k - 1)
      BY <2>1
    <3> QED BY <1>1, <2>0, <3>1 DEF Range
  <2>2. CASE i > k
    <3>1. i - k \in 1..(Len(s) - k) /\ k + (i - k) = i
      BY <2>0, <2>2
    <3> QED BY <1>2, <2>0, <3>1 DEF Range
  <2> QED BY <1>8, <2>1, <2>2
<1>9. \A x \in Range(s) : x = s[k] \/ x \in Range(a) \cup Range(b)
  BY <1>8, LenProperties DEF Range
<1> QED BY <1>3, <1>4, <1>5, <1>6, <1>7, <1>9

\* Removing an element that is there shortens a sequence by one.
LEMMA RemoveFirstLen ==
  ASSUME NEW S, NEW s \in Seq(S), NEW e \in Range(s)
  PROVE  Len(RemoveFirst(s, e)) = Len(s) - 1
<1>1. \E i \in 1..Len(s) : s[i] = e
  BY DEF Range
<1>2. PICK k \in 1..Len(s) : RemoveFirst(s, e) = RemoveAt(s, k)
  BY <1>1, RemoveFirstIndex DEF RemoveAt
<1> QED BY <1>2, RemoveAtRange

\* RemoveFirst loses nothing but the element it was asked to remove.
LEMMA RemoveFirstRange ==
  ASSUME NEW S, NEW s \in Seq(S), NEW e
  PROVE  /\ RemoveFirst(s, e) \in Seq(S)
         /\ Range(RemoveFirst(s, e)) \subseteq Range(s)
         /\ \A x \in Range(s) : x # e => x \in Range(RemoveFirst(s, e))
<1>1. CASE ~ \E i \in 1..Len(s) : s[i] = e
  BY <1>1 DEF RemoveFirst
<1>2. CASE \E i \in 1..Len(s) : s[i] = e
  <2>1. PICK k \in 1..Len(s) :
            /\ s[k] = e
            /\ RemoveFirst(s, e) = SubSeq(s, 1, k-1) \o SubSeq(s, k+1, Len(s))
    BY <1>2, RemoveFirstIndex
  <2> DEFINE a == SubSeq(s, 1, k-1)
             b == SubSeq(s, k+1, Len(s))
  <2>2. /\ a \in Seq(S) /\ Len(a) = k - 1
        /\ \A i \in 1..(k-1) : a[i] = s[i]
    BY <2>1, SubSeqProperties
  <2>3. /\ b \in Seq(S) /\ Len(b) = Len(s) - k
        /\ \A i \in 1..(Len(s)-k) : b[i] = s[k+i]
    BY <2>1, SubSeqProperties
  <2> HIDE DEF a, b
  <2>4. Range(a \o b) = Range(a) \cup Range(b)
    BY <2>2, <2>3, RangeConcatenation
  <2>5. Range(a) \subseteq Range(s)
    BY <2>2 DEF Range
  <2>6. Range(b) \subseteq Range(s)
    <3>1. SUFFICES ASSUME NEW i \in 1..Len(b) PROVE b[i] \in Range(s)
      BY <2>3 DEF Range
    <3>2. k + i \in DOMAIN s /\ b[i] = s[k+i]
      BY <2>3
    <3> QED BY <3>2 DEF Range
  <2>7. ASSUME NEW x \in Range(s), x # e PROVE x \in Range(a) \cup Range(b)
    <3>1. PICK i \in 1..Len(s) : s[i] = x
      BY DEF Range
    <3>2. CASE i < k
      BY <3>1, <3>2, <2>2 DEF Range
    <3>3. CASE i > k
      <4>1. i - k \in 1..Len(s)-k /\ b[i-k] = x
        BY <3>1, <3>3, <2>3
      <4> QED BY <4>1, <2>3 DEF Range
    <3> QED BY <3>1, <3>2, <3>3, <2>1, <2>7
  <2>8. RemoveFirst(s, e) = a \o b /\ a \o b \in Seq(S)
    BY <2>1, <2>2, <2>3 DEF a, b
  <2> QED BY <2>4, <2>5, <2>6, <2>7, <2>8
<1> QED BY <1>1, <1>2

\* RPUSH.
LEMMA AppendRange ==
  ASSUME NEW S, NEW s \in Seq(S), NEW e \in S
  PROVE  Append(s, e) \in Seq(S) /\ Range(Append(s, e)) = Range(s) \cup {e}
<1> DEFINE t == Append(s, e)
<1>1. /\ t \in Seq(S) /\ Len(t) = Len(s) + 1
      /\ \A i \in 1..Len(s) : t[i] = s[i]
      /\ t[Len(s) + 1] = e
  BY AppendProperties
<1> HIDE DEF t
<1>2. Range(t) \subseteq Range(s) \cup {e}
  BY <1>1 DEF Range
<1>3. Range(s) \subseteq Range(t) /\ e \in Range(t)
  BY <1>1 DEF Range
<1> QED BY <1>1, <1>2, <1>3 DEF t

\* LPOP.
LEMMA TailRange ==
  ASSUME NEW S, NEW s \in Seq(S), s # <<>>
  PROVE  /\ Head(s) \in S /\ Tail(s) \in Seq(S)
         /\ Range(s) = {Head(s)} \cup Range(Tail(s))
<1> DEFINE t == Tail(s)
<1>1. /\ t \in Seq(S) /\ Len(t) = Len(s) - 1 /\ Len(s) \in Nat \ {0}
      /\ \A i \in 1..Len(t) : t[i] = s[i+1]
      /\ Head(s) = s[1] /\ Head(s) \in S
  BY HeadTailProperties, EmptySeq
<1> HIDE DEF t
<1>2. {Head(s)} \cup Range(t) \subseteq Range(s)
  <2>1. SUFFICES ASSUME NEW i \in 1..Len(t) PROVE t[i] \in Range(s)
    BY <1>1 DEF Range
  <2>2. i + 1 \in DOMAIN s /\ t[i] = s[i+1]
    BY <1>1
  <2> QED BY <2>2 DEF Range
<1>3. ASSUME NEW x \in Range(s) PROVE x \in {Head(s)} \cup Range(t)
  <2>1. PICK i \in 1..Len(s) : s[i] = x
    BY DEF Range
  <2>2. CASE i = 1
    BY <2>1, <2>2, <1>1
  <2>3. CASE i # 1
    <3>1. i - 1 \in 1..Len(t) /\ t[i-1] = x
      BY <2>1, <2>3, <1>1
    <3> QED BY <3>1, <1>1 DEF Range
  <2> QED BY <2>2, <2>3
<1> QED BY <1>1, <1>2, <1>3 DEF t

\* LMOVE from the right of one list ...
LEMMA FrontRange ==
  ASSUME NEW S, NEW s \in Seq(S), s # <<>>
  PROVE  /\ Last(s) \in S /\ Front(s) \in Seq(S)
         /\ Range(s) = {Last(s)} \cup Range(Front(s))
<1>1. Len(s) \in Nat \ {0}
  BY EmptySeq, LenProperties
<1>2. PICK k \in 1..Len(s) : k = Len(s)
  BY <1>1
<1> DEFINE t == SubSeq(s, 1, k - 1)
<1>3. /\ t \in Seq(S) /\ Len(t) = Len(s) - 1
      /\ \A i \in 1..(Len(s) - 1) : t[i] = s[i]
  BY <1>1, <1>2, SubSeqProperties
<1>4. Last(s) = s[Len(s)] /\ Last(s) \in S
  BY <1>1, ElementOfSeq DEF Last
<1>5. Front(s) = t
  BY <1>2 DEF Front
<1> HIDE DEF t
<1>6. Last(s) \in Range(s)
  BY <1>1, <1>4 DEF Range
<1>7. Range(t) \subseteq Range(s)
  BY <1>1, <1>3 DEF Range
<1>8. Range(s) \subseteq {Last(s)} \cup Range(t)
  <2>1. SUFFICES ASSUME NEW i \in 1..Len(s) PROVE s[i] \in {Last(s)} \cup Range(t)
    BY DEF Range
  <2>2. CASE i = Len(s)
    BY <2>2, <1>4
  <2>3. CASE i # Len(s)
    <3>1. i \in 1..Len(t) /\ t[i] = s[i]
      BY <2>3, <1>1, <1>3
    <3> QED BY <3>1, <1>3 DEF Range
  <2> QED BY <2>2, <2>3
<1> QED BY <1>3, <1>4, <1>5, <1>6, <1>7, <1>8

\* ... to the left of another.
LEMMA ConsRange ==
  ASSUME NEW S, NEW s \in Seq(S), NEW e \in S
  PROVE  <<e>> \o s \in Seq(S) /\ Range(<<e>> \o s) = {e} \cup Range(s)
<1> DEFINE h == <<e>>
<1>1. h \in Seq(S) /\ Len(h) = 1 /\ h[1] = e
  OBVIOUS
<1> HIDE DEF h
<1>2. Range(h) = {e}
  BY <1>1 DEF Range
<1>3. h \o s \in Seq(S)
  BY <1>1, ConcatProperties
<1>4. Range(h \o s) = Range(h) \cup Range(s)
  BY <1>1, RangeConcatenation
<1> QED BY <1>2, <1>3, <1>4 DEF h
-----------------------------------------------------------------------------
(***************************************************************************)
(* A list is linked by a relation when every element is related to all     *)
(* that follow it: by inequality if no value occurs twice, by < if the     *)
(* list ascends.  What the Redis commands keep of either.                  *)
(***************************************************************************)
Linked(s, R) == \A i, j \in DOMAIN s : i < j => <<s[i], s[j]>> \in R

LEMMA EmptyLinked == \A R : Linked(<<>>, R)
  BY DEF Linked

\* A linked list after RPUSH.
LEMMA AppendLinked ==
  ASSUME NEW S, NEW s \in Seq(S), NEW e \in S, NEW R, Linked(s, R),
         \A x \in Range(s) : <<x, e>> \in R
  PROVE  Linked(Append(s, e), R)
<1> DEFINE t == Append(s, e)
<1>1. /\ t \in Seq(S) /\ Len(t) = Len(s) + 1 /\ Len(s) \in Nat
      /\ \A i \in 1..Len(s) : t[i] = s[i]
      /\ t[Len(s) + 1] = e
  BY AppendProperties, LenProperties
<1> HIDE DEF t
<1>2. \A i, j \in 1..Len(s) + 1 : i < j => <<t[i], t[j]>> \in R
  <2>1. SUFFICES ASSUME NEW i \in 1..Len(s) + 1, NEW j \in 1..Len(s) + 1, i < j
                 PROVE  <<t[i], t[j]>> \in R
    OBVIOUS
  <2>2. i \in 1..Len(s) /\ t[i] = s[i] /\ s[i] \in Range(s)
    BY <1>1, <2>1 DEF Range
  <2>3. CASE j = Len(s) + 1
    BY <1>1, <2>2, <2>3
  <2>4. CASE j # Len(s) + 1
    BY <1>1, <2>1, <2>2, <2>4 DEF Linked
  <2> QED BY <2>3, <2>4
<1> QED BY <1>1, <1>2 DEF Linked, t

\* A piece of a linked list is linked, and what is before it is related to it.
LEMMA TailLinked ==
  ASSUME NEW S, NEW s \in Seq(S), s # <<>>, NEW R, Linked(s, R)
  PROVE  Linked(Tail(s), R) /\ \A x \in Range(Tail(s)) : <<Head(s), x>> \in R
<1> DEFINE t == Tail(s)
<1>1. /\ t \in Seq(S) /\ Len(t) = Len(s) - 1 /\ Len(s) \in Nat \ {0}
      /\ \A i \in 1..Len(t) : t[i] = s[i+1]
      /\ Head(s) = s[1]
  BY HeadTailProperties, EmptySeq
<1> HIDE DEF t
<1>2. Linked(t, R)
  <2>1. SUFFICES ASSUME NEW i \in 1..Len(t), NEW j \in 1..Len(t), i < j
                 PROVE  <<t[i], t[j]>> \in R
    BY <1>1 DEF Linked
  <2>2. i + 1 \in 1..Len(s) /\ j + 1 \in 1..Len(s) /\ i + 1 < j + 1
    BY <1>1, <2>1
  <2>3. <<s[i + 1], s[j + 1]>> \in R
    BY <2>2 DEF Linked
  <2> QED BY <1>1, <2>3
<1>3. \A x \in Range(t) : <<Head(s), x>> \in R
  <2>1. SUFFICES ASSUME NEW i \in 1..Len(t) PROVE <<s[1], t[i]>> \in R
    BY <1>1 DEF Range
  <2>2. i + 1 \in 1..Len(s) /\ 1 \in 1..Len(s) /\ 1 < i + 1
    BY <1>1
  <2>3. <<s[1], s[i + 1]>> \in R
    BY <2>2 DEF Linked
  <2> QED BY <1>1, <2>3
<1> QED BY <1>2, <1>3 DEF t

LEMMA FrontLinked ==
  ASSUME NEW S, NEW s \in Seq(S), s # <<>>, NEW R, Linked(s, R)
  PROVE  Linked(Front(s), R) /\ \A x \in Range(Front(s)) : <<x, Last(s)>> \in R
<1>1. Len(s) \in Nat \ {0}
  BY EmptySeq, LenProperties
<1>2. PICK k \in 1..Len(s) : k = Len(s)
  BY <1>1
<1> DEFINE t == SubSeq(s, 1, k - 1)
<1>3. /\ t \in Seq(S) /\ Len(t) = Len(s) - 1
      /\ \A i \in 1..(Len(s) - 1) : t[i] = s[i]
  BY <1>1, <1>2, SubSeqProperties
<1>4. Last(s) = s[Len(s)] /\ Front(s) = t
  BY <1>2 DEF Last, Front
<1> HIDE DEF t
<1>5. Linked(t, R)
  BY <1>1, <1>3 DEF Linked
<1>6. \A x \in Range(t) : <<x, s[Len(s)]>> \in R
  <2>1. SUFFICES ASSUME NEW i \in 1..Len(t) PROVE <<t[i], s[Len(s)]>> \in R
    BY <1>3 DEF Range
  <2> QED BY <1>1, <1>3 DEF Linked
<1> QED BY <1>4, <1>5, <1>6

\* A linked list after LPUSH.
LEMMA ConsLinked ==
  ASSUME NEW S, NEW s \in Seq(S), NEW e \in S, NEW R, Linked(s, R),
         \A x \in Range(s) : <<e, x>> \in R
  PROVE  Linked(<<e>> \o s, R)
<1> DEFINE t == <<e>> \o s
<1>1. Len(s) \in Nat /\ <<e>> \in Seq(S) /\ Len(<<e>>) = 1 /\ <<e>>[1] = e
  BY LenProperties
<1>2. /\ t \in Seq(S) /\ Len(t) = Len(s) + 1
      /\ \A i \in 1..Len(s) + 1 : t[i] = IF i <= 1 THEN e ELSE s[i - 1]
  BY <1>1, ConcatProperties
<1> HIDE DEF t
<1>3. \A i, j \in 1..Len(s) + 1 : i < j => <<t[i], t[j]>> \in R
  <2>1. SUFFICES ASSUME NEW i \in 1..Len(s) + 1, NEW j \in 1..Len(s) + 1, i < j
                 PROVE  <<t[i], t[j]>> \in R
    OBVIOUS
  <2>2. j - 1 \in 1..Len(s) /\ t[j] = s[j - 1] /\ s[j - 1] \in Range(s)
    BY <1>1, <1>2, <2>1 DEF Range
  <2>3. CASE i = 1
    BY <1>2, <2>2, <2>3
  <2>4. CASE i # 1
    <3>1. i - 1 \in 1..Len(s) /\ t[i] = s[i - 1]
      BY <1>1, <1>2, <2>4
    <3> QED BY <1>1, <2>1, <2>2, <3>1 DEF Linked
  <2> QED BY <2>3, <2>4
<1> QED BY <1>2, <1>3 DEF Linked, t

\* A linked list after LREM.
LEMMA RemoveFirstLinked ==
  ASSUME NEW S, NEW s \in Seq(S), NEW e, NEW R, Linked(s, R)
  PROVE  Linked(RemoveFirst(s, e), R)
<1>1. CASE ~ \E i \in 1..Len(s) : s[i] = e
  BY <1>1 DEF RemoveFirst
<1>2. CASE \E i \in 1..Len(s) : s[i] = e
  <2>1. PICK k \in 1..Len(s) : RemoveFirst(s, e) = SubSeq(s, 1, k-1) \o SubSeq(s, k+1, Len(s))
    BY <1>2, RemoveFirstIndex
  <2> DEFINE a == SubSeq(s, 1, k-1)
             b == SubSeq(s, k+1, Len(s))
             t == a \o b
  <2>2. /\ a \in Seq(S) /\ Len(a) = k - 1
        /\ \A i \in 1..(k-1) : a[i] = s[i]
    BY <2>1, SubSeqProperties
  <2>3. /\ b \in Seq(S) /\ Len(b) = Len(s) - k
        /\ \A i \in 1..(Len(s)-k) : b[i] = s[k+i]
    BY <2>1, SubSeqProperties
  <2> HIDE DEF a, b
  <2>4. /\ t \in Seq(S) /\ Len(t) = Len(s) - 1
        /\ \A i \in 1..Len(s) - 1 : t[i] = IF i <= k - 1 THEN a[i] ELSE b[i - (k - 1)]
    <3>1. /\ t \in Seq(S) /\ Len(t) = Len(a) + Len(b)
          /\ \A i \in 1..Len(a) + Len(b) : t[i] = IF i <= Len(a) THEN a[i] ELSE b[i - Len(a)]
      BY <2>2, <2>3, ConcatProperties
    <3> HIDE DEF t
    <3> QED BY <2>2, <2>3, <3>1, LenProperties
  <2> HIDE DEF t
  <2>5. \A i \in 1..Len(s) - 1 : t[i] = s[IF i < k THEN i ELSE i + 1]
    <3>1. TAKE i \in 1..Len(s) - 1
    <3>2. CASE i < k
      BY <2>2, <2>4, <3>2
    <3>3. CASE ~(i < k)
      <4>1. t[i] = b[i - (k - 1)] /\ i - (k - 1) \in 1..(Len(s)-k)
        BY <2>4, <3>3, LenProperties
      <4>2. k + (i - (k - 1)) = i + 1
        BY LenProperties
      <4> QED BY <2>3, <3>3, <4>1, <4>2
    <3> QED BY <3>2, <3>3
  <2>6. Linked(t, R)
    <3>1. SUFFICES ASSUME NEW i \in 1..Len(s) - 1, NEW j \in 1..Len(s) - 1, i < j
                   PROVE  <<t[i], t[j]>> \in R
      <4>1. DOMAIN t = 1..Len(s) - 1
        BY <2>4
      <4> QED BY <4>1 DEF Linked
    <3> DEFINE I == IF i < k THEN i ELSE i + 1
               J == IF j < k THEN j ELSE j + 1
    <3>2. I \in 1..Len(s) /\ J \in 1..Len(s) /\ I < J /\ t[i] = s[I] /\ t[j] = s[J]
      BY <2>5, <3>1, LenProperties
    <3> HIDE DEF I, J
    <3> QED BY <3>2 DEF Linked
  <2> QED BY <2>1, <2>6 DEF a, b, t
<1> QED BY <1>1, <1>2

\* Where no value occurs twice, LREM takes the one there is.
LEMMA RemoveFirstGone ==
  ASSUME NEW S, NEW s \in Seq(S), NEW e, NEW R, Linked(s, R), <<e, e>> \notin R
  PROVE  e \notin Range(RemoveFirst(s, e))
<1>1. CASE ~ \E i \in 1..Len(s) : s[i] = e
  BY <1>1 DEF RemoveFirst, Range
<1>2. CASE \E i \in 1..Len(s) : s[i] = e
  <2>1. PICK k \in 1..Len(s) :
            /\ s[k] = e
            /\ RemoveFirst(s, e) = SubSeq(s, 1, k-1) \o SubSeq(s, k+1, Len(s))
    BY <1>2, RemoveFirstIndex
  <2> DEFINE a == SubSeq(s, 1, k-1)
             b == SubSeq(s, k+1, Len(s))
  <2>2. /\ a \in Seq(S) /\ Len(a) = k - 1
        /\ \A i \in 1..(k-1) : a[i] = s[i]
    BY <2>1, SubSeqProperties
  <2>3. /\ b \in Seq(S) /\ Len(b) = Len(s) - k
        /\ \A i \in 1..(Len(s)-k) : b[i] = s[k+i]
    BY <2>1, SubSeqProperties
  <2> HIDE DEF a, b
  <2>4. Range(a \o b) = Range(a) \cup Range(b)
    BY <2>2, <2>3, RangeConcatenation
  <2>5. e \notin Range(a)
    <3>1. SUFFICES ASSUME NEW i \in 1..k-1, a[i] = e PROVE FALSE
      BY <2>2 DEF Range
    <3>2. s[i] = e
      BY <2>2, <3>1
    <3>3. i \in 1..Len(s) /\ i < k
      OBVIOUS
    <3> QED BY <2>1, <3>2, <3>3 DEF Linked
  <2>6. e \notin Range(b)
    <3>1. SUFFICES ASSUME NEW i \in 1..Len(s)-k, b[i] = e PROVE FALSE
      BY <2>3 DEF Range
    <3>2. k + i \in 1..Len(s) /\ s[k + i] = e /\ k < k + i
      BY <2>3, <3>1
    <3> QED BY <2>1, <3>2 DEF Linked
  <2> QED BY <2>1, <2>4, <2>5, <2>6 DEF a, b
<1> QED BY <1>1, <1>2

\* Two linked lists, one after the other.
LEMMA ConcatLinked ==
  ASSUME NEW S, NEW s \in Seq(S), NEW t \in Seq(S), NEW R, Linked(s, R), Linked(t, R),
         \A x \in Range(s), y \in Range(t) : <<x, y>> \in R
  PROVE  Linked(s \o t, R)
<1> DEFINE u == s \o t
<1>1. /\ Len(s) \in Nat /\ Len(t) \in Nat /\ u \in Seq(S) /\ Len(u) = Len(s) + Len(t)
      /\ \A i \in 1..Len(s) + Len(t) : u[i] = IF i <= Len(s) THEN s[i] ELSE t[i - Len(s)]
  BY ConcatProperties, LenProperties
<1> HIDE DEF u
<1>2. SUFFICES ASSUME NEW i \in 1..Len(s) + Len(t), NEW j \in 1..Len(s) + Len(t), i < j
               PROVE  <<u[i], u[j]>> \in R
  BY <1>1 DEF Linked, u
<1>3. CASE j <= Len(s)
  BY <1>1, <1>2, <1>3 DEF Linked
<1>4. CASE i > Len(s)
  <2>1. /\ i - Len(s) \in 1..Len(t) /\ j - Len(s) \in 1..Len(t)
        /\ i - Len(s) < j - Len(s)
        /\ u[i] = t[i - Len(s)] /\ u[j] = t[j - Len(s)]
    BY <1>1, <1>2, <1>4
  <2>2. <<t[i - Len(s)], t[j - Len(s)]>> \in R
    BY <2>1 DEF Linked
  <2> QED BY <2>1, <2>2
<1>5. CASE i <= Len(s) /\ j > Len(s)
  <2>1. u[i] \in Range(s) /\ u[j] \in Range(t)
    BY <1>1, <1>5 DEF Range
  <2> QED BY <2>1
<1> QED BY <1>1, <1>3, <1>4, <1>5
-----------------------------------------------------------------------------
(***************************************************************************)
(* Sums over finite sets.  The library's induction theorems cannot be      *)
(* instantiated here, so each induction is a smallest counterexample: the  *)
(* sets a claim fails for, if there are any, have one of least cardinality.*)
(***************************************************************************)
LEMMA SmallestSet ==
  ASSUME NEW B, B # {}, \A s \in B : IsFiniteSet(s)
  PROVE  \E s \in B : \A t \in B : Cardinality(s) <= Cardinality(t)
<1> DEFINE I == {Cardinality(s) : s \in B}
<1>1. I \subseteq Nat /\ I # {}
  BY FS_CardinalityType
<1>2. Min(I) \in I /\ \A n \in I : Min(I) <= n
  BY <1>1, MinOfNats
<1> QED BY <1>2

\* The equation the community modules define a sum by.
SumRec(g, f, D) ==
  g = [s \in SUBSET D |-> IF s = {} THEN 0
                          ELSE f[CHOOSE x \in s : TRUE] + g[s \ {CHOOSE x \in s : TRUE}]]

LEMMA SumUnfold ==
  ASSUME NEW f, NEW D
  PROVE  SumFunctionOnSet(f, D) = (CHOOSE g : SumRec(g, f, D))[D]
  BY DEF SumFunctionOnSet, FoldFunctionOnSet, MapThenFoldSet, SumRec

\* Taking an element out of a finite set.
LEMMA OneLess ==
  ASSUME NEW s, IsFiniteSet(s), NEW x \in s
  PROVE  /\ IsFiniteSet(s \ {x}) /\ Cardinality(s) \in Nat
         /\ Cardinality(s \ {x}) = Cardinality(s) - 1
  BY FS_RemoveElement, FS_CardinalityType

LEMMA ChosenIsIn ==
  ASSUME NEW s, s # {}
  PROVE  (CHOOSE x \in s : TRUE) \in s
  OBVIOUS

\* The equation has a solution: build it for the sets of at most n elements.
LEMMA SumRecExists ==
  ASSUME NEW f, NEW D, IsFiniteSet(D)
  PROVE  \E g : SumRec(g, f, D)
<1> DEFINE Level(n) == {s \in SUBSET D : Cardinality(s) <= n}
           pick(s)  == CHOOSE x \in s : TRUE
           step(g, s) == IF s = {} THEN 0 ELSE f[pick(s)] + g[s \ {pick(s)}]
           Solves(g, n) == g = [s \in Level(n) |-> step(g, s)]
           Bad == {n \in Nat : ~ \E g : Solves(g, n)}
<1>1. \A s \in SUBSET D : IsFiniteSet(s) /\ Cardinality(s) \in Nat
  BY FS_Subset, FS_CardinalityType
<1>2. Bad = {}
  <2>1. SUFFICES ASSUME Bad # {} PROVE FALSE
    OBVIOUS
  <2>2. PICK n \in Bad : \A k \in Bad : n <= k
    BY <2>1, MinOfNats, Bad \subseteq Nat
  <2>3. CASE n = 0
    <3>1. \A s \in Level(0) : s = {}
      BY <1>1, FS_EmptySet
    <3> DEFINE g == [s \in Level(0) |-> 0]
    <3>2. Solves(g, 0)
      BY <3>1
    <3> QED BY <2>2, <2>3, <3>2
  <2>4. CASE n # 0
    <3>1. n \in Nat /\ n - 1 \in Nat /\ n - 1 \notin Bad
      <4> HIDE DEF Solves
      <4>1. n \in Nat
        BY <2>2
      <4>2. n - 1 \in Nat /\ ~(n <= n - 1)
        BY <2>4, <4>1
      <4> HIDE DEF Bad
      <4> QED BY <2>2, <4>1, <4>2
    <3>2. PICK g : Solves(g, n - 1)
      BY <3>1
    <3> DEFINE h == [s \in Level(n) |-> step(g, s)]
    <3>3. \A s \in Level(n - 1) : s \in Level(n) /\ h[s] = g[s]
      <4>1. \A s \in Level(n - 1) : s \in Level(n)
        BY <1>1, <3>1
      <4>2. \A s \in Level(n - 1) : g[s] = step(g, s)
        BY <3>2
      <4> QED BY <4>1, <4>2
    <3>4. \A s \in Level(n) : s # {} => s \ {pick(s)} \in Level(n - 1)
      <4>1. TAKE s \in Level(n)
      <4>2. HAVE s # {}
      <4>3. pick(s) \in s /\ IsFiniteSet(s)
        BY <4>2, <1>1
      <4>4. Cardinality(s \ {pick(s)}) = Cardinality(s) - 1
        BY <4>3, OneLess
      <4> QED BY <1>1, <3>1, <4>4
    <3>5. \A s \in Level(n) : step(g, s) = step(h, s)
      <4>1. TAKE s \in Level(n)
      <4>2. s # {} => h[s \ {pick(s)}] = g[s \ {pick(s)}]
        BY <3>3, <3>4
      <4> HIDE DEF h
      <4> QED BY <4>2
    <3>6. Solves(h, n)
      <4> HIDE DEF step, Level
      <4>1. [s \in Level(n) |-> step(g, s)] = [s \in Level(n) |-> step(h, s)]
        BY <3>5
      <4> QED BY <4>1
    <3> QED BY <2>2, <3>6
  <2> QED BY <2>3, <2>4
<1>3. Cardinality(D) \notin Bad /\ Cardinality(D) \in Nat
  BY <1>2, FS_CardinalityType
<1>4. Level(Cardinality(D)) = SUBSET D
  BY FS_Subset, FS_CardinalityType
<1>5. PICK g : Solves(g, Cardinality(D))
  BY <1>3
<1>6. SumRec(g, f, D)
  BY <1>4, <1>5 DEF SumRec
<1> QED BY <1>6

\* ... and no other, whichever larger set it is restricted from.
LEMMA SumRecUnique ==
  ASSUME NEW f, NEW D, NEW T \in SUBSET D, IsFiniteSet(D),
         NEW g, SumRec(g, f, D), NEW h, SumRec(h, f, T)
  PROVE  g[T] = h[T]
<1> DEFINE Bad == {s \in SUBSET T : g[s] # h[s]}
<1>1. \A s \in SUBSET T : IsFiniteSet(s)
  BY FS_Subset
<1>2. SUFFICES ASSUME Bad # {} PROVE FALSE
  OBVIOUS
<1>3. PICK s \in Bad : \A t \in Bad : Cardinality(s) <= Cardinality(t)
  BY <1>1, <1>2, SmallestSet
<1> DEFINE x == CHOOSE y \in s : TRUE
<1>4. /\ g[s] = IF s = {} THEN 0 ELSE f[x] + g[s \ {x}]
      /\ h[s] = IF s = {} THEN 0 ELSE f[x] + h[s \ {x}]
  BY DEF SumRec
<1>5. s # {} /\ g[s \ {x}] # h[s \ {x}]
  BY <1>3, <1>4
<1>6. x \in s
  BY <1>5, ChosenIsIn
<1>7. Cardinality(s \ {x}) = Cardinality(s) - 1 /\ Cardinality(s) \in Nat
  BY <1>1, <1>3, <1>6, OneLess
<1>8. s \ {x} \in Bad
  BY <1>5
<1> QED BY <1>3, <1>7, <1>8

LEMMA SumEmpty ==
  ASSUME NEW f
  PROVE  SumFunctionOnSet(f, {}) = 0
<1>1. PICK g : SumRec(g, f, {})
  BY SumRecExists, FS_EmptySet
<1>2. SumRec(CHOOSE h : SumRec(h, f, {}), f, {})
  BY <1>1
<1> HIDE DEF SumRec
<1> DEFINE h == CHOOSE k : SumRec(k, f, {})
<1>3. SumRec(h, f, {})
  BY <1>2
<1> HIDE DEF h
<1>4. h[{}] = 0
  BY <1>3 DEF SumRec
<1> QED BY <1>4, SumUnfold DEF h

LEMMA SumChosen ==
  ASSUME NEW f, NEW D, IsFiniteSet(D), D # {}
  PROVE  LET x == CHOOSE y \in D : TRUE
         IN  x \in D /\ SumFunctionOnSet(f, D) = f[x] + SumFunctionOnSet(f, D \ {x})
<1> DEFINE x == CHOOSE y \in D : TRUE
           E == D \ {x}
           g == CHOOSE k : SumRec(k, f, D)
           h == CHOOSE k : SumRec(k, f, E)
<1>1. SumRec(g, f, D)
  BY SumRecExists
<1>2. IsFiniteSet(E)
  BY FS_Subset
<1>3. SumRec(h, f, E)
  BY <1>2, SumRecExists
<1>4. SumFunctionOnSet(f, D) = g[D] /\ SumFunctionOnSet(f, E) = h[E]
  BY SumUnfold
<1> HIDE DEF g, h
<1>5. g[D] = f[x] + g[E]
  BY <1>1 DEF SumRec
<1>6. g[E] = h[E]
  BY <1>1, <1>3, SumRecUnique
<1>7. x \in D
  BY ChosenIsIn
<1> QED BY <1>4, <1>5, <1>6, <1>7

\* A sum of integers does not depend on the order of the summands.
LEMMA SumRemove ==
  ASSUME NEW f, NEW D, IsFiniteSet(D), \A i \in D : f[i] \in Int
  PROVE  /\ SumFunctionOnSet(f, D) \in Int
         /\ \A x \in D : SumFunctionOnSet(f, D) = f[x] + SumFunctionOnSet(f, D \ {x})
<1> DEFINE Sum(s) == SumFunctionOnSet(f, s)
           Good(s) == Sum(s) \in Int /\ \A x \in s : Sum(s) = f[x] + Sum(s \ {x})
           Bad == {s \in SUBSET D : ~Good(s)}
<1>1. \A s \in SUBSET D : IsFiniteSet(s) /\ Cardinality(s) \in Nat
  BY FS_Subset, FS_CardinalityType
<1>2. SUFFICES ASSUME Bad # {} PROVE FALSE
  BY D \in SUBSET D
<1>3. PICK s \in Bad : \A t \in Bad : Cardinality(s) <= Cardinality(t)
  BY <1>1, <1>2, SmallestSet
<1>4. \A t \in SUBSET D : Cardinality(t) < Cardinality(s) => Good(t)
  <2> HIDE DEF Good
  <2> QED BY <1>1, <1>3
<1>5. s # {}
  BY <1>3, SumEmpty
<1> DEFINE y == CHOOSE z \in s : TRUE
<1>6. y \in s /\ Sum(s) = f[y] + Sum(s \ {y})
  BY <1>1, <1>3, <1>5, SumChosen
<1> HIDE DEF y
<1>7. \A x \in s : Good(s \ {x})
  <2>1. TAKE x \in s
  <2>2. Cardinality(s \ {x}) = Cardinality(s) - 1 /\ Cardinality(s) \in Nat
    BY <1>1, <1>3, OneLess
  <2>3. s \ {x} \in SUBSET D /\ Cardinality(s \ {x}) < Cardinality(s)
    BY <1>3, <2>2
  <2> QED BY <1>4, <2>3
<1> HIDE DEF Sum
<1>8. Sum(s) \in Int
  BY <1>3, <1>6, <1>7
<1>9. ASSUME NEW x \in s PROVE Sum(s) = f[x] + Sum(s \ {x})
  <2>1. CASE x = y
    BY <1>6, <2>1
  <2>2. CASE x # y
    <3>1. x \in s \ {y} /\ y \in s \ {x} /\ (s \ {y}) \ {x} = (s \ {x}) \ {y}
      BY <1>6, <2>2
    <3>2. Sum(s \ {y}) = f[x] + Sum((s \ {y}) \ {x})
      BY <1>6, <1>7, <3>1
    <3>3. Sum(s \ {x}) = f[y] + Sum((s \ {x}) \ {y})
      BY <1>7, <3>1
    <3>4. Sum((s \ {x}) \ {y}) \in Int
      <4>1. /\ (s \ {x}) \ {y} \in SUBSET D
            /\ Cardinality(s \ {x}) = Cardinality(s) - 1 /\ Cardinality(s) \in Nat
            /\ Cardinality((s \ {x}) \ {y}) = Cardinality(s \ {x}) - 1
        BY <1>1, <1>3, <3>1, OneLess
      <4>2. Cardinality((s \ {x}) \ {y}) < Cardinality(s)
        BY <4>1
      <4> QED BY <1>4, <4>1, <4>2
    <3>5. f[x] \in Int /\ f[y] \in Int
      BY <1>3, <1>6
    <3>6. Sum(s) = f[y] + (f[x] + Sum((s \ {x}) \ {y}))
      BY <1>6, <3>1, <3>2
    <3> HIDE DEF Bad, Good
    <3> QED BY <3>3, <3>4, <3>5, <3>6
  <2> QED BY <2>1, <2>2
<1> QED BY <1>3, <1>8, <1>9

\* Functions that agree have the same sum.
LEMMA SumSame ==
  ASSUME NEW f, NEW g, NEW D, IsFiniteSet(D), \A i \in D : f[i] = g[i]
  PROVE  SumFunctionOnSet(f, D) = SumFunctionOnSet(g, D)
<1> DEFINE Bad == {s \in SUBSET D : SumFunctionOnSet(f, s) # SumFunctionOnSet(g, s)}
<1>1. \A s \in SUBSET D : IsFiniteSet(s) /\ Cardinality(s) \in Nat
  BY FS_Subset, FS_CardinalityType
<1>2. SUFFICES ASSUME Bad # {} PROVE FALSE
  BY D \in SUBSET D
<1>3. PICK s \in Bad : \A t \in Bad : Cardinality(s) <= Cardinality(t)
  BY <1>1, <1>2, SmallestSet
<1>4. s # {}
  BY <1>3, SumEmpty
<1> DEFINE y == CHOOSE z \in s : TRUE
<1>5. /\ y \in s /\ SumFunctionOnSet(f, s) = f[y] + SumFunctionOnSet(f, s \ {y})
      /\ SumFunctionOnSet(g, s) = g[y] + SumFunctionOnSet(g, s \ {y})
  BY <1>1, <1>3, <1>4, SumChosen
<1> HIDE DEF y
<1>6. Cardinality(s \ {y}) = Cardinality(s) - 1 /\ Cardinality(s) \in Nat
  BY <1>1, <1>3, <1>5, OneLess
<1>7. s \ {y} \notin Bad
  BY <1>3, <1>6
<1> QED BY <1>3, <1>5, <1>7

\* What changing one value does to a sum.
LEMMA SumExcept ==
  ASSUME NEW D, IsFiniteSet(D), NEW f \in [D -> Int], NEW x \in D, NEW v \in Int
  PROVE  SumFunction([f EXCEPT ![x] = v]) = SumFunction(f) - f[x] + v
<1> DEFINE g == [f EXCEPT ![x] = v]
<1>1. g \in [D -> Int] /\ g[x] = v /\ \A i \in D \ {x} : g[i] = f[i]
  OBVIOUS
<1> HIDE DEF g
<1>2. /\ SumFunctionOnSet(f, D) = f[x] + SumFunctionOnSet(f, D \ {x})
      /\ SumFunctionOnSet(g, D) = g[x] + SumFunctionOnSet(g, D \ {x})
  BY <1>1, SumRemove
<1>3. IsFiniteSet(D \ {x})
  BY FS_Subset
<1>4. /\ SumFunctionOnSet(f, D \ {x}) = SumFunctionOnSet(g, D \ {x})
      /\ SumFunctionOnSet(f, D \ {x}) \in Int
  BY <1>1, <1>3, SumSame, SumRemove
<1>5. SumFunctionOnSet(g, D) = SumFunctionOnSet(f, D) - f[x] + v
  BY <1>1, <1>2, <1>4
<1>6. DOMAIN f = D /\ DOMAIN g = D
  BY <1>1
<1> QED BY <1>5, <1>6 DEF SumFunction, g

\* A sum of naturals is one, and not below how many of them are positive.
LEMMA SumOfNats ==
  ASSUME NEW D, IsFiniteSet(D), NEW f \in [D -> Nat]
  PROVE  /\ SumFunction(f) \in Nat
         /\ Cardinality({i \in D : f[i] > 0}) <= SumFunction(f)
<1> DEFINE Positive(s) == {i \in s : f[i] > 0}
           Good(s) == /\ SumFunctionOnSet(f, s) \in Nat
                      /\ Cardinality(Positive(s)) <= SumFunctionOnSet(f, s)
           Bad == {s \in SUBSET D : ~Good(s)}
<1>1. \A s \in SUBSET D : IsFiniteSet(s) /\ Cardinality(s) \in Nat
  BY FS_Subset, FS_CardinalityType
<1>2. SUFFICES ASSUME Bad # {} PROVE FALSE
  BY D \in SUBSET D, DOMAIN f = D DEF SumFunction
<1>3. PICK s \in Bad : \A t \in Bad : Cardinality(s) <= Cardinality(t)
  BY <1>1, <1>2, SmallestSet
<1>4. CASE s = {}
  <2>1. Positive(s) = {} /\ SumFunctionOnSet(f, s) = 0
    BY <1>4, SumEmpty
  <2> QED BY <1>3, <2>1, FS_EmptySet
<1>5. CASE s # {}
  <2>1. PICK y \in s : TRUE
    BY <1>5
  <2>2. /\ SumFunctionOnSet(f, s) = f[y] + SumFunctionOnSet(f, s \ {y})
        /\ f[y] \in Nat
    BY <1>1, <1>3, SumRemove
  <2>3. Cardinality(s \ {y}) = Cardinality(s) - 1 /\ Cardinality(s) \in Nat
    BY <1>1, <1>3, OneLess
  <2>4. Good(s \ {y})
    BY <1>3, <2>3
  <2>5. /\ IsFiniteSet(Positive(s \ {y})) /\ Cardinality(Positive(s \ {y})) \in Nat
    BY <1>1, <1>3
  <2>6. CASE f[y] = 0
    <3>1. Positive(s) = Positive(s \ {y})
      BY <2>6
    <3>2. SumFunctionOnSet(f, s) = SumFunctionOnSet(f, s \ {y})
      BY <2>2, <2>4, <2>6
    <3> HIDE DEF Positive
    <3> QED BY <1>3, <2>4, <3>1, <3>2
  <2>7. CASE f[y] > 0
    <3>1. Positive(s) = Positive(s \ {y}) \cup {y} /\ y \notin Positive(s \ {y})
      BY <2>7
    <3>2. Cardinality(Positive(s)) = Cardinality(Positive(s \ {y})) + 1
      BY <2>5, <3>1, FS_AddElement
    <3> QED BY <1>3, <2>2, <2>4, <2>5, <2>7, <3>2
  <2> QED BY <2>2, <2>6, <2>7
<1> QED BY <1>4, <1>5

\* The sum of a function that is zero throughout.
LEMMA SumZero ==
  ASSUME NEW D, IsFiniteSet(D), NEW f \in [D -> Int], \A i \in D : f[i] = 0
  PROVE  SumFunction(f) = 0
<1> DEFINE Bad == {s \in SUBSET D : SumFunctionOnSet(f, s) # 0}
<1>1. \A s \in SUBSET D : IsFiniteSet(s) /\ Cardinality(s) \in Nat
  BY FS_Subset, FS_CardinalityType
<1>2. SUFFICES ASSUME Bad # {} PROVE FALSE
  BY D \in SUBSET D, DOMAIN f = D DEF SumFunction
<1>3. PICK s \in Bad : \A t \in Bad : Cardinality(s) <= Cardinality(t)
  BY <1>1, <1>2, SmallestSet
<1>4. s # {}
  BY <1>3, SumEmpty
<1> DEFINE y == CHOOSE z \in s : TRUE
<1>5. y \in s /\ SumFunctionOnSet(f, s) = f[y] + SumFunctionOnSet(f, s \ {y})
  BY <1>1, <1>3, <1>4, SumChosen
<1> HIDE DEF y
<1>6. Cardinality(s \ {y}) = Cardinality(s) - 1 /\ Cardinality(s) \in Nat
  BY <1>1, <1>3, <1>5, OneLess
<1>7. s \ {y} \notin Bad
  BY <1>3, <1>6
<1> QED BY <1>3, <1>5, <1>7

\* A nonempty finite set of naturals has a greatest element, and Max is it.
LEMMA MaxOfNats ==
  ASSUME NEW I, I \subseteq Nat, I # {}, IsFiniteSet(I)
  PROVE  Max(I) \in I /\ \A y \in I : y <= Max(I)
<1> DEFINE Greatest(s) == \E x \in s : \A y \in s : y <= x
           Bad == {s \in SUBSET I : s # {} /\ ~Greatest(s)}
<1>1. Bad = {}
  <2>1. SUFFICES ASSUME Bad # {} PROVE FALSE
    OBVIOUS
  <2>2. \A s \in Bad : IsFiniteSet(s)
    BY FS_Subset
  <2>3. PICK s \in Bad : \A t \in Bad : Cardinality(s) <= Cardinality(t)
    BY <2>1, <2>2, SmallestSet
  <2>4. PICK x \in s : TRUE
    BY <2>3
  <2>5. Cardinality(s \ {x}) = Cardinality(s) - 1 /\ Cardinality(s) \in Nat
    BY <2>2, <2>3, OneLess
  <2>6. s \ {x} \notin Bad
    <3>1. ~(Cardinality(s) <= Cardinality(s \ {x}))
      BY <2>5
    <3> HIDE DEF Bad
    <3> QED BY <2>3, <3>1
  <2>7. CASE s \ {x} = {}
    BY <2>3, <2>7
  <2>8. CASE s \ {x} # {}
    <3>1. PICK m \in s \ {x} : \A y \in s \ {x} : y <= m
      BY <2>3, <2>6, <2>8
    <3>2. CASE x <= m
      BY <2>3, <3>1, <3>2
    <3>3. CASE ~(x <= m)
      <4>1. \A y \in s : y <= x
        BY <2>3, <3>1, <3>3
      <4> QED BY <2>3, <4>1
    <3> QED BY <3>2, <3>3
  <2> QED BY <2>7, <2>8
<1>2. PICK x \in I : \A y \in I : y <= x
  BY <1>1
<1>3. \E z \in I : \A y \in I : z >= y
  BY <1>2
<1>4. Max(I) \in I /\ \A y \in I : Max(I) >= y
  BY <1>3 DEF Max
<1> QED BY <1>4
=============================================================================
