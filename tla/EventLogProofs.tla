---------------------------- MODULE EventLogProofs ----------------------------
(***************************************************************************)
(* What write_batch() does to a batch of any size, bisected down to any    *)
(* size, with any rows refused and any number of connections dropped.      *)
(***************************************************************************)
EXTENDS EventLog, FiniteSetTheorems, TLAPS

PartOfBatch == [first : Row, last : Row, how : {"half", "row"}]

\* Parts of the batch, in its order, none of them empty: none overlap.
Parts(t) ==
  /\ t \in Seq(PartOfBatch)
  /\ \A i \in DOMAIN t :
       t[i].first <= t[i].last /\ (t[i].how = "row" => t[i].first = t[i].last)
  /\ \A i, j \in DOMAIN t : i < j => t[i].last < t[j].first

In(t, r) == \E i \in DOMAIN t : r \in Rows(t[i])

\* Rows whose turn is over, and that are in the table.
Kept(t, count) == {r \in Row : count[r] > 0 /\ ~In(t, r)}
-----------------------------------------------------------------------------
(***************************************************************************)
(* The parts of a batch as a sequence.                                     *)
(***************************************************************************)
\* The whole batch is a part of it (write_batch()).
LEMMA WholeIsAPart ==
  /\ Parts(<<Whole>>) /\ Whole \in PartOfBatch /\ Rows(Whole) = Row
  /\ \A r \in Row : In(<<Whole>>, r)
  /\ Whole.how = "half" /\ Whole.first <= Whole.last
<1>1. /\ Whole \in PartOfBatch /\ Whole.first = 1 /\ Whole.last = N
      /\ Whole.how = "half" /\ 1 <= N
  BY BatchIsNotEmpty DEF Whole, Part, PartOfBatch, Row
<1>2. Rows(Whole) = Row
  BY <1>1 DEF Rows, Row
<1> HIDE DEF Whole
<1>3. /\ <<Whole>> \in Seq(PartOfBatch) /\ DOMAIN <<Whole>> = {1}
      /\ <<Whole>>[1] = Whole
  BY <1>1
<1>4. Parts(<<Whole>>)
  BY <1>1, <1>3 DEF Parts
<1>5. \A r \in Row : In(<<Whole>>, r)
  BY <1>2, <1>3 DEF In
<1> QED BY <1>1, <1>2, <1>4, <1>5

\* Split() covers its part, with parts in order (_write_one_by_one()).
LEMMA SplitParts ==
  ASSUME NEW p \in PartOfBatch, p.first <= p.last
  PROVE  /\ Parts(Split(p))
         /\ \A r \in Row : In(Split(p), r) <=> r \in Rows(p)
         /\ \A i \in DOMAIN Split(p) :
              p.first <= Split(p)[i].first /\ Split(p)[i].last <= p.last
<1>0. PICK f \in Row, l \in Row : p.first = f /\ p.last = l /\ f <= l
  BY DEF PartOfBatch
<1> DEFINE n == l - f + 1
           middle == f + n \div 2
<1>1. f \in Nat \ {0} /\ l \in Nat \ {0} /\ n \in Nat \ {0} /\ f <= l /\ l <= N /\ N \in Nat
  BY <1>0, BatchIsNotEmpty DEF Row
<1>2. Rows(p) = f..l /\ Cardinality(Rows(p)) = n
  BY <1>0, <1>1, FS_Interval DEF Rows
<1>3. CASE n > RowByRow
  <2> DEFINE a == Part(f, middle - 1, "half")
             b == Part(middle, l, "half")
  <2>1. Split(p) = <<a, b>>
    BY <1>0, <1>2, <1>3 DEF Split
  <2>2. middle \in Int /\ f <= middle - 1 /\ middle <= l
    <3>1. n >= 2
      BY <1>1, <1>3, BoundsAreNatural
    <3>2. n \div 2 \in Int /\ 1 <= n \div 2 /\ n \div 2 <= n - 1
      BY <1>1, <3>1
    <3> HIDE DEF n
    <3>3. n = l - f + 1
      BY DEF n
    <3> QED BY <1>1, <3>2, <3>3
  <2> HIDE DEF middle
  <2>3. /\ a.first = f /\ a.last = middle - 1 /\ a.how = "half"
        /\ b.first = middle /\ b.last = l /\ b.how = "half"
        /\ a \in PartOfBatch /\ b \in PartOfBatch
    BY <1>1, <2>2 DEF Part, PartOfBatch, Row
  <2> HIDE DEF a, b, n
  <2>4. /\ <<a, b>> \in Seq(PartOfBatch) /\ DOMAIN <<a, b>> = 1..2
        /\ <<a, b>>[1] = a /\ <<a, b>>[2] = b
    BY <2>3
  <2>5. Parts(<<a, b>>)
    <3>1. \A i \in 1..2 : <<a, b>>[i] = a \/ <<a, b>>[i] = b
      BY <2>4
    <3>2. a.first <= a.last /\ b.first <= b.last /\ a.last < b.first
      BY <1>1, <2>2, <2>3
    <3>3. \A i, j \in 1..2 : i < j => i = 1 /\ j = 2
      OBVIOUS
    <3> QED BY <2>3, <2>4, <3>1, <3>2, <3>3 DEF Parts
  <2>6. \A r \in Row : In(<<a, b>>, r) <=> r \in Rows(a) \/ r \in Rows(b)
    BY <2>4 DEF In
  <2>7. \A r \in Row : r \in Rows(p) <=> r \in Rows(a) \/ r \in Rows(b)
    <3>1. Rows(a) = f..(middle - 1) /\ Rows(b) = middle..l
      BY <2>3 DEF Rows
    <3> QED BY <1>1, <1>2, <2>2, <3>1
  <2>8. \A i \in 1..2 : f <= <<a, b>>[i].first /\ <<a, b>>[i].last <= l
    <3>1. TAKE i \in 1..2
    <3>2. <<a, b>>[i] = a \/ <<a, b>>[i] = b
      BY <2>4
    <3>3. f <= a.first /\ a.last <= l /\ f <= b.first /\ b.last <= l
      BY <1>1, <2>2, <2>3
    <3> QED BY <3>2, <3>3
  <2> QED BY <1>0, <2>1, <2>4, <2>5, <2>6, <2>7, <2>8
<1>4. CASE ~(n > RowByRow)
  <2> DEFINE s == [i \in 1..n |-> Part(f + i - 1, f + i - 1, "row")]
  <2>1. Split(p) = s
    BY <1>0, <1>2, <1>4 DEF Split
  <2>2. \A i \in 1..n :
          /\ s[i] \in PartOfBatch /\ s[i].how = "row"
          /\ s[i].first = f + i - 1 /\ s[i].last = f + i - 1
    BY <1>1 DEF Part, PartOfBatch, Row
  <2>3. s \in Seq(PartOfBatch) /\ DOMAIN s = 1..n
    BY <1>1, <2>2
  <2> HIDE DEF s
  <2>4. Parts(s)
    BY <1>1, <2>2, <2>3 DEF Parts
  <2>5. \A i \in 1..n : Rows(s[i]) = (f + i - 1)..(f + i - 1)
    BY <2>2 DEF Rows
  <2>6. \A r \in Row : r \in Rows(p) => In(s, r)
    <3>1. TAKE r \in Row
    <3>2. HAVE r \in Rows(p)
    <3>3. r \in Nat /\ f <= r /\ r <= l
      BY <1>1, <1>2, <3>2
    <3>4. r - f + 1 \in 1..n /\ f + (r - f + 1) - 1 = r
      BY <1>1, <3>3
    <3>5. r \in Rows(s[r - f + 1])
      BY <2>5, <3>3, <3>4
    <3> QED BY <2>3, <3>4, <3>5 DEF In
  <2>7. \A r \in Row : In(s, r) => r \in Rows(p)
    BY <1>1, <1>2, <2>3, <2>5 DEF In
  <2>8. \A i \in 1..n : f <= s[i].first /\ s[i].last <= l
    BY <1>1, <2>2
  <2> QED BY <1>0, <2>1, <2>3, <2>4, <2>6, <2>7, <2>8
<1> QED BY <1>3, <1>4

\* The first of some parts, and the rest.
LEMMA TailParts ==
  ASSUME NEW t, Parts(t), t # <<>>
  PROVE  /\ Head(t) \in PartOfBatch /\ Head(t).first <= Head(t).last
         /\ Head(t).how = "row" => Head(t).first = Head(t).last
         /\ Parts(Tail(t))
         /\ \A i \in DOMAIN Tail(t) : Head(t).last < Tail(t)[i].first
         /\ \A r \in Row : In(t, r) <=> r \in Rows(Head(t)) \/ In(Tail(t), r)
         /\ \A r \in Rows(Head(t)) : ~In(Tail(t), r)
<1>1. /\ t \in Seq(PartOfBatch) /\ Len(t) \in Nat \ {0} /\ DOMAIN t = 1..Len(t)
      /\ Head(t) = t[1]
  BY DEF Parts
<1>2. /\ Tail(t) \in Seq(PartOfBatch) /\ DOMAIN Tail(t) = 1..(Len(t) - 1)
      /\ \A i \in 1..(Len(t) - 1) : Tail(t)[i] = t[i + 1]
  BY <1>1
<1>3. t[1] \in PartOfBatch
  BY <1>1
<1>4. /\ Head(t) \in PartOfBatch /\ Head(t).first <= Head(t).last
      /\ Head(t).how = "row" => Head(t).first = Head(t).last
  BY <1>1, <1>3 DEF Parts
<1>5. \A i \in DOMAIN Tail(t) : Head(t).last < Tail(t)[i].first
  BY <1>1, <1>2 DEF Parts
<1>6. Parts(Tail(t))
  BY <1>1, <1>2 DEF Parts
<1>7. \A r \in Row : In(t, r) <=> r \in Rows(Head(t)) \/ In(Tail(t), r)
  <2>1. TAKE r \in Row
  <2>2. ASSUME NEW i \in DOMAIN t, r \in Rows(t[i])
        PROVE  r \in Rows(Head(t)) \/ In(Tail(t), r)
    <3>1. CASE i = 1
      BY <1>1, <2>2, <3>1
    <3>2. CASE i # 1
      <4>1. i - 1 \in DOMAIN Tail(t) /\ Tail(t)[i - 1] = t[i]
        BY <1>1, <1>2, <3>2
      <4> QED BY <2>2, <4>1 DEF In
    <3> QED BY <3>1, <3>2
  <2>3. ASSUME NEW i \in DOMAIN Tail(t), r \in Rows(Tail(t)[i])
        PROVE  In(t, r)
    <3>1. i + 1 \in DOMAIN t /\ t[i + 1] = Tail(t)[i]
      BY <1>1, <1>2
    <3> QED BY <2>3, <3>1 DEF In
  <2>4. r \in Rows(Head(t)) => In(t, r)
    BY <1>1 DEF In
  <2> QED BY <2>2, <2>3, <2>4 DEF In
<1>8. \A r \in Rows(Head(t)) : ~In(Tail(t), r)
  <2>1. ASSUME NEW r \in Rows(Head(t)), NEW i \in DOMAIN Tail(t), r \in Rows(Tail(t)[i])
        PROVE  FALSE
    <3>1. Tail(t)[i] \in PartOfBatch
      BY <1>2
    <3> QED BY <1>4, <1>5, <2>1, <3>1 DEF Rows, PartOfBatch, Row
  <2> QED BY <2>1 DEF In
<1> QED BY <1>4, <1>5, <1>6, <1>7, <1>8

\* A part that is bisected leaves the same rows to insert.
LEMMA BisectedParts ==
  ASSUME NEW t, Parts(t), t # <<>>
  PROVE  LET u == Split(Head(t)) \o Tail(t) IN
         Parts(u) /\ \A r \in Row : In(u, r) <=> In(t, r)
<1> DEFINE p == Head(t)
           s == Split(p)
           v == Tail(t)
           u == s \o v
<1>1. /\ p \in PartOfBatch /\ p.first <= p.last /\ Parts(v)
      /\ \A i \in DOMAIN v : p.last < v[i].first
      /\ \A r \in Row : In(t, r) <=> r \in Rows(p) \/ In(v, r)
  BY TailParts
<1>2. /\ Parts(s)
      /\ \A r \in Row : In(s, r) <=> r \in Rows(p)
      /\ \A i \in DOMAIN s : s[i].last <= p.last
  BY <1>1, SplitParts
<1> HIDE DEF p, s, v
<1>3. /\ s \in Seq(PartOfBatch) /\ DOMAIN s = 1..Len(s) /\ Len(s) \in Nat
      /\ v \in Seq(PartOfBatch) /\ DOMAIN v = 1..Len(v) /\ Len(v) \in Nat
  BY <1>1, <1>2 DEF Parts
<1>4. /\ u \in Seq(PartOfBatch) /\ DOMAIN u = 1..(Len(s) + Len(v))
      /\ \A i \in 1..Len(s) : u[i] = s[i]
      /\ \A i \in 1..Len(v) : u[Len(s) + i] = v[i]
  BY <1>3
<1>5. \A i \in DOMAIN u :
        \/ i \in DOMAIN s /\ u[i] = s[i]
        \/ i > Len(s) /\ i - Len(s) \in DOMAIN v /\ u[i] = v[i - Len(s)]
  <2>1. TAKE i \in DOMAIN u
  <2>2. CASE i <= Len(s)
    BY <1>3, <1>4, <2>2
  <2>3. CASE i > Len(s)
    <3>1. i - Len(s) \in 1..Len(v) /\ Len(s) + (i - Len(s)) = i
      BY <1>3, <1>4, <2>3
    <3> QED BY <1>3, <1>4, <2>3, <3>1
  <2> QED BY <1>3, <1>4, <2>2, <2>3
<1> HIDE DEF u
<1>6. \A i \in DOMAIN u :
        u[i].first <= u[i].last /\ (u[i].how = "row" => u[i].first = u[i].last)
  BY <1>1, <1>2, <1>5 DEF Parts
<1>7. ASSUME NEW i \in DOMAIN u, NEW j \in DOMAIN u, i < j
      PROVE  u[i].last < u[j].first
  <2>1. CASE j \in DOMAIN s /\ u[j] = s[j]
    <3>1. i \in DOMAIN s /\ u[i] = s[i]
      BY <1>3, <1>4, <1>5, <1>7, <2>1
    <3> QED BY <1>2, <1>7, <2>1, <3>1 DEF Parts
  <2>2. CASE j > Len(s) /\ j - Len(s) \in DOMAIN v /\ u[j] = v[j - Len(s)]
    <3>1. CASE i \in DOMAIN s /\ u[i] = s[i]
      <4>1. s[i] \in PartOfBatch /\ v[j - Len(s)] \in PartOfBatch
        BY <1>3, <2>2, <3>1
      <4>2. s[i].last <= p.last /\ p.last < v[j - Len(s)].first
        BY <1>1, <1>2, <2>2, <3>1
      <4> QED BY <1>1, <2>2, <3>1, <4>1, <4>2 DEF PartOfBatch, Row
    <3>2. CASE i > Len(s) /\ i - Len(s) \in DOMAIN v /\ u[i] = v[i - Len(s)]
      <4>1. i - Len(s) < j - Len(s)
        BY <1>3, <1>4, <1>7
      <4> QED BY <1>1, <2>2, <3>2, <4>1 DEF Parts
    <3> QED BY <1>5, <3>1, <3>2
  <2> QED BY <1>5, <2>1, <2>2
<1>8. Parts(u)
  BY <1>4, <1>6, <1>7 DEF Parts
<1>9. \A r \in Row : In(u, r) <=> In(s, r) \/ In(v, r)
  <2>1. TAKE r \in Row
  <2>2. In(u, r) => In(s, r) \/ In(v, r)
    BY <1>5 DEF In
  <2>3. ASSUME NEW i \in DOMAIN s, r \in Rows(s[i]) PROVE In(u, r)
    <3>1. i \in DOMAIN u /\ u[i] = s[i]
      BY <1>3, <1>4
    <3> QED BY <2>3, <3>1 DEF In
  <2>4. ASSUME NEW i \in DOMAIN v, r \in Rows(v[i]) PROVE In(u, r)
    <3>1. Len(s) + i \in DOMAIN u /\ u[Len(s) + i] = v[i]
      BY <1>3, <1>4
    <3> QED BY <2>4, <3>1 DEF In
  <2> QED BY <2>2, <2>3, <2>4 DEF In
<1> QED BY <1>1, <1>2, <1>8, <1>9 DEF u, s, v, p
-----------------------------------------------------------------------------
(***************************************************************************)
(* The inductive invariant.  What remains to be inserted is what has not   *)
(* had its turn: such a row has a copy for a commit nobody heard of, at    *)
(* most, and every other row is one the ladder counted, one that was       *)
(* refused, or one that such a commit left.                                *)
(***************************************************************************)
Before == {"start", "bulk", "again"}

\* Its turn has not come.
Pending(r) == pc \in Before \/ In(todo, r)

Typed ==
  /\ poison \subseteq Row /\ context \in {"own", "block", "manual"}
  /\ connection \in {"ok", "dead"}
  /\ caller \in {"none", "open", "rolledBack"}
  /\ pc \in Before \cup {"ladder", "done"}
  /\ Parts(todo) /\ (pc # "ladder" => todo = <<>>)
  /\ copies \in [Row -> Nat] /\ written \in 0..N /\ result \in Raised..N
  /\ drops \in 0..MaxDrops /\ unheard \in 0..drops
  /\ pc \in Before => written = 0

Connected ==
  /\ context = "own" => caller = "none"
  /\ caller = "none" => context = "own"
  /\ caller = "rolledBack" => connection = "dead"
  /\ connection = "dead" /\ drops = 0 => context = "own" /\ pc \in Before

Copied ==
  \A r \in Row :
    /\ copies[r] <= 1 + unheard
    /\ Pending(r) => copies[r] <= unheard
    /\ pc \in {"start", "bulk"} => copies[r] = 0
    /\ drops = 0 /\ r \notin poison /\ ~Pending(r) => copies[r] = 1

Counted ==
  pc = "ladder" /\ caller # "rolledBack" =>
    /\ Cardinality(Kept(todo, copies)) >= written
    /\ unheard = 0 => Cardinality(Kept(todo, copies)) = written

IInv == Typed /\ Connected /\ Copied /\ Counted /\ LossesAreCounted
-----------------------------------------------------------------------------
LEMMA NothingToDo == Parts(<<>>) /\ \A r \in Row : ~In(<<>>, r)
BY DEF Parts, In

\* Row and its subsets are finite.
LEMMA RowsAreFinite ==
  /\ IsFiniteSet(Row) /\ Cardinality(Row) = N
  /\ \A S \in SUBSET Row : IsFiniteSet(S) /\ Cardinality(S) \in 0..N
                           /\ Cardinality(Row \ S) = N - Cardinality(S)
<1>1. IsFiniteSet(Row) /\ Cardinality(Row) = N
  BY FS_Interval, BatchIsNotEmpty DEF Row
<1>2. ASSUME NEW S \in SUBSET Row
      PROVE  /\ IsFiniteSet(S) /\ Cardinality(S) \in 0..N
             /\ Cardinality(Row \ S) = N - Cardinality(S)
  <2>1. IsFiniteSet(S) /\ Cardinality(S) <= N /\ Cardinality(S) \in Nat
    BY <1>1, FS_Subset, FS_CardinalityType
  <2>2. Cardinality(Row \ S) = Cardinality(Row) - Cardinality(Row \cap S)
    BY <1>1, FS_Difference
  <2>3. Row \cap S = S
    OBVIOUS
  <2> QED BY <1>1, <2>1, <2>2, <2>3, BatchIsNotEmpty
<1> QED BY <1>1, <1>2

\* The invariant gives the properties.
LEMMA IInvIsEnough == IInv => TypeOK /\ LossesAreCounted /\ CopiesAreExplained /\ NothingElseIsLost
<1> SUFFICES ASSUME IInv PROVE TypeOK /\ CopiesAreExplained /\ NothingElseIsLost
  BY DEF IInv
<1>1. TypeOK
  <2>1. ASSUME NEW i \in DOMAIN todo
        PROVE  Rows(todo[i]) # {} /\ Rows(todo[i]) \subseteq Row
    <3>0. Parts(todo)
      BY DEF IInv, Typed
    <3>1. todo[i] \in PartOfBatch /\ todo[i].first <= todo[i].last
      BY <3>0 DEF Parts
    <3>2. PICK f \in Row, l \in Row : todo[i].first = f /\ todo[i].last = l /\ f <= l
      BY <3>1 DEF PartOfBatch
    <3>3. Rows(todo[i]) = f..l
      BY <3>2 DEF Rows
    <3> QED BY <3>2, <3>3, BatchIsNotEmpty DEF Row
  <2> QED BY <2>1 DEF IInv, Typed, Parts, PartOfBatch, TypeOK, Before
<1>2. CopiesAreExplained
  BY DEF IInv, Copied, CopiesAreExplained
<1>3. NothingElseIsLost
  <2>1. caller # "closed"
    BY DEF IInv, Typed
  <2>2. ASSUME pc = "done", drops = 0, NEW r \in Row \ poison PROVE copies[r] = 1
    <3>1. ~Pending(r)
      BY <2>2, NothingToDo DEF IInv, Typed, Pending, Before
    <3> QED BY <2>2, <3>1 DEF IInv, Copied
  <2> QED BY <2>1, <2>2 DEF NothingElseIsLost
<1> QED BY <1>1, <1>2, <1>3

LEMMA InitIInv == Init => IInv
<1> SUFFICES ASSUME Init PROVE IInv
  OBVIOUS
<1>1. Typed
  BY NothingToDo, BatchIsNotEmpty, BoundsAreNatural DEF Init, Typed, Before, Raised
<1>2. Connected
  BY DEF Init, Connected, Before
<1>3. Copied
  BY DEF Init, Copied, Pending, Before
<1>4. Counted /\ LossesAreCounted
  BY DEF Init, Counted, LossesAreCounted
<1> QED BY <1>1, <1>2, <1>3, <1>4 DEF IInv
-----------------------------------------------------------------------------
\* A recycled connection (_recycle()).
LEMMA StartIInv == ASSUME IInv, Start PROVE IInv'
<1>1. /\ pc = "start" /\ pc' = "bulk"
      /\ UNCHANGED <<poison, context, todo, copies, written, result, drops, unheard, caller>>
      /\ connection' \in {"ok", connection}
      /\ context # "own" => UNCHANGED connection
  BY DEF Start, Recycled, MayRecycle, fixed, IInv, Connected
<1>2. Typed'
  BY <1>1 DEF IInv, Typed, Before
<1>3. Connected'
  BY <1>1 DEF IInv, Connected, Before
<1>4. Copied'
  BY <1>1 DEF IInv, Copied, Pending, Before
<1> QED BY <1>1, <1>2, <1>3, <1>4 DEF IInv, Counted, LossesAreCounted

\* The retry has all of the batch before it (write_batch()).
LEMMA AgainIInv == ASSUME IInv, Again PROVE IInv'
<1>1. /\ pc = "again" /\ pc' = "ladder" /\ todo' = <<Whole>>
      /\ UNCHANGED <<poison, context, copies, written, result, drops, unheard, caller>>
      /\ connection' \in {"ok", connection}
      /\ IF context = "own" THEN connection' = "ok" ELSE UNCHANGED connection
  BY DEF Again, Recycled, MayRecycle, fixed, IInv, Connected
<1>2. Typed'
  BY <1>1, WholeIsAPart DEF IInv, Typed, Before
<1>3. Connected'
  BY <1>1 DEF IInv, Connected, Before
<1>4. \A r \in Row : Pending(r) /\ In(todo', r)
  BY <1>1, WholeIsAPart DEF Pending, Before
<1>5. Copied'
  BY <1>1, <1>4 DEF IInv, Copied, Pending
<1>6. Counted'
  <2>1. Kept(todo', copies') = {}
    BY <1>4 DEF Kept
  <2>2. written' = 0
    BY <1>1 DEF IInv, Typed, Before
  <2> QED BY <2>1, <2>2, FS_EmptySet DEF Counted
<1> QED BY <1>1, <1>2, <1>3, <1>5, <1>6 DEF IInv, LossesAreCounted
-----------------------------------------------------------------------------
(***************************************************************************)
(* What a statement leaves: the copies of its rows, the connection.        *)
(***************************************************************************)
\* A statement that succeeds gives each of its rows a copy.
LEMMA Success ==
  ASSUME IInv, NEW p, Succeeds(p)
  PROVE  /\ UNCHANGED <<connection, caller, drops, unheard>>
         /\ connection = "ok" /\ caller # "rolledBack"
         /\ copies' \in [Row -> Nat]
         /\ \A r \in Row : copies'[r] = IF r \in Rows(p) THEN copies[r] + 1 ELSE copies[r]
         /\ \A r \in Rows(p) : r \notin poison
BY DEF Succeeds, Inserted, Accepts, IInv, Typed, Connected

\* One that fails changes no row but by a commit nobody heard of, or by taking
\* the caller's transaction with it.
LEMMA Failure ==
  ASSUME IInv, NEW p, IsRefused(p) \/ IsDropped(p)
  PROVE  /\ copies' \in [Row -> Nat] /\ connection' \in {"ok", "dead"}
         /\ drops' \in 0..MaxDrops /\ drops <= drops'
         /\ drops' = 0 => UNCHANGED copies
         /\ connection' = "dead" /\ drops' = 0 => connection = "dead"
         /\ \/ UNCHANGED <<copies, unheard, caller>> /\ unheard' \in 0..drops'
            \/ /\ \A r \in Row : copies'[r] = IF r \in Rows(p) THEN copies[r] + 1 ELSE copies[r]
               /\ unheard' = unheard + 1 /\ unheard' \in 0..drops' /\ UNCHANGED caller
            \/ /\ \A r \in Row : copies'[r] = 0
               /\ UNCHANGED unheard /\ unheard' \in 0..drops'
               /\ caller' = "rolledBack"
         /\ context = "own" => caller' = "none"
         /\ caller' = "none" => context = "own"
         /\ caller' \in {"none", "open", "rolledBack"}
         /\ caller' = "rolledBack" => connection' = "dead"
         /\ IsRefused(p) \/ drops' > 0 \/ connection = "dead"
         /\ IsRefused(p) => connection = "ok" /\ UNCHANGED copies /\ Rows(p) \cap poison # {}
<1>1. /\ copies \in [Row -> Nat] /\ drops \in 0..MaxDrops /\ unheard \in 0..drops
      /\ MaxDrops \in Nat /\ connection \in {"ok", "dead"}
      /\ caller \in {"none", "open", "rolledBack"}
      /\ context = "own" => caller = "none"
      /\ caller = "none" => context = "own"
      /\ caller = "rolledBack" => connection = "dead"
  BY BoundsAreNatural DEF IInv, Typed, Connected
<1>2. CASE IsRefused(p)
  BY <1>1, <1>2 DEF IsRefused, Unchanged, Accepts
<1>3. CASE connection = "ok" /\ IsDropped(p)
  <2>1. drops < MaxDrops /\ drops' = drops + 1
    BY <1>3 DEF IsDropped
  <2>2. drops' \in 0..MaxDrops /\ drops < drops' /\ unheard + 1 \in 0..drops'
        /\ unheard \in 0..drops'
    BY <1>1, <2>1
  <2>3. CASE /\ context = "own" /\ connection' \in {"ok", "dead"} /\ UNCHANGED caller
             /\ UNCHANGED <<copies, unheard>>
    BY <1>1, <1>3, <2>1, <2>2, <2>3 DEF IsRefused, Accepts, Unchanged
  <2>4. CASE /\ context = "own" /\ connection' \in {"ok", "dead"} /\ UNCHANGED caller
             /\ Accepts(p) /\ Inserted(p) /\ unheard' = unheard + 1
    BY <1>1, <1>3, <2>1, <2>2, <2>4 DEF IsRefused, Inserted
  <2>5. CASE /\ context # "own" /\ connection' = "dead" /\ caller' = "rolledBack"
             /\ copies' = [r \in Row |-> 0] /\ UNCHANGED unheard
    BY <1>1, <1>3, <2>1, <2>2, <2>5 DEF IsRefused, Unchanged
  <2> QED BY <1>3, <2>3, <2>4, <2>5 DEF IsDropped
<1>4. CASE connection = "dead" /\ IsDropped(p)
  BY <1>1, <1>4 DEF IsDropped, IsRefused
<1> QED BY <1>1, <1>2, <1>3, <1>4
-----------------------------------------------------------------------------
\* The first attempt (write_batch()).
LEMMA BulkIInv == ASSUME IInv, Bulk PROVE IInv'
<1>0. /\ pc = "bulk" /\ UNCHANGED <<poison, context, written>> /\ todo = <<>> /\ written = 0
      /\ result \in Raised..N
      /\ \A r \in Row : copies[r] = 0
      /\ unheard \in Nat /\ N \in Nat \ {0}
  BY BatchIsNotEmpty DEF Bulk, fixed, IInv, Typed, Copied, Before
<1>1. CASE Succeeds(Whole) /\ pc' = "done" /\ result' = 0 /\ UNCHANGED todo
  <2>1. /\ UNCHANGED <<connection, caller, drops, unheard>>
        /\ connection = "ok" /\ caller # "rolledBack"
        /\ copies' \in [Row -> Nat] /\ \A r \in Row : copies'[r] = 1
    BY <1>0, <1>1, Success, WholeIsAPart
  <2>2. Typed'
    BY <1>0, <1>1, <2>1 DEF IInv, Typed, Before, Raised
  <2>3. Connected'
    BY <1>0, <1>1, <2>1 DEF IInv, Connected
  <2>4. Copied'
    BY <1>0, <1>1, <2>1, NothingToDo DEF Copied, Pending, Before
  <2>5. Landed' = Row /\ Refused' = 0
    BY <1>0, <1>1, <2>1 DEF Landed, Refused, Raised
  <2>6. LossesAreCounted'
    <3>1. (Row \ Landed)' = {} /\ Landed' # {}
      BY <1>0, <2>5 DEF Row
    <3> QED BY <2>5, <3>1, FS_EmptySet DEF LossesAreCounted
  <2> QED BY <1>1, <2>2, <2>3, <2>4, <2>6 DEF IInv, Counted
<1>2. CASE IsRefused(Whole) /\ pc' = "ladder" /\ todo' = Split(Whole) /\ UNCHANGED result
  <2>1. UNCHANGED <<copies, connection, caller, drops, unheard>> /\ connection = "ok"
    BY <1>2 DEF IsRefused, Unchanged
  <2>2. Parts(todo') /\ \A r \in Row : In(todo', r)
    BY <1>2, SplitParts, WholeIsAPart
  <2>3. Typed'
    BY <1>0, <1>2, <2>1, <2>2 DEF IInv, Typed, Before
  <2>4. Connected'
    BY <1>0, <1>2, <2>1 DEF IInv, Connected
  <2>5. Copied'
    BY <1>0, <1>2, <2>1, <2>2 DEF Copied, Pending
  <2>6. Kept(todo', copies') = {}
    BY <2>2 DEF Kept
  <2> QED BY <1>0, <1>2, <2>3, <2>4, <2>5, <2>6, FS_EmptySet
          DEF IInv, Counted, LossesAreCounted
<1>3. CASE (IsDropped(Whole) \/ IsRefused(Whole)) /\ pc' = "again" /\ UNCHANGED <<todo, result>>
  <2>1. /\ copies' \in [Row -> Nat] /\ connection' \in {"ok", "dead"}
        /\ drops' \in 0..MaxDrops /\ unheard' \in 0..drops' /\ drops <= drops'
        /\ \A r \in Row : copies'[r] <= unheard'
        /\ caller' \in {"none", "open", "rolledBack"}
        /\ caller' = "rolledBack" => connection' = "dead"
        /\ connection' = "dead" /\ drops' = 0 => connection = "dead"
        /\ context = "own" => caller' = "none"
        /\ caller' = "none" => context = "own"
    BY <1>0, <1>3, Failure
  <2>2. Typed'
    BY <1>0, <1>3, <2>1 DEF IInv, Typed, Before
  <2>3. Connected'
    <3>1. drops' = 0 => drops = 0
      BY <2>1 DEF IInv, Typed
    <3> QED BY <1>0, <1>3, <2>1, <3>1 DEF IInv, Connected, Before
  <2>4. Copied'
    <3>1. unheard' \in Nat
      BY <2>1
    <3> QED BY <1>0, <1>3, <2>1, <3>1 DEF Copied, Pending, Before, Typed
  <2> QED BY <1>3, <2>2, <2>3, <2>4 DEF IInv, Counted, LossesAreCounted
<1> QED BY <1>1, <1>2, <1>3 DEF Bulk

(***************************************************************************)
(* A part that lands: its rows are kept, and they are what is counted.     *)
(***************************************************************************)
LEMMA PartLands ==
  ASSUME IInv, pc = "ladder", todo # <<>>, UNCHANGED <<fixed, pc, result>>,
         Succeeds(Head(todo)), written' = written + Cardinality(Rows(Head(todo))),
         todo' = Tail(todo)
  PROVE  IInv'
<1> DEFINE p == Head(todo)
<1>1. /\ p \in PartOfBatch /\ p.first <= p.last /\ Parts(Tail(todo))
      /\ \A r \in Row : In(todo, r) <=> r \in Rows(p) \/ In(todo', r)
      /\ \A r \in Rows(p) : ~In(todo', r)
  BY TailParts DEF IInv, Typed
<1>2. /\ UNCHANGED <<connection, caller, drops, unheard>>
      /\ connection = "ok" /\ caller # "rolledBack"
      /\ copies' \in [Row -> Nat]
      /\ \A r \in Row : copies'[r] = IF r \in Rows(p) THEN copies[r] + 1 ELSE copies[r]
      /\ \A r \in Rows(p) : r \notin poison
  BY Success
<1> HIDE DEF p
<1>3. Rows(p) \subseteq Row
  <2>1. PICK f \in Row, l \in Row : p.first = f /\ p.last = l
    BY <1>1 DEF PartOfBatch
  <2> QED BY <2>1, BatchIsNotEmpty DEF Rows, Row
<1>4. /\ unheard \in Nat /\ copies \in [Row -> Nat] /\ written \in 0..N
      /\ UNCHANGED <<poison, context, pc, result>>
  BY BoundsAreNatural DEF IInv, Typed, fixed
<1>5. Copied'
  <2>1. \A r \in Row : (r \in Rows(p) => Pending(r)) /\ (Pending(r) <=> In(todo, r))
    BY <1>1 DEF Pending, Before
  <2>2. \A r \in Row : Pending(r)' <=> In(todo', r)
    BY <1>4 DEF Pending, Before
  <2>3. ASSUME NEW r \in Row
        PROVE  /\ copies'[r] <= 1 + unheard
               /\ In(todo', r) => copies'[r] <= unheard
               /\ drops = 0 /\ r \notin poison /\ ~In(todo', r) => copies'[r] = 1
    <3>1. /\ copies[r] <= 1 + unheard
          /\ In(todo, r) => copies[r] <= unheard
          /\ drops = 0 /\ r \notin poison /\ ~In(todo, r) => copies[r] = 1
      BY <2>1 DEF IInv, Copied
    <3>2. copies[r] \in Nat
      BY <1>4
    <3>3. drops = 0 => unheard = 0
      BY DEF IInv, Typed
    <3>4. CASE r \in Rows(p)
      BY <1>1, <1>2, <1>4, <3>1, <3>2, <3>3, <3>4
    <3>5. CASE r \notin Rows(p)
      BY <1>1, <1>2, <3>1, <3>5
    <3> QED BY <3>4, <3>5
  <2> QED BY <1>2, <1>4, <2>2, <2>3 DEF Copied
<1>6. /\ Cardinality(Kept(todo', copies')) = Cardinality(Kept(todo, copies)) + Cardinality(Rows(p))
      /\ Cardinality(Kept(todo', copies')) \in 0..N
      /\ Cardinality(Kept(todo, copies)) \in Nat /\ Cardinality(Rows(p)) \in Nat
  <2>1. Kept(todo', copies') = Kept(todo, copies) \cup Rows(p)
    <3>1. ASSUME NEW r \in Row
          PROVE  r \in Kept(todo', copies') <=> r \in Kept(todo, copies) \/ r \in Rows(p)
      BY <1>1, <1>2, <1>4 DEF Kept
    <3> QED BY <1>3, <3>1 DEF Kept
  <2>2. Kept(todo, copies) \cap Rows(p) = {}
    BY <1>1, <1>3 DEF Kept
  <2>3. /\ Kept(todo, copies) \in SUBSET Row /\ Rows(p) \in SUBSET Row
        /\ Kept(todo', copies') \in SUBSET Row
    BY <1>3 DEF Kept
  <2>4. /\ IsFiniteSet(Kept(todo, copies)) /\ IsFiniteSet(Rows(p))
        /\ Cardinality(Kept(todo, copies)) \in 0..N /\ Cardinality(Rows(p)) \in 0..N
        /\ Cardinality(Kept(todo', copies')) \in 0..N
    BY <2>3, RowsAreFinite
  <2> DEFINE S == Kept(todo, copies)
             T == Rows(p)
  <2> HIDE DEF S, T
  <2>5. /\ IsFiniteSet(S) /\ IsFiniteSet(T) /\ S \cap T = {}
        /\ Cardinality(S) \in 0..N /\ Cardinality(T) \in 0..N
    BY <2>2, <2>4 DEF S, T
  <2>6. Cardinality(S \cup T) = Cardinality(S) + Cardinality(T) - Cardinality(S \cap T)
    BY <2>5, FS_Union
  <2>7. Cardinality(S \cap T) = 0
    BY <2>5, FS_EmptySet
  <2>8. Cardinality(S \cup T) = Cardinality(S) + Cardinality(T)
    BY <2>5, <2>6, <2>7
  <2>9. Cardinality(Kept(todo', copies')) = Cardinality(S \cup T)
    BY <2>1 DEF S, T
  <2>10. Cardinality(Kept(todo', copies')) \in 0..N
    BY <2>4
  <2>11. S = Kept(todo, copies) /\ T = Rows(p)
    BY DEF S, T
  <2> QED BY <2>5, <2>8, <2>9, <2>10, <2>11
<1>7. Counted' /\ written' \in 0..N
  <2>1. /\ Cardinality(Kept(todo, copies)) >= written
        /\ unheard = 0 => Cardinality(Kept(todo, copies)) = written
    BY <1>2 DEF IInv, Counted
  <2>2. written' = written + Cardinality(Rows(p))
    BY DEF p
  <2> DEFINE k == Cardinality(Kept(todo, copies))
             m == Cardinality(Kept(todo', copies'))
             n == Cardinality(Rows(p))
  <2>3. /\ m = k + n /\ m \in 0..N /\ k \in Nat /\ n \in Nat /\ written \in Nat
        /\ k >= written /\ (unheard = 0 => k = written)
        /\ written' = written + n
    BY <1>4, <1>6, <2>1, <2>2
  <2> HIDE DEF k, m, n
  <2>4. written' \in 0..N /\ m >= written' /\ (unheard = 0 => m = written')
    BY <2>3, BatchIsNotEmpty
  <2> QED BY <1>2, <2>4 DEF Counted, m
<1>8. Typed'
  BY <1>1, <1>2, <1>4, <1>7 DEF IInv, Typed, Before
<1>9. Connected'
  BY <1>2, <1>4 DEF IInv, Connected
<1> QED BY <1>4, <1>5, <1>7, <1>8, <1>9 DEF IInv, LossesAreCounted

(***************************************************************************)
(* A part that does not land: a half is bisected and its rows keep their   *)
(* turn, a row is given up.                                                *)
(***************************************************************************)
LEMMA PartFails ==
  ASSUME IInv, pc = "ladder", todo # <<>>, UNCHANGED <<fixed, pc, result, written>>,
         IsRefused(Head(todo)) \/ IsDropped(Head(todo)),
         todo' = IF Head(todo).how = "half" THEN Split(Head(todo)) \o Tail(todo) ELSE Tail(todo)
  PROVE  IInv'
<1> DEFINE p == Head(todo)
<1>1. /\ p \in PartOfBatch /\ p.first <= p.last
      /\ p.how = "row" => p.first = p.last
      /\ \A r \in Row : In(todo, r) <=> r \in Rows(p) \/ In(Tail(todo), r)
      /\ Parts(Tail(todo))
      /\ \A r \in Rows(p) : ~In(Tail(todo), r)
  BY TailParts DEF IInv, Typed
<1>2. Parts(todo') /\ \A r \in Row : In(todo', r) => In(todo, r)
  BY <1>1, BisectedParts DEF IInv, Typed
<1>3. \A r \in Row : In(todo, r) /\ ~In(todo', r) => p.how = "row" /\ r \in Rows(p)
  BY <1>1, BisectedParts DEF IInv, Typed, PartOfBatch
<1>4. /\ copies' \in [Row -> Nat] /\ connection' \in {"ok", "dead"}
      /\ drops' \in 0..MaxDrops /\ drops <= drops'
      /\ drops' = 0 => UNCHANGED copies
      /\ connection' = "dead" /\ drops' = 0 => connection = "dead"
      /\ \/ UNCHANGED <<copies, unheard, caller>> /\ unheard' \in 0..drops'
         \/ /\ \A r \in Row : copies'[r] = IF r \in Rows(p) THEN copies[r] + 1 ELSE copies[r]
            /\ unheard' = unheard + 1 /\ unheard' \in 0..drops' /\ UNCHANGED caller
         \/ /\ \A r \in Row : copies'[r] = 0
            /\ UNCHANGED unheard /\ unheard' \in 0..drops'
            /\ caller' = "rolledBack"
      /\ context = "own" => caller' = "none"
      /\ caller' = "none" => context = "own"
      /\ caller' \in {"none", "open", "rolledBack"}
      /\ caller' = "rolledBack" => connection' = "dead"
      /\ IsRefused(p) \/ drops' > 0 \/ connection = "dead"
      /\ IsRefused(p) => connection = "ok" /\ UNCHANGED copies /\ Rows(p) \cap poison # {}
  BY Failure
<1> HIDE DEF p
<1>5. /\ unheard \in Nat /\ copies \in [Row -> Nat] /\ written \in 0..N /\ drops \in Nat
      /\ UNCHANGED <<poison, context, pc, result>> /\ unheard' \in Nat
  BY <1>4, BoundsAreNatural DEF IInv, Typed, fixed
<1>6. Connected'
  <2>1. drops' = 0 => drops = 0
    BY <1>4, <1>5
  <2> QED BY <1>4, <1>5, <2>1 DEF IInv, Connected
<1>7. Typed'
  BY <1>2, <1>4, <1>5 DEF IInv, Typed, Before
<1>8. Copied'
  <2>1. \A r \in Row : (Pending(r) <=> In(todo, r)) /\ (Pending(r)' <=> In(todo', r))
    BY <1>5 DEF Pending, Before
  <2>2. ASSUME NEW r \in Row
        PROVE  /\ copies'[r] <= 1 + unheard'
               /\ In(todo', r) => copies'[r] <= unheard'
               /\ drops' = 0 /\ r \notin poison /\ ~In(todo', r) => copies'[r] = 1
    <3>1. /\ copies[r] <= 1 + unheard
          /\ In(todo, r) => copies[r] <= unheard
          /\ drops = 0 /\ r \notin poison /\ ~In(todo, r) => copies[r] = 1
          /\ copies[r] \in Nat
      BY <1>5, <2>1 DEF IInv, Copied
    <3>2. copies'[r] <= 1 + unheard' /\ (In(todo', r) => copies'[r] <= unheard')
      <4>1. CASE UNCHANGED <<copies, unheard>>
        BY <1>2, <3>1, <4>1
      <4>2. CASE /\ \A x \in Row : copies'[x] = IF x \in Rows(p) THEN copies[x] + 1 ELSE copies[x]
                 /\ unheard' = unheard + 1
        <5>1. copies'[r] = copies[r] + 1 \/ copies'[r] = copies[r]
          BY <4>2
        <5>2. In(todo', r) => In(todo, r)
          BY <1>2
        <5> QED BY <1>5, <3>1, <4>2, <5>1, <5>2
      <4>3. CASE (\A x \in Row : copies'[x] = 0) /\ UNCHANGED unheard
        <5>1. copies'[r] = 0
          BY <4>3
        <5> QED BY <1>5, <4>3, <5>1
      <4> QED BY <1>4, <4>1, <4>2, <4>3
    <3>3. ASSUME drops' = 0, r \notin poison, ~In(todo', r) PROVE copies'[r] = 1
      <4>1. drops = 0 /\ UNCHANGED copies
        BY <1>4, <1>5, <3>3
      <4>2. connection = "ok"
        BY <4>1 DEF IInv, Typed, Connected, Before
      <4>3. IsRefused(p)
        BY <1>4, <3>3, <4>2
      <4>4. ~In(todo, r)
        <5>1. SUFFICES ASSUME In(todo, r) PROVE FALSE
          OBVIOUS
        <5>2. p.how = "row" /\ r \in Rows(p)
          BY <1>3, <3>3, <5>1
        <5>3. \A x \in Rows(p) : x = r
          <6>1. PICK f \in Row : p.first = f /\ p.last = f
            BY <1>1, <5>2 DEF PartOfBatch
          <6>2. Rows(p) = f..f /\ f \in Int
            BY <6>1 DEF Rows, Row
          <6> QED BY <5>2, <6>2
        <5> QED BY <1>4, <3>3, <4>3, <5>3
      <4> QED BY <3>1, <3>3, <4>1, <4>4
    <3> QED BY <3>2, <3>3
  <2> QED BY <1>5, <2>1, <2>2 DEF Copied
<1>9. Counted'
  <2> SUFFICES ASSUME caller' # "rolledBack"
               PROVE  /\ Cardinality(Kept(todo', copies')) >= written
                      /\ unheard' = 0 => Cardinality(Kept(todo', copies')) = written
    BY <1>5 DEF Counted
  <2>1. caller # "rolledBack"
    BY <1>4
  <2>2. /\ Cardinality(Kept(todo, copies)) >= written
        /\ unheard = 0 => Cardinality(Kept(todo, copies)) = written
    BY <2>1 DEF IInv, Counted
  <2>3. Kept(todo, copies) \subseteq Kept(todo', copies')
    BY <1>2, <1>4, <1>5 DEF Kept
  <2>4. Kept(todo', copies') \in SUBSET Row /\ Kept(todo, copies) \in SUBSET Kept(todo', copies')
    BY <2>3 DEF Kept
  <2>5. Cardinality(Kept(todo', copies')) >= Cardinality(Kept(todo, copies))
        /\ Cardinality(Kept(todo', copies')) \in Nat /\ Cardinality(Kept(todo, copies)) \in Nat
    BY <2>4, RowsAreFinite, FS_Subset, FS_CardinalityType
  <2>6. ASSUME unheard' = 0 PROVE Kept(todo', copies') = Kept(todo, copies)
    <3>1. unheard = 0 /\ UNCHANGED copies
      BY <1>4, <1>5, <2>6
    <3>2. \A r \in Row : In(todo, r) => copies[r] = 0
      BY <1>5, <3>1 DEF IInv, Copied, Pending
    <3> QED BY <1>2, <3>1, <3>2 DEF Kept
  <2>7. unheard' = 0 => unheard = 0
    BY <1>4, <1>5
  <2> QED BY <1>5, <2>2, <2>5, <2>6, <2>7
<1> QED BY <1>5, <1>6, <1>7, <1>8, <1>9 DEF IInv, LossesAreCounted
-----------------------------------------------------------------------------
\* The count that is returned, or raised (_refused()).
LEMMA FinishIInv == ASSUME IInv, Finish PROVE IInv'
<1>1. /\ pc = "ladder" /\ pc' = "done" /\ todo = <<>>
      /\ UNCHANGED <<poison, context, connection, caller, todo, copies, written, drops, unheard>>
      /\ result' = IF written = 0 THEN Raised ELSE N - written
      /\ written \in 0..N /\ N \in Nat \ {0} /\ copies \in [Row -> Nat]
  BY BatchIsNotEmpty DEF Finish, Returns, fixed, IInv, Typed
<1>2. Typed'
  BY <1>1 DEF IInv, Typed, Before, Raised
<1>3. Connected'
  BY <1>1 DEF IInv, Connected, Before
<1>4. Copied'
  BY <1>1 DEF IInv, Copied, Pending, Before
<1>5. LossesAreCounted'
  <2> SUFFICES ASSUME caller # "rolledBack"
               PROVE  /\ Cardinality(Row \ Landed) <= Refused'
                      /\ unheard = 0 => Cardinality(Row \ Landed) = Refused'
                      /\ Landed = {} => result' = Raised
    BY <1>1 DEF LossesAreCounted, Landed
  <2>1. Kept(todo, copies) = Landed
    BY <1>1, NothingToDo DEF Kept, Landed
  <2>2. /\ Cardinality(Landed) >= written
        /\ unheard = 0 => Cardinality(Landed) = written
    BY <1>1, <2>1 DEF IInv, Counted
  <2>3. Landed \in SUBSET Row
    BY DEF Landed
  <2>4. Cardinality(Row \ Landed) = N - Cardinality(Landed) /\ Cardinality(Landed) \in 0..N
    BY <2>3, RowsAreFinite
  <2>5. Refused' = N - written
    BY <1>1 DEF Refused, Raised
  <2>6. Landed = {} => written = 0
    BY <1>1, <2>2, FS_EmptySet
  <2> QED BY <1>1, <2>2, <2>4, <2>5, <2>6
<1> QED BY <1>1, <1>2, <1>3, <1>4, <1>5 DEF IInv, Counted

LEMMA NextIInv == ASSUME IInv, [Next]_vars PROVE IInv'
<1>1. CASE UNCHANGED vars
  BY <1>1 DEF vars, fixed, IInv, Typed, Connected, Copied, Counted, Pending,
              LossesAreCounted, Landed, Refused
<1>2. CASE Climb
  BY <1>2, PartLands, PartFails DEF Climb
<1> QED BY <1>1, <1>2, StartIInv, BulkIInv, AgainIInv, FinishIInv DEF Next, Over

LEMMA AlwaysIInv == Spec => []IInv
<1>1. Init => IInv
  BY InitIInv
<1>2. IInv /\ [Next]_vars => IInv'
  BY NextIInv
<1> QED BY <1>1, <1>2, PTL DEF Spec

(***************************************************************************)
(* The state stays well typed: the ladder never leaves the batch, and what *)
(* it believes landed is no more than the batch.                           *)
(***************************************************************************)
THEOREM TypeCorrect == Spec => []TypeOK
BY AlwaysIInv, IInvIsEnough, PTL

(***************************************************************************)
(* No row disappears uncounted, and the count is exact unless a commit     *)
(* went unheard; a batch of which nothing landed raises (_refused()).      *)
(***************************************************************************)
THEOREM EveryLossIsCounted == Spec => []LossesAreCounted
BY AlwaysIInv, IInvIsEnough, PTL

\* No row lands twice but for a commit whose answer was lost (write_batch()).
THEOREM NoCopyIsUnexplained == Spec => []CopiesAreExplained
BY AlwaysIInv, IInvIsEnough, PTL

(***************************************************************************)
(* Rows the database takes all land, once, whatever others it refuses, and *)
(* a caller's transaction is never closed under it (_write_one_by_one(),   *)
(* _recycle()).                                                            *)
(***************************************************************************)
THEOREM PoisonCostsOnlyItself == Spec => []NothingElseIsLost
BY AlwaysIInv, IInvIsEnough, PTL
=============================================================================
