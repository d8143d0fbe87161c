--------------------------- MODULE ThrottleProofs ---------------------------
(***************************************************************************)
(* Theorems about Throttle, for every set of sends and chats, all rates    *)
(* and capacities, and a map of any size.                                  *)
(***************************************************************************)
EXTENDS Throttle, CollectionLemmas, TLAPS

\* The buckets in the maps were made by sends that have begun, for chats.
Made ==
  \A k \in PerChat : \A b \in Range(tracked[k]) :
    /\ b.budget = k
    /\ pc[b.by] # "new"
    /\ Key(b) \in Chat

\* So were the buckets a send holds; and a send that claims or sleeps has one.
Holds ==
  \A s \in Send :
    /\ \A b \in Range(todo[s]) : b # Overall => b \in [budget : PerChat, by : Send] /\ pc[b.by] # "new"
    /\ pc[s] \in {"claim", "sleep"} => todo[s] # <<>>

Steady == TypeOK /\ Made /\ Holds

-----------------------------------------------------------------------------
\* A bucket is the overall one or a chat's, and has a budget.
LEMMA BucketKinds ==
  /\ \A b \in Bucket : b.budget \in Budget
  /\ \A b \in Bucket : b # Overall => b \in [budget : PerChat, by : Send]
  /\ \A k \in PerChat, s \in Send : Fresh(k, s) \in Bucket /\ Fresh(k, s) # Overall
  /\ Overall \in Bucket
  BY DEF Bucket, Overall, Budget, PerChat, Fresh

\* Who made a bucket of a chat is a send.
LEMMA BucketOwner ==
  ASSUME Steady, NEW k \in PerChat, NEW b \in Range(tracked[k])
  PROVE  b.by \in Send
<1>1. b \in Bucket /\ b.budget = k
  BY DEF Steady, TypeOK, Made, Range
<1> QED BY <1>1 DEF Bucket, Overall, PerChat

\* The credit of a bucket is a natural number of ticks.
LEMMA BurstIsNatural == \A k \in Budget : Burst(k) \in Nat
<1>1. TAKE k \in Budget
<1>2. Interval[k] \in Nat /\ Capacity[k] \in Nat
  BY RatesAreNatural
<1>3. CASE Capacity[k] = 0
  BY <1>3 DEF Burst
<1>4. CASE Capacity[k] # 0
  <2>1. PICK c \in Nat : Capacity[k] - 1 = c
    BY <1>2, <1>4
  <2>2. c * Interval[k] \in Nat
    BY <1>2
  <2> QED BY <2>1, <2>2, <1>4 DEF Burst
<1> QED BY <1>3, <1>4

\* A claim never gets a slot before the one the bucket has free.
LEMMA SlotBounds ==
  ASSUME TypeOK, NEW b \in Bucket
  PROVE  /\ FirstSlot(b) \in Int /\ now \in Nat /\ nextFree[b] \in Int
         /\ FirstSlot(b) >= nextFree[b]
         /\ FirstSlot(b) >= now - Burst(b.budget)
         /\ FirstSlot(b) \in {nextFree[b], now - Burst(b.budget)}
         /\ Later(FirstSlot(b), now) \in Nat
         /\ Interval[b.budget] \in Nat
<1>1. b.budget \in Budget /\ Burst(b.budget) \in Nat
  BY BucketKinds, BurstIsNatural
<1>2. now \in Nat /\ nextFree[b] \in Int /\ Interval[b.budget] \in Nat
  BY <1>1, TimeIsNatural, RatesAreNatural DEF TypeOK
<1> QED BY <1>1, <1>2 DEF FirstSlot, Later

\* Of a full map some bucket is chosen.
LEMMA VictimIsThere ==
  ASSUME TypeOK, NEW k \in PerChat, Len(tracked[k]) = MaxTracked
  PROVE  Victim(k) \in 1..Len(tracked[k])
<1> DEFINE idle == {i \in 1..Candidates : Idle(tracked[k][i])}
<1>1. Candidates \in 1..Len(tracked[k]) /\ idle \subseteq Nat /\ idle \subseteq 1..Len(tracked[k])
  BY MapIsLargerThanItsCandidates
<1>2. CASE idle = {}
  BY <1>1, <1>2 DEF Victim
<1>3. CASE idle # {}
  <2>1. Min(idle) \in idle
    BY <1>1, <1>3, MinOfNats
  <2>2. Victim(k) = Min(idle)
    BY <1>3 DEF Victim
  <2> QED BY <2>1, <2>2, <1>1
<1> QED BY <1>2, <1>3

\* And an idle one, when there is one to spare.
LEMMA VictimIsSpare ==
  ASSUME TypeOK, NEW k \in PerChat, NEW s \in Send, NEW b \in Evicted(k, s), ~NoneToSpare(k)
  PROVE  Idle(b)
<1> DEFINE idle == {i \in 1..Candidates : Idle(tracked[k][i])}
<1>1. idle \subseteq Nat /\ idle # {}
  BY MapIsLargerThanItsCandidates DEF NoneToSpare
<1>2. Min(idle) \in idle
  BY <1>1, MinOfNats
<1>3. Victim(k) \in idle
  BY <1>1, <1>2 DEF Victim
<1> QED BY <1>3 DEF Evicted

\* The bucket a send finds or makes, and what it leaves in the map.
LEMMA LookUpOne ==
  ASSUME Steady, NEW s \in Send, NEW k \in PerChat, k \in Charged(s)
  PROVE  /\ ChatOf[s] \in Chat
         /\ Fresh(k, s) \in Bucket
         /\ BucketFor(k, s) \in [budget : PerChat, by : Send]
         /\ BucketFor(k, s) = Fresh(k, s) \/ BucketFor(k, s) \in Range(tracked[k])
         /\ Evicted(k, s) \subseteq Range(tracked[k])
         /\ Touched(k, s) \in Seq(Bucket)
         /\ Len(Touched(k, s)) <= MaxTracked
         /\ Range(Touched(k, s)) \subseteq Range(tracked[k]) \cup {Fresh(k, s)}
<1> DEFINE t == tracked[k]
           b == BucketFor(k, s)
<1>1. ChatOf[s] \in Chat
  BY GroupsAreChats DEF Charged, PerChat
<1>2. Fresh(k, s) \in Bucket /\ Fresh(k, s) \in [budget : PerChat, by : Send]
  BY BucketKinds DEF Fresh
<1>3. t \in Seq(Bucket) /\ Len(t) <= MaxTracked /\ Range(t) \subseteq Bucket /\ MaxTracked \in Nat
  BY MapIsLargerThanItsCandidates DEF Steady, TypeOK, Range
<1>4. \A e \in Range(t) : e \in [budget : PerChat, by : Send]
  BY <1>3 DEF Steady, Made, Bucket, Overall, PerChat
<1>5. k # "overall"
  BY DEF PerChat
<1>6. Known(k, s) # {} => b \in Range(t)
  BY <1>5 DEF BucketFor, Known
<1>7. Known(k, s) = {} => b = Fresh(k, s)
  BY <1>5 DEF BucketFor
<1>8. Known(k, s) = {} /\ Len(t) = MaxTracked => Victim(k) \in 1..Len(t)
  BY VictimIsThere DEF Steady
<1>9. Evicted(k, s) \subseteq Range(t)
  BY <1>3, <1>8 DEF Evicted, Range
<1> DEFINE room == IF Known(k, s) # {} THEN RemoveFirst(t, b)
                   ELSE IF Evicted(k, s) = {} THEN t ELSE RemoveAt(t, Victim(k))
<1>10. Touched(k, s) = Append(room, b)
  BY <1>7 DEF Touched
<1>11. room \in Seq(Bucket) /\ Len(room) < MaxTracked /\ Range(room) \subseteq Range(t)
  <2>1. CASE Known(k, s) # {}
    <3>1. b \in Range(t)
      BY <2>1, <1>6
    <3>2. RemoveFirst(t, b) \in Seq(Bucket) /\ Range(RemoveFirst(t, b)) \subseteq Range(t)
      BY <1>3, RemoveFirstRange
    <3>3. Len(RemoveFirst(t, b)) = Len(t) - 1
      BY <1>3, <3>1, RemoveFirstLen
    <3>4. Len(t) \in Nat
      BY <1>3
    <3> QED BY <2>1, <3>2, <3>3, <3>4, <1>3
  <2>2. CASE Known(k, s) = {} /\ Evicted(k, s) = {}
    <3>1. Len(t) = MaxTracked => t[Victim(k)] \in Evicted(k, s)
      BY <2>2 DEF Evicted
    <3>2. Len(t) # MaxTracked /\ Len(t) \in Nat
      BY <2>2, <3>1, <1>3
    <3> QED BY <2>2, <3>2, <1>3
  <2>3. CASE Known(k, s) = {} /\ Evicted(k, s) # {}
    <3>1. Len(t) = MaxTracked
      BY <2>3 DEF Evicted
    <3>2. Victim(k) \in 1..Len(t)
      BY <2>3, <3>1, <1>8
    <3>3. /\ RemoveAt(t, Victim(k)) \in Seq(Bucket)
          /\ Len(RemoveAt(t, Victim(k))) = Len(t) - 1
          /\ Range(RemoveAt(t, Victim(k))) \subseteq Range(t)
      BY <1>3, <3>2, RemoveAtRange
    <3> QED BY <2>3, <3>1, <3>3, <1>3
  <2> QED BY <2>1, <2>2, <2>3
<1>12. b \in Bucket /\ b \in Range(t) \cup {Fresh(k, s)}
  BY <1>2, <1>3, <1>6, <1>7
<1> HIDE DEF room
<1>13. /\ Append(room, b) \in Seq(Bucket)
       /\ Range(Append(room, b)) = Range(room) \cup {b}
       /\ Len(Append(room, b)) = Len(room) + 1
       /\ Len(room) \in Nat
  BY <1>11, <1>12, AppendRange, AppendProperties
<1> QED BY <1>1, <1>2, <1>3, <1>4, <1>6, <1>7, <1>9, <1>10, <1>11, <1>12, <1>13

-----------------------------------------------------------------------------
LEMMA InitSteady == Init => Steady
<1>1. SUFFICES ASSUME Init PROVE TypeOK /\ Made /\ Holds
  BY DEF Steady
<1>2. nextFree \in [Bucket -> Int]
  <2>1. SUFFICES ASSUME NEW b \in Bucket PROVE -Burst(b.budget) \in Int
    BY <1>1 DEF Init
  <2> QED BY BucketKinds, BurstIsNatural
<1>3. TypeOK
  BY <1>1, <1>2, TimeIsNatural, MapIsLargerThanItsCandidates DEF Init, TypeOK
<1>4. Made
  BY <1>1 DEF Init, Made, Range
<1>5. Holds
  BY <1>1 DEF Init, Holds, Range
<1> QED BY <1>3, <1>4, <1>5

\* The list of buckets a send acquires.
LEMMA ShareType ==
  ASSUME Steady, NEW s \in Send, NEW k \in Budget
  PROVE  /\ Share(k, s) \in Seq(Bucket)
         /\ Range(Share(k, s)) \subseteq Bucket
         /\ k \in Charged(s) => Share(k, s) # <<>>
         /\ \A b \in Range(Share(k, s)) :
               b # Overall =>
                 /\ b \in [budget : PerChat, by : Send]
                 /\ b.by = s \/ \E j \in PerChat : b \in Range(tracked[j])
<1>1. CASE k \notin Charged(s)
  BY <1>1 DEF Share, Range
<1>2. CASE k \in Charged(s) /\ k = "overall"
  BY <1>2, BucketKinds DEF Share, BucketFor, Range
<1>3. CASE k \in Charged(s) /\ k \in PerChat
  <2>1. /\ BucketFor(k, s) \in [budget : PerChat, by : Send]
        /\ BucketFor(k, s) = Fresh(k, s) \/ BucketFor(k, s) \in Range(tracked[k])
    BY <1>3, LookUpOne
  <2>2. BucketFor(k, s) \in Bucket
    BY <2>1 DEF Bucket
  <2>3. Fresh(k, s).by = s
    BY DEF Fresh
  <2>4. Share(k, s) = <<BucketFor(k, s)>>
    BY <1>3 DEF Share
  <2> QED BY <1>3, <2>1, <2>2, <2>3, <2>4 DEF Range
<1> QED BY <1>1, <1>2, <1>3 DEF Budget

LEMMA LookUpSteady ==
  ASSUME Steady, NEW s \in Send, LookUp(s)
  PROVE  Steady'
<1> DEFINE mine == Charged(s) \cap PerChat
           list == Share("overall", s) \o Share("chat", s) \o Share("group", s)
<1>1. nextFree' \in [Bucket -> Int]
  <2>1. \A b \in Bucket : Burst(b.budget) \in Nat /\ nextFree[b] \in Int
    BY BucketKinds, BurstIsNatural DEF Steady, TypeOK
  <2>2. now \in Int
    BY TimeIsNatural DEF Steady, TypeOK
  <2> QED BY <2>1, <2>2 DEF LookUp
<1>2. /\ tracked' \in [PerChat -> Seq(Bucket)]
      /\ \A k \in PerChat :
           /\ Len(tracked'[k]) <= MaxTracked
           /\ Range(tracked'[k]) \subseteq Range(tracked[k]) \cup {Fresh(j, s) : j \in mine \cap {k}}
  <2>1. tracked' = [k \in PerChat |-> IF k \in mine THEN Touched(k, s) ELSE tracked[k]]
    BY DEF LookUp
  <2>2. ASSUME NEW k \in PerChat
        PROVE  /\ tracked'[k] \in Seq(Bucket)
               /\ Len(tracked'[k]) <= MaxTracked
               /\ Range(tracked'[k]) \subseteq Range(tracked[k]) \cup {Fresh(j, s) : j \in mine \cap {k}}
    <3>1. CASE k \in mine
      BY <2>1, <3>1, LookUpOne
    <3>2. CASE k \notin mine
      BY <2>1, <3>2 DEF Steady, TypeOK
    <3> QED BY <3>1, <3>2
  <2> QED BY <2>1, <2>2
<1>3. forgotten' \subseteq PerChat \X Chat
  <2>1. SUFFICES ASSUME NEW k \in mine, NEW e \in Evicted(k, s)
                 PROVE  e.budget \in PerChat /\ Key(e) \in Chat
    BY DEF LookUp, Steady, TypeOK
  <2>2. e \in Range(tracked[k])
    BY LookUpOne
  <2> QED BY <2>2 DEF Steady, Made
<1>4. /\ list \in Seq(Bucket)
      /\ Range(list) = Range(Share("overall", s)) \cup Range(Share("chat", s)) \cup Range(Share("group", s))
      /\ Charged(s) # {} => list # <<>>
  <2> DEFINE one == Share("overall", s)
             two == Share("chat", s)
             three == Share("group", s)
  <2>1. {"overall", "chat", "group"} = Budget /\ Charged(s) \subseteq Budget
    BY DEF Budget, PerChat, Charged
  <2>2. /\ one \in Seq(Bucket) /\ two \in Seq(Bucket) /\ three \in Seq(Bucket)
        /\ "overall" \in Charged(s) => one # <<>>
        /\ "chat" \in Charged(s) => two # <<>>
        /\ "group" \in Charged(s) => three # <<>>
    BY <2>1, ShareType
  <2> HIDE DEF one, two, three
  <2>3. one \o two \in Seq(Bucket) /\ Range(one \o two) = Range(one) \cup Range(two)
    BY <2>2, RangeConcatenation, ConcatProperties
  <2>4. /\ (one \o two) \o three \in Seq(Bucket)
        /\ Range((one \o two) \o three) = Range(one \o two) \cup Range(three)
    <3> DEFINE pair == one \o two
    <3>1. pair \in Seq(Bucket)
      BY <2>3
    <3> HIDE DEF pair
    <3>2. Range(pair \o three) = Range(pair) \cup Range(three)
      BY <3>1, <2>2, RangeConcatenation
    <3>3. pair \o three \in Seq(Bucket)
      BY <3>1, <2>2, ConcatProperties
    <3> QED BY <3>2, <3>3 DEF pair
  <2>5. one # <<>> \/ two # <<>> \/ three # <<>> => (one \o two) \o three # <<>>
    <3>1. /\ Len(one) \in Nat /\ Len(two) \in Nat /\ Len(three) \in Nat
          /\ Len((one \o two) \o three) = Len(one) + Len(two) + Len(three)
      BY <2>2, <2>3, ConcatProperties, LenProperties
    <3>2. \A q \in Seq(Bucket) : q = <<>> <=> Len(q) = 0
      BY EmptySeq
    <3> QED BY <3>1, <3>2, <2>2, <2>4
  <2>6. list = (one \o two) \o three
    BY DEF one, two, three
  <2> QED BY <2>1, <2>2, <2>3, <2>4, <2>5, <2>6 DEF one, two, three
<1> HIDE DEF list
<1>5. todo' = [todo EXCEPT ![s] = list]
  BY DEF LookUp, list
<1>6. /\ pc' = [pc EXCEPT ![s] = IF Charged(s) = {} THEN "sent" ELSE "claim"]
      /\ pc'[s] \in {"sent", "claim"}
      /\ \A u \in Send : pc[u] # "new" => pc'[u] # "new"
  BY DEF LookUp, Steady, TypeOK
<1>7. TypeOK'
  <2>1. todo' \in [Send -> Seq(Bucket)]
    BY <1>4, <1>5 DEF Steady, TypeOK
  <2> QED BY <1>1, <1>2, <1>3, <1>6, <2>1 DEF LookUp, Steady, TypeOK
<1>8. Made'
  <2>1. SUFFICES ASSUME NEW k \in PerChat, NEW b \in Range(tracked'[k])
                 PROVE  b.budget = k /\ pc'[b.by] # "new" /\ Key(b) \in Chat
    BY DEF Made, Key
  <2>2. CASE b \in Range(tracked[k])
    <3>1. b.budget = k /\ pc[b.by] # "new" /\ Key(b) \in Chat /\ b \in Bucket
      BY <2>2 DEF Steady, Made, TypeOK, Range
    <3>2. b.by \in Send
      BY <3>1 DEF Bucket, Overall, PerChat
    <3> QED BY <3>1, <3>2, <1>6
  <2>3. CASE k \in mine /\ b = Fresh(k, s)
    <3>1. ChatOf[s] \in Chat
      BY <2>3, LookUpOne
    <3> QED BY <2>3, <3>1, <1>6 DEF Fresh, Key
  <2> QED BY <2>2, <2>3, <1>2
<1>9. Holds'
  <2>1. SUFFICES ASSUME NEW u \in Send
                 PROVE  /\ \A b \in Range(todo'[u]) :
                             b # Overall => b \in [budget : PerChat, by : Send] /\ pc'[b.by] # "new"
                        /\ pc'[u] \in {"claim", "sleep"} => todo'[u] # <<>>
    BY DEF Holds, Overall
  <2>2. CASE u # s
    <3>1. todo'[u] = todo[u] /\ pc'[u] = pc[u]
      BY <2>2, <1>5, <1>6 DEF Steady, TypeOK
    <3> QED BY <3>1, <1>6 DEF Steady, Holds
  <2>3. CASE u = s
    <3>1. todo'[s] = list
      BY <1>5 DEF Steady, TypeOK
    <3>2. pc'[s] = "claim" => Charged(s) # {}
      BY <1>6 DEF Steady, TypeOK
    <3>3. ASSUME NEW b \in Range(list), b # Overall
          PROVE  b \in [budget : PerChat, by : Send] /\ pc'[b.by] # "new"
      <4>1. PICK k \in Budget : b \in Range(Share(k, s))
        BY <1>4 DEF Budget, PerChat
      <4>2. /\ b \in [budget : PerChat, by : Send]
            /\ b.by = s \/ \E j \in PerChat : b \in Range(tracked[j])
        BY <4>1, <3>3, ShareType
      <4>3. b.by = s \/ pc[b.by] # "new"
        BY <4>2 DEF Steady, Made
      <4> QED BY <4>2, <4>3, <1>6
    <3> QED BY <2>3, <3>1, <3>2, <3>3, <1>4, <1>6
  <2> QED BY <2>2, <2>3
<1> QED BY <1>7, <1>8, <1>9 DEF Steady

LEMMA ClaimSteady ==
  ASSUME Steady, NEW s \in Send, Claim(s)
  PROVE  Steady'
<1> DEFINE b == Head(todo[s])
           due == Later(FirstSlot(b), now)
<1>1. /\ todo[s] \in Seq(Bucket) /\ todo[s] # <<>>
      /\ b \in Bucket /\ b \in Range(todo[s])
  BY TailRange DEF Steady, TypeOK, Holds, Claim
<1>2. /\ FirstSlot(b) \in Int /\ due \in Nat /\ now \in Nat
      /\ FirstSlot(b) + Interval[b.budget] \in Int
  BY <1>1, SlotBounds DEF Steady
<1>3. b # Overall => b.budget \in PerChat
  BY <1>1, BucketKinds
<1> HIDE DEF b, due
<1>4. /\ slot' = [slot EXCEPT ![s] = FirstSlot(b)]
      /\ nextFree' = [nextFree EXCEPT ![b] = FirstSlot(b) + Interval[b.budget]]
      /\ log' = [log EXCEPT ![b] = Append(@, [asked |-> now, due |-> due])]
      /\ dues' = IF b = Overall THEN dues
                 ELSE [dues EXCEPT ![b.budget][Key(b)] = Append(@, due)]
      /\ pc' = [pc EXCEPT ![s] = "sleep"]
      /\ UNCHANGED <<now, late, tracked, todo, forgotten>>
  BY DEF Claim, b, due
<1>5. slot' \in [Send -> Int] /\ nextFree' \in [Bucket -> Int]
  BY <1>2, <1>4 DEF Steady, TypeOK
<1>6. log' \in [Bucket -> Seq([asked : Nat, due : Nat])]
  <2>1. log[b] \in Seq([asked : Nat, due : Nat])
    BY <1>1 DEF Steady, TypeOK
  <2>2. Append(log[b], [asked |-> now, due |-> due]) \in Seq([asked : Nat, due : Nat])
    BY <2>1, <1>2, AppendProperties
  <2> QED BY <2>2, <1>4 DEF Steady, TypeOK
<1>7. dues' \in [PerChat -> [Chat -> Seq(Nat)]]
  <2>1. CASE b = Overall
    BY <2>1, <1>4 DEF Steady, TypeOK
  <2>2. CASE b # Overall
    <3>1. dues \in [PerChat -> [Chat -> Seq(Nat)]] /\ b.budget \in PerChat
      BY <2>2, <1>3 DEF Steady, TypeOK
    <3>2. ASSUME NEW c \in Chat PROVE Append(dues[b.budget][c], due) \in Seq(Nat)
      BY <3>1, <1>2, AppendProperties
    <3> QED BY <2>2, <3>1, <3>2, <1>4
  <2> QED BY <2>1, <2>2
<1>8. /\ pc' \in [Send -> {"new", "claim", "sleep", "sent"}]
      /\ \A u \in Send : pc[u] # "new" => pc'[u] # "new"
  BY <1>4 DEF Steady, TypeOK
<1>9. TypeOK'
  BY <1>4, <1>5, <1>6, <1>7, <1>8 DEF Steady, TypeOK
<1>10. Made' /\ Holds'
  <2>1. Made'
    BY <1>4, <1>8, BucketOwner DEF Steady, Made, Key
  <2>2. Holds'
    BY <1>4, <1>8, <1>1 DEF Steady, TypeOK, Holds, Overall
  <2> QED BY <2>1, <2>2
<1> QED BY <1>9, <1>10 DEF Steady

LEMMA ResumeSteady ==
  ASSUME Steady, NEW s \in Send, Resume(s)
  PROVE  Steady'
<1>1. /\ todo[s] \in Seq(Bucket) /\ todo[s] # <<>>
      /\ Tail(todo[s]) \in Seq(Bucket) /\ Range(Tail(todo[s])) \subseteq Range(todo[s])
      /\ Len(todo[s]) # 1 => Tail(todo[s]) # <<>>
  <2>1. todo[s] \in Seq(Bucket) /\ todo[s] # <<>>
    BY DEF Steady, TypeOK, Holds, Resume
  <2>2. /\ Tail(todo[s]) \in Seq(Bucket) /\ Range(Tail(todo[s])) \subseteq Range(todo[s])
    BY <2>1, TailRange
  <2>3. Len(Tail(todo[s])) = Len(todo[s]) - 1 /\ Len(todo[s]) \in Nat
    BY <2>1, HeadTailProperties
  <2>4. Tail(todo[s]) = <<>> => Len(Tail(todo[s])) = 0
    BY <2>2, EmptySeq
  <2> QED BY <2>1, <2>2, <2>3, <2>4
<1>2. /\ todo' = [todo EXCEPT ![s] = Tail(todo[s])]
      /\ pc' = [pc EXCEPT ![s] = IF Len(todo[s]) = 1 THEN "sent" ELSE "claim"]
      /\ slot' = [slot EXCEPT ![s] = 0]
      /\ UNCHANGED <<now, late, nextFree, tracked, log, dues, forgotten>>
  BY DEF Resume
<1>3. /\ pc' \in [Send -> {"new", "claim", "sleep", "sent"}]
      /\ \A u \in Send : pc[u] # "new" => pc'[u] # "new"
  BY <1>2 DEF Steady, TypeOK
<1>4. TypeOK'
  <2>1. todo' \in [Send -> Seq(Bucket)] /\ slot' \in [Send -> Int]
    BY <1>1, <1>2 DEF Steady, TypeOK
  <2> QED BY <1>2, <1>3, <2>1 DEF Steady, TypeOK
<1>5. Made'
  BY <1>2, <1>3, BucketOwner DEF Steady, Made, Key
<1>6. Holds'
  <2>1. SUFFICES ASSUME NEW u \in Send
                 PROVE  /\ \A e \in Range(todo'[u]) :
                             e # Overall => e \in [budget : PerChat, by : Send] /\ pc'[e.by] # "new"
                        /\ pc'[u] \in {"claim", "sleep"} => todo'[u] # <<>>
    BY DEF Holds, Overall
  <2>2. Range(todo'[u]) \subseteq Range(todo[u])
    BY <1>1, <1>2 DEF Steady, TypeOK
  <2>3. pc'[u] \in {"claim", "sleep"} => todo'[u] # <<>>
    BY <1>1, <1>2 DEF Steady, TypeOK, Holds
  <2> QED BY <2>2, <2>3, <1>3 DEF Steady, Holds
<1> QED BY <1>4, <1>5, <1>6 DEF Steady

LEMMA TickSteady ==
  ASSUME Steady, Tick
  PROVE  Steady'
<1>1. now' \in 0..MaxTime /\ late' \in 0..MaxLate
  BY TimeIsNatural DEF Steady, TypeOK, Tick
<1> QED BY <1>1 DEF Steady, TypeOK, Made, Holds, Tick, Overall, Key

\* The time, the maps, the sends and their histories have their types, whatever
\* the number of sends, the rates and the size of the map.
THEOREM TypeCorrect == Spec => []TypeOK
<1>1. Steady /\ [Next]_vars => Steady'
  <2>1. SUFFICES ASSUME Steady, [Next]_vars PROVE Steady'
    OBVIOUS
  <2>2. CASE UNCHANGED vars
    BY <2>1, <2>2 DEF vars, Steady, TypeOK, Made, Holds, Overall, Key
  <2>3. CASE Next
    BY <2>1, <2>3, LookUpSteady, ClaimSteady, ResumeSteady, TickSteady DEF Next
  <2> QED BY <2>1, <2>2, <2>3
<1>2. Steady => TypeOK
  BY DEF Steady
<1> QED BY InitSteady, <1>1, <1>2, PTL DEF Spec

-----------------------------------------------------------------------------
\* A bucket nobody can have claimed on.
Unused == \A k \in PerChat, s \in Send : pc[s] = "new" => log[Fresh(k, s)] = <<>>

\* What the next claim of bucket b is due after: each earlier one, by their span.
NextIn(b, i) == Span(b.budget, Len(log[b]) - i + 2)

Paced(b) == \A i \in DOMAIN log[b] : nextFree[b] >= log[b][i].due + NextIn(b, i)

\* And no later: at once, or right after the span of some earlier one.
Tight(b) ==
  \/ nextFree[b] <= now - Burst(b.budget)
  \/ \E i \in DOMAIN log[b] : nextFree[b] = log[b][i].due + NextIn(b, i)

\* The two properties of one bucket.
Within(b) == Spaced(DueTimes(b), b.budget)
Prompt(b) ==
  \A j \in DOMAIN log[b] :
    \/ log[b][j].due = log[b][j].asked
    \/ \E i \in 1..j-1 : log[b][j].due - log[b][i].due = Span(b.budget, j - i + 1)

BucketOK(b) == Paced(b) /\ Tight(b) /\ Within(b) /\ Prompt(b)

Budgeted == Steady /\ Unused /\ \A b \in Bucket : BucketOK(b)

\* One more call takes one more interval; a single call may be early by the burst.
LEMMA SpanStep ==
  ASSUME NEW k \in Budget
  PROVE  /\ \A n \in Int : Span(k, n) \in Int /\ Span(k, n + 1) = Span(k, n) + Interval[k]
         /\ Burst(k) = -Span(k, 1)
<1>1. Interval[k] \in Nat /\ Capacity[k] \in Nat
  BY RatesAreNatural
<1>2. PICK i \in Nat : i = Interval[k]
  BY <1>1
<1>3. PICK c \in Nat : c = AtOnce(k)
  BY <1>1 DEF AtOnce
<1>4. \A n \in Int : Span(k, n) = (n - c) * i
  BY <1>2, <1>3 DEF Span
<1>5. \A n \in Int : (n - c) * i \in Int /\ (n + 1 - c) * i = (n - c) * i + i
  BY <1>2, <1>3
<1>6. Burst(k) = (c - 1) * i
  <2>1. CASE Capacity[k] = 0
    <3>1. c = 1 /\ Burst(k) = 0
      BY <2>1, <1>3 DEF AtOnce, Burst
    <3> QED BY <3>1
  <2>2. CASE Capacity[k] # 0
    BY <2>2, <1>2, <1>3 DEF AtOnce, Burst
  <2> QED BY <2>1, <2>2
<1>7. (c - 1) * i = -((1 - c) * i)
  BY <1>2, <1>3
<1>8. ASSUME NEW n \in Int PROVE Span(k, n) \in Int /\ Span(k, n + 1) = Span(k, n) + Interval[k]
  <2>1. Span(k, n) = (n - c) * i /\ Span(k, n + 1) = (n + 1 - c) * i
    BY <1>4
  <2> QED BY <2>1, <1>2, <1>5
<1>9. Span(k, 1) = (1 - c) * i
  BY <1>4
<1> QED BY <1>6, <1>7, <1>8, <1>9

\* A bucket without claims keeps every promise, if its next slot is far enough back.
LEMMA EmptyBucket ==
  ASSUME NEW b, log[b] = <<>>, nextFree[b] <= now - Burst(b.budget)
  PROVE  BucketOK(b)
<1>1. DOMAIN log[b] = {} /\ DOMAIN DueTimes(b) = {}
  BY DEF DueTimes
<1> QED BY <1>1 DEF BucketOK, Paced, Tight, Within, Prompt, Spaced

\* The same of the state a step leads to.
LEMMA EmptyBucketNext ==
  ASSUME NEW b, log'[b] = <<>>, (nextFree[b] <= now - Burst(b.budget))'
  PROVE  BucketOK(b)'
<1>1. DOMAIN log'[b] = {} /\ DOMAIN DueTimes(b)' = {}
  BY DEF DueTimes
<1> QED BY <1>1 DEF BucketOK, Paced, Tight, Within, Prompt, Spaced

\* A bucket nothing happens to keeps them too, as time goes by.
LEMMA IdleBucket ==
  ASSUME TypeOK, TypeOK', NEW b \in Bucket, BucketOK(b),
         log'[b] = log[b], nextFree'[b] = nextFree[b], now' >= now
  PROVE  BucketOK(b)'
<1>1. now \in Int /\ now' \in Int /\ nextFree[b] \in Int /\ Burst(b.budget) \in Int
  BY TimeIsNatural, BucketKinds, BurstIsNatural DEF TypeOK
<1>2. Tight(b)'
  BY <1>1 DEF BucketOK, Tight, NextIn
<1>3. Paced(b)' /\ Within(b)' /\ Prompt(b)'
  BY DEF BucketOK, Paced, NextIn, Within, Prompt, Spaced, DueTimes
<1> QED BY <1>2, <1>3 DEF BucketOK

\* One more call takes one more interval.
Climbs(S, I) == \A m \in Int : S[m + 1] = S[m] + I

\* Where n claims due at E leave the next free slot, by the span S[m] of m calls.
NotBefore(n, E, S, free) == \A i \in 1..n : free >= E[i] + S[n - i + 2]
RightAfter(n, E, S, free) == \E i \in 1..n : free = E[i] + S[n - i + 2]
Apart(n, E, S) == \A i, j \in 1..n : i < j => E[j] - E[i] >= S[j - i + 1]

LEMMA OneMoreSpan ==
  ASSUME NEW S \in [Int -> Int], NEW I \in Int, Climbs(S, I), NEW n \in Nat, NEW i \in 1..n
  PROVE  /\ S[n - i + 2] \in Int
         /\ S[(n + 1) - i + 2] = S[n - i + 2] + I
         /\ S[(n + 1) - i + 1] = S[n - i + 2]
<1>1. PICK m \in Int : m = n - i + 2
  OBVIOUS
<1>2. m + 1 = (n + 1) - i + 2 /\ m = (n + 1) - i + 1
  BY <1>1
<1>3. S[m + 1] = S[m] + I
  BY DEF Climbs
<1> QED BY <1>1, <1>2, <1>3

\* A claim at time t, on a bucket of burst B whose next slot is free.
Claimed(free, first, due, t, B) ==
  /\ first = Later(free, t - B)
  /\ due = Later(first, t)

\* What is known of a bucket with n claims as one more is made.
Before(n, E, S, I, t, free, first, due, B) ==
  /\ E[n + 1] = due /\ Climbs(S, I) /\ B = -S[1] /\ Claimed(free, first, due, t, B)
  /\ NotBefore(n, E, S, free)
  /\ free <= t - B \/ RightAfter(n, E, S, free)
  /\ Apart(n, E, S)

\* And what of a bucket on which it has been made.
After(n, E, S, I, t, free, first, due, B) ==
  /\ NotBefore(n + 1, E, S, first + I)
  /\ first + I <= t - B \/ RightAfter(n + 1, E, S, first + I)
  /\ Apart(n + 1, E, S)
  /\ due = t \/ \E i \in 1..n : due - E[i] = S[(n + 1) - i + 1]

\* Whatever slot the claim gets, not before the free one: the next is far enough
\* from all the claims, and they are apart.
LEMMA OneMoreDue ==
  ASSUME NEW n \in Nat, NEW E \in [Nat -> Int],
         NEW S \in [Int -> Int], NEW I \in Int,
         NEW free \in Int, NEW first \in Int, NEW due \in Int, NEW B \in Nat,
         E[n + 1] = due, Climbs(S, I), B = -S[1],
         first >= free, due >= free, first >= due - B,
         NotBefore(n, E, S, free), Apart(n, E, S)
  PROVE  NotBefore(n + 1, E, S, first + I) /\ Apart(n + 1, E, S)
<1>1. S[2] = I - B
  <2>1. S[1 + 1] = S[1] + I /\ 1 + 1 = 2 /\ S[1] \in Int
    BY DEF Climbs
  <2> QED BY <2>1
<1>2. ASSUME NEW i \in 1..n
      PROVE  /\ S[n - i + 2] \in Int
             /\ S[(n + 1) - i + 2] = S[n - i + 2] + I
             /\ S[(n + 1) - i + 1] = S[n - i + 2]
             /\ i \in 1..(n + 1) /\ E[i] \in Int
             /\ free >= E[i] + S[n - i + 2]
  <2>1. i \in 1..(n + 1) /\ E[i] \in Int
    OBVIOUS
  <2>2. free >= E[i] + S[n - i + 2]
    BY DEF NotBefore
  <2> QED BY <2>1, <2>2, OneMoreSpan, ZenonT(60)
<1>3. ASSUME NEW i \in 1..(n + 1) PROVE i \in 1..n \/ i = n + 1
  OBVIOUS
<1>4. n + 1 \in 1..(n + 1) /\ (n + 1) - (n + 1) + 2 = 2
  OBVIOUS
<1>5. NotBefore(n + 1, E, S, first + I)
  <2>1. SUFFICES ASSUME NEW i \in 1..(n + 1) PROVE first + I >= E[i] + S[(n + 1) - i + 2]
    BY DEF NotBefore
  <2>2. CASE i \in 1..n
    BY <2>2, <1>2
  <2>3. CASE i = n + 1
    <3>1. first + I >= due + S[2]
      BY <1>1
    <3> QED BY <2>3, <3>1, <1>4
  <2> QED BY <2>2, <2>3, <1>3
<1>6. Apart(n + 1, E, S)
  <2>1. SUFFICES ASSUME NEW i \in 1..(n + 1), NEW j \in 1..(n + 1), i < j
                 PROVE  E[j] - E[i] >= S[j - i + 1]
    BY DEF Apart
  <2>2. i \in 1..n
    BY <2>1
  <2>3. CASE j \in 1..n
    BY <2>1, <2>2, <2>3 DEF Apart
  <2>4. CASE j = n + 1
    <3>1. due - E[i] >= S[n - i + 2]
      BY <2>2, <1>2
    <3>2. S[j - i + 1] = S[n - i + 2]
      BY <2>2, <2>4, <1>2
    <3> QED BY <2>4, <3>1, <3>2
  <2> QED BY <2>3, <2>4, <1>3
<1> QED BY <1>5, <1>6

\* The arithmetic of a claim: its slot is first, and it is due at E[n + 1].
LEMMA OneMoreClaim ==
  ASSUME NEW n \in Nat, NEW E \in [Nat -> Int],
         NEW S \in [Int -> Int], NEW I \in Int, NEW t \in Int,
         NEW free \in Int, NEW first \in Int, NEW due \in Int, NEW B \in Nat,
         Before(n, E, S, I, t, free, first, due, B)
  PROVE  After(n, E, S, I, t, free, first, due, B)
<1>0. /\ first >= free /\ due >= free /\ first >= due - B
      /\ free <= t - B => first = due - B
      /\ ~ (free <= t - B) => first = free
      /\ due # t => due = free /\ ~ (free <= t - B)
  BY DEF Before, Claimed, Later
<1>1. /\ E[n + 1] = due /\ Climbs(S, I) /\ B = -S[1]
      /\ NotBefore(n, E, S, free) /\ Apart(n, E, S)
      /\ free <= t - B \/ RightAfter(n, E, S, free)
  BY DEF Before
<1>2. NotBefore(n + 1, E, S, first + I) /\ Apart(n + 1, E, S)
  BY <1>0, <1>1, OneMoreDue
<1>3. \A i \in 1..n : /\ S[n - i + 2] \in Int
                     /\ S[(n + 1) - i + 2] = S[n - i + 2] + I
                     /\ S[(n + 1) - i + 1] = S[n - i + 2]
                     /\ i \in 1..(n + 1) /\ E[i] \in Int
  <2>1. TAKE i \in 1..n
  <2>2. i \in 1..(n + 1) /\ E[i] \in Int
    OBVIOUS
  <2> QED BY <1>1, <2>2, OneMoreSpan, ZenonT(60)
<1>4. n + 1 \in 1..(n + 1) /\ (n + 1) - (n + 1) + 2 = 2
  OBVIOUS
<1>5. first + I <= t - B \/ RightAfter(n + 1, E, S, first + I)
  <2>1. CASE free <= t - B
    <3>1. S[1 + 1] = S[1] + I /\ 1 + 1 = 2 /\ S[1] \in Int
      BY <1>1 DEF Climbs
    <3>2. first + I = due + S[2]
      BY <2>1, <3>1, <1>0, <1>1
    <3> QED BY <3>2, <1>1, <1>4 DEF RightAfter
  <2>2. CASE ~ (free <= t - B)
    <3>1. PICK i \in 1..n : free = E[i] + S[n - i + 2]
      BY <2>2, <1>1 DEF RightAfter
    <3>2. first + I = E[i] + S[(n + 1) - i + 2]
      BY <3>1, <2>2, <1>0, <1>3
    <3> QED BY <3>2, <1>3 DEF RightAfter
  <2> QED BY <2>1, <2>2
<1>6. due = t \/ \E i \in 1..n : due - E[i] = S[(n + 1) - i + 1]
  <2>1. SUFFICES ASSUME due # t PROVE \E i \in 1..n : due - E[i] = S[(n + 1) - i + 1]
    OBVIOUS
  <2>2. due = free /\ ~ (free <= t - B)
    BY <2>1, <1>0
  <2>3. PICK i \in 1..n : free = E[i] + S[n - i + 2]
    BY <2>2, <1>1 DEF RightAfter
  <2>4. due - E[i] = S[(n + 1) - i + 1]
    BY <2>2, <2>3, <1>3
  <2> QED BY <2>4
<1> QED BY <1>2, <1>5, <1>6 DEF After

LEMMA ClaimedBucket ==
  ASSUME TypeOK, NEW b \in Bucket, BucketOK(b),
         nextFree'[b] = FirstSlot(b) + Interval[b.budget],
         log'[b] = Append(log[b], [asked |-> now, due |-> Later(FirstSlot(b), now)]),
         now' = now
  PROVE  BucketOK(b)'
<1> DEFINE n == Len(log[b])
           k == b.budget
           first == FirstSlot(b)
           due == Later(first, now)
           E == [i \in Nat |-> IF i \in 1..(n + 1) THEN log'[b][i].due ELSE 0]
           S == [m \in Int |-> Span(k, m)]
           I == Interval[k]
<1>1. /\ k \in Budget /\ n \in Nat
      /\ nextFree[b] \in Int /\ first \in Int /\ now \in Nat /\ due \in Nat
      /\ now \in Int /\ due \in Int /\ I \in Int /\ Burst(k) \in Nat
  <2>1. b.budget \in Budget /\ Burst(b.budget) \in Nat
    BY BucketKinds, BurstIsNatural
  <2>2. Len(log[b]) \in Nat
    BY LenProperties DEF TypeOK
  <2>3. /\ nextFree[b] \in Int /\ now \in Nat /\ FirstSlot(b) \in Int
        /\ Later(FirstSlot(b), now) \in Nat /\ Interval[b.budget] \in Nat
    BY SlotBounds
  <2> QED BY <2>1, <2>2, <2>3
<1>2. Claimed(nextFree[b], first, due, now, Burst(k))
  BY DEF Claimed, FirstSlot
<1> HIDE DEF first, due
<1>4. S \in [Int -> Int] /\ Climbs(S, I) /\ Burst(k) = -S[1]
  <2> HIDE DEF k
  <2>1. \A m \in Int : Span(k, m) \in Int /\ Span(k, m + 1) = Span(k, m) + Interval[k]
    BY <1>1, SpanStep
  <2>2. Burst(k) = -Span(k, 1) /\ 1 \in Int
    BY <1>1, SpanStep
  <2>3. S \in [Int -> Int] /\ Burst(k) = -S[1]
    BY <2>1, <2>2
  <2>4. ASSUME NEW m \in Int PROVE S[m + 1] = S[m] + I
    <3>1. m + 1 \in Int /\ S[m] = Span(k, m)
      OBVIOUS
    <3>2. S[m + 1] = Span(k, m + 1)
      BY <3>1
    <3> QED BY <3>1, <3>2, <2>1
  <2> QED BY <2>3, <2>4 DEF Climbs
<1>5. /\ log[b] \in Seq([asked : Nat, due : Nat])
      /\ DOMAIN log[b] = 1..n
      /\ \A i \in 1..n : log[b][i] \in [asked : Nat, due : Nat]
  <2>1. log[b] \in Seq([asked : Nat, due : Nat])
    BY DEF TypeOK
  <2> QED BY <2>1, ElementOfSeq, LenProperties
<1>6. log'[b] = Append(log[b], [asked |-> now, due |-> due])
  BY DEF due, first
<1>7. /\ DOMAIN log'[b] = 1..(n + 1) /\ Len(log'[b]) = n + 1
      /\ \A i \in 1..n : log'[b][i] = log[b][i]
      /\ log'[b][n + 1].due = due /\ log'[b][n + 1].asked = now
  <2>1. [asked |-> now, due |-> due] \in [asked : Nat, due : Nat]
    BY <1>1
  <2>2. /\ Len(log'[b]) = n + 1 /\ log'[b] \in Seq([asked : Nat, due : Nat])
        /\ \A i \in 1..n : log'[b][i] = log[b][i]
        /\ log'[b][n + 1] = [asked |-> now, due |-> due]
    BY <2>1, <1>5, <1>6, AppendProperties
  <2> QED BY <2>2
<1> HIDE DEF n
<1>8. /\ \A i \in 1..n : i \in 1..(n + 1)
      /\ n + 1 \in 1..(n + 1)
      /\ \A i \in 1..(n + 1) : i \in 1..n \/ i = n + 1
  BY <1>1
<1>9. /\ \A i \in 1..n : E[i] = log[b][i].due
      /\ \A i \in 1..(n + 1) : E[i] = log'[b][i].due
      /\ E[n + 1] = due
      /\ E \in [Nat -> Int]
  <2>1. \A i \in 1..(n + 1) : log'[b][i].due \in Int
    <3>1. TAKE i \in 1..(n + 1)
    <3>2. CASE i \in 1..n
      BY <3>2, <1>5, <1>7
    <3>3. CASE i = n + 1
      BY <3>3, <1>1, <1>7
    <3> QED BY <3>2, <3>3, <1>8
  <2> QED BY <2>1, <1>7, <1>8
<1>10. \A m \in Int : S[m] = Span(k, m)
  OBVIOUS
<1> HIDE DEF E, S, I, k
<1>11. NotBefore(n, E, S, nextFree[b])
  <2>1. \A i \in 1..n : n - i + 2 \in Int
    BY <1>1
  <2> QED BY <2>1, <1>5, <1>9, <1>10 DEF BucketOK, Paced, NextIn, NotBefore, k, n
<1>12. nextFree[b] <= now - Burst(k) \/ RightAfter(n, E, S, nextFree[b])
  <2>1. \A i \in 1..n : n - i + 2 \in Int
    BY <1>1
  <2>2. CASE nextFree[b] <= now - Burst(k)
    BY <2>2
  <2>3. CASE \E i \in DOMAIN log[b] : nextFree[b] = log[b][i].due + NextIn(b, i)
    <3>1. PICK i \in 1..n : nextFree[b] = log[b][i].due + NextIn(b, i)
      BY <2>3, <1>5
    <3>2. NextIn(b, i) = S[n - i + 2]
      BY <2>1, <1>10 DEF NextIn, k, n
    <3>3. nextFree[b] = E[i] + S[n - i + 2]
      BY <3>1, <3>2, <1>9
    <3> QED BY <3>3 DEF RightAfter
  <2> QED BY <2>2, <2>3 DEF BucketOK, Tight, k
<1>13. Apart(n, E, S)
  <2>1. \A i, j \in 1..n : j - i + 1 \in Int
    OBVIOUS
  <2> QED BY <2>1, <1>5, <1>9, <1>10 DEF BucketOK, Within, Spaced, DueTimes, Apart, k
<1>14. /\ NotBefore(n + 1, E, S, first + I)
       /\ first + I <= now - Burst(k) \/ RightAfter(n + 1, E, S, first + I)
       /\ Apart(n + 1, E, S)
       /\ due = now \/ \E i \in 1..n : due - E[i] = S[(n + 1) - i + 1]
  <2> DEFINE free == nextFree[b]
             B == Burst(k)
  <2>1. /\ n \in Nat /\ E \in [Nat -> Int] /\ S \in [Int -> Int] /\ I \in Int
        /\ now \in Int /\ free \in Int /\ first \in Int /\ due \in Int /\ B \in Nat
    BY <1>1, <1>4, <1>9, Zenon
  <2>2. E[n + 1] = due /\ Climbs(S, I) /\ B = -S[1] /\ Claimed(free, first, due, now, B)
    BY <1>2, <1>4, <1>9
  <2>3. /\ NotBefore(n, E, S, free)
        /\ free <= now - B \/ RightAfter(n, E, S, free)
        /\ Apart(n, E, S)
    BY <1>11, <1>12, <1>13
  <2> HIDE DEF free, B
  <2>4. /\ NotBefore(n + 1, E, S, first + I)
        /\ first + I <= now - B \/ RightAfter(n + 1, E, S, first + I)
        /\ Apart(n + 1, E, S)
        /\ due = now \/ \E i \in 1..n : due - E[i] = S[(n + 1) - i + 1]
    <3>1. Before(n, E, S, I, now, free, first, due, B)
      BY <2>1, <2>2, <2>3, Zenon DEF Before
    <3>2. After(n, E, S, I, now, free, first, due, B)
      BY <2>1, <3>1, OneMoreClaim
    <3> QED BY <3>2, Zenon DEF After
  <2> QED BY <2>4 DEF B
<1>15. nextFree'[b] = first + I
  BY DEF first, I, k
<1>16. Paced(b)' /\ Tight(b)'
  <2>1. \A i \in 1..(n + 1) : S[(n + 1) - i + 2] = Span(k, (n + 1) - i + 2)
    BY <1>1, <1>10
  <2>2. Paced(b)'
    <3>1. SUFFICES ASSUME NEW i \in 1..(n + 1) PROVE (nextFree[b] >= log[b][i].due + NextIn(b, i))'
      BY <1>7 DEF Paced
    <3>2. first + I >= E[i] + S[(n + 1) - i + 2]
      BY <1>14 DEF NotBefore
    <3>3. NextIn(b, i)' = S[(n + 1) - i + 2]
      BY <2>1, <1>7 DEF NextIn, Span, AtOnce, k
    <3> QED BY <3>2, <3>3, <1>9, <1>15
  <2>3. ASSUME first + I <= now - Burst(k) PROVE Tight(b)'
    <3>1. nextFree'[b] <= now' - Burst(b.budget)
      BY <2>3, <1>15 DEF k
    <3>2. (nextFree[b] <= now - Burst(b.budget))'
      BY <3>1 DEF Burst
    <3> QED BY <3>2 DEF Tight
  <2>4. ASSUME RightAfter(n + 1, E, S, first + I) PROVE Tight(b)'
    <3>1. PICK i \in 1..(n + 1) : first + I = E[i] + S[(n + 1) - i + 2]
      BY <2>4 DEF RightAfter
    <3>2. i \in DOMAIN log'[b] /\ E[i] = log'[b][i].due
      BY <1>7, <1>9
    <3>3. S[(n + 1) - i + 2] = Span(b.budget, Len(log'[b]) - i + 2)
      BY <2>1, <1>7 DEF k
    <3>4. nextFree'[b] = log'[b][i].due + Span(b.budget, Len(log'[b]) - i + 2)
      BY <3>1, <3>2, <3>3, <1>15
    <3>5. NextIn(b, i)' = Span(b.budget, Len(log'[b]) - i + 2)
      BY DEF NextIn, Span, AtOnce
    <3>6. (nextFree[b] = log[b][i].due + NextIn(b, i))'
      BY <3>4, <3>5
    <3> QED BY <3>2, <3>6 DEF Tight
  <2> QED BY <2>2, <2>3, <2>4, <1>14
<1>17. Within(b)'
  <2>1. \A i, j \in 1..(n + 1) : j - i + 1 \in Int
    OBVIOUS
  <2>2. \A i, j \in 1..(n + 1) : i < j => log'[b][j].due - log'[b][i].due >= Span(k, j - i + 1)
    BY <2>1, <1>9, <1>10, <1>14 DEF Apart
  <2> QED BY <2>2, <1>7 DEF Within, Spaced, DueTimes, k
<1>18. Prompt(b)'
  <2>1. SUFFICES ASSUME NEW j \in 1..(n + 1)
                 PROVE  \/ log'[b][j].due = log'[b][j].asked
                        \/ \E i \in 1..j-1 : log'[b][j].due - log'[b][i].due = Span(k, j - i + 1)
    BY <1>7 DEF Prompt, k
  <2>2. CASE j \in 1..n
    <3>1. \A i \in 1..j-1 : log'[b][i] = log[b][i]
      BY <2>2, <1>1, <1>7
    <3>2. log'[b][j] = log[b][j]
      BY <2>2, <1>7
    <3> QED BY <2>2, <3>1, <3>2, <1>5 DEF BucketOK, Prompt, k
  <2>3. CASE j = n + 1 /\ due = now
    BY <2>3, <1>7
  <2>4. CASE j = n + 1 /\ due # now
    <3>1. PICK i \in 1..n : due - E[i] = S[(n + 1) - i + 1]
      BY <2>4, <1>14
    <3>2. (n + 1) - i + 1 \in Int /\ i \in 1..j-1
      BY <2>4, <1>1
    <3>3. log'[b][j].due - log'[b][i].due = Span(k, j - i + 1)
      BY <2>4, <3>1, <3>2, <1>7, <1>8, <1>9, <1>10
    <3> QED BY <3>2, <3>3
  <2> QED BY <2>2, <2>3, <2>4, <1>8
<1> QED BY <1>16, <1>17, <1>18 DEF BucketOK

LEMMA InitBudgeted == Init => Budgeted
<1>1. SUFFICES ASSUME Init PROVE Budgeted
  OBVIOUS
<1>2. Steady
  BY <1>1, InitSteady
<1>3. ASSUME NEW b \in Bucket PROVE log[b] = <<>> /\ nextFree[b] <= now - Burst(b.budget)
  <2>1. Burst(b.budget) \in Nat
    BY BucketKinds, BurstIsNatural
  <2> QED BY <1>1, <2>1 DEF Init
<1>4. Unused
  BY <1>1, BucketKinds DEF Init, Unused
<1> QED BY <1>2, <1>3, <1>4, EmptyBucket DEF Budgeted

\* A step that claims nothing leaves every bucket it does not make as it was.
LEMMA LookUpBudgeted ==
  ASSUME Budgeted, NEW s \in Send, LookUp(s)
  PROVE  Budgeted'
<1> DEFINE fresh == {Fresh(k, s) : k \in {j \in Charged(s) \cap PerChat : Known(j, s) = {}}}
<1>1. Steady /\ Steady' /\ TypeOK /\ TypeOK'
  BY LookUpSteady DEF Budgeted, Steady
<1>2. /\ log' = log /\ now' = now /\ now \in Nat
      /\ nextFree' = [b \in Bucket |->
                        IF b \in fresh THEN now - Burst(b.budget) ELSE nextFree[b]]
  BY <1>1, TimeIsNatural DEF LookUp, TypeOK
<1> HIDE DEF fresh
<1>3. Unused'
  <2>1. \A u \in Send : pc'[u] = "new" => pc[u] = "new"
    BY <1>1 DEF LookUp, TypeOK
  <2> QED BY <1>2, <2>1 DEF Budgeted, Unused, Fresh
<1>4. ASSUME NEW b \in Bucket PROVE BucketOK(b)'
  <2>1. CASE b \in fresh
    <3>1. log[b] = <<>>
      BY <2>1 DEF fresh, Budgeted, Unused, LookUp
    <3>2. log'[b] = <<>> /\ nextFree'[b] <= now' - Burst(b.budget)
      <4>1. Burst(b.budget) \in Nat
        BY BucketKinds, BurstIsNatural
      <4> QED BY <2>1, <3>1, <4>1, <1>2
    <3>3. (nextFree[b] <= now - Burst(b.budget))'
      BY <3>2 DEF Burst
    <3> QED BY <3>2, <3>3, EmptyBucketNext
  <2>2. CASE b \notin fresh
    <3>1. log'[b] = log[b] /\ nextFree'[b] = nextFree[b] /\ now' >= now
      BY <2>2, <1>2
    <3> QED BY <3>1, <1>1, IdleBucket DEF Budgeted
  <2> QED BY <2>1, <2>2
<1> QED BY <1>1, <1>3, <1>4 DEF Budgeted

LEMMA ClaimBudgeted ==
  ASSUME Budgeted, NEW s \in Send, Claim(s)
  PROVE  Budgeted'
<1> DEFINE c == Head(todo[s])
<1>1. Steady /\ Steady' /\ TypeOK /\ TypeOK'
  BY ClaimSteady DEF Budgeted, Steady
<1>2. /\ c \in Bucket /\ c \in Range(todo[s]) /\ now' = now /\ now \in Nat
  <2>1. todo[s] \in Seq(Bucket) /\ todo[s] # <<>>
    BY <1>1 DEF Steady, TypeOK, Holds, Claim
  <2> QED BY <2>1, <1>1, TailRange, TimeIsNatural DEF Claim, TypeOK
<1>3. /\ nextFree' = [nextFree EXCEPT ![c] = FirstSlot(c) + Interval[c.budget]]
      /\ log' = [log EXCEPT ![c] = Append(log[c], [asked |-> now, due |-> Later(FirstSlot(c), now)])]
      /\ pc' = [pc EXCEPT ![s] = "sleep"]
  BY DEF Claim
<1> HIDE DEF c
<1>4. ASSUME NEW b \in Bucket PROVE BucketOK(b)'
  <2>1. CASE b = c
    <3>1. /\ nextFree'[b] = FirstSlot(b) + Interval[b.budget]
          /\ log'[b] = Append(log[b], [asked |-> now, due |-> Later(FirstSlot(b), now)])
      BY <2>1, <1>1, <1>2, <1>3 DEF TypeOK
    <3> QED BY <3>1, <1>1, <1>2, ClaimedBucket DEF Budgeted
  <2>2. CASE b # c
    <3>1. log'[b] = log[b] /\ nextFree'[b] = nextFree[b] /\ now' >= now
      BY <2>2, <1>1, <1>2, <1>3 DEF TypeOK
    <3> QED BY <3>1, <1>1, IdleBucket DEF Budgeted
  <2> QED BY <2>1, <2>2
<1>5. Unused'
  <2>1. SUFFICES ASSUME NEW k \in PerChat, NEW u \in Send, pc'[u] = "new"
                 PROVE  log'[Fresh(k, u)] = <<>>
    BY DEF Unused, Fresh
  <2>2. pc[u] = "new"
    BY <2>1, <1>1, <1>3 DEF TypeOK
  <2>3. Fresh(k, u) # c
    <3>1. Fresh(k, u) # Overall /\ Fresh(k, u).by = u
      BY BucketKinds DEF Fresh
    <3>2. c # Overall => pc[c.by] # "new"
      BY <1>1, <1>2 DEF Steady, Holds
    <3> QED BY <2>2, <3>1, <3>2
  <2>4. Fresh(k, u) \in Bucket
    BY BucketKinds
  <2> QED BY <2>2, <2>3, <2>4, <1>1, <1>3 DEF Budgeted, Unused, TypeOK
<1> QED BY <1>1, <1>4, <1>5 DEF Budgeted

LEMMA OtherBudgeted ==
  ASSUME Budgeted, Tick \/ (\E s \in Send : Resume(s)) \/ UNCHANGED vars
  PROVE  Budgeted'
<1>1. /\ log' = log /\ nextFree' = nextFree /\ now' >= now
      /\ \A u \in Send : pc'[u] = "new" => pc[u] = "new"
  <2>1. now \in Nat /\ pc \in [Send -> {"new", "claim", "sleep", "sent"}]
    BY TimeIsNatural DEF Budgeted, Steady, TypeOK
  <2>2. CASE Tick
    BY <2>1, <2>2 DEF Tick
  <2>3. ASSUME NEW s \in Send, Resume(s)
        PROVE  /\ log' = log /\ nextFree' = nextFree /\ now' >= now
               /\ \A u \in Send : pc'[u] = "new" => pc[u] = "new"
    BY <2>1, <2>3 DEF Resume
  <2>4. CASE UNCHANGED vars
    BY <2>1, <2>4 DEF vars
  <2> QED BY <2>2, <2>3, <2>4
<1>2. Steady'
  <2>1. CASE UNCHANGED vars
    BY <2>1 DEF Budgeted, vars, Steady, TypeOK, Made, Holds, Overall, Key
  <2> QED BY <2>1, ResumeSteady, TickSteady DEF Budgeted
<1>3. Unused'
  BY <1>1 DEF Budgeted, Unused, Fresh
<1>4. ASSUME NEW b \in Bucket PROVE BucketOK(b)'
  BY <1>1, <1>2, IdleBucket DEF Budgeted, Steady
<1> QED BY <1>2, <1>3, <1>4 DEF Budgeted

LEMMA StepBudgeted == Budgeted /\ [Next]_vars => Budgeted'
  BY LookUpBudgeted, ClaimBudgeted, OtherBudgeted DEF Next

\* No bucket ever admits more than its capacity at once and one call per
\* interval after it, whatever the rates, the sends and their interleaving.
THEOREM BudgetsHold == Spec => []WithinEveryBudget
<1>1. Budgeted => WithinEveryBudget
  BY DEF Budgeted, BucketOK, Within, WithinEveryBudget
<1> QED BY InitBudgeted, StepBudgeted, <1>1, PTL DEF Spec

\* Nor does it admit less: nobody waits longer than the claims before demand.
THEOREM NobodyWaitsInVain == Spec => []NoNeedlessWait
<1>1. Budgeted => NoNeedlessWait
  BY DEF Budgeted, BucketOK, Prompt, NoNeedlessWait
<1> QED BY InitBudgeted, StepBudgeted, <1>1, PTL DEF Spec

-----------------------------------------------------------------------------
(***************************************************************************)
(* A chat keeps its rate through all the buckets it ever had.  Its bucket  *)
(* in the map, and there is at most one, gives no slot before all that any *)
(* of them gave demand; without one, they demand nothing a new bucket      *)
(* would not give.  A bucket that some send is to claim on is in the map.  *)
(***************************************************************************)
Of(k, c) == {b \in Range(tracked[k]) : Key(b) = c}

OneEach == \A k \in PerChat : \A b, e \in Range(tracked[k]) : Key(b) = Key(e) => b = e

StillThere ==
  \A s \in Send : \A b \in Unclaimed(s) \ {Overall} :
    /\ b.budget \in PerChat /\ Key(b) \in Chat
    /\ <<b.budget, Key(b)>> \notin forgotten => b \in Range(tracked[b.budget])

\* What the next claim is due after: each earlier one of the chat, by their span.
NextDue(k, c, i) == dues[k][c][i] + Span(k, Len(dues[k][c]) - i + 2)

Remembered(k, c) ==
  /\ Spaced(dues[k][c], k)
  /\ \A i \in DOMAIN dues[k][c] : \A b \in Of(k, c) : nextFree[b] >= NextDue(k, c, i)
  /\ Of(k, c) = {} => \A i \in DOMAIN dues[k][c] : now - Burst(k) >= NextDue(k, c, i)

AllRemembered == \A k \in PerChat, c \in Chat : <<k, c>> \notin forgotten => Remembered(k, c)

Retained == Steady /\ OneEach /\ StillThere /\ AllRemembered

\* The dues of a chat, and what they demand, are whole numbers of ticks.
LEMMA DueTypes ==
  ASSUME TypeOK, NEW k \in PerChat, NEW c \in Chat
  PROVE  /\ dues[k][c] \in Seq(Nat) /\ DOMAIN dues[k][c] = 1..Len(dues[k][c])
         /\ Len(dues[k][c]) \in Nat
         /\ \A i \in DOMAIN dues[k][c] : NextDue(k, c, i) \in Int
         /\ now \in Int /\ Burst(k) \in Int
         /\ \A b \in Range(tracked[k]) : b \in Bucket /\ nextFree[b] \in Int
<1>1. dues[k][c] \in Seq(Nat)
  BY DEF TypeOK
<1>2. DOMAIN dues[k][c] = 1..Len(dues[k][c]) /\ Len(dues[k][c]) \in Nat
  BY <1>1, LenProperties
<1>3. k \in Budget
  BY DEF Budget
<1>4. ASSUME NEW i \in DOMAIN dues[k][c] PROVE NextDue(k, c, i) \in Int
  <2>1. dues[k][c][i] \in Nat
    BY <1>1, <1>2, <1>4, ElementOfSeq
  <2>2. Len(dues[k][c]) - i + 2 \in Int
    BY <1>2, <1>4
  <2>3. Span(k, Len(dues[k][c]) - i + 2) \in Int
    BY <1>3, <2>2, SpanStep
  <2> QED BY <2>1, <2>3 DEF NextDue
<1>5. now \in Int /\ Burst(k) \in Int
  BY <1>3, BurstIsNatural, TimeIsNatural DEF TypeOK
<1>6. \A b \in Range(tracked[k]) : b \in Bucket /\ nextFree[b] \in Int
  BY DEF TypeOK, Range
<1> QED BY <1>1, <1>2, <1>4, <1>5, <1>6

\* What a lookup leaves in the map: all but what it evicts, and the chat's bucket.
LEMMA LookUpKeeps ==
  ASSUME Steady, NEW s \in Send, NEW k \in PerChat, k \in Charged(s)
  PROVE  /\ BucketFor(k, s) \in Range(Touched(k, s)) /\ Key(BucketFor(k, s)) = ChatOf[s]
         /\ BucketFor(k, s).budget = k
         /\ \A b \in Range(tracked[k]) : b \in Range(Touched(k, s)) \/ b \in Evicted(k, s)
         /\ Known(k, s) # {} => Range(Touched(k, s)) \subseteq Range(tracked[k]) /\ Evicted(k, s) = {}
         /\ Known(k, s) = {} => BucketFor(k, s) = Fresh(k, s)
<1> DEFINE t == tracked[k]
           b == BucketFor(k, s)
<1>1. k # "overall"
  BY DEF PerChat
<1>2. t \in Seq(Bucket) /\ Len(t) \in Nat /\ MaxTracked \in Nat
  BY MapIsLargerThanItsCandidates, LenProperties DEF Steady, TypeOK
<1>3. Known(k, s) # {} => b \in Known(k, s)
  BY <1>1 DEF BucketFor
<1>4. Known(k, s) = {} => b = Fresh(k, s)
  BY <1>1 DEF BucketFor
<1>5. Key(b) = ChatOf[s] /\ b.budget = k
  BY <1>3, <1>4 DEF Known, Fresh, Key, Steady, Made
<1>6. b \in Bucket
  BY LookUpOne DEF Bucket
<1>7. CASE Known(k, s) # {}
  <2>1. Touched(k, s) = Append(RemoveFirst(t, b), b)
    BY <1>7 DEF Touched
  <2>2. /\ RemoveFirst(t, b) \in Seq(Bucket) /\ Range(RemoveFirst(t, b)) \subseteq Range(t)
        /\ \A x \in Range(t) : x # b => x \in Range(RemoveFirst(t, b))
    BY <1>2, RemoveFirstRange
  <2>3. Range(Append(RemoveFirst(t, b), b)) = Range(RemoveFirst(t, b)) \cup {b}
    BY <1>6, <2>2, AppendRange
  <2>4. b \in Range(t)
    BY <1>3, <1>7 DEF Known
  <2>5. Evicted(k, s) = {}
    BY <1>7 DEF Evicted
  <2> QED BY <1>5, <1>7, <2>1, <2>2, <2>3, <2>4, <2>5
<1>8. CASE Known(k, s) = {} /\ Evicted(k, s) = {}
  <2>1. Touched(k, s) = Append(t, b)
    BY <1>4, <1>8 DEF Touched
  <2>2. Range(Append(t, b)) = Range(t) \cup {b}
    BY <1>2, <1>6, AppendRange
  <2> QED BY <1>4, <1>5, <1>8, <2>1, <2>2
<1>9. CASE Known(k, s) = {} /\ Evicted(k, s) # {}
  <2>1. Touched(k, s) = Append(RemoveAt(t, Victim(k)), b) /\ Evicted(k, s) = {t[Victim(k)]}
    BY <1>4, <1>9 DEF Touched, Evicted
  <2>2. Victim(k) \in 1..Len(t)
    <3>1. Len(t) = MaxTracked
      BY <1>9 DEF Evicted
    <3> QED BY <3>1, VictimIsThere DEF Steady
  <2>3. /\ RemoveAt(t, Victim(k)) \in Seq(Bucket)
        /\ \A x \in Range(t) : x = t[Victim(k)] \/ x \in Range(RemoveAt(t, Victim(k)))
    BY <1>2, <2>2, RemoveAtRange
  <2>4. Range(Append(RemoveAt(t, Victim(k)), b)) = Range(RemoveAt(t, Victim(k))) \cup {b}
    BY <1>6, <2>3, AppendRange
  <2> QED BY <1>4, <1>5, <1>9, <2>1, <2>3, <2>4
<1> QED BY <1>7, <1>8, <1>9

\* Nothing happens to a chat but that time goes by.
LEMMA RememberedStays ==
  ASSUME TypeOK, TypeOK', NEW k \in PerChat, NEW c \in Chat, Remembered(k, c),
         dues'[k][c] = dues[k][c], Of(k, c)' = Of(k, c), now' >= now,
         \A b \in Of(k, c) : nextFree'[b] = nextFree[b]
  PROVE  Remembered(k, c)'
<1>1. \A i \in DOMAIN dues[k][c] : NextDue(k, c, i)' = NextDue(k, c, i) /\ NextDue(k, c, i) \in Int
  BY DueTypes DEF NextDue
<1>2. now \in Int /\ now' \in Int /\ Burst(k) \in Int
  <2>1. now' \in Int
    BY TimeIsNatural DEF TypeOK
  <2> QED BY <2>1, DueTypes
<1>3. DOMAIN dues'[k][c] = DOMAIN dues[k][c] /\ Spaced(dues[k][c], k)'
  BY DEF Remembered, Spaced
<1>4. ASSUME NEW i \in DOMAIN dues'[k][c], NEW b \in Of(k, c)' PROVE nextFree'[b] >= NextDue(k, c, i)'
  BY <1>1, <1>3, <1>4 DEF Remembered
<1>5. ASSUME Of(k, c)' = {}, NEW i \in DOMAIN dues'[k][c] PROVE now' - Burst(k) >= NextDue(k, c, i)'
  BY <1>1, <1>2, <1>3, <1>5 DEF Remembered
<1> QED BY <1>3, <1>4, <1>5 DEF Remembered

\* A lookup makes a bucket only for a chat without one, and forgets a bucket
\* only if it owes nothing and nobody waits for it - or says so.
LEMMA LookUpRetained ==
  ASSUME Retained, NEW s \in Send, LookUp(s)
  PROVE  Retained'
<1> DEFINE mine  == Charged(s) \cap PerChat
           fresh == {Fresh(k, s) : k \in {j \in mine : Known(j, s) = {}}}
           out   == UNION {Evicted(k, s) : k \in mine}
           list  == Share("overall", s) \o Share("chat", s) \o Share("group", s)
<1>1. Steady /\ Steady' /\ TypeOK /\ TypeOK' /\ OneEach /\ StillThere /\ AllRemembered
  BY LookUpSteady DEF Retained, Steady
<1>2. /\ pc[s] = "new" /\ now' = now /\ dues' = dues
      /\ tracked' = [k \in PerChat |-> IF k \in mine THEN Touched(k, s) ELSE tracked[k]]
      /\ nextFree' = [b \in Bucket |-> IF b \in fresh THEN now - Burst(b.budget) ELSE nextFree[b]]
      /\ forgotten' = forgotten \cup {<<b.budget, Key(b)>> : b \in {e \in out : Missed(e)}}
      /\ todo' = [todo EXCEPT ![s] = list]
      /\ \A u \in Send \ {s} : pc'[u] = pc[u]
      /\ pc'[s] # "sleep"
  BY DEF LookUp, Steady, TypeOK
<1>3. /\ \A k \in PerChat : k \notin mine => Range(tracked'[k]) = Range(tracked[k])
      /\ \A k \in mine : Range(tracked'[k]) = Range(Touched(k, s))
  BY <1>2
<1>4. ASSUME NEW k \in PerChat, NEW b \in Range(tracked[k])
      PROVE  nextFree'[b] = nextFree[b] /\ b.budget = k /\ b # Fresh(k, s) /\ b \in Bucket
  <2>1. b \in Bucket
    BY <1>1 DEF TypeOK, Range
  <2>2. pc[b.by] # "new" /\ b.budget = k
    BY <1>1 DEF Steady, Made
  <2>3. \A j \in PerChat : Fresh(j, s).by = s
    BY DEF Fresh
  <2>4. b \notin fresh /\ b # Fresh(k, s)
    BY <1>2, <2>2, <2>3
  <2> QED BY <1>2, <2>1, <2>2, <2>4
<1>5. ASSUME NEW k \in mine, Known(k, s) = {}
      PROVE  nextFree'[Fresh(k, s)] = now - Burst(k) /\ Fresh(k, s).budget = k /\ Key(Fresh(k, s)) = ChatOf[s]
  <2>1. Fresh(k, s) \in fresh /\ Fresh(k, s) \in Bucket /\ Fresh(k, s).budget = k
    BY <1>5, BucketKinds DEF Fresh
  <2> QED BY <1>2, <2>1 DEF Key, Fresh
<1> HIDE DEF fresh
<1>6. OneEach'
  <2>1. SUFFICES ASSUME NEW k \in PerChat, NEW b \in Range(tracked'[k]), NEW e \in Range(tracked'[k]),
                        Key(b) = Key(e)
                 PROVE  b = e
    BY DEF OneEach, Key
  <2>2. CASE k \notin mine
    BY <1>1, <1>3, <2>1, <2>2 DEF OneEach
  <2>3. CASE k \in mine /\ Known(k, s) # {}
    <3>1. Range(tracked'[k]) \subseteq Range(tracked[k])
      BY <1>1, <1>3, <2>3, LookUpKeeps
    <3> QED BY <1>1, <2>1, <3>1 DEF OneEach
  <2>4. CASE k \in mine /\ Known(k, s) = {}
    <3>1. Range(tracked'[k]) \subseteq Range(tracked[k]) \cup {Fresh(k, s)}
      BY <1>1, <1>3, <2>4, LookUpOne
    <3>2. \A x \in Range(tracked[k]) : Key(x) # ChatOf[s]
      BY <2>4 DEF Known
    <3> QED BY <1>1, <1>5, <2>1, <2>4, <3>1, <3>2 DEF OneEach
  <2> QED BY <2>2, <2>3, <2>4
<1>7. ASSUME NEW k \in PerChat, NEW b \in Range(tracked[k]), b \notin Range(tracked'[k])
      PROVE  b \in out /\ b.budget = k /\ b \in Evicted(k, s)
  <2>1. k \in mine /\ b \in Evicted(k, s)
    BY <1>1, <1>3, <1>7, LookUpKeeps
  <2> QED BY <2>1, <1>4
<1> HIDE DEF out
<1>8. StillThere'
  <2>1. SUFFICES ASSUME NEW u \in Send, NEW b \in Unclaimed(u)', b # Overall
                 PROVE  /\ b.budget \in PerChat /\ Key(b) \in Chat
                        /\ <<b.budget, Key(b)>> \notin forgotten' => b \in Range(tracked'[b.budget])
    BY DEF StillThere, Key, Overall
  <2>2. CASE u # s
    <3>1. b \in Unclaimed(u)
      BY <1>1, <1>2, <2>1, <2>2 DEF Unclaimed, Steady, TypeOK
    <3>2. b.budget \in PerChat /\ Key(b) \in Chat
      BY <1>1, <2>1, <3>1 DEF StillThere
    <3>3. ASSUME <<b.budget, Key(b)>> \notin forgotten' PROVE b \in Range(tracked'[b.budget])
      <4>1. <<b.budget, Key(b)>> \notin forgotten
        BY <1>2, <3>3
      <4>2. b \in Range(tracked[b.budget])
        BY <1>1, <2>1, <3>1, <4>1 DEF StillThere
      <4>3. b \notin out
        BY <1>2, <3>1, <3>3 DEF Missed
      <4> QED BY <1>7, <3>2, <4>2, <4>3
    <3> QED BY <3>2, <3>3
  <2>3. CASE u = s
    <3>1. b \in Range(list)
      BY <1>1, <1>2, <2>1, <2>3 DEF Unclaimed, Steady, TypeOK
    <3>2. PICK k \in Budget : b \in Range(Share(k, s))
      <4> DEFINE one == Share("overall", s)
                 two == Share("chat", s)
                 three == Share("group", s)
      <4>1. one \in Seq(Bucket) /\ two \in Seq(Bucket) /\ three \in Seq(Bucket)
        BY <1>1, ShareType DEF Budget, PerChat
      <4> HIDE DEF one, two, three
      <4>2. one \o two \in Seq(Bucket) /\ Range(one \o two) = Range(one) \cup Range(two)
        BY <4>1, RangeConcatenation, ConcatProperties
      <4>3. Range((one \o two) \o three) = Range(one \o two) \cup Range(three)
        <5> DEFINE pair == one \o two
        <5>1. pair \in Seq(Bucket)
          BY <4>2
        <5> HIDE DEF pair
        <5>2. Range(pair \o three) = Range(pair) \cup Range(three)
          BY <4>1, <5>1, RangeConcatenation
        <5> QED BY <5>2 DEF pair
      <4>4. list = (one \o two) \o three
        BY DEF one, two, three
      <4> QED BY <3>1, <4>2, <4>3, <4>4 DEF one, two, three, Budget, PerChat
    <3>3. k \in Charged(s) /\ b = BucketFor(k, s)
      BY <3>2 DEF Share, Range
    <3>4. k \in mine
      BY <2>1, <3>3 DEF BucketFor, Budget
    <3> QED BY <1>1, <1>3, <3>3, <3>4, LookUpKeeps, LookUpOne
  <2> QED BY <2>2, <2>3
<1> HIDE DEF list
<1>9. AllRemembered'
  <2>1. SUFFICES ASSUME NEW k \in PerChat, NEW c \in Chat, <<k, c>> \notin forgotten'
                 PROVE  Remembered(k, c)'
    BY DEF AllRemembered
  <2>2. Remembered(k, c) /\ dues'[k][c] = dues[k][c] /\ now' >= now /\ now \in Int
    BY <1>1, <1>2, <2>1, DueTypes DEF AllRemembered
  <2>3. \A b \in Of(k, c) : nextFree'[b] = nextFree[b]
    BY <1>4 DEF Of
  <2>4. CASE Of(k, c)' = Of(k, c)
    BY <1>1, <2>2, <2>3, <2>4, RememberedStays
  <2>5. CASE k \in mine /\ c = ChatOf[s] /\ Known(k, s) = {}
    <3>1. Of(k, c) = {} /\ Of(k, c)' = {Fresh(k, s)}
      <4>1. Range(tracked'[k]) \subseteq Range(tracked[k]) \cup {Fresh(k, s)} /\ Fresh(k, s) \in Range(tracked'[k])
        BY <1>1, <1>3, <2>5, LookUpOne, LookUpKeeps
      <4> QED BY <1>5, <2>5, <4>1 DEF Of, Known, Key
    <3>2. nextFree'[Fresh(k, s)] = now - Burst(k)
      BY <1>5, <2>5
    <3>3. \A i \in DOMAIN dues[k][c] : now - Burst(k) >= NextDue(k, c, i)
      BY <2>2, <3>1 DEF Remembered
    <3>4. DOMAIN dues'[k][c] = DOMAIN dues[k][c] /\ \A i \in DOMAIN dues[k][c] : NextDue(k, c, i)' = NextDue(k, c, i)
      BY <2>2 DEF NextDue
    <3>5. Spaced(dues[k][c], k)'
      BY <2>2 DEF Remembered, Spaced
    <3> QED BY <3>1, <3>2, <3>3, <3>4, <3>5 DEF Remembered
  <2>6. CASE k \in mine /\ (c # ChatOf[s] \/ Known(k, s) # {}) /\ Of(k, c)' # Of(k, c)
    <3>1. Of(k, c)' \subseteq Of(k, c)
      <4>1. /\ Range(tracked'[k]) \subseteq Range(tracked[k]) \cup {Fresh(k, s)}
            /\ Known(k, s) # {} => Range(tracked'[k]) \subseteq Range(tracked[k])
        BY <1>1, <1>3, <2>6, LookUpOne, LookUpKeeps
      <4>2. Key(Fresh(k, s)) = ChatOf[s]
        BY DEF Key, Fresh
      <4> QED BY <2>6, <4>1, <4>2 DEF Of, Key
    <3>2. PICK b \in Of(k, c) : b \notin Range(tracked'[k])
      BY <2>6, <3>1 DEF Of, Key
    <3>3. /\ b \in Range(tracked[k]) /\ Key(b) = c /\ b \in out /\ b.budget = k /\ b \in Bucket
          /\ b \in Evicted(k, s)
      BY <1>4, <1>7, <3>2 DEF Of
    <3>4. ~Missed(b)
      BY <1>2, <2>1, <3>3
    <3>5. nextFree[b] <= now - Burst(k)
      BY <1>1, <3>3, <3>4, VictimIsSpare DEF Missed, Idle
    <3>6. Of(k, c)' = {}
      <4>1. Of(k, c) = {b}
        BY <1>1, <3>2 DEF OneEach, Of
      <4> QED BY <3>1, <3>2, <4>1 DEF Of
    <3>7. ASSUME NEW i \in DOMAIN dues[k][c] PROVE now - Burst(k) >= NextDue(k, c, i)
      <4>1. nextFree[b] >= NextDue(k, c, i)
        BY <2>2, <3>2 DEF Remembered
      <4>2. nextFree[b] \in Int /\ NextDue(k, c, i) \in Int /\ now \in Int /\ Burst(k) \in Int
        BY <1>1, <3>3, DueTypes
      <4> QED BY <3>5, <4>1, <4>2
    <3>8. DOMAIN dues'[k][c] = DOMAIN dues[k][c] /\ \A i \in DOMAIN dues[k][c] : NextDue(k, c, i)' = NextDue(k, c, i)
      BY <2>2 DEF NextDue
    <3>9. Spaced(dues[k][c], k)'
      BY <2>2 DEF Remembered, Spaced
    <3> QED BY <1>2, <3>6, <3>7, <3>8, <3>9 DEF Remembered
  <2>7. CASE k \notin mine
    BY <1>3, <2>4, <2>7 DEF Of, Key
  <2> QED BY <2>4, <2>5, <2>6, <2>7
<1> QED BY <1>1, <1>6, <1>8, <1>9 DEF Retained

\* A claim on the chat's only bucket is due late enough, and leaves it owing.
LEMMA DueClaimed ==
  ASSUME TypeOK, NEW k \in PerChat, NEW c \in Chat, NEW b \in Bucket, b.budget = k,
         Remembered(k, c), Of(k, c) = {b}, Of(k, c)' = {b},
         nextFree'[b] = FirstSlot(b) + Interval[k],
         dues'[k][c] = Append(dues[k][c], Later(FirstSlot(b), now))
  PROVE  Remembered(k, c)'
<1> DEFINE n == Len(dues[k][c])
           free == nextFree[b]
           first == FirstSlot(b)
           due == Later(first, now)
           E == [i \in Nat |-> IF i \in 1..(n + 1) THEN dues'[k][c][i] ELSE 0]
           S == [m \in Int |-> Span(k, m)]
           I == Interval[k]
           B == Burst(k)
<1>1. /\ k \in Budget /\ n \in Nat /\ I \in Int /\ B \in Nat
      /\ free \in Int /\ first \in Int /\ due \in Nat /\ due \in Int
      /\ first >= free /\ due >= free /\ first >= due - B
  <2>1. k \in Budget /\ n \in Nat /\ I \in Nat /\ B \in Nat
    BY BurstIsNatural, DueTypes, RatesAreNatural DEF Budget
  <2>2. free \in Int /\ first \in Int /\ due \in Nat /\ now \in Nat /\ first >= free /\ first >= now - B
    BY SlotBounds
  <2>3. due = first \/ due = now
    BY DEF Later
  <2>4. due >= first
    BY <2>2 DEF Later
  <2> HIDE DEF free, first, due, B
  <2> QED BY <2>1, <2>2, <2>3, <2>4
<1>2. S \in [Int -> Int] /\ Climbs(S, I) /\ B = -S[1]
  <2>1. \A m \in Int : Span(k, m) \in Int /\ Span(k, m + 1) = Span(k, m) + Interval[k]
    BY <1>1, SpanStep
  <2>2. Burst(k) = -Span(k, 1) /\ 1 \in Int
    BY <1>1, SpanStep
  <2>3. S \in [Int -> Int] /\ B = -S[1]
    BY <2>1, <2>2
  <2>4. ASSUME NEW m \in Int PROVE S[m + 1] = S[m] + I
    <3>1. m + 1 \in Int /\ S[m] = Span(k, m)
      OBVIOUS
    <3>2. S[m + 1] = Span(k, m + 1)
      BY <3>1
    <3> QED BY <3>1, <3>2, <2>1
  <2> QED BY <2>3, <2>4 DEF Climbs
<1>3. \A m \in Int : S[m] = Span(k, m)
  OBVIOUS
<1>4. /\ dues[k][c] \in Seq(Nat) /\ DOMAIN dues[k][c] = 1..n
      /\ dues'[k][c] = Append(dues[k][c], due)
  BY DueTypes
<1> HIDE DEF first, due, n
<1>5. /\ DOMAIN dues'[k][c] = 1..(n + 1) /\ Len(dues'[k][c]) = n + 1
      /\ \A i \in 1..n : dues'[k][c][i] = dues[k][c][i]
      /\ dues'[k][c][n + 1] = due
      /\ \A i \in 1..(n + 1) : dues'[k][c][i] \in Nat
  <2>1. /\ Len(dues'[k][c]) = n + 1 /\ dues'[k][c] \in Seq(Nat)
        /\ \A i \in 1..n : dues'[k][c][i] = dues[k][c][i]
        /\ dues'[k][c][n + 1] = due
    BY <1>1, <1>4, AppendProperties DEF n
  <2> QED BY <2>1, ElementOfSeq, LenProperties
<1>6. /\ \A i \in 1..(n + 1) : E[i] = dues'[k][c][i]
      /\ \A i \in 1..n : E[i] = dues[k][c][i]
      /\ E[n + 1] = due
      /\ E \in [Nat -> Int]
  <2>1. /\ n + 1 \in 1..(n + 1) /\ 1..(n + 1) \subseteq Nat
        /\ \A i \in 1..n : i \in 1..(n + 1)
    BY <1>1
  <2> QED BY <1>5, <2>1
<1> HIDE DEF E, S, I, B, free
<1>7. NotBefore(n, E, S, free)
  <2>1. \A i \in 1..n : n - i + 2 \in Int
    BY <1>1
  <2>2. ASSUME NEW i \in 1..n PROVE free >= dues[k][c][i] + Span(k, n - i + 2)
    <3>1. \A e \in Of(k, c) : nextFree[e] >= NextDue(k, c, i)
      BY <1>4 DEF Remembered
    <3> QED BY <3>1 DEF NextDue, n, free
  <2> QED BY <2>1, <2>2, <1>3, <1>6 DEF NotBefore
<1>8. Apart(n, E, S)
  <2>1. \A i, j \in 1..n : j - i + 1 \in Int
    OBVIOUS
  <2> QED BY <2>1, <1>3, <1>4, <1>6 DEF Remembered, Spaced, Apart
<1>9. NotBefore(n + 1, E, S, first + I) /\ Apart(n + 1, E, S)
  BY <1>1, <1>2, <1>6, <1>7, <1>8, OneMoreDue
<1>10. Spaced(dues[k][c], k)'
  <2>1. \A i, j \in 1..(n + 1) : j - i + 1 \in Int
    OBVIOUS
  <2>2. \A i, j \in 1..(n + 1) : i < j => dues'[k][c][j] - dues'[k][c][i] >= Span(k, j - i + 1)
    BY <2>1, <1>3, <1>6, <1>9 DEF Apart
  <2> QED BY <2>2, <1>5 DEF Spaced
<1>11. ASSUME NEW i \in 1..(n + 1) PROVE nextFree'[b] >= NextDue(k, c, i)'
  <2>1. first + I >= E[i] + S[(n + 1) - i + 2]
    BY <1>9 DEF NotBefore
  <2>2. (n + 1) - i + 2 \in Int
    BY <1>1
  <2>3. NextDue(k, c, i)' = E[i] + S[(n + 1) - i + 2]
    BY <2>2, <1>3, <1>5, <1>6 DEF NextDue, Span, AtOnce
  <2>4. nextFree'[b] = first + I
    BY DEF first, I
  <2> QED BY <2>1, <2>3, <2>4
<1> QED BY <1>5, <1>10, <1>11 DEF Remembered

\* No send gets more buckets to claim on but in its lookup.
LEMMA ClaimRetained ==
  ASSUME Retained, NEW s \in Send, Claim(s)
  PROVE  Retained'
<1> DEFINE b == Head(todo[s])
           due == Later(FirstSlot(b), now)
<1>1. Steady /\ Steady' /\ TypeOK /\ TypeOK' /\ OneEach /\ StillThere /\ AllRemembered
  BY ClaimSteady DEF Retained, Steady
<1>2. /\ todo[s] \in Seq(Bucket) /\ b \in Bucket /\ b \in Unclaimed(s)
      /\ Range(Tail(todo[s])) \subseteq Range(todo[s])
  BY <1>1, TailRange DEF Steady, TypeOK, Holds, Claim, Unclaimed
<1>3. /\ nextFree' = [nextFree EXCEPT ![b] = FirstSlot(b) + Interval[b.budget]]
      /\ dues' = IF b = Overall THEN dues
                 ELSE [dues EXCEPT ![b.budget][Key(b)] = Append(@, due)]
      /\ pc[s] = "claim" /\ pc' = [pc EXCEPT ![s] = "sleep"]
      /\ UNCHANGED <<now, tracked, todo, forgotten>>
  BY DEF Claim
<1> HIDE DEF b, due
<1>4. OneEach'
  BY <1>1, <1>3 DEF OneEach, Key
<1>5. StillThere'
  <2>1. ASSUME NEW u \in Send PROVE Unclaimed(u)' \subseteq Unclaimed(u)
    <3>1. CASE u = s
      BY <3>1, <1>1, <1>2, <1>3 DEF Unclaimed, TypeOK
    <3>2. CASE u # s
      BY <3>2, <1>1, <1>3 DEF Unclaimed, TypeOK
    <3> QED BY <3>1, <3>2
  <2> QED BY <2>1, <1>1, <1>3 DEF StillThere, Key, Overall
<1>6. AllRemembered'
  <2>1. SUFFICES ASSUME NEW k \in PerChat, NEW c \in Chat, <<k, c>> \notin forgotten
                 PROVE  Remembered(k, c)'
    BY <1>3 DEF AllRemembered
  <2>2. Remembered(k, c) /\ Of(k, c)' = Of(k, c) /\ now' >= now
    BY <1>1, <1>3, <2>1, DueTypes DEF AllRemembered, Of, Key
  <2>3. CASE b # Overall /\ b.budget = k /\ Key(b) = c
    <3>1. b \in Range(tracked[k])
      BY <1>1, <1>2, <2>1, <2>3 DEF StillThere
    <3>2. Of(k, c) = {b}
      BY <1>1, <2>3, <3>1 DEF OneEach, Of
    <3>3. nextFree'[b] = FirstSlot(b) + Interval[k]
      BY <1>1, <1>2, <1>3, <2>3 DEF TypeOK
    <3>4. dues'[k][c] = Append(dues[k][c], Later(FirstSlot(b), now))
      BY <1>1, <1>3, <2>3 DEF TypeOK, due
    <3> QED BY <1>1, <1>2, <2>2, <2>3, <3>2, <3>3, <3>4, DueClaimed
  <2>4. CASE ~(b # Overall /\ b.budget = k /\ Key(b) = c)
    <3>1. dues'[k][c] = dues[k][c]
      <4>1. CASE b = Overall
        BY <1>3, <4>1
      <4>2. CASE b # Overall
        <5>1. b.budget \in PerChat /\ Key(b) \in Chat
          BY <1>1, <1>2, <4>2 DEF StillThere
        <5> QED BY <1>1, <1>3, <2>4, <4>2, <5>1 DEF TypeOK
      <4> QED BY <4>1, <4>2
    <3>2. ASSUME NEW e \in Of(k, c) PROVE nextFree'[e] = nextFree[e]
      <4>1. e \in Bucket /\ e.budget = k /\ Key(e) = c
        BY <1>1, DueTypes DEF Of, Steady, Made
      <4>2. e # Overall
        BY <4>1 DEF Overall, PerChat
      <4> QED BY <1>1, <1>3, <2>4, <4>1, <4>2 DEF TypeOK
    <3> QED BY <1>1, <2>2, <3>1, <3>2, RememberedStays
  <2> QED BY <2>3, <2>4
<1> QED BY <1>1, <1>4, <1>5, <1>6 DEF Retained

\* Neither the end of a sleep nor the clock touches a bucket.
LEMMA OtherRetained ==
  ASSUME Retained, Tick \/ (\E s \in Send : Resume(s)) \/ UNCHANGED vars
  PROVE  Retained'
<1>1. Steady /\ TypeOK /\ OneEach /\ StillThere /\ AllRemembered
  BY DEF Retained, Steady
<1>2. Steady' /\ TypeOK'
  <2>1. CASE UNCHANGED vars
    BY <1>1, <2>1 DEF vars, Steady, TypeOK, Made, Holds, Overall, Key
  <2> QED BY <1>1, <2>1, ResumeSteady, TickSteady DEF Steady
<1>3. /\ UNCHANGED <<tracked, nextFree, dues, forgotten>> /\ now' >= now
      /\ \A u \in Send : Unclaimed(u)' = Unclaimed(u)
  <2>1. now \in Nat
    BY <1>1, TimeIsNatural DEF TypeOK
  <2>2. CASE Tick
    BY <2>1, <2>2 DEF Tick, Unclaimed
  <2>3. ASSUME NEW s \in Send, Resume(s)
        PROVE  /\ UNCHANGED <<tracked, nextFree, dues, forgotten>> /\ now' >= now
               /\ \A u \in Send : Unclaimed(u)' = Unclaimed(u)
    <3>1. /\ pc[s] = "sleep" /\ todo' = [todo EXCEPT ![s] = Tail(todo[s])]
          /\ pc' = [pc EXCEPT ![s] = IF Len(todo[s]) = 1 THEN "sent" ELSE "claim"]
          /\ UNCHANGED <<now, nextFree, tracked, dues, forgotten>>
      BY <2>3 DEF Resume
    <3>2. pc'[s] # "sleep" /\ todo'[s] = Tail(todo[s])
      BY <1>1, <3>1 DEF TypeOK
    <3>3. Unclaimed(s)' = Unclaimed(s)
      BY <3>1, <3>2 DEF Unclaimed
    <3>4. ASSUME NEW u \in Send \ {s} PROVE Unclaimed(u)' = Unclaimed(u)
      BY <1>1, <3>1 DEF Unclaimed, TypeOK
    <3> QED BY <2>1, <3>1, <3>3, <3>4
  <2>4. CASE UNCHANGED vars
    BY <2>1, <2>4 DEF vars, Unclaimed
  <2> QED BY <2>2, <2>3, <2>4
<1>4. OneEach' /\ StillThere'
  BY <1>1, <1>3 DEF OneEach, StillThere, Key, Overall
<1>5. AllRemembered'
  <2>1. ASSUME NEW k \in PerChat, NEW c \in Chat PROVE Of(k, c)' = Of(k, c)
    BY <1>3 DEF Of, Key
  <2> QED BY <1>1, <1>2, <1>3, <2>1, RememberedStays DEF AllRemembered
<1> QED BY <1>2, <1>4, <1>5 DEF Retained

LEMMA InitRetained == Init => Retained
<1>1. SUFFICES ASSUME Init PROVE Retained
  OBVIOUS
<1>2. Steady
  BY <1>1, InitSteady
<1>3. \A k \in PerChat : Range(tracked[k]) = {}
  BY <1>1 DEF Init, Range
<1>4. \A s \in Send : Unclaimed(s) = {}
  BY <1>1 DEF Init, Unclaimed, Range
<1>5. \A k \in PerChat, c \in Chat : dues[k][c] = <<>> /\ DOMAIN dues[k][c] = {}
  BY <1>1 DEF Init
<1>6. AllRemembered
  BY <1>3, <1>5 DEF AllRemembered, Remembered, Spaced, Of
<1> QED BY <1>2, <1>3, <1>4, <1>6 DEF Retained, OneEach, StillThere

LEMMA StepRetained == Retained /\ [Next]_vars => Retained'
  BY LookUpRetained, ClaimRetained, OtherRetained DEF Next

\* A chat keeps its rate through all the buckets it ever had, for a map of any
\* size, unless one was evicted when every candidate owed, or under a send that
\* was still to claim on it.
THEOREM RatesSurvive == Spec => []RateSurvivesEviction
<1>1. Retained => RateSurvivesEviction
  BY DEF Retained, AllRemembered, Remembered, RateSurvivesEviction
<1> QED BY InitRetained, StepRetained, <1>1, PTL DEF Spec
=============================================================================
