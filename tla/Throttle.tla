------------------------------ MODULE Throttle ------------------------------
(***************************************************************************)
(* The rate limiter of one bot (throttling.py).  Every attempt of a send   *)
(* looks up the buckets of its chat, claims the next slot of each bucket   *)
(* in turn - overall, chat, group - and sleeps until that slot arrives.    *)
(*                                                                         *)
(* Time is a count of ticks.  An Interval is the time between two slots of *)
(* a bucket, one over its rate; 0 switches that budget off.  A step is     *)
(* what one lock holds together, or the end of a sleep, so sends may run   *)
(* on any number of loops and threads.                                     *)
(***************************************************************************)
EXTENDS Integers, FiniteSets, SequencesExt

CONSTANTS
  Send,        \* attempts of sends; a retry is an attempt of its own
  Chat,        \* the numeric chat ids
  Group,       \* those that are negative: groups, supergroups, channels
  NoChat,      \* a send whose chat cannot be keyed, or that has none
  ChatOf,      \* [Send -> Chat \cup {NoChat}]
  Built,       \* what the overall bucket was made with: the limiter itself
  Interval,    \* [Budget -> ticks between two slots]
  Capacity,    \* [Budget -> calls admitted at once]: whole, 0 if below one
  MaxTracked,  \* MAX_TRACKED_CHATS
  Candidates,  \* EVICTION_CANDIDATES
  MaxTime,     \* bound: ticks
  MaxLate      \* bound: ticks that pass while some send could move

PerChat == {"chat", "group"}
Budget  == PerChat \cup {"overall"}

ASSUME GroupsAreChats == Group \subseteq Chat /\ NoChat \notin Chat
ASSUME SendsHaveChats == ChatOf \in [Send -> Chat \cup {NoChat}]
ASSUME BuiltIsNoSend == Built \notin Send
ASSUME RatesAreNatural ==
  Interval \in [Budget -> Nat] /\ Capacity \in [Budget -> Nat]
ASSUME MapIsLargerThanItsCandidates ==
  MaxTracked \in Nat /\ Candidates \in 1..MaxTracked
ASSUME TimeIsNatural == MaxTime \in Nat /\ MaxLate \in Nat

\* A bucket, known by its budget and by the send that made it.
Overall == [budget |-> "overall", by |-> Built]
Bucket  == {Overall} \cup [budget : PerChat, by : Send]

VARIABLES
  now,        \* the monotonic clock
  late,       \* how many ticks some send, able to move, did not
  nextFree,   \* [Bucket -> _next_free]
  tracked,    \* _chats and _groups: buckets, least recently used first
  pc,         \* [Send -> "new", "claim", "sleep" or "sent"]
  todo,       \* [Send -> the buckets it has looked up and not passed]
  slot,       \* [Send -> the slot it sleeps for]
  log,        \* history: [Bucket -> its claims, in order]
  dues,       \* history: [PerChat -> [Chat -> when its claims were due]]
  forgotten   \* history: chats whose bucket was evicted for want of an idle one,
              \* or under a send that had yet to claim on it

vars == <<now, late, nextFree, tracked, pc, todo, slot, log, dues, forgotten>>

Later(t, u) == IF t < u THEN u ELSE t
-----------------------------------------------------------------------------
\* Mutant: credit for the full capacity, so a burst is one call too long.
BurstOfCapacity(k) == Capacity[k] * Interval[k]

\* _burst: the first call takes a slot, and only the others are credit.
Burst(k) == IF Capacity[k] = 0 THEN 0 ELSE (Capacity[k] - 1) * Interval[k]

Key(b) == ChatOf[b.by]

\* The budgets a send is charged to.
Charged(s) ==
  {k \in Budget :
     /\ Interval[k] > 0
     /\ k = "chat" => ChatOf[s] \in Chat
     /\ k = "group" => ChatOf[s] \in Group}

\* Mutant: owing nothing right now is taken for owing nothing.
IdleNow(b) == nextFree[b] <= now

\* is_idle(): no part of the burst is spent.
Idle(b) == nextFree[b] <= now - Burst(b.budget)

\* _for(): the chat's bucket, or one of this send's making.
Known(k, s) == {b \in Range(tracked[k]) : Key(b) = ChatOf[s]}
Fresh(k, s) == [budget |-> k, by |-> s]
BucketFor(k, s) ==
  IF k = "overall" THEN Overall
  ELSE IF Known(k, s) = {} THEN Fresh(k, s)
  ELSE CHOOSE b \in Known(k, s) : TRUE

\* What a budget adds to the list of buckets a send acquires.
Share(k, s) == IF k \in Charged(s) THEN <<BucketFor(k, s)>> ELSE <<>>

\* Mutant: the oldest bucket goes, whatever it owes.
VictimOldest(k) == 1

\* _evict(): the first idle bucket among the oldest, else the oldest.
Victim(k) ==
  LET idle == {i \in 1..Candidates : Idle(tracked[k][i])}
  IN  IF idle = {} THEN 1 ELSE Min(idle)

\* Mutant: the map is let grow by one bucket too many.
EvictedLate(k, s) ==
  IF Known(k, s) = {} /\ Len(tracked[k]) > MaxTracked THEN {tracked[k][Victim(k)]} ELSE {}

\* What looking up a chat it does not know throws out of a full map.
Evicted(k, s) ==
  IF Known(k, s) = {} /\ Len(tracked[k]) = MaxTracked THEN {tracked[k][Victim(k)]} ELSE {}

\* The map after the lookup: this chat was used last.
Touched(k, s) ==
  IF Known(k, s) # {} THEN Append(RemoveFirst(tracked[k], BucketFor(k, s)), BucketFor(k, s))
  ELSE IF Evicted(k, s) = {} THEN Append(tracked[k], Fresh(k, s))
  ELSE Append(RemoveAt(tracked[k], Victim(k)), Fresh(k, s))
-----------------------------------------------------------------------------
Init ==
  /\ now = 0 /\ late = 0
  /\ nextFree = [b \in Bucket |-> -Burst(b.budget)]
  /\ tracked = [k \in PerChat |-> <<>>]
  /\ pc = [s \in Send |-> "new"]
  /\ todo = [s \in Send |-> <<>>]
  /\ slot = [s \in Send |-> 0]
  /\ log = [b \in Bucket |-> <<>>]
  /\ dues = [k \in PerChat |-> [c \in Chat |-> <<>>]]
  /\ forgotten = {}

\* A bucket thrown out is missed if there was none to spare among the candidates,
\* or if some send has yet to claim on it.
Unclaimed(s) == Range(IF pc[s] = "sleep" THEN Tail(todo[s]) ELSE todo[s])
NoneToSpare(k) == \A i \in 1..Candidates : ~Idle(tracked[k][i])
Missed(b) == NoneToSpare(b.budget) \/ \E s \in Send : b \in Unclaimed(s)

\* acquire() begins: the buckets are looked up, all at once, before any wait.
LookUp(s) ==
  /\ pc[s] = "new"
  /\ LET mine  == Charged(s) \cap PerChat
         fresh == {Fresh(k, s) : k \in {j \in mine : Known(j, s) = {}}}
         out   == UNION {Evicted(k, s) : k \in mine}
     IN  /\ tracked' = [k \in PerChat |-> IF k \in mine THEN Touched(k, s) ELSE tracked[k]]
         /\ nextFree' = [b \in Bucket |->
                           IF b \in fresh THEN now - Burst(b.budget) ELSE nextFree[b]]
         /\ forgotten' = forgotten \cup {<<b.budget, Key(b)>> : b \in {e \in out : Missed(e)}}
  /\ todo' = [todo EXCEPT ![s] = Share("overall", s) \o Share("chat", s) \o Share("group", s)]
  /\ pc' = [pc EXCEPT ![s] = IF Charged(s) = {} THEN "sent" ELSE "claim"]
  /\ UNCHANGED <<now, late, slot, log, dues>>

\* Mutant: an idle bucket earns no burst.
FirstSlotSpaced(b) == Later(nextFree[b], now)

\* The slot a claim gets: never further back than the burst allows.
FirstSlot(b) == Later(nextFree[b], now - Burst(b.budget))

\* The claim, under the bucket's guard.
Claim(s) ==
  /\ pc[s] = "claim"
  /\ LET b   == Head(todo[s])
         due == Later(FirstSlot(b), now)
     IN  /\ slot' = [slot EXCEPT ![s] = FirstSlot(b)]
         /\ nextFree' = [nextFree EXCEPT ![b] = FirstSlot(b) + Interval[b.budget]]
         /\ log' = [log EXCEPT ![b] = Append(@, [asked |-> now, due |-> due])]
         /\ dues' = IF b = Overall THEN dues
                    ELSE [dues EXCEPT ![b.budget][Key(b)] = Append(@, due)]
  /\ pc' = [pc EXCEPT ![s] = "sleep"]
  /\ UNCHANGED <<now, late, tracked, todo, forgotten>>

\* The slot has arrived: on to the next bucket, or to Telegram.
Resume(s) ==
  /\ pc[s] = "sleep"
  /\ slot[s] <= now
  /\ todo' = [todo EXCEPT ![s] = Tail(@)]
  /\ pc' = [pc EXCEPT ![s] = IF Len(todo[s]) = 1 THEN "sent" ELSE "claim"]
  /\ slot' = [slot EXCEPT ![s] = 0]
  /\ UNCHANGED <<now, late, nextFree, tracked, log, dues, forgotten>>

\* A busy loop or a busy thread is late; an idle one is not.
Tick ==
  /\ now < MaxTime
  /\ now' = now + 1
  /\ IF \E s \in Send : pc[s] = "claim" \/ (pc[s] = "sleep" /\ slot[s] <= now)
     THEN late < MaxLate /\ late' = late + 1
     ELSE UNCHANGED late
  /\ UNCHANGED <<nextFree, tracked, pc, todo, slot, log, dues, forgotten>>

Next == Tick \/ \E s \in Send : LookUp(s) \/ Claim(s) \/ Resume(s)

Spec == Init /\ [][Next]_vars
-----------------------------------------------------------------------------
\* Every variable has its type, and the maps are bounded.
TypeOK ==
  /\ now \in 0..MaxTime /\ late \in 0..MaxLate
  /\ nextFree \in [Bucket -> Int]
  /\ tracked \in [PerChat -> Seq(Bucket)]
  /\ \A k \in PerChat : Len(tracked[k]) <= MaxTracked
  /\ pc \in [Send -> {"new", "claim", "sleep", "sent"}]
  /\ todo \in [Send -> Seq(Bucket)]
  /\ slot \in [Send -> Int]
  /\ log \in [Bucket -> Seq([asked : Nat, due : Nat])]
  /\ dues \in [PerChat -> [Chat -> Seq(Nat)]]
  /\ forgotten \subseteq PerChat \X Chat

(***************************************************************************)
(* However claims interleave, a bucket admits its capacity at once and     *)
(* then one call per interval: any n of its claims in a row span at least  *)
(* n - capacity intervals ("a token bucket by its behavior, GCRA by its    *)
(* implementation").  A capacity below one still admits the first call.    *)
(***************************************************************************)
AtOnce(k) == IF Capacity[k] = 0 THEN 1 ELSE Capacity[k]

\* How long n calls in a row must take.
Span(k, n) == (n - AtOnce(k)) * Interval[k]

Spaced(times, k) ==
  \A i, j \in DOMAIN times : i < j => times[j] - times[i] >= Span(k, j - i + 1)

DueTimes(b) == [i \in DOMAIN log[b] |-> log[b][i].due]

WithinEveryBudget == \A b \in Bucket : Spaced(DueTimes(b), b.budget)

(***************************************************************************)
(* And it admits no less: who waits, waits because an earlier claim leaves *)
(* no earlier time, and is due at exactly that time.                       *)
(***************************************************************************)
NoNeedlessWait ==
  \A b \in Bucket : \A j \in DOMAIN log[b] :
    \/ log[b][j].due = log[b][j].asked
    \/ \E i \in 1..j-1 :
         log[b][j].due - log[b][i].due = Span(b.budget, j - i + 1)

(***************************************************************************)
(* The map forgets nothing it could keep: a chat keeps its rate through    *)
(* all the buckets it ever had, unless one was evicted when every          *)
(* candidate owed (_evict's bounded loss), or under a send that had looked *)
(* it up and was still to claim on it.                                     *)
(***************************************************************************)
RateSurvivesEviction ==
  \A k \in PerChat, c \in Chat : <<k, c>> \notin forgotten => Spaced(dues[k][c], k)
=============================================================================
