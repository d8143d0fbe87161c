--------------------------- MODULE RecorderProofs ---------------------------
(***************************************************************************)
(* Recorder, for every set of producers, writers and callers and any sizes *)
(* of its queue: nothing recorded disappears, every loss is counted once,  *)
(* record() leaves nothing in a queue nobody reads, and a connection is    *)
(* closed by the thread that opened it unless another's stop() took its    *)
(* mark.                                                                   *)
(***************************************************************************)
EXTENDS Recorder, CollectionLemmas, TLAPS

(***************************************************************************)
(* The types, in the groups the actions leave alone together.              *)
(***************************************************************************)
QueueTypes ==
  /\ live \in 0..made /\ made \in 0..MaxWriters
  /\ buffer \in [Writer -> Seq(Item)]
  /\ \A q \in Writer : Len(buffer[q]) <= BufferSize
  /\ guard \in Producer \cup {Nobody} /\ stopping \in BOOLEAN

CountTypes == dropped \in Nat /\ lost \subseteq Event /\ reported \in Nat

PlaceTypes ==
  /\ queue \in [Thread -> 0..MaxWriters]
  /\ orphan \in [Producer -> 0..MaxWriters]
  /\ own \in [Producer -> Event \cup {None}]
  /\ inside \in [Stopper -> 0..MaxWriters]

FlushTypes ==
  /\ before \in [Thread -> Nat] /\ claim \in [Thread -> Nat]
  /\ failures \in [Writer -> 0..FailureLimit-1] /\ suspended \in [Writer -> BOOLEAN]

MarkTypes == touched \subseteq Thread /\ open \subseteq Writer /\ unmarked \subseteq Writer

WaitTypes == released \subseteq Waiter /\ since \in [Waiter -> SUBSET Event]

HistoryTypes ==
  noThread \in 0..MaxNoThread /\ delivered \subseteq Event /\ rehomed \subseteq Event

\* Who calls never changes, so the bound on the events does not either.
CastOK == Cast \in Casts /\ events \in 0..MaxEvents[Cast]

Types ==
  /\ QueueTypes /\ CountTypes /\ PlaceTypes /\ FlushTypes /\ MarkTypes /\ WaitTypes
  /\ HistoryTypes /\ CastOK
  /\ pc \in [Thread -> Label] /\ hand \in [Thread -> SUBSET Item]

(***************************************************************************)
(* What a thread's own variables hold, by where it is.                     *)
(***************************************************************************)
ProducerOK(p) ==
  /\ pc[p] \in {"absent", "idle", "look", "here", "start", "put", "check", "rehome",
                "relook", "restart", "reput"}
  /\ pc[p] \in {"absent", "idle"} <=> own[p] = None
  /\ own[p] # None => own[p] \in 1..events
  /\ pc[p] \in {"start", "put", "check", "restart", "reput"} => queue[p] \in 1..made
  /\ pc[p] \in {"rehome", "relook", "restart", "reput"} => orphan[p] \in 1..made
  /\ pc[p] \in {"look", "here", "start", "put"} => hand[p] = {own[p]}
  /\ pc[p] \in {"absent", "idle", "check", "rehome"} => hand[p] = {}
  /\ pc[p] \in {"relook", "restart", "reput"} => \E item \in Item : hand[p] = {item}
  /\ claim[p] = 0

StopperOK(s) ==
  /\ pc[s] \in {"absent", "idle", "detach", "signal", "join", "abandon", "leftover", "forget", "over"}
  /\ pc[s] \in {"signal", "join", "abandon", "leftover", "forget"} => queue[s] \in 1..made
  /\ pc[s] = "leftover" => hand[s] \subseteq Event
  /\ pc[s] # "leftover" => hand[s] = {}
  /\ pc[s] \in {"absent", "idle", "over"} => inside[s] = None
  /\ claim[s] = 0

WaiterOK(f) ==
  /\ pc[f] \in {"absent", "idle", "mark", "wait", "over"}
  /\ pc[f] \in {"mark", "wait"} => queue[f] \in 1..made
  /\ hand[f] = {}
  /\ claim[f] = 0

DrainerOK(d) ==
  /\ pc[d] \in {"absent", "idle", "flush", "write", "gap", "gapwrite", "ack", "over"}
  /\ pc[d] \in {"absent", "idle", "over"} => hand[d] = {}
  /\ pc[d] \in {"gap", "gapwrite", "ack"} => Held(d) = {}
  /\ pc[d] # "gapwrite" => claim[d] = 0

WriterOK(w) ==
  /\ pc[w] \in {"unmade", "take", "flush", "write", "gap", "gapwrite", "ack", "check", "exit",
                "abandon", "leftover", "close", "gone"}
  /\ queue[w] = w
  /\ pc[w] # "unmade" => w <= made
  /\ pc[w] \in {"unmade", "check", "exit", "abandon", "close", "gone"} => hand[w] = {}
  /\ pc[w] \in {"gap", "gapwrite", "ack"} => Held(w) = {}
  /\ pc[w] = "leftover" => hand[w] \subseteq Event
  /\ pc[w] # "gapwrite" => claim[w] = 0

LocalOK(t) ==
  /\ t \in Producer => ProducerOK(t)
  /\ t \in Stopper => StopperOK(t)
  /\ t \in Waiter => WaiterOK(t)
  /\ t \in Drainer => DrainerOK(t)
  /\ t \in Writer => WriterOK(t)

Locals == \A t \in Thread : LocalOK(t)

\* The guard is held across the start of a thread, and the live queue stays.
GuardHeld ==
  \A p \in Producer :
    /\ pc[p] \in {"start", "restart"} <=> guard = p
    /\ guard = p => live = queue[p] /\ pc[queue[p]] = "unmade"

Serving == {"take", "flush", "write", "gap", "gapwrite", "ack", "check", "exit"}

\* The live queue has a writer, or a thread that is starting one.
LiveIsRun ==
  live # None => pc[live] \in Serving \/ guard # Nobody

\* A receiver's stop() keeps the writer that called it where it is.
InsidersHold ==
  \A s \in Stopper : inside[s] # None => pc[inside[s]] \in {"write", "gapwrite", "leftover"}

Base == Types /\ Locals /\ GuardHeld /\ LiveIsRun /\ InsidersHold

-----------------------------------------------------------------------------
\* What the assumptions on the constants give.
LEMMA Constants ==
  /\ MaxWriters \in Nat \ {0} /\ BufferSize \in Nat \ {0} /\ BatchSize \in Nat \ {0}
  /\ FailureLimit \in Nat \ {0} /\ MaxNoThread \in Nat
  /\ Producer \cap Stopper = {} /\ Producer \cap Waiter = {} /\ Producer \cap Drainer = {}
  /\ Stopper \cap Waiter = {} /\ Stopper \cap Drainer = {} /\ Waiter \cap Drainer = {}
  /\ Producer \cap Writer = {} /\ Stopper \cap Writer = {} /\ Waiter \cap Writer = {}
  /\ Drainer \cap Writer = {} /\ Nobody \notin Producer
  /\ Thread = Producer \cup Stopper \cup Waiter \cup Drainer \cup Writer
  /\ Event \cap Waiter = {} /\ StopWake \notin Event /\ StopWake \notin Waiter
  /\ Item = Event \cup Waiter \cup {StopWake}
  BY SizesArePositive, BoundsAreNatural, CallersAreDistinct, WritersAreTheirOwn, WakesAreNoEvents,
     NobodyIsNobody DEF Thread, Caller, Item

\* A writer is the number of its queue, and no other thread is one.
LEMMA WritersAreNumbers ==
  /\ Writer \subseteq Nat \ {0} /\ None \notin Writer /\ IsFiniteSet(Writer)
  /\ \A n \in 0..MaxWriters : n # None => n \in Writer
  /\ \A n \in 1..MaxWriters : n \in Writer
<1>1. MaxWriters \in Nat
  BY Constants
<1> QED BY <1>1, FS_Interval DEF Writer, None

\* Threads are finitely many.
LEMMA ThreadsAreFinite == IsFiniteSet(Thread)
  BY CallersAreFinite, WritersAreNumbers, FS_Union DEF Thread

\* Every event a cast may record is an event.
LEMMA EventBound ==
  ASSUME NEW cast \in Casts
  PROVE  /\ MaxEvents[cast] \in Nat \ {0}
         /\ Event \subseteq Nat \ {0} /\ IsFiniteSet(Event)
         /\ None \notin Event
         /\ 1..MaxEvents[cast] \subseteq Event
<1> DEFINE bounds == {MaxEvents[c] : c \in Casts}
<1>1. IsFiniteSet(Casts)
  <2>1. IsFiniteSet(SUBSET Caller)
    BY CallersAreFinite, FS_SUBSET
  <2> QED BY <2>1, CastsAreCallers, FS_Subset DEF Caller
<1>2. IsFiniteSet(bounds)
  <2>1. MaxEvents \in Surjection(Casts, bounds)
    BY BoundsAreNatural DEF Surjection
  <2> HIDE DEF bounds
  <2> QED BY <1>1, <2>1, FS_Surjection
<1>3. /\ bounds \subseteq Nat /\ MaxEvents[cast] \in bounds /\ MaxEvents[cast] \in Nat \ {0}
  BY BoundsAreNatural
<1> HIDE DEF bounds
<1>4. Max(bounds) \in Nat /\ MaxEvents[cast] <= Max(bounds)
  BY <1>2, <1>3, MaxOfNats
<1>5. Event = 1..Max(bounds)
  BY DEF Event, bounds
<1>6. IsFiniteSet(Event)
  BY <1>4, <1>5, FS_Interval
<1>7. Event \subseteq Nat \ {0} /\ 1..MaxEvents[cast] \subseteq Event
  BY <1>3, <1>4, <1>5
<1> QED BY <1>3, <1>6, <1>7 DEF None

\* What the types say of the numbers in them.
LEMMA TypedNumbers ==
  ASSUME Types
  PROVE  /\ made \in Nat /\ made <= MaxWriters /\ live \in Nat
         /\ events \in Nat /\ 1..events \subseteq Event
         /\ events <= MaxEvents[Cast] /\ MaxEvents[Cast] \in Nat
         /\ Event \subseteq Nat \ {0} /\ IsFiniteSet(Event) /\ None \notin Event
         /\ live # None => live \in Writer
         /\ \A n \in 1..made : n \in Writer
         /\ \A t \in Thread : Held(t) \subseteq Event /\ IsFiniteSet(Held(t))
<1>1. Cast \in Casts /\ events \in 0..MaxEvents[Cast] /\ made \in 0..MaxWriters /\ live \in 0..made
  BY DEF Types, CastOK, QueueTypes
<1>2. MaxWriters \in Nat
  BY Constants
<1>3. /\ MaxEvents[Cast] \in Nat /\ Event \subseteq Nat \ {0} /\ IsFiniteSet(Event)
      /\ None \notin Event /\ 1..MaxEvents[Cast] \subseteq Event
  BY <1>1, EventBound
<1>4. 1..events \subseteq Event
  BY <1>1, <1>3
<1>5. \A t \in Thread : Held(t) \subseteq Event /\ IsFiniteSet(Held(t))
  <2>1. \A t \in Thread : Held(t) \subseteq Event
    BY DEF Held
  <2> QED BY <2>1, <1>3, FS_Subset
<1>6. /\ live # None => live \in Writer
      /\ \A n \in 1..made : n \in Writer
  BY <1>1, <1>2, WritersAreNumbers DEF None
<1> QED BY <1>1, <1>2, <1>3, <1>4, <1>5, <1>6
-----------------------------------------------------------------------------
\* A group of variables that stays keeps its types.
LEMMA QueuesStay == QueueTypes /\ UNCHANGED queues => QueueTypes'
  BY DEF QueueTypes, queues
\* A step that leaves a group of variables alone keeps their types.
LEMMA CountsStay == CountTypes /\ UNCHANGED counted => CountTypes'
  BY DEF CountTypes, counted
LEMMA PlacesStay == PlaceTypes /\ UNCHANGED places => PlaceTypes'
  BY DEF PlaceTypes, places
LEMMA FlushesStay == FlushTypes /\ UNCHANGED flushes => FlushTypes'
  BY DEF FlushTypes, flushes
LEMMA MarksStay == MarkTypes /\ UNCHANGED marks => MarkTypes'
  BY DEF MarkTypes, marks
LEMMA WaitsStay == WaitTypes /\ UNCHANGED waits => WaitTypes'
  BY DEF WaitTypes, waits
LEMMA HistoriesStay == HistoryTypes /\ UNCHANGED <<noThread, delivered, rehomed>> => HistoryTypes'
  BY DEF HistoryTypes

\* Nobody comes or goes.
LEMMA CastStays ==
  ASSUME Types, pc' \in [Thread -> Label],
         \A c \in Caller : (pc[c] = "absent") <=> (pc'[c] = "absent")
  PROVE  Cast' = Cast
  BY DEF Cast

\* The variables of every thread but these are as they were.
Only(T) ==
  /\ \A u \in Thread \ T : /\ pc'[u] = pc[u] /\ queue'[u] = queue[u] /\ hand'[u] = hand[u]
                           /\ claim'[u] = claim[u]
  /\ \A p \in Producer \ T : own'[p] = own[p] /\ orphan'[p] = orphan[p]
  /\ \A s \in Stopper \ T : inside'[s] = inside[s]
  /\ made' \in Nat /\ made' >= made /\ events' \in Nat /\ events' >= events

\* A step of one thread leaves the variables of every other as they were.
LEMMA OthersStay ==
  ASSUME Types, Locals, NEW T, Only(T)
  PROVE  \A u \in Thread \ T : LocalOK(u)'
<1>1. /\ made \in Nat /\ events \in Nat
  BY TypedNumbers
<1>2. SUFFICES ASSUME NEW u \in Thread \ T PROVE LocalOK(u)'
  OBVIOUS
<1>3. LocalOK(u)
  BY DEF Locals
<1>4. /\ pc'[u] = pc[u] /\ queue'[u] = queue[u] /\ hand'[u] = hand[u] /\ claim'[u] = claim[u]
  BY DEF Only
<1>5. made' \in Nat /\ made' >= made /\ events' \in Nat /\ events' >= events
  BY DEF Only
<1>6. 1..made \subseteq 1..made' /\ 1..events \subseteq 1..events'
  BY <1>1, <1>5
<1>7. u \in Producer => ProducerOK(u)'
  <2>1. HAVE u \in Producer
  <2>2. ProducerOK(u) /\ own'[u] = own[u] /\ orphan'[u] = orphan[u]
    BY <1>3, <2>1 DEF LocalOK, Only
  <2> QED BY <1>4, <1>6, <2>2 DEF ProducerOK
<1>8. u \in Stopper => StopperOK(u)'
  <2>1. HAVE u \in Stopper
  <2>2. StopperOK(u) /\ inside'[u] = inside[u]
    BY <1>3, <2>1 DEF LocalOK, Only
  <2> QED BY <1>4, <1>6, <2>2 DEF StopperOK
<1>9. u \in Waiter => WaiterOK(u)'
  BY <1>3, <1>4, <1>6 DEF LocalOK, WaiterOK
<1>10. u \in Drainer => DrainerOK(u)'
  BY <1>3, <1>4 DEF LocalOK, DrainerOK, Held
<1>11. u \in Writer => WriterOK(u)'
  <2>1. HAVE u \in Writer
  <2>2. WriterOK(u) /\ u \in Nat
    BY <1>3, <2>1, WritersAreNumbers DEF LocalOK
  <2>3. u <= made => u <= made'
    BY <1>1, <1>5, <2>2
  <2> QED BY <1>4, <2>2, <2>3 DEF WriterOK, Held
<1> QED BY <1>7, <1>8, <1>9, <1>10, <1>11 DEF LocalOK

\* A thread is of one kind.
LEMMA LocalProducer == \A p \in Producer : ProducerOK(p)' => LocalOK(p)'
  BY Constants DEF LocalOK
\* Which of the local invariants is a thread's follows from what it is.
LEMMA LocalStopper == \A s \in Stopper : StopperOK(s)' => LocalOK(s)'
  BY Constants DEF LocalOK
LEMMA LocalWaiter == \A f \in Waiter : WaiterOK(f)' => LocalOK(f)'
  BY Constants DEF LocalOK
LEMMA LocalDrainer == \A d \in Drainer : DrainerOK(d)' => LocalOK(d)'
  BY Constants DEF LocalOK
LEMMA LocalWriter == \A w \in Writer : WriterOK(w)' => LocalOK(w)'
  BY Constants DEF LocalOK

\* Guard and live stay, and nobody gets to where the guard is taken.
LEMMA GuardStays ==
  ASSUME Base, UNCHANGED <<live, made, guard>>,
         \A p \in Producer : /\ pc'[p] \in {"start", "restart"} <=> pc[p] \in {"start", "restart"}
                             /\ guard = p => queue'[p] = queue[p],
         \A w \in Writer : (pc[w] = "unmade") = (pc'[w] = "unmade")
  PROVE  GuardHeld'
<1>1. SUFFICES ASSUME NEW p \in Producer
               PROVE  /\ pc'[p] \in {"start", "restart"} <=> guard = p
                      /\ guard = p => live = queue'[p] /\ pc'[queue'[p]] = "unmade"
  BY DEF GuardHeld
<1>2. /\ pc[p] \in {"start", "restart"} <=> guard = p
      /\ guard = p => live = queue[p] /\ pc[queue[p]] = "unmade"
  BY DEF Base, GuardHeld
<1>3. guard = p => queue[p] \in Writer
  <2>1. HAVE guard = p
  <2>2. queue[p] \in 1..made
    BY <1>2, <2>1 DEF Base, Locals, LocalOK, ProducerOK, Thread, Caller
  <2> QED BY <2>2, TypedNumbers DEF Base
<1> QED BY <1>2, <1>3

\* The live queue stays served by a step that changes neither it nor the guard.
LEMMA ServingStays ==
  ASSUME Base, UNCHANGED <<live, guard>>,
         \A w \in Writer : pc[w] \in Serving => pc'[w] \in Serving
  PROVE  LiveIsRun'
  BY TypedNumbers DEF Base, LiveIsRun

LEMMA InsidersStay ==
  ASSUME Base, UNCHANGED inside,
         \A w \in Writer : pc'[w] = pc[w] \/ (\A s \in Stopper : inside[s] # w)
  PROVE  InsidersHold'
  BY WritersAreNumbers DEF Base, InsidersHold, Types, PlaceTypes

-----------------------------------------------------------------------------
\* Counting events keeps the types, and so does settling a batch.
LEMMA CountTyped ==
  ASSUME Types, NEW gone \in SUBSET Event, Count(gone)
  PROVE  CountTypes'
<1>1. Cardinality(gone) \in Nat
  <2>1. IsFiniteSet(gone)
    BY TypedNumbers, FS_Subset
  <2> QED BY <2>1, FS_CardinalityType
<1>2. dropped' \in Nat
  BY <1>1 DEF Types, CountTypes, Count
<1>3. lost' \subseteq Event /\ reported' \in Nat
  BY DEF Types, CountTypes, Count
<1> QED BY <1>2, <1>3 DEF CountTypes

\* What a write does to the counts and the history has its type.
LEMMA SettleTyped ==
  ASSUME Types, NEW batch \in SUBSET Event, NEW landed \in SUBSET batch, Settle(batch, landed)
  PROVE  CountTypes' /\ delivered' \subseteq Event
<1>1. CountTypes'
  BY CountTyped DEF Settle
<1>2. delivered' \subseteq Event
  BY DEF Settle, Types, HistoryTypes
<1> QED BY <1>1, <1>2

LEMMA LandingIsPart == \A batch : \A landed \in Landing(batch) : landed \subseteq batch
  BY DEF Landing

\* What one put, one get or emptying does to the types of the queues.
LEMMA PutTyped ==
  ASSUME QueueTypes, NEW q \in Writer, NEW item \in Item, ~Full(q), Put(q, item)
  PROVE  /\ buffer' \in [Writer -> Seq(Item)]
         /\ \A r \in Writer : Len(buffer'[r]) <= BufferSize
<1>1. buffer[q] \in Seq(Item) /\ Len(buffer[q]) \in Nat /\ BufferSize \in Nat
  BY Constants, LenProperties DEF QueueTypes
<1>2. Append(buffer[q], item) \in Seq(Item) /\ Len(Append(buffer[q], item)) = Len(buffer[q]) + 1
  BY <1>1, AppendProperties
<1>3. Len(buffer[q]) + 1 <= BufferSize
  BY <1>1 DEF Full
<1>4. buffer \in [Writer -> Seq(Item)] /\ \A r \in Writer : Len(buffer[r]) <= BufferSize
  BY DEF QueueTypes
<1> QED BY <1>2, <1>3, <1>4 DEF Put

LEMMA TailTyped ==
  ASSUME QueueTypes, NEW q \in Writer, buffer[q] # <<>>, buffer' = [buffer EXCEPT ![q] = Tail(@)]
  PROVE  /\ buffer' \in [Writer -> Seq(Item)] /\ Head(buffer[q]) \in Item
         /\ \A r \in Writer : Len(buffer'[r]) <= BufferSize
<1>1. buffer[q] \in Seq(Item) /\ Len(buffer[q]) \in Nat /\ BufferSize \in Nat
  BY Constants, LenProperties DEF QueueTypes
<1>2. /\ Head(buffer[q]) \in Item /\ Tail(buffer[q]) \in Seq(Item)
      /\ Len(Tail(buffer[q])) = Len(buffer[q]) - 1
  BY <1>1, HeadTailProperties, EmptySeq
<1>3. buffer \in [Writer -> Seq(Item)] /\ \A r \in Writer : Len(buffer[r]) <= BufferSize
  BY DEF QueueTypes
<1>4. Len(Tail(buffer[q])) <= BufferSize
  BY <1>1, <1>2, <1>3
<1> QED BY <1>2, <1>3, <1>4

LEMMA EmptyTyped ==
  ASSUME QueueTypes, NEW q \in Writer, buffer' = [buffer EXCEPT ![q] = <<>>]
  PROVE  /\ buffer' \in [Writer -> Seq(Item)]
         /\ \A r \in Writer : Len(buffer'[r]) <= BufferSize
<1>1. <<>> \in Seq(Item) /\ Len(<<>>) <= BufferSize
  BY Constants, EmptySeq
<1>2. buffer \in [Writer -> Seq(Item)] /\ \A r \in Writer : Len(buffer[r]) <= BufferSize
  BY DEF QueueTypes
<1> QED BY <1>1, <1>2

LEMMA ItemsOfQueue ==
  ASSUME QueueTypes, NEW q \in Writer
  PROVE  Range(buffer[q]) \subseteq Item
  BY DEF QueueTypes, Range

\* A thread's mark, wherever it is made.
LEMMA TouchTyped ==
  ASSUME Types, NEW t \in Thread, Touches(t)
  PROVE  MarkTypes'
<1>1. ThreadOf(t) \in Thread
  <2>1. t \in Stopper /\ inside[t] # None => inside[t] \in Writer
    BY WritersAreNumbers DEF Types, PlaceTypes
  <2> QED BY <2>1 DEF ThreadOf, Thread
<1> QED BY <1>1 DEF Touches, Types, MarkTypes, marks

LEMMA ReleaseTyped ==
  ASSUME WaitTypes, NEW items, Release(items)
  PROVE  WaitTypes'
  BY DEF WaitTypes, Release

\* A producer calls record(): its event is new, and it starts outside every queue.
LEMMA RecordBase ==
  ASSUME Base, NEW p \in Producer, Record(p)
  PROVE  Base'
<1>1. Types /\ Locals /\ GuardHeld /\ LiveIsRun /\ InsidersHold
  BY DEF Base
<1>2. p \in Thread /\ ProducerOK(p)
  BY DEF Base, Locals, LocalOK, Thread, Caller
<1>3. /\ pc \in [Thread -> Label] /\ hand \in [Thread -> SUBSET Item]
      /\ queue \in [Thread -> 0..MaxWriters] /\ orphan \in [Producer -> 0..MaxWriters]
      /\ own \in [Producer -> Event \cup {None}] /\ inside \in [Stopper -> 0..MaxWriters]
      /\ claim \in [Thread -> Nat] /\ made \in Nat /\ events \in Nat
  BY TypedNumbers DEF Base, Types, PlaceTypes, FlushTypes
<1>4. events + 1 \in 1..MaxEvents[Cast] /\ events + 1 \in Event /\ events + 1 # None
  <2>1. events < MaxEvents[Cast] /\ MaxEvents[Cast] \in Nat /\ Cast \in Casts
    BY TypedNumbers DEF Record, Goto, Base, Types, CastOK
  <2> QED BY <2>1, <1>3, EventBound DEF None
<1>5. QueueTypes'
  BY <1>1, QueuesStay DEF Types, Record, Goto, queues
<1>6. CountTypes'
  BY <1>1, CountsStay DEF Types, Record, Goto, counted
<1>7. PlaceTypes'
  BY <1>1, <1>3, <1>4 DEF Types, PlaceTypes, Record, Goto
<1>8. FlushTypes'
  BY <1>1, FlushesStay DEF Types, Record, Goto, flushes
<1>9. MarkTypes'
  <2>1. CASE UNCHANGED marks
    BY <2>1, <1>1, MarksStay DEF Types
  <2>2. CASE Touches(p)
    BY <2>2, <1>1, <1>2, TouchTyped
  <2> QED BY <2>1, <2>2 DEF Record, Goto
<1>10. WaitTypes'
  BY <1>1, WaitsStay DEF Types, Record, Goto, waits
<1>11. HistoryTypes'
  BY <1>1, HistoriesStay DEF Types, Record, Goto
<1>12. pc' \in [Thread -> Label]
  BY <1>3 DEF Label, Record, Goto
<1>13. hand' \in [Thread -> SUBSET Item]
  BY <1>3, <1>4 DEF Record, Goto, Item
<1>14. CastOK'
  <2>1. \A c \in Caller : (pc[c] = "absent") <=> (pc'[c] = "absent")
    BY <1>2, <1>3, Constants DEF Record, Goto, Thread, Caller
  <2>2. Cast' = Cast
    BY <1>1, <1>12, <2>1, CastStays
  <2>3. events' = events + 1
    BY DEF Record, Goto
  <2> QED BY <1>1, <1>4, <2>2, <2>3 DEF Types, CastOK
<1>15. Types'
  BY <1>5, <1>6, <1>7, <1>8, <1>9, <1>10, <1>11, <1>12, <1>13, <1>14 DEF Types
<1>16. Only({p})
  BY <1>3 DEF Only, Record, Goto, queues, places, flushes
<1>17. ProducerOK(p)'
  <2>1. events + 1 \in 1..(events + 1)
    BY <1>3
  <2> QED BY <1>2, <1>3, <1>4, <2>1 DEF ProducerOK, Record, Goto, places, flushes, queues
<1>18. Locals'
  BY <1>1, <1>2, <1>16, <1>17, OthersStay, LocalProducer DEF Locals
<1>19. GuardHeld'
  <2>1. UNCHANGED <<live, made, guard>>
    BY DEF Record, Goto, queues
  <2>2. \A o \in Producer : /\ pc'[o] \in {"start", "restart"} <=> pc[o] \in {"start", "restart"}
                            /\ guard = o => queue'[o] = queue[o]
    BY <1>1, <1>2, <1>3, Constants DEF ProducerOK, GuardHeld, Record, Goto, places, Thread, Caller
  <2>3. \A u \in Writer : (pc[u] = "unmade") = (pc'[u] = "unmade")
    BY <1>2, <1>3, Constants DEF ProducerOK, Record, Goto, Thread
  <2> QED BY <2>1, <2>2, <2>3, GuardStays
<1>20. LiveIsRun'
  <2>1. UNCHANGED <<live, guard>>
    BY DEF Record, Goto, queues
  <2>2. \A u \in Writer : pc[u] \in Serving => pc'[u] \in Serving
    BY <1>2, <1>3, Constants DEF Serving, Record, Goto, Thread
  <2> QED BY <2>1, <2>2, ServingStays
<1>21. InsidersHold'
  <2>1. UNCHANGED inside
    BY DEF Record, Goto, places
  <2>2. \A u \in Writer : pc'[u] = pc[u] \/ (\A o \in Stopper : inside[o] # u)
    BY <1>1, <1>2, <1>3, Constants, WritersAreNumbers DEF InsidersHold, Record, Goto, Thread, Busy
  <2> QED BY <2>1, <2>2, InsidersStay
<1> QED BY <1>15, <1>18, <1>19, <1>20, <1>21 DEF Base

\* The synchronous log writes on the caller's own thread.
LEMMA WriteHereBase ==
  ASSUME Base, NEW p \in Producer, WriteHere(p)
  PROVE  Base'
<1>1. Types /\ Locals /\ GuardHeld /\ LiveIsRun /\ InsidersHold
  BY DEF Base
<1>2. p \in Thread /\ ProducerOK(p)
  BY DEF Base, Locals, LocalOK, Thread, Caller
<1>3. /\ pc \in [Thread -> Label] /\ hand \in [Thread -> SUBSET Item]
      /\ queue \in [Thread -> 0..MaxWriters] /\ orphan \in [Producer -> 0..MaxWriters]
      /\ own \in [Producer -> Event \cup {None}] /\ inside \in [Stopper -> 0..MaxWriters]
      /\ claim \in [Thread -> Nat] /\ made \in Nat /\ events \in Nat
  BY TypedNumbers DEF Base, Types, PlaceTypes, FlushTypes
<1>4. CountTypes' /\ delivered' \subseteq Event
  <2>1. Held(p) \in SUBSET Event
    BY DEF Held
  <2> QED BY <2>1, <1>1, SettleTyped DEF WriteHere, Return, Goto
<1>5. QueueTypes'
  BY <1>1, QueuesStay DEF Types, WriteHere, Return, Goto, queues
<1>6. CountTypes'
  BY <1>4
<1>7. PlaceTypes'
  BY <1>1, <1>3, Constants DEF Types, PlaceTypes, WriteHere, Return, Goto, None
<1>8. FlushTypes'
  BY <1>1, FlushesStay DEF Types, WriteHere, Return, Goto, flushes
<1>9. MarkTypes'
  BY <1>1 DEF Types, MarkTypes, WriteHere, Return, Goto
<1>10. WaitTypes'
  BY <1>1, WaitsStay DEF Types, WriteHere, Return, Goto, waits
<1>11. HistoryTypes'
  BY <1>1, <1>4 DEF Types, HistoryTypes, WriteHere, Return, Goto
<1>12. pc' \in [Thread -> Label]
  BY <1>3 DEF Label, WriteHere, Return, Goto
<1>13. hand' \in [Thread -> SUBSET Item]
  BY <1>3 DEF WriteHere, Return, Goto
<1>14. CastOK'
  <2>1. \A c \in Caller : (pc[c] = "absent") <=> (pc'[c] = "absent")
    BY <1>2, <1>3, Constants DEF WriteHere, Return, Goto, Thread, Caller
  <2>2. Cast' = Cast
    BY <1>1, <1>12, <2>1, CastStays
  <2>3. events' = events
    BY DEF WriteHere, Return, Goto
  <2> QED BY <1>1, <2>2, <2>3 DEF Types, CastOK
<1>15. Types'
  BY <1>5, <1>6, <1>7, <1>8, <1>9, <1>10, <1>11, <1>12, <1>13, <1>14 DEF Types
<1>16. Only({p})
  BY <1>3 DEF Only, WriteHere, Return, Goto, queues, places, flushes
<1>17. ProducerOK(p)'
  BY <1>2, <1>3 DEF ProducerOK, WriteHere, Return, Goto, places, flushes, queues
<1>18. Locals'
  BY <1>1, <1>2, <1>16, <1>17, OthersStay, LocalProducer DEF Locals
<1>19. GuardHeld'
  <2>1. UNCHANGED <<live, made, guard>>
    BY DEF WriteHere, Return, Goto, queues
  <2>2. \A o \in Producer : /\ pc'[o] \in {"start", "restart"} <=> pc[o] \in {"start", "restart"}
                            /\ guard = o => queue'[o] = queue[o]
    BY <1>1, <1>2, <1>3, Constants DEF ProducerOK, GuardHeld, WriteHere, Return, Goto, places, Thread, Caller
  <2>3. \A u \in Writer : (pc[u] = "unmade") = (pc'[u] = "unmade")
    BY <1>2, <1>3, Constants DEF ProducerOK, WriteHere, Return, Goto, Thread
  <2> QED BY <2>1, <2>2, <2>3, GuardStays
<1>20. LiveIsRun'
  <2>1. UNCHANGED <<live, guard>>
    BY DEF WriteHere, Return, Goto, queues
  <2>2. \A u \in Writer : pc[u] \in Serving => pc'[u] \in Serving
    BY <1>2, <1>3, Constants DEF Serving, WriteHere, Return, Goto, Thread
  <2> QED BY <2>1, <2>2, ServingStays
<1>21. InsidersHold'
  <2>1. UNCHANGED inside
    BY DEF WriteHere, Return, Goto, places
  <2>2. \A u \in Writer : pc'[u] = pc[u] \/ (\A o \in Stopper : inside[o] # u)
    BY <1>1, <1>2, <1>3, Constants, WritersAreNumbers DEF InsidersHold, WriteHere, Return, Goto, Thread, Busy
  <2> QED BY <2>1, <2>2, InsidersStay
<1> QED BY <1>15, <1>18, <1>19, <1>20, <1>21 DEF Base

\* A lookup without the guard finds the live queue, or none.
LEMMA LookUpBase ==
  ASSUME Base, NEW p \in Producer, LookUp(p)
  PROVE  Base'
<1>1. Types /\ Locals /\ GuardHeld /\ LiveIsRun /\ InsidersHold
  BY DEF Base
<1>2. p \in Thread /\ ProducerOK(p)
  BY DEF Base, Locals, LocalOK, Thread, Caller
<1>3. /\ pc \in [Thread -> Label] /\ hand \in [Thread -> SUBSET Item]
      /\ queue \in [Thread -> 0..MaxWriters] /\ orphan \in [Producer -> 0..MaxWriters]
      /\ own \in [Producer -> Event \cup {None}] /\ inside \in [Stopper -> 0..MaxWriters]
      /\ claim \in [Thread -> Nat] /\ made \in Nat /\ events \in Nat
  BY TypedNumbers DEF Base, Types, PlaceTypes, FlushTypes
<1>4. live \in 1..made /\ live \in 0..MaxWriters
  <2>1. live # None /\ live \in 0..made /\ made \in 0..MaxWriters
    BY <1>1 DEF Types, QueueTypes, LookUp, Goto
  <2> QED BY <2>1, Constants DEF None
<1>5. QueueTypes'
  BY <1>1, QueuesStay DEF Types, LookUp, Goto, queues
<1>6. CountTypes'
  BY <1>1, CountsStay DEF Types, LookUp, Goto, counted
<1>7. PlaceTypes'
  BY <1>1, <1>3, <1>4 DEF Types, PlaceTypes, LookUp, Goto
<1>8. FlushTypes'
  BY <1>1, FlushesStay DEF Types, LookUp, Goto, flushes
<1>9. MarkTypes'
  BY <1>1, MarksStay DEF Types, LookUp, Goto, marks
<1>10. WaitTypes'
  BY <1>1, WaitsStay DEF Types, LookUp, Goto, waits
<1>11. HistoryTypes'
  BY <1>1, HistoriesStay DEF Types, LookUp, Goto
<1>12. pc' \in [Thread -> Label]
  BY <1>3 DEF Label, LookUp, Goto
<1>13. hand' \in [Thread -> SUBSET Item]
  BY <1>3 DEF LookUp, Goto
<1>14. CastOK'
  <2>1. \A c \in Caller : (pc[c] = "absent") <=> (pc'[c] = "absent")
    BY <1>2, <1>3, Constants DEF LookUp, Goto, Thread, Caller
  <2>2. Cast' = Cast
    BY <1>1, <1>12, <2>1, CastStays
  <2>3. events' = events
    BY DEF LookUp, Goto
  <2> QED BY <1>1, <2>2, <2>3 DEF Types, CastOK
<1>15. Types'
  BY <1>5, <1>6, <1>7, <1>8, <1>9, <1>10, <1>11, <1>12, <1>13, <1>14 DEF Types
<1>16. Only({p})
  BY <1>3 DEF Only, LookUp, Goto, queues, places, flushes
<1>17. ProducerOK(p)'
  BY <1>2, <1>3, <1>4 DEF ProducerOK, LookUp, Goto, flushes, queues
<1>18. Locals'
  BY <1>1, <1>2, <1>16, <1>17, OthersStay, LocalProducer DEF Locals
<1>19. GuardHeld'
  <2>1. UNCHANGED <<live, made, guard>>
    BY DEF LookUp, Goto, queues
  <2>2. \A o \in Producer : /\ pc'[o] \in {"start", "restart"} <=> pc[o] \in {"start", "restart"}
                            /\ guard = o => queue'[o] = queue[o]
    BY <1>1, <1>2, <1>3, Constants DEF ProducerOK, GuardHeld, LookUp, Goto, places, Thread, Caller
  <2>3. \A u \in Writer : (pc[u] = "unmade") = (pc'[u] = "unmade")
    BY <1>2, <1>3, Constants DEF ProducerOK, LookUp, Goto, Thread
  <2> QED BY <2>1, <2>2, <2>3, GuardStays
<1>20. LiveIsRun'
  <2>1. UNCHANGED <<live, guard>>
    BY DEF LookUp, Goto, queues
  <2>2. \A u \in Writer : pc[u] \in Serving => pc'[u] \in Serving
    BY <1>2, <1>3, Constants DEF Serving, LookUp, Goto, Thread
  <2> QED BY <2>1, <2>2, ServingStays
<1>21. InsidersHold'
  <2>1. UNCHANGED inside
    BY DEF LookUp, Goto, places
  <2>2. \A u \in Writer : pc'[u] = pc[u] \/ (\A o \in Stopper : inside[o] # u)
    BY <1>1, <1>2, <1>3, Constants, WritersAreNumbers DEF InsidersHold, LookUp, Goto, Thread, Busy
  <2> QED BY <2>1, <2>2, InsidersStay
<1> QED BY <1>15, <1>18, <1>19, <1>20, <1>21 DEF Base

\* A queue is made under the guard, and its number is new.
LEMMA MakeQueueBase ==
  ASSUME Base, NEW p \in Producer, MakeQueue(p)
  PROVE  Base'
<1>1. Types /\ Locals /\ GuardHeld /\ LiveIsRun /\ InsidersHold
  BY DEF Base
<1>2. p \in Thread /\ ProducerOK(p)
  BY DEF Base, Locals, LocalOK, Thread, Caller
<1>3. /\ pc \in [Thread -> Label] /\ hand \in [Thread -> SUBSET Item]
      /\ queue \in [Thread -> 0..MaxWriters] /\ orphan \in [Producer -> 0..MaxWriters]
      /\ own \in [Producer -> Event \cup {None}] /\ inside \in [Stopper -> 0..MaxWriters]
      /\ claim \in [Thread -> Nat] /\ made \in Nat /\ events \in Nat
  BY TypedNumbers DEF Base, Types, PlaceTypes, FlushTypes
<1>4. made + 1 \in 1..MaxWriters /\ made + 1 \in Writer /\ pc[made + 1] = "unmade"
  <2>1. made + 1 \in 1..MaxWriters /\ made + 1 \in Writer
    BY <1>3, Constants DEF MakeQueue, Goto, Writer
  <2>2. WriterOK(made + 1)
    BY <2>1, <1>1 DEF Locals, LocalOK, Thread
  <2> QED BY <2>1, <2>2, <1>3 DEF WriterOK
<1>5. Writer \cap Producer = {} /\ made + 1 # p /\ made' = made + 1 /\ live' = made + 1
  BY <1>2, <1>4, Constants DEF MakeQueue, Goto
<1>6. QueueTypes'
  <2>1. live' \in 0..made' /\ made' \in 0..MaxWriters
    BY <1>3, <1>4, <1>5, Constants
  <2>2. buffer' = buffer /\ guard' = p /\ stopping' = FALSE
    BY DEF MakeQueue, Goto
  <2> QED BY <1>1, <2>1, <2>2 DEF Types, QueueTypes
<1>7. CountTypes'
  BY <1>1, CountsStay DEF Types, MakeQueue, Goto, counted
<1>8. PlaceTypes'
  <2>1. made' \in 0..MaxWriters /\ queue' = [queue EXCEPT ![p] = made']
    BY <1>3, <1>4, <1>5, Constants DEF MakeQueue, Goto
  <2>2. queue' \in [Thread -> 0..MaxWriters]
    BY <2>1, <1>3
  <2> QED BY <1>1, <2>2 DEF Types, PlaceTypes, MakeQueue, Goto
<1>9. FlushTypes'
  BY <1>1, FlushesStay DEF Types, MakeQueue, Goto, flushes
<1>10. MarkTypes'
  BY <1>1, MarksStay DEF Types, MakeQueue, Goto, marks
<1>11. WaitTypes'
  BY <1>1, WaitsStay DEF Types, MakeQueue, Goto, waits
<1>12. HistoryTypes'
  BY <1>1, HistoriesStay DEF Types, MakeQueue, Goto
<1>13. pc' \in [Thread -> Label]
  BY <1>3 DEF Label, MakeQueue, Goto
<1>14. hand' \in [Thread -> SUBSET Item]
  BY <1>3 DEF MakeQueue, Goto
<1>15. CastOK'
  <2>1. \A c \in Caller : (pc[c] = "absent") <=> (pc'[c] = "absent")
    BY <1>2, <1>3, Constants DEF MakeQueue, Goto, Thread, Caller
  <2>2. Cast' = Cast
    BY <1>1, <1>13, <2>1, CastStays
  <2>3. events' = events
    BY DEF MakeQueue, Goto
  <2> QED BY <1>1, <2>2, <2>3 DEF Types, CastOK
<1>16. Types'
  BY <1>6, <1>7, <1>8, <1>9, <1>10, <1>11, <1>12, <1>13, <1>14, <1>15 DEF Types
<1>17. Only({p})
  BY <1>3 DEF Only, MakeQueue, Goto, queues, places, flushes
<1>18. ProducerOK(p)'
  BY <1>2, <1>3, <1>4 DEF ProducerOK, MakeQueue, Goto, flushes
<1>19. Locals'
  BY <1>1, <1>2, <1>17, <1>18, OthersStay, LocalProducer DEF Locals
<1>20. GuardHeld'
  <2>1. SUFFICES ASSUME NEW o \in Producer
                 PROVE  /\ pc'[o] \in {"start", "restart"} <=> guard' = o
                        /\ guard' = o => live' = queue'[o] /\ pc'[queue'[o]] = "unmade"
    BY DEF GuardHeld
  <2>2. guard = Nobody /\ guard' = p /\ o \in Thread
    BY DEF MakeQueue, Goto, Thread, Caller
  <2>3. CASE o = p
    BY <2>2, <2>3, <1>4, <1>5, <1>2, <1>3 DEF MakeQueue, Goto
  <2>4. CASE o # p
    BY <2>2, <2>4, <1>1, <1>3, Constants DEF GuardHeld, MakeQueue, Goto
  <2> QED BY <2>3, <2>4
<1>21. LiveIsRun'
  BY <1>2, Constants DEF LiveIsRun, MakeQueue, Goto
<1>22. InsidersHold'
  <2>1. UNCHANGED inside
    BY DEF MakeQueue, Goto, places
  <2>2. \A u \in Writer : pc'[u] = pc[u] \/ (\A o \in Stopper : inside[o] # u)
    BY <1>1, <1>2, <1>3, Constants, WritersAreNumbers DEF InsidersHold, MakeQueue, Goto, Thread, Busy
  <2> QED BY <2>1, <2>2, InsidersStay
<1> QED BY <1>16, <1>19, <1>20, <1>21, <1>22 DEF Base

\* A refused thread takes its queue with it, and the guard is given back.
LEMMA NoThreadBase ==
  ASSUME Base, NEW p \in Producer, NoThread(p)
  PROVE  Base'
<1>1. Types /\ Locals /\ GuardHeld /\ LiveIsRun /\ InsidersHold
  BY DEF Base
<1>2. p \in Thread /\ ProducerOK(p)
  BY DEF Base, Locals, LocalOK, Thread, Caller
<1>3. /\ pc \in [Thread -> Label] /\ hand \in [Thread -> SUBSET Item]
      /\ queue \in [Thread -> 0..MaxWriters] /\ orphan \in [Producer -> 0..MaxWriters]
      /\ own \in [Producer -> Event \cup {None}] /\ inside \in [Stopper -> 0..MaxWriters]
      /\ claim \in [Thread -> Nat] /\ made \in Nat /\ events \in Nat
  BY TypedNumbers DEF Base, Types, PlaceTypes, FlushTypes
<1>4. guard = p /\ live = queue[p] /\ pc[queue[p]] = "unmade"
  BY <1>1, <1>2 DEF GuardHeld, NoThread, Return, Goto
<1>5. QueueTypes'
  BY <1>1 DEF Types, QueueTypes, NoThread, Return, Goto, None
<1>6. CountTypes'
  <2>1. Held(p) \subseteq Event
    BY DEF Held
  <2> QED BY <2>1, <1>1 DEF Types, CountTypes, NoThread, Return, Goto
<1>7. PlaceTypes'
  BY <1>1, <1>3, Constants DEF Types, PlaceTypes, NoThread, Return, Goto, None
<1>8. FlushTypes'
  BY <1>1, FlushesStay DEF Types, NoThread, Return, Goto, flushes
<1>9. MarkTypes'
  BY <1>1, MarksStay DEF Types, NoThread, Return, Goto, marks
<1>10. WaitTypes'
  BY <1>1, WaitsStay DEF Types, NoThread, Return, Goto, waits
<1>11. HistoryTypes'
  BY <1>1, Constants DEF Types, HistoryTypes, NoThread, Return, Goto
<1>12. pc' \in [Thread -> Label]
  BY <1>3 DEF Label, NoThread, Return, Goto
<1>13. hand' \in [Thread -> SUBSET Item]
  BY <1>3 DEF NoThread, Return, Goto
<1>14. CastOK'
  <2>1. \A c \in Caller : (pc[c] = "absent") <=> (pc'[c] = "absent")
    BY <1>2, <1>3, Constants DEF NoThread, Return, Goto, Thread, Caller
  <2>2. Cast' = Cast
    BY <1>1, <1>12, <2>1, CastStays
  <2>3. events' = events
    BY DEF NoThread, Return, Goto
  <2> QED BY <1>1, <2>2, <2>3 DEF Types, CastOK
<1>15. Types'
  BY <1>5, <1>6, <1>7, <1>8, <1>9, <1>10, <1>11, <1>12, <1>13, <1>14 DEF Types
<1>16. Only({p})
  BY <1>3 DEF Only, NoThread, Return, Goto, queues, places, flushes
<1>17. ProducerOK(p)'
  BY <1>2, <1>3 DEF ProducerOK, NoThread, Return, Goto, places, flushes, queues
<1>18. Locals'
  BY <1>1, <1>2, <1>16, <1>17, OthersStay, LocalProducer DEF Locals
<1>19. GuardHeld'
  <2>1. SUFFICES ASSUME NEW o \in Producer
                 PROVE  /\ pc'[o] \in {"start", "restart"} <=> guard' = o
                        /\ guard' = o => live' = queue'[o] /\ pc'[queue'[o]] = "unmade"
    BY DEF GuardHeld
  <2>2. guard' = Nobody /\ o \in Thread /\ Nobody \notin Producer
    BY Constants DEF NoThread, Return, Goto, Thread, Caller
  <2>3. CASE o = p
    BY <2>2, <2>3, <1>2, <1>3 DEF NoThread, Return, Goto
  <2>4. CASE o # p
    BY <2>2, <2>4, <1>1, <1>4, <1>3 DEF GuardHeld, NoThread, Return, Goto
  <2> QED BY <2>3, <2>4
<1>20. LiveIsRun'
  BY DEF LiveIsRun, NoThread, Return, Goto
<1>21. InsidersHold'
  <2>1. UNCHANGED inside
    BY DEF NoThread, Return, Goto, places
  <2>2. \A u \in Writer : pc'[u] = pc[u] \/ (\A o \in Stopper : inside[o] # u)
    BY <1>1, <1>2, <1>3, Constants, WritersAreNumbers DEF InsidersHold, NoThread, Return, Goto, Thread, Busy
  <2> QED BY <2>1, <2>2, InsidersStay
<1> QED BY <1>15, <1>18, <1>19, <1>20, <1>21 DEF Base

\* The new writer starts on the queue it was made for.
LEMMA StartWriterBase ==
  ASSUME Base, NEW p \in Producer, StartWriter(p)
  PROVE  Base'
<1>1. Types /\ Locals /\ GuardHeld /\ LiveIsRun /\ InsidersHold
  BY DEF Base
<1>2. p \in Thread /\ ProducerOK(p)
  BY DEF Base, Locals, LocalOK, Thread, Caller
<1>3. /\ pc \in [Thread -> Label] /\ hand \in [Thread -> SUBSET Item]
      /\ queue \in [Thread -> 0..MaxWriters] /\ orphan \in [Producer -> 0..MaxWriters]
      /\ own \in [Producer -> Event \cup {None}] /\ inside \in [Stopper -> 0..MaxWriters]
      /\ claim \in [Thread -> Nat] /\ made \in Nat /\ events \in Nat
  BY TypedNumbers DEF Base, Types, PlaceTypes, FlushTypes
<1>4. guard = p /\ live = queue[p] /\ pc[queue[p]] = "unmade"
  BY <1>1, <1>2 DEF GuardHeld, StartWriter, Goto
<1>5. queue[p] \in Writer /\ queue[p] # p /\ queue[p] \in 1..made
  BY <1>1, <1>2, TypedNumbers, Constants DEF ProducerOK, StartWriter, Goto
<1>6. PICK w \in Writer : w = queue[p]
  BY <1>5
<1>7. QueueTypes'
  BY <1>1 DEF Types, QueueTypes, StartWriter, Goto
<1>8. CountTypes'
  BY <1>1, CountsStay DEF Types, StartWriter, Goto, counted
<1>9. PlaceTypes'
  BY <1>1, PlacesStay DEF Types, StartWriter, Goto, places
<1>10. FlushTypes'
  BY <1>1, FlushesStay DEF Types, StartWriter, Goto, flushes
<1>11. MarkTypes'
  BY <1>1, MarksStay DEF Types, StartWriter, Goto, marks
<1>12. WaitTypes'
  BY <1>1, WaitsStay DEF Types, StartWriter, Goto, waits
<1>13. HistoryTypes'
  BY <1>1, HistoriesStay DEF Types, StartWriter, Goto
<1>14. pc' \in [Thread -> Label]
  BY <1>3 DEF Label, StartWriter, Goto
<1>15. hand' \in [Thread -> SUBSET Item]
  BY <1>3 DEF StartWriter, Goto
<1>16. CastOK'
  <2>1. \A c \in Caller : (pc[c] = "absent") <=> (pc'[c] = "absent")
    <3>1. queue[p] \notin Caller
      BY <1>5, WritersAreTheirOwn
    <3> QED BY <3>1, <1>2, <1>3 DEF StartWriter, Goto, Thread
  <2>2. Cast' = Cast
    BY <1>1, <1>14, <2>1, CastStays
  <2>3. events' = events
    BY DEF StartWriter, Goto
  <2> QED BY <1>1, <2>2, <2>3 DEF Types, CastOK
<1>17. Types'
  BY <1>7, <1>8, <1>9, <1>10, <1>11, <1>12, <1>13, <1>14, <1>15, <1>16 DEF Types
<1>18. Only({p, w})
  BY <1>3, <1>6 DEF Only, StartWriter, Goto, places, flushes
<1>19. ProducerOK(p)'
  BY <1>2, <1>3, <1>5 DEF ProducerOK, StartWriter, Goto, places, flushes
<1>20. WriterOK(w)'
  <2>1. WriterOK(w)
    BY <1>1 DEF Locals, LocalOK, Thread
  <2>2. w <= made /\ w \in Thread
    BY <1>6, <1>5, <1>3 DEF Thread
  <2> QED BY <2>1, <2>2, <1>6, <1>4, <1>5, <1>3 DEF WriterOK, Held, StartWriter, Goto, places, flushes
<1>21. Locals'
  <2>1. \A u \in Thread \ {p, w} : LocalOK(u)'
    BY <1>1, <1>18, OthersStay
  <2>2. LocalOK(p)' /\ LocalOK(w)'
    BY <1>19, <1>20, LocalProducer, LocalWriter
  <2> QED BY <2>1, <2>2 DEF Locals
<1>22. GuardHeld'
  <2>1. SUFFICES ASSUME NEW o \in Producer
                 PROVE  /\ pc'[o] \in {"start", "restart"} <=> guard' = o
                        /\ guard' = o => live' = queue'[o] /\ pc'[queue'[o]] = "unmade"
    BY DEF GuardHeld
  <2>2. guard' = Nobody /\ o \in Thread /\ Nobody \notin Producer /\ o # queue[p]
    BY <1>5, Constants DEF StartWriter, Goto, Thread, Caller
  <2>3. CASE o = p
    BY <2>2, <2>3, <1>2, <1>3 DEF StartWriter, Goto
  <2>4. CASE o # p
    BY <2>2, <2>4, <1>1, <1>4, <1>3 DEF GuardHeld, StartWriter, Goto
  <2> QED BY <2>3, <2>4
<1>23. LiveIsRun'
  <2>1. pc'[queue[p]] = "take" /\ live' = queue[p]
    BY <1>5, <1>4, <1>3 DEF StartWriter, Goto, Thread
  <2> QED BY <2>1 DEF LiveIsRun, Serving
<1>24. InsidersHold'
  <2>1. UNCHANGED inside
    BY DEF StartWriter, Goto, places
  <2>2. \A u \in Writer : pc'[u] = pc[u] \/ (\A s \in Stopper : inside[s] # u)
    <3>1. \A s \in Stopper : inside[s] # w
      BY <1>1, <1>6, <1>4, WritersAreNumbers DEF InsidersHold
    <3>2. \A u \in Writer \ {w} : pc'[u] = pc[u]
      BY <1>2, <1>3, <1>6, Constants DEF StartWriter, Goto, Thread
    <3> QED BY <3>1, <3>2
  <2> QED BY <2>1, <2>2, InsidersStay
<1> QED BY <1>17, <1>21, <1>22, <1>23, <1>24 DEF Base

\* A put into a queue with room keeps its bound.
LEMMA PutEventBase ==
  ASSUME Base, NEW p \in Producer, PutEvent(p)
  PROVE  Base'
<1>1. Types /\ Locals /\ GuardHeld /\ LiveIsRun /\ InsidersHold
  BY DEF Base
<1>2. p \in Thread /\ ProducerOK(p)
  BY DEF Base, Locals, LocalOK, Thread, Caller
<1>3. /\ pc \in [Thread -> Label] /\ hand \in [Thread -> SUBSET Item]
      /\ queue \in [Thread -> 0..MaxWriters] /\ orphan \in [Producer -> 0..MaxWriters]
      /\ own \in [Producer -> Event \cup {None}] /\ inside \in [Stopper -> 0..MaxWriters]
      /\ claim \in [Thread -> Nat] /\ made \in Nat /\ events \in Nat
  BY TypedNumbers DEF Base, Types, PlaceTypes, FlushTypes
<1>4. queue[p] \in Writer /\ queue[p] # p /\ queue[p] \in 1..made
  BY <1>1, <1>2, TypedNumbers, Constants DEF ProducerOK, PutEvent, Goto
<1>5. /\ buffer' \in [Writer -> Seq(Item)]
      /\ \A r \in Writer : Len(buffer'[r]) <= BufferSize
  <2>1. own[p] \in Item
    BY <1>2, <1>3 DEF PutEvent, Goto, Item, ProducerOK
  <2> QED BY <2>1, <1>1, <1>4, PutTyped DEF PutEvent, Goto, Types
<1>6. QueueTypes'
  BY <1>1, <1>5 DEF Types, QueueTypes, PutEvent, Goto
<1>7. CountTypes'
  BY <1>1, CountsStay DEF Types, PutEvent, Goto, counted
<1>8. PlaceTypes'
  BY <1>1, PlacesStay DEF Types, PutEvent, Goto, places
<1>9. FlushTypes'
  BY <1>1, FlushesStay DEF Types, PutEvent, Goto, flushes
<1>10. MarkTypes'
  BY <1>1, MarksStay DEF Types, PutEvent, Goto, marks
<1>11. WaitTypes'
  BY <1>1, WaitsStay DEF Types, PutEvent, Goto, waits
<1>12. HistoryTypes'
  BY <1>1, HistoriesStay DEF Types, PutEvent, Goto
<1>13. pc' \in [Thread -> Label]
  BY <1>3 DEF Label, PutEvent, Goto
<1>14. hand' \in [Thread -> SUBSET Item]
  BY <1>3 DEF PutEvent, Goto
<1>15. CastOK'
  <2>1. \A c \in Caller : (pc[c] = "absent") <=> (pc'[c] = "absent")
    BY <1>2, <1>3, Constants DEF PutEvent, Goto, Thread, Caller
  <2>2. Cast' = Cast
    BY <1>1, <1>13, <2>1, CastStays
  <2>3. events' = events
    BY DEF PutEvent, Goto
  <2> QED BY <1>1, <2>2, <2>3 DEF Types, CastOK
<1>16. Types'
  BY <1>6, <1>7, <1>8, <1>9, <1>10, <1>11, <1>12, <1>13, <1>14, <1>15 DEF Types
<1>17. Only({p})
  BY <1>3 DEF Only, PutEvent, Goto, queues, places, flushes
<1>18. ProducerOK(p)'
  BY <1>2, <1>3 DEF ProducerOK, PutEvent, Goto, places, flushes, queues
<1>19. Locals'
  BY <1>1, <1>2, <1>17, <1>18, OthersStay, LocalProducer DEF Locals
<1>20. GuardHeld'
  <2>1. UNCHANGED <<live, made, guard>>
    BY DEF PutEvent, Goto, queues
  <2>2. \A o \in Producer : /\ pc'[o] \in {"start", "restart"} <=> pc[o] \in {"start", "restart"}
                            /\ guard = o => queue'[o] = queue[o]
    BY <1>1, <1>2, <1>3, Constants DEF ProducerOK, GuardHeld, PutEvent, Goto, places, Thread, Caller
  <2>3. \A u \in Writer : (pc[u] = "unmade") = (pc'[u] = "unmade")
    BY <1>2, <1>3, Constants DEF ProducerOK, PutEvent, Goto, Thread
  <2> QED BY <2>1, <2>2, <2>3, GuardStays
<1>21. LiveIsRun'
  <2>1. UNCHANGED <<live, guard>>
    BY DEF PutEvent, Goto, queues
  <2>2. \A u \in Writer : pc[u] \in Serving => pc'[u] \in Serving
    BY <1>2, <1>3, Constants DEF Serving, PutEvent, Goto, Thread
  <2> QED BY <2>1, <2>2, ServingStays
<1>22. InsidersHold'
  <2>1. UNCHANGED inside
    BY DEF PutEvent, Goto, places
  <2>2. \A u \in Writer : pc'[u] = pc[u] \/ (\A o \in Stopper : inside[o] # u)
    BY <1>1, <1>2, <1>3, Constants, WritersAreNumbers DEF InsidersHold, PutEvent, Goto, Thread, Busy
  <2> QED BY <2>1, <2>2, InsidersStay
<1> QED BY <1>16, <1>19, <1>20, <1>21, <1>22 DEF Base

\* A full queue costs the event and nothing else.
LEMMA QueueFullBase ==
  ASSUME Base, NEW p \in Producer, QueueFull(p)
  PROVE  Base'
<1>1. Types /\ Locals /\ GuardHeld /\ LiveIsRun /\ InsidersHold
  BY DEF Base
<1>2. p \in Thread /\ ProducerOK(p)
  BY DEF Base, Locals, LocalOK, Thread, Caller
<1>3. /\ pc \in [Thread -> Label] /\ hand \in [Thread -> SUBSET Item]
      /\ queue \in [Thread -> 0..MaxWriters] /\ orphan \in [Producer -> 0..MaxWriters]
      /\ own \in [Producer -> Event \cup {None}] /\ inside \in [Stopper -> 0..MaxWriters]
      /\ claim \in [Thread -> Nat] /\ made \in Nat /\ events \in Nat
  BY TypedNumbers DEF Base, Types, PlaceTypes, FlushTypes
<1>4. QueueTypes'
  BY <1>1, QueuesStay DEF Types, QueueFull, Return, Goto, queues
<1>5. CountTypes'
  <2>1. Held(p) \in SUBSET Event
    BY DEF Held
  <2> QED BY <2>1, <1>1, CountTyped DEF QueueFull, Return, Goto
<1>6. PlaceTypes'
  BY <1>1, <1>3, Constants DEF Types, PlaceTypes, QueueFull, Return, Goto, None
<1>7. FlushTypes'
  BY <1>1, FlushesStay DEF Types, QueueFull, Return, Goto, flushes
<1>8. MarkTypes'
  BY <1>1, MarksStay DEF Types, QueueFull, Return, Goto, marks
<1>9. WaitTypes'
  BY <1>1, WaitsStay DEF Types, QueueFull, Return, Goto, waits
<1>10. HistoryTypes'
  BY <1>1, HistoriesStay DEF Types, QueueFull, Return, Goto
<1>11. pc' \in [Thread -> Label]
  BY <1>3 DEF Label, QueueFull, Return, Goto
<1>12. hand' \in [Thread -> SUBSET Item]
  BY <1>3 DEF QueueFull, Return, Goto
<1>13. CastOK'
  <2>1. \A c \in Caller : (pc[c] = "absent") <=> (pc'[c] = "absent")
    BY <1>2, <1>3, Constants DEF QueueFull, Return, Goto, Thread, Caller
  <2>2. Cast' = Cast
    BY <1>1, <1>11, <2>1, CastStays
  <2>3. events' = events
    BY DEF QueueFull, Return, Goto
  <2> QED BY <1>1, <2>2, <2>3 DEF Types, CastOK
<1>14. Types'
  BY <1>4, <1>5, <1>6, <1>7, <1>8, <1>9, <1>10, <1>11, <1>12, <1>13 DEF Types
<1>15. Only({p})
  BY <1>3 DEF Only, QueueFull, Return, Goto, queues, places, flushes
<1>16. ProducerOK(p)'
  BY <1>2, <1>3 DEF ProducerOK, QueueFull, Return, Goto, places, flushes, queues
<1>17. Locals'
  BY <1>1, <1>2, <1>15, <1>16, OthersStay, LocalProducer DEF Locals
<1>18. GuardHeld'
  <2>1. UNCHANGED <<live, made, guard>>
    BY DEF QueueFull, Return, Goto, queues
  <2>2. \A o \in Producer : /\ pc'[o] \in {"start", "restart"} <=> pc[o] \in {"start", "restart"}
                            /\ guard = o => queue'[o] = queue[o]
    BY <1>1, <1>2, <1>3, Constants DEF ProducerOK, GuardHeld, QueueFull, Return, Goto, places, Thread, Caller
  <2>3. \A u \in Writer : (pc[u] = "unmade") = (pc'[u] = "unmade")
    BY <1>2, <1>3, Constants DEF ProducerOK, QueueFull, Return, Goto, Thread
  <2> QED BY <2>1, <2>2, <2>3, GuardStays
<1>19. LiveIsRun'
  <2>1. UNCHANGED <<live, guard>>
    BY DEF QueueFull, Return, Goto, queues
  <2>2. \A u \in Writer : pc[u] \in Serving => pc'[u] \in Serving
    BY <1>2, <1>3, Constants DEF Serving, QueueFull, Return, Goto, Thread
  <2> QED BY <2>1, <2>2, ServingStays
<1>20. InsidersHold'
  <2>1. UNCHANGED inside
    BY DEF QueueFull, Return, Goto, places
  <2>2. \A u \in Writer : pc'[u] = pc[u] \/ (\A o \in Stopper : inside[o] # u)
    BY <1>1, <1>2, <1>3, Constants, WritersAreNumbers DEF InsidersHold, QueueFull, Return, Goto, Thread, Busy
  <2> QED BY <2>1, <2>2, InsidersStay
<1> QED BY <1>14, <1>17, <1>18, <1>19, <1>20 DEF Base

\* After its put a producer is done, or goes for the queue it lost.
LEMMA CheckQueueBase ==
  ASSUME Base, NEW p \in Producer, CheckQueue(p)
  PROVE  Base'
<1>1. Types /\ Locals /\ GuardHeld /\ LiveIsRun /\ InsidersHold
  BY DEF Base
<1>2. p \in Thread /\ ProducerOK(p)
  BY DEF Base, Locals, LocalOK, Thread, Caller
<1>3. /\ pc \in [Thread -> Label] /\ hand \in [Thread -> SUBSET Item]
      /\ queue \in [Thread -> 0..MaxWriters] /\ orphan \in [Producer -> 0..MaxWriters]
      /\ own \in [Producer -> Event \cup {None}] /\ inside \in [Stopper -> 0..MaxWriters]
      /\ claim \in [Thread -> Nat] /\ made \in Nat /\ events \in Nat
  BY TypedNumbers DEF Base, Types, PlaceTypes, FlushTypes
<1>4. QueueTypes'
  BY <1>1, QueuesStay DEF Types, CheckQueue, Return, Goto, queues
<1>5. CountTypes'
  BY <1>1, CountsStay DEF Types, CheckQueue, Return, Goto, counted
<1>6. PlaceTypes'
  BY <1>1, <1>3, Constants DEF Types, PlaceTypes, CheckQueue, Return, Goto, None
<1>7. FlushTypes'
  BY <1>1, FlushesStay DEF Types, CheckQueue, Return, Goto, flushes
<1>8. MarkTypes'
  BY <1>1, MarksStay DEF Types, CheckQueue, Return, Goto, marks
<1>9. WaitTypes'
  BY <1>1, WaitsStay DEF Types, CheckQueue, Return, Goto, waits
<1>10. HistoryTypes'
  BY <1>1, HistoriesStay DEF Types, CheckQueue, Return, Goto
<1>11. pc' \in [Thread -> Label]
  BY <1>3 DEF Label, CheckQueue, Return, Goto
<1>12. hand' \in [Thread -> SUBSET Item]
  BY <1>3 DEF CheckQueue, Return, Goto
<1>13. CastOK'
  <2>1. \A c \in Caller : (pc[c] = "absent") <=> (pc'[c] = "absent")
    BY <1>2, <1>3, Constants DEF CheckQueue, Return, Goto, Thread, Caller
  <2>2. Cast' = Cast
    BY <1>1, <1>11, <2>1, CastStays
  <2>3. events' = events
    BY DEF CheckQueue, Return, Goto
  <2> QED BY <1>1, <2>2, <2>3 DEF Types, CastOK
<1>14. Types'
  BY <1>4, <1>5, <1>6, <1>7, <1>8, <1>9, <1>10, <1>11, <1>12, <1>13 DEF Types
<1>15. Only({p})
  BY <1>3 DEF Only, CheckQueue, Return, Goto, queues, places, flushes
<1>16. ProducerOK(p)'
  BY <1>2, <1>3 DEF ProducerOK, CheckQueue, Return, Goto, places, flushes, queues
<1>17. Locals'
  BY <1>1, <1>2, <1>15, <1>16, OthersStay, LocalProducer DEF Locals
<1>18. GuardHeld'
  <2>1. UNCHANGED <<live, made, guard>>
    BY DEF CheckQueue, Return, Goto, queues
  <2>2. \A o \in Producer : /\ pc'[o] \in {"start", "restart"} <=> pc[o] \in {"start", "restart"}
                            /\ guard = o => queue'[o] = queue[o]
    BY <1>1, <1>2, <1>3, Constants DEF ProducerOK, GuardHeld, CheckQueue, Return, Goto, places, Thread, Caller
  <2>3. \A u \in Writer : (pc[u] = "unmade") = (pc'[u] = "unmade")
    BY <1>2, <1>3, Constants DEF ProducerOK, CheckQueue, Return, Goto, Thread
  <2> QED BY <2>1, <2>2, <2>3, GuardStays
<1>19. LiveIsRun'
  <2>1. UNCHANGED <<live, guard>>
    BY DEF CheckQueue, Return, Goto, queues
  <2>2. \A u \in Writer : pc[u] \in Serving => pc'[u] \in Serving
    BY <1>2, <1>3, Constants DEF Serving, CheckQueue, Return, Goto, Thread
  <2> QED BY <2>1, <2>2, ServingStays
<1>20. InsidersHold'
  <2>1. UNCHANGED inside
    BY DEF CheckQueue, Return, Goto, places
  <2>2. \A u \in Writer : pc'[u] = pc[u] \/ (\A o \in Stopper : inside[o] # u)
    BY <1>1, <1>2, <1>3, Constants, WritersAreNumbers DEF InsidersHold, CheckQueue, Return, Goto, Thread, Busy
  <2> QED BY <2>1, <2>2, InsidersStay
<1> QED BY <1>14, <1>17, <1>18, <1>19, <1>20 DEF Base

\* A rescuer takes one item off the detached queue, or finds it empty.
LEMMA TakeOrphanBase ==
  ASSUME Base, NEW p \in Producer, TakeOrphan(p)
  PROVE  Base'
<1>1. Types /\ Locals /\ GuardHeld /\ LiveIsRun /\ InsidersHold
  BY DEF Base
<1>2. p \in Thread /\ ProducerOK(p)
  BY DEF Base, Locals, LocalOK, Thread, Caller
<1>3. /\ pc \in [Thread -> Label] /\ hand \in [Thread -> SUBSET Item]
      /\ queue \in [Thread -> 0..MaxWriters] /\ orphan \in [Producer -> 0..MaxWriters]
      /\ own \in [Producer -> Event \cup {None}] /\ inside \in [Stopper -> 0..MaxWriters]
      /\ claim \in [Thread -> Nat] /\ made \in Nat /\ events \in Nat
  BY TypedNumbers DEF Base, Types, PlaceTypes, FlushTypes
<1>4. orphan[p] \in Writer /\ orphan[p] \in 1..made
  BY <1>1, <1>2, TypedNumbers, Constants DEF ProducerOK, TakeOrphan, Return, Goto
<1>5. /\ buffer' \in [Writer -> Seq(Item)]
      /\ \A r \in Writer : Len(buffer'[r]) <= BufferSize
      /\ buffer[orphan[p]] # <<>> => Head(buffer[orphan[p]]) \in Item
  <2>1. CASE buffer[orphan[p]] = <<>>
    BY <2>1, <1>1 DEF TakeOrphan, Return, Goto, Types, QueueTypes
  <2>2. CASE buffer[orphan[p]] # <<>>
    BY <2>2, <1>1, <1>4, TailTyped DEF TakeOrphan, Return, Goto, Types
  <2> QED BY <2>1, <2>2
<1>6. QueueTypes'
  BY <1>1, <1>5 DEF Types, QueueTypes, TakeOrphan, Return, Goto
<1>7. CountTypes'
  BY <1>1, CountsStay DEF Types, TakeOrphan, Return, Goto, counted
<1>8. PlaceTypes'
  <2>1. CASE buffer[orphan[p]] = <<>>
    <3>1. Return(p) /\ UNCHANGED inside
      BY <2>1 DEF TakeOrphan
    <3> QED BY <3>1, <1>1, <1>3, Constants DEF Types, PlaceTypes, Return, None
  <2>2. CASE buffer[orphan[p]] # <<>>
    BY <2>2, <1>1, <1>3 DEF Types, PlaceTypes, TakeOrphan, Return, Goto
  <2> QED BY <2>1, <2>2
<1>9. FlushTypes'
  BY <1>1, FlushesStay DEF Types, TakeOrphan, Return, Goto, flushes
<1>10. MarkTypes'
  BY <1>1, MarksStay DEF Types, TakeOrphan, Return, Goto, marks
<1>11. WaitTypes'
  BY <1>1, WaitsStay DEF Types, TakeOrphan, Return, Goto, waits
<1>12. HistoryTypes'
  BY <1>1, HistoriesStay DEF Types, TakeOrphan, Return, Goto
<1>13. pc' \in [Thread -> Label]
  BY <1>3 DEF Label, TakeOrphan, Return, Goto
<1>14. hand' \in [Thread -> SUBSET Item]
  <2>1. CASE buffer[orphan[p]] = <<>>
    BY <2>1, <1>3 DEF TakeOrphan, Return, Goto
  <2>2. CASE buffer[orphan[p]] # <<>>
    <3>1. Head(buffer[orphan[p]]) \in Item /\ hand' = [hand EXCEPT ![p] = {Head(buffer[orphan[p]])}]
      BY <2>2, <1>5 DEF TakeOrphan, Return, Goto
    <3> QED BY <3>1, <1>3
  <2> QED BY <2>1, <2>2
<1>15. CastOK'
  <2>1. \A c \in Caller : (pc[c] = "absent") <=> (pc'[c] = "absent")
    BY <1>2, <1>3, Constants DEF TakeOrphan, Return, Goto, Thread, Caller
  <2>2. Cast' = Cast
    BY <1>1, <1>13, <2>1, CastStays
  <2>3. events' = events
    BY DEF TakeOrphan, Return, Goto
  <2> QED BY <1>1, <2>2, <2>3 DEF Types, CastOK
<1>16. Types'
  BY <1>6, <1>7, <1>8, <1>9, <1>10, <1>11, <1>12, <1>13, <1>14, <1>15 DEF Types
<1>17. Only({p})
  BY <1>3 DEF Only, TakeOrphan, Return, Goto, queues, places, flushes
<1>18. ProducerOK(p)'
  BY <1>2, <1>3, <1>5 DEF ProducerOK, TakeOrphan, Return, Goto, flushes
<1>19. Locals'
  BY <1>1, <1>2, <1>17, <1>18, OthersStay, LocalProducer DEF Locals
<1>20. GuardHeld'
  <2>1. UNCHANGED <<live, made, guard>>
    BY DEF TakeOrphan, Return, Goto, queues
  <2>2. \A o \in Producer : /\ pc'[o] \in {"start", "restart"} <=> pc[o] \in {"start", "restart"}
                            /\ guard = o => queue'[o] = queue[o]
    BY <1>1, <1>2, <1>3, Constants DEF ProducerOK, GuardHeld, TakeOrphan, Return, Goto, places, Thread, Caller
  <2>3. \A u \in Writer : (pc[u] = "unmade") = (pc'[u] = "unmade")
    BY <1>2, <1>3, Constants DEF ProducerOK, TakeOrphan, Return, Goto, Thread
  <2> QED BY <2>1, <2>2, <2>3, GuardStays
<1>21. LiveIsRun'
  <2>1. UNCHANGED <<live, guard>>
    BY DEF TakeOrphan, Return, Goto, queues
  <2>2. \A u \in Writer : pc[u] \in Serving => pc'[u] \in Serving
    BY <1>2, <1>3, Constants DEF Serving, TakeOrphan, Return, Goto, Thread
  <2> QED BY <2>1, <2>2, ServingStays
<1>22. InsidersHold'
  <2>1. UNCHANGED inside
    BY DEF TakeOrphan, Return, Goto, places
  <2>2. \A u \in Writer : pc'[u] = pc[u] \/ (\A o \in Stopper : inside[o] # u)
    BY <1>1, <1>2, <1>3, Constants, WritersAreNumbers DEF InsidersHold, TakeOrphan, Return, Goto, Thread, Busy
  <2> QED BY <2>1, <2>2, InsidersStay
<1> QED BY <1>16, <1>19, <1>20, <1>21, <1>22 DEF Base

\* The rescued event is put again, or counted where the queue is full.
LEMMA PutRehomedBase ==
  ASSUME Base, NEW p \in Producer, PutRehomed(p)
  PROVE  Base'
<1>1. Types /\ Locals /\ GuardHeld /\ LiveIsRun /\ InsidersHold
  BY DEF Base
<1>2. p \in Thread /\ ProducerOK(p)
  BY DEF Base, Locals, LocalOK, Thread, Caller
<1>3. /\ pc \in [Thread -> Label] /\ hand \in [Thread -> SUBSET Item]
      /\ queue \in [Thread -> 0..MaxWriters] /\ orphan \in [Producer -> 0..MaxWriters]
      /\ own \in [Producer -> Event \cup {None}] /\ inside \in [Stopper -> 0..MaxWriters]
      /\ claim \in [Thread -> Nat] /\ made \in Nat /\ events \in Nat
  BY TypedNumbers DEF Base, Types, PlaceTypes, FlushTypes
<1>4. queue[p] \in Writer /\ queue[p] # p /\ queue[p] \in 1..made
  BY <1>1, <1>2, TypedNumbers, Constants DEF ProducerOK, PutRehomed, Goto
<1>5. PICK item \in hand[p] : IF Full(queue[p]) THEN Count(Held(p)) /\ Release(hand[p]) /\ UNCHANGED <<buffer, rehomed>> ELSE /\ Put(queue[p], item) /\ rehomed' = rehomed \cup Held(p) /\ UNCHANGED <<counted, waits>>
  BY DEF PutRehomed, Goto
<1>6. Held(p) \in SUBSET Event
  BY DEF Held
<1>7. /\ buffer' \in [Writer -> Seq(Item)]
      /\ \A r \in Writer : Len(buffer'[r]) <= BufferSize
  <2>1. CASE Full(queue[p])
    BY <2>1, <1>1, <1>5 DEF Types, QueueTypes
  <2>2. CASE ~Full(queue[p])
    <3>1. item \in Item
      BY <1>2, <1>3
    <3> QED BY <2>2, <3>1, <1>1, <1>4, <1>5, PutTyped DEF Types
  <2> QED BY <2>1, <2>2
<1>8. QueueTypes'
  BY <1>1, <1>7 DEF Types, QueueTypes, PutRehomed, Goto
<1>9. CountTypes'
  BY <1>1, <1>5, <1>6, CountTyped, CountsStay DEF Types
<1>10. PlaceTypes'
  BY <1>1, PlacesStay DEF Types, PutRehomed, Goto, places
<1>11. FlushTypes'
  BY <1>1, FlushesStay DEF Types, PutRehomed, Goto, flushes
<1>12. MarkTypes'
  BY <1>1, MarksStay DEF Types, PutRehomed, Goto, marks
<1>13. WaitTypes'
  BY <1>1, <1>5, WaitsStay, ReleaseTyped DEF Types
<1>14. HistoryTypes'
  BY <1>1, <1>6 DEF Types, HistoryTypes, PutRehomed, Goto
<1>15. pc' \in [Thread -> Label]
  BY <1>3 DEF Label, PutRehomed, Goto
<1>16. hand' \in [Thread -> SUBSET Item]
  BY <1>3 DEF PutRehomed, Goto
<1>17. CastOK'
  <2>1. \A c \in Caller : (pc[c] = "absent") <=> (pc'[c] = "absent")
    BY <1>2, <1>3, Constants DEF PutRehomed, Goto, Thread, Caller
  <2>2. Cast' = Cast
    BY <1>1, <1>15, <2>1, CastStays
  <2>3. events' = events
    BY DEF PutRehomed, Goto
  <2> QED BY <1>1, <2>2, <2>3 DEF Types, CastOK
<1>18. Types'
  BY <1>8, <1>9, <1>10, <1>11, <1>12, <1>13, <1>14, <1>15, <1>16, <1>17 DEF Types
<1>19. Only({p})
  BY <1>3 DEF Only, PutRehomed, Goto, queues, places, flushes
<1>20. ProducerOK(p)'
  BY <1>2, <1>3 DEF ProducerOK, PutRehomed, Goto, places, flushes, queues
<1>21. Locals'
  BY <1>1, <1>2, <1>19, <1>20, OthersStay, LocalProducer DEF Locals
<1>22. GuardHeld'
  <2>1. UNCHANGED <<live, made, guard>>
    BY DEF PutRehomed, Goto, queues
  <2>2. \A o \in Producer : /\ pc'[o] \in {"start", "restart"} <=> pc[o] \in {"start", "restart"}
                            /\ guard = o => queue'[o] = queue[o]
    BY <1>1, <1>2, <1>3, Constants DEF ProducerOK, GuardHeld, PutRehomed, Goto, places, Thread, Caller
  <2>3. \A u \in Writer : (pc[u] = "unmade") = (pc'[u] = "unmade")
    BY <1>2, <1>3, Constants DEF ProducerOK, PutRehomed, Goto, Thread
  <2> QED BY <2>1, <2>2, <2>3, GuardStays
<1>23. LiveIsRun'
  <2>1. UNCHANGED <<live, guard>>
    BY DEF PutRehomed, Goto, queues
  <2>2. \A u \in Writer : pc[u] \in Serving => pc'[u] \in Serving
    BY <1>2, <1>3, Constants DEF Serving, PutRehomed, Goto, Thread
  <2> QED BY <2>1, <2>2, ServingStays
<1>24. InsidersHold'
  <2>1. UNCHANGED inside
    BY DEF PutRehomed, Goto, places
  <2>2. \A u \in Writer : pc'[u] = pc[u] \/ (\A o \in Stopper : inside[o] # u)
    BY <1>1, <1>2, <1>3, Constants, WritersAreNumbers DEF InsidersHold, PutRehomed, Goto, Thread, Busy
  <2> QED BY <2>1, <2>2, InsidersStay
<1> QED BY <1>18, <1>21, <1>22, <1>23, <1>24 DEF Base

\* A writer takes the head of its own queue into its batch.
LEMMA TakeBase ==
  ASSUME Base, NEW w \in Writer, Take(w)
  PROVE  Base'
<1>1. Types /\ Locals /\ GuardHeld /\ LiveIsRun /\ InsidersHold
  BY DEF Base
<1>2. w \in Thread /\ WriterOK(w)
  BY DEF Base, Locals, LocalOK, Thread, Caller
<1>3. /\ pc \in [Thread -> Label] /\ hand \in [Thread -> SUBSET Item]
      /\ queue \in [Thread -> 0..MaxWriters] /\ orphan \in [Producer -> 0..MaxWriters]
      /\ own \in [Producer -> Event \cup {None}] /\ inside \in [Stopper -> 0..MaxWriters]
      /\ claim \in [Thread -> Nat] /\ made \in Nat /\ events \in Nat
  BY TypedNumbers DEF Base, Types, PlaceTypes, FlushTypes
<1>4. /\ buffer' \in [Writer -> Seq(Item)] /\ Head(buffer[w]) \in Item
      /\ \A r \in Writer : Len(buffer'[r]) <= BufferSize
  BY <1>1, TailTyped DEF Take, Goto, Types
<1>5. QueueTypes'
  BY <1>1, <1>4 DEF Types, QueueTypes, Take, Goto
<1>6. CountTypes'
  BY <1>1, CountsStay DEF Types, Take, Goto, counted
<1>7. PlaceTypes'
  BY <1>1, PlacesStay DEF Types, Take, Goto, places
<1>8. FlushTypes'
  BY <1>1, FlushesStay DEF Types, Take, Goto, flushes
<1>9. MarkTypes'
  BY <1>1, MarksStay DEF Types, Take, Goto, marks
<1>10. WaitTypes'
  BY <1>1, WaitsStay DEF Types, Take, Goto, waits
<1>11. HistoryTypes'
  BY <1>1, HistoriesStay DEF Types, Take, Goto
<1>12. pc' \in [Thread -> Label]
  BY <1>3 DEF Label, Take, Goto
<1>13. hand' \in [Thread -> SUBSET Item]
  BY <1>3, <1>4 DEF Take, Goto
<1>14. CastOK'
  <2>1. \A c \in Caller : (pc[c] = "absent") <=> (pc'[c] = "absent")
    BY <1>2, <1>3, Constants DEF Take, Goto, Thread, Caller
  <2>2. Cast' = Cast
    BY <1>1, <1>12, <2>1, CastStays
  <2>3. events' = events
    BY DEF Take, Goto
  <2> QED BY <1>1, <2>2, <2>3 DEF Types, CastOK
<1>15. Types'
  BY <1>5, <1>6, <1>7, <1>8, <1>9, <1>10, <1>11, <1>12, <1>13, <1>14 DEF Types
<1>16. Only({w})
  BY <1>3 DEF Only, Take, Goto, queues, places, flushes
<1>17. WriterOK(w)'
  BY <1>2, <1>3 DEF WriterOK, Take, Goto, places, flushes, queues
<1>18. Locals'
  BY <1>1, <1>2, <1>16, <1>17, OthersStay, LocalWriter DEF Locals
<1>19. GuardHeld'
  <2>1. UNCHANGED <<live, made, guard>>
    BY DEF Take, Goto, queues
  <2>2. \A o \in Producer : /\ pc'[o] \in {"start", "restart"} <=> pc[o] \in {"start", "restart"}
                            /\ guard = o => queue'[o] = queue[o]
    BY <1>1, <1>2, <1>3, Constants DEF WriterOK, GuardHeld, Take, Goto, places, Thread, Caller
  <2>3. \A u \in Writer : (pc[u] = "unmade") = (pc'[u] = "unmade")
    BY <1>2, <1>3, Constants DEF WriterOK, Take, Goto, Thread
  <2> QED BY <2>1, <2>2, <2>3, GuardStays
<1>20. LiveIsRun'
  <2>1. UNCHANGED <<live, guard>>
    BY DEF Take, Goto, queues
  <2>2. \A u \in Writer : pc[u] \in Serving => pc'[u] \in Serving
    BY <1>2, <1>3, Constants DEF Serving, Take, Goto, Thread
  <2> QED BY <2>1, <2>2, ServingStays
<1>21. InsidersHold'
  <2>1. UNCHANGED inside /\ pc[w] = "take"
    BY DEF Take, Goto, places
  <2>2. \A s \in Stopper : inside[s] # w
    BY <2>1, <1>1, WritersAreNumbers DEF InsidersHold
  <2>3. \A u \in Writer \ {w} : pc'[u] = pc[u]
    BY <1>2, <1>3 DEF Take, Goto, Thread
  <2> QED BY <2>1, <2>2, <2>3, InsidersStay
<1> QED BY <1>15, <1>18, <1>19, <1>20, <1>21 DEF Base

\* A batch is closed by its deadline.
LEMMA CollectedBase ==
  ASSUME Base, NEW w \in Writer, Collected(w)
  PROVE  Base'
<1>1. Types /\ Locals /\ GuardHeld /\ LiveIsRun /\ InsidersHold
  BY DEF Base
<1>2. w \in Thread /\ WriterOK(w)
  BY DEF Base, Locals, LocalOK, Thread, Caller
<1>3. /\ pc \in [Thread -> Label] /\ hand \in [Thread -> SUBSET Item]
      /\ queue \in [Thread -> 0..MaxWriters] /\ orphan \in [Producer -> 0..MaxWriters]
      /\ own \in [Producer -> Event \cup {None}] /\ inside \in [Stopper -> 0..MaxWriters]
      /\ claim \in [Thread -> Nat] /\ made \in Nat /\ events \in Nat
  BY TypedNumbers DEF Base, Types, PlaceTypes, FlushTypes
<1>4. QueueTypes'
  BY <1>1, QueuesStay DEF Types, Collected, Goto, queues
<1>5. CountTypes'
  BY <1>1, CountsStay DEF Types, Collected, Goto, counted
<1>6. PlaceTypes'
  BY <1>1, PlacesStay DEF Types, Collected, Goto, places
<1>7. FlushTypes'
  BY <1>1, FlushesStay DEF Types, Collected, Goto, flushes
<1>8. MarkTypes'
  BY <1>1, MarksStay DEF Types, Collected, Goto, marks
<1>9. WaitTypes'
  BY <1>1, WaitsStay DEF Types, Collected, Goto, waits
<1>10. HistoryTypes'
  BY <1>1, HistoriesStay DEF Types, Collected, Goto
<1>11. pc' \in [Thread -> Label]
  BY <1>3 DEF Label, Collected, Goto
<1>12. hand' \in [Thread -> SUBSET Item]
  BY <1>3 DEF Collected, Goto
<1>13. CastOK'
  <2>1. \A c \in Caller : (pc[c] = "absent") <=> (pc'[c] = "absent")
    BY <1>2, <1>3, Constants DEF Collected, Goto, Thread, Caller
  <2>2. Cast' = Cast
    BY <1>1, <1>11, <2>1, CastStays
  <2>3. events' = events
    BY DEF Collected, Goto
  <2> QED BY <1>1, <2>2, <2>3 DEF Types, CastOK
<1>14. Types'
  BY <1>4, <1>5, <1>6, <1>7, <1>8, <1>9, <1>10, <1>11, <1>12, <1>13 DEF Types
<1>15. Only({w})
  BY <1>3 DEF Only, Collected, Goto, queues, places, flushes
<1>16. WriterOK(w)'
  BY <1>2, <1>3 DEF WriterOK, Collected, Goto, places, flushes, queues
<1>17. Locals'
  BY <1>1, <1>2, <1>15, <1>16, OthersStay, LocalWriter DEF Locals
<1>18. GuardHeld'
  <2>1. UNCHANGED <<live, made, guard>>
    BY DEF Collected, Goto, queues
  <2>2. \A o \in Producer : /\ pc'[o] \in {"start", "restart"} <=> pc[o] \in {"start", "restart"}
                            /\ guard = o => queue'[o] = queue[o]
    BY <1>1, <1>2, <1>3, Constants DEF WriterOK, GuardHeld, Collected, Goto, places, Thread, Caller
  <2>3. \A u \in Writer : (pc[u] = "unmade") = (pc'[u] = "unmade")
    BY <1>2, <1>3, Constants DEF WriterOK, Collected, Goto, Thread
  <2> QED BY <2>1, <2>2, <2>3, GuardStays
<1>19. LiveIsRun'
  <2>1. UNCHANGED <<live, guard>>
    BY DEF Collected, Goto, queues
  <2>2. \A u \in Writer : pc[u] \in Serving => pc'[u] \in Serving
    BY <1>2, <1>3, Constants DEF Serving, Collected, Goto, Thread
  <2> QED BY <2>1, <2>2, ServingStays
<1>20. InsidersHold'
  <2>1. UNCHANGED inside
    BY DEF Collected, Goto, places
  <2>2. \A u \in Writer : pc'[u] = pc[u] \/ (\A o \in Stopper : inside[o] # u)
    BY <1>1, <1>2, <1>3, Constants, WritersAreNumbers DEF InsidersHold, Collected, Goto, Thread, Busy
  <2> QED BY <2>1, <2>2, InsidersStay
<1> QED BY <1>14, <1>17, <1>18, <1>19, <1>20 DEF Base

\* A suspended writer counts its batch and writes nothing.
LEMMA DiscardBase ==
  ASSUME Base, NEW w \in Writer, Discard(w)
  PROVE  Base'
<1>1. Types /\ Locals /\ GuardHeld /\ LiveIsRun /\ InsidersHold
  BY DEF Base
<1>2. w \in Thread /\ WriterOK(w)
  BY DEF Base, Locals, LocalOK, Thread, Caller
<1>3. /\ pc \in [Thread -> Label] /\ hand \in [Thread -> SUBSET Item]
      /\ queue \in [Thread -> 0..MaxWriters] /\ orphan \in [Producer -> 0..MaxWriters]
      /\ own \in [Producer -> Event \cup {None}] /\ inside \in [Stopper -> 0..MaxWriters]
      /\ claim \in [Thread -> Nat] /\ made \in Nat /\ events \in Nat
  BY TypedNumbers DEF Base, Types, PlaceTypes, FlushTypes
<1>4. Held(w) \in SUBSET Event
  BY DEF Held
<1>5. QueueTypes'
  BY <1>1, QueuesStay DEF Types, Discard, Goto, queues
<1>6. CountTypes'
  BY <1>1, <1>4, CountTyped DEF Discard, Goto
<1>7. PlaceTypes'
  BY <1>1, PlacesStay DEF Types, Discard, Goto, places
<1>8. FlushTypes'
  BY <1>1, FlushesStay DEF Types, Discard, Goto, flushes
<1>9. MarkTypes'
  BY <1>1, MarksStay DEF Types, Discard, Goto, marks
<1>10. WaitTypes'
  BY <1>1, WaitsStay DEF Types, Discard, Goto, waits
<1>11. HistoryTypes'
  BY <1>1, HistoriesStay DEF Types, Discard, Goto
<1>12. pc' \in [Thread -> Label]
  BY <1>3 DEF Label, Discard, Goto
<1>13. hand' \in [Thread -> SUBSET Item]
  BY <1>3 DEF Discard, Goto
<1>14. CastOK'
  <2>1. \A c \in Caller : (pc[c] = "absent") <=> (pc'[c] = "absent")
    BY <1>2, <1>3, Constants DEF Discard, Goto, Thread, Caller
  <2>2. Cast' = Cast
    BY <1>1, <1>12, <2>1, CastStays
  <2>3. events' = events
    BY DEF Discard, Goto
  <2> QED BY <1>1, <2>2, <2>3 DEF Types, CastOK
<1>15. Types'
  BY <1>5, <1>6, <1>7, <1>8, <1>9, <1>10, <1>11, <1>12, <1>13, <1>14 DEF Types
<1>16. Only({w})
  BY <1>3 DEF Only, Discard, Goto, queues, places, flushes
<1>17. WriterOK(w)'
  BY <1>2, <1>3 DEF WriterOK, Held, Discard, Goto, places, flushes, queues
<1>18. Locals'
  BY <1>1, <1>2, <1>16, <1>17, OthersStay, LocalWriter DEF Locals
<1>19. GuardHeld'
  <2>1. UNCHANGED <<live, made, guard>>
    BY DEF Discard, Goto, queues
  <2>2. \A o \in Producer : /\ pc'[o] \in {"start", "restart"} <=> pc[o] \in {"start", "restart"}
                            /\ guard = o => queue'[o] = queue[o]
    BY <1>1, <1>2, <1>3, Constants DEF WriterOK, GuardHeld, Discard, Goto, places, Thread, Caller
  <2>3. \A u \in Writer : (pc[u] = "unmade") = (pc'[u] = "unmade")
    BY <1>2, <1>3, Constants DEF WriterOK, Discard, Goto, Thread
  <2> QED BY <2>1, <2>2, <2>3, GuardStays
<1>20. LiveIsRun'
  <2>1. UNCHANGED <<live, guard>>
    BY DEF Discard, Goto, queues
  <2>2. \A u \in Writer : pc[u] \in Serving => pc'[u] \in Serving
    BY <1>2, <1>3, Constants DEF Serving, Discard, Goto, Thread
  <2> QED BY <2>1, <2>2, ServingStays
<1>21. InsidersHold'
  <2>1. UNCHANGED inside
    BY DEF Discard, Goto, places
  <2>2. \A u \in Writer : pc'[u] = pc[u] \/ (\A o \in Stopper : inside[o] # u)
    BY <1>1, <1>2, <1>3, Constants, WritersAreNumbers DEF InsidersHold, Discard, Goto, Thread, Busy
  <2> QED BY <2>1, <2>2, InsidersStay
<1> QED BY <1>15, <1>18, <1>19, <1>20, <1>21 DEF Base

\* A writer turns to its queue again, or leaves when asked to.
LEMMA KeepGoingBase ==
  ASSUME Base, NEW w \in Writer, KeepGoing(w)
  PROVE  Base'
<1>1. Types /\ Locals /\ GuardHeld /\ LiveIsRun /\ InsidersHold
  BY DEF Base
<1>2. w \in Thread /\ WriterOK(w)
  BY DEF Base, Locals, LocalOK, Thread, Caller
<1>3. /\ pc \in [Thread -> Label] /\ hand \in [Thread -> SUBSET Item]
      /\ queue \in [Thread -> 0..MaxWriters] /\ orphan \in [Producer -> 0..MaxWriters]
      /\ own \in [Producer -> Event \cup {None}] /\ inside \in [Stopper -> 0..MaxWriters]
      /\ claim \in [Thread -> Nat] /\ made \in Nat /\ events \in Nat
  BY TypedNumbers DEF Base, Types, PlaceTypes, FlushTypes
<1>4. QueueTypes'
  BY <1>1, QueuesStay DEF Types, KeepGoing, Goto, queues
<1>5. CountTypes'
  BY <1>1, CountsStay DEF Types, KeepGoing, Goto, counted
<1>6. PlaceTypes'
  BY <1>1, PlacesStay DEF Types, KeepGoing, Goto, places
<1>7. FlushTypes'
  BY <1>1, FlushesStay DEF Types, KeepGoing, Goto, flushes
<1>8. MarkTypes'
  BY <1>1, MarksStay DEF Types, KeepGoing, Goto, marks
<1>9. WaitTypes'
  BY <1>1, WaitsStay DEF Types, KeepGoing, Goto, waits
<1>10. HistoryTypes'
  BY <1>1, HistoriesStay DEF Types, KeepGoing, Goto
<1>11. pc' \in [Thread -> Label]
  BY <1>3 DEF Label, KeepGoing, Goto
<1>12. hand' \in [Thread -> SUBSET Item]
  BY <1>3 DEF KeepGoing, Goto
<1>13. CastOK'
  <2>1. \A c \in Caller : (pc[c] = "absent") <=> (pc'[c] = "absent")
    BY <1>2, <1>3, Constants DEF KeepGoing, Goto, Thread, Caller
  <2>2. Cast' = Cast
    BY <1>1, <1>11, <2>1, CastStays
  <2>3. events' = events
    BY DEF KeepGoing, Goto
  <2> QED BY <1>1, <2>2, <2>3 DEF Types, CastOK
<1>14. Types'
  BY <1>4, <1>5, <1>6, <1>7, <1>8, <1>9, <1>10, <1>11, <1>12, <1>13 DEF Types
<1>15. Only({w})
  BY <1>3 DEF Only, KeepGoing, Goto, queues, places, flushes
<1>16. WriterOK(w)'
  <2>1. hand[w] = {} /\ pc[w] = "check"
    BY <1>2 DEF WriterOK, KeepGoing, Goto
  <2> QED BY <2>1, <1>2, <1>3 DEF WriterOK, Held, KeepGoing, Goto, places, flushes, queues
<1>17. Locals'
  BY <1>1, <1>2, <1>15, <1>16, OthersStay, LocalWriter DEF Locals
<1>18. GuardHeld'
  <2>1. UNCHANGED <<live, made, guard>>
    BY DEF KeepGoing, Goto, queues
  <2>2. \A o \in Producer : /\ pc'[o] \in {"start", "restart"} <=> pc[o] \in {"start", "restart"}
                            /\ guard = o => queue'[o] = queue[o]
    BY <1>1, <1>2, <1>3, Constants DEF WriterOK, GuardHeld, KeepGoing, Goto, places, Thread, Caller
  <2>3. \A u \in Writer : (pc[u] = "unmade") = (pc'[u] = "unmade")
    BY <1>2, <1>3, Constants DEF WriterOK, KeepGoing, Goto, Thread
  <2> QED BY <2>1, <2>2, <2>3, GuardStays
<1>19. LiveIsRun'
  <2>1. UNCHANGED <<live, guard>>
    BY DEF KeepGoing, Goto, queues
  <2>2. \A u \in Writer : pc[u] \in Serving => pc'[u] \in Serving
    BY <1>2, <1>3, Constants DEF Serving, KeepGoing, Goto, Thread
  <2> QED BY <2>1, <2>2, ServingStays
<1>20. InsidersHold'
  <2>1. UNCHANGED inside
    BY DEF KeepGoing, Goto, places
  <2>2. \A u \in Writer : pc'[u] = pc[u] \/ (\A o \in Stopper : inside[o] # u)
    BY <1>1, <1>2, <1>3, Constants, WritersAreNumbers DEF InsidersHold, KeepGoing, Goto, Thread, Busy
  <2> QED BY <2>1, <2>2, InsidersStay
<1> QED BY <1>14, <1>17, <1>18, <1>19, <1>20 DEF Base

\* A writer gives up the slot only if the slot is still its own.
LEMMA LeaveBase ==
  ASSUME Base, NEW w \in Writer, Leave(w)
  PROVE  Base'
<1>1. Types /\ Locals /\ GuardHeld /\ LiveIsRun /\ InsidersHold
  BY DEF Base
<1>2. w \in Thread /\ WriterOK(w)
  BY DEF Base, Locals, LocalOK, Thread, Caller
<1>3. /\ pc \in [Thread -> Label] /\ hand \in [Thread -> SUBSET Item]
      /\ queue \in [Thread -> 0..MaxWriters] /\ orphan \in [Producer -> 0..MaxWriters]
      /\ own \in [Producer -> Event \cup {None}] /\ inside \in [Stopper -> 0..MaxWriters]
      /\ claim \in [Thread -> Nat] /\ made \in Nat /\ events \in Nat
  BY TypedNumbers DEF Base, Types, PlaceTypes, FlushTypes
<1>4. QueueTypes'
  BY <1>1 DEF Types, QueueTypes, Leave, Goto, None
<1>5. CountTypes'
  BY <1>1, CountsStay DEF Types, Leave, Goto, counted
<1>6. PlaceTypes'
  BY <1>1, PlacesStay DEF Types, Leave, Goto, places
<1>7. FlushTypes'
  BY <1>1, FlushesStay DEF Types, Leave, Goto, flushes
<1>8. MarkTypes'
  BY <1>1, MarksStay DEF Types, Leave, Goto, marks
<1>9. WaitTypes'
  BY <1>1, WaitsStay DEF Types, Leave, Goto, waits
<1>10. HistoryTypes'
  BY <1>1, HistoriesStay DEF Types, Leave, Goto
<1>11. pc' \in [Thread -> Label]
  BY <1>3 DEF Label, Leave, Goto
<1>12. hand' \in [Thread -> SUBSET Item]
  BY <1>3 DEF Leave, Goto
<1>13. CastOK'
  <2>1. \A c \in Caller : (pc[c] = "absent") <=> (pc'[c] = "absent")
    BY <1>2, <1>3, Constants DEF Leave, Goto, Thread, Caller
  <2>2. Cast' = Cast
    BY <1>1, <1>11, <2>1, CastStays
  <2>3. events' = events
    BY DEF Leave, Goto
  <2> QED BY <1>1, <2>2, <2>3 DEF Types, CastOK
<1>14. Types'
  BY <1>4, <1>5, <1>6, <1>7, <1>8, <1>9, <1>10, <1>11, <1>12, <1>13 DEF Types
<1>15. Only({w})
  BY <1>3 DEF Only, Leave, Goto, queues, places, flushes
<1>16. WriterOK(w)'
  BY <1>2, <1>3 DEF WriterOK, Leave, Goto, places, flushes, queues
<1>17. Locals'
  BY <1>1, <1>2, <1>15, <1>16, OthersStay, LocalWriter DEF Locals
<1>18. GuardHeld'
  <2>1. SUFFICES ASSUME NEW o \in Producer
                 PROVE  /\ pc'[o] \in {"start", "restart"} <=> guard' = o
                        /\ guard' = o => live' = queue'[o] /\ pc'[queue'[o]] = "unmade"
    BY DEF GuardHeld
  <2>2. guard = Nobody /\ guard' = Nobody /\ o \in Thread /\ Nobody \notin Producer /\ o # w
    BY Constants DEF Leave, Goto, Thread, Caller
  <2> QED BY <2>2, <1>1, <1>2, <1>3 DEF GuardHeld, Leave, Goto
<1>19. LiveIsRun'
  <2>1. CASE live = w
    BY <2>1 DEF Leave, Goto, LiveIsRun
  <2>2. CASE live # w
    BY <2>2, <1>1, <1>3, TypedNumbers DEF Leave, Goto, LiveIsRun, Thread
  <2> QED BY <2>1, <2>2
<1>20. InsidersHold'
  <2>1. UNCHANGED inside
    BY DEF Leave, Goto, places
  <2>2. \A u \in Writer : pc'[u] = pc[u] \/ (\A o \in Stopper : inside[o] # u)
    BY <1>1, <1>2, <1>3, Constants, WritersAreNumbers DEF InsidersHold, Leave, Goto, Thread, Busy
  <2> QED BY <2>1, <2>2, InsidersStay
<1> QED BY <1>14, <1>17, <1>18, <1>19, <1>20 DEF Base

\* A writer closes its connection under its mark and is gone.
LEMMA CloseConnectionBase ==
  ASSUME Base, NEW w \in Writer, CloseConnection(w)
  PROVE  Base'
<1>1. Types /\ Locals /\ GuardHeld /\ LiveIsRun /\ InsidersHold
  BY DEF Base
<1>2. w \in Thread /\ WriterOK(w)
  BY DEF Base, Locals, LocalOK, Thread, Caller
<1>3. /\ pc \in [Thread -> Label] /\ hand \in [Thread -> SUBSET Item]
      /\ queue \in [Thread -> 0..MaxWriters] /\ orphan \in [Producer -> 0..MaxWriters]
      /\ own \in [Producer -> Event \cup {None}] /\ inside \in [Stopper -> 0..MaxWriters]
      /\ claim \in [Thread -> Nat] /\ made \in Nat /\ events \in Nat
  BY TypedNumbers DEF Base, Types, PlaceTypes, FlushTypes
<1>4. QueueTypes'
  BY <1>1, QueuesStay DEF Types, CloseConnection, Goto, queues
<1>5. CountTypes'
  BY <1>1, CountsStay DEF Types, CloseConnection, Goto, counted
<1>6. PlaceTypes'
  BY <1>1, PlacesStay DEF Types, CloseConnection, Goto, places
<1>7. FlushTypes'
  BY <1>1, FlushesStay DEF Types, CloseConnection, Goto, flushes
<1>8. MarkTypes'
  BY <1>1 DEF Types, MarkTypes, CloseConnection, Goto
<1>9. WaitTypes'
  BY <1>1, WaitsStay DEF Types, CloseConnection, Goto, waits
<1>10. HistoryTypes'
  BY <1>1, HistoriesStay DEF Types, CloseConnection, Goto
<1>11. pc' \in [Thread -> Label]
  BY <1>3 DEF Label, CloseConnection, Goto
<1>12. hand' \in [Thread -> SUBSET Item]
  BY <1>3 DEF CloseConnection, Goto
<1>13. CastOK'
  <2>1. \A c \in Caller : (pc[c] = "absent") <=> (pc'[c] = "absent")
    BY <1>2, <1>3, Constants DEF CloseConnection, Goto, Thread, Caller
  <2>2. Cast' = Cast
    BY <1>1, <1>11, <2>1, CastStays
  <2>3. events' = events
    BY DEF CloseConnection, Goto
  <2> QED BY <1>1, <2>2, <2>3 DEF Types, CastOK
<1>14. Types'
  BY <1>4, <1>5, <1>6, <1>7, <1>8, <1>9, <1>10, <1>11, <1>12, <1>13 DEF Types
<1>15. Only({w})
  BY <1>3 DEF Only, CloseConnection, Goto, queues, places, flushes
<1>16. WriterOK(w)'
  BY <1>2, <1>3 DEF WriterOK, CloseConnection, Goto, places, flushes, queues
<1>17. Locals'
  BY <1>1, <1>2, <1>15, <1>16, OthersStay, LocalWriter DEF Locals
<1>18. GuardHeld'
  <2>1. UNCHANGED <<live, made, guard>>
    BY DEF CloseConnection, Goto, queues
  <2>2. \A o \in Producer : /\ pc'[o] \in {"start", "restart"} <=> pc[o] \in {"start", "restart"}
                            /\ guard = o => queue'[o] = queue[o]
    BY <1>1, <1>2, <1>3, Constants DEF WriterOK, GuardHeld, CloseConnection, Goto, places, Thread, Caller
  <2>3. \A u \in Writer : (pc[u] = "unmade") = (pc'[u] = "unmade")
    BY <1>2, <1>3, Constants DEF WriterOK, CloseConnection, Goto, Thread
  <2> QED BY <2>1, <2>2, <2>3, GuardStays
<1>19. LiveIsRun'
  <2>1. UNCHANGED <<live, guard>>
    BY DEF CloseConnection, Goto, queues
  <2>2. \A u \in Writer : pc[u] \in Serving => pc'[u] \in Serving
    BY <1>2, <1>3, Constants DEF Serving, CloseConnection, Goto, Thread
  <2> QED BY <2>1, <2>2, ServingStays
<1>20. InsidersHold'
  <2>1. UNCHANGED inside
    BY DEF CloseConnection, Goto, places
  <2>2. \A u \in Writer : pc'[u] = pc[u] \/ (\A o \in Stopper : inside[o] # u)
    BY <1>1, <1>2, <1>3, Constants, WritersAreNumbers DEF InsidersHold, CloseConnection, Goto, Thread, Busy
  <2> QED BY <2>1, <2>2, InsidersStay
<1> QED BY <1>14, <1>17, <1>18, <1>19, <1>20 DEF Base

\* A batch goes to the database, whoever flushes it.
LEMMA FlushBase ==
  ASSUME Base, NEW t \in Writer \cup Drainer, Flush(t)
  PROVE  Base'
<1>1. Types /\ Locals /\ GuardHeld /\ LiveIsRun /\ InsidersHold
  BY DEF Base
<1>2. t \in Thread /\ LocalOK(t)
  BY DEF Base, Locals, LocalOK, Thread, Caller
<1>3. /\ pc \in [Thread -> Label] /\ hand \in [Thread -> SUBSET Item]
      /\ queue \in [Thread -> 0..MaxWriters] /\ orphan \in [Producer -> 0..MaxWriters]
      /\ own \in [Producer -> Event \cup {None}] /\ inside \in [Stopper -> 0..MaxWriters]
      /\ claim \in [Thread -> Nat] /\ made \in Nat /\ events \in Nat
  BY TypedNumbers DEF Base, Types, PlaceTypes, FlushTypes
<1>4. QueueTypes'
  BY <1>1, QueuesStay DEF Types, Flush, Goto, queues
<1>5. CountTypes'
  BY <1>1, CountsStay DEF Types, Flush, Goto, counted
<1>6. PlaceTypes'
  BY <1>1, PlacesStay DEF Types, Flush, Goto, places
<1>7. FlushTypes'
  <2>1. before' \in [Thread -> Nat]
    BY <1>1 DEF Types, FlushTypes, CountTypes, Flush, Goto
  <2>2. suspended' \in [Writer -> BOOLEAN] /\ UNCHANGED <<claim, failures>>
    BY <1>1 DEF Types, FlushTypes, Flush, Goto
  <2> QED BY <2>1, <2>2, <1>1 DEF Types, FlushTypes
<1>8. MarkTypes'
  BY <1>1, <1>2, TouchTyped DEF Flush, Goto
<1>9. WaitTypes'
  BY <1>1, WaitsStay DEF Types, Flush, Goto, waits
<1>10. HistoryTypes'
  BY <1>1, HistoriesStay DEF Types, Flush, Goto
<1>11. pc' \in [Thread -> Label]
  BY <1>3 DEF Label, Flush, Goto
<1>12. hand' \in [Thread -> SUBSET Item]
  BY <1>3 DEF Flush, Goto
<1>13. CastOK'
  <2>1. \A c \in Caller : (pc[c] = "absent") <=> (pc'[c] = "absent")
    BY <1>2, <1>3, Constants DEF Flush, Goto, Thread, Caller
  <2>2. Cast' = Cast
    BY <1>1, <1>11, <2>1, CastStays
  <2>3. events' = events
    BY DEF Flush, Goto
  <2> QED BY <1>1, <2>2, <2>3 DEF Types, CastOK
<1>14. Types'
  BY <1>4, <1>5, <1>6, <1>7, <1>8, <1>9, <1>10, <1>11, <1>12, <1>13 DEF Types
<1>15. Only({t})
  BY <1>3 DEF Only, Flush, Goto, queues, places, flushes
<1>16. LocalOK(t)'
  BY <1>2, <1>3, Constants DEF LocalOK, WriterOK, DrainerOK, Held, Flush, Goto, places, flushes, queues
<1>17. Locals'
  BY <1>1, <1>2, <1>15, <1>16, OthersStay DEF Locals
<1>18. GuardHeld'
  <2>1. UNCHANGED <<live, made, guard>>
    BY DEF Flush, Goto, queues
  <2>2. \A o \in Producer : /\ pc'[o] \in {"start", "restart"} <=> pc[o] \in {"start", "restart"}
                            /\ guard = o => queue'[o] = queue[o]
    BY <1>1, <1>2, <1>3, Constants DEF LocalOK, WriterOK, DrainerOK, GuardHeld, Flush, Goto, places, Thread, Caller
  <2>3. \A u \in Writer : (pc[u] = "unmade") = (pc'[u] = "unmade")
    BY <1>2, <1>3, Constants DEF LocalOK, WriterOK, DrainerOK, Flush, Goto, Thread
  <2> QED BY <2>1, <2>2, <2>3, GuardStays
<1>19. LiveIsRun'
  <2>1. UNCHANGED <<live, guard>>
    BY DEF Flush, Goto, queues
  <2>2. \A u \in Writer : pc[u] \in Serving => pc'[u] \in Serving
    BY <1>2, <1>3, Constants DEF Serving, Flush, Goto, Thread
  <2> QED BY <2>1, <2>2, ServingStays
<1>20. InsidersHold'
  <2>1. UNCHANGED inside
    BY DEF Flush, Goto, places
  <2>2. \A u \in Writer : pc'[u] = pc[u] \/ (\A o \in Stopper : inside[o] # u)
    BY <1>1, <1>2, <1>3, Constants, WritersAreNumbers DEF InsidersHold, Flush, Goto, Thread, Busy
  <2> QED BY <2>1, <2>2, InsidersStay
<1> QED BY <1>14, <1>17, <1>18, <1>19, <1>20 DEF Base

\* After a write the failures are forgotten and the drops reported.
LEMMA WrittenBase ==
  ASSUME Base, NEW t \in Writer \cup Drainer, Written(t)
  PROVE  Base'
<1>1. Types /\ Locals /\ GuardHeld /\ LiveIsRun /\ InsidersHold
  BY DEF Base
<1>2. t \in Thread /\ LocalOK(t)
  BY DEF Base, Locals, LocalOK, Thread, Caller
<1>3. /\ pc \in [Thread -> Label] /\ hand \in [Thread -> SUBSET Item]
      /\ queue \in [Thread -> 0..MaxWriters] /\ orphan \in [Producer -> 0..MaxWriters]
      /\ own \in [Producer -> Event \cup {None}] /\ inside \in [Stopper -> 0..MaxWriters]
      /\ claim \in [Thread -> Nat] /\ made \in Nat /\ events \in Nat
  BY TypedNumbers DEF Base, Types, PlaceTypes, FlushTypes
<1>4. Held(t) \in SUBSET Event
  BY DEF Held
<1>5. CountTypes' /\ delivered' \subseteq Event
  <2>1. PICK landed \in Landing(Held(t)) \ {{}} : Settle(Held(t), landed)
    BY DEF Written, Goto
  <2>2. landed \in SUBSET Held(t)
    BY <2>1, LandingIsPart
  <2> QED BY <2>1, <2>2, <1>1, <1>4, SettleTyped
<1>6. QueueTypes'
  BY <1>1, QueuesStay DEF Types, Written, Goto, queues
<1>7. CountTypes'
  BY <1>5
<1>8. PlaceTypes'
  BY <1>1, PlacesStay DEF Types, Written, Goto, places
<1>9. FlushTypes'
  <2>1. failures' \in [Writer -> 0..FailureLimit-1]
    BY <1>1, Constants DEF Types, FlushTypes, Written, Goto
  <2> QED BY <2>1, <1>1 DEF Types, FlushTypes, Written, Goto
<1>10. MarkTypes'
  BY <1>1, MarksStay DEF Types, Written, Goto, marks
<1>11. WaitTypes'
  BY <1>1, WaitsStay DEF Types, Written, Goto, waits
<1>12. HistoryTypes'
  BY <1>1, <1>5 DEF Types, HistoryTypes, Written, Goto
<1>13. pc' \in [Thread -> Label]
  BY <1>3 DEF Label, Written, Goto
<1>14. hand' \in [Thread -> SUBSET Item]
  BY <1>3 DEF Written, Goto
<1>15. CastOK'
  <2>1. \A c \in Caller : (pc[c] = "absent") <=> (pc'[c] = "absent")
    BY <1>2, <1>3, Constants DEF Written, Goto, Thread, Caller
  <2>2. Cast' = Cast
    BY <1>1, <1>13, <2>1, CastStays
  <2>3. events' = events
    BY DEF Written, Goto
  <2> QED BY <1>1, <2>2, <2>3 DEF Types, CastOK
<1>16. Types'
  BY <1>6, <1>7, <1>8, <1>9, <1>10, <1>11, <1>12, <1>13, <1>14, <1>15 DEF Types
<1>17. Only({t})
  BY <1>3 DEF Only, Written, Goto, queues, places, flushes
<1>18. LocalOK(t)'
  BY <1>2, <1>3, Constants DEF LocalOK, WriterOK, DrainerOK, Held, Written, Goto, places, flushes, queues
<1>19. Locals'
  BY <1>1, <1>2, <1>17, <1>18, OthersStay DEF Locals
<1>20. GuardHeld'
  <2>1. UNCHANGED <<live, made, guard>>
    BY DEF Written, Goto, queues
  <2>2. \A o \in Producer : /\ pc'[o] \in {"start", "restart"} <=> pc[o] \in {"start", "restart"}
                            /\ guard = o => queue'[o] = queue[o]
    BY <1>1, <1>2, <1>3, Constants DEF LocalOK, WriterOK, DrainerOK, GuardHeld, Written, Goto, places, Thread, Caller
  <2>3. \A u \in Writer : (pc[u] = "unmade") = (pc'[u] = "unmade")
    BY <1>2, <1>3, Constants DEF LocalOK, WriterOK, DrainerOK, Written, Goto, Thread
  <2> QED BY <2>1, <2>2, <2>3, GuardStays
<1>21. LiveIsRun'
  <2>1. UNCHANGED <<live, guard>>
    BY DEF Written, Goto, queues
  <2>2. \A u \in Writer : pc[u] \in Serving => pc'[u] \in Serving
    BY <1>2, <1>3, Constants DEF Serving, Written, Goto, Thread
  <2> QED BY <2>1, <2>2, ServingStays
<1>22. InsidersHold'
  <2>1. UNCHANGED inside
    BY DEF Written, Goto, places
  <2>2. \A u \in Writer : pc'[u] = pc[u] \/ (\A o \in Stopper : inside[o] # u)
    BY <1>1, <1>2, <1>3, Constants, WritersAreNumbers DEF InsidersHold, Written, Goto, Thread, Busy
  <2> QED BY <2>1, <2>2, InsidersStay
<1> QED BY <1>16, <1>19, <1>20, <1>21, <1>22 DEF Base

\* A failed batch is counted, and the writer suspended at the limit.
LEMMA WriteFailedBase ==
  ASSUME Base, NEW t \in Writer \cup Drainer, WriteFailed(t)
  PROVE  Base'
<1>1. Types /\ Locals /\ GuardHeld /\ LiveIsRun /\ InsidersHold
  BY DEF Base
<1>2. t \in Thread /\ LocalOK(t)
  BY DEF Base, Locals, LocalOK, Thread, Caller
<1>3. /\ pc \in [Thread -> Label] /\ hand \in [Thread -> SUBSET Item]
      /\ queue \in [Thread -> 0..MaxWriters] /\ orphan \in [Producer -> 0..MaxWriters]
      /\ own \in [Producer -> Event \cup {None}] /\ inside \in [Stopper -> 0..MaxWriters]
      /\ claim \in [Thread -> Nat] /\ made \in Nat /\ events \in Nat
  BY TypedNumbers DEF Base, Types, PlaceTypes, FlushTypes
<1>4. Held(t) \in SUBSET Event /\ {} \in SUBSET Held(t)
  BY DEF Held
<1>5. CountTypes' /\ delivered' \subseteq Event
  BY <1>1, <1>4, SettleTyped DEF WriteFailed, Goto
<1>6. QueueTypes'
  BY <1>1, QueuesStay DEF Types, WriteFailed, Goto, queues
<1>7. CountTypes'
  BY <1>5
<1>8. PlaceTypes'
  BY <1>1, PlacesStay DEF Types, WriteFailed, Goto, places
<1>9. FlushTypes'
  <2>1. failures \in [Writer -> 0..FailureLimit-1] /\ suspended \in [Writer -> BOOLEAN] /\ FailureLimit \in Nat \ {0}
    BY <1>1, Constants DEF Types, FlushTypes
  <2>2. CASE t \in Writer
    <3> DEFINE limit == failures[t] + 1 >= FailureLimit
               next == IF limit THEN 0 ELSE failures[t] + 1
    <3>1. next \in 0..FailureLimit-1 /\ limit \in BOOLEAN
      BY <2>1, <2>2
    <3>2. failures' = [failures EXCEPT ![t] = next] /\ suspended' = [suspended EXCEPT ![t] = limit]
      BY <2>2 DEF WriteFailed, Goto
    <3> HIDE DEF next, limit
    <3>3. failures' \in [Writer -> 0..FailureLimit-1]
      BY <2>1, <3>1, <3>2
    <3>4. suspended' \in [Writer -> BOOLEAN]
      BY <2>1, <3>1, <3>2
    <3> QED BY <3>3, <3>4, <1>1 DEF Types, FlushTypes, WriteFailed, Goto
  <2>3. CASE t \notin Writer
    BY <2>3, <1>1 DEF Types, FlushTypes, WriteFailed, Goto
  <2> QED BY <2>2, <2>3
<1>10. MarkTypes'
  BY <1>1, MarksStay DEF Types, WriteFailed, Goto, marks
<1>11. WaitTypes'
  BY <1>1, WaitsStay DEF Types, WriteFailed, Goto, waits
<1>12. HistoryTypes'
  BY <1>1, <1>5 DEF Types, HistoryTypes, WriteFailed, Goto
<1>13. pc' \in [Thread -> Label]
  BY <1>3 DEF Label, WriteFailed, Goto
<1>14. hand' \in [Thread -> SUBSET Item]
  BY <1>3 DEF WriteFailed, Goto
<1>15. CastOK'
  <2>1. \A c \in Caller : (pc[c] = "absent") <=> (pc'[c] = "absent")
    BY <1>2, <1>3, Constants DEF WriteFailed, Goto, Thread, Caller
  <2>2. Cast' = Cast
    BY <1>1, <1>13, <2>1, CastStays
  <2>3. events' = events
    BY DEF WriteFailed, Goto
  <2> QED BY <1>1, <2>2, <2>3 DEF Types, CastOK
<1>16. Types'
  BY <1>6, <1>7, <1>8, <1>9, <1>10, <1>11, <1>12, <1>13, <1>14, <1>15 DEF Types
<1>17. Only({t})
  BY <1>3 DEF Only, WriteFailed, Goto, queues, places, flushes
<1>18. LocalOK(t)'
  BY <1>2, <1>3, Constants DEF LocalOK, WriterOK, DrainerOK, Held, WriteFailed, Goto, places, flushes, queues
<1>19. Locals'
  BY <1>1, <1>2, <1>17, <1>18, OthersStay DEF Locals
<1>20. GuardHeld'
  <2>1. UNCHANGED <<live, made, guard>>
    BY DEF WriteFailed, Goto, queues
  <2>2. \A o \in Producer : /\ pc'[o] \in {"start", "restart"} <=> pc[o] \in {"start", "restart"}
                            /\ guard = o => queue'[o] = queue[o]
    BY <1>1, <1>2, <1>3, Constants DEF LocalOK, WriterOK, DrainerOK, GuardHeld, WriteFailed, Goto, places, Thread, Caller
  <2>3. \A u \in Writer : (pc[u] = "unmade") = (pc'[u] = "unmade")
    BY <1>2, <1>3, Constants DEF LocalOK, WriterOK, DrainerOK, WriteFailed, Goto, Thread
  <2> QED BY <2>1, <2>2, <2>3, GuardStays
<1>21. LiveIsRun'
  <2>1. UNCHANGED <<live, guard>>
    BY DEF WriteFailed, Goto, queues
  <2>2. \A u \in Writer : pc[u] \in Serving => pc'[u] \in Serving
    BY <1>2, <1>3, Constants DEF Serving, WriteFailed, Goto, Thread
  <2> QED BY <2>1, <2>2, ServingStays
<1>22. InsidersHold'
  <2>1. UNCHANGED inside
    BY DEF WriteFailed, Goto, places
  <2>2. \A u \in Writer : pc'[u] = pc[u] \/ (\A o \in Stopper : inside[o] # u)
    BY <1>1, <1>2, <1>3, Constants, WritersAreNumbers DEF InsidersHold, WriteFailed, Goto, Thread, Busy
  <2> QED BY <2>1, <2>2, InsidersStay
<1> QED BY <1>16, <1>19, <1>20, <1>21, <1>22 DEF Base

\* One flusher claims the drops the others have not reported.
LEMMA ClaimGapBase ==
  ASSUME Base, NEW t \in Writer \cup Drainer, ClaimGap(t)
  PROVE  Base'
<1>1. Types /\ Locals /\ GuardHeld /\ LiveIsRun /\ InsidersHold
  BY DEF Base
<1>2. t \in Thread /\ LocalOK(t)
  BY DEF Base, Locals, LocalOK, Thread, Caller
<1>3. /\ pc \in [Thread -> Label] /\ hand \in [Thread -> SUBSET Item]
      /\ queue \in [Thread -> 0..MaxWriters] /\ orphan \in [Producer -> 0..MaxWriters]
      /\ own \in [Producer -> Event \cup {None}] /\ inside \in [Stopper -> 0..MaxWriters]
      /\ claim \in [Thread -> Nat] /\ made \in Nat /\ events \in Nat
  BY TypedNumbers DEF Base, Types, PlaceTypes, FlushTypes
<1>4. PICK claimed \in Nat : /\ claimed = (IF before[t] < dropped THEN before[t] ELSE dropped)
                             /\ dropped - claimed \in Nat /\ claimed <= dropped
  <2>1. before[t] \in Nat /\ dropped \in Nat
    BY <1>1, <1>2 DEF Types, FlushTypes, CountTypes
  <2> QED BY <2>1
<1>5. claim' = [claim EXCEPT ![t] = claimed] /\ dropped' = dropped - claimed /\ pc' = [pc EXCEPT ![t] = IF claimed = 0 THEN "ack" ELSE "gapwrite"]
  BY <1>4 DEF ClaimGap, Goto
<1>6. QueueTypes'
  BY <1>1, QueuesStay DEF Types, ClaimGap, Goto, queues
<1>7. CountTypes'
  BY <1>1, <1>4, <1>5 DEF Types, CountTypes, ClaimGap
<1>8. PlaceTypes'
  BY <1>1, PlacesStay DEF Types, ClaimGap, Goto, places
<1>9. FlushTypes'
  BY <1>1, <1>4, <1>5 DEF Types, FlushTypes, ClaimGap
<1>10. MarkTypes'
  <2>1. Touches(t) \/ UNCHANGED marks
    BY DEF ClaimGap
  <2> QED BY <1>1, <1>2, <2>1, TouchTyped, MarksStay DEF Types
<1>11. WaitTypes'
  BY <1>1, WaitsStay DEF Types, ClaimGap, Goto, waits
<1>12. HistoryTypes'
  BY <1>1, HistoriesStay DEF Types, ClaimGap, Goto
<1>13. pc' \in [Thread -> Label]
  BY <1>3 DEF Label, ClaimGap, Goto
<1>14. hand' \in [Thread -> SUBSET Item]
  BY <1>3 DEF ClaimGap, Goto
<1>15. CastOK'
  <2>1. \A c \in Caller : (pc[c] = "absent") <=> (pc'[c] = "absent")
    BY <1>2, <1>3, Constants DEF ClaimGap, Goto, Thread, Caller
  <2>2. Cast' = Cast
    BY <1>1, <1>13, <2>1, CastStays
  <2>3. events' = events
    BY DEF ClaimGap, Goto
  <2> QED BY <1>1, <2>2, <2>3 DEF Types, CastOK
<1>16. Types'
  BY <1>6, <1>7, <1>8, <1>9, <1>10, <1>11, <1>12, <1>13, <1>14, <1>15 DEF Types
<1>17. Only({t})
  BY <1>3 DEF Only, ClaimGap, Goto, queues, places, flushes
<1>18. LocalOK(t)'
  BY <1>2, <1>3, <1>5, Constants DEF LocalOK, WriterOK, DrainerOK, Held, ClaimGap, places, flushes, queues
<1>19. Locals'
  BY <1>1, <1>2, <1>17, <1>18, OthersStay DEF Locals
<1>20. GuardHeld'
  <2>1. UNCHANGED <<live, made, guard>>
    BY DEF ClaimGap, Goto, queues
  <2>2. \A o \in Producer : /\ pc'[o] \in {"start", "restart"} <=> pc[o] \in {"start", "restart"}
                            /\ guard = o => queue'[o] = queue[o]
    BY <1>1, <1>2, <1>3, Constants DEF LocalOK, WriterOK, DrainerOK, GuardHeld, ClaimGap, Goto, places, Thread, Caller
  <2>3. \A u \in Writer : (pc[u] = "unmade") = (pc'[u] = "unmade")
    BY <1>2, <1>3, Constants DEF LocalOK, WriterOK, DrainerOK, ClaimGap, Goto, Thread
  <2> QED BY <2>1, <2>2, <2>3, GuardStays
<1>21. LiveIsRun'
  <2>1. UNCHANGED <<live, guard>>
    BY DEF ClaimGap, Goto, queues
  <2>2. \A u \in Writer : pc[u] \in Serving => pc'[u] \in Serving
    BY <1>2, <1>3, Constants DEF Serving, ClaimGap, Goto, Thread
  <2> QED BY <2>1, <2>2, ServingStays
<1>22. InsidersHold'
  <2>1. UNCHANGED inside
    BY DEF ClaimGap, Goto, places
  <2>2. \A u \in Writer : pc'[u] = pc[u] \/ (\A o \in Stopper : inside[o] # u)
    BY <1>1, <1>2, <1>3, Constants, WritersAreNumbers DEF InsidersHold, ClaimGap, Goto, Thread, Busy
  <2> QED BY <2>1, <2>2, InsidersStay
<1> QED BY <1>16, <1>19, <1>20, <1>21, <1>22 DEF Base

\* The gap row lands, or the claim is given back.
LEMMA GapRowBase ==
  ASSUME Base, NEW t \in Writer \cup Drainer, GapRow(t)
  PROVE  Base'
<1>1. Types /\ Locals /\ GuardHeld /\ LiveIsRun /\ InsidersHold
  BY DEF Base
<1>2. t \in Thread /\ LocalOK(t)
  BY DEF Base, Locals, LocalOK, Thread, Caller
<1>3. /\ pc \in [Thread -> Label] /\ hand \in [Thread -> SUBSET Item]
      /\ queue \in [Thread -> 0..MaxWriters] /\ orphan \in [Producer -> 0..MaxWriters]
      /\ own \in [Producer -> Event \cup {None}] /\ inside \in [Stopper -> 0..MaxWriters]
      /\ claim \in [Thread -> Nat] /\ made \in Nat /\ events \in Nat
  BY TypedNumbers DEF Base, Types, PlaceTypes, FlushTypes
<1>4. claim[t] \in Nat
  BY <1>2, <1>3
<1>5. QueueTypes'
  BY <1>1, QueuesStay DEF Types, GapRow, Goto, queues
<1>6. CountTypes'
  BY <1>1, <1>4 DEF Types, CountTypes, GapRow, Goto
<1>7. PlaceTypes'
  BY <1>1, PlacesStay DEF Types, GapRow, Goto, places
<1>8. FlushTypes'
  BY <1>1 DEF Types, FlushTypes, GapRow, Goto
<1>9. MarkTypes'
  BY <1>1, MarksStay DEF Types, GapRow, Goto, marks
<1>10. WaitTypes'
  BY <1>1, WaitsStay DEF Types, GapRow, Goto, waits
<1>11. HistoryTypes'
  BY <1>1, HistoriesStay DEF Types, GapRow, Goto
<1>12. pc' \in [Thread -> Label]
  BY <1>3 DEF Label, GapRow, Goto
<1>13. hand' \in [Thread -> SUBSET Item]
  BY <1>3 DEF GapRow, Goto
<1>14. CastOK'
  <2>1. \A c \in Caller : (pc[c] = "absent") <=> (pc'[c] = "absent")
    BY <1>2, <1>3, Constants DEF GapRow, Goto, Thread, Caller
  <2>2. Cast' = Cast
    BY <1>1, <1>12, <2>1, CastStays
  <2>3. events' = events
    BY DEF GapRow, Goto
  <2> QED BY <1>1, <2>2, <2>3 DEF Types, CastOK
<1>15. Types'
  BY <1>5, <1>6, <1>7, <1>8, <1>9, <1>10, <1>11, <1>12, <1>13, <1>14 DEF Types
<1>16. Only({t})
  BY <1>3 DEF Only, GapRow, Goto, queues, places, flushes
<1>17. LocalOK(t)'
  BY <1>2, <1>3, Constants DEF LocalOK, WriterOK, DrainerOK, Held, GapRow, Goto, places, flushes, queues
<1>18. Locals'
  BY <1>1, <1>2, <1>16, <1>17, OthersStay DEF Locals
<1>19. GuardHeld'
  <2>1. UNCHANGED <<live, made, guard>>
    BY DEF GapRow, Goto, queues
  <2>2. \A o \in Producer : /\ pc'[o] \in {"start", "restart"} <=> pc[o] \in {"start", "restart"}
                            /\ guard = o => queue'[o] = queue[o]
    BY <1>1, <1>2, <1>3, Constants DEF LocalOK, WriterOK, DrainerOK, GuardHeld, GapRow, Goto, places, Thread, Caller
  <2>3. \A u \in Writer : (pc[u] = "unmade") = (pc'[u] = "unmade")
    BY <1>2, <1>3, Constants DEF LocalOK, WriterOK, DrainerOK, GapRow, Goto, Thread
  <2> QED BY <2>1, <2>2, <2>3, GuardStays
<1>20. LiveIsRun'
  <2>1. UNCHANGED <<live, guard>>
    BY DEF GapRow, Goto, queues
  <2>2. \A u \in Writer : pc[u] \in Serving => pc'[u] \in Serving
    BY <1>2, <1>3, Constants DEF Serving, GapRow, Goto, Thread
  <2> QED BY <2>1, <2>2, ServingStays
<1>21. InsidersHold'
  <2>1. UNCHANGED inside
    BY DEF GapRow, Goto, places
  <2>2. \A u \in Writer : pc'[u] = pc[u] \/ (\A o \in Stopper : inside[o] # u)
    BY <1>1, <1>2, <1>3, Constants, WritersAreNumbers DEF InsidersHold, GapRow, Goto, Thread, Busy
  <2> QED BY <2>1, <2>2, InsidersStay
<1> QED BY <1>15, <1>18, <1>19, <1>20, <1>21 DEF Base

\* After the batch its wakes are released, whatever became of it.
LEMMA AcknowledgeBase ==
  ASSUME Base, NEW t \in Writer \cup Drainer, Acknowledge(t)
  PROVE  Base'
<1>1. Types /\ Locals /\ GuardHeld /\ LiveIsRun /\ InsidersHold
  BY DEF Base
<1>2. t \in Thread /\ LocalOK(t)
  BY DEF Base, Locals, LocalOK, Thread, Caller
<1>3. /\ pc \in [Thread -> Label] /\ hand \in [Thread -> SUBSET Item]
      /\ queue \in [Thread -> 0..MaxWriters] /\ orphan \in [Producer -> 0..MaxWriters]
      /\ own \in [Producer -> Event \cup {None}] /\ inside \in [Stopper -> 0..MaxWriters]
      /\ claim \in [Thread -> Nat] /\ made \in Nat /\ events \in Nat
  BY TypedNumbers DEF Base, Types, PlaceTypes, FlushTypes
<1>4. QueueTypes'
  BY <1>1, QueuesStay DEF Types, Acknowledge, Goto, queues
<1>5. CountTypes'
  BY <1>1, CountsStay DEF Types, Acknowledge, Goto, counted
<1>6. PlaceTypes'
  BY <1>1, PlacesStay DEF Types, Acknowledge, Goto, places
<1>7. FlushTypes'
  BY <1>1 DEF Types, FlushTypes, Acknowledge, Goto
<1>8. MarkTypes'
  BY <1>1 DEF Types, MarkTypes, Acknowledge, Goto
<1>9. WaitTypes'
  BY <1>1, ReleaseTyped DEF Types, Acknowledge, Goto
<1>10. HistoryTypes'
  BY <1>1, HistoriesStay DEF Types, Acknowledge, Goto
<1>11. pc' \in [Thread -> Label]
  BY <1>3 DEF Label, Acknowledge, Goto
<1>12. hand' \in [Thread -> SUBSET Item]
  BY <1>3 DEF Acknowledge, Goto
<1>13. CastOK'
  <2>1. \A c \in Caller : (pc[c] = "absent") <=> (pc'[c] = "absent")
    BY <1>2, <1>3, Constants DEF Acknowledge, Goto, Thread, Caller
  <2>2. Cast' = Cast
    BY <1>1, <1>11, <2>1, CastStays
  <2>3. events' = events
    BY DEF Acknowledge, Goto
  <2> QED BY <1>1, <2>2, <2>3 DEF Types, CastOK
<1>14. Types'
  BY <1>4, <1>5, <1>6, <1>7, <1>8, <1>9, <1>10, <1>11, <1>12, <1>13 DEF Types
<1>15. Only({t})
  BY <1>3 DEF Only, Acknowledge, Goto, queues, places, flushes
<1>16. LocalOK(t)'
  BY <1>2, <1>3, Constants DEF LocalOK, WriterOK, DrainerOK, Held, Acknowledge, Goto, places, flushes, queues
<1>17. Locals'
  BY <1>1, <1>2, <1>15, <1>16, OthersStay DEF Locals
<1>18. GuardHeld'
  <2>1. UNCHANGED <<live, made, guard>>
    BY DEF Acknowledge, Goto, queues
  <2>2. \A o \in Producer : /\ pc'[o] \in {"start", "restart"} <=> pc[o] \in {"start", "restart"}
                            /\ guard = o => queue'[o] = queue[o]
    BY <1>1, <1>2, <1>3, Constants DEF LocalOK, WriterOK, DrainerOK, GuardHeld, Acknowledge, Goto, places, Thread, Caller
  <2>3. \A u \in Writer : (pc[u] = "unmade") = (pc'[u] = "unmade")
    BY <1>2, <1>3, Constants DEF LocalOK, WriterOK, DrainerOK, Acknowledge, Goto, Thread
  <2> QED BY <2>1, <2>2, <2>3, GuardStays
<1>19. LiveIsRun'
  <2>1. UNCHANGED <<live, guard>>
    BY DEF Acknowledge, Goto, queues
  <2>2. \A u \in Writer : pc[u] \in Serving => pc'[u] \in Serving
    BY <1>2, <1>3, Constants DEF Serving, Acknowledge, Goto, Thread
  <2> QED BY <2>1, <2>2, ServingStays
<1>20. InsidersHold'
  <2>1. UNCHANGED inside
    BY DEF Acknowledge, Goto, places
  <2>2. \A u \in Writer : pc'[u] = pc[u] \/ (\A o \in Stopper : inside[o] # u)
    BY <1>1, <1>2, <1>3, Constants, WritersAreNumbers DEF InsidersHold, Acknowledge, Goto, Thread, Busy
  <2> QED BY <2>1, <2>2, InsidersStay
<1> QED BY <1>14, <1>17, <1>18, <1>19, <1>20 DEF Base

\* A queue nobody serves is emptied by one thread, which holds what was in it.
LEMMA EmptyQueueBase ==
  ASSUME Base, NEW t \in Writer \cup Stopper, EmptyQueue(t)
  PROVE  Base'
<1>1. Types /\ Locals /\ GuardHeld /\ LiveIsRun /\ InsidersHold
  BY DEF Base
<1>2. t \in Thread /\ LocalOK(t)
  BY DEF Base, Locals, LocalOK, Thread, Caller
<1>3. /\ pc \in [Thread -> Label] /\ hand \in [Thread -> SUBSET Item]
      /\ queue \in [Thread -> 0..MaxWriters] /\ orphan \in [Producer -> 0..MaxWriters]
      /\ own \in [Producer -> Event \cup {None}] /\ inside \in [Stopper -> 0..MaxWriters]
      /\ claim \in [Thread -> Nat] /\ made \in Nat /\ events \in Nat
  BY TypedNumbers DEF Base, Types, PlaceTypes, FlushTypes
<1>4. queue[t] \in Writer
  BY <1>1, <1>2, TypedNumbers, Constants DEF LocalOK, StopperOK, WriterOK, EmptyQueue, Goto, AfterAbandon
<1>5. Range(buffer[queue[t]]) \subseteq Item /\ Range(buffer[queue[t]]) \cap Event \in SUBSET Item
  BY <1>1, <1>4, ItemsOfQueue DEF Types, Item
<1>6. /\ buffer' \in [Writer -> Seq(Item)]
      /\ \A r \in Writer : Len(buffer'[r]) <= BufferSize
  BY <1>1, <1>4, EmptyTyped DEF EmptyQueue, Goto, AfterAbandon, Types
<1>7. QueueTypes'
  BY <1>1, <1>6 DEF Types, QueueTypes, EmptyQueue, Goto, AfterAbandon
<1>8. CountTypes'
  BY <1>1, CountsStay DEF Types, EmptyQueue, Goto, AfterAbandon, counted
<1>9. PlaceTypes'
  BY <1>1, PlacesStay DEF Types, EmptyQueue, Goto, AfterAbandon, places
<1>10. FlushTypes'
  BY <1>1, FlushesStay DEF Types, EmptyQueue, Goto, AfterAbandon, flushes
<1>11. MarkTypes'
  BY <1>1, <1>2, TouchTyped, MarksStay DEF EmptyQueue, Goto, AfterAbandon, Types
<1>12. WaitTypes'
  BY <1>1, ReleaseTyped DEF Types, EmptyQueue, Goto, AfterAbandon
<1>13. HistoryTypes'
  BY <1>1, HistoriesStay DEF Types, EmptyQueue, Goto, AfterAbandon
<1>14. pc' \in [Thread -> Label]
  BY <1>3 DEF Label, EmptyQueue, Goto, AfterAbandon
<1>15. hand' \in [Thread -> SUBSET Item]
  BY <1>3, <1>5 DEF EmptyQueue, Goto, AfterAbandon
<1>16. CastOK'
  <2>1. \A c \in Caller : (pc[c] = "absent") <=> (pc'[c] = "absent")
    BY <1>2, <1>3, Constants DEF EmptyQueue, Goto, AfterAbandon, Thread, Caller
  <2>2. Cast' = Cast
    BY <1>1, <1>14, <2>1, CastStays
  <2>3. events' = events
    BY DEF EmptyQueue, Goto, AfterAbandon
  <2> QED BY <1>1, <2>2, <2>3 DEF Types, CastOK
<1>17. Types'
  BY <1>7, <1>8, <1>9, <1>10, <1>11, <1>12, <1>13, <1>14, <1>15, <1>16 DEF Types
<1>18. Only({t})
  BY <1>3 DEF Only, EmptyQueue, Goto, AfterAbandon, queues, places, flushes
<1>19. LocalOK(t)'
  BY <1>2, <1>3, Constants DEF LocalOK, WriterOK, StopperOK, Held, EmptyQueue, Goto, AfterAbandon, places, flushes, queues
<1>20. Locals'
  BY <1>1, <1>2, <1>18, <1>19, OthersStay DEF Locals
<1>21. GuardHeld'
  <2>1. UNCHANGED <<live, made, guard>>
    BY DEF EmptyQueue, Goto, AfterAbandon, queues
  <2>2. \A o \in Producer : /\ pc'[o] \in {"start", "restart"} <=> pc[o] \in {"start", "restart"}
                            /\ guard = o => queue'[o] = queue[o]
    BY <1>1, <1>2, <1>3, Constants DEF LocalOK, WriterOK, StopperOK, GuardHeld, EmptyQueue, Goto, AfterAbandon, places, Thread, Caller
  <2>3. \A u \in Writer : (pc[u] = "unmade") = (pc'[u] = "unmade")
    BY <1>2, <1>3, Constants DEF LocalOK, WriterOK, StopperOK, EmptyQueue, Goto, AfterAbandon, Thread
  <2> QED BY <2>1, <2>2, <2>3, GuardStays
<1>22. LiveIsRun'
  <2>1. UNCHANGED <<live, guard>>
    BY DEF EmptyQueue, Goto, AfterAbandon, queues
  <2>2. \A u \in Writer : pc[u] \in Serving => pc'[u] \in Serving
    BY <1>2, <1>3, Constants DEF Serving, EmptyQueue, Goto, AfterAbandon, Thread
  <2> QED BY <2>1, <2>2, ServingStays
<1>23. InsidersHold'
  <2>1. UNCHANGED inside /\ pc[t] = "abandon"
    BY DEF EmptyQueue, Goto, AfterAbandon, places
  <2>2. t \in Writer => \A s \in Stopper : inside[s] # t
    BY <2>1, <1>1, WritersAreNumbers DEF InsidersHold
  <2>3. \A u \in Writer \ {t} : pc'[u] = pc[u]
    BY <1>2, <1>3 DEF EmptyQueue, Goto, AfterAbandon, Thread
  <2> QED BY <2>1, <2>2, <2>3, InsidersStay
<1> QED BY <1>17, <1>20, <1>21, <1>22, <1>23 DEF Base

\* The leftovers are written or counted.
LEMMA WriteLeftoverBase ==
  ASSUME Base, NEW t \in Writer \cup Stopper, WriteLeftover(t)
  PROVE  Base'
<1>1. Types /\ Locals /\ GuardHeld /\ LiveIsRun /\ InsidersHold
  BY DEF Base
<1>2. t \in Thread /\ LocalOK(t)
  BY DEF Base, Locals, LocalOK, Thread, Caller
<1>3. /\ pc \in [Thread -> Label] /\ hand \in [Thread -> SUBSET Item]
      /\ queue \in [Thread -> 0..MaxWriters] /\ orphan \in [Producer -> 0..MaxWriters]
      /\ own \in [Producer -> Event \cup {None}] /\ inside \in [Stopper -> 0..MaxWriters]
      /\ claim \in [Thread -> Nat] /\ made \in Nat /\ events \in Nat
  BY TypedNumbers DEF Base, Types, PlaceTypes, FlushTypes
<1>4. Held(t) \in SUBSET Event
  BY DEF Held
<1>5. CountTypes' /\ delivered' \subseteq Event
  <2>1. PICK landed \in Landing(Held(t)) : Settle(Held(t), landed)
    BY DEF WriteLeftover, Goto, AfterAbandon
  <2>2. landed \in SUBSET Held(t)
    BY <2>1, LandingIsPart
  <2> QED BY <2>1, <2>2, <1>1, <1>4, SettleTyped
<1>6. QueueTypes'
  BY <1>1, QueuesStay DEF Types, WriteLeftover, Goto, AfterAbandon, queues
<1>7. CountTypes'
  BY <1>5
<1>8. PlaceTypes'
  BY <1>1, PlacesStay DEF Types, WriteLeftover, Goto, AfterAbandon, places
<1>9. FlushTypes'
  BY <1>1, FlushesStay DEF Types, WriteLeftover, Goto, AfterAbandon, flushes
<1>10. MarkTypes'
  BY <1>1, MarksStay DEF Types, WriteLeftover, Goto, AfterAbandon, marks
<1>11. WaitTypes'
  BY <1>1, WaitsStay DEF Types, WriteLeftover, Goto, AfterAbandon, waits
<1>12. HistoryTypes'
  BY <1>1, <1>5 DEF Types, HistoryTypes, WriteLeftover, Goto, AfterAbandon
<1>13. pc' \in [Thread -> Label]
  BY <1>3 DEF Label, WriteLeftover, Goto, AfterAbandon
<1>14. hand' \in [Thread -> SUBSET Item]
  BY <1>3 DEF WriteLeftover, Goto, AfterAbandon
<1>15. CastOK'
  <2>1. \A c \in Caller : (pc[c] = "absent") <=> (pc'[c] = "absent")
    BY <1>2, <1>3, Constants DEF WriteLeftover, Goto, AfterAbandon, Thread, Caller
  <2>2. Cast' = Cast
    BY <1>1, <1>13, <2>1, CastStays
  <2>3. events' = events
    BY DEF WriteLeftover, Goto, AfterAbandon
  <2> QED BY <1>1, <2>2, <2>3 DEF Types, CastOK
<1>16. Types'
  BY <1>6, <1>7, <1>8, <1>9, <1>10, <1>11, <1>12, <1>13, <1>14, <1>15 DEF Types
<1>17. Only({t})
  BY <1>3 DEF Only, WriteLeftover, Goto, AfterAbandon, queues, places, flushes
<1>18. LocalOK(t)'
  BY <1>2, <1>3, Constants DEF LocalOK, WriterOK, StopperOK, Held, WriteLeftover, Goto, AfterAbandon, places, flushes, queues
<1>19. Locals'
  BY <1>1, <1>2, <1>17, <1>18, OthersStay DEF Locals
<1>20. GuardHeld'
  <2>1. UNCHANGED <<live, made, guard>>
    BY DEF WriteLeftover, Goto, AfterAbandon, queues
  <2>2. \A o \in Producer : /\ pc'[o] \in {"start", "restart"} <=> pc[o] \in {"start", "restart"}
                            /\ guard = o => queue'[o] = queue[o]
    BY <1>1, <1>2, <1>3, Constants DEF LocalOK, WriterOK, StopperOK, GuardHeld, WriteLeftover, Goto, AfterAbandon, places, Thread, Caller
  <2>3. \A u \in Writer : (pc[u] = "unmade") = (pc'[u] = "unmade")
    BY <1>2, <1>3, Constants DEF LocalOK, WriterOK, StopperOK, WriteLeftover, Goto, AfterAbandon, Thread
  <2> QED BY <2>1, <2>2, <2>3, GuardStays
<1>21. LiveIsRun'
  <2>1. UNCHANGED <<live, guard>>
    BY DEF WriteLeftover, Goto, AfterAbandon, queues
  <2>2. \A u \in Writer : pc[u] \in Serving => pc'[u] \in Serving
    BY <1>2, <1>3, Constants DEF Serving, WriteLeftover, Goto, AfterAbandon, Thread
  <2> QED BY <2>1, <2>2, ServingStays
<1>22. InsidersHold'
  <2>1. UNCHANGED inside
    BY DEF WriteLeftover, Goto, AfterAbandon, places
  <2>2. \A u \in Writer : pc'[u] = pc[u] \/ (\A o \in Stopper : inside[o] # u)
    BY <1>1, <1>2, <1>3, Constants, WritersAreNumbers DEF InsidersHold, WriteLeftover, Goto, AfterAbandon, Thread, Busy
  <2> QED BY <2>1, <2>2, InsidersStay
<1> QED BY <1>16, <1>19, <1>20, <1>21, <1>22 DEF Base

\* stop() finds a queue to detach, or nothing to do.
LEMMA StopBase ==
  ASSUME Base, NEW s \in Stopper, Stop(s)
  PROVE  Base'
<1>1. Types /\ Locals /\ GuardHeld /\ LiveIsRun /\ InsidersHold
  BY DEF Base
<1>2. s \in Thread /\ StopperOK(s)
  BY DEF Base, Locals, LocalOK, Thread, Caller
<1>3. /\ pc \in [Thread -> Label] /\ hand \in [Thread -> SUBSET Item]
      /\ queue \in [Thread -> 0..MaxWriters] /\ orphan \in [Producer -> 0..MaxWriters]
      /\ own \in [Producer -> Event \cup {None}] /\ inside \in [Stopper -> 0..MaxWriters]
      /\ claim \in [Thread -> Nat] /\ made \in Nat /\ events \in Nat
  BY TypedNumbers DEF Base, Types, PlaceTypes, FlushTypes
<1>4. QueueTypes'
  BY <1>1, QueuesStay DEF Types, Stop, Goto, queues
<1>5. CountTypes'
  BY <1>1, CountsStay DEF Types, Stop, Goto, counted
<1>6. PlaceTypes'
  <2>1. inside' \in [Stopper -> 0..MaxWriters]
    BY <1>3, Constants DEF Stop, Goto, Writer
  <2> QED BY <2>1, <1>1 DEF Types, PlaceTypes, Stop, Goto
<1>7. FlushTypes'
  BY <1>1, FlushesStay DEF Types, Stop, Goto, flushes
<1>8. MarkTypes'
  BY <1>1, MarksStay DEF Types, Stop, Goto, marks
<1>9. WaitTypes'
  BY <1>1, WaitsStay DEF Types, Stop, Goto, waits
<1>10. HistoryTypes'
  BY <1>1, HistoriesStay DEF Types, Stop, Goto
<1>11. pc' \in [Thread -> Label]
  BY <1>3 DEF Label, Stop, Goto
<1>12. hand' \in [Thread -> SUBSET Item]
  BY <1>3 DEF Stop, Goto
<1>13. CastOK'
  <2>1. \A c \in Caller : (pc[c] = "absent") <=> (pc'[c] = "absent")
    BY <1>2, <1>3, Constants DEF Stop, Goto, Thread, Caller
  <2>2. Cast' = Cast
    BY <1>1, <1>11, <2>1, CastStays
  <2>3. events' = events
    BY DEF Stop, Goto
  <2> QED BY <1>1, <2>2, <2>3 DEF Types, CastOK
<1>14. Types'
  BY <1>4, <1>5, <1>6, <1>7, <1>8, <1>9, <1>10, <1>11, <1>12, <1>13 DEF Types
<1>15. Only({s})
  BY <1>3 DEF Only, Stop, Goto, queues, places, flushes
<1>16. StopperOK(s)'
  BY <1>2, <1>3 DEF StopperOK, Stop, Goto, flushes, queues
<1>17. Locals'
  BY <1>1, <1>2, <1>15, <1>16, OthersStay, LocalStopper DEF Locals
<1>18. GuardHeld'
  <2>1. UNCHANGED <<live, made, guard>>
    BY DEF Stop, Goto, queues
  <2>2. \A o \in Producer : /\ pc'[o] \in {"start", "restart"} <=> pc[o] \in {"start", "restart"}
                            /\ guard = o => queue'[o] = queue[o]
    BY <1>1, <1>2, <1>3, Constants DEF StopperOK, GuardHeld, Stop, Goto, places, Thread, Caller
  <2>3. \A u \in Writer : (pc[u] = "unmade") = (pc'[u] = "unmade")
    BY <1>2, <1>3, Constants DEF StopperOK, Stop, Goto, Thread
  <2> QED BY <2>1, <2>2, <2>3, GuardStays
<1>19. LiveIsRun'
  <2>1. UNCHANGED <<live, guard>>
    BY DEF Stop, Goto, queues
  <2>2. \A u \in Writer : pc[u] \in Serving => pc'[u] \in Serving
    BY <1>2, <1>3, Constants DEF Serving, Stop, Goto, Thread
  <2> QED BY <2>1, <2>2, ServingStays
<1>20. InsidersHold'
  <2>1. SUFFICES ASSUME NEW r \in Stopper, inside'[r] # None
                 PROVE  pc'[inside'[r]] \in {"write", "gapwrite", "leftover"}
    BY DEF InsidersHold
  <2>2. CASE inside'[r] = inside[r]
    <3>1. pc[inside[r]] \in {"write", "gapwrite", "leftover"} /\ inside[r] \in Writer
      BY <2>1, <2>2, <1>1, <1>3, WritersAreNumbers DEF InsidersHold
    <3>2. inside[r] # s
      BY <3>1, Constants
    <3> QED BY <2>2, <3>1, <3>2, <1>3 DEF Stop, Goto, Thread
  <2>3. CASE inside'[r] # inside[r]
    <3>1. PICK w \in Writer : pc[w] \in {"write", "gapwrite", "leftover"} /\ inside' = [inside EXCEPT ![s] = w]
      BY <2>3 DEF Stop, Goto
    <3>2. inside'[r] = w /\ w # s
      BY <2>3, <3>1, <1>3, Constants
    <3> QED BY <3>1, <3>2, <1>3 DEF Stop, Goto, Thread
  <2> QED BY <2>2, <2>3
<1> QED BY <1>14, <1>17, <1>18, <1>19, <1>20 DEF Base

\* stop() detaches the live queue under the guard.
LEMMA DetachBase ==
  ASSUME Base, NEW s \in Stopper, Detach(s)
  PROVE  Base'
<1>1. Types /\ Locals /\ GuardHeld /\ LiveIsRun /\ InsidersHold
  BY DEF Base
<1>2. s \in Thread /\ StopperOK(s)
  BY DEF Base, Locals, LocalOK, Thread, Caller
<1>3. /\ pc \in [Thread -> Label] /\ hand \in [Thread -> SUBSET Item]
      /\ queue \in [Thread -> 0..MaxWriters] /\ orphan \in [Producer -> 0..MaxWriters]
      /\ own \in [Producer -> Event \cup {None}] /\ inside \in [Stopper -> 0..MaxWriters]
      /\ claim \in [Thread -> Nat] /\ made \in Nat /\ events \in Nat
  BY TypedNumbers DEF Base, Types, PlaceTypes, FlushTypes
<1>4. live \in 0..MaxWriters /\ (live # None => live \in 1..made)
  <2>1. live \in 0..made /\ made \in 0..MaxWriters
    BY <1>1 DEF Types, QueueTypes
  <2> QED BY <2>1, Constants DEF None
<1>5. QueueTypes'
  BY <1>1 DEF Types, QueueTypes, Detach, Goto, None
<1>6. CountTypes'
  BY <1>1, CountsStay DEF Types, Detach, Goto, counted
<1>7. PlaceTypes'
  <2>1. inside' \in [Stopper -> 0..MaxWriters] /\ queue' \in [Thread -> 0..MaxWriters]
    BY <1>3, <1>4, Constants DEF Detach, Goto, None
  <2> QED BY <2>1, <1>1 DEF Types, PlaceTypes, Detach, Goto
<1>8. FlushTypes'
  BY <1>1, FlushesStay DEF Types, Detach, Goto, flushes
<1>9. MarkTypes'
  BY <1>1, MarksStay DEF Types, Detach, Goto, marks
<1>10. WaitTypes'
  BY <1>1, WaitsStay DEF Types, Detach, Goto, waits
<1>11. HistoryTypes'
  BY <1>1, HistoriesStay DEF Types, Detach, Goto
<1>12. pc' \in [Thread -> Label]
  BY <1>3 DEF Label, Detach, Goto
<1>13. hand' \in [Thread -> SUBSET Item]
  BY <1>3 DEF Detach, Goto
<1>14. CastOK'
  <2>1. \A c \in Caller : (pc[c] = "absent") <=> (pc'[c] = "absent")
    BY <1>2, <1>3, Constants DEF Detach, Goto, Thread, Caller
  <2>2. Cast' = Cast
    BY <1>1, <1>12, <2>1, CastStays
  <2>3. events' = events
    BY DEF Detach, Goto
  <2> QED BY <1>1, <2>2, <2>3 DEF Types, CastOK
<1>15. Types'
  BY <1>5, <1>6, <1>7, <1>8, <1>9, <1>10, <1>11, <1>12, <1>13, <1>14 DEF Types
<1>16. Only({s})
  BY <1>3 DEF Only, Detach, Goto, queues, places, flushes
<1>17. StopperOK(s)'
  BY <1>2, <1>3, <1>4 DEF StopperOK, Detach, Goto, flushes
<1>18. Locals'
  BY <1>1, <1>2, <1>16, <1>17, OthersStay, LocalStopper DEF Locals
<1>19. GuardHeld'
  <2>1. SUFFICES ASSUME NEW o \in Producer
                 PROVE  /\ pc'[o] \in {"start", "restart"} <=> guard' = o
                        /\ guard' = o => live' = queue'[o] /\ pc'[queue'[o]] = "unmade"
    BY DEF GuardHeld
  <2>2. guard = Nobody /\ guard' = Nobody /\ o \in Thread /\ Nobody \notin Producer /\ o # s
    BY Constants DEF Detach, Goto, Thread, Caller
  <2> QED BY <2>2, <1>1, <1>2, <1>3 DEF GuardHeld, Detach, Goto
<1>20. LiveIsRun'
  BY DEF LiveIsRun, Detach, Goto
<1>21. InsidersHold'
  <2>1. SUFFICES ASSUME NEW r \in Stopper, inside'[r] # None
                 PROVE  pc'[inside'[r]] \in {"write", "gapwrite", "leftover"}
    BY DEF InsidersHold
  <2>2. inside'[r] = inside[r]
    BY <2>1, <1>3 DEF Detach, Goto
  <2>3. pc[inside[r]] \in {"write", "gapwrite", "leftover"} /\ inside[r] \in Writer
    BY <2>1, <2>2, <1>1, <1>3, WritersAreNumbers DEF InsidersHold
  <2>4. inside[r] # s
    BY <2>3, Constants
  <2> QED BY <2>2, <2>3, <2>4, <1>3 DEF Detach, Goto, Thread
<1> QED BY <1>15, <1>18, <1>19, <1>20, <1>21 DEF Base

\* stop() wakes the writer of the queue it detached.
LEMMA SignalBase ==
  ASSUME Base, NEW s \in Stopper, Signal(s)
  PROVE  Base'
<1>1. Types /\ Locals /\ GuardHeld /\ LiveIsRun /\ InsidersHold
  BY DEF Base
<1>2. s \in Thread /\ StopperOK(s)
  BY DEF Base, Locals, LocalOK, Thread, Caller
<1>3. /\ pc \in [Thread -> Label] /\ hand \in [Thread -> SUBSET Item]
      /\ queue \in [Thread -> 0..MaxWriters] /\ orphan \in [Producer -> 0..MaxWriters]
      /\ own \in [Producer -> Event \cup {None}] /\ inside \in [Stopper -> 0..MaxWriters]
      /\ claim \in [Thread -> Nat] /\ made \in Nat /\ events \in Nat
  BY TypedNumbers DEF Base, Types, PlaceTypes, FlushTypes
<1>4. queue[s] \in Writer /\ queue[s] \in 1..made
  BY <1>1, <1>2, TypedNumbers DEF StopperOK, Signal, Goto
<1>5. /\ buffer' \in [Writer -> Seq(Item)]
      /\ \A r \in Writer : Len(buffer'[r]) <= BufferSize
  <2>1. CASE Full(queue[s])
    BY <2>1, <1>1 DEF Signal, Goto, Types, QueueTypes
  <2>2. CASE ~Full(queue[s])
    BY <2>2, <1>1, <1>4, PutTyped DEF Signal, Goto, Types, Item
  <2> QED BY <2>1, <2>2
<1>6. QueueTypes'
  BY <1>1, <1>5 DEF Types, QueueTypes, Signal, Goto
<1>7. CountTypes'
  BY <1>1, CountsStay DEF Types, Signal, Goto, counted
<1>8. PlaceTypes'
  BY <1>1, PlacesStay DEF Types, Signal, Goto, places
<1>9. FlushTypes'
  BY <1>1, FlushesStay DEF Types, Signal, Goto, flushes
<1>10. MarkTypes'
  BY <1>1, MarksStay DEF Types, Signal, Goto, marks
<1>11. WaitTypes'
  BY <1>1, WaitsStay DEF Types, Signal, Goto, waits
<1>12. HistoryTypes'
  BY <1>1, HistoriesStay DEF Types, Signal, Goto
<1>13. pc' \in [Thread -> Label]
  BY <1>3 DEF Label, Signal, Goto
<1>14. hand' \in [Thread -> SUBSET Item]
  BY <1>3 DEF Signal, Goto
<1>15. CastOK'
  <2>1. \A c \in Caller : (pc[c] = "absent") <=> (pc'[c] = "absent")
    BY <1>2, <1>3, Constants DEF Signal, Goto, Thread, Caller
  <2>2. Cast' = Cast
    BY <1>1, <1>13, <2>1, CastStays
  <2>3. events' = events
    BY DEF Signal, Goto
  <2> QED BY <1>1, <2>2, <2>3 DEF Types, CastOK
<1>16. Types'
  BY <1>6, <1>7, <1>8, <1>9, <1>10, <1>11, <1>12, <1>13, <1>14, <1>15 DEF Types
<1>17. Only({s})
  BY <1>3 DEF Only, Signal, Goto, queues, places, flushes
<1>18. StopperOK(s)'
  <2>1. pc'[s] \in {"abandon", "join"} /\ UNCHANGED <<queue, hand, inside, claim, made>>
    BY <1>2, <1>3 DEF Signal, Goto, places, flushes
  <2> QED BY <2>1, <1>2, <1>4 DEF StopperOK, Signal, Goto
<1>19. Locals'
  BY <1>1, <1>2, <1>17, <1>18, OthersStay, LocalStopper DEF Locals
<1>20. GuardHeld'
  <2>1. UNCHANGED <<live, made, guard>>
    BY DEF Signal, Goto, queues
  <2>2. \A o \in Producer : /\ pc'[o] \in {"start", "restart"} <=> pc[o] \in {"start", "restart"}
                            /\ guard = o => queue'[o] = queue[o]
    BY <1>1, <1>2, <1>3, Constants DEF StopperOK, GuardHeld, Signal, Goto, places, Thread, Caller
  <2>3. \A u \in Writer : (pc[u] = "unmade") = (pc'[u] = "unmade")
    BY <1>2, <1>3, Constants DEF StopperOK, Signal, Goto, Thread
  <2> QED BY <2>1, <2>2, <2>3, GuardStays
<1>21. LiveIsRun'
  <2>1. UNCHANGED <<live, guard>>
    BY DEF Signal, Goto, queues
  <2>2. \A u \in Writer : pc[u] \in Serving => pc'[u] \in Serving
    BY <1>2, <1>3, Constants DEF Serving, Signal, Goto, Thread
  <2> QED BY <2>1, <2>2, ServingStays
<1>22. InsidersHold'
  <2>1. UNCHANGED inside
    BY DEF Signal, Goto, places
  <2>2. \A u \in Writer : pc'[u] = pc[u] \/ (\A o \in Stopper : inside[o] # u)
    BY <1>1, <1>2, <1>3, Constants, WritersAreNumbers DEF InsidersHold, Signal, Goto, Thread, Busy
  <2> QED BY <2>1, <2>2, InsidersStay
<1> QED BY <1>16, <1>19, <1>20, <1>21, <1>22 DEF Base

\* stop() waits for that writer, or gives up waiting.
LEMMA JoinBase ==
  ASSUME Base, NEW s \in Stopper, Join(s)
  PROVE  Base'
<1>1. Types /\ Locals /\ GuardHeld /\ LiveIsRun /\ InsidersHold
  BY DEF Base
<1>2. s \in Thread /\ StopperOK(s)
  BY DEF Base, Locals, LocalOK, Thread, Caller
<1>3. /\ pc \in [Thread -> Label] /\ hand \in [Thread -> SUBSET Item]
      /\ queue \in [Thread -> 0..MaxWriters] /\ orphan \in [Producer -> 0..MaxWriters]
      /\ own \in [Producer -> Event \cup {None}] /\ inside \in [Stopper -> 0..MaxWriters]
      /\ claim \in [Thread -> Nat] /\ made \in Nat /\ events \in Nat
  BY TypedNumbers DEF Base, Types, PlaceTypes, FlushTypes
<1>4. QueueTypes'
  BY <1>1, QueuesStay DEF Types, Join, Goto, queues
<1>5. CountTypes'
  BY <1>1, CountsStay DEF Types, Join, Goto, counted
<1>6. PlaceTypes'
  BY <1>1, PlacesStay DEF Types, Join, Goto, places
<1>7. FlushTypes'
  BY <1>1, FlushesStay DEF Types, Join, Goto, flushes
<1>8. MarkTypes'
  BY <1>1, MarksStay DEF Types, Join, Goto, marks
<1>9. WaitTypes'
  BY <1>1, WaitsStay DEF Types, Join, Goto, waits
<1>10. HistoryTypes'
  BY <1>1, HistoriesStay DEF Types, Join, Goto
<1>11. pc' \in [Thread -> Label]
  BY <1>3 DEF Label, Join, Goto
<1>12. hand' \in [Thread -> SUBSET Item]
  BY <1>3 DEF Join, Goto
<1>13. CastOK'
  <2>1. \A c \in Caller : (pc[c] = "absent") <=> (pc'[c] = "absent")
    BY <1>2, <1>3, Constants DEF Join, Goto, Thread, Caller
  <2>2. Cast' = Cast
    BY <1>1, <1>11, <2>1, CastStays
  <2>3. events' = events
    BY DEF Join, Goto
  <2> QED BY <1>1, <2>2, <2>3 DEF Types, CastOK
<1>14. Types'
  BY <1>4, <1>5, <1>6, <1>7, <1>8, <1>9, <1>10, <1>11, <1>12, <1>13 DEF Types
<1>15. Only({s})
  BY <1>3 DEF Only, Join, Goto, queues, places, flushes
<1>16. StopperOK(s)'
  BY <1>2, <1>3 DEF StopperOK, Join, Goto, places, flushes, queues
<1>17. Locals'
  BY <1>1, <1>2, <1>15, <1>16, OthersStay, LocalStopper DEF Locals
<1>18. GuardHeld'
  <2>1. UNCHANGED <<live, made, guard>>
    BY DEF Join, Goto, queues
  <2>2. \A o \in Producer : /\ pc'[o] \in {"start", "restart"} <=> pc[o] \in {"start", "restart"}
                            /\ guard = o => queue'[o] = queue[o]
    BY <1>1, <1>2, <1>3, Constants DEF StopperOK, GuardHeld, Join, Goto, places, Thread, Caller
  <2>3. \A u \in Writer : (pc[u] = "unmade") = (pc'[u] = "unmade")
    BY <1>2, <1>3, Constants DEF StopperOK, Join, Goto, Thread
  <2> QED BY <2>1, <2>2, <2>3, GuardStays
<1>19. LiveIsRun'
  <2>1. UNCHANGED <<live, guard>>
    BY DEF Join, Goto, queues
  <2>2. \A u \in Writer : pc[u] \in Serving => pc'[u] \in Serving
    BY <1>2, <1>3, Constants DEF Serving, Join, Goto, Thread
  <2> QED BY <2>1, <2>2, ServingStays
<1>20. InsidersHold'
  <2>1. UNCHANGED inside
    BY DEF Join, Goto, places
  <2>2. \A u \in Writer : pc'[u] = pc[u] \/ (\A o \in Stopper : inside[o] # u)
    BY <1>1, <1>2, <1>3, Constants, WritersAreNumbers DEF InsidersHold, Join, Goto, Thread, Busy
  <2> QED BY <2>1, <2>2, InsidersStay
<1> QED BY <1>14, <1>17, <1>18, <1>19, <1>20 DEF Base

\* stop() drops the mark of a writer that is not its own thread.
LEMMA ForgetBase ==
  ASSUME Base, NEW s \in Stopper, Forget(s)
  PROVE  Base'
<1>1. Types /\ Locals /\ GuardHeld /\ LiveIsRun /\ InsidersHold
  BY DEF Base
<1>2. s \in Thread /\ StopperOK(s)
  BY DEF Base, Locals, LocalOK, Thread, Caller
<1>3. /\ pc \in [Thread -> Label] /\ hand \in [Thread -> SUBSET Item]
      /\ queue \in [Thread -> 0..MaxWriters] /\ orphan \in [Producer -> 0..MaxWriters]
      /\ own \in [Producer -> Event \cup {None}] /\ inside \in [Stopper -> 0..MaxWriters]
      /\ claim \in [Thread -> Nat] /\ made \in Nat /\ events \in Nat
  BY TypedNumbers DEF Base, Types, PlaceTypes, FlushTypes
<1>4. QueueTypes'
  BY <1>1, QueuesStay DEF Types, Forget, Goto, queues
<1>5. CountTypes'
  BY <1>1, CountsStay DEF Types, Forget, Goto, counted
<1>6. PlaceTypes'
  <2>1. inside' \in [Stopper -> 0..MaxWriters] /\ queue' \in [Thread -> 0..MaxWriters]
    BY <1>3, Constants DEF Forget, Goto, None
  <2> QED BY <2>1, <1>1 DEF Types, PlaceTypes, Forget, Goto
<1>7. FlushTypes'
  BY <1>1, FlushesStay DEF Types, Forget, Goto, flushes
<1>8. MarkTypes'
  BY <1>1 DEF Types, MarkTypes, Forget, Goto
<1>9. WaitTypes'
  BY <1>1, WaitsStay DEF Types, Forget, Goto, waits
<1>10. HistoryTypes'
  BY <1>1, HistoriesStay DEF Types, Forget, Goto
<1>11. pc' \in [Thread -> Label]
  BY <1>3 DEF Label, Forget, Goto
<1>12. hand' \in [Thread -> SUBSET Item]
  BY <1>3 DEF Forget, Goto
<1>13. CastOK'
  <2>1. \A c \in Caller : (pc[c] = "absent") <=> (pc'[c] = "absent")
    BY <1>2, <1>3, Constants DEF Forget, Goto, Thread, Caller
  <2>2. Cast' = Cast
    BY <1>1, <1>11, <2>1, CastStays
  <2>3. events' = events
    BY DEF Forget, Goto
  <2> QED BY <1>1, <2>2, <2>3 DEF Types, CastOK
<1>14. Types'
  BY <1>4, <1>5, <1>6, <1>7, <1>8, <1>9, <1>10, <1>11, <1>12, <1>13 DEF Types
<1>15. Only({s})
  BY <1>3 DEF Only, Forget, Goto, queues, places, flushes
<1>16. StopperOK(s)'
  BY <1>2, <1>3 DEF StopperOK, Forget, Goto, places, flushes, queues
<1>17. Locals'
  BY <1>1, <1>2, <1>15, <1>16, OthersStay, LocalStopper DEF Locals
<1>18. GuardHeld'
  <2>1. UNCHANGED <<live, made, guard>>
    BY DEF Forget, Goto, queues
  <2>2. \A o \in Producer : /\ pc'[o] \in {"start", "restart"} <=> pc[o] \in {"start", "restart"}
                            /\ guard = o => queue'[o] = queue[o]
    BY <1>1, <1>2, <1>3, Constants DEF StopperOK, GuardHeld, Forget, Goto, places, Thread, Caller
  <2>3. \A u \in Writer : (pc[u] = "unmade") = (pc'[u] = "unmade")
    BY <1>2, <1>3, Constants DEF StopperOK, Forget, Goto, Thread
  <2> QED BY <2>1, <2>2, <2>3, GuardStays
<1>19. LiveIsRun'
  <2>1. UNCHANGED <<live, guard>>
    BY DEF Forget, Goto, queues
  <2>2. \A u \in Writer : pc[u] \in Serving => pc'[u] \in Serving
    BY <1>2, <1>3, Constants DEF Serving, Forget, Goto, Thread
  <2> QED BY <2>1, <2>2, ServingStays
<1>20. InsidersHold'
  <2>1. SUFFICES ASSUME NEW r \in Stopper, inside'[r] # None
                 PROVE  pc'[inside'[r]] \in {"write", "gapwrite", "leftover"}
    BY DEF InsidersHold
  <2>2. inside'[r] = inside[r]
    BY <2>1, <1>3 DEF Forget, Goto
  <2>3. pc[inside[r]] \in {"write", "gapwrite", "leftover"} /\ inside[r] \in Writer
    BY <2>1, <2>2, <1>1, <1>3, WritersAreNumbers DEF InsidersHold
  <2>4. inside[r] # s
    BY <2>3, Constants
  <2> QED BY <2>2, <2>3, <2>4, <1>3 DEF Forget, Goto, Thread
<1> QED BY <1>14, <1>17, <1>18, <1>19, <1>20 DEF Base

\* flush() returns at once where there is nothing to wait for.
LEMMA FlushCallBase ==
  ASSUME Base, NEW f \in Waiter, FlushCall(f)
  PROVE  Base'
<1>1. Types /\ Locals /\ GuardHeld /\ LiveIsRun /\ InsidersHold
  BY DEF Base
<1>2. f \in Thread /\ WaiterOK(f)
  BY DEF Base, Locals, LocalOK, Thread, Caller
<1>3. /\ pc \in [Thread -> Label] /\ hand \in [Thread -> SUBSET Item]
      /\ queue \in [Thread -> 0..MaxWriters] /\ orphan \in [Producer -> 0..MaxWriters]
      /\ own \in [Producer -> Event \cup {None}] /\ inside \in [Stopper -> 0..MaxWriters]
      /\ claim \in [Thread -> Nat] /\ made \in Nat /\ events \in Nat
  BY TypedNumbers DEF Base, Types, PlaceTypes, FlushTypes
<1>4. live \in 0..MaxWriters /\ (live # None => live \in 1..made)
  <2>1. live \in 0..made /\ made \in 0..MaxWriters
    BY <1>1 DEF Types, QueueTypes
  <2> QED BY <2>1, Constants DEF None
<1>5. QueueTypes'
  BY <1>1, QueuesStay DEF Types, FlushCall, Goto, queues
<1>6. CountTypes'
  BY <1>1, CountsStay DEF Types, FlushCall, Goto, counted
<1>7. PlaceTypes'
  <2>1. queue' \in [Thread -> 0..MaxWriters]
    BY <1>3, <1>4 DEF FlushCall, Goto
  <2> QED BY <2>1, <1>1 DEF Types, PlaceTypes, FlushCall, Goto
<1>8. FlushTypes'
  BY <1>1, FlushesStay DEF Types, FlushCall, Goto, flushes
<1>9. MarkTypes'
  BY <1>1, MarksStay DEF Types, FlushCall, Goto, marks
<1>10. WaitTypes'
  <2>1. {e \in 1..events : \A p \in Producer : own[p] # e} \in SUBSET Event
    BY <1>1, TypedNumbers
  <2>2. since' \in [Waiter -> SUBSET Event]
    BY <2>1, <1>1 DEF Types, WaitTypes, FlushCall, Goto
  <2> QED BY <2>2, <1>1 DEF Types, WaitTypes, FlushCall, Goto
<1>11. HistoryTypes'
  BY <1>1, HistoriesStay DEF Types, FlushCall, Goto
<1>12. pc' \in [Thread -> Label]
  BY <1>3 DEF Label, FlushCall, Goto
<1>13. hand' \in [Thread -> SUBSET Item]
  BY <1>3 DEF FlushCall, Goto
<1>14. CastOK'
  <2>1. \A c \in Caller : (pc[c] = "absent") <=> (pc'[c] = "absent")
    BY <1>2, <1>3, Constants DEF FlushCall, Goto, Thread, Caller
  <2>2. Cast' = Cast
    BY <1>1, <1>12, <2>1, CastStays
  <2>3. events' = events
    BY DEF FlushCall, Goto
  <2> QED BY <1>1, <2>2, <2>3 DEF Types, CastOK
<1>15. Types'
  BY <1>5, <1>6, <1>7, <1>8, <1>9, <1>10, <1>11, <1>12, <1>13, <1>14 DEF Types
<1>16. Only({f})
  BY <1>3 DEF Only, FlushCall, Goto, queues, places, flushes
<1>17. WaiterOK(f)'
  BY <1>2, <1>3, <1>4 DEF WaiterOK, FlushCall, Goto, flushes, queues
<1>18. Locals'
  BY <1>1, <1>2, <1>16, <1>17, OthersStay, LocalWaiter DEF Locals
<1>19. GuardHeld'
  <2>1. UNCHANGED <<live, made, guard>>
    BY DEF FlushCall, Goto, queues
  <2>2. \A o \in Producer : /\ pc'[o] \in {"start", "restart"} <=> pc[o] \in {"start", "restart"}
                            /\ guard = o => queue'[o] = queue[o]
    BY <1>1, <1>2, <1>3, Constants DEF WaiterOK, GuardHeld, FlushCall, Goto, places, Thread, Caller
  <2>3. \A u \in Writer : (pc[u] = "unmade") = (pc'[u] = "unmade")
    BY <1>2, <1>3, Constants DEF WaiterOK, FlushCall, Goto, Thread
  <2> QED BY <2>1, <2>2, <2>3, GuardStays
<1>20. LiveIsRun'
  <2>1. UNCHANGED <<live, guard>>
    BY DEF FlushCall, Goto, queues
  <2>2. \A u \in Writer : pc[u] \in Serving => pc'[u] \in Serving
    BY <1>2, <1>3, Constants DEF Serving, FlushCall, Goto, Thread
  <2> QED BY <2>1, <2>2, ServingStays
<1>21. InsidersHold'
  <2>1. UNCHANGED inside
    BY DEF FlushCall, Goto, places
  <2>2. \A u \in Writer : pc'[u] = pc[u] \/ (\A o \in Stopper : inside[o] # u)
    BY <1>1, <1>2, <1>3, Constants, WritersAreNumbers DEF InsidersHold, FlushCall, Goto, Thread, Busy
  <2> QED BY <2>1, <2>2, InsidersStay
<1> QED BY <1>15, <1>18, <1>19, <1>20, <1>21 DEF Base

\* flush() puts its wake behind what is queued, or returns.
LEMMA FlushMarkBase ==
  ASSUME Base, NEW f \in Waiter, FlushMark(f)
  PROVE  Base'
<1>1. Types /\ Locals /\ GuardHeld /\ LiveIsRun /\ InsidersHold
  BY DEF Base
<1>2. f \in Thread /\ WaiterOK(f)
  BY DEF Base, Locals, LocalOK, Thread, Caller
<1>3. /\ pc \in [Thread -> Label] /\ hand \in [Thread -> SUBSET Item]
      /\ queue \in [Thread -> 0..MaxWriters] /\ orphan \in [Producer -> 0..MaxWriters]
      /\ own \in [Producer -> Event \cup {None}] /\ inside \in [Stopper -> 0..MaxWriters]
      /\ claim \in [Thread -> Nat] /\ made \in Nat /\ events \in Nat
  BY TypedNumbers DEF Base, Types, PlaceTypes, FlushTypes
<1>4. queue[f] \in Writer /\ queue[f] \in 1..made
  BY <1>1, <1>2, TypedNumbers DEF WaiterOK, FlushMark, Goto
<1>5. /\ buffer' \in [Writer -> Seq(Item)]
      /\ \A r \in Writer : Len(buffer'[r]) <= BufferSize
  <2>1. CASE Full(queue[f])
    BY <2>1, <1>1 DEF FlushMark, Goto, Types, QueueTypes
  <2>2. CASE ~Full(queue[f])
    BY <2>2, <1>1, <1>4, PutTyped DEF FlushMark, Goto, Types, Item
  <2> QED BY <2>1, <2>2
<1>6. QueueTypes'
  BY <1>1, <1>5 DEF Types, QueueTypes, FlushMark, Goto
<1>7. CountTypes'
  BY <1>1, CountsStay DEF Types, FlushMark, Goto, counted
<1>8. PlaceTypes'
  BY <1>1, PlacesStay DEF Types, FlushMark, Goto, places
<1>9. FlushTypes'
  BY <1>1, FlushesStay DEF Types, FlushMark, Goto, flushes
<1>10. MarkTypes'
  BY <1>1, MarksStay DEF Types, FlushMark, Goto, marks
<1>11. WaitTypes'
  BY <1>1, WaitsStay DEF Types, FlushMark, Goto, waits
<1>12. HistoryTypes'
  BY <1>1, HistoriesStay DEF Types, FlushMark, Goto
<1>13. pc' \in [Thread -> Label]
  BY <1>3 DEF Label, FlushMark, Goto
<1>14. hand' \in [Thread -> SUBSET Item]
  BY <1>3 DEF FlushMark, Goto
<1>15. CastOK'
  <2>1. \A c \in Caller : (pc[c] = "absent") <=> (pc'[c] = "absent")
    BY <1>2, <1>3, Constants DEF FlushMark, Goto, Thread, Caller
  <2>2. Cast' = Cast
    BY <1>1, <1>13, <2>1, CastStays
  <2>3. events' = events
    BY DEF FlushMark, Goto
  <2> QED BY <1>1, <2>2, <2>3 DEF Types, CastOK
<1>16. Types'
  BY <1>6, <1>7, <1>8, <1>9, <1>10, <1>11, <1>12, <1>13, <1>14, <1>15 DEF Types
<1>17. Only({f})
  BY <1>3 DEF Only, FlushMark, Goto, queues, places, flushes
<1>18. WaiterOK(f)'
  BY <1>2, <1>3 DEF WaiterOK, FlushMark, Goto, places, flushes, queues
<1>19. Locals'
  BY <1>1, <1>2, <1>17, <1>18, OthersStay, LocalWaiter DEF Locals
<1>20. GuardHeld'
  <2>1. UNCHANGED <<live, made, guard>>
    BY DEF FlushMark, Goto, queues
  <2>2. \A o \in Producer : /\ pc'[o] \in {"start", "restart"} <=> pc[o] \in {"start", "restart"}
                            /\ guard = o => queue'[o] = queue[o]
    BY <1>1, <1>2, <1>3, Constants DEF WaiterOK, GuardHeld, FlushMark, Goto, places, Thread, Caller
  <2>3. \A u \in Writer : (pc[u] = "unmade") = (pc'[u] = "unmade")
    BY <1>2, <1>3, Constants DEF WaiterOK, FlushMark, Goto, Thread
  <2> QED BY <2>1, <2>2, <2>3, GuardStays
<1>21. LiveIsRun'
  <2>1. UNCHANGED <<live, guard>>
    BY DEF FlushMark, Goto, queues
  <2>2. \A u \in Writer : pc[u] \in Serving => pc'[u] \in Serving
    BY <1>2, <1>3, Constants DEF Serving, FlushMark, Goto, Thread
  <2> QED BY <2>1, <2>2, ServingStays
<1>22. InsidersHold'
  <2>1. UNCHANGED inside
    BY DEF FlushMark, Goto, places
  <2>2. \A u \in Writer : pc'[u] = pc[u] \/ (\A o \in Stopper : inside[o] # u)
    BY <1>1, <1>2, <1>3, Constants, WritersAreNumbers DEF InsidersHold, FlushMark, Goto, Thread, Busy
  <2> QED BY <2>1, <2>2, InsidersStay
<1> QED BY <1>16, <1>19, <1>20, <1>21, <1>22 DEF Base

\* drain_once() takes a batch off the live queue for itself.
LEMMA DrainBase ==
  ASSUME Base, NEW d \in Drainer, Drain(d)
  PROVE  Base'
<1>1. Types /\ Locals /\ GuardHeld /\ LiveIsRun /\ InsidersHold
  BY DEF Base
<1>2. d \in Thread /\ DrainerOK(d)
  BY DEF Base, Locals, LocalOK, Thread, Caller
<1>3. /\ pc \in [Thread -> Label] /\ hand \in [Thread -> SUBSET Item]
      /\ queue \in [Thread -> 0..MaxWriters] /\ orphan \in [Producer -> 0..MaxWriters]
      /\ own \in [Producer -> Event \cup {None}] /\ inside \in [Stopper -> 0..MaxWriters]
      /\ claim \in [Thread -> Nat] /\ made \in Nat /\ events \in Nat
  BY TypedNumbers DEF Base, Types, PlaceTypes, FlushTypes
<1>4. live \in Writer
  BY <1>1, TypedNumbers DEF Drain, Goto
<1>5. Range(buffer[live]) \subseteq Item
  BY <1>1, <1>4, ItemsOfQueue DEF Types
<1>6. hand'[d] = Range(buffer[live])
  BY <1>2, <1>3 DEF Drain, Goto
<1>7. /\ buffer' \in [Writer -> Seq(Item)]
      /\ \A r \in Writer : Len(buffer'[r]) <= BufferSize
  BY <1>1, <1>4, EmptyTyped DEF Drain, Goto, Types
<1>8. QueueTypes'
  BY <1>1, <1>7 DEF Types, QueueTypes, Drain, Goto
<1>9. CountTypes'
  BY <1>1, CountsStay DEF Types, Drain, Goto, counted
<1>10. PlaceTypes'
  BY <1>1, PlacesStay DEF Types, Drain, Goto, places
<1>11. FlushTypes'
  BY <1>1, FlushesStay DEF Types, Drain, Goto, flushes
<1>12. MarkTypes'
  BY <1>1, MarksStay DEF Types, Drain, Goto, marks
<1>13. WaitTypes'
  BY <1>1, WaitsStay DEF Types, Drain, Goto, waits
<1>14. HistoryTypes'
  BY <1>1, HistoriesStay DEF Types, Drain, Goto
<1>15. pc' \in [Thread -> Label]
  BY <1>3 DEF Label, Drain, Goto
<1>16. hand' \in [Thread -> SUBSET Item]
  BY <1>3, <1>5 DEF Drain, Goto
<1>17. CastOK'
  <2>1. \A c \in Caller : (pc[c] = "absent") <=> (pc'[c] = "absent")
    BY <1>2, <1>3, Constants DEF Drain, Goto, Thread, Caller
  <2>2. Cast' = Cast
    BY <1>1, <1>15, <2>1, CastStays
  <2>3. events' = events
    BY DEF Drain, Goto
  <2> QED BY <1>1, <2>2, <2>3 DEF Types, CastOK
<1>18. Types'
  BY <1>8, <1>9, <1>10, <1>11, <1>12, <1>13, <1>14, <1>15, <1>16, <1>17 DEF Types
<1>19. Only({d})
  BY <1>3 DEF Only, Drain, Goto, queues, places, flushes
<1>20. DrainerOK(d)'
  <2>1. pc'[d] \in {"ack", "flush"} /\ (pc'[d] = "ack" => Held(d)' = {})
    BY <1>2, <1>3 DEF Drain, Goto
  <2>2. claim'[d] = 0
    BY <1>2 DEF DrainerOK, Drain, Goto, flushes
  <2> QED BY <2>1, <2>2 DEF DrainerOK
<1>21. Locals'
  BY <1>1, <1>2, <1>19, <1>20, OthersStay, LocalDrainer DEF Locals
<1>22. GuardHeld'
  <2>1. UNCHANGED <<live, made, guard>>
    BY DEF Drain, Goto, queues
  <2>2. \A o \in Producer : /\ pc'[o] \in {"start", "restart"} <=> pc[o] \in {"start", "restart"}
                            /\ guard = o => queue'[o] = queue[o]
    BY <1>1, <1>2, <1>3, Constants DEF DrainerOK, GuardHeld, Drain, Goto, places, Thread, Caller
  <2>3. \A u \in Writer : (pc[u] = "unmade") = (pc'[u] = "unmade")
    BY <1>2, <1>3, Constants DEF DrainerOK, Drain, Goto, Thread
  <2> QED BY <2>1, <2>2, <2>3, GuardStays
<1>23. LiveIsRun'
  <2>1. UNCHANGED <<live, guard>>
    BY DEF Drain, Goto, queues
  <2>2. \A u \in Writer : pc[u] \in Serving => pc'[u] \in Serving
    BY <1>2, <1>3, Constants DEF Serving, Drain, Goto, Thread
  <2> QED BY <2>1, <2>2, ServingStays
<1>24. InsidersHold'
  <2>1. UNCHANGED inside
    BY DEF Drain, Goto, places
  <2>2. \A u \in Writer : pc'[u] = pc[u] \/ (\A o \in Stopper : inside[o] # u)
    BY <1>1, <1>2, <1>3, Constants, WritersAreNumbers DEF InsidersHold, Drain, Goto, Thread, Busy
  <2> QED BY <2>1, <2>2, InsidersStay
<1> QED BY <1>18, <1>21, <1>22, <1>23, <1>24 DEF Base

-----------------------------------------------------------------------------
\* Before the first call nobody holds anything.
LEMMA InitBase ==
  ASSUME Init
  PROVE  Base
<1>1. PICK cast \in Casts :
        pc = [t \in Thread |-> IF t \in cast THEN "idle" ELSE IF t \in Writer THEN "unmade" ELSE "absent"]
  BY DEF Init
<1>2. cast \subseteq Caller /\ cast \cap Writer = {}
  BY CastsAreCallers, WritersAreTheirOwn DEF Caller
<1>3. Cast = cast
  <2>1. \A c \in Caller : c \in Thread /\ c \notin Writer
    BY WritersAreTheirOwn DEF Thread
  <2>2. \A c \in Caller : pc[c] # "absent" <=> c \in cast
    BY <1>1, <2>1
  <2> QED BY <1>2, <2>2 DEF Cast
<1>4. MaxEvents[cast] \in Nat
  BY EventBound
<1>5. CastOK
  BY <1>3, <1>4 DEF CastOK, Init
<1>6. QueueTypes
  <2>1. <<>> \in Seq(Item) /\ Len(<<>>) <= BufferSize
    BY Constants, EmptySeq
  <2>2. buffer \in [Writer -> Seq(Item)] /\ \A q \in Writer : Len(buffer[q]) <= BufferSize
    BY <2>1 DEF Init
  <2>3. live = 0 /\ made = 0 /\ guard = Nobody /\ stopping = FALSE
    BY DEF Init, None
  <2>4. live \in 0..made /\ made \in 0..MaxWriters
    BY <2>3, Constants
  <2> QED BY <2>2, <2>3, <2>4 DEF QueueTypes
<1>7. CountTypes /\ MarkTypes /\ WaitTypes /\ HistoryTypes
  BY Constants DEF CountTypes, MarkTypes, WaitTypes, HistoryTypes, Init
<1>8. PlaceTypes
  <2>1. \A t \in Writer : t \in 0..MaxWriters
    BY Constants DEF Writer
  <2> QED BY <2>1, Constants DEF PlaceTypes, Init, None
<1>9. FlushTypes
  BY Constants DEF FlushTypes, Init
<1>10. pc \in [Thread -> Label] /\ hand \in [Thread -> SUBSET Item]
  BY <1>1 DEF Label, Init
<1>11. Types
  BY <1>5, <1>6, <1>7, <1>8, <1>9, <1>10 DEF Types
<1>12. ASSUME NEW t \in Thread PROVE LocalOK(t)
  <2>1. /\ hand[t] = {} /\ claim[t] = 0 /\ queue[t] = (IF t \in Writer THEN t ELSE None)
        /\ pc[t] = IF t \in cast THEN "idle" ELSE IF t \in Writer THEN "unmade" ELSE "absent"
    BY <1>1 DEF Init
  <2>2. t \in Writer => pc[t] = "unmade" /\ queue[t] = t
    BY <1>2, <2>1
  <2>3. t \notin Writer => pc[t] \in {"idle", "absent"}
    BY <2>1
  <2>4. t \in Writer => WriterOK(t)
    BY <2>1, <2>2 DEF WriterOK
  <2>5. t \in Producer => ProducerOK(t)
    BY <2>1, <2>3, Constants DEF ProducerOK, Init
  <2>6. t \in Stopper => StopperOK(t)
    BY <2>1, <2>3, Constants DEF StopperOK, Init
  <2>7. t \in Waiter => WaiterOK(t)
    BY <2>1, <2>3, Constants DEF WaiterOK
  <2>8. t \in Drainer => DrainerOK(t)
    BY <2>1, <2>3, Constants DEF DrainerOK
  <2> QED BY <2>4, <2>5, <2>6, <2>7, <2>8 DEF LocalOK
<1>13. GuardHeld
  <2>1. \A p \in Producer : pc[p] \in {"idle", "absent"} /\ guard # p
    BY <1>1, Constants DEF Init, Thread
  <2> QED BY <2>1 DEF GuardHeld
<1>14. LiveIsRun /\ InsidersHold
  BY DEF LiveIsRun, InsidersHold, Init
<1> QED BY <1>11, <1>12, <1>13, <1>14 DEF Base, Locals

LEMMA StutterBase ==
  ASSUME Base, UNCHANGED vars
  PROVE  Base'
<1>1. /\ UNCHANGED <<queues, counted, places, flushes, marks, waits>>
      /\ UNCHANGED <<events, pc, hand, noThread, delivered, rehomed>>
  BY DEF vars
<1>2. Types'
  <2>1. Cast' = Cast
    BY <1>1 DEF Cast
  <2> QED BY <1>1, <2>1, QueuesStay, CountsStay, PlacesStay, FlushesStay, MarksStay, WaitsStay,
             HistoriesStay DEF Base, Types, CastOK
<1>3. Locals'
  <2>1. Only({})
    BY <1>1, TypedNumbers DEF Base, Only, queues, places, flushes
  <2> QED BY <2>1, OthersStay DEF Base, Locals
<1>4. GuardHeld' /\ LiveIsRun' /\ InsidersHold'
  BY <1>1 DEF Base, GuardHeld, LiveIsRun, InsidersHold, queues, places
<1> QED BY <1>2, <1>3, <1>4 DEF Base

\* Every step keeps Base.
LEMMA NextBase ==
  ASSUME Base, [Next]_vars
  PROVE  Base'
<1>1. ASSUME NEW p \in Producer, Record(p) \/ Recording(p) PROVE Base'
  BY <1>1, RecordBase, LookUpBase, MakeQueueBase, StartWriterBase, NoThreadBase, WriteHereBase,
     PutEventBase, QueueFullBase, CheckQueueBase, TakeOrphanBase, PutRehomedBase DEF Recording
<1>2. ASSUME NEW t \in Writer \cup Drainer, Flushing(t) PROVE Base'
  BY <1>2, FlushBase, WrittenBase, WriteFailedBase, ClaimGapBase, GapRowBase, AcknowledgeBase
     DEF Flushing
<1>3. ASSUME NEW t \in Writer \cup Stopper, Abandoning(t) PROVE Base'
  BY <1>3, EmptyQueueBase, WriteLeftoverBase DEF Abandoning
<1>4. ASSUME NEW w \in Writer, Running(w) PROVE Base'
  BY <1>2, <1>3, <1>4, TakeBase, CollectedBase, DiscardBase, KeepGoingBase, LeaveBase,
     CloseConnectionBase DEF Running
<1>5. ASSUME NEW s \in Stopper, Stop(s) \/ StoppingIt(s) PROVE Base'
  BY <1>3, <1>5, StopBase, DetachBase, SignalBase, JoinBase, ForgetBase DEF StoppingIt
<1>6. ASSUME NEW f \in Waiter, FlushCall(f) \/ FlushMark(f) PROVE Base'
  BY <1>6, FlushCallBase, FlushMarkBase
<1>7. ASSUME NEW d \in Drainer, Drain(d) \/ Flushing(d) PROVE Base'
  BY <1>2, <1>7, DrainBase
<1> QED BY <1>1, <1>4, <1>5, <1>6, <1>7, StutterBase DEF Next

\* Base is an invariant of Recorder: all variables have their types, each
\* thread's own variables fit where it is, and the guard and the queues are
\* held by those who say so.
THEOREM BaseAlways == Spec => []Base
<1>1. Init => Base
  BY InitBase
<1>2. Base /\ [Next]_vars => Base'
  BY NextBase
<1> QED BY <1>1, <1>2, PTL DEF Spec

\* Every variable has its type, whichever threads call and however many.
THEOREM TypeCorrect == Spec => []TypeOK
<1>1. Base => TypeOK
  BY DEF Base, Types, QueueTypes, CountTypes, PlaceTypes, FlushTypes, MarkTypes, WaitTypes,
         HistoryTypes, CastOK, TypeOK
<1> QED BY <1>1, BaseAlways, PTL

-----------------------------------------------------------------------------
(***************************************************************************)
(* No event disappears and none is dealt with twice.  The events recorded  *)
(* so far are spread over hands, queues, `delivered' and `lost', which do  *)
(* not overlap; a step moves events between one hand, one queue and the    *)
(* two fates.  No queue holds an event twice.                              *)
(***************************************************************************)
EventsIn(q) == Range(buffer[q]) \cap Event

Apart == {r \in Item \X Item : r[1] \in Event => r[1] # r[2]}

NoneTwice == \A q \in Writer : Linked(buffer[q], Apart)

Disjoint ==
  /\ \A t, u \in Thread : t # u => Held(t) \cap Held(u) = {}
  /\ \A q, r \in Writer : q # r => EventsIn(q) \cap EventsIn(r) = {}
  /\ \A t \in Thread, q \in Writer : Held(t) \cap EventsIn(q) = {}
  /\ delivered \cap lost = {}
  /\ \A t \in Thread : Held(t) \cap (delivered \cup lost) = {}
  /\ \A q \in Writer : EventsIn(q) \cap (delivered \cup lost) = {}

Complete ==
  /\ \A e \in 1..events : \/ \E t \in Thread : e \in Held(t)
                          \/ \E q \in Writer : e \in EventsIn(q)
                          \/ e \in delivered \cup lost
  /\ \A t \in Thread : Held(t) \subseteq 1..events
  /\ \A q \in Writer : EventsIn(q) \subseteq 1..events
  /\ delivered \cup lost \subseteq 1..events

Accounted == NoneTwice /\ Disjoint /\ Complete

\* What one hand and one queue hold may move between them, to the written or
\* to the counted events, and new events may come into them.
LEMMA MovesKeep ==
  ASSUME Disjoint, Complete, NEW t \in Thread, NEW q \in Writer, NEW D, NEW L, NEW N,
         \A u \in Thread \ {t} : Held(u)' = Held(u),
         \A r \in Writer \ {q} : EventsIn(r)' = EventsIn(r),
         delivered' = delivered \cup D, lost' = lost \cup L,
         1..events' = (1..events) \cup N, N \cap (1..events) = {},
         Held(t)' \cup EventsIn(q)' \cup D \cup L = Held(t) \cup EventsIn(q) \cup N,
         Held(t)' \cap EventsIn(q)' = {}, D \cap L = {},
         (Held(t)' \cup EventsIn(q)') \cap (D \cup L) = {}
  PROVE  Disjoint' /\ Complete'
<1> DEFINE P == Held(t) \cup EventsIn(q) \cup N
<1>1. /\ \A u \in Thread \ {t} : Held(u) \cap P = {}
      /\ \A r \in Writer \ {q} : EventsIn(r) \cap P = {}
      /\ (delivered \cup lost) \cap P = {}
  BY DEF Disjoint, Complete
<1>2. Held(t)' \subseteq P /\ EventsIn(q)' \subseteq P /\ D \subseteq P /\ L \subseteq P
  OBVIOUS
<1>3. \A u, v \in Thread : u # v => Held(u)' \cap Held(v)' = {}
  BY <1>1, <1>2 DEF Disjoint
<1>4. \A r, s \in Writer : r # s => EventsIn(r)' \cap EventsIn(s)' = {}
  BY <1>1, <1>2 DEF Disjoint
<1>5. \A u \in Thread, r \in Writer : Held(u)' \cap EventsIn(r)' = {}
  BY <1>1, <1>2 DEF Disjoint
<1>6. delivered' \cap lost' = {}
  BY <1>1, <1>2 DEF Disjoint
<1>7. \A u \in Thread : Held(u)' \cap (delivered' \cup lost') = {}
  BY <1>1, <1>2 DEF Disjoint
<1>8. \A r \in Writer : EventsIn(r)' \cap (delivered' \cup lost') = {}
  BY <1>1, <1>2 DEF Disjoint
<1>9. Disjoint'
  BY <1>3, <1>4, <1>5, <1>6, <1>7, <1>8 DEF Disjoint
<1>10. /\ \A u \in Thread : Held(u)' \subseteq 1..events'
       /\ \A r \in Writer : EventsIn(r)' \subseteq 1..events'
       /\ delivered' \cup lost' \subseteq 1..events'
  <2>1. P \subseteq 1..events'
    BY DEF Complete
  <2> HIDE DEF P
  <2> QED BY <1>2, <2>1 DEF Complete
<1>11. ASSUME NEW e \in 1..events'
       PROVE  \/ \E u \in Thread : e \in Held(u)'
              \/ \E r \in Writer : e \in EventsIn(r)'
              \/ e \in delivered' \cup lost'
  <2>1. CASE e \in P
    BY <2>1
  <2>2. CASE e \notin P
    <3>1. e \in 1..events
      BY <2>2
    <3>2. \/ \E u \in Thread : e \in Held(u)
          \/ \E r \in Writer : e \in EventsIn(r)
          \/ e \in delivered \cup lost
      BY <3>1 DEF Complete
    <3> QED BY <2>2, <3>2
  <2> QED BY <2>1, <2>2
<1>12. Complete'
  BY <1>10, <1>11 DEF Complete
<1> QED BY <1>9, <1>12

\* With every queue as it was.
LEMMA HandKeeps ==
  ASSUME Disjoint, Complete, NEW t \in Thread, NEW D, NEW L, NEW N,
         \A u \in Thread \ {t} : Held(u)' = Held(u), UNCHANGED buffer,
         delivered' = delivered \cup D, lost' = lost \cup L,
         1..events' = (1..events) \cup N, N \cap (1..events) = {},
         Held(t)' \cup D \cup L = Held(t) \cup N,
         D \cap L = {}, Held(t)' \cap (D \cup L) = {}
  PROVE  Disjoint' /\ Complete'
<1>1. PICK q \in Writer : TRUE
  BY Constants DEF Writer
<1>2. \A r \in Writer : EventsIn(r)' = EventsIn(r)
  BY DEF EventsIn
<1>3. EventsIn(q) \cap Held(t) = {} /\ EventsIn(q) \cap N = {}
  BY DEF Disjoint, Complete
<1>4. /\ Held(t)' \cup EventsIn(q)' \cup D \cup L = Held(t) \cup EventsIn(q) \cup N
      /\ Held(t)' \cap EventsIn(q)' = {}
      /\ (Held(t)' \cup EventsIn(q)') \cap (D \cup L) = {}
  BY <1>2, <1>3
<1> QED BY <1>2, <1>4, MovesKeep

\* Nothing moves.
LEMMA StillKeeps ==
  ASSUME Accounted, \A u \in Thread : Held(u)' = Held(u),
         UNCHANGED <<buffer, delivered, lost, events>>
  PROVE  Accounted'
<1>1. \A r \in Writer : EventsIn(r)' = EventsIn(r)
  BY DEF EventsIn
<1>2. Disjoint'
  BY <1>1 DEF Accounted, Disjoint
<1>3. Complete'
  BY <1>1 DEF Accounted, Complete
<1>4. NoneTwice'
  BY DEF Accounted, NoneTwice
<1> QED BY <1>2, <1>3, <1>4 DEF Accounted

\* One put, one get, and an emptying of a queue.
LEMMA PutKeepsTwice ==
  ASSUME Base, NoneTwice, NEW q \in Writer, NEW item \in Item, item \notin EventsIn(q), Put(q, item)
  PROVE  /\ NoneTwice' /\ EventsIn(q)' = EventsIn(q) \cup ({item} \cap Event)
         /\ \A r \in Writer \ {q} : EventsIn(r)' = EventsIn(r)
<1>1. buffer \in [Writer -> Seq(Item)] /\ buffer[q] \in Seq(Item)
  BY DEF Base, Types, QueueTypes
<1>2. \A x \in Range(buffer[q]) : <<x, item>> \in Apart
  <2>1. Range(buffer[q]) \subseteq Item
    BY <1>1 DEF Range
  <2> QED BY <2>1 DEF Apart, EventsIn
<1>3. Linked(Append(buffer[q], item), Apart)
  BY <1>1, <1>2, AppendLinked DEF NoneTwice
<1>4. Range(Append(buffer[q], item)) = Range(buffer[q]) \cup {item}
  BY <1>1, AppendRange
<1>5. buffer'[q] = Append(buffer[q], item) /\ \A r \in Writer \ {q} : buffer'[r] = buffer[r]
  BY <1>1 DEF Put
<1> QED BY <1>3, <1>4, <1>5 DEF NoneTwice, EventsIn

\* Taking from a queue makes no second copy of an event in it.
LEMMA TailKeepsTwice ==
  ASSUME Base, NoneTwice, NEW q \in Writer, buffer[q] # <<>>, buffer' = [buffer EXCEPT ![q] = Tail(@)]
  PROVE  /\ NoneTwice' /\ Head(buffer[q]) \in Item
         /\ EventsIn(q) = EventsIn(q)' \cup ({Head(buffer[q])} \cap Event)
         /\ Head(buffer[q]) \notin EventsIn(q)'
         /\ \A r \in Writer \ {q} : EventsIn(r)' = EventsIn(r)
<1>1. buffer \in [Writer -> Seq(Item)] /\ buffer[q] \in Seq(Item)
  BY DEF Base, Types, QueueTypes
<1>2. /\ Linked(Tail(buffer[q]), Apart)
      /\ \A x \in Range(Tail(buffer[q])) : <<Head(buffer[q]), x>> \in Apart
  BY <1>1, TailLinked DEF NoneTwice
<1>3. Head(buffer[q]) \in Item /\ Range(buffer[q]) = {Head(buffer[q])} \cup Range(Tail(buffer[q]))
  BY <1>1, TailRange
<1>4. buffer'[q] = Tail(buffer[q]) /\ \A r \in Writer \ {q} : buffer'[r] = buffer[r]
  BY <1>1
<1>5. Head(buffer[q]) \notin Range(Tail(buffer[q])) \cap Event
  BY <1>2 DEF Apart
<1> QED BY <1>2, <1>3, <1>4, <1>5 DEF NoneTwice, EventsIn

LEMMA EmptyKeepsTwice ==
  ASSUME Base, NoneTwice, NEW q \in Writer, buffer' = [buffer EXCEPT ![q] = <<>>]
  PROVE  /\ NoneTwice' /\ EventsIn(q)' = {}
         /\ \A r \in Writer \ {q} : EventsIn(r)' = EventsIn(r)
<1>1. buffer \in [Writer -> Seq(Item)]
  BY DEF Base, Types, QueueTypes
<1>2. buffer'[q] = <<>> /\ \A r \in Writer \ {q} : buffer'[r] = buffer[r]
  BY <1>1
<1>3. Linked(<<>>, Apart) /\ Range(<<>>) = {}
  BY EmptyLinked DEF Range
<1> QED BY <1>2, <1>3 DEF NoneTwice, EventsIn

\* Splitting a batch settles all of it.
LEMMA SettleSplits ==
  ASSUME NEW batch, NEW landed \in SUBSET batch, Settle(batch, landed)
  PROVE  /\ delivered' = delivered \cup landed /\ lost' = lost \cup (batch \ landed)
         /\ landed \cup (batch \ landed) = batch /\ landed \cap (batch \ landed) = {}
  BY DEF Settle, Count

\* Steps that leave hands and queues alone.
LEMMA HandsStay ==
  ASSUME Accounted, UNCHANGED <<hand, buffer, delivered, lost, events>>
  PROVE  Accounted'
<1>1. \A u \in Thread : Held(u)' = Held(u)
  BY DEF Held
<1> QED BY <1>1, StillKeeps

\* Steps that move no item leave every event where it is.
LEMMA StillProducer ==
  ASSUME Base, Accounted, NEW p \in Producer, LookUp(p) \/ MakeQueue(p) \/ StartWriter(p)
  PROVE  Accounted'
  BY HandsStay DEF LookUp, MakeQueue, StartWriter, queues, counted

LEMMA StillWriter ==
  ASSUME Base, Accounted, NEW w \in Writer,
         Collected(w) \/ KeepGoing(w) \/ Leave(w) \/ CloseConnection(w)
  PROVE  Accounted'
  BY HandsStay DEF Collected, KeepGoing, Leave, CloseConnection, queues, counted

LEMMA StillFlusher ==
  ASSUME Base, Accounted, NEW t, Flush(t) \/ ClaimGap(t) \/ GapRow(t)
  PROVE  Accounted'
  BY HandsStay DEF Flush, ClaimGap, GapRow, queues, counted

LEMMA StillStopper ==
  ASSUME Base, Accounted, NEW s \in Stopper, Stop(s) \/ Detach(s) \/ Join(s) \/ Forget(s)
  PROVE  Accounted'
  BY HandsStay DEF Stop, Detach, Join, Forget, queues, counted

LEMMA StillWaiter ==
  ASSUME Base, Accounted, NEW f \in Waiter, FlushCall(f)
  PROVE  Accounted'
  BY HandsStay DEF FlushCall, queues, counted

\* What a thread takes off its own hand leaves the others' alone.
LEMMA HeldOfOthers ==
  ASSUME Base, NEW t \in Thread, NEW items, hand' = [hand EXCEPT ![t] = items]
  PROVE  Held(t)' = items \cap Event /\ \A u \in Thread \ {t} : Held(u)' = Held(u)
  BY DEF Base, Types, Held

\* Every kind of caller, and every writer, is a thread.
LEMMA ThreadKinds ==
  Producer \subseteq Thread /\ Stopper \subseteq Thread /\ Waiter \subseteq Thread
  /\ Drainer \subseteq Thread /\ Writer \subseteq Thread
  BY DEF Thread, Caller

\* A thread hands some of what it holds over to the written and the counted.
LEMMA HandOver ==
  ASSUME Base, Accounted, NEW t \in Thread, NEW items, hand' = [hand EXCEPT ![t] = items],
         items \cap Event = {}, UNCHANGED <<buffer, events>>,
         NEW D, NEW L, D \cup L = Held(t), D \cap L = {},
         delivered' = delivered \cup D, lost' = lost \cup L
  PROVE  Accounted'
<1>1. Held(t)' = {} /\ \A u \in Thread \ {t} : Held(u)' = Held(u)
  BY HeldOfOthers
<1>2. 1..events' = (1..events) \cup {} /\ {} \cap (1..events) = {}
  OBVIOUS
<1>3. Held(t)' \cup D \cup L = Held(t) \cup {} /\ Held(t)' \cap (D \cup L) = {}
  BY <1>1
<1>4. Disjoint' /\ Complete'
  BY <1>1, <1>2, <1>3, HandKeeps DEF Accounted
<1>5. NoneTwice'
  BY DEF Accounted, NoneTwice
<1> QED BY <1>4, <1>5 DEF Accounted

\* A new event is in its producer's hand and nowhere else.
LEMMA RecordAccounted ==
  ASSUME Base, Accounted, NEW p \in Producer, Record(p)
  PROVE  Accounted'
<1>1. p \in Thread /\ Types /\ ProducerOK(p)
  BY ThreadKinds DEF Base, Locals, LocalOK
<1>2. events \in Nat /\ events' = events + 1 /\ events + 1 \in Event
  <2>1. events' \in 0..MaxEvents[Cast]' /\ Cast' \in Casts
    BY RecordBase DEF Base, Types, CastOK
  <2>2. events \in Nat /\ events < MaxEvents[Cast] /\ MaxEvents[Cast] \in Nat /\ Cast \in Casts
    BY <1>1, TypedNumbers DEF Record, Types, CastOK
  <2>3. events + 1 \in 1..MaxEvents[Cast]
    BY <2>2
  <2> QED BY <2>2, <2>3, EventBound DEF Record
<1>3. hand' = [hand EXCEPT ![p] = {events + 1}] /\ UNCHANGED <<buffer, delivered, lost>>
  BY <1>2 DEF Record, queues, counted
<1>4. Held(p)' = {events + 1} /\ \A u \in Thread \ {p} : Held(u)' = Held(u)
  BY <1>1, <1>2, <1>3, HeldOfOthers
<1>5. Held(p) = {}
  BY <1>1 DEF ProducerOK, Record, Held
<1>6. 1..events' = (1..events) \cup {events + 1} /\ {events + 1} \cap (1..events) = {}
  BY <1>2
<1>7. delivered' = delivered \cup {} /\ lost' = lost \cup {}
  BY <1>3
<1>8. Disjoint' /\ Complete'
  <2>1. Held(p)' \cup {} \cup {} = Held(p) \cup {events + 1} /\ Held(p)' \cap ({} \cup {}) = {}
    BY <1>4, <1>5
  <2>2. {} \cap {} = {} /\ UNCHANGED buffer /\ Disjoint /\ Complete
    BY <1>3 DEF Accounted
  <2> QED BY <1>1, <1>4, <1>6, <1>7, <2>1, <2>2, HandKeeps
<1>9. NoneTwice'
  BY <1>3 DEF Accounted, NoneTwice
<1> QED BY <1>8, <1>9 DEF Accounted

\* A producer that gives an event up counts it in the same step.
LEMMA GivenUpAccounted ==
  ASSUME Base, Accounted, NEW p \in Producer, WriteHere(p) \/ NoThread(p) \/ QueueFull(p)
  PROVE  Accounted'
<1>1. p \in Thread
  BY ThreadKinds
<1>2. hand' = [hand EXCEPT ![p] = {}] /\ UNCHANGED <<buffer, events>>
  BY DEF WriteHere, NoThread, QueueFull, Return, queues
<1>3. CASE WriteHere(p)
  <2>1. PICK landed \in {{}, Held(p)} : Settle(Held(p), landed)
    BY <1>3 DEF WriteHere
  <2>2. landed \in SUBSET Held(p)
    BY <2>1
  <2>6. /\ delivered' = delivered \cup landed /\ lost' = lost \cup (Held(p) \ landed)
        /\ landed \cup (Held(p) \ landed) = Held(p) /\ landed \cap (Held(p) \ landed) = {}
    BY <2>1, <2>2, SettleSplits
  <2>7. {} \cap Event = {}
    OBVIOUS
  <2> QED BY <1>1, <1>2, <2>6, <2>7, HandOver
<1>4. CASE NoThread(p) \/ QueueFull(p)
  <2>1. delivered' = delivered \cup {} /\ lost' = lost \cup Held(p)
    BY <1>4 DEF NoThread, QueueFull, Count
  <2>2. {} \cup Held(p) = Held(p) /\ {} \cap Held(p) = {} /\ {} \cap Event = {}
    OBVIOUS
  <2> QED BY <1>1, <1>2, <2>1, <2>2, HandOver
<1> QED BY <1>3, <1>4

\* A producer that finds its queue attached lets its event go.
LEMMA CheckQueueAccounted ==
  ASSUME Base, Accounted, NEW p \in Producer, CheckQueue(p)
  PROVE  Accounted'
<1>1. ProducerOK(p) /\ p \in Thread /\ hand \in [Thread -> SUBSET Item]
  BY ThreadKinds DEF Base, Types, Locals, LocalOK
<1>2. hand[p] = {}
  BY <1>1 DEF CheckQueue, ProducerOK
<1>3. hand' = hand
  BY <1>1, <1>2 DEF CheckQueue, Return
<1> QED BY <1>3, HandsStay DEF CheckQueue, queues, counted

\* A written batch is delivered or counted, and leaves the hand.
LEMMA FlushedAccounted ==
  ASSUME Base, Accounted, NEW t \in Writer \cup Drainer, Written(t) \/ WriteFailed(t)
  PROVE  Accounted'
<1>1. t \in Thread
  BY ThreadKinds
<1>2. hand' = [hand EXCEPT ![t] = @ \ Event] /\ UNCHANGED <<buffer, events>>
  BY DEF Written, WriteFailed, queues
<1>3. \E landed \in SUBSET Held(t) : Settle(Held(t), landed)
  <2>1. CASE Written(t)
    <3>1. PICK landed \in Landing(Held(t)) \ {{}} : Settle(Held(t), landed)
      BY <2>1 DEF Written
    <3> QED BY <3>1, LandingIsPart
  <2>2. CASE WriteFailed(t)
    BY <2>2 DEF WriteFailed
  <2> QED BY <2>1, <2>2
<1>4. PICK landed \in SUBSET Held(t) : Settle(Held(t), landed)
  BY <1>3
<1>5. (hand[t] \ Event) \cap Event = {}
  OBVIOUS
<1>6. /\ delivered' = delivered \cup landed /\ lost' = lost \cup (Held(t) \ landed)
      /\ landed \cup (Held(t) \ landed) = Held(t) /\ landed \cap (Held(t) \ landed) = {}
  BY <1>4, SettleSplits
<1>7. {} \cap Event = {}
  OBVIOUS
<1> QED BY <1>1, <1>2, <1>5, <1>6, <1>7, HandOver

\* A discarded batch is counted.
LEMMA DiscardAccounted ==
  ASSUME Base, Accounted, NEW w \in Writer, Discard(w)
  PROVE  Accounted'
<1>1. w \in Thread /\ (hand[w] \ Event) \cap Event = {}
  BY ThreadKinds
<1>2. hand' = [hand EXCEPT ![w] = @ \ Event] /\ UNCHANGED <<buffer, events>>
  BY DEF Discard, queues
<1>3. delivered' = delivered \cup {} /\ lost' = lost \cup Held(w)
  BY DEF Discard, Count
<1> QED BY <1>1, <1>2, <1>3, HandOver

\* A leftover is delivered or counted.
LEMMA LeftoverAccounted ==
  ASSUME Base, Accounted, NEW t \in Writer \cup Stopper, WriteLeftover(t)
  PROVE  Accounted'
<1>1. t \in Thread
  BY ThreadKinds
<1>2. hand' = [hand EXCEPT ![t] = {}] /\ UNCHANGED <<buffer, events>>
  BY DEF WriteLeftover, queues
<1>3. PICK landed \in Landing(Held(t)) : Settle(Held(t), landed)
  BY DEF WriteLeftover
<1>4. landed \in SUBSET Held(t)
  BY <1>3, LandingIsPart
<1>6. /\ delivered' = delivered \cup landed /\ lost' = lost \cup (Held(t) \ landed)
      /\ landed \cup (Held(t) \ landed) = Held(t) /\ landed \cap (Held(t) \ landed) = {}
  BY <1>3, <1>4, SettleSplits
<1>7. {} \cap Event = {}
  OBVIOUS
<1> QED BY <1>1, <1>2, <1>6, <1>7, HandOver

\* Releasing wakes moves no event.
LEMMA AcknowledgeAccounted ==
  ASSUME Base, Accounted, NEW t \in Writer \cup Drainer, Acknowledge(t)
  PROVE  Accounted'
<1>1. t \in Thread /\ LocalOK(t)
  BY ThreadKinds DEF Base, Locals
<1>2. Held(t) = {}
  BY <1>1 DEF LocalOK, WriterOK, DrainerOK, Acknowledge
<1>3. hand' = [hand EXCEPT ![t] = {}] /\ UNCHANGED <<buffer, events>>
  BY DEF Acknowledge, queues
<1>4. delivered' = delivered \cup {} /\ lost' = lost \cup {} /\ {} \cup {} = Held(t)
  BY <1>2 DEF Acknowledge, counted
<1> QED BY <1>1, <1>3, <1>4, HandOver

\* A put moves the event from the hand to the queue.
LEMMA PutEventAccounted ==
  ASSUME Base, Accounted, NEW p \in Producer, PutEvent(p)
  PROVE  Accounted'
<1>1. p \in Thread /\ ProducerOK(p) /\ Types
  BY ThreadKinds DEF Base, Locals, LocalOK
<1>2. queue[p] \in Writer
  BY <1>1, TypedNumbers DEF ProducerOK, PutEvent
<1>3. hand[p] = {own[p]} /\ own[p] \in Event /\ Held(p) = {own[p]} /\ own[p] \in Item
  <2>1. hand[p] = {own[p]} /\ own[p] \in Event
    BY <1>1, TypedNumbers DEF ProducerOK, PutEvent
  <2> QED BY <2>1 DEF Held, Item
<1>4. Put(queue[p], own[p]) /\ hand' = [hand EXCEPT ![p] = {}]
      /\ delivered' = delivered \cup {} /\ lost' = lost \cup {} /\ events' = events
  BY DEF PutEvent, counted
<1>5. Held(p) \cap EventsIn(queue[p]) = {}
  BY <1>1, <1>2 DEF Accounted, Disjoint
<1>6. PICK q \in Writer : q = queue[p]
  BY <1>2
<1>7. /\ NoneTwice' /\ EventsIn(q)' = EventsIn(q) \cup Held(p)
      /\ \A r \in Writer \ {q} : EventsIn(r)' = EventsIn(r)
  <2>1. own[p] \notin EventsIn(q) /\ {own[p]} \cap Event = Held(p) /\ Put(q, own[p]) /\ NoneTwice
    BY <1>3, <1>4, <1>5, <1>6 DEF Accounted
  <2> QED BY <1>3, <2>1, PutKeepsTwice
<1>8. Held(p)' = {} /\ \A u \in Thread \ {p} : Held(u)' = Held(u)
  BY <1>1, <1>4, {} \cap Event = {}, HeldOfOthers
<1>9. /\ Held(p)' \cup EventsIn(q)' \cup {} \cup {} = Held(p) \cup EventsIn(q) \cup {}
      /\ Held(p)' \cap EventsIn(q)' = {} /\ {} \cap {} = {}
      /\ (Held(p)' \cup EventsIn(q)') \cap ({} \cup {}) = {}
      /\ 1..events' = (1..events) \cup {} /\ {} \cap (1..events) = {}
      /\ Disjoint /\ Complete
  BY <1>4, <1>7, <1>8 DEF Accounted
<1>10. Disjoint' /\ Complete'
  BY <1>1, <1>4, <1>7, <1>8, <1>9, MovesKeep
<1> QED BY <1>7, <1>10 DEF Accounted

\* Events come out of one queue into one hand.
LEMMA HandTakes ==
  ASSUME Base, Accounted, NEW t \in Thread, NEW q \in Writer, NEW items,
         hand' = [hand EXCEPT ![t] = items], NoneTwice',
         \A r \in Writer \ {q} : EventsIn(r)' = EventsIn(r),
         UNCHANGED <<delivered, lost, events>>,
         (items \cap Event) \cup EventsIn(q)' = Held(t) \cup EventsIn(q),
         items \cap EventsIn(q)' = {}
  PROVE  Accounted'
<1>1. Held(t)' = items \cap Event /\ \A u \in Thread \ {t} : Held(u)' = Held(u)
  BY HeldOfOthers
<1>2. delivered' = delivered \cup {} /\ lost' = lost \cup {}
  OBVIOUS
<1>3. /\ Held(t)' \cup EventsIn(q)' \cup {} \cup {} = Held(t) \cup EventsIn(q) \cup {}
      /\ Held(t)' \cap EventsIn(q)' = {} /\ {} \cap {} = {}
      /\ (Held(t)' \cup EventsIn(q)') \cap ({} \cup {}) = {}
      /\ 1..events' = (1..events) \cup {} /\ {} \cap (1..events) = {}
      /\ Disjoint /\ Complete
  BY <1>1 DEF Accounted
<1>4. Disjoint' /\ Complete'
  BY <1>1, <1>2, <1>3, MovesKeep
<1> QED BY <1>4 DEF Accounted

\* A rescue moves an event from the detached queue to the hand.
LEMMA TakeOrphanAccounted ==
  ASSUME Base, Accounted, NEW p \in Producer, TakeOrphan(p)
  PROVE  Accounted'
<1>1. p \in Thread /\ ProducerOK(p) /\ Types /\ hand \in [Thread -> SUBSET Item]
  BY ThreadKinds DEF Base, Types, Locals, LocalOK
<1>2. orphan[p] \in Writer /\ hand[p] = {} /\ Held(p) = {}
  BY <1>1, TypedNumbers DEF ProducerOK, TakeOrphan, Held
<1>3. UNCHANGED <<delivered, lost, events>>
  BY DEF TakeOrphan, counted
<1>4. CASE buffer[orphan[p]] = <<>>
  <2>1. hand' = hand /\ buffer' = buffer
    BY <1>1, <1>2, <1>4 DEF TakeOrphan, Return
  <2> QED BY <1>3, <2>1, HandsStay
<1>5. CASE buffer[orphan[p]] # <<>>
  <2>1. PICK q \in Writer : q = orphan[p]
    BY <1>2
  <2>2. hand' = [hand EXCEPT ![p] = {Head(buffer[q])}] /\ buffer' = [buffer EXCEPT ![q] = Tail(@)]
    BY <1>5, <2>1 DEF TakeOrphan
  <2>3. /\ NoneTwice' /\ EventsIn(q) = EventsIn(q)' \cup ({Head(buffer[q])} \cap Event)
        /\ Head(buffer[q]) \notin EventsIn(q)'
        /\ \A r \in Writer \ {q} : EventsIn(r)' = EventsIn(r)
    <3>1. buffer[q] # <<>> /\ NoneTwice
      BY <1>5, <2>1 DEF Accounted
    <3> QED BY <2>2, <3>1, TailKeepsTwice
  <2>4. /\ ({Head(buffer[q])} \cap Event) \cup EventsIn(q)' = Held(p) \cup EventsIn(q)
        /\ {Head(buffer[q])} \cap EventsIn(q)' = {}
    BY <1>2, <2>3
  <2> QED BY <1>1, <1>3, <2>2, <2>3, <2>4, HandTakes
<1> QED BY <1>4, <1>5

\* A writer moves an event from its queue to its batch.
LEMMA TakeAccounted ==
  ASSUME Base, Accounted, NEW w \in Writer, Take(w)
  PROVE  Accounted'
<1>1. w \in Thread
  BY ThreadKinds
<1>2. /\ UNCHANGED <<delivered, lost, events>> /\ buffer[w] # <<>> /\ NoneTwice
      /\ hand' = [hand EXCEPT ![w] = @ \cup {Head(buffer[w])}]
      /\ buffer' = [buffer EXCEPT ![w] = Tail(@)]
  BY DEF Take, counted, Accounted
<1>3. /\ NoneTwice' /\ EventsIn(w) = EventsIn(w)' \cup ({Head(buffer[w])} \cap Event)
      /\ Head(buffer[w]) \notin EventsIn(w)'
      /\ \A r \in Writer \ {w} : EventsIn(r)' = EventsIn(r)
  BY <1>2, TailKeepsTwice
<1>4. Held(w) \cap EventsIn(w) = {}
  BY <1>1 DEF Accounted, Disjoint
<1>5. EventsIn(w)' \subseteq Event
  BY DEF EventsIn
<1>6. /\ ((hand[w] \cup {Head(buffer[w])}) \cap Event) \cup EventsIn(w)' = Held(w) \cup EventsIn(w)
      /\ (hand[w] \cup {Head(buffer[w])}) \cap EventsIn(w)' = {}
  BY <1>3, <1>4, <1>5 DEF Held
<1> QED BY <1>1, <1>2, <1>3, <1>6, HandTakes

\* Emptying a queue moves all of its events to one hand.
LEMMA EmptyQueueAccounted ==
  ASSUME Base, Accounted, NEW t \in Writer \cup Stopper, EmptyQueue(t)
  PROVE  Accounted'
<1>1. t \in Thread /\ LocalOK(t) /\ Types
  BY ThreadKinds DEF Base, Locals
<1>2. queue[t] \in Writer /\ hand[t] = {} /\ Held(t) = {}
  BY <1>1, TypedNumbers, Constants DEF LocalOK, WriterOK, StopperOK, EmptyQueue, Held
<1>3. PICK q \in Writer : q = queue[t]
  BY <1>2
<1>4. /\ UNCHANGED <<delivered, lost, events>> /\ NoneTwice
      /\ hand' = [hand EXCEPT ![t] = EventsIn(q)]
      /\ buffer' = [buffer EXCEPT ![q] = <<>>]
  BY <1>3 DEF EmptyQueue, counted, Accounted, EventsIn
<1>5. NoneTwice' /\ EventsIn(q)' = {} /\ \A r \in Writer \ {q} : EventsIn(r)' = EventsIn(r)
  BY <1>4, EmptyKeepsTwice
<1>6. /\ (EventsIn(q) \cap Event) \cup EventsIn(q)' = Held(t) \cup EventsIn(q)
      /\ EventsIn(q) \cap EventsIn(q)' = {}
  <2>1. EventsIn(q) \cap Event = EventsIn(q)
    BY DEF EventsIn
  <2> QED BY <1>2, <1>5, <2>1
<1> QED BY <1>1, <1>4, <1>5, <1>6, HandTakes

\* drain_once() moves what it takes to its own hand.
LEMMA DrainAccounted ==
  ASSUME Base, Accounted, NEW d \in Drainer, Drain(d)
  PROVE  Accounted'
<1>1. d \in Thread /\ DrainerOK(d) /\ Types
  BY ThreadKinds DEF Base, Locals, LocalOK
<1>2. live \in Writer /\ hand[d] = {} /\ Held(d) = {}
  BY <1>1, TypedNumbers DEF DrainerOK, Drain, Held
<1>3. PICK q \in Writer : q = live
  BY <1>2
<1>4. /\ UNCHANGED <<delivered, lost, events>> /\ NoneTwice
      /\ hand' = [hand EXCEPT ![d] = Range(buffer[q])]
      /\ buffer' = [buffer EXCEPT ![q] = <<>>]
  BY <1>3 DEF Drain, counted, Accounted
<1>5. NoneTwice' /\ EventsIn(q)' = {} /\ \A r \in Writer \ {q} : EventsIn(r)' = EventsIn(r)
  BY <1>4, EmptyKeepsTwice
<1>6. /\ (Range(buffer[q]) \cap Event) \cup EventsIn(q)' = Held(d) \cup EventsIn(q)
      /\ Range(buffer[q]) \cap EventsIn(q)' = {}
  <2>1. Range(buffer[q]) \cap Event = EventsIn(q)
    BY DEF EventsIn
  <2> QED BY <1>2, <1>5, <2>1
<1> QED BY <1>1, <1>4, <1>5, <1>6, HandTakes

\* A rescued event goes to a queue or to the count.
LEMMA PutRehomedAccounted ==
  ASSUME Base, Accounted, NEW p \in Producer, PutRehomed(p)
  PROVE  Accounted'
<1>1. p \in Thread /\ ProducerOK(p) /\ Types
  BY ThreadKinds DEF Base, Locals, LocalOK
<1>2. queue[p] \in Writer
  BY <1>1, TypedNumbers DEF ProducerOK, PutRehomed
<1>3. PICK q \in Writer : q = queue[p]
  BY <1>2
<1>4. PICK item \in Item : hand[p] = {item}
  BY <1>1 DEF ProducerOK, PutRehomed
<1>5. hand' = [hand EXCEPT ![p] = {}] /\ delivered' = delivered \cup {} /\ events' = events
  BY DEF PutRehomed
<1>6. CASE Full(queue[p])
  <2>1. UNCHANGED buffer /\ lost' = lost \cup Held(p)
    BY <1>4, <1>6 DEF PutRehomed, Count
  <2>2. {} \cup Held(p) = Held(p) /\ {} \cap Held(p) = {} /\ {} \cap Event = {}
    OBVIOUS
  <2> QED BY <1>1, <1>5, <2>1, <2>2, HandOver
<1>7. CASE ~Full(queue[p])
  <2>1. Put(q, item) /\ lost' = lost \cup {}
    BY <1>3, <1>4, <1>7 DEF PutRehomed, counted
  <2>2. {item} \cap Event = Held(p) /\ Held(p) \cap EventsIn(q) = {}
    BY <1>1, <1>4 DEF Held, Accounted, Disjoint
  <2>3. item \notin EventsIn(q) /\ NoneTwice
    BY <2>2 DEF Accounted, EventsIn
  <2>4. /\ NoneTwice' /\ EventsIn(q)' = EventsIn(q) \cup Held(p)
        /\ \A r \in Writer \ {q} : EventsIn(r)' = EventsIn(r)
    BY <2>1, <2>2, <2>3, PutKeepsTwice
  <2>5. Held(p)' = {} /\ \A u \in Thread \ {p} : Held(u)' = Held(u)
    BY <1>1, <1>5, {} \cap Event = {}, HeldOfOthers
  <2>6. /\ Held(p)' \cup EventsIn(q)' \cup {} \cup {} = Held(p) \cup EventsIn(q) \cup {}
        /\ Held(p)' \cap EventsIn(q)' = {} /\ {} \cap {} = {}
        /\ (Held(p)' \cup EventsIn(q)') \cap ({} \cup {}) = {}
        /\ 1..events' = (1..events) \cup {} /\ {} \cap (1..events) = {}
        /\ Disjoint /\ Complete
    BY <1>5, <2>4, <2>5 DEF Accounted
  <2>7. Disjoint' /\ Complete'
    BY <1>1, <1>5, <2>1, <2>4, <2>5, <2>6, MovesKeep
  <2> QED BY <2>4, <2>7 DEF Accounted
<1> QED BY <1>6, <1>7

\* A wake goes in.
LEMMA WakeAccounted ==
  ASSUME Base, Accounted, NEW t \in Stopper \cup Waiter,
         (t \in Stopper /\ Signal(t)) \/ (t \in Waiter /\ FlushMark(t))
  PROVE  Accounted'
<1>1. t \in Thread /\ LocalOK(t) /\ Types
  BY ThreadKinds DEF Base, Locals
<1>2. queue[t] \in Writer
  BY <1>1, TypedNumbers DEF LocalOK, StopperOK, WaiterOK, Signal, FlushMark
<1>3. UNCHANGED <<hand, delivered, lost, events>>
  BY DEF Signal, FlushMark, counted
<1>4. CASE buffer' = buffer
  BY <1>3, <1>4, HandsStay
<1>5. CASE \E item \in {StopWake, t} : item \notin Event /\ item \in Item /\ Put(queue[t], item)
  <2>1. PICK item \in Item : item \notin Event /\ Put(queue[t], item)
    BY <1>5
  <2>2. PICK q \in Writer : q = queue[t]
    BY <1>2
  <2>3. item \notin EventsIn(q) /\ {item} \cap Event = {} /\ NoneTwice /\ Put(q, item)
    BY <2>1, <2>2 DEF EventsIn, Accounted
  <2>4. /\ NoneTwice' /\ EventsIn(q)' = EventsIn(q)
        /\ \A r \in Writer \ {q} : EventsIn(r)' = EventsIn(r)
    BY <2>3, PutKeepsTwice
  <2>5. /\ \A u \in Thread : Held(u)' = Held(u)
        /\ \A r \in Writer : EventsIn(r)' = EventsIn(r)
    BY <1>3, <2>4 DEF Held
  <2>6. Disjoint'
    BY <1>3, <2>5 DEF Accounted, Disjoint
  <2>7. Complete'
    BY <1>3, <2>5 DEF Accounted, Complete
  <2> QED BY <2>4, <2>6, <2>7 DEF Accounted
<1> QED BY <1>4, <1>5, Constants DEF Signal, FlushMark

\* Every step keeps each event in exactly one place.
LEMMA NextAccounted ==
  ASSUME Base, Accounted, [Next]_vars
  PROVE  Accounted'
<1>1. ASSUME NEW p \in Producer, Record(p) \/ Recording(p) PROVE Accounted'
  BY <1>1, RecordAccounted, StillProducer, GivenUpAccounted, PutEventAccounted, CheckQueueAccounted,
     TakeOrphanAccounted, PutRehomedAccounted DEF Recording
<1>2. ASSUME NEW t \in Writer \cup Drainer, Flushing(t) PROVE Accounted'
  BY <1>2, StillFlusher, FlushedAccounted, AcknowledgeAccounted DEF Flushing
<1>3. ASSUME NEW t \in Writer \cup Stopper, Abandoning(t) PROVE Accounted'
  BY <1>3, EmptyQueueAccounted, LeftoverAccounted DEF Abandoning
<1>4. ASSUME NEW w \in Writer, Running(w) PROVE Accounted'
  BY <1>2, <1>3, <1>4, TakeAccounted, DiscardAccounted, StillWriter DEF Running
<1>5. ASSUME NEW s \in Stopper, Stop(s) \/ StoppingIt(s) PROVE Accounted'
  BY <1>3, <1>5, StillStopper, WakeAccounted DEF StoppingIt
<1>6. ASSUME NEW f \in Waiter, FlushCall(f) \/ FlushMark(f) PROVE Accounted'
  BY <1>6, StillWaiter, WakeAccounted
<1>7. ASSUME NEW d \in Drainer, Drain(d) \/ Flushing(d) PROVE Accounted'
  BY <1>2, <1>7, DrainAccounted
<1>8. CASE UNCHANGED vars
  BY <1>8, HandsStay DEF vars, queues, counted
<1> QED BY <1>1, <1>4, <1>5, <1>6, <1>7, <1>8 DEF Next

\* Without events nothing is misplaced.
LEMMA InitAccounted ==
  ASSUME Init
  PROVE  Accounted
<1>1. \A t \in Thread : Held(t) = {}
  BY DEF Held, Init
<1>2. \A q \in Writer : buffer[q] = <<>> /\ EventsIn(q) = {}
  BY DEF EventsIn, Init, Range
<1>3. NoneTwice
  BY <1>2, EmptyLinked DEF NoneTwice
<1>4. delivered = {} /\ lost = {} /\ 1..events = {}
  BY DEF Init
<1> QED BY <1>1, <1>2, <1>3, <1>4 DEF Accounted, Disjoint, Complete

\* Every event recorded so far is in one hand, once in one queue, written, or
\* counted as lost, at every moment of every behaviour.
THEOREM AccountedAlways == Spec => [](Base /\ Accounted)
<1>1. Init => Base /\ Accounted
  BY InitBase, InitAccounted
<1>2. Base /\ Accounted /\ [Next]_vars => Base' /\ Accounted'
  BY NextBase, NextAccounted
<1> QED BY <1>1, <1>2, PTL DEF Spec

\* How many of a set of at most one element there are.
LEMMA NoneOrOne ==
  ASSUME NEW S, \A x, y \in S : x = y
  PROVE  Cardinality(S) = IF S = {} THEN 0 ELSE 1
<1>1. CASE S = {}
  BY <1>1, FS_EmptySet
<1>2. CASE S # {}
  <2>1. PICK x \in S : S = {x}
    BY <1>2
  <2> QED BY <1>2, <2>1, FS_Singleton
<1> QED BY <1>1, <1>2

\* Every event is in one place: a thread's hands, a queue, written or counted.
THEOREM NoEventDisappears == Spec => []EventsAccounted
<1>1. ASSUME Base, Accounted PROVE EventsAccounted
  <2>1. SUFFICES ASSUME NEW e \in 1..events
                 PROVE    Cardinality({t \in Thread : e \in hand[t]})
                        + Cardinality({q \in Writer : e \in Range(buffer[q])})
                        + Cardinality({S \in {delivered, lost} : e \in S}) = 1
    BY DEF EventsAccounted
  <2> DEFINE T == {t \in Thread : e \in hand[t]}
             Q == {q \in Writer : e \in Range(buffer[q])}
             S == {s \in {delivered, lost} : e \in s}
  <2>2. e \in Event
    BY <1>1, TypedNumbers DEF Base
  <2>3. /\ \A t \in Thread : t \in T <=> e \in Held(t)
        /\ \A q \in Writer : q \in Q <=> e \in EventsIn(q)
    BY <2>2 DEF Held, EventsIn
  <2>4. /\ \A t, u \in T : t = u
        /\ \A q, r \in Q : q = r
        /\ \A s, r \in S : s = r
    <3>1. \A t, u \in T : t = u
      BY <1>1, <2>3 DEF Accounted, Disjoint
    <3>2. \A q, r \in Q : q = r
      BY <1>1, <2>3 DEF Accounted, Disjoint
    <3>3. \A s, r \in S : s = r
      BY <1>1 DEF Accounted, Disjoint
    <3> QED BY <3>1, <3>2, <3>3
  <2>5. /\ Cardinality(T) = IF T = {} THEN 0 ELSE 1
        /\ Cardinality(Q) = IF Q = {} THEN 0 ELSE 1
        /\ Cardinality(S) = IF S = {} THEN 0 ELSE 1
    <3> HIDE DEF T, Q, S
    <3> QED BY <2>4, NoneOrOne
  <2>6. /\ T # {} \/ Q # {} \/ S # {}
        /\ ~(T # {} /\ Q # {}) /\ ~(T # {} /\ S # {}) /\ ~(Q # {} /\ S # {})
    <3>1. T # {} \/ Q # {} \/ S # {}
      BY <1>1, <2>3 DEF Accounted, Complete
    <3>2. ~(T # {} /\ Q # {})
      BY <1>1, <2>3 DEF Accounted, Disjoint
    <3>3. ~(T # {} /\ S # {})
      BY <1>1, <2>3 DEF Accounted, Disjoint
    <3>4. ~(Q # {} /\ S # {})
      BY <1>1, <2>3 DEF Accounted, Disjoint
    <3> QED BY <3>1, <3>2, <3>3, <3>4
  <2> HIDE DEF T, Q, S
  <2>7. Cardinality(T) + Cardinality(Q) + Cardinality(S) = 1
    BY <2>5, <2>6
  <2> QED BY <2>7 DEF T, Q, S
<1> QED BY <1>1, AccountedAlways, PTL

-----------------------------------------------------------------------------
(***************************************************************************)
(* The drop counter.  What it, the claims and the gap rows tell is the     *)
(* number of the lost events, and more only by starts that failed.         *)
(***************************************************************************)
Told == dropped + SumFunction(claim) + reported

AddsUp == Told >= Cardinality(lost) /\ Told <= Cardinality(lost) + noThread

\* What flushers have claimed and not yet reported is a number.
LEMMA ToldIsNatural ==
  ASSUME Base
  PROVE  /\ SumFunction(claim) \in Nat /\ dropped \in Nat /\ reported \in Nat /\ Told \in Nat
         /\ IsFiniteSet(lost) /\ Cardinality(lost) \in Nat /\ noThread \in Nat
<1>1. claim \in [Thread -> Nat]
  BY DEF Base, Types, FlushTypes
<1>2. SumFunction(claim) \in Nat
  BY <1>1, ThreadsAreFinite, SumOfNats
<1>3. dropped \in Nat /\ reported \in Nat /\ noThread \in Nat
  BY Constants DEF Base, Types, CountTypes, HistoryTypes
<1>4. IsFiniteSet(lost)
  <2>1. IsFiniteSet(Event) /\ lost \subseteq Event
    BY TypedNumbers DEF Base, Types, CountTypes
  <2> QED BY <2>1, FS_Subset
<1> QED BY <1>2, <1>3, <1>4, FS_CardinalityType DEF Told

\* Neither the counter nor what it counts changes.
LEMMA CountStaysUp ==
  ASSUME Base, AddsUp, UNCHANGED <<dropped, claim, reported, lost>>,
         noThread' = noThread
  PROVE  AddsUp'
<1>1. Told' = Told
  BY DEF Told
<1> QED BY <1>1, ToldIsNatural DEF AddsUp

\* Events that were not counted before are counted by _drop().
LEMMA CountAddsUp ==
  ASSUME Base, AddsUp, NEW gone \in SUBSET Event, gone \cap lost = {}, Count(gone),
         UNCHANGED <<claim, noThread>>
  PROVE  AddsUp'
<1>1. IsFiniteSet(gone) /\ Cardinality(gone) \in Nat
  <2>1. IsFiniteSet(Event)
    BY TypedNumbers DEF Base
  <2> QED BY <2>1, FS_Subset, FS_CardinalityType
<1>2. Cardinality(lost \cup gone) = Cardinality(lost) + Cardinality(gone)
  <2>1. IsFiniteSet(lost) /\ lost \cap gone = {}
    BY ToldIsNatural
  <2>2. Cardinality(lost \cap gone) = 0
    BY <2>1, FS_EmptySet
  <2>3. Cardinality(lost \cup gone) = Cardinality(lost) + Cardinality(gone) - Cardinality(lost \cap gone)
    BY <1>1, <2>1, FS_Union
  <2> QED BY <2>2, <2>3, <1>1, ToldIsNatural
<1>3. dropped' = dropped + Cardinality(gone) /\ lost' = lost \cup gone /\ reported' = reported
  BY DEF Count
<1>4. Told' = Told + Cardinality(gone)
  BY <1>1, <1>3, ToldIsNatural DEF Told
<1> QED BY <1>1, <1>2, <1>3, <1>4, ToldIsNatural DEF AddsUp

\* A claim is made, given back or reported.
LEMMA ClaimAddsUp ==
  ASSUME Base, AddsUp, NEW t \in Thread, NEW v \in Nat, claim' = [claim EXCEPT ![t] = v],
         dropped' \in Nat, reported' \in Nat,
         dropped' + v + reported' = dropped + claim[t] + reported,
         UNCHANGED <<lost, noThread>>
  PROVE  AddsUp'
<1>1. claim \in [Thread -> Int] /\ claim[t] \in Nat
  BY DEF Base, Types, FlushTypes
<1>2. SumFunction(claim') = SumFunction(claim) - claim[t] + v
  <2>1. v \in Int /\ IsFiniteSet(Thread)
    BY ThreadsAreFinite
  <2>2. SumFunction([claim EXCEPT ![t] = v]) = SumFunction(claim) - claim[t] + v
    BY <1>1, <2>1, SumExcept
  <2> QED BY <2>2
<1>3. Told' = Told
  BY <1>1, <1>2, ToldIsNatural DEF Told
<1> QED BY <1>3, ToldIsNatural DEF AddsUp

\* The events in somebody's hands were not counted.
LEMMA HeldIsNotLost ==
  ASSUME Accounted, NEW t \in Thread, NEW gone \in SUBSET Held(t)
  PROVE  gone \in SUBSET Event /\ gone \cap lost = {}
  BY DEF Accounted, Disjoint, Held

\* The sum of drops follows each of the steps that count or claim.
LEMMA HeldAddsUp ==
  ASSUME Base, Accounted, AddsUp, NEW t \in Thread, NEW gone \in SUBSET Held(t), Count(gone),
         UNCHANGED <<claim, noThread>>
  PROVE  AddsUp'
  BY HeldIsNotLost, CountAddsUp

LEMMA SettleAddsUp ==
  ASSUME Base, Accounted, AddsUp, NEW t \in Thread, NEW landed, Settle(Held(t), landed),
         UNCHANGED <<claim, noThread>>
  PROVE  AddsUp'
<1>1. Count(Held(t) \ landed) /\ Held(t) \ landed \in SUBSET Held(t)
  BY DEF Settle
<1> QED BY <1>1, HeldAddsUp

LEMMA NoThreadAddsUp ==
  ASSUME Base, Accounted, AddsUp, NEW p \in Producer, NoThread(p)
  PROVE  AddsUp'
<1>1. p \in Thread /\ ProducerOK(p)
  BY ThreadKinds DEF Base, Locals, LocalOK
<1>2. PICK item : hand[p] = {item}
  BY <1>1 DEF ProducerOK, NoThread
<1>3. Held(p) = {} \/ Held(p) = {item}
  BY <1>2 DEF Held
<1>4. IsFiniteSet(Held(p)) /\ Cardinality(Held(p)) \in Nat /\ Cardinality(Held(p)) <= 1
  <2>1. CASE Held(p) = {}
    BY <2>1, FS_EmptySet
  <2>2. CASE Held(p) = {item}
    <3>1. IsFiniteSet({item}) /\ Cardinality({item}) = 1
      BY FS_Singleton
    <3> QED BY <2>2, <3>1
  <2> QED BY <1>3, <2>1, <2>2
<1>5. /\ Cardinality(lost \cup Held(p)) \in Nat
      /\ Cardinality(lost) <= Cardinality(lost \cup Held(p))
      /\ Cardinality(lost \cup Held(p)) <= Cardinality(lost) + 1
  <2>1. /\ IsFiniteSet(lost \cup Held(p))
        /\ Cardinality(lost \cup Held(p)) =
             Cardinality(lost) + Cardinality(Held(p)) - Cardinality(lost \cap Held(p))
    BY <1>4, ToldIsNatural, FS_Union
  <2>2. Cardinality(lost \cap Held(p)) \in Nat
    BY <1>4, FS_Subset, FS_CardinalityType
  <2>3. Cardinality(lost \cup Held(p)) \in Nat
    BY <2>1, FS_CardinalityType
  <2>4. Cardinality(lost) <= Cardinality(lost \cup Held(p))
    BY <2>1, FS_Subset
  <2> QED BY <1>4, <2>1, <2>2, <2>3, <2>4, ToldIsNatural
<1>6. /\ dropped' = dropped + 1 /\ lost' = lost \cup Held(p) /\ noThread' = noThread + 1
      /\ UNCHANGED <<claim, reported>>
  BY DEF NoThread, flushes
<1>7. Told' = Told + 1
  BY <1>6, ToldIsNatural DEF Told
<1> QED BY <1>5, <1>6, <1>7, ToldIsNatural DEF AddsUp

\* Every step keeps the sum of the drops.
LEMMA NextAddsUp ==
  ASSUME Base, Accounted, AddsUp, [Next]_vars
  PROVE  AddsUp'
<1>1. ASSUME NEW p \in Producer, Record(p) \/ Recording(p) PROVE AddsUp'
  <2>1. p \in Thread
    BY ThreadKinds
  <2>2. CASE Record(p) \/ LookUp(p) \/ MakeQueue(p) \/ StartWriter(p) \/ PutEvent(p) \/ CheckQueue(p)
             \/ TakeOrphan(p)
    BY <2>2, CountStaysUp DEF Record, LookUp, MakeQueue, StartWriter, PutEvent, CheckQueue,
       TakeOrphan, counted, flushes
  <2>3. CASE NoThread(p)
    BY <2>3, NoThreadAddsUp
  <2>4. CASE WriteHere(p)
    <3>1. PICK landed : Settle(Held(p), landed)
      BY <2>4 DEF WriteHere
    <3> QED BY <2>1, <2>4, <3>1, SettleAddsUp DEF WriteHere, flushes
  <2>5. CASE QueueFull(p)
    <3>1. Count(Held(p)) /\ Held(p) \in SUBSET Held(p) /\ UNCHANGED <<claim, noThread>>
      BY <2>5 DEF QueueFull, flushes
    <3> QED BY <2>1, <3>1, HeldAddsUp
  <2>6. CASE PutRehomed(p)
    <3>1. UNCHANGED <<claim, noThread>> /\ (Count(Held(p)) \/ UNCHANGED counted)
      BY <2>6 DEF PutRehomed, flushes
    <3>2. CASE Count(Held(p))
      BY <2>1, <3>1, <3>2, Held(p) \in SUBSET Held(p), HeldAddsUp
    <3>3. CASE UNCHANGED counted
      BY <3>1, <3>3, CountStaysUp DEF counted
    <3> QED BY <3>1, <3>2, <3>3
  <2> QED BY <1>1, <2>2, <2>3, <2>4, <2>5, <2>6 DEF Recording
<1>2. ASSUME NEW t \in Writer \cup Drainer, Flushing(t) PROVE AddsUp'
  <2>1. t \in Thread /\ LocalOK(t)
    BY ThreadKinds DEF Base, Locals
  <2>2. CASE Flush(t) \/ Acknowledge(t)
    BY <2>2, CountStaysUp DEF Flush, Acknowledge, counted
  <2>3. CASE Written(t) \/ WriteFailed(t)
    <3>1. PICK landed : Settle(Held(t), landed)
      BY <2>3 DEF Written, WriteFailed
    <3> QED BY <2>1, <2>3, <3>1, SettleAddsUp DEF Written, WriteFailed
  <2>4. CASE ClaimGap(t)
    <3>1. before[t] \in Nat /\ dropped \in Nat /\ claim[t] = 0 /\ reported \in Nat
      <4>1. claim[t] = 0
        BY <2>1, <2>4 DEF LocalOK, WriterOK, DrainerOK, ClaimGap
      <4> QED BY <2>1, <4>1, ToldIsNatural DEF Base, Types, FlushTypes
    <3>2. PICK v \in Nat : v = (IF before[t] < dropped THEN before[t] ELSE dropped) /\ v <= dropped
      BY <3>1
    <3>3. claim' = [claim EXCEPT ![t] = v] /\ dropped' = dropped - v /\ UNCHANGED <<reported, lost, noThread>>
      BY <2>4, <3>2 DEF ClaimGap
    <3>4. dropped' \in Nat /\ reported' \in Nat /\ dropped' + v + reported' = dropped + claim[t] + reported
      BY <3>1, <3>2, <3>3
    <3> QED BY <2>1, <3>2, <3>3, <3>4, ClaimAddsUp
  <2>5. CASE GapRow(t)
    <3>1. dropped \in Nat /\ claim[t] \in Nat /\ reported \in Nat
      BY <2>1, ToldIsNatural DEF Base, Types, FlushTypes
    <3>2. claim' = [claim EXCEPT ![t] = 0] /\ UNCHANGED <<lost, noThread>>
      BY <2>5 DEF GapRow
    <3>3. dropped' \in Nat /\ reported' \in Nat /\ dropped' + 0 + reported' = dropped + claim[t] + reported
      BY <2>5, <3>1 DEF GapRow
    <3> QED BY <2>1, <3>2, <3>3, ClaimAddsUp
  <2> QED BY <1>2, <2>2, <2>3, <2>4, <2>5 DEF Flushing
<1>3. ASSUME NEW t \in Writer \cup Stopper, Abandoning(t) PROVE AddsUp'
  <2>1. t \in Thread
    BY ThreadKinds
  <2>2. CASE EmptyQueue(t)
    BY <2>2, CountStaysUp DEF EmptyQueue, counted, flushes
  <2>3. CASE WriteLeftover(t)
    <3>1. PICK landed : Settle(Held(t), landed)
      BY <2>3 DEF WriteLeftover
    <3> QED BY <2>1, <2>3, <3>1, SettleAddsUp DEF WriteLeftover, flushes
  <2> QED BY <1>3, <2>2, <2>3 DEF Abandoning
<1>4. ASSUME NEW w \in Writer, Running(w) PROVE AddsUp'
  <2>1. w \in Thread
    BY ThreadKinds
  <2>2. CASE Take(w) \/ Collected(w) \/ KeepGoing(w) \/ Leave(w) \/ CloseConnection(w)
    BY <2>2, CountStaysUp DEF Take, Collected, KeepGoing, Leave, CloseConnection, counted, flushes
  <2>3. CASE Discard(w)
    <3>1. Count(Held(w)) /\ Held(w) \in SUBSET Held(w) /\ UNCHANGED <<claim, noThread>>
      BY <2>3 DEF Discard, flushes
    <3> QED BY <2>1, <3>1, HeldAddsUp
  <2> QED BY <1>2, <1>3, <1>4, <2>2, <2>3 DEF Running
<1>5. ASSUME NEW s \in Stopper, Stop(s) \/ StoppingIt(s) PROVE AddsUp'
  <2>1. CASE Stop(s) \/ Detach(s) \/ Signal(s) \/ Join(s) \/ Forget(s)
    BY <2>1, CountStaysUp DEF Stop, Detach, Signal, Join, Forget, counted, flushes
  <2> QED BY <1>3, <1>5, <2>1 DEF StoppingIt
<1>6. ASSUME NEW f \in Waiter, FlushCall(f) \/ FlushMark(f) PROVE AddsUp'
  BY <1>6, CountStaysUp DEF FlushCall, FlushMark, counted, flushes
<1>7. ASSUME NEW d \in Drainer, Drain(d) \/ Flushing(d) PROVE AddsUp'
  <2>1. CASE Drain(d)
    BY <2>1, CountStaysUp DEF Drain, counted, flushes
  <2> QED BY <1>2, <1>7, <2>1
<1>8. CASE UNCHANGED vars
  BY <1>8, CountStaysUp DEF vars, counted, flushes
<1> QED BY <1>1, <1>4, <1>5, <1>6, <1>7, <1>8 DEF Next

\* Nothing is dropped at the start.
LEMMA InitAddsUp ==
  ASSUME Init
  PROVE  AddsUp
<1>1. claim \in [Thread -> Int] /\ \A t \in Thread : claim[t] = 0
  BY DEF Init
<1>2. SumFunction(claim) = 0
  BY <1>1, ThreadsAreFinite, SumZero
<1>3. dropped = 0 /\ reported = 0 /\ noThread = 0 /\ Cardinality(lost) = 0
  BY FS_EmptySet DEF Init
<1> QED BY <1>2, <1>3 DEF AddsUp, Told

\* The counter, the claims and the gap rows tell of every event that was lost,
\* and of at most one more for each writer that could not be started.
THEOREM DropsAreTold == Spec => []DropsAddUp
<1>1. Init => Base /\ Accounted /\ AddsUp
  BY InitBase, InitAccounted, InitAddsUp
<1>2. Base /\ Accounted /\ AddsUp /\ [Next]_vars => (Base /\ Accounted /\ AddsUp)'
  BY NextBase, NextAccounted, NextAddsUp
<1>3. Base /\ Accounted /\ AddsUp => DropsAddUp
  BY ToldIsNatural DEF AddsUp, Told, DropsAddUp
<1> QED BY <1>1, <1>2, <1>3, PTL DEF Spec

-----------------------------------------------------------------------------
(***************************************************************************)
(* The account: each step is one that EventAccount allows, or is none of   *)
(* its business.  What is in a hand has no fate yet.                       *)
(***************************************************************************)
LEMMA HeldIsPending ==
  ASSUME Accounted, NEW t \in Thread
  PROVE  Held(t) \subseteq Account!Pending
  BY DEF Accounted, Disjoint, Complete, Account!Pending

\* The account counts as the recorder does.
LEMMA SameCount == ASSUME NEW S PROVE Account!Cardinality(S) = Cardinality(S)
  BY Zenon DEF Account!Cardinality, Cardinality

\* A step that records nothing, settles nothing and tells of nothing.
Uneventful == UNCHANGED <<events, delivered, lost, reported, noThread>>

LEMMA UneventfulIsAllowed ==
  ASSUME Uneventful
  PROVE  UNCHANGED Account!vars
  BY DEF Uneventful, Account!vars

\* What a thread has in hand is written or counted.
LEMMA SettleIsAllowed ==
  ASSUME Accounted, NEW t \in Thread, NEW landed \in SUBSET Held(t),
         Settle(Held(t), landed), UNCHANGED <<events, noThread>>
  PROVE  Account!Next
<1>1. landed \in SUBSET Account!Pending /\ Held(t) \ landed \in SUBSET (Account!Pending \ landed)
  BY HeldIsPending
<1>2. Account!Settle(landed, Held(t) \ landed)
  BY DEF Settle, Count, Account!Settle
<1> QED BY <1>1, <1>2 DEF Account!Next

LEMMA CountIsAllowed ==
  ASSUME Accounted, NEW t \in Thread, Count(Held(t)), UNCHANGED <<events, noThread, delivered>>
  PROVE  Account!Next
<1>1. Settle(Held(t), {})
  BY DEF Settle, Count
<1> QED BY <1>1, SettleIsAllowed

LEMMA RecordIsAllowed ==
  ASSUME Base, NEW p \in Producer, Record(p)
  PROVE  Account!Next
<1>1. events \in Nat /\ events' = events + 1 /\ events < MaxEvents[Cast] /\ Types
  BY TypedNumbers DEF Base, Record
<1>2. events' \in Event /\ events' \notin 1..events /\ 1..events' = (1..events) \cup {events'}
  <2>1. MaxEvents[Cast] \in Nat /\ 1..MaxEvents[Cast] \subseteq Event
    BY <1>1, EventBound DEF Types, CastOK
  <2> QED BY <1>1, <2>1
<1>3. Account!Record(events')
  BY <1>2 DEF Record, counted, Account!Record
<1> QED BY <1>2, <1>3 DEF Account!Next

LEMMA NoThreadIsAllowed ==
  ASSUME Base, Accounted, NEW p \in Producer, NoThread(p)
  PROVE  Account!Next
<1>1. p \in Thread /\ ProducerOK(p)
  BY ThreadKinds DEF Base, Locals, LocalOK
<1>2. PICK item : hand[p] = {item}
  BY <1>1 DEF ProducerOK, NoThread
<1>3. Held(p) \in {{}} \cup {{e} : e \in Account!Pending}
  <2>1. Held(p) = {} \/ Held(p) = {item}
    BY <1>2 DEF Held
  <2> QED BY <1>1, <2>1, HeldIsPending
<1>4. Account!GiveUp(Held(p))
  BY DEF NoThread, Account!GiveUp
<1> QED BY <1>3, <1>4 DEF Account!Next

\* A gap row tells of drops that the counter had, which were of lost events.
LEMMA GapRowIsAllowed ==
  ASSUME Base, Base', AddsUp', NEW t \in Thread, GapRow(t)
  PROVE  Account!Next \/ UNCHANGED Account!vars
<1>1. claim[t] \in Nat /\ reported \in Nat
  BY ToldIsNatural DEF Base, Types, FlushTypes
<1>2. UNCHANGED <<events, delivered, lost, noThread>>
  BY DEF GapRow
<1>3. CASE reported' = reported + claim[t]
  <2>1. reported' >= reported
    BY <1>1, <1>3
  <2>2. reported' <= Cardinality(lost) + noThread
    <3>1. /\ SumFunction(claim)' \in Nat /\ dropped' \in Nat /\ reported' \in Nat
          /\ Told' = dropped' + SumFunction(claim)' + reported'
          /\ Cardinality(lost)' \in Nat /\ noThread' \in Nat
          /\ Told' <= Cardinality(lost)' + noThread'
      <4>1. (/\ SumFunction(claim) \in Nat /\ dropped \in Nat /\ reported \in Nat
             /\ Cardinality(lost) \in Nat /\ noThread \in Nat)'
        BY ToldIsNatural, PTL
      <4> QED BY <4>1 DEF AddsUp, Told
    <3> QED BY <3>1, <1>2
  <2>3. Account!Tell
    BY <1>2, <2>1, <2>2, SameCount DEF Account!Tell
  <2> QED BY <2>3 DEF Account!Next
<1>4. CASE reported' = reported
  BY <1>2, <1>4, UneventfulIsAllowed DEF Uneventful
<1> QED BY <1>3, <1>4 DEF GapRow

Allowed == Account!Next \/ UNCHANGED Account!vars

\* Every step of the recorder is one of the account's, or none of its business.
LEMMA NextIsAllowed ==
  ASSUME Base, Base', Accounted, AddsUp', [Next]_vars
  PROVE  Allowed
<1>1. ASSUME NEW p \in Producer, Record(p) \/ Recording(p) PROVE Allowed
  <2>1. p \in Thread
    BY ThreadKinds
  <2>2. CASE LookUp(p) \/ MakeQueue(p) \/ StartWriter(p) \/ PutEvent(p) \/ CheckQueue(p) \/ TakeOrphan(p)
    <3>1. Uneventful
      BY <2>2 DEF LookUp, MakeQueue, StartWriter, PutEvent, CheckQueue, TakeOrphan, counted, Uneventful
    <3> QED BY <3>1, UneventfulIsAllowed DEF Allowed
  <2>3. CASE Record(p)
    BY <2>3, RecordIsAllowed DEF Allowed
  <2>4. CASE NoThread(p)
    BY <2>4, NoThreadIsAllowed DEF Allowed
  <2>5. CASE WriteHere(p)
    <3>1. PICK landed \in {{}, Held(p)} : Settle(Held(p), landed)
      BY <2>5 DEF WriteHere
    <3>2. landed \in SUBSET Held(p) /\ UNCHANGED <<events, noThread>>
      BY <2>5 DEF WriteHere
    <3> QED BY <2>1, <3>1, <3>2, SettleIsAllowed DEF Allowed
  <2>6. CASE QueueFull(p)
    <3>1. Count(Held(p)) /\ UNCHANGED <<events, noThread, delivered>>
      BY <2>6 DEF QueueFull
    <3> QED BY <2>1, <3>1, CountIsAllowed DEF Allowed
  <2>7. CASE PutRehomed(p)
    <3>1. UNCHANGED <<events, noThread, delivered>> /\ (Count(Held(p)) \/ UNCHANGED counted)
      BY <2>7 DEF PutRehomed
    <3>2. CASE Count(Held(p))
      BY <2>1, <3>1, <3>2, CountIsAllowed DEF Allowed
    <3>3. CASE UNCHANGED counted
      BY <3>1, <3>3, UneventfulIsAllowed DEF Allowed, counted, Uneventful
    <3> QED BY <3>1, <3>2, <3>3
  <2> QED BY <1>1, <2>2, <2>3, <2>4, <2>5, <2>6, <2>7 DEF Recording
<1>2. ASSUME NEW t \in Writer \cup Drainer, Flushing(t) PROVE Allowed
  <2>1. t \in Thread
    BY ThreadKinds
  <2>2. CASE Flush(t) \/ ClaimGap(t) \/ Acknowledge(t)
    <3>1. Uneventful
      BY <2>2 DEF Flush, ClaimGap, Acknowledge, counted, Uneventful
    <3> QED BY <3>1, UneventfulIsAllowed DEF Allowed
  <2>3. CASE Written(t) \/ WriteFailed(t)
    <3>1. PICK landed \in SUBSET Held(t) : Settle(Held(t), landed)
      BY <2>3 DEF Written, WriteFailed, Landing
    <3>2. UNCHANGED <<events, noThread>>
      BY <2>3 DEF Written, WriteFailed
    <3> QED BY <2>1, <3>1, <3>2, SettleIsAllowed DEF Allowed
  <2>4. CASE GapRow(t)
    BY <2>1, <2>4, GapRowIsAllowed DEF Allowed
  <2> QED BY <1>2, <2>2, <2>3, <2>4 DEF Flushing
<1>3. ASSUME NEW t \in Writer \cup Stopper, Abandoning(t) PROVE Allowed
  <2>1. t \in Thread
    BY ThreadKinds
  <2>2. CASE EmptyQueue(t)
    BY <2>2, UneventfulIsAllowed DEF Allowed, EmptyQueue, counted, Uneventful
  <2>3. CASE WriteLeftover(t)
    <3>1. PICK landed \in SUBSET Held(t) : Settle(Held(t), landed)
      BY <2>3 DEF WriteLeftover, Landing
    <3> QED BY <2>1, <2>3, <3>1, SettleIsAllowed DEF Allowed, WriteLeftover
  <2> QED BY <1>3, <2>2, <2>3 DEF Abandoning
<1>4. ASSUME NEW w \in Writer, Running(w) PROVE Allowed
  <2>1. w \in Thread
    BY ThreadKinds
  <2>2. CASE Take(w) \/ Collected(w) \/ KeepGoing(w) \/ Leave(w) \/ CloseConnection(w)
    <3>1. Uneventful
      BY <2>2 DEF Take, Collected, KeepGoing, Leave, CloseConnection, counted, Uneventful
    <3> QED BY <3>1, UneventfulIsAllowed DEF Allowed
  <2>3. CASE Discard(w)
    <3>1. Count(Held(w)) /\ UNCHANGED <<events, noThread, delivered>>
      BY <2>3 DEF Discard
    <3> QED BY <2>1, <3>1, CountIsAllowed DEF Allowed
  <2> QED BY <1>2, <1>3, <1>4, <2>2, <2>3 DEF Running
<1>5. ASSUME NEW s \in Stopper, Stop(s) \/ StoppingIt(s) PROVE Allowed
  <2>1. CASE Stop(s) \/ Detach(s) \/ Signal(s) \/ Join(s) \/ Forget(s)
    <3>1. Uneventful
      BY <2>1 DEF Stop, Detach, Signal, Join, Forget, counted, Uneventful
    <3> QED BY <3>1, UneventfulIsAllowed DEF Allowed
  <2> QED BY <1>3, <1>5, <2>1 DEF StoppingIt
<1>6. ASSUME NEW f \in Waiter, FlushCall(f) \/ FlushMark(f) PROVE Allowed
  BY <1>6, UneventfulIsAllowed DEF Allowed, FlushCall, FlushMark, counted, Uneventful
<1>7. ASSUME NEW d \in Drainer, Drain(d) \/ Flushing(d) PROVE Allowed
  <2>1. CASE Drain(d)
    BY <2>1, UneventfulIsAllowed DEF Allowed, Drain, counted, Uneventful
  <2> QED BY <1>2, <1>7, <2>1
<1>8. CASE UNCHANGED vars
  BY <1>8, UneventfulIsAllowed DEF Allowed, vars, counted, Uneventful
<1> QED BY <1>1, <1>4, <1>5, <1>6, <1>7, <1>8 DEF Next

\* Recorder implements EventAccount: an event that is written or counted stays so
\* and is never both, and no gap row tells of drops that were not.
THEOREM RecorderKeepsTheAccount == Spec => KeepsTheAccount
<1>1. Init => Base /\ Accounted /\ AddsUp
  BY InitBase, InitAccounted, InitAddsUp
<1>2. Base /\ Accounted /\ AddsUp /\ [Next]_vars => (Base /\ Accounted /\ AddsUp)'
  BY NextBase, NextAccounted, NextAddsUp
<1>3. Init => Account!Init
  <2>1. 1..0 = {}
    OBVIOUS
  <2> QED BY <2>1 DEF Init, Account!Init
<1>4. Base /\ Accounted /\ AddsUp /\ (Base /\ Accounted /\ AddsUp)' /\ [Next]_vars
        => [Account!Next]_(Account!vars)
  BY NextIsAllowed DEF Allowed
<1> QED BY <1>1, <1>2, <1>3, <1>4, PTL DEF Spec, KeepsTheAccount, Account!Spec

-----------------------------------------------------------------------------
(***************************************************************************)
(* What record() has put is not left behind: whoever is about to empty a   *)
(* queue stays so until it is empty, or hands that on.                     *)
(***************************************************************************)

\* The variables of the other threads are as they were.
Alone(t) ==
  /\ \A u \in Thread \ {t} : pc'[u] = pc[u] /\ queue'[u] = queue[u] /\ hand'[u] = hand[u]
  /\ \A p \in Producer \ {t} : orphan'[p] = orphan[p] /\ own'[p] = own[p]
  /\ \A s \in Stopper \ {t} : inside'[s] = inside[s]

\* The types of the threads' own variables; then, for each kind of thread,
\* that its step changes nobody else's.
LEMMA ThreadTypes ==
  ASSUME Base
  PROVE  /\ pc \in [Thread -> Label] /\ hand \in [Thread -> SUBSET Item]
         /\ queue \in [Thread -> 0..MaxWriters] /\ orphan \in [Producer -> 0..MaxWriters]
         /\ own \in [Producer -> Event \cup {None}] /\ inside \in [Stopper -> 0..MaxWriters]
  BY DEF Base, Types, PlaceTypes

LEMMA ProducerAlone ==
  ASSUME Base, NEW p \in Producer
  PROVE  Record(p) \/ (Recording(p) /\ ~StartWriter(p)) => Alone(p)
<1> USE ThreadTypes, ThreadKinds
<1>1. Record(p) => Alone(p)
  BY DEF Alone, Record, Goto
<1>2. LookUp(p) \/ MakeQueue(p) => Alone(p)
  BY DEF Alone, LookUp, MakeQueue, Goto
<1>3. WriteHere(p) \/ NoThread(p) \/ QueueFull(p) => Alone(p)
  BY DEF Alone, WriteHere, NoThread, QueueFull, Return, Goto
<1>4. PutEvent(p) \/ PutRehomed(p) => Alone(p)
  BY DEF Alone, PutEvent, PutRehomed, Goto, places
<1>5. CheckQueue(p) => Alone(p)
  BY DEF Alone, CheckQueue, Return, Goto
<1>6. TakeOrphan(p) => Alone(p)
  BY DEF Alone, TakeOrphan, Return, Goto
<1> QED BY <1>1, <1>2, <1>3, <1>4, <1>5, <1>6 DEF Recording

LEMMA FlusherAlone ==
  ASSUME Base, NEW t \in Writer \cup Drainer
  PROVE  Flushing(t) => Alone(t)
<1> USE ThreadTypes, ThreadKinds
<1>1. Flush(t) \/ Written(t) \/ WriteFailed(t) => Alone(t)
  BY DEF Alone, Flush, Written, WriteFailed, Goto, places
<1>2. ClaimGap(t) \/ GapRow(t) \/ Acknowledge(t) => Alone(t)
  BY DEF Alone, ClaimGap, GapRow, Acknowledge, Goto, places
<1> QED BY <1>1, <1>2 DEF Flushing

LEMMA AbandonerAlone ==
  ASSUME Base, NEW t \in Writer \cup Stopper
  PROVE  Abandoning(t) => Alone(t)
<1> USE ThreadTypes, ThreadKinds
<1>1. EmptyQueue(t) => Alone(t)
  BY DEF Alone, EmptyQueue, Goto, places
<1>2. WriteLeftover(t) => Alone(t)
  BY DEF Alone, WriteLeftover, Goto, places
<1> QED BY <1>1, <1>2 DEF Abandoning

LEMMA WriterAlone ==
  ASSUME Base, NEW w \in Writer
  PROVE  Running(w) => Alone(w)
<1> USE ThreadTypes, ThreadKinds
<1>1. Take(w) \/ Collected(w) \/ Discard(w) => Alone(w)
  BY DEF Alone, Take, Collected, Discard, Goto, places
<1>2. KeepGoing(w) \/ Leave(w) \/ CloseConnection(w) => Alone(w)
  BY DEF Alone, KeepGoing, Leave, CloseConnection, Goto, places
<1> QED BY <1>1, <1>2, FlusherAlone, AbandonerAlone DEF Running

LEMMA StopperAlone ==
  ASSUME Base, NEW s \in Stopper
  PROVE  Stop(s) \/ StoppingIt(s) => Alone(s)
<1> USE ThreadTypes, ThreadKinds
<1>1. Stop(s) => Alone(s)
  BY DEF Alone, Stop, Goto
<1>2. Detach(s) \/ Forget(s) => Alone(s)
  BY DEF Alone, Detach, Forget, Goto
<1>3. Signal(s) \/ Join(s) => Alone(s)
  BY DEF Alone, Signal, Join, Goto, places
<1> QED BY <1>1, <1>2, <1>3, AbandonerAlone DEF StoppingIt

LEMMA WaiterAlone ==
  ASSUME Base, NEW f \in Waiter
  PROVE  FlushCall(f) \/ FlushMark(f) => Alone(f)
  BY ThreadTypes, ThreadKinds DEF Alone, FlushCall, FlushMark, Goto, places

LEMMA DrainerAlone ==
  ASSUME Base, NEW d \in Drainer
  PROVE  Drain(d) \/ Flushing(d) => Alone(d)
<1>1. Drain(d) => Alone(d)
  BY ThreadTypes, ThreadKinds DEF Alone, Drain, Goto, places
<1> QED BY <1>1, FlusherAlone

\* This thread is the one that will empty the queue.
Emptier(t, q) ==
  \/ t = q /\ pc[t] \in Serving \cup {"abandon"}
  \/ t \in Stopper /\ queue[t] = q /\ pc[t] \in {"signal", "join", "abandon"}
  \/ /\ t \in Producer
     /\ \/ queue[t] = q /\ (pc[t] \in {"start", "restart"} \/ (pc[t] = "check" /\ live # q))
        \/ orphan[t] = q /\ pc[t] \in {"rehome", "relook", "restart", "reput"}

\* Who is on the way to a queue is a thread that will empty it.
LEMMA ComingIsSomebody ==
  ASSUME NEW q \in Writer
  PROVE  Coming(q) <=> \E t \in Thread : Emptier(t, q)
<1>1. q \in Thread
  BY ThreadKinds
<1>2. Coming(q) => \E t \in Thread : Emptier(t, q)
  BY <1>1, ThreadKinds DEF Coming, Emptier, Serving
<1>3. (\E t \in Thread : Emptier(t, q)) => Coming(q)
  BY DEF Coming, Emptier, Serving
<1> QED BY <1>2, <1>3

\* A thread that does nothing stays what it is.
LEMMA EmptierStays ==
  ASSUME Base, NEW t \in Thread, Alone(t), NEW q \in Writer, NEW u \in Thread \ {t}, Emptier(u, q),
         live' = live \/ live' = None \/ live' = made + 1
  PROVE  Emptier(u, q)'
<1>1. pc'[u] = pc[u] /\ queue'[u] = queue[u] /\ (u \in Producer => orphan'[u] = orphan[u])
  BY DEF Alone
<1>2. CASE u = q /\ pc[u] \in Serving \cup {"abandon"}
  BY <1>1, <1>2 DEF Emptier
<1>3. CASE u \in Stopper /\ queue[u] = q /\ pc[u] \in {"signal", "join", "abandon"}
  BY <1>1, <1>3 DEF Emptier
<1>4. CASE u \in Producer /\ queue[u] = q /\ pc[u] \in {"start", "restart"}
  BY <1>1, <1>4 DEF Emptier
<1>5. CASE u \in Producer /\ queue[u] = q /\ pc[u] = "check" /\ live # q
  <2>1. queue[u] \in 1..made /\ made \in Nat
    BY <1>5, TypedNumbers DEF Base, Locals, LocalOK, ProducerOK
  <2>2. live' # q
    BY <1>5, <2>1, WritersAreNumbers
  <2> QED BY <1>1, <1>5, <2>2 DEF Emptier
<1>6. CASE u \in Producer /\ orphan[u] = q /\ pc[u] \in {"rehome", "relook", "restart", "reput"}
  BY <1>1, <1>6 DEF Emptier
<1> QED BY <1>2, <1>3, <1>4, <1>5, <1>6 DEF Emptier

\* A thread's step leaves whoever else is on the way where it was.
LEMMA ComingStays ==
  ASSUME Base, NEW t \in Thread, Alone(t), NEW q \in Writer, Coming(q),
         live' = live \/ live' = None \/ live' = made + 1,
         Emptier(t, q) => Emptier(t, q)'
  PROVE  Coming(q)'
<1>1. PICK u \in Thread : Emptier(u, q)
  BY ComingIsSomebody
<1>2. Emptier(u, q)'
  BY <1>1, EmptierStays
<1> QED BY <1>2 DEF Coming, Emptier, Serving

\* The live queue will be emptied.
LEMMA LiveIsComing ==
  ASSUME Base, NEW q \in Writer, live = q
  PROVE  Coming(q)
<1>1. live # None
  BY WritersAreNumbers
<1>2. CASE pc[q] \in Serving
  BY <1>2 DEF Coming, Serving
<1>3. CASE guard # Nobody
  <2>1. guard \in Producer /\ queue[guard] = q /\ pc[guard] \in {"start", "restart"}
    BY <1>3 DEF Base, Types, QueueTypes, GuardHeld
  <2> QED BY <2>1 DEF Coming
<1> QED BY <1>1, <1>2, <1>3 DEF Base, LiveIsRun

Behind == noThread = 0 => \A q \in Writer : \A e \in EventsIn(q) : Coming(q) \/ e \in rehomed

\* No event comes into a queue, and whoever was to empty one still is.
LEMMA BehindStays ==
  ASSUME Base, Behind, NEW t \in Thread, Alone(t),
         live' = live \/ live' = None \/ live' = made + 1,
         noThread' = 0 => noThread = 0, rehomed \subseteq rehomed',
         \A q \in Writer : EventsIn(q)' \subseteq EventsIn(q),
         \A q \in Writer : EventsIn(q)' # {} /\ Emptier(t, q) => Emptier(t, q)'
  PROVE  Behind'
<1>1. SUFFICES ASSUME noThread' = 0, NEW q \in Writer, NEW e \in EventsIn(q)'
               PROVE  Coming(q)' \/ e \in rehomed'
  BY DEF Behind
<1>2. e \in EventsIn(q) /\ (Coming(q) \/ e \in rehomed)
  BY <1>1 DEF Behind
<1>3. Coming(q) => Coming(q)'
  BY <1>1, ComingStays
<1> QED BY <1>2, <1>3

\* Where no queue changes, the events in it stay.
LEMMA EventsStayIn ==
  ASSUME UNCHANGED buffer
  PROVE  \A q \in Writer : EventsIn(q)' = EventsIn(q)
  BY DEF EventsIn

\* The steps of record() that touch no queue.
LEMMA RecordBehind ==
  ASSUME Base, Behind, NEW p \in Producer, Record(p) \/ LookUp(p) \/ MakeQueue(p) \/ WriteHere(p) \/ QueueFull(p)
  PROVE  Behind'
<1>1. Alone(p) /\ p \in Thread /\ p \notin Writer /\ p \notin Stopper
  BY ProducerAlone, ThreadKinds, Constants DEF Recording, Record, LookUp, MakeQueue, WriteHere, QueueFull, StartWriter
<1>2. /\ live' = live \/ live' = None \/ live' = made + 1
      /\ UNCHANGED <<noThread, rehomed, buffer>>
  BY DEF Record, LookUp, MakeQueue, WriteHere, QueueFull, queues
<1>3. \A q \in Writer : EventsIn(q)' = EventsIn(q)
  BY <1>2, EventsStayIn
<1>4. ASSUME NEW q \in Writer, Emptier(p, q) PROVE Emptier(p, q)'
  <2>1. pc[p] \in {"start", "restart", "check", "rehome", "relook", "reput"}
    BY <1>1, <1>4 DEF Emptier
  <2>2. pc[p] = "relook" /\ orphan[p] = q /\ orphan' = orphan
    BY <1>1, <1>4, <2>1 DEF Emptier, Record, LookUp, MakeQueue, WriteHere, QueueFull
  <2>3. pc'[p] \in {"restart", "reput"}
    BY <1>1, <2>1, <2>2, ThreadTypes DEF Record, LookUp, MakeQueue, WriteHere, QueueFull, Goto
  <2> QED BY <2>2, <2>3 DEF Emptier
<1> QED BY <1>1, <1>2, <1>3, <1>4, BehindStays

LEMMA StartBehind ==
  ASSUME Base, Behind, NEW p \in Producer, StartWriter(p)
  PROVE  Behind'
<1>1. p \in Thread /\ ProducerOK(p) /\ Types
  BY ThreadKinds DEF Base, Locals, LocalOK
<1>2. queue[p] \in Writer
  BY <1>1, TypedNumbers DEF ProducerOK, StartWriter
<1>3. PICK w \in Writer : w = queue[p]
  BY <1>2
<1>4. /\ pc' = [pc EXCEPT ![p] = IF @ = "start" THEN "put" ELSE "reput", ![w] = "take"]
      /\ UNCHANGED <<live, buffer, queue, orphan, noThread, rehomed>> /\ w # p /\ w \in Thread
  BY <1>3, ThreadKinds, Constants DEF StartWriter, places
<1>5. \A q \in Writer : EventsIn(q)' = EventsIn(q)
  BY <1>4, EventsStayIn
<1>6. ASSUME NEW q \in Writer, Coming(q) PROVE Coming(q)'
  <2>1. CASE q = w
    <3>1. pc'[w] = "take"
      BY <1>4, ThreadTypes
    <3> QED BY <2>1, <3>1 DEF Coming
  <2>2. CASE q # w
    <3>1. PICK u \in Thread : Emptier(u, q)
      BY <1>6, ComingIsSomebody
    <3>2. u # w
      BY <2>2, <3>1, Constants DEF Emptier
    <3>3. CASE u # p
      <4>1. pc'[u] = pc[u]
        BY <1>4, <3>2, <3>3, ThreadTypes
      <4>2. Emptier(u, q)'
        BY <1>4, <3>1, <4>1 DEF Emptier
      <4> QED BY <4>2 DEF Coming, Emptier, Serving
    <3>4. CASE u = p
      <4>1. orphan[p] = q /\ pc[p] = "restart"
        BY <1>3, <2>2, <3>1, <3>4, Constants DEF Emptier, StartWriter
      <4>2. pc'[p] = "reput" /\ orphan'[p] = q
        BY <1>1, <1>4, <4>1, ThreadTypes
      <4> QED BY <4>2 DEF Coming
    <3> QED BY <3>3, <3>4
  <2> QED BY <2>1, <2>2
<1> QED BY <1>4, <1>5, <1>6 DEF Behind

LEMMA PutBehind ==
  ASSUME Base, Accounted, Behind, NEW p \in Producer, PutEvent(p)
  PROVE  Behind'
<1>1. p \in Thread /\ ProducerOK(p) /\ Types /\ Alone(p) /\ p \notin Writer /\ p \notin Stopper
  BY ThreadKinds, ProducerAlone, Constants DEF Base, Locals, LocalOK, Recording, StartWriter, PutEvent
<1>2. queue[p] \in Writer
  BY <1>1, TypedNumbers DEF ProducerOK, PutEvent
<1>3. PICK q \in Writer : q = queue[p]
  BY <1>2
<1>4. /\ UNCHANGED <<live, queue, orphan, noThread, rehomed>> /\ pc'[p] = "check"
      /\ buffer' = [buffer EXCEPT ![q] = Append(@, own[p])]
  BY <1>1, <1>3, ThreadTypes DEF PutEvent, Put, places, Goto
<1>5. \A r \in Writer \ {q} : EventsIn(r)' = EventsIn(r)
  <2>1. buffer \in [Writer -> Seq(Item)]
    BY <1>1 DEF Types, QueueTypes
  <2> QED BY <1>4, <2>1 DEF EventsIn
<1>6. \A r \in Writer : Coming(r) => Coming(r)'
  <2>1. \A r \in Writer : ~Emptier(p, r)
    BY <1>1 DEF Emptier, PutEvent
  <2> QED BY <1>1, <1>4, <2>1, ComingStays
<1>7. Coming(q)'
  <2>1. CASE live = q
    BY <1>6, <2>1, LiveIsComing
  <2>2. CASE live # q
    BY <1>3, <1>4, <2>2 DEF Coming
  <2> QED BY <2>1, <2>2
<1> QED BY <1>4, <1>5, <1>6, <1>7 DEF Behind

LEMMA CheckBehind ==
  ASSUME Base, Behind, NEW p \in Producer, CheckQueue(p)
  PROVE  Behind'
<1>1. Alone(p) /\ p \in Thread /\ p \notin Writer /\ p \notin Stopper
  BY ProducerAlone, ThreadKinds, Constants DEF Recording, CheckQueue, StartWriter
<1>2. UNCHANGED <<live, noThread, rehomed, buffer>>
  BY DEF CheckQueue, queues
<1>3. \A q \in Writer : EventsIn(q)' = EventsIn(q)
  BY <1>2, EventsStayIn
<1>4. ASSUME NEW q \in Writer, Emptier(p, q) PROVE Emptier(p, q)'
  <2>1. queue[p] = q /\ live # q
    BY <1>1, <1>4 DEF Emptier, CheckQueue
  <2>2. pc'[p] = "rehome" /\ orphan'[p] = q
    BY <1>1, <2>1, ThreadTypes DEF CheckQueue, Goto
  <2> QED BY <2>2 DEF Emptier
<1> QED BY <1>1, <1>2, <1>3, <1>4, BehindStays

LEMMA OrphanBehind ==
  ASSUME Base, Accounted, Behind, NEW p \in Producer, TakeOrphan(p)
  PROVE  Behind'
<1>1. p \in Thread /\ ProducerOK(p) /\ Types /\ Alone(p) /\ p \notin Writer /\ p \notin Stopper
  BY ThreadKinds, ProducerAlone, Constants DEF Base, Locals, LocalOK, Recording, StartWriter, TakeOrphan
<1>2. orphan[p] \in Writer
  BY <1>1, TypedNumbers DEF ProducerOK, TakeOrphan
<1>3. PICK o \in Writer : o = orphan[p]
  BY <1>2
<1>4. UNCHANGED <<live, noThread, rehomed>>
  BY DEF TakeOrphan
<1>5. CASE buffer[o] = <<>>
  <2>1. buffer' = buffer
    BY <1>3, <1>5 DEF TakeOrphan
  <2>2. \A q \in Writer : EventsIn(q)' = EventsIn(q)
    BY <2>1, EventsStayIn
  <2>3. EventsIn(o)' = {}
    BY <1>5, <2>1 DEF EventsIn, Range
  <2>4. \A q \in Writer : Emptier(p, q) => q = o
    BY <1>1, <1>3 DEF Emptier, TakeOrphan
  <2> QED BY <1>1, <1>4, <2>2, <2>3, <2>4, BehindStays
<1>6. CASE buffer[o] # <<>>
  <2>1. /\ buffer' = [buffer EXCEPT ![o] = Tail(@)] /\ orphan'[p] = orphan[p]
        /\ pc'[p] = "relook"
    BY <1>1, <1>3, <1>6, ThreadTypes DEF TakeOrphan, Goto
  <2>2. \A q \in Writer : EventsIn(q)' \subseteq EventsIn(q)
    <3>1. /\ EventsIn(o) = EventsIn(o)' \cup ({Head(buffer[o])} \cap Event)
          /\ \A r \in Writer \ {o} : EventsIn(r)' = EventsIn(r)
      BY <1>6, <2>1, TailKeepsTwice DEF Accounted
    <3> QED BY <3>1
  <2>3. ASSUME NEW q \in Writer, Emptier(p, q) PROVE Emptier(p, q)'
    <3>1. orphan[p] = q
      BY <1>1, <2>3 DEF Emptier, TakeOrphan
    <3> QED BY <2>1, <3>1 DEF Emptier
  <2> QED BY <1>1, <1>4, <2>2, <2>3, BehindStays
<1> QED BY <1>5, <1>6

LEMMA RehomedBehind ==
  ASSUME Base, Accounted, Behind, NEW p \in Producer, PutRehomed(p)
  PROVE  Behind'
<1>1. p \in Thread /\ ProducerOK(p) /\ Types /\ Alone(p) /\ p \notin Writer /\ p \notin Stopper
  BY ThreadKinds, ProducerAlone, Constants DEF Base, Locals, LocalOK, Recording, StartWriter, PutRehomed
<1>2. queue[p] \in Writer
  BY <1>1, TypedNumbers DEF ProducerOK, PutRehomed
<1>3. PICK q \in Writer : q = queue[p]
  BY <1>2
<1>4. PICK item \in Item : hand[p] = {item}
  BY <1>1 DEF ProducerOK, PutRehomed
<1>5. /\ UNCHANGED <<live, queue, orphan, noThread>> /\ pc'[p] = "rehome" /\ pc[p] = "reput"
      /\ IF Full(q) THEN UNCHANGED <<buffer, rehomed>>
         ELSE Put(q, item) /\ rehomed' = rehomed \cup Held(p)
  BY <1>1, <1>3, <1>4, ThreadTypes DEF PutRehomed, places, Goto
<1>6. \A r \in Writer : Coming(r) => Coming(r)'
  <2>1. ASSUME NEW r \in Writer, Emptier(p, r) PROVE Emptier(p, r)'
    <3>1. orphan[p] = r
      BY <1>1, <1>5, <2>1 DEF Emptier
    <3> QED BY <1>1, <1>5, <3>1 DEF Emptier
  <2> QED BY <1>1, <1>5, <2>1, ComingStays
<1>7. \A r \in Writer : \A e \in EventsIn(r)' : e \in EventsIn(r) \/ e \in rehomed'
  <2>1. CASE Full(q)
    BY <1>5, <2>1, EventsStayIn
  <2>2. CASE ~Full(q)
    <3>1. {item} \cap Event = Held(p) /\ Held(p) \cap EventsIn(q) = {}
      BY <1>1, <1>4 DEF Held, Accounted, Disjoint
    <3>2. item \notin EventsIn(q) /\ NoneTwice /\ Put(q, item)
      BY <1>5, <2>2, <3>1 DEF Accounted, EventsIn
    <3>3. /\ EventsIn(q)' = EventsIn(q) \cup Held(p)
          /\ \A r \in Writer \ {q} : EventsIn(r)' = EventsIn(r)
      BY <3>1, <3>2, PutKeepsTwice
    <3> QED BY <1>5, <2>2, <3>3
  <2> QED BY <2>1, <2>2
<1>8. rehomed \subseteq rehomed'
  BY <1>5
<1> QED BY <1>5, <1>6, <1>7, <1>8 DEF Behind

LEMMA WriterBehind ==
  ASSUME Base, Accounted, Behind, NEW w \in Writer, Running(w)
  PROVE  Behind'
<1>1. Alone(w) /\ w \in Thread /\ w \notin Producer /\ w \notin Stopper /\ w \notin Drainer /\ WriterOK(w)
  BY ThreadKinds, WriterAlone, Constants DEF Base, Locals, LocalOK
<1>2. /\ live' = live \/ live' = None
      /\ UNCHANGED <<noThread, rehomed>>
  BY DEF Running, Take, Collected, Discard, Flushing, Flush, Written, WriteFailed, ClaimGap, GapRow,
     Acknowledge, KeepGoing, Leave, Abandoning, EmptyQueue, WriteLeftover, CloseConnection, queues
<1>3. CASE Take(w)
  <2>1. buffer[w] # <<>> /\ buffer' = [buffer EXCEPT ![w] = Tail(@)] /\ pc'[w] \in Serving
    BY <1>1, <1>3, ThreadTypes DEF Take, Goto, Serving
  <2>2. /\ EventsIn(w) = EventsIn(w)' \cup ({Head(buffer[w])} \cap Event)
        /\ \A r \in Writer \ {w} : EventsIn(r)' = EventsIn(r)
    BY <2>1, TailKeepsTwice DEF Accounted
  <2>3. \A q \in Writer : Emptier(w, q) => Emptier(w, q)'
    BY <1>1, <2>1 DEF Emptier
  <2> QED BY <1>1, <1>2, <2>2, <2>3, BehindStays
<1>4. CASE EmptyQueue(w)
  <2>1. buffer' = [buffer EXCEPT ![w] = <<>>]
    BY <1>1, <1>4 DEF EmptyQueue, WriterOK
  <2>2. EventsIn(w)' = {} /\ \A r \in Writer \ {w} : EventsIn(r)' = EventsIn(r)
    BY <2>1, EmptyKeepsTwice DEF Accounted
  <2>3. \A q \in Writer : Emptier(w, q) => q = w
    BY <1>1 DEF Emptier
  <2> QED BY <1>1, <1>2, <2>2, <2>3, BehindStays
<1>5. CASE ~Take(w) /\ ~EmptyQueue(w)
  <2>1. buffer' = buffer
    BY <1>5 DEF Running, Collected, Discard, Flushing, Flush, Written, WriteFailed, ClaimGap, GapRow,
       Acknowledge, KeepGoing, Leave, Abandoning, WriteLeftover, CloseConnection, queues
  <2>2. \A q \in Writer : EventsIn(q)' = EventsIn(q)
    BY <2>1, EventsStayIn
  <2>3. CASE Collected(w) \/ Discard(w) \/ KeepGoing(w) \/ Leave(w)
    <3>1. pc'[w] \in Serving \cup {"abandon"}
      BY <1>1, <2>3, ThreadTypes DEF Collected, Discard, KeepGoing, Leave, Goto, Serving
    <3>2. \A q \in Writer : Emptier(w, q) => Emptier(w, q)'
      BY <1>1, <3>1 DEF Emptier
    <3> QED BY <1>1, <1>2, <2>2, <3>2, BehindStays
  <2>4. CASE Flushing(w)
    <3>1. pc'[w] \in Serving
      BY <1>1, <2>4, ThreadTypes DEF Flushing, Flush, Written, WriteFailed, ClaimGap, GapRow,
         Acknowledge, Goto, Serving
    <3>2. \A q \in Writer : Emptier(w, q) => Emptier(w, q)'
      BY <1>1, <3>1 DEF Emptier
    <3> QED BY <1>1, <1>2, <2>2, <3>2, BehindStays
  <2>5. CASE WriteLeftover(w) \/ CloseConnection(w)
    <3>1. pc[w] \in {"leftover", "close"}
      BY <2>5 DEF WriteLeftover, CloseConnection
    <3>2. \A q \in Writer : ~Emptier(w, q)
      BY <1>1, <3>1 DEF Emptier, Serving
    <3> QED BY <1>1, <1>2, <2>2, <3>2, BehindStays
  <2> QED BY <1>5, <2>3, <2>4, <2>5 DEF Running, Abandoning
<1> QED BY <1>3, <1>4, <1>5

LEMMA StopperBehind ==
  ASSUME Base, Accounted, Behind, NEW s \in Stopper, Stop(s) \/ StoppingIt(s)
  PROVE  Behind'
<1>1. /\ Alone(s) /\ s \in Thread /\ s \notin Producer /\ s \notin Writer /\ StopperOK(s) /\ Types
  BY ThreadKinds, StopperAlone, Constants DEF Base, Locals, LocalOK
<1>2. /\ live' = live \/ live' = None
      /\ UNCHANGED <<noThread, rehomed>>
  BY DEF Stop, StoppingIt, Detach, Signal, Join, Forget, Abandoning, EmptyQueue, WriteLeftover, queues
<1>3. CASE Stop(s) \/ Detach(s) \/ Forget(s) \/ WriteLeftover(s)
  <2>1. buffer' = buffer /\ pc[s] \in {"idle", "detach", "forget", "leftover"}
    BY <1>3 DEF Stop, Detach, Forget, WriteLeftover, queues
  <2>2. \A q \in Writer : EventsIn(q)' = EventsIn(q)
    BY <2>1, EventsStayIn
  <2>3. \A q \in Writer : ~Emptier(s, q)
    BY <1>1, <2>1 DEF Emptier
  <2> QED BY <1>1, <1>2, <2>2, <2>3, BehindStays
<1>4. CASE Join(s)
  <2>1. buffer' = buffer /\ pc'[s] = "abandon" /\ queue'[s] = queue[s]
    BY <1>1, <1>4, ThreadTypes DEF Join, queues, places, Goto
  <2>2. \A q \in Writer : EventsIn(q)' = EventsIn(q)
    BY <2>1, EventsStayIn
  <2>3. \A q \in Writer : Emptier(s, q) => Emptier(s, q)'
    BY <1>1, <2>1 DEF Emptier
  <2> QED BY <1>1, <1>2, <2>2, <2>3, BehindStays
<1>5. CASE Signal(s)
  <2>1. pc'[s] \in {"abandon", "join"} /\ queue'[s] = queue[s]
    BY <1>1, <1>5, ThreadTypes DEF Signal, places, Goto
  <2>2. \A q \in Writer : EventsIn(q)' = EventsIn(q)
    <3>1. CASE buffer' = buffer
      BY <3>1, EventsStayIn
    <3>2. CASE Put(queue[s], StopWake)
      <4>1. queue[s] \in Writer
        BY <1>1, <1>5, TypedNumbers DEF StopperOK, Signal
      <4>2. PICK q \in Writer : q = queue[s]
        BY <4>1
      <4>3. /\ StopWake \notin EventsIn(q) /\ StopWake \in Item /\ Put(q, StopWake) /\ NoneTwice
            /\ {StopWake} \cap Event = {}
        BY <3>2, <4>2, Constants DEF EventsIn, Accounted
      <4>4. EventsIn(q)' = EventsIn(q) /\ \A r \in Writer \ {q} : EventsIn(r)' = EventsIn(r)
        BY <4>3, PutKeepsTwice
      <4> QED BY <4>4
    <3> QED BY <1>5, <3>1, <3>2 DEF Signal
  <2>3. \A q \in Writer : Emptier(s, q) => Emptier(s, q)'
    BY <1>1, <2>1 DEF Emptier
  <2> QED BY <1>1, <1>2, <2>2, <2>3, BehindStays
<1>6. CASE EmptyQueue(s)
  <2>1. queue[s] \in Writer
    BY <1>1, <1>6, TypedNumbers DEF StopperOK, EmptyQueue
  <2>2. PICK o \in Writer : o = queue[s]
    BY <2>1
  <2>3. buffer' = [buffer EXCEPT ![o] = <<>>]
    BY <1>6, <2>2 DEF EmptyQueue
  <2>4. EventsIn(o)' = {} /\ \A r \in Writer \ {o} : EventsIn(r)' = EventsIn(r)
    BY <2>3, EmptyKeepsTwice DEF Accounted
  <2>5. \A q \in Writer : Emptier(s, q) => q = o
    BY <1>1, <2>2 DEF Emptier
  <2>6. \A q \in Writer : EventsIn(q)' \subseteq EventsIn(q)
    BY <2>4
  <2> QED BY <1>1, <1>2, <2>4, <2>5, <2>6, BehindStays
<1> QED BY <1>3, <1>4, <1>5, <1>6 DEF StoppingIt, Abandoning

LEMMA WaiterBehind ==
  ASSUME Base, Accounted, Behind, NEW f \in Waiter, FlushCall(f) \/ FlushMark(f)
  PROVE  Behind'
<1>1. /\ Alone(f) /\ f \in Thread /\ WaiterOK(f) /\ Types
  BY ThreadKinds, WaiterAlone DEF Base, Locals, LocalOK
<1>2. UNCHANGED <<live, noThread, rehomed>>
  BY DEF FlushCall, FlushMark, queues
<1>3. \A q \in Writer : ~Emptier(f, q)
  BY Constants DEF Emptier
<1>4. \A q \in Writer : EventsIn(q)' = EventsIn(q)
  <2>1. CASE buffer' = buffer
    BY <2>1, EventsStayIn
  <2>2. CASE FlushMark(f) /\ Put(queue[f], f)
    <3>1. queue[f] \in Writer
      BY <1>1, <2>2, TypedNumbers DEF WaiterOK, FlushMark
    <3>2. PICK q \in Writer : q = queue[f]
      BY <3>1
    <3>3. f \notin EventsIn(q) /\ f \in Item /\ Put(q, f) /\ NoneTwice /\ {f} \cap Event = {}
      BY <2>2, <3>2, Constants DEF EventsIn, Accounted
    <3>4. EventsIn(q)' = EventsIn(q) /\ \A r \in Writer \ {q} : EventsIn(r)' = EventsIn(r)
      BY <3>3, PutKeepsTwice
    <3> QED BY <3>4
  <2> QED BY <2>1, <2>2 DEF FlushCall, FlushMark, queues
<1> QED BY <1>1, <1>2, <1>3, <1>4, BehindStays

LEMMA DrainerBehind ==
  ASSUME Base, Accounted, Behind, NEW d \in Drainer, Drain(d) \/ Flushing(d)
  PROVE  Behind'
<1>1. Alone(d) /\ d \in Thread /\ Types
  BY ThreadKinds, DrainerAlone DEF Base
<1>2. UNCHANGED <<live, noThread, rehomed>>
  BY DEF Drain, Flushing, Flush, Written, WriteFailed, ClaimGap, GapRow, Acknowledge, queues
<1>3. \A q \in Writer : ~Emptier(d, q)
  BY Constants DEF Emptier
<1>4. \A q \in Writer : EventsIn(q)' \subseteq EventsIn(q)
  <2>1. CASE Drain(d)
    <3>1. live \in Writer
      BY <1>1, <2>1, TypedNumbers DEF Drain
    <3>2. PICK o \in Writer : o = live
      BY <3>1
    <3>3. buffer' = [buffer EXCEPT ![o] = <<>>]
      BY <2>1, <3>2 DEF Drain
    <3>4. EventsIn(o)' = {} /\ \A r \in Writer \ {o} : EventsIn(r)' = EventsIn(r)
      BY <3>3, EmptyKeepsTwice DEF Accounted
    <3> QED BY <3>4
  <2>2. CASE Flushing(d)
    <3>1. buffer' = buffer
      BY <2>2 DEF Flushing, Flush, Written, WriteFailed, ClaimGap, GapRow, Acknowledge, queues
    <3> QED BY <3>1, EventsStayIn
  <2> QED BY <2>1, <2>2
<1> QED BY <1>1, <1>2, <1>3, <1>4, BehindStays

LEMMA NoThreadBehind ==
  ASSUME Base, Behind, NEW p \in Producer, NoThread(p)
  PROVE  Behind'
<1>1. noThread \in Nat
  BY ToldIsNatural
<1> QED BY <1>1 DEF Behind, NoThread

\* Every step keeps somebody on the way to each detached queue with an event.
LEMMA NextBehind ==
  ASSUME Base, Accounted, Behind, [Next]_vars
  PROVE  Behind'
<1>1. ASSUME NEW p \in Producer, Record(p) \/ Recording(p) PROVE Behind'
  BY <1>1, RecordBehind, StartBehind, NoThreadBehind, PutBehind, CheckBehind, OrphanBehind,
     RehomedBehind DEF Recording
<1>2. CASE UNCHANGED vars
  <2>1. UNCHANGED <<buffer, live, pc, queue, orphan, noThread, rehomed>>
    BY <1>2 DEF vars, queues, places
  <2> QED BY <2>1 DEF Behind, EventsIn, Coming
<1> QED BY <1>1, <1>2, WriterBehind, StopperBehind, WaiterBehind, DrainerBehind DEF Next

\* While every writer can be started, an event in a queue nobody is about to
\* empty got there by _rehome().
THEOREM NothingIsLeftBehind == Spec => []RecordLeavesNothingBehind
<1>1. Init => Base /\ Accounted /\ Behind
  <2>1. Init => Behind
    BY DEF Init, Behind, EventsIn, Range
  <2> QED BY <2>1, InitBase, InitAccounted
<1>2. Base /\ Accounted /\ Behind /\ [Next]_vars => (Base /\ Accounted /\ Behind)'
  BY NextBase, NextAccounted, NextBehind
<1>3. Behind => RecordLeavesNothingBehind
  BY DEF Behind, EventsIn, RecordLeavesNothingBehind
<1> QED BY <1>1, <1>2, <1>3, PTL DEF Spec

-----------------------------------------------------------------------------
(***************************************************************************)
(* Marks and connections.  A mark is on a thread that has one to consume,  *)
(* and an open connection has a mark unless another's stop() took it.      *)
(***************************************************************************)
MarkOK(t) ==
  t \in touched =>
    /\ t \in Producer => pc[t] = "here"
    /\ t \in Stopper => pc[t] \in {"leftover", "forget"} /\ inside[t] = None
    /\ t \notin Waiter
    /\ t \in Drainer => pc[t] \in {"write", "gap", "gapwrite", "ack"}
    /\ t \in Writer => pc[t] \notin {"unmade", "gone"}

Marked == open \subseteq touched \cup unmarked /\ \A t \in Thread : MarkOK(t)

\* A thread that marks nobody else, and has its own mark in order, keeps all
\* marks in order.
LEMMA MarkedStays ==
  ASSUME Base, Marked, NEW t \in Thread, Alone(t), touched' \subseteq touched \cup {t}, MarkOK(t)',
         open' \subseteq touched' \cup unmarked'
  PROVE  Marked'
<1>1. ASSUME NEW u \in Thread \ {t} PROVE MarkOK(u)'
  <2>1. MarkOK(u) /\ pc'[u] = pc[u] /\ (u \in Stopper => inside'[u] = inside[u])
    BY DEF Marked, Alone
  <2>2. u \in touched' => u \in touched
    OBVIOUS
  <2> QED BY <2>1, <2>2 DEF MarkOK
<1> QED BY <1>1 DEF Marked

\* The steps of each kind of thread.
LEMMA ProducerMarked ==
  ASSUME Base, Marked, NEW p \in Producer, Record(p) \/ Recording(p)
  PROVE  Marked'
<1>1. p \in Thread /\ MarkOK(p)
  BY ThreadKinds DEF Marked
<1>2. CASE StartWriter(p)
  <2>1. UNCHANGED <<touched, open, unmarked, inside>> /\ p \notin touched
    BY <1>1, <1>2 DEF StartWriter, marks, places, MarkOK
  <2>2. queue[p] \in Writer
    BY <1>2, TypedNumbers DEF Base, Locals, LocalOK, ProducerOK, StartWriter, Thread, Caller
  <2>3. PICK w \in Writer : w = queue[p]
    BY <2>2
  <2>4. pc' = [pc EXCEPT ![p] = IF @ = "start" THEN "put" ELSE "reput", ![w] = "take"]
    BY <1>2, <2>3 DEF StartWriter
  <2>5. ASSUME NEW u \in Thread PROVE MarkOK(u)'
    <3>1. CASE u = p
      BY <2>1, <3>1 DEF MarkOK
    <3>2. CASE u # p /\ u = w
      <4>1. pc'[u] = "take"
        BY <2>4, <3>2, ThreadTypes
      <4> QED BY <3>2, <4>1, Constants DEF MarkOK
    <3>3. CASE u # p /\ u # w
      <4>1. pc'[u] = pc[u] /\ MarkOK(u)
        BY <2>4, <3>3, ThreadTypes DEF Marked
      <4> QED BY <2>1, <4>1 DEF MarkOK
    <3> QED BY <3>1, <3>2, <3>3
  <2> QED BY <2>1, <2>5 DEF Marked
<1>3. CASE ~StartWriter(p)
  <2>1. Alone(p)
    BY <1>3, ProducerAlone
  <2>2. CASE Record(p) /\ Touches(p)
    <3>1. ThreadOf(p) = p
      BY Constants DEF ThreadOf
    <3>2. pc'[p] = "here" \/ UNCHANGED marks
      BY <1>1, <2>2, ThreadTypes DEF Record, Goto
    <3>3. p \notin touched
      BY <1>1, <2>2 DEF MarkOK, Record
    <3>4. MarkOK(p)'
      BY <3>2, <3>3, Constants DEF MarkOK, marks
    <3>5. touched' \subseteq touched \cup {p} /\ open' \subseteq touched' \cup unmarked'
      BY <2>2, <3>1, Constants DEF Touches, Marked, marks
    <3> QED BY <1>1, <2>1, <3>4, <3>5, MarkedStays
  <2>3. CASE WriteHere(p)
    <3>1. touched' = touched \ {p} /\ UNCHANGED <<open, unmarked>>
      BY <2>3 DEF WriteHere
    <3>2. MarkOK(p)' /\ touched' \subseteq touched \cup {p}
      BY <3>1 DEF MarkOK
    <3>3. open' \subseteq touched' \cup unmarked'
      BY <3>1, Constants DEF Marked, Base, Types, MarkTypes
    <3> QED BY <1>1, <2>1, <3>2, <3>3, MarkedStays
  <2>4. CASE UNCHANGED marks /\ ~WriteHere(p)
    <3>1. pc[p] # "here"
      BY <1>3, <2>4 DEF Record, Recording, LookUp, MakeQueue, NoThread, PutEvent, QueueFull, CheckQueue,
         TakeOrphan, PutRehomed
    <3>2. p \notin touched /\ UNCHANGED <<touched, open, unmarked>>
      BY <1>1, <2>4, <3>1 DEF MarkOK, marks
    <3>3. MarkOK(p)'
      BY <3>2 DEF MarkOK
    <3> QED BY <1>1, <2>1, <3>2, <3>3, MarkedStays DEF Marked
  <2> QED BY <1>3, <2>2, <2>3, <2>4 DEF Record, Recording, LookUp, MakeQueue, NoThread, PutEvent,
     QueueFull, CheckQueue, TakeOrphan, PutRehomed
<1> QED BY <1>2, <1>3

\* A thread that is no stop() is marked itself.
LEMMA FlusherMarked ==
  ASSUME Base, Marked, NEW t \in Writer \cup Drainer, Flushing(t)
  PROVE  Marked'
<1>1. t \in Thread /\ MarkOK(t) /\ Alone(t) /\ t \notin Stopper /\ t \notin Producer /\ t \notin Waiter
  BY ThreadKinds, FlusherAlone, Constants DEF Marked
<1>2. CASE Flush(t)
  <2>1. ThreadOf(t) = t
    BY <1>1 DEF ThreadOf
  <2>2. pc'[t] = "write" /\ Touches(t)
    BY <1>1, <1>2, ThreadTypes DEF Flush, Goto
  <2>3. MarkOK(t)'
    BY <1>1, <2>2 DEF MarkOK
  <2>4. touched' \subseteq touched \cup {t} /\ open' \subseteq touched' \cup unmarked'
    BY <2>1, <2>2 DEF Touches, Marked, marks
  <2> QED BY <1>1, <2>3, <2>4, MarkedStays
<1>3. CASE Written(t) \/ WriteFailed(t) \/ GapRow(t)
  <2>1. UNCHANGED <<touched, open, unmarked>> /\ pc'[t] \in {"gap", "ack"}
    BY <1>1, <1>3, ThreadTypes DEF Written, WriteFailed, GapRow, Goto, marks
  <2>2. MarkOK(t)'
    BY <1>1, <2>1 DEF MarkOK
  <2> QED BY <1>1, <2>1, <2>2, MarkedStays DEF Marked
<1>4. CASE ClaimGap(t)
  <2>1. ThreadOf(t) = t
    BY <1>1 DEF ThreadOf
  <2>2. pc'[t] \in {"gapwrite", "ack"} /\ (Touches(t) \/ UNCHANGED marks)
    BY <1>1, <1>4, ThreadTypes DEF ClaimGap, Goto
  <2>3. MarkOK(t)'
    BY <1>1, <2>2 DEF MarkOK
  <2>4. touched' \subseteq touched \cup {t} /\ open' \subseteq touched' \cup unmarked'
    BY <2>1, <2>2 DEF Touches, Marked, marks
  <2> QED BY <1>1, <2>3, <2>4, MarkedStays
<1>5. CASE Acknowledge(t)
  <2>1. /\ touched' = IF t \in Writer THEN touched ELSE touched \ {t}
        /\ UNCHANGED <<open, unmarked>> /\ (t \in Writer => pc'[t] = "check")
    BY <1>1, <1>5, ThreadTypes DEF Acknowledge, Goto
  <2>2. MarkOK(t)'
    BY <1>1, <2>1, Constants DEF MarkOK
  <2>3. touched' \subseteq touched \cup {t} /\ open' \subseteq touched' \cup unmarked'
    BY <2>1 DEF Marked, Base, Types, MarkTypes
  <2> QED BY <1>1, <2>2, <2>3, MarkedStays
<1> QED BY <1>2, <1>3, <1>4, <1>5 DEF Flushing

LEMMA WriterMarked ==
  ASSUME Base, Marked, NEW w \in Writer, Running(w)
  PROVE  Marked'
<1>1. w \in Thread /\ MarkOK(w) /\ Alone(w) /\ w \notin Stopper /\ w \notin Producer /\ w \notin Waiter
      /\ w \notin Drainer
  BY ThreadKinds, WriterAlone, Constants DEF Marked
<1>2. CASE Take(w) \/ Collected(w) \/ Discard(w) \/ KeepGoing(w) \/ Leave(w) \/ WriteLeftover(w)
  <2>1. UNCHANGED <<touched, open, unmarked>> /\ pc'[w] \notin {"unmade", "gone"}
    BY <1>1, <1>2, ThreadTypes DEF Take, Collected, Discard, KeepGoing, Leave, WriteLeftover, AfterAbandon,
       Goto, marks
  <2>2. MarkOK(w)'
    BY <1>1, <2>1 DEF MarkOK
  <2> QED BY <1>1, <2>1, <2>2, MarkedStays DEF Marked
<1>3. CASE EmptyQueue(w)
  <2>1. ThreadOf(w) = w
    BY <1>1 DEF ThreadOf
  <2>2. pc'[w] \in {"close", "leftover"} /\ (Touches(w) \/ UNCHANGED marks)
    BY <1>1, <1>3, ThreadTypes DEF EmptyQueue, AfterAbandon, Goto
  <2>3. MarkOK(w)'
    BY <1>1, <2>2 DEF MarkOK
  <2>4. touched' \subseteq touched \cup {w} /\ open' \subseteq touched' \cup unmarked'
    BY <2>1, <2>2 DEF Touches, Marked, marks
  <2> QED BY <1>1, <2>3, <2>4, MarkedStays
<1>4. CASE CloseConnection(w)
  <2>1. /\ touched' = touched \ {w} /\ unmarked' = unmarked
        /\ open' = IF w \in touched THEN open \ {w} ELSE open
    BY <1>4 DEF CloseConnection
  <2>2. MarkOK(w)' /\ touched' \subseteq touched \cup {w}
    BY <2>1 DEF MarkOK
  <2>3. open' \subseteq touched' \cup unmarked'
    BY <2>1 DEF Marked
  <2> QED BY <1>1, <2>2, <2>3, MarkedStays
<1> QED BY <1>2, <1>3, <1>4, FlusherMarked DEF Running, Abandoning

LEMMA StopperMarked ==
  ASSUME Base, Marked, NEW s \in Stopper, Stop(s) \/ StoppingIt(s)
  PROVE  Marked'
<1>1. s \in Thread /\ MarkOK(s) /\ Alone(s) /\ s \notin Writer /\ s \notin Producer /\ s \notin Waiter
      /\ s \notin Drainer /\ StopperOK(s)
  BY ThreadKinds, StopperAlone, Constants DEF Marked, Base, Locals, LocalOK
<1>2. CASE Stop(s) \/ Detach(s) \/ Signal(s) \/ Join(s)
  <2>1. UNCHANGED <<touched, open, unmarked>> /\ s \notin touched
    BY <1>1, <1>2 DEF Stop, Detach, Signal, Join, marks, MarkOK
  <2>2. MarkOK(s)'
    BY <2>1 DEF MarkOK
  <2> QED BY <1>1, <2>1, <2>2, MarkedStays DEF Marked
<1>3. CASE EmptyQueue(s)
  <2>1. s \notin touched /\ inside' = inside /\ pc'[s] \in {"forget", "leftover"}
        /\ (Touches(s) \/ UNCHANGED marks)
    BY <1>1, <1>3, ThreadTypes DEF EmptyQueue, AfterAbandon, Goto, places, MarkOK
  <2>2. CASE UNCHANGED marks
    <3>1. MarkOK(s)' /\ UNCHANGED <<touched, open, unmarked>>
      BY <2>1, <2>2 DEF MarkOK, marks
    <3> QED BY <1>1, <3>1, MarkedStays DEF Marked
  <2>3. CASE Touches(s) /\ inside[s] = None
    <3>1. ThreadOf(s) = s
      BY <2>3 DEF ThreadOf
    <3>2. MarkOK(s)'
      BY <1>1, <2>1, <2>3 DEF MarkOK
    <3>3. touched' \subseteq touched \cup {s} /\ open' \subseteq touched' \cup unmarked'
      BY <2>3, <3>1, <1>1 DEF Touches, Marked, marks
    <3> QED BY <1>1, <3>2, <3>3, MarkedStays
  <2>4. CASE Touches(s) /\ inside[s] # None
    <3>1. ThreadOf(s) = inside[s] /\ inside[s] \in Writer /\ pc[inside[s]] \in {"write", "gapwrite", "leftover"}
      BY <1>1, <2>4, ThreadTypes, WritersAreNumbers DEF ThreadOf, Base, InsidersHold
    <3>2. PICK w \in Writer : w = inside[s]
      BY <3>1
    <3>3. touched' \subseteq touched \cup {w} /\ open' \subseteq touched' \cup unmarked'
      BY <2>4, <3>1, <3>2 DEF Touches, Marked, marks
    <3>4. ASSUME NEW u \in Thread PROVE MarkOK(u)'
      <4>1. CASE u = s
        BY <2>1, <3>3, <4>1, <1>1, Constants DEF MarkOK
      <4>2. CASE u = w
        <5>1. pc'[u] = pc[u] /\ u # s
          BY <1>1, <4>2, ThreadKinds DEF Alone
        <5> QED BY <3>1, <3>2, <4>2, <5>1, Constants DEF MarkOK
      <4>3. CASE u # s /\ u # w
        <5>1. pc'[u] = pc[u] /\ MarkOK(u) /\ (u \in touched' => u \in touched)
          BY <1>1, <3>3, <4>3 DEF Alone, Marked
        <5> QED BY <2>1, <5>1 DEF MarkOK
      <4> QED BY <4>1, <4>2, <4>3
    <3> QED BY <3>3, <3>4 DEF Marked
  <2> QED BY <2>1, <2>2, <2>3, <2>4
<1>4. CASE WriteLeftover(s)
  <2>1. UNCHANGED <<touched, open, unmarked, inside>> /\ pc'[s] = "forget"
    BY <1>1, <1>4, ThreadTypes DEF WriteLeftover, AfterAbandon, Goto, marks, places
  <2>2. MarkOK(s)'
    BY <1>1, <2>1 DEF MarkOK
  <2> QED BY <1>1, <2>1, <2>2, MarkedStays DEF Marked
<1>5. CASE Forget(s)
  <2>1. queue[s] \in Writer
    BY <1>1, <1>5, TypedNumbers DEF StopperOK, Forget, Base
  <2>2. s \notin touched'
    <3>1. CASE inside[s] = None
      BY <1>1, <1>5, <2>1, <3>1 DEF Forget, ThreadOf
    <3>2. CASE inside[s] # None
      BY <1>1, <1>5, <3>2 DEF Forget, MarkOK
    <3> QED BY <3>1, <3>2
  <2>3. MarkOK(s)' /\ touched' \subseteq touched \cup {s}
    BY <1>5, <2>2 DEF MarkOK, Forget
  <2>4. open' \subseteq touched' \cup unmarked'
    BY <1>5 DEF Forget, Marked, Base, Types, MarkTypes
  <2> QED BY <1>1, <2>3, <2>4, MarkedStays
<1> QED BY <1>2, <1>3, <1>4, <1>5 DEF StoppingIt, Abandoning

LEMMA OthersMarked ==
  ASSUME Base, Marked, NEW t \in Waiter \cup Drainer,
         \/ t \in Waiter /\ (FlushCall(t) \/ FlushMark(t))
         \/ t \in Drainer /\ Drain(t)
  PROVE  Marked'
<1>1. t \in Thread /\ MarkOK(t) /\ Alone(t)
  BY ThreadKinds, WaiterAlone, DrainerAlone DEF Marked
<1>2. UNCHANGED <<touched, open, unmarked>> /\ t \notin touched
  BY <1>1 DEF FlushCall, FlushMark, Drain, MarkOK, marks
<1>3. MarkOK(t)'
  BY <1>2 DEF MarkOK
<1> QED BY <1>1, <1>2, <1>3, MarkedStays DEF Marked

\* Every step keeps the marks in order.
LEMMA NextMarked ==
  ASSUME Base, Marked, [Next]_vars
  PROVE  Marked'
<1>1. CASE UNCHANGED vars
  <2>1. UNCHANGED <<touched, open, unmarked, pc, inside>>
    BY <1>1 DEF vars, marks, places
  <2> QED BY <2>1 DEF Marked, MarkOK
<1> QED BY <1>1, ProducerMarked, WriterMarked, StopperMarked, OthersMarked, FlusherMarked DEF Next

\* A writer whose mark nobody else took has closed its connection when it is
\* gone, and no mark outlives the call or the writer that made it.
THEOREM WritersCloseUnlessUnmarked == Spec => []NothingStaysOpen
<1>1. Init => Base /\ Marked
  <2>1. Init => Marked
    BY DEF Init, Marked, MarkOK
  <2> QED BY <2>1, InitBase
<1>2. Base /\ Marked /\ [Next]_vars => (Base /\ Marked)'
  BY NextBase, NextMarked
<1>3. Base /\ Marked => NothingStaysOpen
  <2>1. SUFFICES ASSUME Base, Marked PROVE NothingStaysOpen
    OBVIOUS
  <2>2. ASSUME NEW w \in Writer \ unmarked, pc[w] = "gone", w \in open PROVE FALSE
    <3>1. w \in touched /\ MarkOK(w)
      BY <2>1, <2>2, ThreadKinds DEF Marked
    <3> QED BY <2>2, <3>1 DEF MarkOK
  <2>3. ASSUME NEW t \in touched, pc[t] \in {"absent", "unmade", "idle", "over", "gone"} PROVE FALSE
    <3>1. t \in Thread /\ MarkOK(t) /\ LocalOK(t)
      BY <2>1 DEF Marked, Base, Types, MarkTypes, Locals
    <3>2. t \in Writer
      BY <2>3, <3>1 DEF MarkOK, Thread, Caller
    <3> QED BY <2>3, <3>1, <3>2 DEF MarkOK, LocalOK, WriterOK
  <2> QED BY <2>2, <2>3 DEF NothingStaysOpen
<1> QED BY <1>1, <1>2, <1>3, PTL DEF Spec

-----------------------------------------------------------------------------
(***************************************************************************)
(* A released flush() was told the truth.  While no stop() and no          *)
(* drain_once() has begun and every writer could be started there is one   *)
(* queue, and its writer takes it in order: whatever a flush() waits for   *)
(* is settled, in the writer's hand, or ahead of the marker.               *)
(***************************************************************************)
Quiet == noThread = 0 /\ \A t \in Stopper \cup Drainer : pc[t] \in {"absent", "idle"}

Working == {"unmade", "take", "flush", "write", "gap", "gapwrite", "ack", "check"}

OneQueue ==
  /\ live = made /\ made <= 1 /\ ~stopping
  /\ \A w \in Writer : pc[w] \in Working
  /\ \A w \in Writer : w # live => buffer[w] = <<>>
  /\ \A p \in Producer : pc[p] \notin {"rehome", "relook", "restart", "reput"}

Settled == delivered \cup lost

Ahead(s, k) == {s[i] : i \in 1..(k - 1)}

\* Wherever its marker is, what a flush() waits for is not behind it.
Reached(f, q) ==
  /\ \A k \in DOMAIN buffer[q] :
       buffer[q][k] = f => since[f] \subseteq Settled \cup Held(q) \cup Ahead(buffer[q], k)
  /\ f \in hand[q] => since[f] \subseteq Settled \cup Held(q)

Unsent(f) == f \notin released /\ \A q \in Writer : f \notin Range(buffer[q]) /\ f \notin hand[q]

Truth(f) ==
  /\ pc[f] \in {"absent", "idle", "mark"} => Unsent(f)
  /\ pc[f] = "mark" => since[f] \subseteq Settled \cup Held(live) \cup EventsIn(live)
  /\ \A q \in Writer : Reached(f, q)
  /\ f \in released => since[f] \subseteq Settled

Truths == \A f \in Waiter : Truth(f)

Truthful == Quiet => OneQueue /\ Truths

\* What is ahead of a place when the sequence grows ...
LEMMA AheadInAppend ==
  ASSUME NEW S, NEW s \in Seq(S), NEW x \in S
  PROVE  /\ DOMAIN Append(s, x) = DOMAIN s \cup {Len(s) + 1}
         /\ \A k \in DOMAIN s : Append(s, x)[k] = s[k] /\ Ahead(Append(s, x), k) = Ahead(s, k)
         /\ Append(s, x)[Len(s) + 1] = x /\ Ahead(Append(s, x), Len(s) + 1) = Range(s)
<1>1. /\ Len(s) \in Nat /\ DOMAIN s = 1..Len(s)
  BY LenProperties
<1>2. /\ Append(s, x) \in Seq(S) /\ Len(Append(s, x)) = Len(s) + 1
      /\ \A i \in 1..Len(s) : Append(s, x)[i] = s[i]
      /\ Append(s, x)[Len(s) + 1] = x
  BY AppendProperties
<1>3. DOMAIN Append(s, x) = 1..(Len(s) + 1)
  BY <1>2, LenProperties
<1>4. 1..(Len(s) + 1) = (1..Len(s)) \cup {Len(s) + 1}
  BY <1>1
<1>5. ASSUME NEW k \in 1..(Len(s) + 1) PROVE Ahead(Append(s, x), k) = Ahead(s, k)
  <2>1. 1..(k - 1) \subseteq 1..Len(s)
    BY <1>1
  <2> QED BY <2>1, <1>2 DEF Ahead
<1>6. Ahead(s, Len(s) + 1) = Range(s)
  <2>1. 1..((Len(s) + 1) - 1) = DOMAIN s
    BY <1>1
  <2> QED BY <2>1 DEF Ahead, Range
<1>7. Len(s) + 1 \in 1..(Len(s) + 1) /\ \A k \in DOMAIN s : k \in 1..(Len(s) + 1)
  BY <1>1
<1> QED BY <1>1, <1>2, <1>3, <1>4, <1>5, <1>6, <1>7

\* ... and when its head is taken.
LEMMA AheadInTail ==
  ASSUME NEW S, NEW s \in Seq(S), s # <<>>
  PROVE  /\ 1 \in DOMAIN s /\ s[1] = Head(s) /\ Ahead(s, 1) = {}
         /\ \A k \in DOMAIN Tail(s) :
              /\ k + 1 \in DOMAIN s /\ Tail(s)[k] = s[k + 1]
              /\ Ahead(s, k + 1) \subseteq {Head(s)} \cup Ahead(Tail(s), k)
<1>1. /\ Len(s) \in Nat /\ Len(s) # 0 /\ DOMAIN s = 1..Len(s)
  BY LenProperties, EmptySeq
<1>2. /\ Head(s) = s[1] /\ Tail(s) \in Seq(S) /\ Len(Tail(s)) = Len(s) - 1
      /\ \A i \in 1..Len(Tail(s)) : Tail(s)[i] = s[i + 1]
  BY HeadTailProperties
<1>3. DOMAIN Tail(s) = 1..(Len(s) - 1)
  BY <1>2, LenProperties
<1>4. ASSUME NEW k \in DOMAIN Tail(s)
      PROVE  /\ k + 1 \in DOMAIN s /\ Tail(s)[k] = s[k + 1]
             /\ Ahead(s, k + 1) \subseteq {Head(s)} \cup Ahead(Tail(s), k)
  <2>1. k \in 1..Len(Tail(s)) /\ k + 1 \in DOMAIN s /\ Tail(s)[k] = s[k + 1]
    BY <1>1, <1>2, <1>3
  <2>2. ASSUME NEW i \in 1..((k + 1) - 1), i # 1 PROVE s[i] \in Ahead(Tail(s), k)
    <3>1. i - 1 \in 1..(k - 1) /\ i - 1 \in 1..Len(Tail(s)) /\ (i - 1) + 1 = i
      BY <1>1, <1>2, <2>1, <2>2
    <3>2. Tail(s)[i - 1] = s[i]
      BY <1>2, <3>1
    <3> QED BY <3>1, <3>2 DEF Ahead
  <2> QED BY <1>2, <2>1, <2>2 DEF Ahead
<1>5. 1 \in DOMAIN s /\ 1..(1 - 1) = {}
  BY <1>1
<1> QED BY <1>2, <1>4, <1>5 DEF Ahead

\* Once a stop() or a drain_once() has begun it is not quiet again.
LEMMA QuietBefore ==
  ASSUME Base, [Next]_vars, Quiet'
  PROVE  Quiet
<1> USE ThreadTypes, ThreadKinds
<1>1. noThread = 0
  <2>1. noThread \in Nat
    BY Constants DEF Base, Types, HistoryTypes
  <2>2. noThread' = noThread \/ noThread' = noThread + 1
    <3>1. ASSUME NEW p \in Producer, Record(p) \/ Recording(p) PROVE noThread' = noThread \/ noThread' = noThread + 1
      BY <3>1 DEF Recording, Record, LookUp, MakeQueue, StartWriter, NoThread, WriteHere, PutEvent,
         QueueFull, CheckQueue, TakeOrphan, PutRehomed
    <3>2. ASSUME NEW t \in Thread, Flushing(t) \/ Abandoning(t) PROVE noThread' = noThread
      BY <3>2 DEF Flushing, Flush, Written, WriteFailed, ClaimGap, GapRow, Acknowledge, Abandoning,
         EmptyQueue, WriteLeftover
    <3>3. ASSUME NEW w \in Writer, Running(w) PROVE noThread' = noThread
      BY <3>2, <3>3 DEF Running, Take, Collected, Discard, KeepGoing, Leave, CloseConnection
    <3>4. ASSUME NEW s \in Stopper, Stop(s) \/ StoppingIt(s) PROVE noThread' = noThread
      BY <3>2, <3>4 DEF Stop, StoppingIt, Detach, Signal, Join, Forget
    <3>5. ASSUME NEW f \in Waiter, FlushCall(f) \/ FlushMark(f) PROVE noThread' = noThread
      BY <3>5 DEF FlushCall, FlushMark
    <3>6. ASSUME NEW d \in Drainer, Drain(d) \/ Flushing(d) PROVE noThread' = noThread
      BY <3>2, <3>6 DEF Drain
    <3>7. CASE UNCHANGED vars
      BY <3>7 DEF vars
    <3> QED BY <3>1, <3>3, <3>4, <3>5, <3>6, <3>7 DEF Next
  <2> QED BY <2>1, <2>2 DEF Quiet
<1>2. ASSUME NEW t \in Stopper \cup Drainer, pc[t] \notin {"absent", "idle"}
      PROVE  pc'[t] \notin {"absent", "idle"}
  <2>0. t \notin Producer /\ t \notin Waiter /\ t \notin Writer /\ t \in Thread
    BY Constants
  <2>1. ASSUME NEW u \in Thread, u # t, Alone(u) PROVE pc'[t] = pc[t]
    BY <2>0, <2>1 DEF Alone
  <2>2. ASSUME NEW p \in Producer, Record(p) \/ Recording(p) PROVE pc'[t] = pc[t]
    <3>1. CASE StartWriter(p)
      <4>1. queue[p] \in Writer
        BY <3>1, TypedNumbers, Constants DEF StartWriter, Base, Locals, LocalOK, ProducerOK
      <4> QED BY <2>0, <3>1, <4>1 DEF StartWriter
    <3> QED BY <2>0, <2>1, <2>2, <3>1, ProducerAlone
  <2>3. ASSUME NEW d \in Writer \cup Drainer, Flushing(d), d = t PROVE pc'[t] \notin {"absent", "idle"}
    BY <2>0, <2>3 DEF Flushing, Flush, Written, WriteFailed, ClaimGap, GapRow, Acknowledge, Goto
  <2>4. ASSUME NEW s \in Stopper, Stop(s) \/ StoppingIt(s), s = t PROVE pc'[t] \notin {"absent", "idle"}
    BY <2>0, <2>4 DEF Stop, StoppingIt, Detach, Signal, Join, Abandoning, EmptyQueue, WriteLeftover,
       AfterAbandon, Forget, Goto
  <2>5. ASSUME NEW d \in Drainer, Drain(d) \/ Flushing(d) PROVE pc'[t] \notin {"absent", "idle"}
    <3>1. ASSUME Drain(d), d = t PROVE pc'[t] \notin {"absent", "idle"}
      BY <2>0, <3>1 DEF Drain, Goto
    <3> QED BY <1>2, <2>1, <2>3, <2>5, <3>1, DrainerAlone
  <2>6. ASSUME NEW s \in Stopper, Stop(s) \/ StoppingIt(s) PROVE pc'[t] \notin {"absent", "idle"}
    BY <1>2, <2>1, <2>4, <2>6, StopperAlone
  <2>7. ASSUME NEW w \in Writer, Running(w) PROVE pc'[t] = pc[t]
    BY <2>0, <2>1, <2>7, WriterAlone
  <2>8. ASSUME NEW f \in Waiter, FlushCall(f) \/ FlushMark(f) PROVE pc'[t] = pc[t]
    BY <2>0, <2>1, <2>8, WaiterAlone
  <2>9. CASE UNCHANGED vars
    BY <1>2, <2>9 DEF vars
  <2> QED BY <1>2, <2>2, <2>5, <2>6, <2>7, <2>8, <2>9 DEF Next
<1> QED BY <1>1, <1>2 DEF Quiet

\* There is one queue, and whoever has looked one up has that one.
LEMMA OneQueueOnly ==
  ASSUME Base, OneQueue
  PROVE  /\ live = None <=> made = 0
         /\ live # None => live = 1 /\ live \in Writer
         /\ \A w \in Writer : w # live => pc[w] = "unmade" /\ hand[w] = {} /\ Held(w) = {}
         /\ \A p \in Producer : pc[p] \in {"start", "put", "check"} => live # None /\ queue[p] = live
         /\ \A f \in Waiter : pc[f] \in {"mark", "wait"} => live # None /\ queue[f] = live
<1> USE ThreadKinds
<1>1. made \in {0, 1} /\ live = made
  BY TypedNumbers DEF Base, OneQueue
<1>2. ASSUME NEW w \in Writer, w # live PROVE pc[w] = "unmade" /\ hand[w] = {} /\ Held(w) = {}
  <2>1. ~(w <= made)
    BY <1>1, <1>2, WritersAreNumbers
  <2> QED BY <2>1 DEF Base, Locals, LocalOK, WriterOK, Held
<1>3. ASSUME NEW n \in 1..made PROVE live # None /\ n = live
  BY <1>1, <1>3 DEF None
<1>4. \A p \in Producer : pc[p] \in {"start", "put", "check"} => queue[p] \in 1..made
  BY DEF Base, Locals, LocalOK, ProducerOK
<1>5. \A f \in Waiter : pc[f] \in {"mark", "wait"} => queue[f] \in 1..made
  BY DEF Base, Locals, LocalOK, WaiterOK
<1>6. live # None => live = 1 /\ live \in Writer
  BY <1>1, TypedNumbers DEF None, Base
<1> QED BY <1>1, <1>2, <1>3, <1>4, <1>5, <1>6 DEF None

\* Steps that move no wake: what was settled or in hand still is one of both.
LEMMA TruthsStay ==
  ASSUME Base, OneQueue, Truths, UNCHANGED <<released, since, buffer>>,
         \A f \in Waiter : pc'[f] = pc[f],
         \A w \in Writer : /\ hand'[w] \cap Waiter = hand[w] \cap Waiter
                           /\ Held(w) \subseteq Held(w)' \cup Settled',
         Settled \subseteq Settled',
         live' = live \/ live = None
  PROVE  Truths'
<1>1. \A q \in Writer : EventsIn(q)' = EventsIn(q)
  BY DEF EventsIn
<1>2. ASSUME NEW f \in Waiter PROVE Truth(f)'
  <2>1. Truth(f)
    BY DEF Truths
  <2>2. \A q \in Writer : f \in hand'[q] <=> f \in hand[q]
    OBVIOUS
  <2>3. pc'[f] \in {"absent", "idle", "mark"} => Unsent(f)'
    BY <2>1, <2>2 DEF Truth, Unsent
  <2>4. ASSUME pc'[f] = "mark" PROVE (since[f] \subseteq Settled \cup Held(live) \cup EventsIn(live))'
    <3>1. live' = live /\ live \in Writer
      BY <2>4, OneQueueOnly
    <3>2. /\ since[f] \subseteq Settled \cup Held(live) \cup EventsIn(live)
          /\ Held(live) \subseteq Held(live)' \cup Settled' /\ EventsIn(live)' = EventsIn(live)
      BY <1>1, <2>1, <2>4, <3>1 DEF Truth
    <3> QED BY <3>1, <3>2
  <2>5. ASSUME NEW q \in Writer PROVE Reached(f, q)'
    <3>1. Reached(f, q) /\ Held(q) \subseteq Held(q)' \cup Settled'
      BY <2>1 DEF Truth
    <3> QED BY <2>2, <3>1 DEF Reached, Ahead
  <2>6. f \in released' => since'[f] \subseteq Settled'
    BY <2>1 DEF Truth
  <2> QED BY <2>3, <2>4, <2>5, <2>6 DEF Truth
<1> QED BY <1>2 DEF Truths

\* An item goes to the end of the queue.  If it is a marker, all its flush()
\* waits for is settled, in hand or in the queue.
LEMMA TruthsAppend ==
  ASSUME Base, OneQueue, Truths, UNCHANGED <<released, since, delivered, lost, live>>,
         live \in Writer, NEW item \in Item, Put(live, item),
         \A w \in Writer : hand'[w] = hand[w],
         \A f \in Waiter : pc'[f] = pc[f] \/ (f = item /\ pc[f] = "mark" /\ pc'[f] = "wait"),
         item \in Waiter => pc'[item] = "wait" /\ pc[item] = "mark"
  PROVE  Truths'
<1>1. /\ buffer \in [Writer -> Seq(Item)] /\ buffer[live] \in Seq(Item)
      /\ buffer'[live] = Append(buffer[live], item)
      /\ \A q \in Writer \ {live} : buffer'[q] = buffer[q]
  BY DEF Base, Types, QueueTypes, Put
<1>2. /\ DOMAIN buffer'[live] = DOMAIN buffer[live] \cup {Len(buffer[live]) + 1}
      /\ \A k \in DOMAIN buffer[live] :
           buffer'[live][k] = buffer[live][k] /\ Ahead(buffer'[live], k) = Ahead(buffer[live], k)
      /\ buffer'[live][Len(buffer[live]) + 1] = item
      /\ Ahead(buffer'[live], Len(buffer[live]) + 1) = Range(buffer[live])
  BY <1>1, AheadInAppend
<1>3. Range(buffer'[live]) = Range(buffer[live]) \cup {item}
  BY <1>1, AppendRange
<1>4. \A q \in Writer : Held(q)' = Held(q)
  BY DEF Held
<1>5. EventsIn(live) \subseteq EventsIn(live)' /\ EventsIn(live) \subseteq Range(buffer[live])
  BY <1>3 DEF EventsIn
<1>6. ASSUME NEW f \in Waiter PROVE Truth(f)'
  <2>1. Truth(f)
    BY DEF Truths
  <2>2. ASSUME pc'[f] \in {"absent", "idle", "mark"} PROVE Unsent(f)'
    <3>1. f # item /\ pc'[f] = pc[f] /\ Unsent(f)
      BY <2>1, <2>2 DEF Truth
    <3> QED BY <1>1, <1>3, <3>1 DEF Unsent
  <2>3. pc'[f] = "mark" => (since[f] \subseteq Settled \cup Held(live) \cup EventsIn(live))'
    <3>1. pc'[f] = "mark" => since[f] \subseteq Settled \cup Held(live) \cup EventsIn(live)
      BY <2>1 DEF Truth
    <3> QED BY <1>4, <1>5, <3>1 DEF Settled
  <2>4. Reached(f, live)'
    <3>1. Reached(f, live)
      BY <2>1 DEF Truth
    <3>2. f = item => since[f] \subseteq Settled \cup Held(live) \cup Range(buffer[live])
      BY <1>5, <2>1 DEF Truth
    <3>3. ASSUME NEW k \in DOMAIN buffer'[live], buffer'[live][k] = f
          PROVE  since[f] \subseteq Settled \cup Held(live) \cup Ahead(buffer'[live], k)
      <4>1. CASE k \in DOMAIN buffer[live]
        BY <1>2, <3>1, <3>3, <4>1 DEF Reached
      <4>2. CASE k = Len(buffer[live]) + 1
        BY <1>2, <3>2, <3>3, <4>2
      <4> QED BY <1>2, <4>1, <4>2
    <3> QED BY <1>4, <3>1, <3>3 DEF Reached, Settled
  <2>5. ASSUME NEW q \in Writer, q # live PROVE Reached(f, q)'
    <3>1. Reached(f, q)
      BY <2>1 DEF Truth
    <3> QED BY <1>1, <1>4, <2>5, <3>1 DEF Reached, Settled
  <2>6. f \in released' => since'[f] \subseteq Settled'
    BY <2>1 DEF Truth, Settled
  <2> QED BY <2>2, <2>3, <2>4, <2>5, <2>6 DEF Truth
<1> QED BY <1>6 DEF Truths

\* A flush() that finds a queue waits for what is in it, in its writer's hand
\* or settled: only a record() that has not returned holds anything else.
LEMMA WaitedForIsThere ==
  ASSUME Base, Accounted, Quiet, OneQueue, live # None,
         NEW e \in 1..events, \A p \in Producer : own[p] # e
  PROVE  e \in Settled \cup Held(live) \cup EventsIn(live)
<1> USE ThreadKinds
<1>1. ASSUME NEW t \in Thread, e \in Held(t) PROVE t = live
  <2>1. LocalOK(t) /\ e \in hand[t]
    BY <1>1 DEF Base, Locals, Held
  <2>2. t \notin Producer
    BY <2>1 DEF LocalOK, ProducerOK, OneQueue
  <2>3. t \notin Stopper /\ t \notin Drainer
    BY <2>1 DEF LocalOK, StopperOK, DrainerOK, Quiet
  <2>4. t \notin Waiter
    BY <2>1 DEF LocalOK, WaiterOK
  <2>5. t \in Writer
    BY <2>2, <2>3, <2>4, Constants
  <2> QED BY <1>1, <2>5, OneQueueOnly
<1>2. ASSUME NEW q \in Writer, e \in EventsIn(q) PROVE q = live
  BY <1>2 DEF OneQueue, EventsIn, Range
<1> QED BY <1>1, <1>2 DEF Accounted, Complete, Settled

\* One thread goes where it may go, and only the one queue changes.
LEMMA OneQueueKept ==
  ASSUME Base, OneQueue, NEW t \in Thread, \A u \in Thread \ {t} : pc'[u] = pc[u],
         UNCHANGED <<live, made, stopping>>, \A w \in Writer : w # live => buffer'[w] = buffer[w],
         t \in Writer => pc'[t] \in Working,
         t \in Producer => pc'[t] \notin {"rehome", "relook", "restart", "reput"}
  PROVE  OneQueue'
  BY ThreadKinds DEF OneQueue

\* record() finds the one queue there is, or makes it.
LEMMA RecordingOneQueue ==
  ASSUME Base, Quiet, Quiet', OneQueue, NEW p \in Producer, Record(p) \/ Recording(p)
  PROVE  OneQueue'
<1> USE ThreadTypes, ThreadKinds
<1>1. p \notin Writer /\ p \in Thread
  BY Constants
<1>2. pc[p] \notin {"rehome", "relook", "restart", "reput"}
  BY DEF OneQueue
<1>3. CASE Record(p) \/ LookUp(p) \/ WriteHere(p) \/ QueueFull(p)
  <2>1. \A u \in Thread \ {p} : pc'[u] = pc[u]
    BY <1>3 DEF Record, LookUp, WriteHere, QueueFull, Return, Goto
  <2>2. pc'[p] \notin {"rehome", "relook", "restart", "reput"}
    BY <1>2, <1>3 DEF Record, LookUp, WriteHere, QueueFull, Return, Goto
  <2>3. UNCHANGED queues
    BY <1>3 DEF Record, LookUp, WriteHere, QueueFull
  <2> QED BY <1>1, <2>1, <2>2, <2>3, OneQueueKept DEF queues
<1>4. CASE MakeQueue(p)
  <2>1. made = 0 /\ made' = 1 /\ live' = 1 /\ ~stopping'
    BY <1>4, OneQueueOnly DEF MakeQueue
  <2>2. UNCHANGED buffer /\ pc' = [pc EXCEPT ![p] = "start"]
    BY <1>2, <1>4 DEF MakeQueue, Goto
  <2>3. \A w \in Writer : w # live
    BY <1>4, WritersAreNumbers DEF MakeQueue
  <2> QED BY <1>1, <2>1, <2>2, <2>3 DEF OneQueue
<1>5. CASE StartWriter(p)
  <2>1. queue[p] \in Writer
    BY <1>2, <1>5, OneQueueOnly DEF StartWriter
  <2>2. UNCHANGED <<live, made, buffer, stopping>>
    BY <1>5 DEF StartWriter
  <2>3. pc' = [pc EXCEPT ![p] = "put", ![queue[p]] = "take"]
    BY <1>2, <1>5 DEF StartWriter
  <2>4. /\ \A u \in Thread \ {p, queue[p]} : pc'[u] = pc[u]
        /\ pc'[p] = "put" /\ pc'[queue[p]] = "take"
    BY <1>1, <2>1, <2>3
  <2>5. \A w \in Writer : pc'[w] \in Working
    BY <1>1, <2>4 DEF OneQueue, Working
  <2>6. \A r \in Producer : pc'[r] \notin {"rehome", "relook", "restart", "reput"}
    BY <2>1, <2>4, Constants DEF OneQueue
  <2> QED BY <2>2, <2>5, <2>6 DEF OneQueue
<1>6. CASE NoThread(p)
  BY <1>6 DEF NoThread, Quiet
<1>7. CASE PutEvent(p)
  <2>1. queue[p] = live
    BY <1>7, OneQueueOnly DEF PutEvent
  <2>2. buffer \in [Writer -> Seq(Item)]
    BY DEF Base, Types, QueueTypes
  <2> QED BY <1>1, <1>7, <2>1, <2>2 DEF OneQueue, PutEvent, Put, Goto
<1>8. CASE CheckQueue(p)
  <2>1. queue[p] = live
    BY <1>8, OneQueueOnly DEF CheckQueue
  <2> QED BY <1>1, <1>8, <2>1 DEF OneQueue, CheckQueue, Return, Goto, queues
<1>9. CASE TakeOrphan(p) \/ PutRehomed(p)
  BY <1>2, <1>9 DEF TakeOrphan, PutRehomed
<1> QED BY <1>3, <1>4, <1>5, <1>6, <1>7, <1>8, <1>9 DEF Recording

\* Its writer works on, and a flush() puts its marker into it.
LEMMA OthersOneQueue ==
  ASSUME Base, Quiet, OneQueue, NEW t \in Thread,
         \/ t \in Writer /\ Running(t)
         \/ t \in Waiter /\ (FlushCall(t) \/ FlushMark(t))
  PROVE  OneQueue'
<1> USE ThreadTypes, ThreadKinds
<1>1. buffer \in [Writer -> Seq(Item)]
  BY DEF Base, Types, QueueTypes
<1>2. ASSUME t \in Writer, Running(t) PROVE OneQueue'
  <2>1. pc[t] \in Working /\ t \notin Producer
    BY <1>2, Constants DEF OneQueue
  <2>2. pc[t] # "unmade"
    BY <1>2 DEF Running, Take, Collected, Discard, Flushing, Flush, Written, WriteFailed, ClaimGap,
       GapRow, Acknowledge, KeepGoing, Leave, Abandoning, EmptyQueue, WriteLeftover, CloseConnection
  <2>3. t = live
    BY <1>2, <2>2, OneQueueOnly
  <2>4. CASE Take(t) \/ Collected(t) \/ Discard(t) \/ Flushing(t)
    <3>1. \A u \in Thread \ {t} : pc'[u] = pc[u]
      BY <1>2, WriterAlone DEF Alone
    <3>2. CASE Take(t) \/ Collected(t) \/ Discard(t)
      <4>1. pc'[t] \in Working
        BY <3>2 DEF Working, Take, Collected, Discard, Goto
      <4>2. UNCHANGED <<live, made, stopping>> /\ \A w \in Writer : w # t => buffer'[w] = buffer[w]
        BY <1>1, <3>2 DEF Take, Collected, Discard, queues
      <4> QED BY <2>1, <2>3, <3>1, <4>1, <4>2, OneQueueKept
    <3>3. CASE Flushing(t)
      <4>1. pc'[t] \in Working
        BY <1>2, <3>3 DEF Working, Flushing, Flush, Written, WriteFailed, ClaimGap, GapRow, Acknowledge, Goto
      <4>2. UNCHANGED queues
        BY <3>3 DEF Flushing, Flush, Written, WriteFailed, ClaimGap, GapRow, Acknowledge
      <4> QED BY <2>1, <3>1, <4>1, <4>2, OneQueueKept DEF queues
    <3> QED BY <2>4, <3>2, <3>3
  <2>7. CASE KeepGoing(t)
    BY <1>1, <2>1, <2>3, <2>7 DEF OneQueue, Working, KeepGoing, Goto, queues
  <2>8. CASE Leave(t) \/ EmptyQueue(t) \/ WriteLeftover(t) \/ CloseConnection(t)
    BY <2>1, <2>8 DEF Working, Leave, EmptyQueue, WriteLeftover, CloseConnection
  <2> QED BY <1>2, <2>4, <2>7, <2>8 DEF Running, Abandoning
<1>3. ASSUME t \in Waiter, FlushCall(t) PROVE OneQueue'
  BY <1>3, Constants DEF OneQueue, FlushCall, Goto, queues
<1>4. ASSUME t \in Waiter, FlushMark(t) PROVE OneQueue'
  <2>1. queue[t] = live
    BY <1>4, OneQueueOnly DEF FlushMark
  <2>2. t \notin Producer /\ t \notin Writer
    BY <1>4, Constants
  <2> QED BY <1>1, <1>4, <2>1, <2>2 DEF OneQueue, FlushMark, Put, Goto
<1> QED BY <1>2, <1>3, <1>4

\* What record() does moves no marker.
LEMMA RecordingTruths ==
  ASSUME Base, Quiet, Quiet', OneQueue, Truths, NEW p \in Producer, Record(p) \/ Recording(p)
  PROVE  Truths'
<1> USE ThreadTypes, ThreadKinds
<1>1. p \notin Writer /\ p \notin Waiter /\ p \in Thread
  BY Constants
<1>2. pc[p] \notin {"rehome", "relook", "restart", "reput"}
  BY DEF OneQueue
<1>3. \A f \in Waiter : f \notin Writer /\ f # p
  BY Constants
<1>4. CASE Record(p) \/ LookUp(p) \/ MakeQueue(p) \/ WriteHere(p) \/ QueueFull(p) \/ CheckQueue(p)
  <2>1. Alone(p)
    BY <1>4, ProducerAlone DEF Recording, StartWriter, LookUp, MakeQueue, WriteHere, QueueFull, CheckQueue
  <2>2. \A w \in Writer : hand'[w] = hand[w]
    BY <1>1, <2>1 DEF Alone
  <2>3. \A f \in Waiter : pc'[f] = pc[f]
    BY <1>3, <2>1 DEF Alone
  <2>4. UNCHANGED <<released, since, buffer>>
    BY <1>4 DEF Record, LookUp, MakeQueue, WriteHere, QueueFull, CheckQueue, queues, waits
  <2>5. Settled \subseteq Settled'
    BY <1>4 DEF Record, LookUp, MakeQueue, WriteHere, QueueFull, CheckQueue, Settle, Count, counted, Settled
  <2>6. live' = live \/ live = None
    BY <1>4 DEF Record, LookUp, MakeQueue, WriteHere, QueueFull, CheckQueue, queues
  <2> QED BY <2>2, <2>3, <2>4, <2>5, <2>6, TruthsStay DEF Held
<1>5. CASE StartWriter(p)
  <2>1. queue[p] \in Writer
    BY <1>2, <1>5, OneQueueOnly DEF StartWriter
  <2>2. \A f \in Waiter : pc'[f] = pc[f]
    BY <1>1, <1>3, <1>5, <2>1 DEF StartWriter
  <2>3. UNCHANGED <<released, since, buffer, hand, delivered, lost, live>>
    BY <1>5 DEF StartWriter, waits, counted
  <2> QED BY <2>2, <2>3, TruthsStay DEF Held, Settled
<1>6. CASE NoThread(p)
  BY <1>6 DEF NoThread, Quiet
<1>7. CASE PutEvent(p)
  <2>1. queue[p] = live /\ live \in Writer
    BY <1>7, OneQueueOnly DEF PutEvent
  <2>2. own[p] \in Event /\ own[p] \in Item /\ own[p] \notin Waiter
    BY <1>7, Constants DEF PutEvent, Base, Locals, LocalOK, ProducerOK, None
  <2>3. Alone(p)
    BY <1>7, ProducerAlone DEF Recording, PutEvent, StartWriter
  <2>4. UNCHANGED <<released, since, delivered, lost, live>> /\ Put(live, own[p])
    BY <1>7, <2>1 DEF PutEvent, waits, counted
  <2>5. (\A w \in Writer : hand'[w] = hand[w]) /\ \A f \in Waiter : pc'[f] = pc[f]
    BY <1>1, <1>3, <2>3 DEF Alone
  <2> QED BY <2>1, <2>2, <2>4, <2>5, TruthsAppend
<1>8. CASE TakeOrphan(p) \/ PutRehomed(p)
  BY <1>2, <1>8 DEF TakeOrphan, PutRehomed
<1> QED BY <1>4, <1>5, <1>6, <1>7, <1>8 DEF Recording

\* The writer takes the head: what was ahead of a marker is in its hand.
LEMMA TakeTruths ==
  ASSUME Base, OneQueue, Truths, NEW w \in Writer, Take(w)
  PROVE  Truths'
<1> USE ThreadTypes, ThreadKinds
<1> DEFINE item == Head(buffer[w])
<1>1. w = live
  BY OneQueueOnly DEF Take
<1>2. /\ buffer \in [Writer -> Seq(Item)] /\ buffer[w] \in Seq(Item) /\ buffer[w] # <<>>
      /\ buffer'[w] = Tail(buffer[w])
      /\ \A q \in Writer \ {w} : buffer'[q] = buffer[q]
  BY DEF Base, Types, QueueTypes, Take
<1>3. /\ 1 \in DOMAIN buffer[w] /\ buffer[w][1] = item /\ Ahead(buffer[w], 1) = {}
      /\ \A k \in DOMAIN buffer'[w] :
           /\ k + 1 \in DOMAIN buffer[w] /\ buffer'[w][k] = buffer[w][k + 1]
           /\ Ahead(buffer[w], k + 1) \subseteq {item} \cup Ahead(buffer'[w], k)
  BY <1>2, AheadInTail
<1>4. /\ item \in Item /\ Range(buffer[w]) = {item} \cup Range(buffer'[w])
  BY <1>2, TailRange
<1>5. /\ hand'[w] = hand[w] \cup {item} /\ Held(w)' = Held(w) \cup ({item} \cap Event)
      /\ \A q \in Writer \ {w} : hand'[q] = hand[q] /\ Held(q)' = Held(q)
  BY DEF Take, Held
<1>6. /\ \A f \in Waiter : pc'[f] = pc[f] /\ since[f] \subseteq Event /\ f \notin Event
      /\ UNCHANGED <<released, since, delivered, lost, live>>
  BY Constants DEF Take, Goto, waits, counted, Base, Types, WaitTypes
<1>7. EventsIn(w) = ({item} \cap Event) \cup EventsIn(w)'
  BY <1>4 DEF EventsIn
<1> HIDE DEF item
<1>8. ASSUME NEW f \in Waiter PROVE Truth(f)'
  <2>1. Truth(f) /\ Reached(f, w)
    BY DEF Truths, Truth
  <2>2. ASSUME pc'[f] \in {"absent", "idle", "mark"} PROVE Unsent(f)'
    <3>1. Unsent(f)
      BY <1>6, <2>1, <2>2 DEF Truth
    <3> QED BY <1>2, <1>4, <1>5, <1>6, <3>1 DEF Unsent
  <2>3. ASSUME pc'[f] = "mark" PROVE (since[f] \subseteq Settled \cup Held(live) \cup EventsIn(live))'
    <3>1. since[f] \subseteq Settled \cup Held(w) \cup EventsIn(w)
      BY <1>1, <1>6, <2>1, <2>3 DEF Truth
    <3> QED BY <1>1, <1>5, <1>6, <1>7, <3>1 DEF Settled
  <2>4. Reached(f, w)'
    <3>1. ASSUME NEW k \in DOMAIN buffer'[w], buffer'[w][k] = f
          PROVE  since[f] \subseteq Settled \cup Held(w)' \cup Ahead(buffer'[w], k)
      <4>1. since[f] \subseteq Settled \cup Held(w) \cup Ahead(buffer[w], k + 1)
        BY <1>3, <2>1, <3>1 DEF Reached
      <4> QED BY <1>3, <1>5, <1>6, <4>1
    <3>2. ASSUME f \in hand'[w] PROVE since[f] \subseteq Settled \cup Held(w)'
      <4>1. CASE f \in hand[w]
        BY <1>5, <2>1, <4>1 DEF Reached
      <4>2. CASE f = item
        BY <1>3, <1>5, <2>1, <4>2 DEF Reached
      <4> QED BY <1>5, <3>2, <4>1, <4>2
    <3> QED BY <1>6, <3>1, <3>2 DEF Reached, Settled
  <2>5. ASSUME NEW q \in Writer, q # w PROVE Reached(f, q)'
    <3>1. Reached(f, q)
      BY <2>1 DEF Truth
    <3> QED BY <1>2, <1>5, <1>6, <2>5, <3>1 DEF Reached, Settled
  <2>6. (f \in released => since[f] \subseteq Settled)'
    BY <1>6, <2>1 DEF Truth, Settled
  <2> QED BY <2>2, <2>3, <2>4, <2>5, <2>6 DEF Truth
<1> QED BY <1>8 DEF Truths

\* The wakes of a batch are released when nothing of it is left in hand.
LEMMA AcknowledgeTruths ==
  ASSUME Base, OneQueue, Truths, NEW w \in Writer, Acknowledge(w)
  PROVE  Truths'
<1> USE ThreadTypes, ThreadKinds
<1>1. Held(w) = {}
  BY Constants DEF Acknowledge, Base, Locals, LocalOK, WriterOK
<1>2. /\ hand'[w] = {} /\ \A q \in Writer \ {w} : hand'[q] = hand[q]
      /\ \A q \in Writer : Held(q)' = Held(q)
  BY <1>1 DEF Acknowledge, Held
<1>3. /\ released' = released \cup (hand[w] \cap Waiter)
      /\ UNCHANGED <<since, delivered, lost, live, buffer>>
      /\ \A f \in Waiter : pc'[f] = pc[f]
  BY Constants DEF Acknowledge, Release, Goto, queues, counted
<1>4. \A q \in Writer : EventsIn(q)' = EventsIn(q)
  BY <1>3 DEF EventsIn
<1>5. ASSUME NEW f \in Waiter PROVE Truth(f)'
  <2>1. Truth(f)
    BY DEF Truths
  <2>2. pc'[f] \in {"absent", "idle", "mark"} => Unsent(f)'
    BY <1>2, <1>3, <2>1 DEF Truth, Unsent
  <2>3. ASSUME pc'[f] = "mark" PROVE (since[f] \subseteq Settled \cup Held(live) \cup EventsIn(live))'
    <3>1. live \in Writer
      BY <1>3, <2>3, OneQueueOnly
    <3> QED BY <1>2, <1>3, <1>4, <2>1, <2>3, <3>1 DEF Truth, Settled
  <2>4. ASSUME NEW q \in Writer PROVE Reached(f, q)'
    <3>1. Reached(f, q)
      BY <2>1 DEF Truth
    <3>2. f \in hand'[q] => f \in hand[q]
      BY <1>2
    <3> QED BY <1>2, <1>3, <3>1, <3>2 DEF Reached, Settled
  <2>5. (f \in released => since[f] \subseteq Settled)'
    <3>1. Reached(f, w)
      BY <2>1 DEF Truth
    <3>2. f \in hand[w] => since[f] \subseteq Settled
      BY <1>1, <3>1 DEF Reached
    <3> QED BY <1>3, <2>1, <3>2 DEF Truth, Settled
  <2> QED BY <2>2, <2>3, <2>4, <2>5 DEF Truth
<1> QED BY <1>5 DEF Truths

\* The writer's other steps settle what it holds, or nothing.
LEMMA RunningTruths ==
  ASSUME Base, OneQueue, Truths, NEW w \in Writer, Running(w)
  PROVE  Truths'
<1> USE ThreadTypes, ThreadKinds
<1>1. pc[w] \in Working
  BY DEF OneQueue
<1>2. Alone(w)
  BY WriterAlone
<1>3. \A f \in Waiter : pc'[f] = pc[f]
  BY <1>2, Constants DEF Alone
<1>4. CASE Collected(w) \/ Flush(w) \/ ClaimGap(w) \/ GapRow(w) \/ KeepGoing(w)
  <2>1. UNCHANGED <<released, since, buffer, hand, delivered, live>>
    BY <1>4 DEF Collected, Flush, ClaimGap, GapRow, KeepGoing, queues, waits
  <2>2. lost' = lost
    BY <1>4 DEF Collected, Flush, ClaimGap, GapRow, KeepGoing, counted
  <2> QED BY <1>3, <2>1, <2>2, TruthsStay DEF Held, Settled
<1>5. CASE Discard(w) \/ Written(w) \/ WriteFailed(w)
  <2>1. UNCHANGED <<released, since, buffer, live>> /\ hand' = [hand EXCEPT ![w] = @ \ Event]
    BY <1>5 DEF Discard, Written, WriteFailed, queues, waits
  <2>2. Settled' = Settled \cup Held(w)
    <3>1. CASE Discard(w)
      BY <3>1 DEF Discard, Count, Settled
    <3>2. CASE Written(w) \/ WriteFailed(w)
      <4>1. PICK landed \in SUBSET Held(w) : Settle(Held(w), landed)
        BY <3>2, LandingIsPart DEF Written, WriteFailed
      <4> QED BY <4>1, SettleSplits DEF Settled
    <3> QED BY <1>5, <3>1, <3>2
  <2>3. \A q \in Writer : /\ hand'[q] \cap Waiter = hand[q] \cap Waiter
                          /\ Held(q) \subseteq Held(q)' \cup Settled'
    BY <2>1, <2>2, Constants DEF Held
  <2> QED BY <1>3, <2>1, <2>2, <2>3, TruthsStay
<1>6. CASE Leave(w) \/ EmptyQueue(w) \/ WriteLeftover(w) \/ CloseConnection(w)
  BY <1>1, <1>6 DEF Working, Leave, EmptyQueue, WriteLeftover, CloseConnection
<1> QED BY <1>4, <1>5, <1>6, TakeTruths, AcknowledgeTruths DEF Running, Flushing, Abandoning

\* flush() notes what it waits for, and puts its marker behind it.
LEMMA WaiterTruths ==
  ASSUME Base, Accounted, Quiet, OneQueue, Truths, NEW f \in Waiter, FlushCall(f) \/ FlushMark(f)
  PROVE  Truths'
<1> USE ThreadTypes, ThreadKinds
<1>1. Alone(f) /\ f \notin Writer /\ f \in Thread
  BY WaiterAlone, Constants
<1>2. (\A w \in Writer : hand'[w] = hand[w]) /\ \A g \in Waiter \ {f} : pc'[g] = pc[g]
  BY <1>1 DEF Alone
<1>3. CASE FlushMark(f) /\ ~Full(queue[f])
  <2>1. queue[f] = live /\ live \in Writer
    BY <1>3, OneQueueOnly DEF FlushMark
  <2>2. UNCHANGED <<released, since, delivered, lost, live>> /\ Put(live, f)
    BY <1>3, <2>1 DEF FlushMark, waits, counted
  <2>3. pc[f] = "mark" /\ pc'[f] = "wait" /\ f \in Item
    BY <1>1, <1>3, Constants DEF FlushMark, Goto
  <2> QED BY <1>2, <2>1, <2>2, <2>3, TruthsAppend
<1>4. CASE FlushCall(f) \/ (FlushMark(f) /\ Full(queue[f]))
  <2>1. /\ UNCHANGED <<released, buffer, delivered, lost, live, hand, events, own>>
        /\ \A g \in Waiter \ {f} : since'[g] = since[g]
    BY <1>4 DEF FlushCall, FlushMark, queues, waits, counted, places, Base, Types, WaitTypes
  <2>2. \A q \in Writer : Held(q)' = Held(q) /\ EventsIn(q)' = EventsIn(q)
    BY <2>1 DEF Held, EventsIn
  <2>3. ASSUME NEW g \in Waiter, g # f PROVE Truth(g)'
    <3>1. Truth(g) /\ pc'[g] = pc[g] /\ since'[g] = since[g]
      BY <1>2, <2>1, <2>3 DEF Truths
    <3>2. pc'[g] \in {"absent", "idle", "mark"} => Unsent(g)'
      BY <2>1, <3>1 DEF Truth, Unsent
    <3>3. ASSUME pc'[g] = "mark" PROVE (since[g] \subseteq Settled \cup Held(live) \cup EventsIn(live))'
      <4>1. live \in Writer
        BY <3>1, <3>3, OneQueueOnly
      <4> QED BY <2>1, <2>2, <3>1, <3>3, <4>1 DEF Truth, Settled
    <3>4. ASSUME NEW q \in Writer PROVE Reached(g, q)'
      <4>1. Reached(g, q)
        BY <3>1 DEF Truth
      <4> QED BY <2>1, <2>2, <3>1, <4>1 DEF Reached, Settled
    <3>5. (g \in released => since[g] \subseteq Settled)'
      BY <2>1, <3>1 DEF Truth, Settled
    <3> QED BY <3>2, <3>3, <3>4, <3>5 DEF Truth
  <2>4. Truth(f)'
    <3>1. Truth(f) /\ Unsent(f) /\ pc[f] \in {"idle", "mark"}
      BY <1>4 DEF Truths, Truth, FlushCall, FlushMark
    <3>2. Unsent(f)'
      BY <2>1, <3>1 DEF Unsent
    <3>3. \A q \in Writer : Reached(f, q)'
      <4>1. \A q \in Writer : f \notin hand'[q] /\ \A k \in DOMAIN buffer'[q] : buffer'[q][k] # f
        BY <3>2 DEF Unsent, Range
      <4> QED BY <4>1 DEF Reached
    <3>4. ASSUME pc'[f] = "mark" PROVE (since[f] \subseteq Settled \cup Held(live) \cup EventsIn(live))'
      <4>1. /\ live # None /\ FlushCall(f)
            /\ since'[f] = {e \in 1..events : \A p \in Producer : own[p] # e}
        BY <1>1, <1>4, <3>4 DEF FlushCall, FlushMark, Goto, Base, Types, WaitTypes
      <4>2. since'[f] \subseteq Settled \cup Held(live) \cup EventsIn(live)
        BY <4>1, WaitedForIsThere
      <4>3. live \in Writer
        BY <4>1, OneQueueOnly
      <4> QED BY <2>1, <2>2, <4>2, <4>3 DEF Settled
    <3> QED BY <3>2, <3>3, <3>4 DEF Truth, Unsent
  <2> QED BY <2>3, <2>4 DEF Truths
<1> QED BY <1>3, <1>4

\* Every step keeps what a flush() is told true.
LEMMA NextTruthful ==
  ASSUME Base, Accounted, Truthful, [Next]_vars
  PROVE  Truthful'
<1> USE ThreadKinds
<1>1. SUFFICES ASSUME Quiet' PROVE (OneQueue /\ Truths)'
  BY DEF Truthful
<1>2. Quiet /\ OneQueue /\ Truths
  BY <1>1, QuietBefore DEF Truthful
<1>3. CASE UNCHANGED vars
  <2>1. UNCHANGED <<live, made, buffer, stopping, pc, hand, delivered, lost, released, since>>
    BY <1>3 DEF vars, queues, counted, waits
  <2>2. OneQueue'
    BY <1>2, <2>1 DEF OneQueue
  <2> QED BY <1>2, <2>1, <2>2, TruthsStay DEF Held, Settled
<1>4. ASSUME NEW s \in Stopper, Stop(s) \/ StoppingIt(s) PROVE FALSE
  <2>1. pc[s] \in {"absent", "idle"} /\ pc'[s] \in {"absent", "idle"}
    BY <1>1, <1>2 DEF Quiet
  <2> QED BY <1>4, <2>1, ThreadTypes DEF Stop, StoppingIt, Detach, Signal, Join, Abandoning, EmptyQueue,
         WriteLeftover, Forget, Goto
<1>5. ASSUME NEW d \in Drainer, Drain(d) \/ Flushing(d) PROVE FALSE
  <2>1. pc[d] \in {"absent", "idle"} /\ pc'[d] \in {"absent", "idle"}
    BY <1>1, <1>2 DEF Quiet
  <2> QED BY <1>5, <2>1, ThreadTypes DEF Drain, Flushing, Flush, Written, WriteFailed, ClaimGap, GapRow,
         Acknowledge, Goto
<1>6. ASSUME NEW p \in Producer, Record(p) \/ Recording(p) PROVE (OneQueue /\ Truths)'
  BY <1>1, <1>2, <1>6, RecordingOneQueue, RecordingTruths
<1>7. ASSUME NEW w \in Writer, Running(w) PROVE (OneQueue /\ Truths)'
  BY <1>2, <1>7, OthersOneQueue, RunningTruths
<1>8. ASSUME NEW f \in Waiter, FlushCall(f) \/ FlushMark(f) PROVE (OneQueue /\ Truths)'
  BY <1>2, <1>8, OthersOneQueue, WaiterTruths
<1> QED BY <1>3, <1>4, <1>5, <1>6, <1>7, <1>8 DEF Next

\* While no stop() and no drain_once() has begun and every writer could be
\* started, a flush() that was released had all it waited for written or counted.
THEOREM FlushesAreToldTheTruth == Spec => []FlushMeansWritten
<1>1. Init => Base /\ Accounted /\ Truthful
  <2>1. Init => Truthful
    <3>1. SUFFICES ASSUME Init PROVE OneQueue /\ Truths
      BY DEF Truthful
    <3>2. Range(<<>>) = {} /\ DOMAIN <<>> = {}
      BY EmptySeq DEF Range
    <3>3. \A w \in Writer : buffer[w] = <<>> /\ hand[w] = {} /\ pc[w] = "unmade"
      BY <3>1, Constants, CastsAreCallers, ThreadKinds DEF Init
    <3>4. \A p \in Producer : pc[p] \in {"idle", "absent"}
      BY <3>1, Constants, ThreadKinds DEF Init
    <3>5. OneQueue
      BY <3>1, <3>3, <3>4 DEF OneQueue, Working, Init, None
    <3>6. \A f \in Waiter : pc[f] \in {"idle", "absent"} /\ f \notin released
      BY <3>1, Constants, ThreadKinds DEF Init
    <3> QED BY <3>2, <3>3, <3>5, <3>6 DEF Truths, Truth, Unsent, Reached
  <2> QED BY <2>1, InitBase, InitAccounted
<1>2. Base /\ Accounted /\ Truthful /\ [Next]_vars => (Base /\ Accounted /\ Truthful)'
  BY NextBase, NextAccounted, NextTruthful
<1>3. Truthful /\ Base => FlushMeansWritten
  BY DEF Truthful, Truths, Truth, Quiet, FlushMeansWritten, Settled, Base, Types, WaitTypes
<1> QED BY <1>1, <1>2, <1>3, PTL DEF Spec
=============================================================================
