--------------------------- MODULE ProducersProofs ---------------------------
(***************************************************************************)
(* Producers, for every set of threads, coroutines and loops, any number   *)
(* of chunks and any changes of the settings: what it records of a message *)
(* is true, no connection leaks, and what a call writes while no change    *)
(* overlaps it goes where the settings say, through an open client.        *)
(***************************************************************************)
EXTENDS Producers, CollectionLemmas, TLAPS

Said(c, i, what) == <<<<c, i>>, what>> \in log
Sent(c, i)       == InRedis(<<c, i>>)

\* A call that is writing its chunk, or that is over.
Writing == {"pushing"} \cup Over

\* Where the callers are, as far as the records depend on it.
Shape == pc \in [Caller -> Label] /\ chunk \in [Sender -> Nat \ {0}]

(***************************************************************************)
(* The strengthening: chunks before the current one were written and said  *)
(* to be, nothing is known of later ones, and the current one is in Redis  *)
(* only once its write has gone out, and said of only when its call ends.  *)
(***************************************************************************)
Earlier(c, i) == Said(c, i, "queued") /\ ~Said(c, i, "queueing") /\ ~Said(c, i, "serialising")
Later(c, i)   ==
  /\ ~Sent(c, i)
  /\ ~Said(c, i, "queued") /\ ~Said(c, i, "queueing") /\ ~Said(c, i, "serialising")
Current(c, i) ==
  /\ Sent(c, i) => pc[c] \in Writing
  /\ Said(c, i, "queued") => pc[c] = "done"
  /\ Said(c, i, "queueing") => pc[c] = "raised" /\ ~Said(c, i, "serialising")
  /\ Said(c, i, "serialising") => pc[c] = "raised" /\ ~Sent(c, i)
  /\ pc[c] = "raised" => Said(c, i, "queueing") \/ Said(c, i, "serialising")
  /\ pc[c] = "done" /\ Sent(c, i) => Said(c, i, "queued")

Tells(c, i) ==
  /\ i < chunk[c] => Earlier(c, i)
  /\ i = chunk[c] => Current(c, i)
  /\ i > chunk[c] => Later(c, i)
  /\ Said(c, i, "queued") => Sent(c, i)

Told == \A c \in Sender, i \in Nat \ {0} : Tells(c, i)

IInv == Shape /\ Told
-----------------------------------------------------------------------------
\* The strengthening gives the property (queueing()).
LEMMA IInvIsEnough == IInv => RecordsAreTrue
<1> SUFFICES ASSUME IInv, NEW c \in Sender, NEW i \in 1..Chunks[c]
             PROVE  LET m == <<c, i>> IN
                    /\ "queued" \in Rows(m) => InRedis(m)
                    /\ "serialising" \in Rows(m) => ~InRedis(m)
                    /\ \A r, s \in Rows(m) : r = s
                    /\ pc[c] = "raised" /\ i <= chunk[c] => Rows(m) # {}
                    /\ pc[c] \in Over /\ InRedis(m) =>
                         Rows(m) # {} \/ (pc[c] = "cancelled" /\ i = chunk[c])
  BY DEF RecordsAreTrue
<1> DEFINE m == <<c, i>>
<1>1. i \in Nat \ {0} /\ chunk[c] \in Nat
  BY BoundsAreNatural DEF IInv, Shape
<1>t. Tells(c, i)
  BY <1>1 DEF IInv, Told
<1>2. /\ \/ i < chunk[c] /\ Earlier(c, i)
         \/ i = chunk[c] /\ Current(c, i)
         \/ i > chunk[c] /\ Later(c, i)
      /\ Said(c, i, "queued") => Sent(c, i)
  BY <1>1, <1>t DEF Tells
<1>3. \A what : what \in Rows(m) <=>
        what \in {"queued", "queueing", "serialising"} /\ Said(c, i, what)
  BY DEF Rows, Said
<1>4. InRedis(m) <=> Sent(c, i)
  BY DEF Sent
<1> HIDE DEF m
<1>5. CASE i < chunk[c] /\ Earlier(c, i)
  BY <1>1, <1>2, <1>3, <1>4, <1>5 DEF Earlier, m
<1>6. CASE i = chunk[c] /\ Current(c, i)
  BY <1>1, <1>2, <1>3, <1>4, <1>6 DEF Current, Writing, Over, m
<1>7. CASE i > chunk[c] /\ Later(c, i)
  BY <1>1, <1>2, <1>3, <1>4, <1>7 DEF Later, m
<1> QED BY <1>2, <1>5, <1>6, <1>7

\* At first nothing is written and nothing recorded.
LEMMA InitIInv == Init => IInv
<1> SUFFICES ASSUME Init PROVE IInv
  OBVIOUS
<1>1. /\ \E cast \in Casts : pc = [c \in Caller |-> IF c \in cast THEN "idle" ELSE "absent"]
      /\ chunk = [c \in Sender |-> 1]
      /\ redis = {} /\ log = {}
  BY DEF Init
<1>2. Shape /\ \A c \in Caller : pc[c] \in {"idle", "absent"}
  BY <1>1 DEF Shape, Label
<1>3. Sender \subseteq Caller
  BY DEF Sender, Caller, Async
<1> QED BY <1>1, <1>2, <1>3 DEF IInv, Told, Tells, Earlier, Current, Later, Said, Sent, InRedis
-----------------------------------------------------------------------------
\* What a step may do to a call it says nothing of: it does not raise it, and leaves
\* its write only by cancelling it.
Passes(c) ==
  \/ pc'[c] = pc[c]
  \/ pc[c] \notin Writing /\ pc'[c] # "raised"
  \/ pc[c] = "pushing" /\ pc'[c] = "cancelled"

\* A message that a step says nothing of.
LEMMA Unmoved ==
  ASSUME IInv, NEW c \in Sender, NEW i \in Nat \ {0}, chunk'[c] = chunk[c], Passes(c),
         Sent(c, i)' <=> Sent(c, i),
         Said(c, i, "queued")' <=> Said(c, i, "queued"),
         Said(c, i, "queueing")' <=> Said(c, i, "queueing"),
         Said(c, i, "serialising")' <=> Said(c, i, "serialising")
  PROVE  Tells(c, i)'
<1>1. Tells(c, i)
  BY DEF IInv, Told
<1>2. Current(c, i) => Current(c, i)'
  BY DEF Current, Passes, Writing, Over
<1> QED BY <1>1, <1>2 DEF Tells, Earlier, Later

\* A step that writes and records nothing.
LEMMA QuietStep ==
  ASSUME IInv, UNCHANGED <<redis, log, chunk>>, NEW c \in Caller, NEW label \in Label,
         pc' = [pc EXCEPT ![c] = label], c \in Sender => Passes(c)
  PROVE  IInv'
<1>1. Shape'
  BY DEF IInv, Shape
<1>2. ASSUME NEW d \in Sender, NEW i \in Nat \ {0} PROVE Tells(d, i)'
  <2>1. Passes(d)
    BY DEF IInv, Shape, Caller, Async, Sender, Passes
  <2> QED BY <2>1, Unmoved DEF Sent, InRedis, Said
<1> QED BY <1>1, <1>2 DEF IInv, Told

LEMMA PackIInv == ASSUME IInv, NEW c \in Sender, Pack(c) PROVE IInv'
<1>0. c \in Caller /\ pc[c] = "key" /\ UNCHANGED <<redis, chunk>>
  BY DEF Pack, Caller, Async, Sender
<1>1. CASE UNCHANGED log /\ Goto(c, IF c \in Thread THEN "get" ELSE "push")
  <2>1. PICK label \in {"get", "push"} : pc' = [pc EXCEPT ![c] = label]
    BY <1>1 DEF Goto
  <2>2. label \in Label /\ Passes(c)
    BY <1>0, <2>1 DEF Passes, Label, Writing, Over, IInv, Shape
  <2> QED BY <1>0, <1>1, <2>1, <2>2, QuietStep
<1>2. CASE Records(c, "serialising") /\ Goto(c, "raised")
  <2>1. /\ pc' = [pc EXCEPT ![c] = "raised"]
        /\ log' = log \cup {<<<<c, chunk[c]>>, "serialising">>}
    BY <1>2 DEF Goto, Records
  <2>2. Shape'
    BY <1>0, <2>1 DEF IInv, Shape, Label
  <2>3. ASSUME NEW d \in Sender, NEW i \in Nat \ {0} PROVE Tells(d, i)'
    <3>1. CASE d = c /\ i = chunk[c]
      <4>1. Current(c, i) /\ (Said(c, i, "queued") => Sent(c, i))
        BY <3>1 DEF IInv, Told, Tells
      <4>2. pc'[c] = "raised" /\ chunk'[c] = i
        BY <1>0, <2>1, <3>1 DEF IInv, Shape
      <4>3. ~Sent(c, i) /\ ~Said(c, i, "queued") /\ ~Said(c, i, "queueing")
        BY <1>0, <4>1 DEF Current, Writing, Over
      <4>4. ~Sent(c, i)' /\ ~Said(c, i, "queued")' /\ ~Said(c, i, "queueing")'
            /\ Said(c, i, "serialising")'
        BY <1>0, <2>1, <3>1, <4>3 DEF Sent, InRedis, Said
      <4> QED BY <3>1, <4>2, <4>4 DEF Tells, Current
    <3>2. CASE ~(d = c /\ i = chunk[c])
      <4>1. CASE d # c
        <5>1. Passes(d) /\ <<d, i>> # <<c, chunk[c]>>
          BY <1>0, <2>1, <4>1 DEF IInv, Shape, Caller, Async, Sender, Passes
        <5> QED BY <1>0, <2>1, <5>1, Unmoved DEF Sent, InRedis, Said
      <4>2. CASE d = c
        <5>1. Tells(c, i) /\ <<c, i>> # <<c, chunk[c]>> /\ i # chunk'[c] /\ chunk'[c] = chunk[c]
          BY <1>0, <3>2, <4>2 DEF IInv, Told
        <5> QED BY <1>0, <2>1, <4>2, <5>1 DEF Tells, Earlier, Later, Sent, InRedis, Said
      <4> QED BY <4>1, <4>2
    <3> QED BY <3>1, <3>2
  <2> QED BY <2>2, <2>3 DEF IInv, Told
<1> QED BY <1>1, <1>2 DEF Pack

LEMMA PushIInv == ASSUME IInv, NEW c \in Sender, Push(c) PROVE IInv'
<1>1. /\ c \in Caller /\ pc[c] = "push" /\ UNCHANGED <<log, chunk>>
      /\ pc' = [pc EXCEPT ![c] = "pushing"]
  BY DEF Push, Goto, Caller, Async, Sender, call
<1>2. \E w : redis' \subseteq redis \cup {w} /\ redis \subseteq redis'
             /\ w.message = <<c, chunk[c]>>
  <2> DEFINE w == [message |-> <<c, chunk[c]>>, server |-> clients[held[c]].from,
                   key |-> key[c]]
  <2>1. redis' = redis \cup {w} \/ redis' = redis
    BY DEF Push
  <2>2. w.message = <<c, chunk[c]>>
    OBVIOUS
  <2> HIDE DEF w
  <2> QED BY <2>1, <2>2
<1>3. Shape'
  BY <1>1 DEF IInv, Shape, Label
<1>4. ASSUME NEW d \in Sender, NEW i \in Nat \ {0} PROVE Tells(d, i)'
  <2>1. CASE d = c /\ i = chunk[c]
    <3>1. Current(c, i)
      BY <2>1 DEF IInv, Told, Tells
    <3>2. pc'[c] = "pushing" /\ chunk'[c] = i
      BY <1>1, <2>1 DEF IInv, Shape
    <3>3. ~Said(c, i, "queued")' /\ ~Said(c, i, "queueing")' /\ ~Said(c, i, "serialising")'
      BY <1>1, <3>1 DEF Current, Said
    <3> QED BY <2>1, <3>2, <3>3 DEF Tells, Current, Writing
  <2>2. CASE ~(d = c /\ i = chunk[c])
    <3>1. Passes(d)
      BY <1>1 DEF IInv, Shape, Caller, Async, Sender, Writing, Over, Passes
    <3>2. <<d, i>> # <<c, chunk[c]>>
      BY <2>2
    <3>3. Sent(d, i)' <=> Sent(d, i)
      BY <1>2, <3>2 DEF Sent, InRedis
    <3> QED BY <1>1, <3>1, <3>3, Unmoved DEF Said
  <2> QED BY <2>1, <2>2
<1> QED BY <1>3, <1>4 DEF IInv, Told

LEMMA PushEndsIInv == ASSUME IInv, NEW c \in Sender, PushEnds(c) PROVE IInv'
<1>1. c \in Caller /\ pc[c] = "pushing" /\ UNCHANGED redis
  BY DEF PushEnds, Caller, Async, Sender
<1>2. PICK label \in {"key", "done", "raised"}, what \in {"queued", "queueing"} :
        /\ pc' = [pc EXCEPT ![c] = label]
        /\ log' = log \cup {<<<<c, chunk[c]>>, what>>}
        /\ what = "queued" => Sent(c, chunk[c])
        /\ \/ label = "key" /\ what = "queued" /\ chunk' = [chunk EXCEPT ![c] = @ + 1]
           \/ label = "done" /\ what = "queued" /\ UNCHANGED chunk
           \/ label = "raised" /\ what = "queueing" /\ UNCHANGED chunk
  BY DEF PushEnds, Goto, Records, Applied, Sent, InRedis
<1>3. Shape'
  BY <1>1, <1>2 DEF IInv, Shape, Label
<1>4. ASSUME NEW d \in Sender, NEW i \in Nat \ {0}, d # c PROVE Tells(d, i)'
  <2>1. Passes(d) /\ chunk'[d] = chunk[d]
    BY <1>1, <1>2, <1>4 DEF IInv, Shape, Caller, Async, Sender, Passes
  <2>2. <<d, i>> # <<c, chunk[c]>>
    BY <1>4
  <2> QED BY <1>1, <1>2, <2>1, <2>2, Unmoved DEF Sent, InRedis, Said
<1>5. ASSUME NEW i \in Nat \ {0}, i # chunk[c] PROVE Tells(c, i)'
  <2>1. Tells(c, i) /\ chunk[c] \in Nat /\ <<c, i>> # <<c, chunk[c]>>
    BY <1>5 DEF IInv, Told, Shape
  <2>2. pc'[c] = label /\ chunk'[c] \in {chunk[c], chunk[c] + 1}
    BY <1>1, <1>2 DEF IInv, Shape
  <2>3. chunk'[c] = chunk[c] + 1 => label = "key"
    BY <1>2, <2>1
  <2>4. CASE i < chunk[c]
    <3>1. i < chunk'[c] /\ ~(i = chunk'[c]) /\ ~(i > chunk'[c])
      BY <2>1, <2>2, <2>4
    <3>2. Earlier(c, i)' /\ (Said(c, i, "queued")' => Sent(c, i)')
      BY <1>1, <1>2, <2>1, <2>4 DEF Tells, Earlier, Sent, InRedis, Said
    <3> QED BY <3>1, <3>2 DEF Tells
  <2>5. CASE i > chunk[c]
    <3>1. Later(c, i)' /\ i >= chunk'[c]
      BY <1>1, <1>2, <2>1, <2>2, <2>5 DEF Tells, Later, Sent, InRedis, Said
    <3>2. i = chunk'[c] => Current(c, i)'
      BY <2>1, <2>2, <2>3, <3>1, <1>5 DEF Later, Current
    <3> QED BY <2>1, <2>2, <3>1, <3>2 DEF Tells, Later
  <2> QED BY <1>5, <2>1, <2>4, <2>5
<1>6. Tells(c, chunk[c]) /\ chunk[c] \in Nat \ {0}
  BY DEF IInv, Told, Shape
<1>7. /\ ~Said(c, chunk[c], "serialising") /\ ~Said(c, chunk[c], "queued")
      /\ ~Said(c, chunk[c], "queueing")
  BY <1>1, <1>6 DEF Tells, Current
<1>8. ASSUME NEW i \in Nat \ {0}, i = chunk[c] PROVE Tells(c, i)'
  <2>1. CASE label = "key"
    <3>1. i < chunk'[c] /\ Said(c, i, "queued")' /\ Sent(c, i)'
          /\ ~Said(c, i, "serialising")' /\ ~Said(c, i, "queueing")'
      BY <1>1, <1>2, <1>6, <1>7, <1>8, <2>1 DEF Sent, InRedis, Said, IInv, Shape
    <3> QED BY <1>6, <1>8, <3>1, <1>3 DEF Tells, Earlier, Shape
  <2>2. CASE label # "key"
    <3>1. i = chunk'[c] /\ pc'[c] = label /\ label \in {"done", "raised"}
      BY <1>1, <1>2, <1>8, <2>2 DEF IInv, Shape
    <3>2. /\ ~Said(c, i, "serialising")'
          /\ Said(c, i, "queued")' <=> label = "done"
          /\ Said(c, i, "queueing")' <=> label = "raised"
          /\ label = "done" => Sent(c, i)'
      BY <1>1, <1>2, <1>6, <1>7, <1>8, <2>2 DEF Sent, InRedis, Said
    <3> QED BY <1>8, <3>1, <3>2, <1>6 DEF Tells, Current, Writing, Over
  <2> QED BY <2>1, <2>2
<1> QED BY <1>3, <1>4, <1>5, <1>8 DEF IInv, Told
-----------------------------------------------------------------------------
\* Every other step is a quiet one.
LEMMA NextIInv == ASSUME IInv, [Next]_vars PROVE IInv'
<1>0. /\ Sender \subseteq Caller /\ Async \subseteq Caller
      /\ Closer \cap Sender = {} /\ pc \in [Caller -> Label]
  BY KindsAreDisjoint DEF Sender, Caller, Async, IInv, Shape
<1>1. CASE UNCHANGED <<pc, redis, log, chunk>>
  BY <1>1, Unmoved DEF IInv, Shape, Told, Sent, InRedis, Said, Passes
<1>2. CASE \/ ChangeSettings \/ ResetSettings \/ ResetShared \/ CloseShared \/ Invalidate
           \/ \E c \in Caller : Resolve(c)
           \/ \E l \in Loop : CloseLoop(l)
           \/ UNCHANGED vars
  BY <1>1, <1>2
     DEF ChangeSettings, ResetSettings, ResetShared, CloseShared, Invalidate, Resolve,
         CloseLoop, call, written, vars
<1>3. ASSUME NEW c \in Caller, Call(c) PROVE IInv'
  <2>1. pc[c] = "idle" /\ UNCHANGED <<redis, log, chunk>>
    BY <1>3 DEF Call, call, written
  <2>2. PICK label \in {"key", "aget", "aclose", "done"} : pc' = [pc EXCEPT ![c] = label]
    <3>1. c \in Thread \/ c \in Coroutine \/ c \in Closer
      BY DEF Caller, Async
    <3> QED BY <1>3, <3>1, KindsAreDisjoint DEF Call, Goto, Async
  <2>3. label \in Label /\ Passes(c)
    BY <1>0, <2>1, <2>2 DEF Passes, Label, Writing, Over
  <2> QED BY <2>1, <2>2, <2>3, QuietStep
<1>4. ASSUME NEW c \in Sender, Pack(c) \/ Push(c) \/ PushEnds(c) PROVE IInv'
  BY <1>4, PackIInv, PushIInv, PushEndsIInv
<1>5. ASSUME NEW t \in Thread, GetShared(t) \/ LockShared(t) \/ BuildShared(t) PROVE IInv'
  <2>1. t \in Caller /\ pc[t] \notin Writing /\ UNCHANGED <<redis, log, chunk>>
    BY <1>5 DEF GetShared, LockShared, BuildShared, written, Writing, Over, Caller
  <2>2. PICK label \in {"push", "lock", "url"} : pc' = [pc EXCEPT ![t] = label]
    BY <1>5 DEF GetShared, LockShared, BuildShared, Goto
  <2>3. label \in Label /\ Passes(t)
    BY <1>0, <2>1, <2>2 DEF Passes, Label
  <2> QED BY <2>1, <2>2, <2>3, QuietStep
<1>6. ASSUME NEW c \in Coroutine, GetOnLoop(c) \/ BuildOnLoop(c) \/ CancelPush(c) PROVE IInv'
  <2>1. c \in Caller /\ UNCHANGED <<redis, log, chunk>>
    BY <1>0, <1>6 DEF GetOnLoop, BuildOnLoop, CancelPush, written, call, Async
  <2>2. PICK label \in {"key", "build", "stale", "cancelled"} :
          /\ pc' = [pc EXCEPT ![c] = label]
          /\ pc[c] \notin Writing \/ (pc[c] = "pushing" /\ label = "cancelled")
    BY <1>6 DEF GetOnLoop, BuildOnLoop, CancelPush, Goto, Writing, Over
  <2>3. label \in Label /\ Passes(c)
    BY <1>0, <2>1, <2>2 DEF Passes, Label
  <2> QED BY <2>1, <2>2, <2>3, QuietStep
<1>7. ASSUME NEW c \in Async, CloseStale(c) \/ CloseBrokenOff(c) \/ (c \in Closer /\ Forget(c))
      PROVE  IInv'
  <2>1. c \in Caller /\ pc[c] \notin Writing /\ UNCHANGED <<redis, log, chunk>>
    BY <1>0, <1>7 DEF CloseStale, CloseBrokenOff, Forget, written, Writing, Over
  <2>2. PICK label \in {"key", "done", "raised", "stale", "cancelled"} :
          pc' = [pc EXCEPT ![c] = label] /\ (c \notin Closer => label # "raised")
    BY <1>7 DEF CloseStale, CloseBrokenOff, Forget, Goto
  <2>3. label \in Label /\ (c \in Sender => Passes(c))
    BY <1>0, <2>1, <2>2 DEF Passes, Label
  <2> QED BY <2>1, <2>2, <2>3, QuietStep
<1> QED BY <1>2, <1>3, <1>4, <1>5, <1>6, <1>7 DEF Next, Async

(***************************************************************************)
(* What is recorded of a message is so, and at most once; a call that      *)
(* raised has a row for every message it came to, and what a call leaves   *)
(* in Redis has one, but for the write it was cancelled in - whatever      *)
(* chunk of a send_many() fails, whatever client it was written through    *)
(* (queueing()).                                                           *)
(***************************************************************************)
THEOREM RecordsAreAlwaysTrue == Spec => []RecordsAreTrue
<1>1. Init => IInv
  BY InitIInv
<1>2. IInv /\ [Next]_vars => IInv'
  BY NextIInv
<1>3. IInv => RecordsAreTrue
  BY IInvIsEnough
<1> QED BY <1>1, <1>2, <1>3, PTL DEF Spec

(***************************************************************************)
(* The type invariant in parts, who has which client, and that every open  *)
(* client is known.                                                        *)
(***************************************************************************)
Cached ==
  /\ version \in Version /\ receiver \in 0..Len(Receivers) /\ cache \in Version \cup {None}
  /\ slot \in Client \cup {None} /\ closing \in Client \cup {None}
  /\ generation \in Nat /\ gone \subseteq Loop
  /\ lock \in Thread \cup {None} /\ guard \in Coroutine \cup {None}

Connected ==
  /\ entries \in [Loop -> [generation : Nat, client : Client] \cup {NoEntry}]
  /\ clients \in [Client -> [from : Version, on : Loop \cup {None}, state : {"unmade", "open", "closed"}]]

Located ==
  /\ pc \in [Caller -> Label]
  /\ \A t \in Thread : pc[t] = "url" <=> lock = t
  /\ \A c \in Coroutine : pc[c] = "build" <=> guard = c

Called ==
  /\ seen \in [Caller -> Version \cup {None}] /\ key \in [Sender -> Version \cup {None}]
  /\ held \in [Caller -> Client \cup {None}] /\ old \in [Caller -> Client \cup {None}]
  /\ chunk \in [Sender -> Nat \ {0}] /\ \A c \in Sender : chunk[c] <= Chunks[c]

Written ==
  /\ redis \subseteq [message : Message, server : Version, key : Version]
  /\ log \subseteq Message \X {"queued", "queueing", "serialising"}

Noted == quiet \in [Caller -> BOOLEAN] /\ stray \subseteq Client /\ lapsed \in BOOLEAN

\* Together they are the type invariant.
LEMMA TypeParts == TypeOK <=> Cached /\ Connected /\ Located /\ Called /\ Written /\ Noted
BY DEF TypeOK, Cached, Connected, Located, Called, Written, Noted

\* Somebody has this client: OpenClientsAreKnown, taken apart.
Known(k) ==
  \/ k = slot \/ k = closing
  \/ \E l \in Loop : k = entries[l].client
  \/ \E c \in Caller : k = old[c]
  \/ clients[k].on \in gone
  \/ k \in stray

NoLeak == \A k \in Client : clients[k].state = "open" => Known(k)

LEMMA NoLeakSuffices == NoLeak <=> OpenClientsAreKnown
BY DEF NoLeak, Known, OpenClientsAreKnown

\* Whoever writes has a key and a client; a coroutine has its client all along.
Equipped ==
  /\ \A c \in Sender :
       /\ pc[c] \in {"get", "lock", "url", "push", "pushing"} => key[c] # None
       /\ pc[c] \in {"push", "pushing"} => held[c] # None
  /\ \A c \in Coroutine : pc[c] \in {"key", "stale"} => held[c] # None

\* The shared slot is empty while a client for it is built, a stale client is in
\* the hands of one that closes it next, the entry of a loop is for that loop, and
\* a client that was not built is nobody's.
Placed ==
  /\ lock # None => slot = None
  /\ \A c \in Async : old[c] # None <=> pc[c] = "stale"
  /\ \A l \in Loop : entries[l] # NoEntry => clients[entries[l].client].on = l
  /\ \A k \in Client : clients[k].state = "unmade" =>
       clients[k].on = None /\ k # slot /\ \A c \in Caller : k # held[c]

CInv == Cached /\ Connected /\ Located /\ Called /\ Written /\ Noted /\ Equipped /\ Placed /\ NoLeak

\* Threads, coroutines and closers are apart.
LEMMA Kinds ==
  /\ Sender \subseteq Caller /\ Async \subseteq Caller /\ Coroutine \subseteq Async
  /\ Thread \subseteq Sender /\ Coroutine \subseteq Sender /\ Closer \subseteq Async
  /\ \A c \in Coroutine : c \notin Thread /\ c \notin Closer
  /\ \A c \in Closer : c \notin Sender
BY KindsAreDisjoint DEF Sender, Caller, Async

\* The next client to build is one that was not built.
LEMMA FreshClient ==
  ASSUME Unmade # {}
  PROVE  Fresh \in Client /\ clients[Fresh].state = "unmade"
<1>1. Unmade \subseteq Client /\ Client \subseteq Nat
  BY DEF Unmade, Client
<1>2. Fresh \in Unmade
  BY <1>1, MinOfNats DEF Fresh
<1> QED BY <1>2 DEF Unmade

\* A client that is closed, or connects again, is still what it was built for.
LEMMA ClientsStayWhatTheyAre ==
  ASSUME Connected, NEW k, NEW state \in {"open", "closed"},
         clients' = [clients EXCEPT ![k].state = state]
  PROVE  /\ clients' \in [Client -> [from : Version, on : Loop \cup {None}, state : {"unmade", "open", "closed"}]]
         /\ \A j \in Client : clients'[j].on = clients[j].on /\ clients'[j].from = clients[j].from
         /\ \A j \in Client : clients'[j].state = IF j = k THEN state ELSE clients[j].state
BY DEF Connected

\* A client is built for its loop, and no other is touched.
LEMMA BuiltClient ==
  ASSUME Connected, NEW v \in Version, NEW l \in Loop \cup {None}, Build(v, l)
  PROVE  /\ clients' \in [Client -> [from : Version, on : Loop \cup {None}, state : {"unmade", "open", "closed"}]]
         /\ Fresh \in Client /\ clients[Fresh].state = "unmade"
         /\ clients'[Fresh].on = l /\ clients'[Fresh].from = v
         /\ \A j \in Client : j # Fresh => clients'[j] = clients[j]
<1>1. Fresh \in Client /\ clients[Fresh].state = "unmade"
  BY FreshClient DEF Build
<1>2. clients' = [clients EXCEPT ![Fresh] = [from |-> v, on |-> l, state |-> "open"]]
  BY DEF Build
<1> QED BY <1>1, <1>2 DEF Connected

\* The chunk a call is at is one of its messages.
LEMMA ChunkIsAMessage == ASSUME Called, NEW c \in Sender PROVE <<c, chunk[c]>> \in Message
<1>1. chunk[c] \in 1..Chunks[c]
  BY BoundsAreNatural DEF Called
<1>2. <<c, chunk[c]>> \in {c} \X (1..Chunks[c])
  BY <1>1
<1> QED BY <1>2 DEF Message

\* What resolved() gives is a version.
LEMMA ConfIsAVersion == ASSUME Cached, Called, NEW c \in Caller, ReadConf(c) PROVE Conf(c) \in Version
BY DEF Cached, Called, ReadConf, Conf

-----------------------------------------------------------------------------
(***************************************************************************)
(* One lemma for each step.                                                *)
(***************************************************************************)
LEMMA ChangeSettingsCInv == ASSUME CInv, ChangeSettings PROVE CInv'
<1> USE Kinds DEF CInv
<1>1. Connected' /\ Located' /\ Called' /\ Written' /\ Noted' /\ Equipped'
  BY DEF ChangeSettings, Connected, Located, Called, Written, Noted, Equipped, shared, perLoop,
    call, written
<1>2. Cached'
  BY BoundsAreNatural DEF ChangeSettings, Cached, Version, Receivers, shared, perLoop
<1>3. Placed'
  BY DEF ChangeSettings, Placed, shared, perLoop, call
<1>4. NoLeak'
  BY DEF ChangeSettings, NoLeak, shared, perLoop, call, Known
<1> QED BY <1>1, <1>2, <1>3, <1>4

LEMMA ResetSettingsCInv == ASSUME CInv, ResetSettings PROVE CInv'
<1> USE Kinds DEF CInv
<1>1. Connected' /\ Located' /\ Called' /\ Written' /\ Noted' /\ Equipped'
  BY DEF ResetSettings, Connected, Located, Called, Written, Noted, Equipped, shared, perLoop,
    call, written
<1>2. Cached'
  BY DEF ResetSettings, Cached, shared, perLoop, Received
<1>3. Placed'
  BY DEF ResetSettings, Placed, shared, perLoop, call
<1>4. NoLeak'
  BY DEF ResetSettings, NoLeak, shared, perLoop, call, Known
<1> QED BY <1>1, <1>2, <1>3, <1>4

LEMMA ResetSharedCInv == ASSUME CInv, ResetShared PROVE CInv'
<1> USE Kinds DEF CInv
<1>1. Connected' /\ Located' /\ Called' /\ Written' /\ Noted' /\ Equipped'
  BY DEF ResetShared, Connected, Located, Called, Written, Noted, Equipped, perLoop, call,
    written
<1>2. Cached'
  BY DEF ResetShared, Cached, perLoop, Received
<1>3. Placed'
  BY NoneIsNothing DEF ResetShared, Placed, Client, perLoop, call
<1>4. NoLeak'
  BY DEF ResetShared, NoLeak, perLoop, call, Known
<1> QED BY <1>1, <1>2, <1>3, <1>4

LEMMA CloseSharedCInv == ASSUME CInv, CloseShared PROVE CInv'
<1> USE Kinds DEF CInv
<1>1. closing # None /\ clients' = [clients EXCEPT ![closing].state = "closed"]
  BY DEF CloseShared, Closed
<1>2. Located' /\ Called' /\ Written' /\ Noted' /\ Equipped'
  BY DEF CloseShared, Located, Called, Written, Noted, Equipped, perLoop, call, written
<1>3. Cached'
  BY DEF CloseShared, Cached, perLoop, Received
<1>4. Connected'
  BY <1>1, ClientsStayWhatTheyAre DEF CloseShared, Connected, perLoop
<1>5. Placed'
  BY <1>1 DEF CloseShared, Placed, perLoop, call
<1>6. NoLeak'
  <2>1. UNCHANGED <<slot, entries, gone, old, stray>>
    BY DEF CloseShared, perLoop, call
  <2>2. \A k \in Client :
          /\ clients'[k].on = clients[k].on
          /\ clients'[k].state = IF k = closing THEN "closed" ELSE clients[k].state
    BY <1>1, ClientsStayWhatTheyAre
  <2>3. \A k \in Client : k # closing /\ Known(k) => Known(k)'
    BY <2>1, <2>2 DEF Known
  <2> QED BY <2>2, <2>3 DEF NoLeak
<1> QED BY <1>2, <1>3, <1>4, <1>5, <1>6

LEMMA InvalidateCInv == ASSUME CInv, Invalidate PROVE CInv'
<1> USE Kinds DEF CInv
<1>1. Connected' /\ Located' /\ Called' /\ Written' /\ Noted' /\ Equipped'
  BY DEF Invalidate, Connected, Located, Called, Written, Noted, Equipped, shared, call,
    written
<1>2. Cached'
  BY DEF Invalidate, Cached, shared, Received
<1>3. Placed'
  BY DEF Invalidate, Placed, shared, call
<1>4. NoLeak'
  BY DEF Invalidate, NoLeak, shared, call, Known
<1> QED BY <1>1, <1>2, <1>3, <1>4

LEMMA CallCInv == ASSUME CInv, NEW c \in Caller, Call(c) PROVE CInv'
<1> USE Kinds DEF CInv
<1>1. pc[c] = "idle" /\ \E label \in {"key", "aget", "aclose", "done"} :
         Goto(c, label) /\ (c \in Coroutine => label \in {"aget", "done"})
  <2>1. c \in Thread \/ c \in Coroutine \/ c \in Closer
    BY DEF Caller, Async
  <2> QED BY <2>1, KindsAreDisjoint DEF Call, Async
<1>2. Cached' /\ Connected' /\ Called' /\ Written' /\ Noted'
  BY DEF Call, Cached, Connected, Called, Written, Noted, settings, shared, perLoop, call,
    written
<1>3. Located'
  BY <1>1 DEF Call, Goto, Located, Label, shared, perLoop
<1>4. Equipped'
  BY <1>1 DEF Call, Goto, Located, Equipped, call
<1>5. Placed'
  BY <1>1 DEF Call, Placed, shared, perLoop, call, Goto
<1>6. NoLeak'
  BY DEF Call, NoLeak, shared, perLoop, call, Known
<1> QED BY <1>2, <1>3, <1>4, <1>5, <1>6

LEMMA ResolveCInv == ASSUME CInv, NEW c \in Caller, Resolve(c) PROVE CInv'
<1> USE Kinds DEF CInv
<1>1. Cached' /\ Connected' /\ Located' /\ Called' /\ Written' /\ Noted' /\ Equipped'
  BY DEF Resolve, Cached, Connected, Located, Called, Written, Noted, Equipped, settings,
    shared, perLoop, call, written
<1>2. Placed'
  BY DEF Resolve, Placed, shared, perLoop, call
<1>3. NoLeak'
  BY DEF Resolve, NoLeak, shared, perLoop, call, Known
<1> QED BY <1>1, <1>2, <1>3

LEMMA PackCInv == ASSUME CInv, NEW c \in Sender, Pack(c) PROVE CInv'
<1> USE Kinds DEF CInv
<1>1. /\ \A d \in Caller : d # c => pc'[d] = pc[d]
      /\ pc[c] = "key" /\ pc'[c] \in {"get", "push", "raised"}
      /\ (c \in Thread => pc'[c] # "push") /\ (c \notin Thread => pc'[c] # "get")
  BY Kinds DEF Pack, Goto, Located, Label
<1>2. Conf(c) \in Version /\ Conf(c) # None /\ <<c, chunk[c]>> \in Message
  BY ConfIsAVersion, ChunkIsAMessage DEF Pack, ReadConf
<1>3. key' = [key EXCEPT ![c] = Conf(c)] /\ UNCHANGED held
  BY DEF Pack
<1>4. Connected'
  BY DEF Pack, Connected, perLoop
<1>5. Cached'
  BY DEF Pack, Cached, shared, perLoop, ReadConf, Conf, Called
<1>6. Located'
  BY DEF Pack, Located, shared, perLoop, Goto, Label
<1>7. Called'
  BY DEF Pack, Called, ReadConf, Conf, Cached
<1>8. Written'
  BY <1>2 DEF Pack, Written, Records
<1>9. Noted'
  BY DEF Pack, Noted, ReadConf
<1>10. Equipped'
  <2>1. \A d \in Sender : key'[d] = IF d = c THEN Conf(c) ELSE key[d]
    BY <1>3 DEF Called
  <2>2. \A d \in Caller : held'[d] = held[d]
    BY <1>3
  <2>3. c \in Coroutine => held[c] # None
    BY <1>1 DEF Equipped
  <2>4. c \in Thread \/ c \in Coroutine
    BY DEF Sender
  <2> QED BY <1>1, <1>2, <2>1, <2>2, <2>3, <2>4 DEF Equipped
<1>11. Placed'
  BY <1>1 DEF Pack, Placed, shared, perLoop
<1>12. NoLeak'
  BY DEF Pack, NoLeak, shared, perLoop, Known
<1> QED BY <1>4, <1>5, <1>6, <1>7, <1>8, <1>9, <1>10, <1>11, <1>12

LEMMA PushCInv == ASSUME CInv, NEW c \in Sender, Push(c) PROVE CInv'
<1> USE Kinds DEF CInv
<1>1. /\ \A d \in Caller : d # c => pc'[d] = pc[d]
      /\ pc[c] = "push" /\ pc'[c] = "pushing"
  BY Kinds DEF Push, Goto, Located, Label
<1>2. held[c] \in Client
  BY <1>1 DEF Equipped, Called
<1>3. clients' = [clients EXCEPT ![held[c]].state = "open"]
  BY DEF Push
<1>4. key[c] \in Version /\ clients[held[c]].from \in Version /\ <<c, chunk[c]>> \in Message
  BY <1>1, <1>2, ChunkIsAMessage DEF Equipped, Called, Connected
<1>5. Cached' /\ Called'
  BY DEF Push, Cached, Called, settings, shared, perLoop, call
<1>6. Connected'
  BY <1>3, ClientsStayWhatTheyAre DEF Push, Connected, perLoop
<1>7. Located'
  BY DEF Push, Located, shared, perLoop, Goto, Label
<1>8. Written'
  BY <1>4 DEF Push, Written
<1>9. Noted'
  BY <1>2 DEF Push, Noted
<1>10. Equipped'
  BY <1>1 DEF Push, Equipped, call
<1>11. Placed'
  BY <1>1 DEF Push, Placed, shared, perLoop, call
<1>12. NoLeak'
  <2>1. UNCHANGED <<slot, closing, entries, gone, old>> /\ stray \subseteq stray'
    BY DEF Push, shared, perLoop, call
  <2>2. \A k \in Client : Known(k) => Known(k)'
    BY <1>3, <2>1, ClientsStayWhatTheyAre DEF Known
  <2>3. clients[held[c]].state \in {"open", "closed"}
    BY <1>2 DEF Placed, Connected
  <2>4. clients[held[c]].state = "closed" => held[c] \in stray'
    BY DEF Push
  <2>5. \A k \in Client : k \in stray' => Known(k)'
    BY DEF Known
  <2> QED BY <1>2, <1>3, <2>2, <2>3, <2>4, <2>5, ClientsStayWhatTheyAre DEF NoLeak
<1> QED BY <1>5, <1>6, <1>7, <1>8, <1>9, <1>10, <1>11, <1>12

LEMMA PushEndsCInv == ASSUME CInv, NEW c \in Sender, PushEnds(c) PROVE CInv'
<1> USE Kinds DEF CInv
<1>1. /\ \A d \in Caller : d # c => pc'[d] = pc[d]
      /\ pc[c] = "pushing" /\ pc'[c] \in {"key", "done", "raised"}
  BY Kinds DEF PushEnds, Goto, Located, Label
<1>2. <<c, chunk[c]>> \in Message /\ UNCHANGED redis
  BY ChunkIsAMessage DEF PushEnds
<1>3. UNCHANGED chunk \/ (chunk[c] < Chunks[c] /\ chunk' = [chunk EXCEPT ![c] = @ + 1])
  BY DEF PushEnds
<1>4. Cached' /\ Connected' /\ Noted'
  BY DEF PushEnds, Cached, Connected, Noted, settings, shared, perLoop
<1>5. Located'
  BY DEF PushEnds, Located, shared, perLoop, Goto, Label
<1>6. Called'
  BY <1>3, BoundsAreNatural DEF PushEnds, Called
<1>7. Written'
  BY <1>2 DEF PushEnds, Written, Records
<1>8. Equipped'
  BY <1>1 DEF PushEnds, Equipped
<1>9. Placed'
  BY <1>1 DEF PushEnds, Placed, shared, perLoop
<1>10. NoLeak'
  BY DEF PushEnds, NoLeak, shared, perLoop, Known
<1> QED BY <1>4, <1>5, <1>6, <1>7, <1>8, <1>9, <1>10

LEMMA CancelPushCInv == ASSUME CInv, NEW c \in Coroutine, CancelPush(c) PROVE CInv'
<1> USE Kinds DEF CInv
<1>1. Cached' /\ Connected' /\ Called' /\ Written' /\ Noted'
  BY DEF CancelPush, Cached, Connected, Called, Written, Noted, settings, shared, perLoop, call,
    written
<1>2. Located'
  BY DEF CancelPush, Located, shared, perLoop, Goto, Label
<1>3. Equipped'
  BY DEF CancelPush, Equipped, Located, Goto, call
<1>4. Placed'
  BY DEF CancelPush, Placed, Located, Goto, shared, perLoop, call
<1>5. NoLeak'
  BY DEF CancelPush, NoLeak, shared, perLoop, call, Known
<1> QED BY <1>1, <1>2, <1>3, <1>4, <1>5

LEMMA GetSharedCInv == ASSUME CInv, NEW t \in Thread, GetShared(t) PROVE CInv'
<1> USE Kinds DEF CInv
<1>1. /\ \A d \in Caller : d # t => pc'[d] = pc[d]
      /\ pc[t] = "get" /\ pc'[t] \in {"push", "lock"}
  BY Kinds DEF GetShared, Goto, Located, Label
<1>2. Cached' /\ Connected' /\ Written' /\ Noted'
  BY DEF GetShared, Cached, Connected, Written, Noted, settings, shared, perLoop, written
<1>3. Located'
  BY DEF GetShared, Located, shared, perLoop, Goto, Label
<1>4. Called'
  BY DEF GetShared, Called, Holds, Cached
<1>5. Equipped'
  BY DEF GetShared, Equipped, Located, Called, Goto, Holds
<1>6. Placed'
  BY <1>1 DEF GetShared, Placed, shared, perLoop, Holds, Called
<1>7. NoLeak'
  BY DEF GetShared, NoLeak, shared, perLoop, Known
<1> QED BY <1>2, <1>3, <1>4, <1>5, <1>6, <1>7

LEMMA LockSharedCInv == ASSUME CInv, NEW t \in Thread, LockShared(t) PROVE CInv'
<1> USE Kinds DEF CInv
<1>1. /\ \A d \in Caller : d # t => pc'[d] = pc[d]
      /\ pc[t] = "lock" /\ pc'[t] \in {"push", "url"}
  BY Kinds DEF LockShared, Goto, Located, Label
<1>2. Cached' /\ Connected' /\ Written' /\ Noted'
  BY DEF LockShared, Cached, Connected, Written, Noted, settings, perLoop, written
<1>3. Located'
  BY NoneIsNothing DEF LockShared, Located, Label, perLoop, Goto
<1>4. Called'
  BY DEF LockShared, Called, Holds, Cached
<1>5. Equipped'
  BY DEF LockShared, Equipped, Located, Called, Goto, Holds
<1>6. Placed'
  BY <1>1 DEF LockShared, Placed, perLoop, Holds, Called
<1>7. NoLeak'
  BY DEF LockShared, NoLeak, perLoop, Known
<1> QED BY <1>2, <1>3, <1>4, <1>5, <1>6, <1>7

LEMMA BuildSharedCInv == ASSUME CInv, NEW t \in Thread, BuildShared(t) PROVE CInv'
<1> USE Kinds DEF CInv
<1>1. /\ \A d \in Caller : d # t => pc'[d] = pc[d]
      /\ pc[t] = "url" /\ pc'[t] = "push"
  BY Kinds DEF BuildShared, Goto, Located, Label
<1>2. Conf(t) \in Version /\ Build(Conf(t), None)
  BY ConfIsAVersion DEF BuildShared
<1>3. /\ Fresh \in Client /\ clients[Fresh].state = "unmade"
      /\ \A j \in Client : j # Fresh => clients'[j] = clients[j]
  BY <1>2, BuiltClient
<1>4. slot = None /\ slot' = Fresh /\ UNCHANGED <<closing, entries, gone, old, stray>>
  BY <1>1, NoneIsNothing DEF BuildShared, Located, Placed, perLoop, Caller
<1>5. Written'
  BY DEF BuildShared, Written, written
<1>6. Cached'
  BY <1>3 DEF BuildShared, Cached, perLoop, ReadConf, Conf, Called
<1>7. Connected'
  BY <1>2, BuiltClient DEF BuildShared, Connected, perLoop
<1>8. Located'
  BY NoneIsNothing DEF BuildShared, Located, Label, perLoop, Goto
<1>9. Called'
  BY <1>3 DEF BuildShared, Called, Holds, ReadConf
<1>10. Noted'
  BY DEF BuildShared, Noted, ReadConf
<1>11. Equipped'
  BY <1>1, <1>3, NoneIsNothing DEF BuildShared, Equipped, Holds, Called, Client
<1>12. Placed'
  <2>1. lock' = None /\ held' = [held EXCEPT ![t] = Fresh]
    BY DEF BuildShared, Holds
  <2>2. \A l \in Loop : entries[l] # NoEntry => entries[l].client \in Client \ {Fresh}
    BY <1>3, NoneIsNothing DEF Placed, Connected
  <2>3. clients'[Fresh].state = "open"
    BY <1>2, <1>3 DEF Build, Connected
  <2>4. \A d \in Async : pc'[d] = pc[d]
    BY <1>1, KindsAreDisjoint DEF Located
  <2> QED BY <1>1, <1>3, <1>4, <2>1, <2>2, <2>3, <2>4, NoneIsNothing DEF Placed, Called, Client
<1>13. NoLeak'
  BY <1>3, <1>4, NoneIsNothing DEF NoLeak, Known, Client
<1> QED BY <1>5, <1>6, <1>7, <1>8, <1>9, <1>10, <1>11, <1>12, <1>13

LEMMA GetOnLoopCInv == ASSUME CInv, NEW c \in Coroutine, GetOnLoop(c) PROVE CInv'
<1> USE Kinds DEF CInv
<1>1. /\ \A d \in Caller : d # c => pc'[d] = pc[d]
      /\ pc[c] = "aget" /\ pc'[c] \in {"key", "build"}
  BY Kinds DEF GetOnLoop, Goto, Located, Label
<1>2. On[c] \in Loop
  BY EveryCoroutineHasALoop DEF Async
<1>3. \A l \in Loop : entries[l] # NoEntry => entries[l].client \in Client /\ entries[l].client # None
  BY NoneIsNothing DEF Connected, Client
<1>4. \/ pc'[c] = "build" /\ UNCHANGED held
      \/ /\ pc'[c] = "key" /\ entries[On[c]] # NoEntry
         /\ held' = [held EXCEPT ![c] = entries[On[c]].client]
  BY <1>1 DEF GetOnLoop, Goto, Holds, Located
<1>5. /\ UNCHANGED <<slot, lock, closing, gone, clients, old, key, chunk, seen, stray>>
      /\ entries' = Swept
  BY DEF GetOnLoop, shared
<1>6. Cached' /\ Written' /\ Noted'
  BY DEF GetOnLoop, Cached, Written, Noted, settings, shared, written
<1>7. Connected'
  BY DEF GetOnLoop, Connected, Swept
<1>8. Located'
  BY NoneIsNothing DEF GetOnLoop, Located, Label, shared, Goto
<1>9. Called'
  BY <1>2, <1>3, <1>4, <1>5 DEF Called
<1>10. Equipped'
  <2>1. \A d \in Caller : held'[d] = held[d] \/ d = c
    BY <1>4 DEF Called
  <2>2. pc'[c] = "key" => held'[c] # None
    BY <1>2, <1>3, <1>4 DEF Called
  <2> QED BY <1>1, <1>5, <2>1, <2>2 DEF Equipped
<1>11. Placed'
  <2>1. \A l \in Loop : entries'[l] # NoEntry => entries'[l] = entries[l]
    BY <1>5 DEF Swept
  <2>2. \A l \in Loop : entries[l] # NoEntry => clients[entries[l].client].state # "unmade"
    BY <1>3, NoneIsNothing DEF Placed
  <2>3. \A k \in Client, d \in Caller : clients[k].state = "unmade" => k # held'[d]
    BY <1>2, <1>4, <2>2 DEF Placed, Called
  <2> QED BY <1>1, <1>5, <2>1, <2>3 DEF Placed
<1>12. NoLeak'
  <2>1. ASSUME NEW l \in Loop, l \in gone, entries[l].client \in Client
        PROVE  clients[entries[l].client].on = l
    BY <2>1, NoneIsNothing DEF Placed, NoEntry, Client
  <2>2. \A l \in Loop : l \notin gone => entries'[l] = entries[l]
    BY <1>5 DEF Swept
  <2> QED BY <1>5, <2>1, <2>2 DEF NoLeak, Known
<1> QED BY <1>6, <1>7, <1>8, <1>9, <1>10, <1>11, <1>12

LEMMA BuildOnLoopCInv == ASSUME CInv, NEW c \in Coroutine, BuildOnLoop(c) PROVE CInv'
<1> USE Kinds DEF CInv
<1>1. /\ \A d \in Caller : d # c => pc'[d] = pc[d]
      /\ pc[c] = "build" /\ pc'[c] \in {"key", "stale"}
  BY Kinds DEF BuildOnLoop, Goto, Located, Label
<1>2. On[c] \in Loop
  BY EveryCoroutineHasALoop DEF Async
<1>3. Conf(c) \in Version /\ Build(Conf(c), On[c])
  BY ConfIsAVersion DEF BuildOnLoop
<1>4. /\ Fresh \in Client /\ Fresh # None /\ clients[Fresh].state = "unmade"
      /\ clients'[Fresh].on = On[c] /\ clients'[Fresh].state = "open"
      /\ \A j \in Client : j # Fresh => clients'[j] = clients[j]
  <2>1. clients' = [clients EXCEPT ![Fresh] = [from |-> Conf(c), on |-> On[c], state |-> "open"]]
    BY <1>3 DEF Build
  <2>2. Fresh \in Client /\ clients[Fresh].state = "unmade"
    BY <1>3, FreshClient DEF Build
  <2> QED BY <2>1, <2>2, NoneIsNothing DEF Connected, Client
<1>5. \A l \in Loop :
        \/ entries[l] = NoEntry /\ entries[l].client = None
        \/ entries[l].client \in Client \ {Fresh}
  BY <1>4, NoneIsNothing DEF Placed, Connected, NoEntry
<1>6. /\ UNCHANGED <<slot, lock, closing, generation, gone, key, chunk, stray>> /\ guard' = None
      /\ seen' = [seen EXCEPT ![c] = None]
      /\ entries' = [entries EXCEPT ![On[c]] = [generation |-> generation, client |-> Fresh]]
      /\ held' = [held EXCEPT ![c] = Fresh] /\ old' = [old EXCEPT ![c] = entries[On[c]].client]
  BY DEF BuildOnLoop, Holds, ReadConf, shared
<1>7. Written'
  BY DEF BuildOnLoop, Written, written
<1>8. Cached'
  BY DEF BuildOnLoop, Cached, shared, ReadConf, Conf, Called
<1>9. Connected'
  BY <1>2, <1>3, <1>4, <1>6, BuiltClient DEF Connected, Cached
<1>10. Located'
  BY NoneIsNothing DEF BuildOnLoop, Located, Label, shared, Goto
<1>11. Called'
  BY <1>2, <1>4, <1>5, <1>6 DEF Called
<1>12. Noted'
  BY DEF BuildOnLoop, Noted, ReadConf
<1>13. Equipped'
  BY <1>1, <1>4, <1>6 DEF Equipped, Called
<1>14. Placed'
  <2>1. old'[c] # None <=> pc'[c] = "stale"
    BY <1>1 DEF BuildOnLoop, Goto, Located
  <2>2. \A d \in Async : old'[d] # None <=> pc'[d] = "stale"
    BY <1>1, <1>6, <2>1 DEF Placed, Called
  <2>3. \A l \in Loop : entries'[l] # NoEntry => clients'[entries'[l].client].on = l
    BY <1>2, <1>4, <1>5, <1>6 DEF Placed, Connected
  <2> QED BY <1>4, <1>6, <2>2, <2>3 DEF Placed, Called
<1>15. NoLeak'
  <2>1. entries'[On[c]].client = Fresh
    BY <1>2, <1>6 DEF Connected
  <2>2. old[c] = None
    BY <1>1 DEF Placed
  <2>3. \A k \in Client : Known(k) /\ k # Fresh => Known(k)'
    <3> SUFFICES ASSUME NEW k \in Client, Known(k), k # Fresh PROVE Known(k)'
      OBVIOUS
    <3>1. CASE \E l \in Loop : k = entries[l].client
      BY <3>1, <1>2, <1>6 DEF Known, Called, Connected
    <3>2. CASE \E d \in Caller : k = old[d]
      BY <3>2, <1>6, <2>2, NoneIsNothing DEF Known, Called, Client
    <3> QED BY <3>1, <3>2, <1>4, <1>6 DEF Known
  <2>4. \A k \in Client : k = Fresh => Known(k)'
    BY <1>2, <1>6, <2>1 DEF Known
  <2> QED BY <1>4, <2>3, <2>4 DEF NoLeak
<1> QED BY <1>7, <1>8, <1>9, <1>10, <1>11, <1>12, <1>13, <1>14, <1>15

LEMMA CloseStaleCInv == ASSUME CInv, NEW c \in Async, CloseStale(c) PROVE CInv'
<1> USE Kinds DEF CInv
<1>1. /\ \A d \in Caller : d # c => pc'[d] = pc[d]
      /\ pc[c] = "stale" /\ pc'[c] \in {"key", "done"} /\ (c \in Closer => pc'[c] = "done")
  BY Kinds DEF CloseStale, Goto, Located, Label
<1>2. clients' = [clients EXCEPT ![old[c]].state = "closed"]
  BY DEF CloseStale, Closed
<1>3. Cached' /\ Called' /\ Written' /\ Noted'
  BY DEF CloseStale, Cached, Called, Written, Noted, settings, shared, perLoop, written
<1>4. Connected'
  BY <1>2, ClientsStayWhatTheyAre DEF CloseStale, Connected, perLoop
<1>5. Located'
  BY DEF CloseStale, Located, shared, perLoop, Goto, Label
<1>6. Equipped'
  BY <1>1 DEF CloseStale, Equipped
<1>7. Placed'
  <2>1. /\ UNCHANGED <<slot, lock, entries, held>> /\ old' = [old EXCEPT ![c] = None]
    BY DEF CloseStale, shared, perLoop
  <2>2. \A d \in Async : old'[d] # None <=> pc'[d] = "stale"
    BY <1>1, <2>1 DEF Placed, Called
  <2>3. \A k \in Client : /\ clients'[k].on = clients[k].on
                          /\ clients'[k].state = IF k = old[c] THEN "closed" ELSE clients[k].state
    BY <1>2, ClientsStayWhatTheyAre
  <2>4. \A l \in Loop : entries[l] # NoEntry => entries[l].client \in Client
    BY DEF Connected
  <2> QED BY <2>1, <2>2, <2>3, <2>4 DEF Placed
<1>8. NoLeak'
  BY DEF CloseStale, NoLeak, Known, Connected, shared, perLoop, Closed
<1> QED BY <1>3, <1>4, <1>5, <1>6, <1>7, <1>8

LEMMA CloseBrokenOffCInv == ASSUME CInv, NEW c \in Async, CloseBrokenOff(c) PROVE CInv'
<1> USE Kinds DEF CInv
<1>1. /\ \A d \in Caller : d # c => pc'[d] = pc[d]
      /\ pc[c] = "stale" /\ pc'[c] \in {"key", "raised", "cancelled"}
      /\ (c \in Closer => pc'[c] # "key")
  BY Kinds DEF CloseBrokenOff, Goto, Located, Label
<1>2. \/ clients' = [clients EXCEPT ![old[c]].state = "closed"] /\ UNCHANGED stray
      \/ UNCHANGED clients /\ stray' = stray \cup {old[c]}
  BY DEF CloseBrokenOff, Closed
<1>9. old[c] # None
  BY <1>1 DEF Placed
<1>3. Cached' /\ Called' /\ Written'
  BY DEF CloseBrokenOff, Cached, Called, Written, settings, shared, perLoop, written
<1>4. Connected'
  BY <1>2, ClientsStayWhatTheyAre DEF CloseBrokenOff, Connected, perLoop
<1>5. Located'
  BY DEF CloseBrokenOff, Located, shared, perLoop, Goto, Label
<1>6. Equipped'
  BY <1>1 DEF CloseBrokenOff, Equipped
<1>7. Noted'
  <2>1. old[c] \in Client
    BY <1>9 DEF Called
  <2> QED BY <1>2, <2>1 DEF CloseBrokenOff, Noted
<1>8. Placed'
  <2>1. /\ UNCHANGED <<slot, lock, entries, held>> /\ old' = [old EXCEPT ![c] = None]
    BY DEF CloseBrokenOff, shared, perLoop
  <2>2. \A d \in Async : old'[d] # None <=> pc'[d] = "stale"
    BY <1>1, <2>1 DEF Placed, Called
  <2>3. \A k \in Client : /\ clients'[k].on = clients[k].on
                          /\ clients'[k].state = "unmade" => clients[k].state = "unmade"
    BY <1>2, ClientsStayWhatTheyAre
  <2>4. \A l \in Loop : entries[l] # NoEntry => entries[l].client \in Client
    BY DEF Connected
  <2> QED BY <2>1, <2>2, <2>3, <2>4 DEF Placed
<1>10. NoLeak'
  <2>1. UNCHANGED <<slot, closing, entries, gone>> /\ old' = [old EXCEPT ![c] = None]
    BY DEF CloseBrokenOff, shared, perLoop
  <2>2. CASE clients' = [clients EXCEPT ![old[c]].state = "closed"] /\ UNCHANGED stray
    <3>0. \A k \in Client : /\ clients'[k].on = clients[k].on
                            /\ clients'[k].state = IF k = old[c] THEN "closed" ELSE clients[k].state
      BY <2>2, ClientsStayWhatTheyAre
    <3>1. \A k \in Client : /\ clients'[k].on = clients[k].on
                            /\ clients'[k].state = "open" => clients[k].state = "open" /\ k # old[c]
      BY <3>0
    <3>2. \A k \in Client : Known(k) /\ k # old[c] => Known(k)'
      BY <2>1, <2>2, <3>1 DEF Known, Called
    <3> QED BY <3>1, <3>2 DEF NoLeak
  <2>3. CASE UNCHANGED clients /\ stray' = stray \cup {old[c]}
    BY <2>1, <2>3 DEF NoLeak, Known, Called
  <2> QED BY <1>2, <2>2, <2>3
<1> QED BY <1>3, <1>4, <1>5, <1>6, <1>7, <1>8, <1>10

LEMMA ForgetCInv == ASSUME CInv, NEW c \in Closer, Forget(c) PROVE CInv'
<1> USE Kinds DEF CInv
<1>1. /\ \A d \in Caller : d # c => pc'[d] = pc[d]
      /\ pc[c] = "aclose" /\ pc'[c] \in {"stale", "done"}
  BY Kinds DEF Forget, Goto, Located, Label
<1>2. On[c] \in Loop
  BY EveryCoroutineHasALoop DEF Async
<1>3. \A l \in Loop : entries[l].client \in Client \cup {None}
  BY DEF Connected, NoEntry
<1>4. /\ UNCHANGED <<slot, lock, closing, gone, clients, held, key, chunk, seen, stray>>
      /\ entries' = [entries EXCEPT ![On[c]] = NoEntry]
      /\ old' = [old EXCEPT ![c] = entries[On[c]].client]
  BY DEF Forget, shared
<1>5. Cached' /\ Written' /\ Noted'
  BY DEF Forget, Cached, Written, Noted, settings, shared, written
<1>6. Connected'
  BY <1>2 DEF Forget, Connected
<1>7. Located'
  BY DEF Forget, Located, shared, Goto, Label
<1>8. Called'
  BY <1>2, <1>3, <1>4 DEF Called
<1>9. Equipped'
  BY <1>1 DEF Forget, Equipped
<1>10. Placed'
  BY <1>1 DEF Forget, Placed, shared, Goto
<1>11. NoLeak'
  <2>1. old[c] = None
    BY <1>1 DEF Placed
  <2> SUFFICES ASSUME NEW k \in Client, Known(k) PROVE Known(k)'
    BY <1>4 DEF NoLeak
  <2>2. CASE \E l \in Loop : k = entries[l].client
    BY <2>2, <1>2, <1>4 DEF Known, Called, Connected
  <2>3. CASE \E d \in Caller : k = old[d]
    BY <2>3, <1>4, <2>1, NoneIsNothing DEF Known, Called, Client
  <2> QED BY <2>2, <2>3, <1>4 DEF Known
<1> QED BY <1>5, <1>6, <1>7, <1>8, <1>9, <1>10, <1>11

LEMMA CloseLoopCInv == ASSUME CInv, NEW l \in Loop, CloseLoop(l) PROVE CInv'
<1> USE Kinds DEF CInv
<1>1. Cached' /\ Connected' /\ Located' /\ Called' /\ Written' /\ Noted' /\ Equipped'
  BY DEF CloseLoop, Cached, Connected, Located, Called, Written, Noted, Equipped, settings,
    shared, call, written
<1>2. Placed'
  BY DEF CloseLoop, Placed, shared, call
<1>3. NoLeak'
  BY DEF CloseLoop, NoLeak, shared, call, Known
<1> QED BY <1>1, <1>2, <1>3

LEMMA InitCInv == Init => CInv
<1> SUFFICES ASSUME Init PROVE CInv
  OBVIOUS
<1>1. pc \in [Caller -> Label] /\ \A c \in Caller : pc[c] \in {"idle", "absent"}
  <2>1. PICK cast \in Casts : pc = [c \in Caller |-> IF c \in cast THEN "idle" ELSE "absent"]
    BY DEF Init
  <2> QED BY <2>1 DEF Label
<1>2. TypeOK
  <2>1. \A c \in Sender : chunk[c] = 1 /\ Chunks[c] \in Nat \ {0}
    BY BoundsAreNatural DEF Init
  <2>2. chunk \in [Sender -> Nat \ {0}] /\ \A c \in Sender : chunk[c] <= Chunks[c]
    BY <2>1 DEF Init
  <2>3. \A c \in Caller : pc[c] # "url" /\ pc[c] # "build"
    BY <1>1
  <2>4. 0 \in Version
    BY BoundsAreNatural DEF Version
  <2>5. Thread \subseteq Caller /\ Coroutine \subseteq Caller /\ None \notin Caller
    BY NoneIsNothing DEF Caller, Async
  <2>6. Len(Receivers) = 3
    BY DEF Receivers
  <2>7. /\ version \in Version /\ receiver \in 0..Len(Receivers) /\ cache \in Version \cup {None}
        /\ slot \in Client \cup {None} /\ closing \in Client \cup {None}
        /\ generation \in Nat
        /\ lock \in Thread \cup {None} /\ guard \in Coroutine \cup {None}
    BY <2>4, <2>6 DEF Init
  <2>11. /\ gone \subseteq Loop /\ stray \subseteq Client /\ lapsed \in BOOLEAN
         /\ redis \subseteq [message : Message, server : Version, key : Version]
         /\ log \subseteq Message \X {"queued", "queueing", "serialising"}
    BY Zenon DEF Init
  <2>8. /\ entries \in [Loop -> [generation : Nat, client : Client] \cup {NoEntry}]
        /\ clients \in [Client -> [from : Version, on : Loop \cup {None}, state : {"unmade", "open", "closed"}]]
    BY <2>4 DEF Init
  <2>9. /\ seen \in [Caller -> Version \cup {None}] /\ key \in [Sender -> Version \cup {None}]
        /\ held \in [Caller -> Client \cup {None}] /\ old \in [Caller -> Client \cup {None}]
        /\ quiet \in [Caller -> BOOLEAN]
    BY DEF Init
  <2>10. /\ \A t \in Thread : pc[t] = "url" <=> lock = t
         /\ \A c \in Coroutine : pc[c] = "build" <=> guard = c
    BY <2>3, <2>5 DEF Init
  <2> QED BY <1>1, <2>2, <2>7, <2>8, <2>9, <2>10, <2>11 DEF TypeOK
<1>3. Equipped /\ Placed /\ NoLeak
  BY <1>1, NoneIsNothing, Kinds DEF Init, Equipped, Placed, NoLeak, Client
<1> QED BY <1>2, <1>3, TypeParts DEF CInv

LEMMA NextCInv == ASSUME CInv, [Next]_vars PROVE CInv'
<1>1. ASSUME UNCHANGED vars PROVE CInv'
  BY <1>1 DEF vars, settings, shared, perLoop, call, written, CInv, Cached, Connected, Located,
    Called, Written, Noted, Equipped, Placed, NoLeak, Known
<1>2. CASE ChangeSettings \/ ResetSettings \/ ResetShared \/ CloseShared \/ Invalidate
  BY <1>2, ChangeSettingsCInv, ResetSettingsCInv, ResetSharedCInv, CloseSharedCInv, InvalidateCInv
<1>3. ASSUME NEW c \in Caller, Call(c) \/ Resolve(c) PROVE CInv'
  BY <1>3, CallCInv, ResolveCInv
<1>4. ASSUME NEW c \in Sender, Pack(c) \/ Push(c) \/ PushEnds(c) PROVE CInv'
  BY <1>4, PackCInv, PushCInv, PushEndsCInv
<1>5. ASSUME NEW t \in Thread, GetShared(t) \/ LockShared(t) \/ BuildShared(t) PROVE CInv'
  BY <1>5, GetSharedCInv, LockSharedCInv, BuildSharedCInv
<1>6. ASSUME NEW c \in Coroutine, GetOnLoop(c) \/ BuildOnLoop(c) \/ CancelPush(c) PROVE CInv'
  BY <1>6, GetOnLoopCInv, BuildOnLoopCInv, CancelPushCInv
<1>7. ASSUME NEW c \in Async, CloseStale(c) \/ CloseBrokenOff(c) PROVE CInv'
  BY <1>7, CloseStaleCInv, CloseBrokenOffCInv
<1>8. ASSUME NEW c \in Closer, Forget(c) PROVE CInv'
  BY <1>8, ForgetCInv
<1>9. ASSUME NEW l \in Loop, CloseLoop(l) PROVE CInv'
  BY <1>9, CloseLoopCInv
<1> QED BY <1>1, <1>2, <1>3, <1>4, <1>5, <1>6, <1>7, <1>8, <1>9 DEF Next

LEMMA CInvAlways == Spec => []CInv
<1>1. Init => CInv
  BY InitCInv
<1>2. CInv /\ [Next]_vars => CInv'
  BY NextCInv
<1> QED BY <1>1, <1>2, PTL DEF Spec

(***************************************************************************)
(* Everything has its type; whoever holds _lock or _guard is the one that  *)
(* is building a client under it (get() of both caches).                   *)
(***************************************************************************)
THEOREM TypeCorrect == Spec => []TypeOK
<1>1. CInv => TypeOK
  BY TypeParts DEF CInv
<1> QED BY <1>1, CInvAlways, PTL

(***************************************************************************)
(* No connection leaks: however calls, changes of the settings, aclose()   *)
(* and closed loops interleave, an open client is cached, or about to be   *)
(* closed, or its loop is gone, or a caller used it after it was closed or *)
(* its closing was broken off (get(), reset(), close() and invalidate() of *)
(* both caches).                                                           *)
(***************************************************************************)
THEOREM NoConnectionLeaks == Spec => []OpenClientsAreKnown
<1>1. CInv => OpenClientsAreKnown
  BY NoLeakSuffices DEF CInv
<1> QED BY <1>1, CInvAlways, PTL
-----------------------------------------------------------------------------
(***************************************************************************)
(* What a call writes with.                                                *)
(***************************************************************************)
\* While no change overlaps a call no receiver runs, and what the shared
\* connection closes, its receiver took.
Settled ==
  /\ \A c \in Caller : quiet[c] => receiver = 0
  /\ closing # None => Runs("shared")

\* Settings are being resolved only where they are read, and by a quiet call
\* from what holds now.
Resolved ==
  /\ \A c \in Caller : seen[c] # None => Reads(c)
  /\ \A c \in Caller : quiet[c] => seen[c] \in {None, version}

\* Each cache is current once its receiver has run.
CacheIsCurrent == ~lapsed /\ ~Runs("settings") => cache \in {None, version}

SlotIsCurrent ==
  ~lapsed /\ (receiver \in {0, 3} \/ closing # None) /\ slot # None => clients[slot].from = version

EntriesAreCurrent ==
  /\ \A l \in Loop : entries[l] # NoEntry => entries[l].generation <= generation
  /\ ~lapsed /\ receiver = 0 =>
       \A l \in Loop : entries[l] # NoEntry /\ entries[l].generation = generation =>
         clients[entries[l].client].from = version

\* What a quiet call has taken is current: the key from queueing() on, a thread's
\* client when it writes, a coroutine's client all along.
CallsAreCurrent ==
  ~lapsed => \A c \in Sender : quiet[c] =>
    /\ pc[c] \in {"get", "lock", "url", "push"} => key[c] = version
    /\ pc[c] = "push" => clients[held[c]].from = version
    /\ c \in Coroutine /\ pc[c] \in {"key", "stale", "pushing"} => clients[held[c]].from = version

FInv ==
  Settled /\ Resolved /\ CacheIsCurrent /\ SlotIsCurrent /\ EntriesAreCurrent /\ CallsAreCurrent

\* Which receiver runs.
LEMMA Running ==
  ASSUME Cached
  PROVE  /\ Runs("settings") <=> receiver = 1
         /\ Runs("shared") <=> receiver = 2
         /\ Runs("loops") <=> receiver = 3
BY DEF Cached, Runs, Receivers

\* What a call reads is current unless the cache lapses, or its own receiver has
\* yet to run.
LEMMA ReadIsCurrent ==
  ASSUME CacheIsCurrent, NEW c \in Caller, ReadConf(c), ~lapsed', ~Runs("settings")
  PROVE  Conf(c) = version
BY DEF CacheIsCurrent, ReadConf, Conf

LEMMA ChangeSettingsFInv == ASSUME CInv, FInv, ChangeSettings PROVE FInv'
<1> USE Kinds DEF CInv, FInv
<1>1. Resolved' /\ EntriesAreCurrent' /\ CallsAreCurrent'
  BY DEF ChangeSettings, Resolved, EntriesAreCurrent, CallsAreCurrent, Reads, perLoop
<1>2. Settled'
  BY DEF ChangeSettings, Settled, shared, Runs, Receivers
<1>3. CacheIsCurrent'
  BY DEF ChangeSettings, CacheIsCurrent, Runs, Receivers
<1>4. SlotIsCurrent'
  BY Running DEF ChangeSettings, SlotIsCurrent, Settled, shared
<1> QED BY <1>1, <1>2, <1>3, <1>4

LEMMA ResetSettingsFInv == ASSUME CInv, FInv, ResetSettings PROVE FInv'
<1> USE Kinds DEF CInv, FInv
<1>1. Resolved' /\ CacheIsCurrent' /\ CallsAreCurrent'
  BY DEF ResetSettings, Resolved, CacheIsCurrent, CallsAreCurrent, Reads, call
<1>2. Settled'
  BY DEF ResetSettings, Settled, shared, Runs, Receivers
<1>3. SlotIsCurrent'
  BY DEF ResetSettings, SlotIsCurrent, shared, Runs, Received, Receivers
<1>4. EntriesAreCurrent'
  BY DEF ResetSettings, EntriesAreCurrent, perLoop, Runs, Received, Receivers
<1> QED BY <1>1, <1>2, <1>3, <1>4

LEMMA ResetSharedFInv == ASSUME CInv, FInv, ResetShared PROVE FInv'
<1> USE Kinds DEF CInv, FInv
<1>1. Resolved' /\ CacheIsCurrent' /\ SlotIsCurrent' /\ CallsAreCurrent'
  BY DEF ResetShared, Resolved, CacheIsCurrent, SlotIsCurrent, CallsAreCurrent, Runs, Reads,
    call
<1>2. Settled'
  BY DEF ResetShared, Settled, Runs, Receivers
<1>3. EntriesAreCurrent'
  BY DEF ResetShared, EntriesAreCurrent, perLoop, Runs, Received, Receivers
<1> QED BY <1>1, <1>2, <1>3

LEMMA CloseSharedFInv == ASSUME CInv, FInv, CloseShared PROVE FInv'
<1> USE Kinds DEF CInv, FInv
<1>1. receiver = 2 /\ receiver' = 3 /\ \A c \in Caller : ~quiet[c]
  BY Running DEF CloseShared, Settled, Received, Receivers
<1>2. \A k \in Client : clients'[k].from = clients[k].from
  BY ClientsStayWhatTheyAre DEF CloseShared, Closed
<1>3. Resolved'
  BY DEF CloseShared, Resolved, Reads
<1>4. Settled'
  BY <1>1 DEF CloseShared, Settled
<1>5. CacheIsCurrent'
  BY <1>1, Running DEF CloseShared, CacheIsCurrent
<1>6. SlotIsCurrent'
  BY <1>1, <1>2 DEF CloseShared, SlotIsCurrent, Cached
<1>7. EntriesAreCurrent'
  BY <1>1 DEF CloseShared, EntriesAreCurrent, perLoop
<1>8. CallsAreCurrent'
  BY <1>1 DEF CloseShared, CallsAreCurrent
<1> QED BY <1>3, <1>4, <1>5, <1>6, <1>7, <1>8

LEMMA InvalidateFInv == ASSUME CInv, FInv, Invalidate PROVE FInv'
<1> USE Kinds DEF CInv, FInv
<1>1. Resolved' /\ CacheIsCurrent' /\ CallsAreCurrent'
  BY DEF Invalidate, Resolved, CacheIsCurrent, CallsAreCurrent, Runs, Reads, call
<1>2. Settled'
  BY DEF Invalidate, Settled, shared, Runs, Receivers
<1>3. SlotIsCurrent'
  BY DEF Invalidate, SlotIsCurrent, shared, Runs, Receivers
<1>4. EntriesAreCurrent'
  BY DEF Invalidate, EntriesAreCurrent, Cached, Connected
<1> QED BY <1>1, <1>2, <1>3, <1>4

LEMMA CallFInv == ASSUME CInv, FInv, NEW c \in Caller, Call(c) PROVE FInv'
<1> USE Kinds DEF CInv, FInv
<1>1. pc[c] = "idle" /\ \E label \in {"key", "aget", "aclose", "done"} :
         Goto(c, label) /\ (c \in Coroutine => label \in {"aget", "done"})
  <2>1. c \in Thread \/ c \in Coroutine \/ c \in Closer
    BY DEF Caller, Async
  <2> QED BY <2>1, KindsAreDisjoint DEF Call, Async
<1>2. \A d \in Caller \ {c} : pc'[d] = pc[d] /\ quiet'[d] = quiet[d]
  BY <1>1 DEF Call, Goto, Located, Noted
<1>3. /\ pc'[c] \in {"key", "aget", "aclose", "done"}
      /\ (c \in Coroutine => pc'[c] \in {"aget", "done"})
      /\ seen[c] = None
  BY <1>1 DEF Goto, Located, Resolved, Reads
<1>4. CacheIsCurrent' /\ SlotIsCurrent' /\ EntriesAreCurrent'
  BY DEF Call, CacheIsCurrent, SlotIsCurrent, EntriesAreCurrent, Runs, settings, shared, perLoop
<1>5. Settled'
  BY DEF Call, Settled, settings, shared, Runs, Noted
<1>6. Resolved'
  BY <1>2, <1>3 DEF Call, Resolved, Reads, settings
<1>7. CallsAreCurrent'
  BY <1>2, <1>3 DEF Call, CallsAreCurrent, call, settings
<1> QED BY <1>4, <1>5, <1>6, <1>7

LEMMA ResolveFInv == ASSUME CInv, FInv, NEW c \in Caller, Resolve(c) PROVE FInv'
<1> USE Kinds DEF CInv, FInv
<1>1. Settled' /\ Resolved' /\ CacheIsCurrent' /\ SlotIsCurrent' /\ EntriesAreCurrent' /\
  CallsAreCurrent'
  BY DEF Resolve, Settled, Resolved, CacheIsCurrent, SlotIsCurrent, EntriesAreCurrent,
    CallsAreCurrent, Runs, Reads, settings, shared, perLoop, call
<1> QED BY <1>1

LEMMA PackFInv == ASSUME CInv, FInv, NEW c \in Sender, Pack(c) PROVE FInv'
<1> USE Kinds DEF CInv, FInv
<1>1. /\ \A d \in Caller : d # c => pc'[d] = pc[d]
      /\ pc[c] = "key" /\ pc'[c] \in {"get", "push", "raised"}
      /\ (c \in Thread => pc'[c] # "push") /\ (c \notin Thread => pc'[c] # "get")
  BY DEF Pack, Goto, Located, Label
<1>2. quiet[c] /\ ~lapsed' => Conf(c) = version
  BY ReadIsCurrent, Running DEF Pack, Settled
<1>3. Settled'
  BY DEF Pack, Settled, shared, Runs, ReadConf
<1>4. Resolved'
  BY DEF Pack, Resolved, Goto, ReadConf, Reads, Located, Called
<1>5. CacheIsCurrent'
  BY DEF Pack, CacheIsCurrent, Runs, ReadConf, Conf
<1>6. SlotIsCurrent'
  BY DEF Pack, SlotIsCurrent, shared, ReadConf
<1>7. EntriesAreCurrent'
  BY DEF Pack, EntriesAreCurrent, perLoop, ReadConf
<1>8. CallsAreCurrent'
  <2>1. \A d \in Sender : key'[d] = IF d = c THEN Conf(c) ELSE key[d]
    BY DEF Pack, Called
  <2>2. UNCHANGED <<held, clients, quiet, version>> /\ (lapsed => lapsed')
    BY DEF Pack, ReadConf
  <2>3. c \in Thread \/ c \in Coroutine
    BY DEF Sender
  <2> QED BY <1>1, <1>2, <2>1, <2>2, <2>3 DEF CallsAreCurrent
<1> QED BY <1>3, <1>4, <1>5, <1>6, <1>7, <1>8

LEMMA PushFInv == ASSUME CInv, FInv, NEW c \in Sender, Push(c) PROVE FInv'
<1> USE Kinds DEF CInv, FInv
<1>1. /\ \A d \in Caller : d # c => pc'[d] = pc[d]
      /\ pc[c] = "push" /\ pc'[c] = "pushing"
  BY DEF Push, Goto, Located, Label
<1>2. Settled' /\ CacheIsCurrent' /\ SlotIsCurrent' /\ EntriesAreCurrent'
  BY DEF Push, Settled, CacheIsCurrent, SlotIsCurrent, EntriesAreCurrent, Runs, settings,
    shared, perLoop
<1>3. Resolved'
  BY DEF Push, Resolved, settings, Goto, Reads
<1>4. CallsAreCurrent'
  BY <1>1 DEF Push, CallsAreCurrent, settings, call
<1> QED BY <1>2, <1>3, <1>4

LEMMA PushEndsFInv == ASSUME CInv, FInv, NEW c \in Sender, PushEnds(c) PROVE FInv'
<1> USE Kinds DEF CInv, FInv
<1>1. /\ \A d \in Caller : d # c => pc'[d] = pc[d]
      /\ pc[c] = "pushing" /\ pc'[c] \in {"key", "done", "raised"}
  BY DEF PushEnds, Goto, Located, Label
<1>2. Settled' /\ CacheIsCurrent' /\ SlotIsCurrent' /\ EntriesAreCurrent'
  BY DEF PushEnds, Settled, CacheIsCurrent, SlotIsCurrent, EntriesAreCurrent, Runs, settings,
    shared, perLoop
<1>3. Resolved'
  BY <1>1 DEF PushEnds, Resolved, settings, Reads
<1>4. CallsAreCurrent'
  BY <1>1 DEF PushEnds, CallsAreCurrent, settings
<1> QED BY <1>2, <1>3, <1>4

LEMMA CancelPushFInv == ASSUME CInv, FInv, NEW c \in Coroutine, CancelPush(c) PROVE FInv'
<1> USE Kinds DEF CInv, FInv
<1>1. /\ \A d \in Caller : d # c => pc'[d] = pc[d]
      /\ pc[c] = "pushing" /\ pc'[c] = "cancelled"
  BY DEF CancelPush, Goto, Located, Label
<1>2. Settled' /\ CacheIsCurrent' /\ SlotIsCurrent' /\ EntriesAreCurrent'
  BY DEF CancelPush, Settled, CacheIsCurrent, SlotIsCurrent, EntriesAreCurrent, Runs, settings,
    shared, perLoop
<1>3. Resolved'
  BY <1>1 DEF CancelPush, Resolved, settings, Reads
<1>4. CallsAreCurrent'
  BY <1>1 DEF CancelPush, CallsAreCurrent, settings, call
<1> QED BY <1>2, <1>3, <1>4

LEMMA GetSharedFInv == ASSUME CInv, FInv, NEW t \in Thread, GetShared(t) PROVE FInv'
<1> USE Kinds DEF CInv, FInv
<1>1. /\ \A d \in Caller : d # t => pc'[d] = pc[d]
      /\ pc[t] = "get" /\ pc'[t] \in {"push", "lock"}
  BY DEF GetShared, Goto, Located, Label
<1>2. \/ pc'[t] = "push" /\ slot # None /\ held' = [held EXCEPT ![t] = slot]
      \/ pc'[t] # "push" /\ UNCHANGED held
  BY <1>1 DEF GetShared, Goto, Holds, Located
<1>3. UNCHANGED <<clients, key, quiet, version, lapsed>>
  BY DEF GetShared, settings
<1>4. Settled' /\ CacheIsCurrent' /\ SlotIsCurrent' /\ EntriesAreCurrent'
  BY DEF GetShared, Settled, CacheIsCurrent, SlotIsCurrent, EntriesAreCurrent, Runs, settings,
    shared, perLoop
<1>5. Resolved'
  <2>1. UNCHANGED <<seen, quiet, version>>
    BY DEF GetShared, settings
  <2>2. seen[t] = None
    BY <1>1 DEF Resolved, Reads
  <2> QED BY <1>1, <2>1, <2>2 DEF Resolved, Reads
<1>6. CallsAreCurrent'
  <2>1. quiet[t] /\ ~lapsed /\ slot # None => clients[slot].from = version
    BY DEF Settled, SlotIsCurrent
  <2>2. pc'[t] = "push" => held'[t] = slot /\ slot # None
    BY <1>2 DEF Called
  <2>3. \A d \in Sender : d # t => held'[d] = held[d]
    BY <1>2 DEF Called
  <2> QED BY <1>1, <1>3, <2>1, <2>2, <2>3 DEF CallsAreCurrent
<1> QED BY <1>4, <1>5, <1>6

LEMMA LockSharedFInv == ASSUME CInv, FInv, NEW t \in Thread, LockShared(t) PROVE FInv'
<1> USE Kinds DEF CInv, FInv
<1>1. /\ \A d \in Caller : d # t => pc'[d] = pc[d]
      /\ pc[t] = "lock" /\ pc'[t] \in {"push", "url"}
  BY DEF LockShared, Goto, Located, Label
<1>2. \/ pc'[t] = "push" /\ slot # None /\ held' = [held EXCEPT ![t] = slot]
      \/ pc'[t] # "push" /\ UNCHANGED held
  BY <1>1 DEF LockShared, Goto, Holds, Located
<1>3. UNCHANGED <<clients, key, quiet, version, lapsed>>
  BY DEF LockShared, settings
<1>4. Settled' /\ CacheIsCurrent' /\ SlotIsCurrent' /\ EntriesAreCurrent'
  BY DEF LockShared, Settled, CacheIsCurrent, SlotIsCurrent, EntriesAreCurrent, Runs, settings,
    perLoop
<1>5. Resolved'
  <2>1. UNCHANGED <<seen, quiet, version>>
    BY DEF LockShared, settings
  <2>2. seen[t] = None
    BY <1>1 DEF Resolved, Reads
  <2> QED BY <1>1, <2>1, <2>2 DEF Resolved, Reads
<1>6. CallsAreCurrent'
  <2>1. quiet[t] /\ ~lapsed /\ slot # None => clients[slot].from = version
    BY DEF Settled, SlotIsCurrent
  <2>2. pc'[t] = "push" => held'[t] = slot /\ slot # None
    BY <1>2 DEF Called
  <2>3. \A d \in Sender : d # t => held'[d] = held[d]
    BY <1>2 DEF Called
  <2> QED BY <1>1, <1>3, <2>1, <2>2, <2>3 DEF CallsAreCurrent
<1> QED BY <1>4, <1>5, <1>6

LEMMA BuildSharedFInv == ASSUME CInv, FInv, NEW t \in Thread, BuildShared(t) PROVE FInv'
<1> USE Kinds DEF CInv, FInv
<1>1. /\ \A d \in Caller : d # t => pc'[d] = pc[d]
      /\ pc[t] = "url" /\ pc'[t] = "push"
  BY DEF BuildShared, Goto, Located, Label
<1>2. Conf(t) \in Version /\ Build(Conf(t), None)
  BY ConfIsAVersion DEF BuildShared, Async
<1>3. /\ Fresh \in Client /\ clients[Fresh].state = "unmade" /\ clients'[Fresh].from = Conf(t)
      /\ \A k \in Client : k # Fresh => clients'[k] = clients[k]
  BY <1>2, BuiltClient
<1>4. /\ ~lapsed' /\ receiver # 1 => Conf(t) = version
      /\ UNCHANGED <<version, receiver, quiet, closing>> /\ (lapsed => lapsed')
  BY ReadIsCurrent, Running DEF BuildShared, ReadConf, shared
<1>5. /\ \A d \in Caller : held[d] # Fresh
      /\ slot # Fresh /\ \A l \in Loop : entries[l] # NoEntry => entries[l].client \in Client \ {Fresh}
  BY <1>3, NoneIsNothing DEF Placed, Connected
<1>6. \A d \in Caller : held'[d] = IF d = t THEN Fresh ELSE held[d]
  BY DEF BuildShared, Holds, Called
<1>7. Settled'
  BY <1>4 DEF BuildShared, Settled, Runs
<1>8. Resolved'
  BY DEF BuildShared, Resolved, Goto, ReadConf, Reads, Called
<1>9. CacheIsCurrent'
  BY DEF BuildShared, CacheIsCurrent, Runs, ReadConf, Conf
<1>10. SlotIsCurrent'
  <2>1. slot' = Fresh
    BY DEF BuildShared
  <2>2. ~lapsed' /\ (receiver' \in {0, 3} \/ closing' # None) => Conf(t) = version
    BY <1>4, Running DEF Settled
  <2> QED BY <1>3, <1>4, <2>1, <2>2 DEF SlotIsCurrent
<1>11. EntriesAreCurrent'
  BY <1>3, <1>4, <1>5 DEF BuildShared, EntriesAreCurrent, perLoop
<1>12. CallsAreCurrent'
  <2>1. \A d \in Sender : pc[d] \in {"push", "pushing"} \/ (d \in Coroutine /\ pc[d] \in {"key", "stale"}) =>
          held[d] \in Client \ {Fresh}
    BY <1>5 DEF Equipped, Called
  <2>2. quiet[t] => receiver # 1
    BY DEF Settled
  <2>3. UNCHANGED key
    BY DEF BuildShared
  <2> QED BY <1>1, <1>3, <1>4, <1>5, <1>6, <2>1, <2>2, <2>3 DEF CallsAreCurrent
<1> QED BY <1>7, <1>8, <1>9, <1>10, <1>11, <1>12

LEMMA GetOnLoopFInv == ASSUME CInv, FInv, NEW c \in Coroutine, GetOnLoop(c) PROVE FInv'
<1> USE Kinds DEF CInv, FInv
<1>1. /\ \A d \in Caller : d # c => pc'[d] = pc[d]
      /\ pc[c] = "aget" /\ pc'[c] \in {"key", "build"}
  BY DEF GetOnLoop, Goto, Located, Label
<1>2. On[c] \in Loop
  BY EveryCoroutineHasALoop DEF Async
<1>3. pc'[c] = "key" => /\ entries[On[c]] # NoEntry /\ entries[On[c]].generation = generation
                         /\ held' = [held EXCEPT ![c] = entries[On[c]].client]
  BY <1>1 DEF GetOnLoop, Goto, Holds, Located
<1>4. /\ UNCHANGED <<clients, key, quiet, version, lapsed>>
      /\ \A d \in Caller : d # c => held'[d] = held[d]
  BY DEF GetOnLoop, Holds, Called, settings
<1>5. Settled' /\ CacheIsCurrent' /\ SlotIsCurrent'
  BY DEF GetOnLoop, Settled, CacheIsCurrent, SlotIsCurrent, Runs, settings, shared
<1>6. Resolved'
  <2>1. UNCHANGED <<seen, quiet, version>>
    BY DEF GetOnLoop, settings
  <2>2. seen[c] = None
    BY <1>1 DEF Resolved, Reads
  <2> QED BY <1>1, <2>1, <2>2 DEF Resolved, Reads
<1>7. EntriesAreCurrent'
  BY DEF GetOnLoop, EntriesAreCurrent, settings, Swept
<1>8. CallsAreCurrent'
  <2>1. quiet[c] /\ ~lapsed /\ pc'[c] = "key" => clients[entries[On[c]].client].from = version
    BY <1>2, <1>3 DEF Settled, EntriesAreCurrent
  <2>2. pc'[c] = "key" => held'[c] = entries[On[c]].client
    BY <1>3 DEF Called
  <2> QED BY <1>1, <1>4, <2>1, <2>2 DEF CallsAreCurrent
<1> QED BY <1>5, <1>6, <1>7, <1>8

LEMMA BuildOnLoopFInv == ASSUME CInv, FInv, NEW c \in Coroutine, BuildOnLoop(c) PROVE FInv'
<1> USE Kinds DEF CInv, FInv
<1>1. /\ \A d \in Caller : d # c => pc'[d] = pc[d]
      /\ pc[c] = "build" /\ pc'[c] \in {"key", "stale"}
  BY DEF BuildOnLoop, Goto, Located, Label
<1>2. Conf(c) \in Version /\ Build(Conf(c), On[c])
  BY ConfIsAVersion, EveryCoroutineHasALoop DEF BuildOnLoop, Async
<1>3. /\ Fresh \in Client /\ clients[Fresh].state = "unmade" /\ clients'[Fresh].from = Conf(c)
      /\ \A k \in Client : k # Fresh => clients'[k] = clients[k]
  BY <1>2, BuiltClient, EveryCoroutineHasALoop DEF Async
<1>4. /\ ~lapsed' /\ receiver # 1 => Conf(c) = version
      /\ UNCHANGED <<version, receiver, quiet, closing>> /\ (lapsed => lapsed')
  BY ReadIsCurrent, Running DEF BuildOnLoop, ReadConf, shared
<1>5. /\ \A d \in Caller : held[d] # Fresh
      /\ slot # Fresh /\ \A l \in Loop : entries[l] # NoEntry => entries[l].client \in Client \ {Fresh}
  BY <1>3, NoneIsNothing DEF Placed, Connected
<1>6. \A d \in Caller : held'[d] = IF d = c THEN Fresh ELSE held[d]
  BY DEF BuildOnLoop, Holds, Called
<1>7. Settled'
  BY <1>4 DEF BuildOnLoop, Settled, Runs
<1>8. Resolved'
  BY DEF BuildOnLoop, Resolved, Goto, ReadConf, Reads, Called
<1>9. CacheIsCurrent'
  BY DEF BuildOnLoop, CacheIsCurrent, Runs, ReadConf, Conf
<1>10. SlotIsCurrent'
  BY <1>3, <1>4, <1>5 DEF BuildOnLoop, SlotIsCurrent, shared, Cached
<1>11. EntriesAreCurrent'
  <2>1. \A l \in Loop : entries'[l] = IF l = On[c] THEN [generation |-> generation, client |-> Fresh]
                                               ELSE entries[l]
    BY DEF BuildOnLoop, Connected
  <2> QED BY <1>3, <1>4, <1>5, <2>1 DEF BuildOnLoop, EntriesAreCurrent, Cached
<1>12. CallsAreCurrent'
  <2>1. \A d \in Sender : pc[d] \in {"push", "pushing"} \/ (d \in Coroutine /\ pc[d] \in {"key", "stale"}) =>
          held[d] \in Client \ {Fresh}
    BY <1>5 DEF Equipped, Called
  <2>2. quiet[c] => receiver # 1
    BY DEF Settled
  <2>3. UNCHANGED key
    BY DEF BuildOnLoop
  <2> QED BY <1>1, <1>3, <1>4, <1>5, <1>6, <2>1, <2>2, <2>3 DEF CallsAreCurrent
<1> QED BY <1>7, <1>8, <1>9, <1>10, <1>11, <1>12

LEMMA CloseStaleFInv == ASSUME CInv, FInv, NEW c \in Async, CloseStale(c) PROVE FInv'
<1> USE Kinds DEF CInv, FInv
<1>1. /\ \A d \in Caller : d # c => pc'[d] = pc[d]
      /\ pc[c] = "stale" /\ pc'[c] \in {"key", "done"} /\ (c \in Closer => pc'[c] = "done")
  BY DEF CloseStale, Goto, Located, Label
<1>2. \A k \in Client : clients'[k].from = clients[k].from
  BY ClientsStayWhatTheyAre DEF CloseStale, Closed
<1>3. Settled' /\ CacheIsCurrent'
  BY DEF CloseStale, Settled, CacheIsCurrent, Runs, settings, shared
<1>4. Resolved'
  BY DEF CloseStale, Resolved, settings, Goto, Reads
<1>5. SlotIsCurrent'
  BY <1>2 DEF CloseStale, SlotIsCurrent, settings, shared, Cached
<1>6. EntriesAreCurrent'
  <2>1. \A l \in Loop : entries[l] # NoEntry => entries[l].client \in Client
    BY DEF Connected
  <2> QED BY <1>2, <2>1 DEF CloseStale, EntriesAreCurrent, settings, perLoop
<1>7. CallsAreCurrent'
  <2>1. \A d \in Sender : pc[d] \in {"push", "pushing"} \/ (d \in Coroutine /\ pc[d] \in {"key", "stale"}) =>
          held[d] \in Client
    BY DEF Equipped, Called
  <2>2. UNCHANGED <<held, key, quiet, version, lapsed>>
    BY DEF CloseStale, settings
  <2> QED BY <1>1, <1>2, <2>1, <2>2 DEF CallsAreCurrent
<1> QED BY <1>3, <1>4, <1>5, <1>6, <1>7

LEMMA CloseBrokenOffFInv == ASSUME CInv, FInv, NEW c \in Async, CloseBrokenOff(c) PROVE FInv'
<1> USE Kinds DEF CInv, FInv
<1>1. /\ \A d \in Caller : d # c => pc'[d] = pc[d]
      /\ pc[c] = "stale" /\ pc'[c] \in {"key", "raised", "cancelled"}
      /\ (c \in Closer => pc'[c] # "key")
  BY DEF CloseBrokenOff, Goto, Located, Label
<1>2. \A k \in Client : clients'[k].from = clients[k].from
  BY ClientsStayWhatTheyAre DEF CloseBrokenOff, Closed
<1>3. Settled' /\ CacheIsCurrent'
  BY DEF CloseBrokenOff, Settled, CacheIsCurrent, Runs, settings, shared
<1>4. Resolved'
  BY <1>1 DEF CloseBrokenOff, Resolved, settings, Reads
<1>5. SlotIsCurrent'
  BY <1>2 DEF CloseBrokenOff, SlotIsCurrent, settings, shared, Cached
<1>6. EntriesAreCurrent'
  <2>1. \A l \in Loop : entries[l] # NoEntry => entries[l].client \in Client
    BY DEF Connected
  <2> QED BY <1>2, <2>1 DEF CloseBrokenOff, EntriesAreCurrent, settings, perLoop
<1>7. CallsAreCurrent'
  <2>1. \A d \in Sender : pc[d] \in {"push", "pushing"} \/ (d \in Coroutine /\ pc[d] \in {"key", "stale"}) =>
          held[d] \in Client
    BY DEF Equipped, Called
  <2>2. UNCHANGED <<held, key, quiet, version, lapsed>>
    BY DEF CloseBrokenOff, settings
  <2> QED BY <1>1, <1>2, <2>1, <2>2 DEF CallsAreCurrent
<1> QED BY <1>3, <1>4, <1>5, <1>6, <1>7

LEMMA ForgetFInv == ASSUME CInv, FInv, NEW c \in Closer, Forget(c) PROVE FInv'
<1> USE Kinds DEF CInv, FInv
<1>1. /\ \A d \in Caller : d # c => pc'[d] = pc[d]
      /\ pc[c] = "aclose" /\ pc'[c] \in {"stale", "done"}
  BY DEF Forget, Goto, Located, Label
<1>2. Settled' /\ CacheIsCurrent' /\ SlotIsCurrent' /\ EntriesAreCurrent'
  BY DEF Forget, Settled, CacheIsCurrent, SlotIsCurrent, EntriesAreCurrent, Runs, settings,
    shared
<1>3. Resolved'
  BY DEF Forget, Resolved, settings, Goto, Reads
<1>4. CallsAreCurrent'
  BY <1>1 DEF Forget, CallsAreCurrent, settings
<1> QED BY <1>2, <1>3, <1>4

LEMMA CloseLoopFInv == ASSUME CInv, FInv, NEW l \in Loop, CloseLoop(l) PROVE FInv'
<1> USE Kinds DEF CInv, FInv
<1>1. Settled' /\ Resolved' /\ CacheIsCurrent' /\ SlotIsCurrent' /\ EntriesAreCurrent' /\
  CallsAreCurrent'
  BY DEF CloseLoop, Settled, Resolved, CacheIsCurrent, SlotIsCurrent, EntriesAreCurrent,
    CallsAreCurrent, Runs, Reads, settings, shared, call
<1> QED BY <1>1

LEMMA InitFInv == Init => FInv
<1> SUFFICES ASSUME Init PROVE FInv
  OBVIOUS
<1>1. Settled /\ Resolved /\ CacheIsCurrent
  BY DEF Init, Settled, Resolved, CacheIsCurrent
<1>2. SlotIsCurrent /\ EntriesAreCurrent /\ CallsAreCurrent
  BY Kinds DEF Init, SlotIsCurrent, EntriesAreCurrent, CallsAreCurrent
<1> QED BY <1>1, <1>2 DEF FInv

LEMMA NextFInv == ASSUME CInv, FInv, [Next]_vars PROVE FInv'
<1>1. ASSUME UNCHANGED vars PROVE FInv'
  BY <1>1 DEF vars, settings, shared, perLoop, call, FInv, Settled, Resolved, Reads, Runs,
    CacheIsCurrent, SlotIsCurrent, EntriesAreCurrent, CallsAreCurrent
<1>2. CASE ChangeSettings \/ ResetSettings \/ ResetShared \/ CloseShared \/ Invalidate
  BY <1>2, ChangeSettingsFInv, ResetSettingsFInv, ResetSharedFInv, CloseSharedFInv, InvalidateFInv
<1>3. ASSUME NEW c \in Caller, Call(c) \/ Resolve(c) PROVE FInv'
  BY <1>3, CallFInv, ResolveFInv
<1>4. ASSUME NEW c \in Sender, Pack(c) \/ Push(c) \/ PushEnds(c) PROVE FInv'
  BY <1>4, PackFInv, PushFInv, PushEndsFInv
<1>5. ASSUME NEW t \in Thread, GetShared(t) \/ LockShared(t) \/ BuildShared(t) PROVE FInv'
  BY <1>5, GetSharedFInv, LockSharedFInv, BuildSharedFInv
<1>6. ASSUME NEW c \in Coroutine, GetOnLoop(c) \/ BuildOnLoop(c) \/ CancelPush(c) PROVE FInv'
  BY <1>6, GetOnLoopFInv, BuildOnLoopFInv, CancelPushFInv
<1>7. ASSUME NEW c \in Async, CloseStale(c) \/ CloseBrokenOff(c) PROVE FInv'
  BY <1>7, CloseStaleFInv, CloseBrokenOffFInv
<1>8. ASSUME NEW c \in Closer, Forget(c) PROVE FInv'
  BY <1>8, ForgetFInv
<1>9. ASSUME NEW l \in Loop, CloseLoop(l) PROVE FInv'
  BY <1>9, CloseLoopFInv
<1> QED BY <1>1, <1>2, <1>3, <1>4, <1>5, <1>6, <1>7, <1>8, <1>9 DEF Next

-----------------------------------------------------------------------------
(***************************************************************************)
(* Who may close a client under a call.                                    *)
(***************************************************************************)
\* What a cache hands out is open.
CachedAreOpen ==
  /\ slot # None => clients[slot].state = "open"
  /\ \A l \in Loop : entries[l] # NoEntry => clients[entries[l].client].state = "open"

\* What is about to be closed is in no cache: the shared clients are of no loop,
\* and the others of the loop of whoever took them out.
Apart ==
  /\ slot # None => clients[slot].on = None
  /\ closing # None =>
       closing # slot /\ clients[closing].on = None /\ clients[closing].state # "unmade"
  /\ \A c \in Async : old[c] # None =>
       clients[old[c]].on = On[c] /\ old[c] # entries[On[c]].client

\* A call runs on a loop that is not closed; a client is built for a loop that has
\* none of this generation.
OnLoops ==
  /\ \A c \in Async : pc[c] \notin {"absent", "idle"} \cup Over => On[c] \notin gone
  /\ guard # None => entries[On[guard]].generation # generation

\* A quiet thread that writes has the client of the slot, a quiet coroutine the one
\* of its loop, unless an aclose() took it.
Serves(c) ==
  c \in Coroutine /\ entries[On[c]] = [generation |-> generation, client |-> held[c]]
InCall == {"key", "stale", "push", "pushing"}

HeldAreCached ==
  /\ \A t \in Thread : quiet[t] /\ pc[t] = "push" => held[t] = slot
  /\ \A c \in Coroutine : quiet[c] /\ pc[c] \in InCall => Serves(c) \/ AcloseBeside(c)

OInv == CachedAreOpen /\ Apart /\ OnLoops /\ HeldAreCached

\* An aclose() that took the client stays beside the coroutines of its loop.
LEMMA AcloseStays ==
  ASSUME CInv, [Next]_vars, NEW c \in Coroutine, AcloseBeside(c)
  PROVE  AcloseBeside(c)'
<1>1. PICK z \in Closer : On[z] = On[c] /\ pc[z] \notin {"absent", "idle", "aclose"}
  BY DEF AcloseBeside
<1>2. z \in Caller /\ pc \in [Caller -> Label]
  BY Kinds DEF CInv, Located
<1>3. pc'[z] \notin {"absent", "idle", "aclose"}
  BY <1>1, <1>2
     DEF Next, vars, Goto, ChangeSettings, ResetSettings, ResetShared, CloseShared, Invalidate, Call,
         Resolve, Pack, Push, PushEnds, CancelPush, GetShared, LockShared, BuildShared, GetOnLoop,
         BuildOnLoop, CloseStale, CloseBrokenOff, Forget, CloseLoop
<1> QED BY <1>1, <1>3 DEF AcloseBeside

\* What the invariants before say of the clients the caches hold.
LEMMA CachedClients ==
  ASSUME CInv
  PROVE  /\ \A l \in Loop : entries[l] # NoEntry =>
              /\ entries[l].client \in Client /\ clients[entries[l].client].on = l
              /\ entries[l].generation \in Nat /\ clients[entries[l].client].state # "unmade"
         /\ \A l \in Loop : entries[l].client = None <=> entries[l] = NoEntry
         /\ \A c \in Async : On[c] \in Loop
         /\ None \notin Loop /\ None \notin Client /\ None \notin Nat
<1>1. None \notin Loop /\ None \notin Client /\ None \notin Nat
  BY NoneIsNothing DEF Client
<1>2. \A l \in Loop : entries[l] # NoEntry =>
        entries[l].client \in Client /\ clients[entries[l].client].on = l /\ entries[l].generation \in Nat
  BY DEF CInv, Connected, Placed
<1>3. \A k \in Client : clients[k].state = "unmade" => clients[k].on = None
  BY DEF CInv, Placed
<1>4. \A l \in Loop : entries[l].client = None <=> entries[l] = NoEntry
  BY <1>1, <1>2 DEF NoEntry
<1> QED BY <1>1, <1>2, <1>3, <1>4, EveryCoroutineHasALoop

\* A step that leaves the connections, and who has which client, as they are.
LEMMA ConnectionsStay ==
  ASSUME CInv, OInv,
         UNCHANGED <<clients, slot, closing, entries, generation, guard, gone, held, old>>,
         \A c \in Async : pc'[c] \notin {"absent", "idle"} \cup Over =>
           pc[c] \notin {"absent", "idle"} \cup Over \/ On[c] \notin gone,
         \A t \in Thread : quiet'[t] /\ pc'[t] = "push" => quiet[t] /\ pc[t] = "push",
         \A c \in Coroutine : quiet'[c] /\ pc'[c] \in InCall => quiet[c] /\ pc[c] \in InCall,
         \A c \in Coroutine : AcloseBeside(c) => AcloseBeside(c)'
  PROVE  OInv'
<1>1. CachedAreOpen' /\ Apart'
  BY DEF OInv, CachedAreOpen, Apart
<1>2. OnLoops'
  BY DEF OInv, OnLoops
<1>3. HeldAreCached'
  BY DEF OInv, HeldAreCached, Serves
<1> QED BY <1>1, <1>2, <1>3 DEF OInv

LEMMA QuietOInv ==
  ASSUME CInv, OInv, [Next]_vars,
         \/ ChangeSettings \/ ResetSettings \/ UNCHANGED vars
         \/ \E c \in Caller : Call(c) \/ Resolve(c)
         \/ \E c \in Sender : Pack(c) \/ PushEnds(c)
         \/ \E c \in Coroutine : CancelPush(c)
  PROVE  OInv'
<1> USE Kinds
<1>0. pc \in [Caller -> Label] /\ quiet \in [Caller -> BOOLEAN]
  BY DEF CInv, Located, Noted
<1>1. UNCHANGED <<clients, slot, closing, entries, generation, guard, gone, held, old>>
  BY DEF ChangeSettings, ResetSettings, Call, Resolve, Pack, PushEnds, CancelPush, vars, shared,
         perLoop, call
<1>2. \A c \in Coroutine : AcloseBeside(c) => AcloseBeside(c)'
  BY AcloseStays
<1>3. CASE UNCHANGED pc /\ \A c \in Caller : quiet'[c] => quiet[c]
  BY <1>1, <1>2, <1>3, ConnectionsStay
<1>4. ASSUME NEW c \in Caller, Call(c) PROVE OInv'
  <2>1. /\ \A d \in Caller : d # c => pc'[d] = pc[d] /\ quiet'[d] = quiet[d]
        /\ (c \in Coroutine => pc'[c] \notin InCall) /\ pc'[c] # "push"
        /\ (c \in Async => On[c] \notin gone)
    <3>1. \E label \in {"key", "aget", "aclose", "done"} :
            pc' = [pc EXCEPT ![c] = label] /\ (c \in Coroutine => label # "key")
      <4>1. c \in Thread \/ c \in Coroutine \/ c \in Closer
        BY DEF Caller, Async
      <4> QED BY <1>4, <4>1, KindsAreDisjoint DEF Call, Goto, Async
    <3>2. \A d \in Caller : d # c => quiet'[d] = quiet[d]
      BY <1>0, <1>4 DEF Call
    <3>3. c \in Async => On[c] \notin gone
      BY <1>4 DEF Call
    <3> QED BY <1>0, <3>1, <3>2, <3>3 DEF InCall
  <2> QED BY <1>1, <1>2, <2>1, ConnectionsStay
<1>5. ASSUME NEW c \in Sender, NEW label, pc' = [pc EXCEPT ![c] = label], UNCHANGED quiet,
             pc[c] \in {"key", "pushing"},
             c \in Thread => label # "push"
      PROVE  OInv'
  <2>1. \A d \in Caller : quiet'[d] = quiet[d] /\ (d # c => pc'[d] = pc[d])
    BY <1>0, <1>5
  <2>2. pc[c] \notin {"absent", "idle"} \cup Over /\ pc[c] \in InCall /\ pc'[c] = label
    BY <1>0, <1>5 DEF InCall, Over
  <2> QED BY <1>1, <1>2, <1>5, <2>1, <2>2, ConnectionsStay
<1>6. ASSUME NEW c \in Sender, Pack(c) PROVE OInv'
  <2>1. \E label : pc' = [pc EXCEPT ![c] = label] /\ (c \in Thread => label # "push")
    BY <1>6 DEF Pack, Goto
  <2>2. pc[c] = "key" /\ UNCHANGED quiet
    BY <1>6 DEF Pack
  <2> QED BY <2>1, <2>2, <1>5
<1>7. ASSUME NEW c \in Sender, PushEnds(c) PROVE OInv'
  <2>1. \E label : pc' = [pc EXCEPT ![c] = label] /\ label # "push"
    BY <1>7 DEF PushEnds, Goto
  <2>2. pc[c] = "pushing" /\ UNCHANGED quiet
    BY <1>7 DEF PushEnds
  <2> QED BY <2>1, <2>2, <1>5
<1>8. ASSUME NEW c \in Coroutine, CancelPush(c) PROVE OInv'
  BY <1>8, <1>5 DEF CancelPush, Goto
<1>9. CASE ChangeSettings \/ ResetSettings \/ UNCHANGED vars \/ \E c \in Caller : Resolve(c)
  BY <1>0, <1>3, <1>9 DEF ChangeSettings, ResetSettings, vars, Resolve
<1> QED BY <1>4, <1>6, <1>7, <1>8, <1>9

\* While a receiver runs no call is quiet.
LEMMA Unquiet ==
  ASSUME CInv, FInv, receiver # 0 \/ closing # None
  PROVE  \A c \in Caller : ~quiet[c]
BY Running DEF CInv, FInv, Settled

LEMMA ResetSharedOInv == ASSUME CInv, FInv, OInv, ResetShared PROVE OInv'
<1> USE Kinds
<1>1. /\ UNCHANGED <<clients, entries, generation, guard, gone, held, old, pc, quiet>>
      /\ slot' = None /\ closing' = slot /\ closing = None /\ receiver # 0
  BY Running DEF ResetShared, perLoop, call, CInv
<1>2. \A c \in Caller : ~quiet[c]
  BY <1>1, Unquiet
<1>3. slot # None => slot \in Client /\ clients[slot].state # "unmade"
  BY DEF CInv, Cached, Placed
<1>4. CachedAreOpen' /\ Apart' /\ OnLoops'
  BY <1>1, <1>3 DEF OInv, CachedAreOpen, Apart, OnLoops
<1>5. HeldAreCached'
  BY <1>1, <1>2 DEF HeldAreCached
<1> QED BY <1>4, <1>5 DEF OInv

LEMMA CloseSharedOInv == ASSUME CInv, FInv, OInv, CloseShared PROVE OInv'
<1> USE Kinds
<1>1. /\ UNCHANGED <<slot, entries, generation, guard, gone, held, old, pc, quiet>>
      /\ clients' = [clients EXCEPT ![closing].state = "closed"] /\ closing # None /\ closing' = None
  BY DEF CloseShared, Closed, perLoop, call
<1>2. \A c \in Caller : ~quiet[c]
  BY <1>1, Unquiet
<1>3. \A k \in Client : /\ clients'[k].on = clients[k].on
                        /\ clients'[k].state = IF k = closing THEN "closed" ELSE clients[k].state
  BY <1>1, ClientsStayWhatTheyAre DEF CInv
<1>4. CachedAreOpen'
  <2>1. slot # None => slot \in Client /\ slot # closing
    BY <1>1 DEF CInv, Cached, OInv, Apart
  <2>2. \A l \in Loop : entries[l] # NoEntry => entries[l].client \in Client \ {closing}
    BY <1>1, CachedClients DEF OInv, Apart
  <2> QED BY <1>1, <1>3, <2>1, <2>2 DEF OInv, CachedAreOpen
<1>5. Apart'
  <2>1. slot \in Client \cup {None} /\ old \in [Caller -> Client \cup {None}]
    BY DEF CInv, Cached, Called
  <2> QED BY <1>1, <1>3, <2>1 DEF OInv, Apart
<1>6. OnLoops'
  BY <1>1 DEF OInv, OnLoops
<1>7. HeldAreCached'
  BY <1>1, <1>2 DEF HeldAreCached
<1> QED BY <1>4, <1>5, <1>6, <1>7 DEF OInv

LEMMA InvalidateOInv == ASSUME CInv, FInv, OInv, Invalidate PROVE OInv'
<1> USE Kinds
<1>1. /\ UNCHANGED <<clients, slot, closing, entries, guard, gone, held, old, pc, quiet>>
      /\ guard = None /\ receiver # 0
  BY Running DEF Invalidate, shared, call, CInv
<1>2. \A c \in Caller : ~quiet[c]
  BY <1>1, Unquiet
<1>3. CachedAreOpen' /\ Apart' /\ OnLoops'
  BY <1>1 DEF OInv, CachedAreOpen, Apart, OnLoops
<1>4. HeldAreCached'
  BY <1>1, <1>2 DEF HeldAreCached
<1> QED BY <1>3, <1>4 DEF OInv

LEMMA PushOInv == ASSUME CInv, OInv, [Next]_vars, NEW c \in Sender, Push(c) PROVE OInv'
<1> USE Kinds
<1>1. /\ UNCHANGED <<slot, closing, entries, generation, guard, gone, held, old, quiet>>
      /\ clients' = [clients EXCEPT ![held[c]].state = "open"]
      /\ pc[c] = "push" /\ pc' = [pc EXCEPT ![c] = "pushing"]
  BY DEF Push, Goto, shared, perLoop, call
<1>2. pc \in [Caller -> Label] /\ held[c] \in Client
  BY <1>1 DEF CInv, Located, Equipped, Called
<1>3. \A k \in Client : /\ clients'[k].on = clients[k].on
                        /\ clients'[k].state = IF k = held[c] THEN "open" ELSE clients[k].state
  BY <1>1, ClientsStayWhatTheyAre DEF CInv
<1>4. /\ slot \in Client \cup {None} /\ closing \in Client \cup {None}
      /\ old \in [Caller -> Client \cup {None}] /\ clients[held[c]].state # "unmade"
  BY <1>2 DEF CInv, Cached, Called, Placed
<1>5. CachedAreOpen'
  BY <1>1, <1>3, <1>4, CachedClients DEF OInv, CachedAreOpen
<1>6. Apart'
  BY <1>1, <1>3, <1>4 DEF OInv, Apart
<1>7. OnLoops'
  BY <1>1, <1>2 DEF OInv, OnLoops, Over
<1>8. HeldAreCached'
  BY <1>1, <1>2, AcloseStays DEF OInv, HeldAreCached, Serves, InCall
<1> QED BY <1>5, <1>6, <1>7, <1>8 DEF OInv

LEMMA GetSharedOInv ==
  ASSUME CInv, OInv, [Next]_vars, NEW t \in Thread, GetShared(t) \/ LockShared(t) PROVE OInv'
<1> USE Kinds
<1>1. /\ UNCHANGED <<clients, slot, closing, entries, generation, guard, gone, old, quiet>>
      /\ \E label \in {"push", "lock", "url"} :
           /\ pc' = [pc EXCEPT ![t] = label]
           /\ \/ label # "push" /\ UNCHANGED held
              \/ held' = [held EXCEPT ![t] = slot]
  BY DEF GetShared, LockShared, Goto, Holds, shared, perLoop
<1>2. pc \in [Caller -> Label] /\ held \in [Caller -> Client \cup {None}]
  BY DEF CInv, Located, Called
<1>3. CachedAreOpen' /\ Apart'
  BY <1>1 DEF OInv, CachedAreOpen, Apart
<1>4. \A d \in Caller : d # t => pc'[d] = pc[d] /\ held'[d] = held[d]
  BY <1>1, <1>2
<1>5. OnLoops'
  <2>1. t \notin Async
    BY KindsAreDisjoint
  <2> QED BY <1>1, <1>4, <2>1 DEF OInv, OnLoops
<1>6. HeldAreCached'
  <2>1. pc'[t] = "push" => held'[t] = slot
    BY <1>1, <1>2
  <2> QED BY <1>1, <1>4, <2>1, AcloseStays DEF OInv, HeldAreCached, Serves
<1> QED BY <1>3, <1>5, <1>6 DEF OInv

LEMMA BuildSharedOInv == ASSUME CInv, OInv, [Next]_vars, NEW t \in Thread, BuildShared(t) PROVE OInv'
<1> USE Kinds
<1>1. /\ UNCHANGED <<closing, entries, generation, guard, gone, old, quiet>>
      /\ slot' = Fresh /\ held' = [held EXCEPT ![t] = Fresh] /\ pc' = [pc EXCEPT ![t] = "push"]
      /\ pc[t] = "url"
  BY DEF BuildShared, Goto, Holds, shared, perLoop
<1>2. /\ pc \in [Caller -> Label] /\ held \in [Caller -> Client \cup {None}]
      /\ closing \in Client \cup {None} /\ old \in [Caller -> Client \cup {None}]
  BY DEF CInv, Located, Called, Cached
<1>3. /\ Fresh \in Client /\ clients[Fresh].state = "unmade" /\ clients'[Fresh].on = None
      /\ \A k \in Client : k # Fresh => clients'[k] = clients[k]
  <2>1. Conf(t) \in Version /\ Build(Conf(t), None)
    BY ConfIsAVersion DEF BuildShared, CInv
  <2> QED BY <2>1, BuiltClient DEF CInv
<1>4. clients'[Fresh].state = "open"
  BY <1>3 DEF BuildShared, Build, CInv, Connected
<1>5. /\ \A l \in Loop : entries[l] # NoEntry => entries[l].client \in Client \ {Fresh}
      /\ slot = None /\ \A d \in Caller : held[d] # Fresh
      /\ \A d \in Async : old[d] # Fresh
  <2>1. slot = None
    BY <1>1, NoneIsNothing DEF CInv, Located, Placed, Caller
  <2>2. \A d \in Async : old[d] # None => clients[old[d]].on # None
    BY CachedClients DEF OInv, Apart
  <2>3. clients[Fresh].on = None /\ Fresh # None
    BY <1>3, CachedClients DEF CInv, Placed
  <2> QED BY <1>3, <2>1, <2>2, <2>3, CachedClients DEF CInv, Placed
<1>6. CachedAreOpen'
  BY <1>1, <1>3, <1>4, <1>5 DEF OInv, CachedAreOpen
<1>7. Apart'
  <2>1. closing # None => closing \in Client \ {Fresh}
    BY <1>2, <1>3 DEF OInv, Apart
  <2> QED BY <1>1, <1>2, <1>3, <1>5, <2>1 DEF OInv, Apart
<1>8. \A d \in Caller : d # t => pc'[d] = pc[d] /\ held'[d] = held[d]
  BY <1>1, <1>2
<1>9. OnLoops'
  <2>1. t \notin Async
    BY KindsAreDisjoint
  <2> QED BY <1>1, <1>8, <2>1 DEF OInv, OnLoops
<1>10. HeldAreCached'
  <2>1. \A d \in Thread : quiet[d] /\ pc[d] = "push" => held[d] # None
    BY DEF CInv, Equipped
  <2>2. \A d \in Thread \ {t} : ~(quiet[d] /\ pc[d] = "push")
    BY <1>5, <2>1 DEF OInv, HeldAreCached
  <2>3. held'[t] = slot'
    BY <1>1, <1>2
  <2> QED BY <1>1, <1>8, <2>2, <2>3, AcloseStays DEF OInv, HeldAreCached, Serves
<1> QED BY <1>6, <1>7, <1>9, <1>10 DEF OInv

LEMMA GetOnLoopOInv ==
  ASSUME CInv, FInv, OInv, [Next]_vars, NEW c \in Coroutine, GetOnLoop(c) PROVE OInv'
<1> USE Kinds
<1>1. /\ UNCHANGED <<clients, slot, closing, generation, gone, old, quiet>>
      /\ entries' = Swept /\ pc[c] = "aget"
  BY DEF GetOnLoop, shared
<1>2. \/ /\ pc' = [pc EXCEPT ![c] = "key"] /\ entries[On[c]] # NoEntry
         /\ entries[On[c]].generation = generation
         /\ held' = [held EXCEPT ![c] = entries[On[c]].client] /\ UNCHANGED guard
      \/ /\ pc' = [pc EXCEPT ![c] = "build"]
         /\ entries[On[c]].generation # generation \/ entries[On[c]] = NoEntry
         /\ UNCHANGED held /\ guard' = c
  BY DEF GetOnLoop, Goto, Holds
<1>3. pc \in [Caller -> Label] /\ held \in [Caller -> Client \cup {None}] /\ generation \in Nat
      /\ guard = None
  BY DEF CInv, Located, Called, Cached, GetOnLoop
<1>4. \A d \in Caller : d # c => pc'[d] = pc[d] /\ held'[d] = held[d]
  BY <1>2, <1>3
<1>5. \A l \in Loop : entries'[l] = IF l \in gone THEN NoEntry ELSE entries[l]
  BY <1>1 DEF Swept
<1>6. On[c] \in Loop /\ On[c] \notin gone
  BY <1>1, CachedClients DEF OInv, OnLoops, Over
<1>7. CachedAreOpen'
  BY <1>1, <1>5 DEF OInv, CachedAreOpen
<1>8. Apart'
  <2>1. \A d \in Async : old[d] # None => old[d] # entries'[On[d]].client
    BY <1>5, CachedClients DEF OInv, Apart, NoEntry
  <2> QED BY <1>1, <2>1 DEF OInv, Apart
<1>9. OnLoops'
  <2>1. \A d \in Async : pc[d] \notin {"absent", "idle"} \cup Over => On[d] \notin gone
    BY DEF OInv, OnLoops
  <2>2. guard' # None => guard' = c /\ entries'[On[c]].generation # generation
    <3>1. CASE UNCHANGED guard
      BY <1>3, <3>1
    <3>2. CASE guard' = c /\ (entries[On[c]].generation # generation \/ entries[On[c]] = NoEntry)
      BY <1>3, <1>5, <1>6, <3>2, CachedClients DEF NoEntry
    <3> QED BY <1>2, <3>1, <3>2
  <2> QED BY <1>1, <1>4, <1>6, <2>1, <2>2 DEF OnLoops
<1>10. HeldAreCached'
  <2>1. \A d \in Coroutine : quiet[d] /\ pc[d] \in InCall => On[d] \notin gone /\ On[d] \in Loop
    BY CachedClients DEF OInv, OnLoops, InCall, Over
  <2>2. \A d \in Coroutine : d # c /\ quiet[d] /\ pc[d] \in InCall => Serves(d)' \/ AcloseBeside(d)'
    BY <1>1, <1>4, <1>5, <2>1, AcloseStays DEF OInv, HeldAreCached, Serves
  <2>3. pc'[c] \in InCall => Serves(c)'
    <3> SUFFICES ASSUME pc'[c] \in InCall PROVE Serves(c)'
      OBVIOUS
    <3>1. entries[On[c]] # NoEntry /\ entries[On[c]].generation = generation
          /\ held'[c] = entries[On[c]].client
      BY <1>2, <1>3 DEF InCall
    <3>2. entries[On[c]] = [generation |-> generation, client |-> entries[On[c]].client]
      BY <1>6, <3>1 DEF CInv, Connected
    <3> QED BY <1>1, <1>5, <1>6, <3>1, <3>2 DEF Serves
  <2>4. \A t \in Thread : quiet'[t] /\ pc'[t] = "push" => held'[t] = slot'
    <3>1. \A t \in Thread : t # c
      OBVIOUS
    <3> QED BY <1>1, <1>4, <3>1 DEF OInv, HeldAreCached
  <2> QED BY <1>1, <1>4, <2>2, <2>3, <2>4 DEF HeldAreCached
<1> QED BY <1>7, <1>8, <1>9, <1>10 DEF OInv

LEMMA BuildOnLoopOInv ==
  ASSUME CInv, FInv, OInv, [Next]_vars, NEW c \in Coroutine, BuildOnLoop(c) PROVE OInv'
<1> USE Kinds
<1>1. /\ UNCHANGED <<slot, closing, generation, gone, quiet>> /\ guard' = None
      /\ entries' = [entries EXCEPT ![On[c]] = [generation |-> generation, client |-> Fresh]]
      /\ held' = [held EXCEPT ![c] = Fresh] /\ old' = [old EXCEPT ![c] = entries[On[c]].client]
      /\ pc[c] = "build" /\ \E label : pc' = [pc EXCEPT ![c] = label]
  BY DEF BuildOnLoop, Goto, Holds, shared
<1>2. /\ pc \in [Caller -> Label] /\ held \in [Caller -> Client \cup {None}]
      /\ old \in [Caller -> Client \cup {None}] /\ guard = c /\ On[c] \in Loop
      /\ slot \in Client \cup {None} /\ closing \in Client \cup {None}
  BY <1>1, CachedClients DEF CInv, Located, Called, Cached
<1>3. /\ Fresh \in Client /\ clients[Fresh].state = "unmade" /\ clients'[Fresh].on = On[c]
      /\ \A k \in Client : k # Fresh => clients'[k] = clients[k]
  <2>1. Conf(c) \in Version /\ Build(Conf(c), On[c])
    BY ConfIsAVersion DEF BuildOnLoop, CInv
  <2> QED BY <1>2, <2>1, BuiltClient DEF CInv
<1>4. clients'[Fresh].state = "open"
  BY <1>3 DEF BuildOnLoop, Build, CInv, Connected
<1>5. /\ \A l \in Loop : entries[l] # NoEntry => entries[l].client \in Client \ {Fresh}
      /\ slot # Fresh /\ closing # Fresh
      /\ \A d \in Async : old[d] # Fresh
  <2>1. \A d \in Async : old[d] # None => clients[old[d]].on # None
    BY CachedClients DEF OInv, Apart
  <2>2. clients[Fresh].on = None /\ Fresh # None /\ slot # Fresh
    BY <1>3, CachedClients DEF CInv, Placed
  <2>3. closing # Fresh
    BY <1>3, <2>2 DEF OInv, Apart
  <2> QED BY <1>3, <2>1, <2>2, <2>3, CachedClients
<1>6. \A l \in Loop : entries'[l] = IF l = On[c] THEN [generation |-> generation, client |-> Fresh]
                                              ELSE entries[l]
  BY <1>1, <1>2 DEF CInv, Connected
<1>7. \A d \in Caller : d # c => pc'[d] = pc[d] /\ held'[d] = held[d] /\ old'[d] = old[d]
  BY <1>1, <1>2
<1>8. CachedAreOpen'
  BY <1>1, <1>2, <1>3, <1>4, <1>5, <1>6 DEF OInv, CachedAreOpen
<1>9. Apart'
  <2>1. \A d \in Async : old'[d] # None => clients'[old'[d]].on = On[d] /\ old'[d] # entries'[On[d]].client
    <3> SUFFICES ASSUME NEW d \in Async, old'[d] # None
                 PROVE  clients'[old'[d]].on = On[d] /\ old'[d] # entries'[On[d]].client
      OBVIOUS
    <3>1. CASE d = c
      <4>1. old'[c] = entries[On[c]].client /\ entries[On[c]] # NoEntry
        BY <1>1, <1>2, <3>1, CachedClients
      <4>2. old'[c] \in Client \ {Fresh} /\ clients[old'[c]].on = On[c]
        BY <1>2, <1>5, <4>1, CachedClients
      <4> QED BY <1>2, <1>3, <1>6, <3>1, <4>2
    <3>2. CASE d # c
      <4>1. old'[d] = old[d] /\ old[d] \in Client \ {Fresh} /\ On[d] \in Loop
        BY <1>2, <1>5, <1>7, <3>2, CachedClients
      <4>2. clients[old[d]].on = On[d] /\ old[d] # entries[On[d]].client
        BY <4>1 DEF OInv, Apart
      <4> QED BY <1>3, <1>6, <4>1, <4>2
    <3> QED BY <3>1, <3>2
  <2> QED BY <1>1, <1>2, <1>3, <1>5, <2>1 DEF OInv, Apart
<1>10. OnLoops'
  <2>1. On[c] \notin gone
    BY <1>1 DEF OInv, OnLoops, Over
  <2> QED BY <1>1, <1>7, <2>1 DEF OInv, OnLoops
<1>11. HeldAreCached'
  <2>1. entries[On[c]].generation # generation
    <3>1. c # None
      BY NoneIsNothing
    <3> QED BY <1>2, <3>1 DEF OInv, OnLoops
  <2>2. \A d \in Coroutine : d # c /\ Serves(d) => Serves(d)'
    <3> SUFFICES ASSUME NEW d \in Coroutine, d # c, Serves(d) PROVE Serves(d)'
      OBVIOUS
    <3>1. entries[On[d]].generation = generation /\ On[d] \in Loop
      BY CachedClients DEF Serves
    <3>2. On[d] # On[c]
      BY <2>1, <3>1
    <3> QED BY <1>1, <1>6, <1>7, <3>1, <3>2 DEF Serves
  <2>3. Serves(c)'
    BY <1>1, <1>2, <1>6 DEF Serves
  <2>4. \A t \in Thread : t # c
    OBVIOUS
  <2> QED BY <1>1, <1>7, <2>2, <2>3, <2>4, AcloseStays DEF OInv, HeldAreCached
<1> QED BY <1>8, <1>9, <1>10, <1>11 DEF OInv

\* A client that was taken out is closed, or left as it is.
LEMMA CloseStaleOInv ==
  ASSUME CInv, OInv, [Next]_vars, NEW c \in Async, CloseStale(c) \/ CloseBrokenOff(c) PROVE OInv'
<1> USE Kinds
<1>1. /\ UNCHANGED <<slot, closing, entries, generation, guard, gone, held, quiet>>
      /\ clients' = [clients EXCEPT ![old[c]].state = "closed"] \/ UNCHANGED clients
      /\ old' = [old EXCEPT ![c] = None]
      /\ pc[c] = "stale" /\ \E label \in {"key", "done", "raised", "cancelled"} : pc' = [pc EXCEPT ![c] = label]
  BY DEF CloseStale, CloseBrokenOff, Goto, Closed, shared, perLoop
<1>2. /\ pc \in [Caller -> Label] /\ old \in [Caller -> Client \cup {None}]
      /\ slot \in Client \cup {None} /\ closing \in Client \cup {None}
  BY DEF CInv, Located, Called, Cached
<1>3. old[c] \in Client /\ clients[old[c]].on = On[c] /\ old[c] # entries[On[c]].client
  BY <1>1, <1>2 DEF CInv, Placed, OInv, Apart
<1>4. \A k \in Client : /\ clients'[k].on = clients[k].on
                        /\ k # old[c] => clients'[k].state = clients[k].state
                        /\ clients[k].state # "unmade" => clients'[k].state # "unmade"
  <2>1. CASE clients' = [clients EXCEPT ![old[c]].state = "closed"]
    <3>1. \A k \in Client : /\ clients'[k].on = clients[k].on
                            /\ clients'[k].state = IF k = old[c] THEN "closed" ELSE clients[k].state
      BY <2>1, ClientsStayWhatTheyAre DEF CInv
    <3> QED BY <3>1
  <2> QED BY <1>1, <2>1
<1>5. slot # old[c] /\ \A l \in Loop : entries[l] # NoEntry => entries[l].client \in Client \ {old[c]}
  <2>1. On[c] # None
    BY CachedClients
  <2>2. slot # old[c]
    BY <1>3, <2>1, CachedClients DEF OInv, Apart
  <2>3. \A l \in Loop : entries[l] # NoEntry /\ l # On[c] => entries[l].client # old[c]
    BY <1>3, CachedClients
  <2> QED BY <1>3, <2>2, <2>3, CachedClients
<1>6. \A d \in Caller : d # c => pc'[d] = pc[d] /\ old'[d] = old[d]
  BY <1>1, <1>2
<1>7. CachedAreOpen'
  BY <1>1, <1>2, <1>4, <1>5 DEF OInv, CachedAreOpen
<1>8. Apart'
  <2>1. old'[c] = None
    BY <1>1, <1>2
  <2> QED BY <1>1, <1>2, <1>4, <1>6, <2>1 DEF OInv, Apart
<1>9. OnLoops'
  <2>1. On[c] \notin gone
    BY <1>1 DEF OInv, OnLoops, Over
  <2> QED BY <1>1, <1>6, <2>1 DEF OInv, OnLoops
<1>10. HeldAreCached'
  <2>1. pc'[c] # "push" /\ pc[c] \in InCall
    BY <1>1, <1>2 DEF InCall
  <2> QED BY <1>1, <1>6, <2>1, AcloseStays DEF OInv, HeldAreCached, Serves
<1> QED BY <1>7, <1>8, <1>9, <1>10 DEF OInv

LEMMA ForgetOInv == ASSUME CInv, OInv, [Next]_vars, NEW c \in Closer, Forget(c) PROVE OInv'
<1> USE Kinds
<1>1. /\ UNCHANGED <<clients, slot, closing, generation, guard, gone, held, quiet>> /\ guard = None
      /\ entries' = [entries EXCEPT ![On[c]] = NoEntry]
      /\ old' = [old EXCEPT ![c] = entries[On[c]].client]
      /\ pc[c] = "aclose" /\ \E label \in {"stale", "done"} : pc' = [pc EXCEPT ![c] = label]
  BY DEF Forget, Goto, shared
<1>2. /\ pc \in [Caller -> Label] /\ old \in [Caller -> Client \cup {None}] /\ On[c] \in Loop
  BY CachedClients DEF CInv, Located, Called
<1>3. \A l \in Loop : entries'[l] = IF l = On[c] THEN NoEntry ELSE entries[l]
  BY <1>1, <1>2 DEF CInv, Connected
<1>4. \A d \in Caller : d # c => pc'[d] = pc[d] /\ old'[d] = old[d]
  BY <1>1, <1>2
<1>5. CachedAreOpen'
  BY <1>1, <1>3 DEF OInv, CachedAreOpen
<1>6. Apart'
  <2>1. old'[c] = entries[On[c]].client
    BY <1>1, <1>2
  <2>2. old'[c] # None => clients[old'[c]].on = On[c] /\ old'[c] # entries'[On[c]].client
    BY <1>2, <1>3, <2>1, CachedClients DEF NoEntry
  <2>3. \A d \in Async : d # c /\ old[d] # None =>
          clients[old[d]].on = On[d] /\ old[d] # entries'[On[d]].client
    BY <1>3, CachedClients DEF OInv, Apart, NoEntry
  <2> QED BY <1>1, <1>4, <2>2, <2>3 DEF OInv, Apart
<1>7. OnLoops'
  <2>1. On[c] \notin gone
    BY <1>1 DEF OInv, OnLoops, Over
  <2> QED BY <1>1, <1>4, <2>1 DEF OInv, OnLoops
<1>8. HeldAreCached'
  <2>1. \A d \in Coroutine : On[d] = On[c] => AcloseBeside(d)'
    <3>1. pc'[c] \notin {"absent", "idle", "aclose"}
      BY <1>1, <1>2
    <3> QED BY <3>1 DEF AcloseBeside
  <2>2. \A d \in Coroutine : On[d] # On[c] /\ Serves(d) => Serves(d)'
    BY <1>1, <1>3, CachedClients DEF Serves
  <2>3. c \notin Sender
    OBVIOUS
  <2> QED BY <1>1, <1>4, <2>1, <2>2, <2>3, AcloseStays DEF OInv, HeldAreCached
<1> QED BY <1>5, <1>6, <1>7, <1>8 DEF OInv

LEMMA CloseLoopOInv == ASSUME CInv, OInv, [Next]_vars, NEW l \in Loop, CloseLoop(l) PROVE OInv'
<1>1. /\ UNCHANGED <<clients, slot, closing, entries, generation, guard, held, old, pc, quiet>>
      /\ gone' = gone \cup {l}
      /\ \A c \in Async : On[c] = l => pc[c] \in {"absent", "idle"} \cup Over
  BY DEF CloseLoop, shared, call
<1>2. CachedAreOpen' /\ Apart' /\ OnLoops'
  BY <1>1 DEF OInv, CachedAreOpen, Apart, OnLoops
<1>3. HeldAreCached'
  BY <1>1, AcloseStays DEF OInv, HeldAreCached, Serves
<1> QED BY <1>2, <1>3 DEF OInv

LEMMA InitOInv == Init => OInv
<1> SUFFICES ASSUME Init PROVE OInv
  OBVIOUS
<1>1. /\ slot = None /\ closing = None /\ guard = None /\ \A l \in Loop : entries[l] = NoEntry
      /\ \A c \in Caller : old[c] = None /\ pc[c] \in {"idle", "absent"}
  BY DEF Init
<1> QED BY <1>1, Kinds
        DEF OInv, CachedAreOpen, Apart, OnLoops, HeldAreCached, InCall

LEMMA NextOInv == ASSUME CInv, FInv, OInv, [Next]_vars PROVE OInv'
<1>1. CASE \/ ChangeSettings \/ ResetSettings \/ UNCHANGED vars
           \/ \E c \in Caller : Call(c) \/ Resolve(c)
           \/ \E c \in Sender : Pack(c) \/ PushEnds(c)
           \/ \E c \in Coroutine : CancelPush(c)
  BY <1>1, QuietOInv
<1>2. CASE ResetShared \/ CloseShared \/ Invalidate
  BY <1>2, ResetSharedOInv, CloseSharedOInv, InvalidateOInv
<1>3. ASSUME NEW c \in Sender, Push(c) PROVE OInv'
  BY <1>3, PushOInv
<1>4. ASSUME NEW t \in Thread, GetShared(t) \/ LockShared(t) \/ BuildShared(t) PROVE OInv'
  BY <1>4, GetSharedOInv, BuildSharedOInv
<1>5. ASSUME NEW c \in Coroutine, GetOnLoop(c) \/ BuildOnLoop(c) PROVE OInv'
  BY <1>5, GetOnLoopOInv, BuildOnLoopOInv
<1>6. ASSUME NEW c \in Async, CloseStale(c) \/ CloseBrokenOff(c) PROVE OInv'
  BY <1>6, CloseStaleOInv
<1>7. ASSUME NEW c \in Closer, Forget(c) PROVE OInv'
  BY <1>7, ForgetOInv
<1>8. ASSUME NEW l \in Loop, CloseLoop(l) PROVE OInv'
  BY <1>8, CloseLoopOInv
<1> QED BY <1>1, <1>2, <1>3, <1>4, <1>5, <1>6, <1>7, <1>8 DEF Next

(***************************************************************************)
(* A call that no change of the settings overlaps writes to the server and *)
(* under the key the settings name, whatever the changes before it did to  *)
(* the caches and whoever built the client, unless the unlocked cache of   *)
(* the settings lapsed; and through a client that nobody has closed but an *)
(* aclose() of its own loop (Settings.resolved, get() of both              *)
(* connections).                                                           *)
(***************************************************************************)
THEOREM WritesAreCurrent == Spec => []WritesFollowTheSettings
<1>1. Init => FInv /\ OInv
  BY InitFInv, InitOInv
<1>2. CInv /\ FInv /\ OInv /\ [Next]_vars => FInv' /\ OInv'
  BY NextFInv, NextOInv
<1>3. CInv /\ FInv /\ OInv => WritesFollowTheSettings
  <2> SUFFICES ASSUME CInv, FInv, OInv, NEW c \in Sender, pc[c] = "push", quiet[c]
               PROVE  /\ ~lapsed => clients[held[c]].from = version /\ key[c] = version
                      /\ clients[held[c]].state = "open" \/ AcloseBeside(c)
    BY DEF WritesFollowTheSettings
  <2>1. ~lapsed => clients[held[c]].from = version /\ key[c] = version
    BY DEF FInv, CallsAreCurrent
  <2>2. CASE c \in Thread
    <3>1. held[c] = slot /\ slot # None
      BY <2>2 DEF OInv, HeldAreCached, CInv, Equipped
    <3> QED BY <2>1, <3>1 DEF OInv, CachedAreOpen
  <2>3. CASE c \in Coroutine
    <3>1. CASE Serves(c)
      <4>1. entries[On[c]] # NoEntry /\ entries[On[c]].client = held[c] /\ On[c] \in Loop
        BY <2>3, <3>1, CachedClients, Kinds DEF Serves, NoEntry, CInv, Cached
      <4> QED BY <2>1, <4>1 DEF OInv, CachedAreOpen
    <3>2. CASE AcloseBeside(c)
      BY <2>1, <3>2
    <3> QED BY <2>3, <3>1, <3>2 DEF OInv, HeldAreCached, InCall
  <2> QED BY <2>2, <2>3 DEF Sender
<1> QED BY <1>1, <1>2, <1>3, CInvAlways, PTL DEF Spec
=============================================================================
