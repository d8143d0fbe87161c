------------------------------ MODULE Recorder ------------------------------
(***************************************************************************)
(* The event recorder (recorder.py): any thread hands events to a bounded  *)
(* queue, one writer thread per queue drains it in batches, and every      *)
(* event that gets no row is counted, so that a `log.dropped' row can say  *)
(* so later.                                                               *)
(*                                                                         *)
(* Queues and writers come in pairs, numbered as they are made: stop()     *)
(* detaches the live queue and the next event makes another pair, while    *)
(* the old writer may still be running.  A step ends where another thread  *)
(* can observe or change what it read: at `_queue', at a queue.Queue, at   *)
(* the guard, at the counter, and around every batch handed to the ORM.    *)
(***************************************************************************)
EXTENDS Integers, FiniteSets, SequencesExt

CONSTANTS
  Producer,      \* threads that call record()
  Stopper,       \* calls of stop(), each made once
  Waiter,        \* calls of flush(), each made once
  Drainer,       \* calls of drain_once(), each made once
  Casts,         \* the sets of callers of which one is there
  StopWake,      \* the wake stop() queues, which nobody waits for
  Nobody,        \* the guard is free
  MaxEvents,     \* bound: [Casts -> events recorded]
  MaxWriters,    \* bound: queue and writer pairs made
  BufferSize,    \* EVENT_LOG_BUFFER_SIZE
  BatchSize,     \* EVENT_LOG_BATCH_SIZE
  FailureLimit,  \* FAILURE_LIMIT
  KeepsTable,    \* EVENT_LOG: rows are written, not only published
  Sync,          \* EVENT_LOG_SYNC, for callers outside a running loop
  ReceiverStops, \* whether an events_recorded receiver calls stop()
  MaxNoThread    \* bound: writers the platform refuses to start

ASSUME SizesArePositive ==
  {MaxWriters, BufferSize, BatchSize, FailureLimit} \subseteq Nat \ {0}
ASSUME SwitchesAreBooleans == {KeepsTable, Sync, ReceiverStops} \subseteq BOOLEAN
ASSUME CastsAreCallers == Casts \subseteq SUBSET (Producer \cup Stopper \cup Waiter \cup Drainer)
ASSUME BoundsAreNatural == MaxNoThread \in Nat /\ MaxEvents \in [Casts -> Nat \ {0}]

Event  == 1..Max({MaxEvents[cast] : cast \in Casts})
Writer == 1..MaxWriters
Item   == Event \cup Waiter \cup {StopWake}
Caller == Producer \cup Stopper \cup Waiter \cup Drainer
Thread == Caller \cup Writer
None   == 0

ASSUME CallersAreFinite == IsFiniteSet(Caller)
ASSUME CallersAreDistinct ==
  /\ Producer \cap (Stopper \cup Waiter \cup Drainer) = {}
  /\ Stopper \cap (Waiter \cup Drainer) = {} /\ Waiter \cap Drainer = {}
ASSUME WritersAreTheirOwn == Caller \cap Writer = {}
ASSUME WakesAreNoEvents == Event \cap (Waiter \cup {StopWake}) = {} /\ StopWake \notin Waiter
ASSUME NobodyIsNobody == Nobody \notin Producer

VARIABLES
  live,      \* _queue and _thread: the pair in use, or None
  made,      \* how many pairs were made
  buffer,    \* [Writer -> the items of that queue]
  guard,     \* who holds _guard across the start of a thread
  stopping,  \* _stopping
  dropped,   \* _dropped
  touched,   \* _touched_database
  events,    \* how many events were recorded
  pc,        \* [Thread -> where it is]
  queue,     \* [Thread -> the queue it has looked up]
  orphan,    \* [Producer -> the detached queue it is emptying]
  own,       \* [Producer -> the event its record() is about]
  hand,      \* [Thread -> the items it has taken and not dealt with]
  inside,    \* [Stopper -> the writer whose receiver made this call]
  before,    \* [Thread -> dropped_before of its flush]
  claim,     \* [Thread -> the drops its gap row is about]
  failures,  \* [Writer -> consecutive failed flushes]
  suspended, \* [Writer -> blocked_until lies ahead]
  noThread,  \* how often a writer could not be started
  delivered, \* history: events that got a row (or, with no table, went out)
  lost,      \* history: events that were counted as dropped
  reported,  \* history: drops that gap rows report
  released,  \* flush() calls whose wake was acknowledged
  since,     \* history: [Waiter -> events recorded when it called flush()]
  rehomed,   \* history: events moved off a detached queue
  open,      \* writers with a database connection of their own
  unmarked   \* history: writers whose mark a stop() of another one took

queues  == <<live, made, buffer, guard, stopping>>
counted == <<dropped, lost, reported>>
places  == <<queue, orphan, own, inside>>
flushes == <<before, claim, failures, suspended>>
marks   == <<touched, open, unmarked>>
waits   == <<released, since>>

vars == <<queues, counted, places, flushes, marks, waits, events, pc, hand,
          noThread, delivered, rehomed>>
-----------------------------------------------------------------------------
Goto(t, label) == pc' = [pc EXCEPT ![t] = label]

Held(t) == hand[t] \cap Event

\* The thread a call runs on: a receiver's stop() runs on the writer's own.
ThreadOf(t) == IF t \in Stopper /\ inside[t] # None THEN inside[t] ELSE t

\* A receiver this writer is calling has not returned.
Busy(t) == \E s \in Stopper : inside[s] = t

\* Mutant: room for one item more than the buffer's size.
FullOneTooMany(q) == Len(buffer[q]) > BufferSize

\* put_nowait()
Full(q) == Len(buffer[q]) >= BufferSize
Put(q, item) == buffer' = [buffer EXCEPT ![q] = Append(@, item)]

\* _drop() of some events
Count(lostEvents) ==
  /\ dropped' = dropped + Cardinality(lostEvents)
  /\ lost' = lost \cup lostEvents
  /\ UNCHANGED reported

\* _acknowledge() of the wakes among some items
Release(items) == released' = released \cup (items \cap Waiter) /\ UNCHANGED since

\* _deliver() marks the thread before it writes; a writer thread that
\* writes has a connection from then on.
Touches(t) ==
  IF KeepsTable
  THEN /\ touched' = touched \cup {ThreadOf(t)}
       /\ open' = open \cup ({ThreadOf(t)} \cap Writer)
       /\ UNCHANGED unmarked
  ELSE UNCHANGED marks

\* What a write of these events may land: all, some, or nothing at all, which
\* raises.  Without a table nothing is written and nothing can be refused.
Landing(batch) == IF KeepsTable THEN SUBSET batch ELSE {batch}

\* The outcome is known: the rows that landed, the rest counted.
Settle(batch, landed) ==
  /\ delivered' = delivered \cup landed
  /\ Count(batch \ landed)
-----------------------------------------------------------------------------
\* Who is there.
Cast == {c \in Caller : pc[c] # "absent"}

Init ==
  /\ live = None /\ made = 0 /\ guard = Nobody /\ stopping = FALSE
  /\ buffer = [q \in Writer |-> <<>>]
  /\ dropped = 0 /\ touched = {} /\ events = 0 /\ noThread = 0
  /\ \E cast \in Casts :
       pc = [t \in Thread |-> IF t \in cast THEN "idle" ELSE IF t \in Writer THEN "unmade" ELSE "absent"]
  /\ queue = [t \in Thread |-> IF t \in Writer THEN t ELSE None]
  /\ orphan = [p \in Producer |-> None]
  /\ own = [p \in Producer |-> None]
  /\ hand = [t \in Thread |-> {}]
  /\ inside = [s \in Stopper |-> None]
  /\ before = [t \in Thread |-> 0] /\ claim = [t \in Thread |-> 0]
  /\ failures = [w \in Writer |-> 0] /\ suspended = [w \in Writer |-> FALSE]
  /\ delivered = {} /\ lost = {} /\ reported = 0 /\ rehomed = {}
  /\ open = {} /\ unmarked = {} /\ released = {} /\ since = [f \in Waiter |-> {}]
-----------------------------------------------------------------------------
(***************************************************************************)
(* record()                                                                *)
(***************************************************************************)
Record(p) ==
  /\ pc[p] = "idle" /\ events < MaxEvents[Cast]
  /\ events' = events + 1
  /\ own' = [own EXCEPT ![p] = events']
  /\ hand' = [hand EXCEPT ![p] = {events'}]
  /\ \/ Goto(p, "look") /\ UNCHANGED marks
     \/ Sync /\ KeepsTable /\ Goto(p, "here") /\ Touches(p)
  /\ UNCHANGED <<queues, counted, queue, orphan, inside, flushes, waits,
                 noThread, delivered, rehomed>>

\* record() returns.
Return(p) ==
  /\ Goto(p, "idle")
  /\ queue' = [queue EXCEPT ![p] = None]
  /\ orphan' = [orphan EXCEPT ![p] = None]
  /\ own' = [own EXCEPT ![p] = None]
  /\ hand' = [hand EXCEPT ![p] = {}]

\* EVENT_LOG_SYNC: the row is written on the caller's thread.
WriteHere(p) ==
  /\ pc[p] = "here"
  /\ \E landed \in {{}, Held(p)} : Settle(Held(p), landed)
  /\ touched' = touched \ {p}
  /\ Return(p)
  /\ UNCHANGED <<queues, inside, flushes, waits, events, noThread, rehomed, open, unmarked>>

\* _buffer(): look the live queue up ...
LookUp(p) ==
  /\ pc[p] \in {"look", "relook"}
  /\ live # None
  /\ queue' = [queue EXCEPT ![p] = live]
  /\ Goto(p, IF pc[p] = "look" THEN "put" ELSE "reput")
  /\ UNCHANGED <<queues, counted, orphan, own, inside, flushes, marks, waits,
                 events, hand, noThread, delivered, rehomed>>

\* ... or make one, under the guard, visible before its thread runs.
MakeQueue(p) ==
  /\ pc[p] \in {"look", "relook"}
  /\ live = None /\ guard = Nobody /\ made < MaxWriters
  /\ guard' = p
  /\ stopping' = FALSE
  /\ made' = made + 1
  /\ live' = made'
  /\ queue' = [queue EXCEPT ![p] = made']
  /\ Goto(p, IF pc[p] = "look" THEN "start" ELSE "restart")
  /\ UNCHANGED <<buffer, counted, orphan, own, inside, flushes, marks, waits,
                 events, hand, noThread, delivered, rehomed>>

StartWriter(p) ==
  /\ pc[p] \in {"start", "restart"}
  /\ guard' = Nobody
  /\ pc' = [pc EXCEPT ![p] = IF @ = "start" THEN "put" ELSE "reput",
                      ![queue[p]] = "take"]
  /\ UNCHANGED <<live, made, buffer, stopping, counted, places, flushes, marks,
                 waits, events, hand, noThread, delivered, rehomed>>

\* Out of threads: _buffer() counts one drop and raises out of record().
NoThread(p) ==
  /\ pc[p] \in {"start", "restart"}
  /\ noThread < MaxNoThread
  /\ noThread' = noThread + 1
  /\ guard' = Nobody /\ live' = None
  /\ dropped' = dropped + 1
  /\ lost' = lost \cup Held(p)
  /\ Return(p)
  /\ UNCHANGED <<made, buffer, stopping, reported, inside, flushes,
                 marks, waits, events, delivered, rehomed>>

PutEvent(p) ==
  /\ pc[p] = "put"
  /\ ~Full(queue[p])
  /\ Put(queue[p], own[p])
  /\ hand' = [hand EXCEPT ![p] = {}]
  /\ Goto(p, "check")
  /\ UNCHANGED <<live, made, guard, stopping, counted, places, flushes, marks,
                 waits, events, noThread, delivered, rehomed>>

QueueFull(p) ==
  /\ pc[p] = "put"
  /\ Full(queue[p])
  /\ Count(Held(p))
  /\ Return(p)
  /\ UNCHANGED <<queues, inside, flushes, marks, waits, events, noThread,
                 delivered, rehomed>>

\* Mutant: the queue is not looked at again after the put.
CheckNothing(p) ==
  /\ pc[p] = "check"
  /\ Return(p)
  /\ UNCHANGED <<queues, counted, inside, flushes, marks, waits, events,
                 noThread, delivered, rehomed>>

\* Was the queue detached between the lookup and the put?
CheckQueue(p) ==
  /\ pc[p] = "check"
  /\ IF live = queue[p]
     THEN Return(p)
     ELSE /\ Goto(p, "rehome")
          /\ orphan' = [orphan EXCEPT ![p] = queue[p]]
          /\ UNCHANGED <<queue, own, hand>>
  /\ UNCHANGED <<queues, counted, inside, flushes, marks, waits, events,
                 noThread, delivered, rehomed>>

\* _rehome(): one item at a time off the orphan ...
TakeOrphan(p) ==
  /\ pc[p] = "rehome"
  /\ IF buffer[orphan[p]] = <<>>
     THEN Return(p) /\ UNCHANGED buffer
     ELSE /\ hand' = [hand EXCEPT ![p] = {Head(buffer[orphan[p]])}]
          /\ buffer' = [buffer EXCEPT ![orphan[p]] = Tail(@)]
          /\ Goto(p, "relook")
          /\ UNCHANGED <<queue, own, orphan>>
  /\ UNCHANGED <<live, made, guard, stopping, counted, inside, flushes,
                 marks, waits, events, noThread, delivered, rehomed>>

\* Mutant: what the live queue has no room for is forgotten.
PutRehomedUncounted(p) ==
  /\ pc[p] = "reput"
  /\ \E item \in hand[p] :
       IF Full(queue[p]) THEN UNCHANGED <<buffer, rehomed>>
       ELSE Put(queue[p], item) /\ rehomed' = rehomed \cup Held(p)
  /\ hand' = [hand EXCEPT ![p] = {}]
  /\ Goto(p, "rehome")
  /\ UNCHANGED <<live, made, guard, stopping, counted, places, flushes, marks,
                 waits, events, noThread, delivered>>

\* ... and onto the queue _buffer() answered with, wherever that is by now.
PutRehomed(p) ==
  /\ pc[p] = "reput"
  /\ \E item \in hand[p] :
       IF Full(queue[p])
       THEN Count(Held(p)) /\ Release(hand[p]) /\ UNCHANGED <<buffer, rehomed>>
       ELSE /\ Put(queue[p], item)
            /\ rehomed' = rehomed \cup Held(p)
            /\ UNCHANGED <<counted, waits>>
  /\ hand' = [hand EXCEPT ![p] = {}]
  /\ Goto(p, "rehome")
  /\ UNCHANGED <<live, made, guard, stopping, places, flushes, marks, events,
                 noThread, delivered>>
-----------------------------------------------------------------------------
(***************************************************************************)
(* The writer: _run(), and _flush() wherever it is called.                 *)
(***************************************************************************)

\* Mutant: the waiters are released as soon as the batch is taken.
TakeReleasing(w) ==
  /\ pc[w] = "take"
  /\ buffer[w] # <<>> /\ Cardinality(hand[w]) < BatchSize
  /\ hand' = [hand EXCEPT ![w] = @ \cup {Head(buffer[w])}]
  /\ buffer' = [buffer EXCEPT ![w] = Tail(@)]
  /\ Goto(w, IF Head(buffer[w]) \in Event THEN "take" ELSE "flush")
  /\ Release({Head(buffer[w])})
  /\ UNCHANGED <<live, made, guard, stopping, counted, places, flushes, marks,
                 events, noThread, delivered, rehomed>>

\* _collect(): one get.  A wake or a full batch ends it.
Take(w) ==
  /\ pc[w] = "take"
  /\ buffer[w] # <<>> /\ Cardinality(hand[w]) < BatchSize
  /\ hand' = [hand EXCEPT ![w] = @ \cup {Head(buffer[w])}]
  /\ buffer' = [buffer EXCEPT ![w] = Tail(@)]
  /\ Goto(w, IF Head(buffer[w]) \in Event THEN "take" ELSE "flush")
  /\ UNCHANGED <<live, made, guard, stopping, counted, places, flushes, marks,
                 waits, events, noThread, delivered, rehomed>>

\* _collect(): the interval is over, or the batch is full.
Collected(w) ==
  /\ pc[w] = "take"
  /\ hand[w] # {} \/ buffer[w] = <<>>
  /\ Goto(w, IF hand[w] = {} THEN "check" ELSE "flush")
  /\ UNCHANGED <<queues, counted, places, flushes, marks, waits, events, hand,
                 noThread, delivered, rehomed>>

\* While suspended a writer drains and counts what it drains.
Discard(w) ==
  /\ pc[w] = "flush"
  /\ suspended[w] \/ Held(w) = {}
  /\ Count(Held(w))
  /\ Goto(w, "ack")
  /\ hand' = [hand EXCEPT ![w] = @ \ Event]
  /\ UNCHANGED <<queues, places, flushes, marks, waits, events, noThread,
                 delivered, rehomed>>

\* _flush() begins: the drop count is noted and the batch goes to the ORM.
\* A suspended writer gets here once FAILURE_BACKOFF has passed.
Flush(t) ==
  /\ pc[t] = "flush"
  /\ Held(t) # {}
  /\ before' = [before EXCEPT ![t] = dropped]
  /\ IF t \in Writer THEN suspended' = [suspended EXCEPT ![t] = FALSE]
                     ELSE UNCHANGED suspended
  /\ Touches(t)
  /\ Goto(t, "write")
  /\ UNCHANGED <<queues, counted, places, claim, failures, waits, events, hand,
                 noThread, delivered, rehomed>>

\* Every row or some of them landed; the failure count starts over.
Written(t) ==
  /\ pc[t] = "write" /\ ~Busy(t)
  /\ \E landed \in Landing(Held(t)) \ {{}} : Settle(Held(t), landed)
  /\ hand' = [hand EXCEPT ![t] = @ \ Event]
  /\ IF t \in Writer THEN failures' = [failures EXCEPT ![t] = 0] ELSE UNCHANGED failures
  /\ Goto(t, IF before[t] > 0 THEN "gap" ELSE "ack")
  /\ UNCHANGED <<queues, places, before, claim, suspended, marks, waits, events,
                 noThread, rehomed>>

\* None landed: the write raised.
WriteFailed(t) ==
  /\ pc[t] = "write" /\ ~Busy(t)
  /\ {} \in Landing(Held(t))
  /\ Settle(Held(t), {})
  /\ hand' = [hand EXCEPT ![t] = @ \ Event]
  /\ IF t \in Writer
     THEN LET limit == failures[t] + 1 >= FailureLimit
          IN  /\ failures' = [failures EXCEPT ![t] = IF limit THEN 0 ELSE @ + 1]
              /\ suspended' = [suspended EXCEPT ![t] = limit]
     ELSE UNCHANGED <<failures, suspended>>
  /\ Goto(t, "ack")
  /\ UNCHANGED <<queues, places, before, claim, marks, waits, events, noThread, rehomed>>

\* Mutant: the count noted before the write is claimed, whatever is left of it.
ClaimGapUnchecked(t) ==
  /\ pc[t] = "gap"
  /\ claim' = [claim EXCEPT ![t] = before[t]]
  /\ dropped' = dropped - before[t]
  /\ Touches(t)
  /\ Goto(t, "gapwrite")
  /\ UNCHANGED <<queues, lost, reported, places, before, failures, suspended,
                 waits, events, hand, noThread, delivered, rehomed>>

\* _record_gap(): the claim comes off the counter, and its row goes to the ORM ...
ClaimGap(t) ==
  /\ pc[t] = "gap"
  /\ LET claimed == IF before[t] < dropped THEN before[t] ELSE dropped
     IN  /\ claim' = [claim EXCEPT ![t] = claimed]
         /\ dropped' = dropped - claimed
         /\ IF claimed = 0 THEN Goto(t, "ack") /\ UNCHANGED marks
                            ELSE Goto(t, "gapwrite") /\ Touches(t)
  /\ UNCHANGED <<queues, lost, reported, places, before, failures, suspended,
                 waits, events, hand, noThread, delivered, rehomed>>

\* Mutant: the claim goes back on the counter though its row landed.
GapRowToldAgain(t) ==
  /\ pc[t] = "gapwrite" /\ ~Busy(t)
  /\ dropped' = dropped + claim[t]
  /\ \/ reported' = reported + claim[t]
     \/ KeepsTable /\ UNCHANGED reported
  /\ claim' = [claim EXCEPT ![t] = 0]
  /\ Goto(t, "ack")
  /\ UNCHANGED <<queues, lost, places, before, failures, suspended, marks, waits,
                 events, hand, noThread, delivered, rehomed>>

\* ... and goes back on it if the row does not land.
GapRow(t) ==
  /\ pc[t] = "gapwrite" /\ ~Busy(t)
  /\ \/ reported' = reported + claim[t] /\ UNCHANGED dropped
     \/ KeepsTable /\ dropped' = dropped + claim[t] /\ UNCHANGED reported
  /\ claim' = [claim EXCEPT ![t] = 0]
  /\ Goto(t, "ack")
  /\ UNCHANGED <<queues, lost, places, before, failures, suspended, marks, waits,
                 events, hand, noThread, delivered, rehomed>>

\* _acknowledge(): after the batch, whatever became of it.  drain_once() is
\* over then, and forgets its mark.
Acknowledge(t) ==
  /\ pc[t] = "ack"
  /\ Release(hand[t])
  /\ hand' = [hand EXCEPT ![t] = {}]
  /\ before' = [before EXCEPT ![t] = 0]
  /\ Goto(t, IF t \in Writer THEN "check" ELSE "over")
  /\ touched' = IF t \in Writer THEN touched ELSE touched \ {t}
  /\ UNCHANGED <<queues, counted, places, claim, failures, suspended, events, noThread, delivered,
                 rehomed, open, unmarked>>

\* Mutant: only the flag ends the loop, and a new queue clears the flag.
KeepGoingByFlag(w) ==
  /\ pc[w] = "check"
  /\ Goto(w, IF buffer[w] = <<>> /\ stopping THEN "exit" ELSE "take")
  /\ UNCHANGED <<queues, counted, places, flushes, marks, waits, events, hand,
                 noThread, delivered, rehomed>>

\* Round again, unless nothing is left and this queue is done with.
KeepGoing(w) ==
  /\ pc[w] = "check"
  /\ Goto(w, IF buffer[w] = <<>> /\ (stopping \/ live # w) THEN "exit" ELSE "take")
  /\ UNCHANGED <<queues, counted, places, flushes, marks, waits, events, hand,
                 noThread, delivered, rehomed>>

\* The slot is given up under the guard.
Leave(w) ==
  /\ pc[w] = "exit" /\ guard = Nobody
  /\ live' = IF live = w THEN None ELSE live
  /\ Goto(w, "abandon")
  /\ UNCHANGED <<made, buffer, guard, stopping, counted, places, flushes, marks,
                 waits, events, hand, noThread, delivered, rehomed>>

\* The mark says whether this thread has a connection to close.
CloseConnection(w) ==
  /\ pc[w] = "close"
  /\ open' = IF w \in touched THEN open \ {w} ELSE open
  /\ touched' = touched \ {w}
  /\ Goto(w, "gone")
  /\ UNCHANGED <<queues, counted, places, flushes, waits, events, hand, noThread,
                 delivered, rehomed, unmarked>>
-----------------------------------------------------------------------------
(***************************************************************************)
(* _abandon(): by an exiting writer and by stop().  Its wakes are released *)
(* before what is left of the queue is written.                            *)
(***************************************************************************)
AfterAbandon(t) == IF t \in Writer THEN "close" ELSE "forget"

EmptyQueue(t) ==
  /\ pc[t] = "abandon"
  /\ LET left == Range(buffer[queue[t]])
     IN  /\ Release(left)
         /\ hand' = [hand EXCEPT ![t] = left \cap Event]
         /\ IF left \cap Event = {}
            THEN Goto(t, AfterAbandon(t)) /\ UNCHANGED marks
            ELSE Goto(t, "leftover") /\ Touches(t)
  /\ buffer' = [buffer EXCEPT ![queue[t]] = <<>>]
  /\ UNCHANGED <<live, made, guard, stopping, counted, places, flushes, events,
                 noThread, delivered, rehomed>>

WriteLeftover(t) ==
  /\ pc[t] = "leftover" /\ ~Busy(t)
  /\ \E landed \in Landing(Held(t)) : Settle(Held(t), landed)
  /\ hand' = [hand EXCEPT ![t] = {}]
  /\ Goto(t, AfterAbandon(t))
  /\ UNCHANGED <<queues, places, flushes, marks, waits, events, noThread, rehomed>>
-----------------------------------------------------------------------------
(***************************************************************************)
(* stop(), flush() and drain_once()                                        *)
(***************************************************************************)

\* stop() begins, on a thread of its own or in a receiver some writer calls.
Stop(s) ==
  /\ pc[s] = "idle"
  /\ \/ UNCHANGED inside
     \/ /\ ReceiverStops
        /\ \E w \in Writer :
             /\ pc[w] \in {"write", "gapwrite", "leftover"} /\ ~Busy(w)
             /\ inside' = [inside EXCEPT ![s] = w]
  /\ Goto(s, "detach")
  /\ UNCHANGED <<queues, counted, queue, orphan, own, flushes, marks, waits, events,
                 hand, noThread, delivered, rehomed>>

Detach(s) ==
  /\ pc[s] = "detach" /\ guard = Nobody
  /\ live' = None
  /\ queue' = [queue EXCEPT ![s] = live]
  /\ Goto(s, IF live = None THEN "over" ELSE "signal")
  /\ inside' = IF live = None THEN [inside EXCEPT ![s] = None] ELSE inside
  /\ UNCHANGED <<made, buffer, guard, stopping, counted, orphan, own, flushes, marks,
                 waits, events, hand, noThread, delivered, rehomed>>

Signal(s) ==
  /\ pc[s] = "signal"
  /\ stopping' = TRUE
  /\ IF Full(queue[s]) THEN UNCHANGED buffer ELSE Put(queue[s], StopWake)
  /\ Goto(s, IF ThreadOf(s) = queue[s] THEN "abandon" ELSE "join")
  /\ UNCHANGED <<live, made, guard, counted, places, flushes, marks, waits, events,
                 hand, noThread, delivered, rehomed>>

\* The writer is gone, or the join has timed out.
Join(s) ==
  /\ pc[s] = "join"
  /\ Goto(s, "abandon")
  /\ UNCHANGED <<queues, counted, places, flushes, marks, waits, events, hand,
                 noThread, delivered, rehomed>>

\* Mutant: the mark of a caller's thread is left behind.
ForgetNothing(s) ==
  /\ pc[s] = "forget"
  /\ inside' = [inside EXCEPT ![s] = None]
  /\ queue' = [queue EXCEPT ![s] = None]
  /\ Goto(s, "over")
  /\ UNCHANGED <<queues, counted, orphan, own, flushes, waits, events, hand,
                 noThread, delivered, rehomed, marks>>

\* stop() returns; the mark stays only on the thread of the writer it stopped.
Forget(s) ==
  /\ pc[s] = "forget"
  /\ IF ThreadOf(s) = queue[s]
     THEN UNCHANGED <<touched, unmarked>>
     ELSE /\ touched' = touched \ {ThreadOf(s)}
          /\ unmarked' = unmarked \cup ({ThreadOf(s)} \cap Writer)
  /\ inside' = [inside EXCEPT ![s] = None]
  /\ queue' = [queue EXCEPT ![s] = None]
  /\ Goto(s, "over")
  /\ UNCHANGED <<queues, counted, orphan, own, flushes, waits, events, hand,
                 noThread, delivered, rehomed, open>>

\* flush(): what record() has returned from is what it waits for.
FlushCall(f) ==
  /\ pc[f] = "idle"
  /\ queue' = [queue EXCEPT ![f] = live]
  /\ since' = [since EXCEPT ![f] = {e \in 1..events : \A p \in Producer : own[p] # e}]
  /\ Goto(f, IF live = None THEN "over" ELSE "mark")
  /\ UNCHANGED <<queues, counted, orphan, own, inside, flushes, marks, released,
                 events, hand, noThread, delivered, rehomed>>

\* The marker goes in and the call waits behind it, unless there is no room.
FlushMark(f) ==
  /\ pc[f] = "mark"
  /\ IF Full(queue[f]) THEN Goto(f, "over") /\ UNCHANGED buffer
                       ELSE Goto(f, "wait") /\ Put(queue[f], f)
  /\ UNCHANGED <<live, made, guard, stopping, counted, places, flushes, marks, waits,
                 events, hand, noThread, delivered, rehomed>>

\* drain_once(): everything buffered is taken and flushed on this thread.
Drain(d) ==
  /\ pc[d] = "idle"
  /\ live # None
  /\ hand' = [hand EXCEPT ![d] = Range(buffer[live])]
  /\ buffer' = [buffer EXCEPT ![live] = <<>>]
  /\ Goto(d, IF Held(d)' = {} THEN "ack" ELSE "flush")
  /\ UNCHANGED <<live, made, guard, stopping, counted, places, flushes, marks, waits,
                 events, noThread, delivered, rehomed>>
-----------------------------------------------------------------------------
Recording(p) ==
  \/ LookUp(p) \/ MakeQueue(p) \/ StartWriter(p) \/ NoThread(p) \/ WriteHere(p)
  \/ PutEvent(p) \/ QueueFull(p) \/ CheckQueue(p) \/ TakeOrphan(p) \/ PutRehomed(p)

Flushing(t) ==
  \/ Flush(t) \/ Written(t) \/ WriteFailed(t) \/ ClaimGap(t) \/ GapRow(t)
  \/ Acknowledge(t)

Abandoning(t) == EmptyQueue(t) \/ WriteLeftover(t)

Running(w) ==
  \/ Take(w) \/ Collected(w) \/ Discard(w) \/ Flushing(w) \/ KeepGoing(w)
  \/ Leave(w) \/ Abandoning(w) \/ CloseConnection(w)

StoppingIt(s) == Detach(s) \/ Signal(s) \/ Join(s) \/ Abandoning(s) \/ Forget(s)

Next ==
  \/ \E p \in Producer : Record(p) \/ Recording(p)
  \/ \E w \in Writer : Running(w)
  \/ \E s \in Stopper : Stop(s) \/ StoppingIt(s)
  \/ \E f \in Waiter : FlushCall(f) \/ FlushMark(f)
  \/ \E d \in Drainer : Drain(d) \/ Flushing(d)

Spec == Init /\ [][Next]_vars

(***************************************************************************)
(* Fairness: a thread in a call, or a writer, keeps running; the database  *)
(* answers or fails, a receiver returns, a join has a deadline.  Nobody    *)
(* has to record, stop, flush or drain anything.                           *)
(***************************************************************************)
FairSpec ==
  /\ Spec
  /\ \A p \in Producer : WF_vars(Recording(p))
  /\ \A w \in Writer : WF_vars(Running(w))
  /\ \A s \in Stopper : WF_vars(StoppingIt(s))
  /\ \A f \in Waiter : WF_vars(FlushMark(f))
  /\ \A d \in Drainer : WF_vars(Flushing(d))
-----------------------------------------------------------------------------
Label ==
  {"absent", "unmade", "idle", "look", "here", "start", "put", "check", "rehome", "relook",
   "restart", "reput", "take", "flush", "write", "gap", "gapwrite", "ack", "exit",
   "abandon", "leftover", "close", "gone", "detach", "signal", "join", "forget",
   "mark", "wait", "over"}

\* Every variable has its type.
TypeOK ==
  /\ live \in 0..made /\ made \in 0..MaxWriters
  /\ buffer \in [Writer -> Seq(Item)]
  /\ \A q \in Writer : Len(buffer[q]) <= BufferSize
  /\ guard \in Producer \cup {Nobody} /\ stopping \in BOOLEAN
  /\ dropped \in Int /\ touched \subseteq Thread /\ events \in 0..MaxEvents[Cast]
  /\ pc \in [Thread -> Label]
  /\ queue \in [Thread -> 0..MaxWriters]
  /\ orphan \in [Producer -> 0..MaxWriters]
  /\ own \in [Producer -> Event \cup {None}]
  /\ hand \in [Thread -> SUBSET Item]
  /\ inside \in [Stopper -> 0..MaxWriters]
  /\ before \in [Thread -> Nat] /\ claim \in [Thread -> Nat]
  /\ failures \in [Writer -> 0..FailureLimit-1] /\ suspended \in [Writer -> BOOLEAN]
  /\ noThread \in 0..MaxNoThread /\ reported \in Nat
  /\ delivered \subseteq Event /\ lost \subseteq Event /\ rehomed \subseteq Event
  /\ released \subseteq Waiter /\ since \in [Waiter -> SUBSET Event]
  /\ open \subseteq Writer /\ unmarked \subseteq Writer

(***************************************************************************)
(* No event disappears and none is dealt with twice: it is in one thread's *)
(* hands, in one queue, written, or counted - through detached queues,     *)
(* drains on three threads at once and writes that partly fail.            *)
(***************************************************************************)
EventsAccounted ==
  \A e \in 1..events :
      Cardinality({t \in Thread : e \in hand[t]})
    + Cardinality({q \in Writer : e \in Range(buffer[q])})
    + Cardinality({S \in {delivered, lost} : e \in S}) = 1

(***************************************************************************)
(* The counter, the claims being written and the gap rows add up to the    *)
(* events that were lost: two flushes never report the same hole, and a    *)
(* gap row that is refused gives its claim back (_record_gap).  A writer   *)
(* that cannot be started may count one drop too many, never too few.      *)
(***************************************************************************)
DropsAddUp ==
  LET told == dropped + SumFunction(claim) + reported
  IN  /\ dropped >= 0
      /\ told >= Cardinality(lost)
      /\ told <= Cardinality(lost) + noThread

\* Some thread will still empty this queue.
Coming(q) ==
  \/ pc[q] \in {"take", "flush", "write", "gap", "gapwrite", "ack", "check", "exit", "abandon"}
  \/ \E s \in Stopper : queue[s] = q /\ pc[s] \in {"signal", "join", "abandon"}
  \/ \E p \in Producer :
       \/ queue[p] = q /\ (pc[p] \in {"start", "restart"} \/ (pc[p] = "check" /\ live # q))
       \/ orphan[p] = q /\ pc[p] \in {"rehome", "relook", "restart", "reput"}

(***************************************************************************)
(* What record() itself has put is never left in a queue nobody drains,    *)
(* whatever detaches the queue between its lookup and its put: only events *)
(* _rehome() has moved can be, and those a failed thread start leaves.     *)
(***************************************************************************)
RecordLeavesNothingBehind ==
  noThread = 0 =>
    \A q \in Writer :
      \A e \in Range(buffer[q]) \cap Event : Coming(q) \/ e \in rehomed

(***************************************************************************)
(* A released flush() was told the truth: everything recorded before it    *)
(* was called is written or counted - while no stop() and no drain_once()  *)
(* has taken items the writer had not reached, and no thread failed to     *)
(* start, which leaves them in a queue without a writer.                   *)
(***************************************************************************)
FlushMeansWritten ==
  noThread = 0 /\ (\A t \in Stopper \cup Drainer : pc[t] \in {"absent", "idle"}) =>
    \A f \in released : since[f] \subseteq delivered \cup lost

(***************************************************************************)
(* A writer that opened a connection closes it on its way out, and no      *)
(* mark outlives the call or the writer that made it, though the marks are *)
(* dropped by whoever stops the log and thread idents are reused           *)
(* (_took_the_touch, _forget_touch) - but for a writer whose receiver      *)
(* stopped another writer's queue.                                         *)
(***************************************************************************)
NothingStaysOpen ==
  /\ \A w \in Writer \ unmarked : pc[w] = "gone" => w \notin open
  /\ \A t \in touched : pc[t] \notin {"absent", "unmade", "idle", "over", "gone"}

(***************************************************************************)
(* A writer whose queue was detached comes to an end, whatever the flag    *)
(* says by then: "it leaves when its own buffer is no longer the           *)
(* recorder's queue" (CHANGELOG).                                          *)
(***************************************************************************)
DetachedWritersLeave ==
  \A w \in Writer : (pc[w] = "take" /\ live # w) ~> (pc[w] = "gone")

\* A recorded event is written, counted, or was moved by _rehome().
EventsAreSettled ==
  \A e \in Event : (e <= events) ~> (e \in delivered \cup lost \cup rehomed)

(***************************************************************************)
(* What the log promises who records: an event that is written or counted  *)
(* stays so and is never both, and gap rows tell of no drops that were not *)
(* - whichever threads flush, drain, rescue and abandon beside each other. *)
(***************************************************************************)
Account == INSTANCE EventAccount WITH
             recorded <- 1..events, written <- delivered, told <- reported,
             unstarted <- noThread

KeepsTheAccount == Account!Spec
-----------------------------------------------------------------------------
(***************************************************************************)
(* What comments and documentation say and the code does not do.           *)
(***************************************************************************)

\* _rehome(): "everything in it lands somewhere that will be drained".
EverythingWillBeDrained ==
  \A q \in Writer : Range(buffer[q]) \cap Event # {} => Coming(q)

\* stop(): called from a writer it leaves the mark of that thread, which "has that
\* mark to consume on its way out"; and _run() closes the connection by it.
WritersCloseTheirConnections ==
  \A w \in Writer : pc[w] = "gone" => w \notin open
=============================================================================
