------------------------------ MODULE Delivery ------------------------------
(***************************************************************************)
(* The queue of outbound Telegram messages and the workers that consume it *)
(* (delivery.py), together with the parts of a worker process that decide  *)
(* what happens to a message: the start and the shutdown sequence of       *)
(* start_tgbot, the outcome bot.send_raw reports for each send, and the    *)
(* tgbot_reclaim command an operator runs.                                 *)
(*                                                                         *)
(* Redis holds the list `queue' and one list `processing[w]' per worker    *)
(* name.  Every Redis command is one step; between two commands of one     *)
(* thread any other process may run.  A Redis command can fail before it   *)
(* takes effect, or take effect and lose its reply.                        *)
(***************************************************************************)
EXTENDS Integers, FiniteSets, SequencesExt

CONSTANTS
  Worker,          \* the worker names, each with a processing list of its own
  NoWorker,        \* "no tgbot_reclaim is running"
  MaxMessages,     \* bound: how many messages producers push
  Kinds,           \* what producers push, out of Kind
  MaxInFlight,     \* MAX_IN_FLIGHT; 0 is "no bound"
  HasLmove,        \* whether the Redis server knows LMOVE (6.2+)
  RequireCrashSafe,\* REQUIRE_CRASH_SAFE
  MayDisable,      \* whether ENABLED may be turned off under a running worker
  Operator,        \* whether somebody runs tgbot_reclaim
  MaxCrashes,      \* bound: processes killed
  MaxFaults,       \* bound: Redis errors and joins that time out
  MaxStops         \* bound: graceful shutdowns

ASSUME BoundsAreNaturals ==
  {MaxMessages, MaxInFlight, MaxCrashes, MaxFaults, MaxStops} \subseteq Nat
ASSUME FlagsAreBooleans ==
  {HasLmove, RequireCrashSafe, MayDisable, Operator} \subseteq BOOLEAN
ASSUME NoWorkerIsNoName == NoWorker \notin Worker

VARIABLES
  queue,       \* the Redis list messages are pushed to
  processing,  \* [Worker -> the Redis list of messages that worker has taken]
  pushed,      \* how many messages were pushed; message n is the n-th push
  kind,        \* [Message -> what a consumer will make of it]
  main,        \* [Worker -> the phase of the process's main thread]
  pc,          \* [Worker -> where the consumer thread is]
  reliable,    \* [Worker -> _reliable: LMOVE has not been found missing]
  reclaimed,   \* [Worker -> the consumer's own list has been settled]
  upgraded,    \* [Worker -> the process reads the payloads it once refused]
  raw,         \* [Worker -> the message the consumer has in its hands]
  inFlight,    \* [Worker -> _in_flight]
  sending,     \* [Worker -> [Message -> sends the bot loop has not finished]]
  finished,    \* [Worker -> _finished: reports the consumer has not drained]
  op,          \* the worker whose list tgbot_reclaim is draining
  crashes, faults, stops,
  settled,     \* history: messages whose outcome is final
  repeated     \* history: messages whose send ran to its end more than once

vars == <<queue, processing, pushed, kind, main, pc, reliable, reclaimed,
          upgraded, raw, inFlight, sending, finished, op, crashes, faults,
          stops, settled, repeated>>

redis   == <<queue, processing>>
input   == <<pushed, kind>>
mode    == <<reliable, reclaimed, upgraded>>
sends   == <<inFlight, sending, finished>>
bounds  == <<crashes, faults, stops>>
history == <<settled, repeated>>
-----------------------------------------------------------------------------
Message   == 1..MaxMessages
NoMessage == 0

(***************************************************************************)
(* What dispatch() can make of a payload.  "kept" is a pickle ALLOW_PICKLE   *)
(* refuses or an envelope of a newer version; "broken" is everything else  *)
(* nothing can read, or that names no method of the Telegram API.          *)
(***************************************************************************)
Kind == {"sendable", "kept", "broken"}
ASSUME KindsAreKinds == Kinds \subseteq Kind

\* A report says whether the message may leave the processing list.
Report == [msg : Message, delivered : BOOLEAN]

MainPhase == {"down", "preflight", "running", "joining", "closing", "collecting"}

ConsumerPc == {"off", "preflight", "queued", "starting", "top", "collect",
               "hold", "retrying", "pop", "dispatch", "ack", "last"}

\* The main thread has called delivery.stop().
Stopping(w) == main[w] \in {"joining", "closing", "collecting"}

InReclaim(w) == pc[w] \in {"preflight", "starting", "retrying"}

\* Mutant: takes one send more than the bound.
AtCapacityOneTooMany(w) == MaxInFlight > 0 /\ inFlight[w] > MaxInFlight

\* at_capacity()
AtCapacity(w) == MaxInFlight > 0 /\ inFlight[w] >= MaxInFlight

\* One Redis command, or one join, goes wrong.
Fault == faults < MaxFaults /\ faults' = faults + 1 /\ UNCHANGED <<crashes, stops>>
NoFault == UNCHANGED bounds

\* Mutant: LEFT -> LEFT, which turns the list around on its way back.
MoveBackReversed(w) ==
  /\ processing[w] # <<>>
  /\ queue' = <<Head(processing[w])>> \o queue
  /\ processing' = [processing EXCEPT ![w] = Tail(@)]

\* Mutant: the message is pushed back and never taken off the source list.
MoveBackCopies(w) ==
  /\ processing[w] # <<>>
  /\ Last(processing[w]) \notin Range(queue)
  /\ queue' = <<Last(processing[w])>> \o queue
  /\ UNCHANGED processing

\* LMOVE / RPOPLPUSH from the right of w's processing list to the queue's left.
MoveBack(w) ==
  /\ processing[w] # <<>>
  /\ queue' = <<Last(processing[w])>> \o queue
  /\ processing' = [processing EXCEPT ![w] = Front(@)]

Goto(w, label) == pc' = [pc EXCEPT ![w] = label]

\* A send of m has come to its end: sent, failed or given up on.
SendEnds(m) ==
  /\ settled' = settled \cup {m}
  /\ repeated' = IF m \in settled THEN repeated \cup {m} ELSE repeated

\* A verdict other than a send makes m final.
Dismiss(m) == settled' = settled \cup {m} /\ UNCHANGED repeated
-----------------------------------------------------------------------------
Init ==
  /\ queue = <<>>
  /\ processing = [w \in Worker |-> <<>>]
  /\ pushed = 0
  /\ kind \in [Message -> Kinds]
  /\ main = [w \in Worker |-> "down"]
  /\ pc = [w \in Worker |-> "off"]
  /\ reliable = [w \in Worker |-> TRUE]
  /\ reclaimed = [w \in Worker |-> FALSE]
  /\ upgraded = [w \in Worker |-> FALSE]
  /\ raw = [w \in Worker |-> NoMessage]
  /\ inFlight = [w \in Worker |-> 0]
  /\ sending = [w \in Worker |-> [m \in Message |-> 0]]
  /\ finished = [w \in Worker |-> <<>>]
  /\ op = NoWorker
  /\ crashes = 0 /\ faults = 0 /\ stops = 0
  /\ settled = {} /\ repeated = {}

(***************************************************************************)
(* Producers.  A write whose reply is lost has been applied all the same,  *)
(* whatever the producer records; one that was not applied changes nothing.*)
(***************************************************************************)
Push ==
  /\ pushed < MaxMessages
  /\ pushed' = pushed + 1
  /\ queue' = Append(queue, pushed')
  /\ UNCHANGED <<processing, kind, main, pc, mode, raw, sends, op, bounds, history>>
-----------------------------------------------------------------------------
(***************************************************************************)
(* The life of a worker process.                                           *)
(***************************************************************************)

\* A new process under the name w: the deploy may have upgraded its code or
\* settings, and nothing in its memory survives from the previous one.
Start(w) ==
  /\ main[w] = "down"
  /\ main' = [main EXCEPT ![w] = IF RequireCrashSafe THEN "preflight" ELSE "running"]
  /\ Goto(w, IF RequireCrashSafe THEN "preflight" ELSE "queued")
  /\ \E new \in {upgraded[w], TRUE} : upgraded' = [upgraded EXCEPT ![w] = new]
  /\ reliable' = [reliable EXCEPT ![w] = TRUE]
  /\ reclaimed' = [reclaimed EXCEPT ![w] = FALSE]
  /\ UNCHANGED <<redis, input, raw, sends, op, bounds, history>>

\* start_consuming, run by the loop: refused once the shutdown has begun.
StartConsumer(w) ==
  /\ pc[w] = "queued"
  /\ \/ main[w] = "running" /\ Goto(w, "starting")
     \/ main[w] = "closing" /\ Goto(w, "off")
  /\ UNCHANGED <<redis, input, main, mode, raw, sends, op, bounds, history>>

\* SIGTERM: the loop stops and the main thread reaches its finally.
Stop(w) ==
  /\ main[w] = "running"
  /\ stops < MaxStops
  /\ stops' = stops + 1
  /\ main' = [main EXCEPT ![w] = "joining"]
  /\ UNCHANGED <<redis, input, pc, mode, raw, sends, op, crashes, faults, history>>

\* thread.join(timeout) returns, with the consumer gone or without it.
Joined(w) ==
  /\ main[w] = "joining"
  /\ main' = [main EXCEPT ![w] = "closing"]
  /\ IF pc[w] \in {"off", "queued"} THEN NoFault ELSE Fault
  /\ UNCHANGED <<redis, input, pc, mode, raw, sends, op, history>>

\* bot.close(): everything outstanding was drained or cancelled, or the
\* consumer that outlived its join is still driving the loop and close()
\* refuses to touch it.
Closed(w) ==
  /\ main[w] = "closing"
  /\ pc[w] # "queued"
  /\ \/ \A m \in Message : sending[w][m] = 0
     \/ pc[w] = "dispatch"
  /\ main' = [main EXCEPT ![w] = "collecting"]
  /\ UNCHANGED <<redis, input, pc, mode, raw, sends, op, bounds, history>>

\* What ends with the process, whichever way it ends.
Gone(w) ==
  /\ main' = [main EXCEPT ![w] = "down"]
  /\ Goto(w, "off")
  /\ raw' = [raw EXCEPT ![w] = NoMessage]
  /\ inFlight' = [inFlight EXCEPT ![w] = 0]
  /\ sending' = [sending EXCEPT ![w] = [m \in Message |-> 0]]
  /\ finished' = [finished EXCEPT ![w] = <<>>]
  /\ UNCHANGED <<redis, input, mode, op, history>>

\* Mutant: nobody collects what the drain finished.
ExitUncollected(w) ==
  /\ main[w] = "collecting"
  /\ Gone(w)
  /\ NoFault

Exit(w) ==
  /\ main[w] = "collecting"
  /\ finished[w] = <<>>
  /\ Gone(w)
  /\ NoFault

Crash(w) ==
  /\ main[w] # "down"
  /\ crashes < MaxCrashes
  /\ crashes' = crashes + 1
  /\ Gone(w)
  /\ UNCHANGED <<faults, stops>>
-----------------------------------------------------------------------------
(***************************************************************************)
(* reclaim(), called before the consumer exists (REQUIRE_CRASH_SAFE), as   *)
(* the consumer starts, and again from its loop until the list is settled. *)
(***************************************************************************)

\* Where each caller goes on, knowing whether the list is settled and
\* whether the server turned out to have no LMOVE.
AfterReclaim(w, isSettled, downgraded) ==
  /\ reliable' = [reliable EXCEPT ![w] = @ /\ ~downgraded]
  /\ CASE pc[w] = "preflight" /\ downgraded ->     \* CommandError
            Goto(w, "off") /\ main' = [main EXCEPT ![w] = "down"] /\ UNCHANGED reclaimed
       [] pc[w] = "preflight" /\ ~downgraded ->
            Goto(w, "queued") /\ main' = [main EXCEPT ![w] = "running"] /\ UNCHANGED reclaimed
       [] OTHER ->
            /\ Goto(w, IF pc[w] = "starting" THEN "top" ELSE "pop")
            /\ reclaimed' = [reclaimed EXCEPT ![w] = isSettled]
            /\ UNCHANGED main
  /\ UNCHANGED upgraded

\* One turn of the walk, which any empty reply ends: no payload is empty, for
\* whatever serializer wrote it packed a function name.
ReclaimMove(w) ==
  /\ InReclaim(w)
  /\ HasLmove
  /\ MoveBack(w)
  /\ UNCHANGED <<input, main, pc, mode, raw, sends, op, bounds, history>>

\* Mutant: the first message back is taken for the whole list.
ReclaimSettledEarly(w) ==
  /\ InReclaim(w)
  /\ AfterReclaim(w, TRUE, ~HasLmove)
  /\ UNCHANGED <<redis, input, raw, sends, op, bounds, history>>

ReclaimSettled(w) ==
  /\ InReclaim(w)
  /\ HasLmove => processing[w] = <<>>
  /\ AfterReclaim(w, TRUE, ~HasLmove)
  /\ UNCHANGED <<redis, input, raw, sends, op, bounds, history>>

\* Any other error ends the walk early, perhaps with one more message moved.
ReclaimFailed(w) ==
  /\ InReclaim(w)
  /\ Fault
  /\ \/ UNCHANGED redis
     \/ HasLmove /\ MoveBack(w)
  /\ AfterReclaim(w, FALSE, FALSE)
  /\ UNCHANGED <<input, raw, sends, op, history>>
-----------------------------------------------------------------------------
(***************************************************************************)
(* Taking finished sends off the processing list.                          *)
(***************************************************************************)

\* acknowledge(): LREM of one copy; a failure is logged and swallowed.
Acknowledge(w, m) ==
  IF reliable[w]
  THEN /\ UNCHANGED queue
       /\ \/ /\ processing' = [processing EXCEPT ![w] = RemoveFirst(@, m)]
             /\ NoFault
          \/ UNCHANGED processing /\ Fault
  ELSE UNCHANGED redis /\ NoFault

\* One turn of collect(): by the consumer, or by the main thread at the end.
CollectOne(w) ==
  /\ finished[w] # <<>>
  /\ finished' = [finished EXCEPT ![w] = Tail(@)]
  /\ inFlight' = [inFlight EXCEPT ![w] = @ - 1]
  /\ IF Head(finished[w]).delivered
     THEN Acknowledge(w, Head(finished[w]).msg)
     ELSE UNCHANGED redis /\ NoFault
  /\ UNCHANGED <<input, main, mode, raw, sending, op, history>>

MainCollect(w) ==
  /\ main[w] = "collecting"
  /\ CollectOne(w)
  /\ UNCHANGED pc

\* The consumer drains in collect() and, one report at a time, while it
\* waits in hold_for_capacity().
Collect(w) ==
  /\ \/ pc[w] \in {"collect", "last"}
     \/ pc[w] = "hold" /\ AtCapacity(w) /\ ~Stopping(w)
  /\ CollectOne(w)
  /\ UNCHANGED pc
-----------------------------------------------------------------------------
(***************************************************************************)
(* The consumer thread: BlpopDelivery.run().                               *)
(***************************************************************************)

\* Steps that only move the thread along.
ConsumerMoves(w, from, to) ==
  /\ pc[w] = from
  /\ Goto(w, to)
  /\ UNCHANGED <<redis, input, main, mode, raw, sends, op, bounds, history>>

Top(w) == ConsumerMoves(w, "top", IF Stopping(w) THEN "last" ELSE "collect")

Collected(w) == finished[w] = <<>> /\ ConsumerMoves(w, "collect", "hold")

\* Mutant: the loop reclaims on every turn, settled or not.
LeaveHoldReclaiming(w) ==
  /\ Stopping(w) \/ ~AtCapacity(w)
  /\ ConsumerMoves(w, "hold", IF Stopping(w) THEN "last" ELSE "retrying")

\* Out of hold_for_capacity(): a stop releases it as well as a free slot.
LeaveHold(w) ==
  /\ Stopping(w) \/ ~AtCapacity(w)
  /\ ConsumerMoves(w, "hold", IF Stopping(w) THEN "last"
                              ELSE IF reclaimed[w] THEN "pop" ELSE "retrying")

Finish(w) == finished[w] = <<>> /\ ConsumerMoves(w, "last", "off")

\* Mutant: an old server is read by peeking, with nothing to take the
\* message off the queue afterwards.
PopPeeks(w) ==
  /\ pc[w] = "pop"
  /\ queue # <<>>
  /\ reliable[w] => HasLmove
  /\ queue' = IF reliable[w] THEN Tail(queue) ELSE queue
  /\ processing' = IF reliable[w]
                   THEN [processing EXCEPT ![w] = Append(@, Head(queue))]
                   ELSE processing
  /\ Goto(w, "dispatch")
  /\ raw' = [raw EXCEPT ![w] = Head(queue)]
  /\ UNCHANGED <<input, main, mode, sends, op, bounds, history>>

\* BLMOVE to the processing list, or BLPOP once the server is known to be old.
Pop(w) ==
  /\ pc[w] = "pop"
  /\ queue # <<>>
  /\ reliable[w] => HasLmove
  /\ queue' = Tail(queue)
  /\ processing' = IF reliable[w]
                   THEN [processing EXCEPT ![w] = Append(@, Head(queue))]
                   ELSE processing
  /\ \/ /\ Goto(w, "dispatch")
        /\ raw' = [raw EXCEPT ![w] = Head(queue)]
        /\ NoFault
     \/ Goto(w, "top") /\ UNCHANGED raw /\ Fault        \* the reply was lost
  /\ UNCHANGED <<input, main, mode, sends, op, history>>

\* The pop timed out on an empty queue, or raised: "unknown command" on an
\* old server this consumer has not recognized yet, or a failed connection.
PopNothing(w) ==
  /\ pc[w] = "pop"
  /\ IF queue = <<>> \/ (reliable[w] /\ ~HasLmove) THEN NoFault ELSE Fault
  /\ Goto(w, "top")
  /\ UNCHANGED <<redis, input, main, mode, raw, sends, op, history>>

\* dispatch(): a message nobody here will send.
Drop(w) ==
  /\ pc[w] = "dispatch"
  /\ kind[raw[w]] = "broken"
  /\ Dismiss(raw[w])
  /\ Goto(w, "ack")
  /\ UNCHANGED <<redis, input, main, mode, raw, sends, op, bounds>>

Keep(w) ==
  /\ pc[w] = "dispatch"
  /\ kind[raw[w]] = "kept" /\ ~upgraded[w]
  /\ Goto(w, "top")
  /\ raw' = [raw EXCEPT ![w] = NoMessage]
  /\ UNCHANGED <<redis, input, main, mode, sends, op, bounds, history>>

Ack(w) ==
  /\ pc[w] = "ack"
  /\ Acknowledge(w, raw[w])
  /\ Goto(w, "top")
  /\ raw' = [raw EXCEPT ![w] = NoMessage]
  /\ UNCHANGED <<input, main, mode, sends, op, history>>
-----------------------------------------------------------------------------
(***************************************************************************)
(* _hand_over() and what bot.send_raw makes of the call.  The loop runs in *)
(* the main thread while the process is "running"; in "joining" and after  *)
(* close() nothing runs it and the consumer drives the send itself.        *)
(***************************************************************************)
InHandOver(w) ==
  /\ pc[w] = "dispatch"
  /\ kind[raw[w]] = "sendable" \/ (kind[raw[w]] = "kept" /\ upgraded[w])

Handled(w) ==
  /\ InHandOver(w)
  /\ Goto(w, "top")
  /\ raw' = [raw EXCEPT ![w] = NoMessage]
  /\ UNCHANGED <<redis, input, main, mode, op, bounds>>

\* Mutant: acknowledged as soon as the coroutine is scheduled (before 3.1.0).
ScheduledIsDone(w) ==
  /\ main[w] = "running"
  /\ InHandOver(w)
  /\ Goto(w, "ack")
  /\ inFlight' = [inFlight EXCEPT ![w] = @ + 1]
  /\ sending' = [sending EXCEPT ![w][raw[w]] = @ + 1]
  /\ UNCHANGED <<redis, input, main, mode, raw, op, bounds, finished, history>>

\* The send became a task on the running loop.
Scheduled(w) ==
  /\ main[w] = "running"
  /\ Handled(w)
  /\ inFlight' = [inFlight EXCEPT ![w] = @ + 1]
  /\ sending' = [sending EXCEPT ![w][raw[w]] = @ + 1]
  /\ UNCHANGED <<finished, history>>

\* The consumer drove the send to its end before the handler returned.
DrivenInline(w) ==
  /\ main[w] \in {"joining", "collecting"}
  /\ Handled(w)
  /\ inFlight' = [inFlight EXCEPT ![w] = @ + 1]
  /\ finished' = [finished EXCEPT ![w] = Append(@, [msg |-> raw[w], delivered |-> TRUE])]
  /\ SendEnds(raw[w])
  /\ UNCHANGED sending

\* Mutant: a refusal is reported as a finished send.
RefusedIsDelivered(w) ==
  /\ main[w] \in {"closing", "collecting"} \/ MayDisable
  /\ Handled(w)
  /\ inFlight' = [inFlight EXCEPT ![w] = @ + 1]
  /\ finished' = [finished EXCEPT ![w] = Append(@, [msg |-> raw[w], delivered |-> TRUE])]
  /\ UNCHANGED <<sending, history>>

\* Refused outright: ENABLED is off, or the bot is closing or its loop gone.
Refused(w) ==
  /\ main[w] \in {"closing", "collecting"} \/ MayDisable
  /\ Handled(w)
  /\ inFlight' = [inFlight EXCEPT ![w] = @ + 1]
  /\ finished' = [finished EXCEPT ![w] = Append(@, [msg |-> raw[w], delivered |-> FALSE])]
  /\ UNCHANGED <<sending, history>>

\* Mutant: the cancelled hand-over keeps its slot.
CancelledInlineLeaks(w) ==
  /\ main[w] \in {"joining", "collecting"}
  /\ Handled(w)
  /\ inFlight' = [inFlight EXCEPT ![w] = @ + 1]
  /\ UNCHANGED <<sending, finished, history>>

\* CancelledError out of the handler: the slot is given back on the spot.
CancelledInline(w) ==
  /\ main[w] \in {"joining", "collecting"}
  /\ Handled(w)
  /\ UNCHANGED <<sends, history>>

\* Any other exception out of the handler: the slot too, and the message goes.
HandlerFailed(w) ==
  /\ InHandOver(w)
  /\ Dismiss(raw[w])
  /\ Goto(w, "ack")
  /\ UNCHANGED <<redis, input, main, mode, raw, sends, op, bounds>>

HandOver(w) ==
  Scheduled(w) \/ DrivenInline(w) \/ Refused(w) \/ CancelledInline(w) \/ HandlerFailed(w)

\* Something steps the bot's loop: polling, the drain, or an inline send.
LoopTurns(w) ==
  \/ main[w] \in {"running", "closing"}
  \/ main[w] \in {"joining", "collecting"} /\ InHandOver(w)

\* Mutant: no latch, so a send that is over may report again.
CompleteUnlatched(w, m) ==
  /\ sending[w][m] > 0 \/ m \in settled
  /\ LoopTurns(w)
  /\ sending' = [sending EXCEPT ![w][m] = @ - 1]
  /\ finished' = [finished EXCEPT ![w] = Append(@, [msg |-> m, delivered |-> TRUE])]
  /\ SendEnds(m)
  /\ UNCHANGED <<redis, input, main, pc, mode, raw, inFlight, op, bounds>>

\* A scheduled send ends and its done-callback reports it, once.
Complete(w, m) ==
  /\ sending[w][m] > 0
  /\ LoopTurns(w)
  /\ sending' = [sending EXCEPT ![w][m] = @ - 1]
  /\ finished' = [finished EXCEPT ![w] = Append(@, [msg |-> m, delivered |-> TRUE])]
  /\ SendEnds(m)
  /\ UNCHANGED <<redis, input, main, pc, mode, raw, inFlight, op, bounds>>

\* _drain() ran out of time: the task is cancelled and reports nothing.
CancelSend(w, m) ==
  /\ sending[w][m] > 0
  /\ main[w] = "closing"
  /\ sending' = [sending EXCEPT ![w][m] = @ - 1]
  /\ UNCHANGED <<redis, input, main, pc, mode, raw, inFlight, finished, op, bounds, history>>
-----------------------------------------------------------------------------
(***************************************************************************)
(* tgbot_reclaim: an operator who has seen that a worker is down names it. *)
(* Nothing stops the worker from coming back while the command walks its   *)
(* list; --limit, an error or an empty list ends the walk.                 *)
(***************************************************************************)
OpNames(w) ==
  /\ Operator
  /\ op = NoWorker
  /\ main[w] = "down" /\ processing[w] # <<>>
  /\ op' = w
  /\ UNCHANGED <<redis, input, main, pc, mode, raw, sends, bounds, history>>

OpMoves(w) ==
  /\ op = w
  /\ MoveBack(w)
  /\ UNCHANGED <<input, main, pc, mode, raw, sends, op, bounds, history>>

OpEnds ==
  /\ op # NoWorker
  /\ op' = NoWorker
  /\ UNCHANGED <<redis, input, main, pc, mode, raw, sends, bounds, history>>
-----------------------------------------------------------------------------
Reclaim(w) == ReclaimMove(w) \/ ReclaimSettled(w) \/ ReclaimFailed(w)

Consumer(w) ==
  \/ Top(w) \/ Collect(w) \/ Collected(w) \/ LeaveHold(w) \/ Finish(w)
  \/ Pop(w) \/ PopNothing(w) \/ Drop(w) \/ Keep(w) \/ Ack(w) \/ HandOver(w)

Lifecycle(w) ==
  \/ Start(w) \/ StartConsumer(w) \/ Stop(w) \/ Joined(w) \/ Closed(w)
  \/ MainCollect(w) \/ Exit(w) \/ Crash(w)

Next ==
  \/ Push
  \/ \E w \in Worker : Lifecycle(w) \/ Reclaim(w) \/ Consumer(w)
  \/ \E w \in Worker, m \in Message : Complete(w, m) \/ CancelSend(w, m)
  \/ \E w \in Worker : OpNames(w) \/ OpMoves(w)
  \/ OpEnds

Spec == Init /\ [][Next]_vars
(***************************************************************************)
(* Fairness.  A live thread keeps running, and nothing else is promised    *)
(* about it: a pop may time out for ever on an empty queue.  A send on a   *)
(* turning loop ends, since its retries are counted and every request has  *)
(* a deadline.  A worker that is down is started again by whatever runs    *)
(* it.  Producers, operators, faults, crashes and shutdowns owe nothing.   *)
(***************************************************************************)
Fairness ==
  /\ \A w \in Worker :
       /\ WF_vars(Consumer(w) \/ Reclaim(w))
       /\ WF_vars(Start(w)) /\ WF_vars(StartConsumer(w))
       /\ WF_vars(Joined(w)) /\ WF_vars(Closed(w))
       /\ WF_vars(MainCollect(w)) /\ WF_vars(Exit(w))
  /\ \A w \in Worker, m \in Message : WF_vars(Complete(w, m))
  /\ WF_vars(OpEnds)

FairSpec == Spec /\ Fairness
-----------------------------------------------------------------------------
\* Every variable has its type.
TypeOK ==
  /\ queue \in Seq(Message)
  /\ processing \in [Worker -> Seq(Message)]
  /\ pushed \in 0..MaxMessages
  /\ kind \in [Message -> Kind]
  /\ main \in [Worker -> MainPhase]
  /\ pc \in [Worker -> ConsumerPc]
  /\ reliable \in [Worker -> BOOLEAN]
  /\ reclaimed \in [Worker -> BOOLEAN]
  /\ upgraded \in [Worker -> BOOLEAN]
  /\ raw \in [Worker -> Message \cup {NoMessage}]
  /\ inFlight \in [Worker -> Int]
  /\ sending \in [Worker -> [Message -> Nat]]
  /\ finished \in [Worker -> Seq(Report)]
  /\ op \in Worker \cup {NoWorker}
  /\ crashes \in 0..MaxCrashes /\ faults \in 0..MaxFaults /\ stops \in 0..MaxStops
  /\ settled \subseteq Message /\ repeated \subseteq settled

\* The messages some Redis list holds.
Listed == Range(queue) \cup UNION {Range(processing[w]) : w \in Worker}

(***************************************************************************)
(* A pushed message whose outcome is not final is in Redis: no kill, lost  *)
(* reply, shutdown, refusal or late acknowledgement loses it, where the    *)
(* server has LMOVE.  (Delivery.md: "delivery is at-least-once".)          *)
(***************************************************************************)
NothingIsLost ==
  HasLmove => \A m \in 1..pushed : m \in settled \/ m \in Listed

(***************************************************************************)
(* A message is never in two places: reclaims, tgbot_reclaim and pops that *)
(* race move the one copy there is, and an acknowledgement by value takes  *)
(* away that copy and no other message.                                    *)
(***************************************************************************)
OneCopy ==
  /\ IsInjective(queue)
  /\ \A w \in Worker :
       /\ IsInjective(processing[w])
       /\ Range(queue) \cap Range(processing[w]) = {}
       /\ \A v \in Worker \ {w} : Range(processing[v]) \cap Range(processing[w]) = {}

(***************************************************************************)
(* With one worker, what it holds followed by what waits is in the order   *)
(* of the pushes, through every crash and every partial reclaim: "RIGHT->  *)
(* LEFT keeps the original order at the front of the queue" (reclaim).     *)
(***************************************************************************)
PushOrderKept ==
  (\A v, w \in Worker : v = w) =>
    \A w \in Worker :
      LET all == processing[w] \o queue
      IN  \A i, j \in DOMAIN all : i < j => all[i] < all[j]

(***************************************************************************)
(* _in_flight counts the sends still running and the reports not drained:  *)
(* no report is counted twice, no refusal or handler error keeps a slot.   *)
(* A send cancelled by the closing bot keeps its slot in a process whose   *)
(* consumer takes nothing more.                                            *)
(***************************************************************************)
SlotsAccounted ==
  \A w \in Worker :
    LET held == SumFunction(sending[w]) + Len(finished[w])
    IN  /\ inFlight[w] >= held
        /\ main[w] \in {"running", "joining"} => inFlight[w] = held

\* MAX_IN_FLIGHT bounds the sends a worker leaves outstanding at any time.
WithinMaxInFlight ==
  MaxInFlight > 0 => \A w \in Worker : inFlight[w] <= MaxInFlight

(***************************************************************************)
(* Without a kill, a Redis fault, a join that timed out or an operator, a  *)
(* message's send runs to its end at most once, however often the workers  *)
(* are stopped and started: the sends close() drained are collected.       *)
(***************************************************************************)
SentOnceUnlessDisturbed ==
  HasLmove /\ crashes = 0 /\ faults = 0 /\ ~Operator => repeated = {}

\* Without LMOVE no message is ever sent twice, whatever is killed or lost.
AtMostOnceWithoutLmove == ~HasLmove => repeated = {}

(***************************************************************************)
(* A send that is running has its message in its own worker's list, where  *)
(* a kill finds it and no pop does - unless a reclaim was interrupted by a *)
(* Redis fault or an operator named a worker that came back.               *)
(***************************************************************************)
LiveSendsAreHeld ==
  HasLmove /\ faults = 0 /\ ~Operator =>
    \A w \in Worker, m \in Message :
      sending[w][m] > 0 => m \in Range(processing[w])

\* Messages that are nowhere: not in Redis, not in a process, not final.
Lost ==
  {m \in 1..pushed :
     /\ m \notin settled /\ m \notin Listed
     /\ \A w \in Worker : raw[w] # m /\ sending[w][m] = 0}

(***************************************************************************)
(* Without LMOVE, MAX_IN_FLIGHT bounds what one kill costs: the messages   *)
(* popped and not finished, the one being dispatched among them.           *)
(***************************************************************************)
LossBounded ==
  ~HasLmove /\ MaxInFlight > 0 /\ ~MayDisable /\ stops = 0 /\ "kept" \notin Kinds =>
    Cardinality(Lost) <= crashes * MaxInFlight + faults

(***************************************************************************)
(* Whatever is not kept for an upgrade reaches a final outcome; a message  *)
(* that was kept does once every worker reads it: the next start reclaims  *)
(* it.  (On a server with LMOVE, while no call to Redis fails and ENABLED  *)
(* stays on: those leave a message with its worker until the next start.)  *)
(***************************************************************************)
Owed(m) == kind[m] # "kept" \/ \A w \in Worker : upgraded[w]

EventuallySettled ==
  \A m \in Message : (m <= pushed /\ Owed(m)) ~> (m \in settled \/ faults > 0)

(***************************************************************************)
(* What the queue promises producers, with Redis's lists and the verdicts  *)
(* for the abstract state.  It is a promise of servers that have LMOVE.    *)
(***************************************************************************)
Promise == INSTANCE AtLeastOnce WITH
             accepted <- 1..pushed, held <- Listed, final <- settled

KeepsThePromise == Promise!Spec
=============================================================================
