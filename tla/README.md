# Verification of django-redis-aiogram

TLA+ models of `src/django_redis_aiogram`, model-checked with TLC, and theorems
about them whose proofs TLAPS checks. Line numbers in this project refer to the
repository it was written from; `PROJECT.json` maps every definition to its lines.

The package lets a Django application send Telegram messages through Redis. Any
process pushes a message to a Redis list; worker processes (`start_tgbot`) pop
messages, send them through one `aiogram` bot on one event loop per process, and
write what happened to an event log. A web process may instead receive Telegram's
updates in a view and feed them to the same kind of bot.

## 1. Inventory

### Components

| Component | State | Operations | Modelled by |
|---|---|---|---|
| Delivery consumer (`delivery.py`) | the list `telegram:messages`; one processing list per worker name; `_reliable`, `_in_flight`, `_finished` | `run`, `reclaim`, `collect`, `hold_for_capacity`, `dispatch`, `_hand_over`, `acknowledge`, `consume_pending` | `Delivery` |
| Worker lifecycle (`start_tgbot.py`) | main thread's phase, the consumer thread | preflight, `start_consuming`, SIGTERM, join, `bot.close`, last `collect` | `Delivery` |
| `tgbot_reclaim` | none of its own | moves a named worker's list back, one message at a time | `Delivery` |
| Producers (`client.py`: `send_redis`, `send_many`, `asend_redis`, `asend_many`) | none | one RPUSH, or batches of them, and the events about them | `Producers`; one push in `Delivery` |
| Bot send path and loop (`client.py`) | `_loop`, `_runner`, `_updates`, `_sends`, `_draining`, `_closing`, a lock per loop | `_ensure_loop_runs`, `feed_update`, `_schedule`, `_hand_off`, `_stop_runner`, `_drain`, `close` | `BotLoop`; what the consumer sees of it in `Delivery` |
| Webhook (`webhook.py`) | none | the view | its answers in `BotLoop` |
| Event recorder (`recorder.py`) | `_queue`, `_thread`, `_stopping`, `_dropped`, `_touched_database`, the buffers | `record`, `_buffer`, `_rehome`, `_run`, `_flush`, `_record_gap`, `_abandon`, `stop`, `flush`, `drain_once` | `Recorder` |
| Event-log writes (`eventlog.py`) | the table, the calling thread's connection | `write_batch`: bulk insert, fresh connection, bisection, row by row | `EventLog`; its contract in `Recorder` |
| Rate limiting (`throttling.py`) | `_next_free` of each bucket; the maps `_chats` and `_groups`; one limiter per token | `RateLimiter.acquire`, `_for`, `_evict`, `TokenBucket.acquire` | `Throttle` |
| Redis connections (`redis.py`) | one synchronous client; a client per event loop, a generation | get, reset, close, invalidate | `Producers` |
| Settings (`settings.py`) | the resolved settings | lazy resolution, `reset` | `Producers` |
| Heartbeat, healthcheck | one Redis key | write, read its age | no |
| Event pruning | none between batches | batched deletes | no |
| Envelopes, serializers, payloads | none | encode, decode, redact | their verdicts in `Delivery` and `Producers` |
| Instrumentation, context | a context variable | build events | no |
| Checks, admin, models, package surface | none | declarations | no |

### How they interact

A producer and a worker share only the Redis lists. Inside a worker, the consumer
thread hands each message to the bot; the send becomes a task on the loop the main
thread runs, and reports its end back to the consumer through the deque
`_finished`, which is drained on the consumer's thread (or, after the consumer has
returned, by the command). In a web process nobody polls: `_ensure_loop_runs` starts a
runner thread for the loop, requests wait for their updates, and `close()` takes the
runner down again. The consumer, the bot and the producers call
`recorder.record` from any thread; one writer thread per buffer queue writes
batches with `write_batch` and calls the `events_recorded` receivers, which may call the
recorder again. A change of the settings drops the resolved settings and the cached
clients under callers that have read them. `close()`, `stop()` and `reset()` run
against all of this.

### What is hard, and what makes a component correct

* **Delivery**: a kill at any instant, Redis errors before and after a command takes
  effect, a reclaim cut short, an operator who reclaims a worker that comes back, a
  shutdown that outlives its join. Correct means: no message leaves Redis before its
  outcome is known (with LMOVE), no message is in two lists, order is kept, slots of
  `MAX_IN_FLIGHT` neither leak nor are given back twice, an undisturbed shutdown
  repeats nothing, everything readable is eventually sent, and without LMOVE nothing
  is sent twice and the loss is bounded.
* **Bot loop**: who drives the loop, hand-offs and updates submitted while it stops,
  runners that die, outlive their join or are started while a request drives the loop.
  Correct means: what the loop accepted is run or reported before the loop is closed, no
  request waits for ever, 200 means the handlers ran, no thread is left that nobody knows
  of, and `close()` may be repeated.
* **Producers, connections, settings**: a value read before and used after an
  invalidation; a client closed under a call; a write whose reply is lost; a batch that
  fails half way. Correct means: what is recorded of a message is so, no connection
  leaks, and a call that no change overlaps writes where the settings say.
* **Recorder**: threads that looked a queue up before it was detached, a writer that
  outlives its join next to its replacement, batches of which part lands, two flushes
  claiming one drop count, receivers that call `stop()` on the writer's own thread.
  Correct means: every event is written once or counted once, gap rows add up to the
  losses, nothing `record()` put is left where nobody drains it, a released `flush()`
  was told the truth, connections are closed, detached writers leave.
* **Event log**: rows the database refuses, connections dropped before and after the
  commit, a caller's transaction around it all. Correct means: what did not land is
  counted, nothing lands twice but for an unheard commit, a poisoned row costs only
  itself, and the caller's transaction is left alone.
* **Throttle**: concurrent claims on three budgets, buckets looked up before the waits
  and evicted at the cap. Correct means: no bucket admits more than its rate and capacity
  in any window and none makes a send wait for nothing, and a map that must forget a chat
  forgets one whose bucket is idle, if there is such a candidate.

All hazards are listed at their lines in `PROJECT.json`, with the properties that
cover them or the reason why none does.

## 2. Modules

| Module | Contents |
|---|---|
| `Delivery` | the queue, the workers, the operator |
| `AtLeastOnce` | what the queue promises: the abstract specification `Delivery` implements |
| `MCDelivery`, `Delivery*.cfg` | instances for TLC |
| `CollectionLemmas` | facts about appending to, removing from, rotating and ordering sequences, about sums and about minima |
| `DeliveryProofs` | type correctness, the slots, copies and the order of messages |
| `DeliveryPromiseProofs` | no message is lost, the refinement of `AtLeastOnce`, who holds a message and how often it is sent, what an old server may lose |
| `BotLoop` | the bot's event loop, its drivers, webhook requests, sends, `close()` |
| `MCBotLoop`, `BotLoop*.cfg` | instances for TLC |
| `BotLoopProofs` | all six invariants |
| `Producers` | queueing calls over cached clients while the settings change |
| `MCProducers`, `Producers.cfg` | an instance for TLC |
| `ProducersProofs` | all four invariants: types, true records, no leaked connection, where an undisturbed call writes |
| `Recorder` | the event recorder |
| `EventAccount` | what the log promises whoever records an event: the abstract specification `Recorder` implements |
| `MCRecorder`, `Recorder*.cfg` | instances for TLC |
| `RecorderProofs` | all six invariants, the refinement of `EventAccount` |
| `EventLog` | one batch through `write_batch` |
| `MCEventLog`, `EventLog.cfg` | an instance for TLC |
| `EventLogProofs` | all its properties, for a batch of any size |
| `Throttle` | the rate limiter of one bot |
| `MCThrottle`, `Throttle.cfg` | an instance for TLC |
| `ThrottleProofs` | all four invariants: what every bucket admits and when, and what an eviction keeps |

Definitions whose comment begins with "Mutant:" are not part of a specification. Each
is a plausible bug in the definition it precedes; the run of each property fails when
the bug replaces the original, so every property is known to be able to fail.

### Delivery

One step is one Redis command, or one step of a thread that another can observe.

| In the model | In the code |
|---|---|
| `queue`, `processing[w]` | the Redis lists; a push appends on the right, a pop takes from the left and appends to the worker's list, a reclaim moves from the right of that list to the left of the queue |
| message `n`, `kind[n]` | the n-th push, and what `dispatch` will make of it: sendable, kept (a refused pickle or a newer envelope) or broken |
| `main[w]` | `start_tgbot.handle`: preflight, polling, the `finally` with its join, close and collect |
| `pc[w]` | the consumer thread in `BlpopDelivery.run`, and whoever calls `reclaim` |
| `reliable`, `reclaimed` | `_reliable`; whether `reclaim()` has answered that the list is settled |
| `inFlight`, `finished`, `sending` | `_in_flight`, `_finished`, the tasks on the loop |
| `Pop`, `PopNothing` | the blocking move with and without an answer, a timeout, an error before or after it took effect, and the downgrade to BLPOP |
| `HandOver` | `_hand_over` with each outcome of `bot.send_raw`: scheduled, driven inline, refused, cancelled, failed |
| `Complete`, `CancelSend` | the done-callback; `_drain` running out of time |
| `Collect`, `MainCollect`, `Acknowledge` | `collect`, and LREM of one copy |
| `Reclaim...` | the three callers of `reclaim`, differing in where they go on |
| `Op...` | `tgbot_reclaim` |
| `Crash` | SIGKILL: what is in memory is gone, what is in Redis is not |

### BotLoop

A step is what one lock holds together, or one read or write of a flag or of the loop's
state that another thread can come before. A loop runs one ready callback, or the end of
one task, at a step; an update cancelled before its callback ran still becomes a task,
whose cancellation comes behind it in the ready queue.

| In the model | In the code |
|---|---|
| `loop`, `loops[l]` | `_loop`; an event loop with the thread that drives it, its `loop_lock`, its ready queue, its tasks, whether `loop.stop` has run, whether it is closed |
| `runner`, `threads[t]` | `_runner`; a thread started for a loop, which may die before it runs it |
| `owned`, `future`, `updates` | the `owned` a request was told, the future of its update, `_updates` |
| `EnsureLoopRuns`, `AwaitRunner` | `_ensure_loop_runs`, and the wait for `_runner_ready` |
| `CaptureLoop` ... `ForgetUpdate` | `feed_update`: the loop it captures, the refusal, the hand-over or the inline drive under the lock, the wait, and the view's answer |
| `ScheduleSend`, `LockSend`, `DriveSend`, `SendDriven` | `_schedule` from a thread that is not the loop's |
| `HandOff`, `RunCallback`, `StartRefuses` | `_hand_off` and its `start` on the loop's thread |
| `SendReply` | `_schedule` from a handler, on the loop itself |
| `RaiseFlags` ... `LowerFlags` | `close()`: the flags, `_stop_runner` step by step, the drain under the loop's lock, the session, the loop, the flags again |
| `PutBackRunner`, `BreakOff` | a join that timed out; a stop nobody took, met by the drain |
| `collided` | history: who met another driver of its loop |

`handled`, `accepted`, `collided` and `answer` are history, but for `SendReply`, which
uses `accepted` to send each reply once.

### Producers

A version stands for the value of the whole setting; it names a server and a key. A call
is a `send_many` or `asend_many` of one message to a chunk; of one chunk it is a
`send_redis` or `asend_redis`. Coroutines of a loop interleave at their awaits only.

| In the model | In the code |
|---|---|
| `version`, `receiver` | the setting, and which receiver of `setting_changed` runs next |
| `cache`, `seen[c]` | `Settings._cache`, read and written without a lock; what a caller is resolving |
| `slot`, `lock`, `closing` | `_SharedConnection`: `_client`, `_lock`, the client `reset()` closes outside it |
| `entries[l]`, `generation`, `guard` | `_LoopConnections`: `_clients`, `_generation`, `_guard` |
| `clients[k]` | a client: the settings and the loop it was built for, open or closed; a closed one that is used connects again |
| `Call`, `Pack`, `Push`, `PushEnds` | the call, and `queueing` around each chunk: pack, write, and the event it records; a write that raised may have been applied |
| `CancelPush` | a coroutine cancelled at the await of its write, which leaves `queueing` past its `except Exception` |
| `GetShared` ... `CloseLoop` | `get`, `reset`, `close`, `invalidate`, `_forget_closed` |
| `CloseBrokenOff` | a close that raises, which `get` swallows and `close` does not, or in which the coroutine is cancelled |

`quiet`, `stray` and `lapsed` are history. `stray` holds the clients somebody used after they were
closed, which redis-py connects again, and those whose closing was broken off.

### Recorder

Queues come in pairs with writer threads, numbered as they are made. A step ends
wherever another thread can observe or change what was read.

| In the model | In the code |
|---|---|
| `live` | `_queue` and `_thread`, which are assigned together under the guard |
| `buffer[q]` | the `queue.Queue` of that pair: events, and the wakes of `flush()` and `stop()` |
| `Record` ... `CheckQueue` | `record` and `_buffer`: look up or make a queue, put, look again |
| `TakeOrphan`, `PutRehomed` | `_rehome` |
| `Take`, `Collected`, `KeepGoing`, `Leave`, `CloseConnection` | `_run` and `_collect` |
| `Flush` ... `Acknowledge` | `_flush`, `_record_gap`, `_acknowledge`, on whichever thread |
| `EmptyQueue`, `WriteLeftover` | `_abandon`, by an exiting writer or by `stop` |
| `Stop` ... `Forget` | `stop`, on a thread of its own or inside a receiver (`inside`) |
| `touched`, `open` | `_touched_database`, and the connection that mark stands for |
| `Landing` | what `write_batch` promises: all the rows, some with a count of the rest, or an exception and none |

`delivered`, `lost`, `reported`, `rehomed` and `since` are history: no guard reads
them. `Landing` is `EventLog`'s `LossesAreCounted` where no commit went unheard; after one
that did, `write_batch` may count rows that landed, and the log reports too many drops,
never too few.

### EventLog

| In the model | In the code |
|---|---|
| `poison` | the rows the database refuses |
| `context`, `caller` | no transaction around the call, an `atomic()` block, or autocommit off; what becomes of the caller's transaction |
| `connection` | whether the server has dropped the connection of this thread |
| `Bulk`, `Again` | the first attempt, and the one retry on a fresh connection |
| `todo`, `Climb`, `Split` | the halves and rows still to be inserted: `_write_half`, `_write_row`, `_write_one_by_one`, whose recursion is a list of parts |
| `Recycled` | `_recycle` |
| `Returns` | `_refused`: the count, or the exception when nothing landed |

`drops` counts a bounded step; `unheard` is history.

### Throttle

Time is a count of ticks; an interval is the time between two slots of a bucket. One step
is what one lock holds together, or the end of a sleep. A send that is
cancelled while it sleeps keeps its slot, like one that never resumes.

| In the model | In the code |
|---|---|
| `now`, `late` | the monotonic clock; how much of it passed while some send could have moved |
| a bucket | known by its budget and the send that made it, since a chat may have had several |
| `nextFree[b]`, `Burst`, `Idle` | `_next_free`, `_burst`, `is_idle` |
| `tracked[k]` | the `OrderedDict` of the chats' or the groups' buckets, least recently used first |
| `LookUp`, `Evicted`, `Victim`, `Touched` | the part of `acquire` under `_lock`: `_for`, and `_evict` with its candidates |
| `todo[s]` | the list `buckets` of a send: overall, chat, group |
| `Claim`, `Resume` | `TokenBucket.acquire`: the claim under `_guard`, the end of its sleep |
| `Charged` | which buckets there are: a rate of 0, a chat that cannot be keyed, `is_group` |

`log`, `dues` and `forgotten` are history.

## 3. Runs

Deadlock is checked in the Delivery runs (a worker that is down can always be started)
and in that of EventLog, where a call that is over may only stay over. It is not in the
others, which really stop: once every call of `BotLoop`, `Producers` or `Recorder` has
returned, nothing has to happen any more, and the clock of `Throttle` ends at `MaxTime`.

| Run | Instance | Shows |
|---|---|---|
| `two_workers` | 2 workers, 2 messages of any kind, 1 kill, 1 fault, the operator, ENABLED switched | the state is well typed; `OneCopy`; `Delivery` implements `AtLeastOnce` (`KeepsThePromise`) |
| `one_worker` | 1 worker, 3 messages of any kind, `MAX_IN_FLIGHT` 2, 1 kill, 1 stop whose join may time out, 1 fault, fair | `NothingIsLost`, `PushOrderKept`, `SentOnceUnlessDisturbed`, `LiveSendsAreHeld`, `SlotsAccounted`, `WithinMaxInFlight`, `EventuallySettled` |
| `old_server` | no LMOVE, 2 workers, 3 messages, `MAX_IN_FLIGHT` 1, 1 kill, 1 fault, 1 stop | `AtMostOnceWithoutLmove`, `LossBounded` |
| `bot_loop` | 2 updates, or 1 update with 1 send beside it and 1 in its handler; 2 loops, 2 runners of which any may die early, 2 `close()`s, 1 late join; webhook and polling; fair | `AcceptedIsNotRefused`, `ClosedOverNothing`, `OkMeansHandled`, `RunnersAreKnown`, `TeardownIsNotBrokenOff`, `RequestsAreAnswered` |
| `producers` | 2 threads, or a thread and a coroutine, or 2 coroutines on one loop or on two, or one and an `aclose()`; writes and closes cancelled or failed; up to 2 chunks, 1 change, 4 clients | `RecordsAreTrue`, `OpenClientsAreKnown`, `WritesFollowTheSettings` |
| `recorder` | 2 producers with 1 stop on a thread or in a receiver (2 events), or with 1 flush, or with 1 drain (3 events); 2 writers of which one may not start, buffer and batch 2, EVENT_LOG_SYNC | `EventsAccounted`, `DropsAddUp`, `RecordLeavesNothingBehind`, `NothingStaysOpen`, `FlushMeansWritten`; `Recorder` implements `EventAccount` (`KeepsTheAccount`) |
| `recorder_liveness` | 1 producer, 1 stop, 2 events, 3 writers, buffer, batch and limit 1, fair | `DetachedWritersLeave`, `EventsAreSettled` |
| `event_log` | 6 rows of which any are poisoned, bisected above 2, 2 dropped connections, every kind of transaction around the call | `LossesAreCounted`, `CopiesAreExplained`, `NothingElseIsLost` |
| `throttle` | 5 sends: 3 to a group, 1 to each of 2 chats; maps of two buckets, both candidates for eviction; capacity 2, intervals of 1, 2 and 3 ticks | `WithinEveryBudget`, `NoNeedlessWait`, `RateSurvivesEviction` |

### Where the code and its documentation disagree

Three runs are expected to fail; each checks a sentence of a comment.

| Run | What TLC shows |
|---|---|
| `bot_loop_collision` | a request that was told to drive the loop itself meets a runner started a moment before; `run_until_complete` raises, and the view answers 200 to an update that never ran (`client.py:556`, against `webhook.py:114`) |
| `recorder_stranded` | `_rehome` puts an event into a queue that has been detached meanwhile, where nobody looks again (`recorder.py:316`) |
| `recorder_mark` | a writer that a first `stop()` has detached, its join timed out and its replacement running, calls a receiver that calls `stop()`; this stops the replacement, takes the old writer's mark away with `_forget_touch`, and the old writer ends with its connection open (`recorder.py:891`, against the comment above it) |

The passing properties say what remains true beside them: `OkMeansHandled` excepts exactly the requests in `collided`,
`RecordLeavesNothingBehind` exactly the rehomed events, and `NothingStaysOpen` exactly the
writers in `unmarked`.

More limits have no run of their own; each shows in the hypothesis of a property, or
in what the property leaves out.

* A reclaim that failed at the start and is retried after the first pop requeues messages
  this very worker is sending, which are then sent twice (`delivery.py:583`).
  `LiveSendsAreHeld` excludes faults and operators for that reason; `NothingIsLost` and
  `OneCopy` hold with them.
* A `stop()` whose join timed out, or a `drain_once()`, releases a `flush()` before it
  writes what that waits for (`recorder.py:536`). `FlushMeansWritten` holds until one
  begins, and unless a thread failed to start.
* Sends that pass the overall bucket an interval apart and then sleep for their chats may
  leave together (`throttling.py:245`): `WithinEveryBudget` is what each bucket by itself does
  guarantee.
* A resolution of the settings that began before `reset()` publishes the old ones after
  it, and they stay until the next change (`settings.py:170-177`): `lapsed` in
  `WritesFollowTheSettings`.
* A coroutine cancelled while its `rpush` is on the way (`client.py:1306`, `client.py:1386`) leaves
  `queueing` past its `except Exception` (`client.py:238`): the message may be in Redis, and the
  log has neither a "queued" nor a drop row for it, where the docstring speaks of "the rule that a
  message lost on the way to Redis records a drop rather than letting silence imply it was queued"
  (`client.py:180`). `RecordsAreTrue` excepts exactly the one write the call was cancelled in;
  what the call wrote before it is recorded.
* A client a call still holds may be closed by a change of the settings; redis-py connects
  it again and nobody closes that. A client whose closing raises or is cancelled
  (`redis.py:293`, `redis.py:305`) is in no cache any more, open or not. Both are `stray` in
  `OpenClientsAreKnown`.
* A chat's bucket may be evicted while a send that looked it up still sleeps for the overall
  bucket (`throttling.py:243`); the chat then has two, and may exceed its rate between
  them. `forgotten` in `RateSurvivesEviction` has those chats, and the ones evicted when no
  candidate was idle, which is the bounded loss `_evict` documents; a chat evicted in place
  of an idle one is not among them.
* After a join of the runner timed out, `close()` lowers its flags while that thread may
  still take its stop. An update submitted in between waits for a loop nobody drives, for
  ever if nothing comes: `late` in `RequestsAreAnswered`. If a third caller drives the loop
  once and a second `close()` follows, the loop is closed over the update: `late` in
  `ClosedOverNothing`, which the callers of `bot_loop` are too few to need.
* Joins that time out leave a stop in the loop's queue, which a later run of that loop takes
  for its own. With two late joins and two `close()`s the drain is broken off, or a request
  is answered 200 with its handlers cut short; with three of each an accepted send is refused
  after all. TLC finds these behaviours with `MaxCloses` and `MaxLate` of that size; `AcceptedIsNotRefused`, `OkMeansHandled` and
  `TeardownIsNotBrokenOff` are therefore promises for joins that do not time out (`late = 0`).
* Without LMOVE a kill loses every outstanding send, where `Delivery.md:91` speaks of "that
  one message"; `LossBounded` is the bound that holds. `REQUIRE_CRASH_SAFE` lets a worker
  start if Redis could not be reached when it was probed, on purpose.

### Bounds

Every bound is a constant, named in its module. Where a module takes `Casts`, one set of
callers takes part in a behaviour: the sets are the pairs and triples that share
something, and together they take every action.

* *Delivery* (`MaxMessages`, `MaxCrashes`, `MaxFaults`, `MaxStops`): two messages are what
  ordering, duplication and mistaking one message for another need; three exceed a bound
  of two slots. Two workers are what the disjointness of lists needs; a third meets the
  others only through the same queue. One crash or fault at every instant, each followed
  by a restart, covers every single failure.
* *BotLoop* (`MaxLoops`, `MaxRunners`, `MaxCloses`, `MaxLate`, `MayDie`): a second loop and a
  second runner are what comes after a `close()`, a second `close()` is what finds a runner
  the first put back. Two requests are what racing for a runner needs; three callers at once
  are checked in the run of the collision.
* *Producers* (`MaxChanges`, `MaxClients`): one change at every instant is what makes any one
  cached value stale; a call of two chunks fails with one of them written. Four clients
  are as many as two callers can build with one change: a fifth changes no run.
* *Recorder* (`MaxEvents`, `MaxWriters`, `MaxNoThread`): two producers are a thread that makes a
  queue and one that uses it; two writers are a detached one and its replacement; the
  liveness run has a third so that the replacement may be replaced. A buffer of one or
  two is full as soon as the other producer has put. A third event is what two flushes
  racing for one drop count need.
* *EventLog* (`N`, `RowByRow`, `MaxDrops`): six rows above a limit of two are bisected twice,
  the halves odd; two drops are one in the first attempt and one in the ladder.
* *Throttle* (`MaxTime`, `MaxLate`): three sends to the group exceed its capacity by one; a
  map of two is full with the group and one chat, so that the next chat must choose between a
  bucket that owes and an idle one, in either order of use, and a send to the group may come
  back for a bucket that was evicted; four ticks let the buckets fill, drain and be
  forgotten. Sleepers wake on time (`MaxLate` 0): one late tick makes the run ten times as
  long, and the theorems hold for any number of them.

The theorems of section 5 do not depend on these numbers.

## 4. Fairness

All conditions are weak, and which of several outcomes a step takes is never constrained.

*Delivery.* `EventuallySettled` promises that a readable message is settled in the end unless a
call to Redis fails: a reply lost after a pop leaves its message in the processing list until
the next start, and nobody need restart a worker that runs. Kills and stops are not
excepted. A live consumer thread keeps taking steps (one condition for the thread as a
whole: a pop may time out for ever on an empty queue, and which Redis outcome comes is
not promised). A send on a turning loop ends, since the retries in
`bot.send_raw` are counted and every request has a deadline. The main thread gets through
its shutdown because the join has a timeout and the drain has one. A worker that is down
is started again by its supervisor. Nothing is assumed of producers, operators, faults,
kills or shutdowns.

*BotLoop.* Threads inside a call, started runners and the loop keep taking steps; a task on a
loop that runs ends, as a handler returns and a call to Telegram has a deadline; a
`close()` that has begun goes on. Nobody must call anything, a poll need not end, and a
join need not succeed.

*Recorder.* A thread inside a call and a writer keep taking steps; the database answers
or fails; a receiver returns; the join of `stop()` has a deadline. Nobody must record,
stop, flush or drain. The `queue.get` of a writer has a timeout, so a writer never waits
for good.

*Producers, EventLog, Throttle.* No liveness is claimed: a call is a bounded number of steps,
and a send waits for a slot whose time is known when it claims it, of which
`NoNeedlessWait` says that it is right.

## 5. Proofs

Every theorem holds for all values of the constants under the named assumptions of its
module, which TLC evaluates in each run.

Together they prove all 34 invariants the runs check and the refinements of `AtLeastOnce` and
`EventAccount`. An invariant is rarely inductive as it stands; what each proof adds to it, and why, follows.

`DeliveryProofs` and `DeliveryPromiseProofs`, for every set of workers and all bounds and settings:

* `TypeCorrect`: `Spec => []TypeOK`. The type invariant is not inductive on its own:
  `raw` must be a message, not `NoMessage`, wherever the consumer dispatches
  or acknowledges. `Hands` says so, and `TypeOK /\ Hands` is inductive.
* `InFlightIsBounded`: `Spec => []WithinMaxInFlight`. The slot a hand-over takes was
  checked several steps earlier, at the end of `hold_for_capacity`. The strengthening
  `SlotFree` says that between that check and the hand-over a slot is free, because only
  the consumer itself takes slots.
* `SlotsAreAccounted`: `Spec => []SlotsAccounted`. `SlotsHeld` says that `_in_flight`
  covers the sends that run and the reports in the deque, and equals them until the shutdown has
  joined its consumer: only `close()` ends sends that nobody reports. A sum over messages counts the sends.
* `MessagesAreNeverCopied` and `OrderIsKept`: `Spec => []OneCopy` and `Spec => []PushOrderKept`.
  Both follow from `InOrder`: pairs of messages of the lists are different, and with one
  worker ascending (`Unique`, `Ascending`). Every action does to the lists one of the few things
  `RedisStep` names - push, take, remove, give back - and the proof is one lemma per command.
* `NoMessageIsLost`: `Spec => []NothingIsLost`, whose own hypothesis is LMOVE. It needs
  `StaysReliable` (with LMOVE a worker never downgrades), `Verdicts` (what is acknowledged
  or reported as delivered is final), `OnlyPushed` (lists hold pushed messages only).
* `DeliveryKeepsThePromise`: with `HasLmove`, `Spec => KeepsThePromise`. Every step of
  `Delivery` is a step of `AtLeastOnce` or a stutter (`StepMaps`), under the invariant of
  `NoMessageIsLost`.
* `LiveSendsStayHeld` and `UndisturbedSendsOnce`: where nothing fails and nobody interferes (`Calm`),
  `Custody` follows a message through its worker's process: it is in one pair of hands at
  most (raw, running, reported) and on that worker's list all the while, and a phase that begins
  a reclaim has no send left. `SentOnce` adds that what a worker claims is not final yet.
* `OldServersNeverRepeat` and `LossIsBounded`: without LMOVE a claim on a message is the only
  one (`SingleClaims`, `ClaimedOnce`). A message that is nowhere was claimed by a process that
  was killed, or popped in a call whose reply was lost: `Cost` charges each loss to a kill,
  which loses at most the claims of one process, or to a fault.

`CollectionLemmas` states what moves between lists do to the set and the order of their elements,
what a change of one term does to a sum, and that a minimum is an element.

`ProducersProofs`, for all callers, loops, chunks, changes and clients:

* `RecordsAreAlwaysTrue`: `Spec => []RecordsAreTrue`. The property speaks of finished
  calls; the strengthening `Told` says where each chunk of a running call stands. Chunks
  before the current one have been settled as written and recorded (`Earlier`), of later
  ones nothing is in Redis or the log (`Later`), and the current one is in Redis only once its write
  has gone out, and without a record at the end only if the call was cancelled (`Current`).
  `Shape` is the part of the type invariant this needs.
* `TypeCorrect`: `Spec => []TypeOK`, and `NoConnectionLeaks`: `Spec => []OpenClientsAreKnown`, from
  one invariant, `CInv`. `Equipped` says that whoever writes has a key and a client, so
  that no write goes to `None`. `Placed` says where clients may be: the slot is empty while a
  client for it is built (what `get()` looks at again under `_lock`), a caller has a
  client to close only between taking it out of the cache and closing it, and an entry
  of a loop was built for that loop, so that the entries `_forget_closed` drops belong to
  loops that are gone.
* `WritesAreCurrent`: `Spec => []WritesFollowTheSettings`. A call without a change beside it writes
  with what earlier calls cached, maybe while a change ran. `FInv` follows a change through its
  receivers: the settings are current once theirs has run, then the shared slot, then the
  entries of the running generation (`CacheIsCurrent`, `SlotIsCurrent`, `EntriesAreCurrent`), unless
  the cache lapsed in between. That needs the order of the receivers: a client built between a
  reset of the connections and one of the settings would be stale for good. That the client is
  open is `OInv`: what a cache hands out is open (`CachedAreOpen`), what somebody is about to close is in
  no cache (`Apart`), and a call no change overlaps has the client that is in its cache, unless
  an `aclose()` of its loop took it (`HeldAreCached`).

`BotLoopProofs`, for all runners, loops, closers, updates and sends, in layers of which each rests
on those before it:

* `RunnersAreAlwaysKnown`: `Spec => []RunnersAreKnown`. The property is not inductive: a `close()`
  whose join times out puts the runner back into `_runner`, and would overwrite another one
  there. `Stages` says that it cannot: from taking the runner until it is done with it, `close()`
  has `_closing` up and `runner` is None, so no `_ensure_loop_runs` registers one meanwhile, and
  outside that stretch nobody has a runner in hand.
* `TypeCorrect`: `Spec => []TypeOK`, which includes that a closed loop runs no more and that a
  caller who drives a loop has its lock. `Base` says of every step who drives, who locks and who
  knows which loop (`Drivers`, `Locks`, `Known`, `Placed`), and where the flags are up (`Flow`).
* `TeardownRunsToItsEnd`: `Jobs` says whose callbacks and tasks a loop has, `Calm` where a stop may be: while
  joins do not time out there is one only for the runner `close()` is joining, and that thread
  lives until it takes it, so none is left for the drain.
* `OkMeansHandledAlways`: `Awaited` says how the future of an update goes with where its request is, and that a
  future that is done had its handlers run; an inline drive that ends without that has met another driver.
* `NothingIsClosedOver` and `AcceptedSendsAreKept`: `Waited` says that an update that is waited for is on the loop
  there is, in the next snapshot, and has a runner until `close()` has cancelled it; `Sends` that the first turn of the drain leaves
  no callback, the drain no task, and that nobody hands a send to a loop `close()` has left.

`RecorderProofs`, for all producers, callers and writers, any buffer, batch and budget of
failures, in layers again:

* `TypeCorrect`: `Spec => []TypeOK`, from `Base`: what a thread has in hand fits where it is (`Locals`), one
  thread has the guard and it covers the start of a writer (`GuardHeld`), a live queue has a
  writer or one being started (`LiveIsRun`), and a receiver's `stop()` keeps its writer in place
  (`InsidersHold`).
* `NoEventDisappears`: `Spec => []EventsAccounted`. `Accounted` counts no numbers: an event is twice in no queue
  (`NoneTwice`), in no two places (`Disjoint`) and in some place (`Complete`). The Cardinalities of the property
  follow from it.
* `DropsAreTold`: `Spec => []DropsAddUp`. Each step moves counts between `_dropped`, the claims and the
  gap rows (`Told`), or adds to the events lost as much as to the counter; that the counter never falls below a
  claim is the check under the guard in `_record_gap`. The sum is never below the events lost, and above them
  by at most one for each writer that could not be started: that drop is counted also for a thread
  whose item was a flush marker.
* `RecorderKeepsTheAccount`: `Spec => KeepsTheAccount`. Every step of `Recorder` is a step of `EventAccount` or a stutter
  (`NextIsAllowed`). `Accounted` says that what is in somebody's hands has no fate yet, so an event is settled once
  (`HeldIsPending`); a gap row tells at most what was counted and not told before, which is `AddsUp`.
* `NothingIsLeftBehind`: `Spec => []RecordLeavesNothingBehind`. `Behind` goes with the last look `record()` takes:
  the thread that will empty a queue (`Emptier`) does so after the queue was detached, and who puts into a detached
  queue looks again.
* `WritersCloseUnlessUnmarked`: `Spec => []NothingStaysOpen`. `Marked` says that an open connection has its mark, or
  its writer lost it, and at which points of a call a mark is there.
* `FlushesAreToldTheTruth`: `Spec => []FlushMeansWritten`. `Truthful` says that until a `stop()` or a `drain_once()`
  begins there is one queue (`OneQueue`), and that of a flush whose marker is in it, or in the
  writer's batch, all it waits for is settled, in the batch, or ahead of the marker (`Reached`).

`EventLogProofs`, for a batch of any size, any limit of the bisection, any number of drops:

* `TypeCorrect`, `EveryLossIsCounted`, `NoCopyIsUnexplained` and `PoisonCostsOnlyItself` prove all four
  invariants of `EventLog` from one, `Typed /\ Connected /\ Copied /\ Counted /\ LossesAreCounted`. The
  parts in `todo` are disjoint intervals in order (`Typed`), so a row is pending in one part
  at most; `Copied` relates a row's copies to whether it is pending, `Counted` the number
  of rows that landed and are not pending to `written`. The lemmas about parts say what
  the bisection leaves (`BisectedParts`, `SplitParts`, `TailParts`), and one step of the ladder is
  a part that lands (`PartLands`) or one that fails (`PartFails`). `Connected` says why a batch
  without drops loses nothing inside a caller's transaction.

`ThrottleProofs`, for every set of sends and chats, all rates and capacities and a
map of any size:

* `TypeCorrect`: `Spec => []TypeOK`, which includes that the maps never exceed
  `MaxTracked`. It needs `Made` and `Holds`: the buckets in the maps and in the hands of a
  send were made by sends that have begun, for chats that can be keyed.
* `BudgetsHold`: `Spec => []WithinEveryBudget`. The dues of the claims alone are not
  inductive, since the next due follows from `_next_free`. The strengthening `Paced` says
  that the next free slot lies a full span after every claim made so far, also after one
  that came late and was due at once; a claim moves the slot by one interval and the span
  with it (`OneMoreClaim`). `Unused` says that a bucket is made before anybody claims on it.
* `NobodyWaitsInVain`: `Spec => []NoNeedlessWait`, by `Tight`: the next free slot is either
  so far back that the whole burst is there, or exactly the span of some earlier claim.
* `RatesSurvive`: `Spec => []RateSurvivesEviction`. The property speaks of the claims of a chat
  on all its buckets. `OneEach` says that a chat has one bucket in the map, `StillThere` that a bucket a
  send is to claim on is in the map, unless its eviction was noted in `forgotten`. `VictimIsSpare`
  says that `_evict` takes a bucket that owes only when no candidate is idle. Then `Remembered`
  is about that one bucket: its next free slot lies a span after every claim of the chat, on
  whichever bucket; and if the chat has none, all those spans end before what a new bucket
  would give. Evicting an idle bucket keeps that by what `is_idle` says; the claim is `OneMoreDue`, the lemma
  `BudgetsHold` uses for a single bucket.

The assumptions say of the constants only what the code or the naming of things gives: sizes
and budgets are numbers, a set of callers is finite and no thread is two kinds of caller at once
(`ThreadsAreDistinct` in `BotLoop`; `CallersAreFinite`, `CallersAreDistinct`, `WritersAreTheirOwn` in `Recorder`), a wake is
no event (`WakesAreNoEvents`), and "nobody" is no caller (`NobodyIsNobody`).

What is only model-checked: the liveness properties (`EventuallySettled`, `RequestsAreAnswered`,
`DetachedWritersLeave`, `EventsAreSettled`), which need fairness and ENABLED and are out of
the proof system's reach. The properties of the three runs that are to fail are false, so
nothing is proved of them but what the restated invariants say. What a recursive
definition computes for every input cannot be proved, since induction over data takes an
operator parameter that none of the provers instantiates; the models therefore use folds,
set expressions and, in `EventLog`, a list of parts in place of the recursion.

## 6. Not modelled, and why

* `consume_pending` (a manual drain that repeats the consumer's steps on the caller's
  thread), handlers that cannot defer, webhook deletion, the requests of a poll.
* The heartbeat and the healthcheck: one key rewritten by the consumer and read by another
  process. What could go wrong is a matter of wall-clock time (the length of a Redis call
  against the key's time to live), which the untimed `Delivery` does not have.
* A foreign producer that pushes an empty payload: `reclaim` stops at the first falsy reply
  (`delivery.py:172`), so what lies behind it waits for the next start. No producer of the package
  writes one; in the model only an empty list answers nothing.
* A serializer, key or client that cannot be resolved: it raises before `queueing` guards anything,
  and leaves no row on purpose (`client.py:182`). Nor an exception that a signal handler raises
  inside a thread's write (`KeyboardInterrupt`, `SystemExit`), which would end a synchronous
  call the way a cancellation ends a coroutine.
* What one send does between its start and its end: the retries, their sleeps and the
  events it records. `BotLoop` and `Delivery` have its outcomes.
* A runner that dies in the middle of `run_forever`: the model has the death of a thread
  that has not begun to run the loop, the one `_ensure_loop_runs` looks for.
* The recorder's fork hook, `EVENT_LOG_KINDS`, changing `EVENT_LOG` or the buffer size under
  a running writer, a receiver that calls `stop()` from the flush of another
  thread. `EmptyQueue` and `Drain` empty the queue in one step, where the code takes item
  by item: whatever is put in between is put into a detached queue, the case `CheckQueue`
  handles, or stays in the live queue for its writer.
* The registry of limiters, one per token and dropped when the settings change; a
  capacity that is not a whole number, whose fraction shortens the first wait of a burst;
  the resolution of the two clocks (`asyncio` may wake a sleeper a little early).
* The data of messages, events and settings: a payload is one of three kinds, an event is a
  number, the whole setting a version.
* Pruning, admin, checks, models, envelopes and serializers: stateless or declarative.

## 7. What is left

In this order:

1. `Recorder` over `EventLog` in place of `Landing`, so that the account counts rows as `write_batch`
   reports them; that an event is settled in the end stays with the run `recorder_liveness`.
2. The registry of limiters beside the other caches of `Producers`; `consume_pending` beside
   a consumer; the heartbeat, with a clock.
