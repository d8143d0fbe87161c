------------------------------- MODULE BotLoop -------------------------------
(***************************************************************************)
(* The bot's event loop and everybody who wants it (client.py).  A web     *)
(* process feeds updates from request threads and gives the loop a thread  *)
(* of its own, the runner; a worker drives the loop with its main thread,  *)
(* by polling; any thread may send.  Close() takes all of it down and the  *)
(* bot may be used again, on a new loop.                                   *)
(*                                                                         *)
(* A step is what one lock holds together, or one read or write of a flag  *)
(* or of the loop's state that another thread can come before.  What the   *)
(* loop runs between two such steps is one callback or the end of a task.  *)
(***************************************************************************)
EXTENDS Integers, FiniteSets, SequencesExt

CONSTANTS
  Request,    \* webhook requests: one feed_update() each
  Sender,     \* threads that call send_raw() once each
  Reply,      \* sends that handlers of updates make, on the loop
  Main,       \* the thread that polls, or not, and calls close()
  Nobody,
  Casts,      \* the sets of requests and sends of which one takes part
  Modes,      \* which MODEs start: "web" (webhook), "polling"
  MaxLoops,   \* bound: event loops made
  MaxRunners, \* bound: runner threads started
  MaxCloses,  \* bound: calls of close(), one after the other
  MaxLate,    \* bound: joins of a runner that time out
  MayDie      \* whether a runner's thread may die before it runs the loop

ASSUME CastsAreJobs == Casts \subseteq SUBSET (Request \cup Sender \cup Reply)
ASSUME ModesAreKnown == Modes \subseteq {"web", "polling"}
ASSUME BoundsAreKnown ==
  {MaxLoops, MaxRunners, MaxCloses} \subseteq Nat \ {0} /\ MaxLate \in Nat
  /\ MayDie \in BOOLEAN

None   == 0
Loop   == 1..MaxLoops
Runner == 1..MaxRunners
Send   == Sender \cup Reply
Job    == Request \cup Send
Caller == Request \cup Sender \cup {Main}

ASSUME MainIsNobodyElse == Main \notin Request \cup Sender
ASSUME NobodyIsNobody == Nobody \notin Caller \cup Runner
ASSUME ThreadsAreDistinct == Caller \cap Runner = {}
ASSUME JobsAreDisjoint == Request \cap Send = {} /\ Sender \cap Reply = {}

VARIABLES
  mode,       \* how updates arrive: fixed
  loop, made, \* _loop, or None; how many loops were made
  loops,      \* [Loop -> its driver, lock, ready callbacks, tasks, ...]
  runner,     \* _runner, or None
  threads,    \* [Runner -> the state of that thread and the loop it is for]
  closing, draining, \* _closing, _draining
  pc,         \* [Caller -> where it is]
  at,         \* [Caller -> the loop it has looked up]
  owned,      \* requests told that a thread of ours owns the loop
  future,     \* [Request -> the future the request waits for]
  updates,    \* _updates
  taken,      \* the runner this close() stops
  snapshot,   \* the updates this close() waits for
  closes, late, \* counts of the bounded steps
  outcome,    \* [Send -> how it ended]
  answer,     \* [Request -> what the view answered]
  handled,    \* history: updates whose handlers ran to the end
  accepted,   \* history: sends that were handed to the loop
  collided    \* history: who met, or was met by, another driver of its loop

flags   == <<closing, draining>>
facade  == <<mode, loop, made>>
runners == <<runner, threads>>
waiting == <<owned, future, updates>>
closer  == <<taken, snapshot, closes, late>>
history == <<answer, handled, accepted, collided>>

vars == <<facade, loops, runners, flags, pc, at, waiting, closer, outcome, history>>
-----------------------------------------------------------------------------
Goto(t, label) == pc' = [pc EXCEPT ![t] = label]

Callback(do, j) == [do |-> do, job |-> j]

Running(l) == loops[l].driver # Nobody   \* loop.is_running()
Free(l) == loops[l].lock = Nobody        \* loop_lock(l) can be taken
Alive(t) == threads[t].state \in {"started", "running"}

\* The `loop' property: the loop there is, or a new one.
TheLoop == IF loop = None THEN made + 1 ELSE loop
LookUpLoop ==
  /\ TheLoop \in Loop
  /\ loop' = TheLoop
  /\ made' = IF loop = None THEN made + 1 ELSE made
  /\ UNCHANGED mode

\* call_soon and call_soon_threadsafe
Queued(l, callback) == [loops EXCEPT ![l].ready = Append(@, callback)]

\* The end of a run_until_complete() or run_forever().
Left(l) == [loops EXCEPT ![l].driver = Nobody, ![l].stopping = FALSE]
Unlocked(l) == [Left(l) EXCEPT ![l].lock = Nobody]

Init ==
  /\ mode \in Modes
  /\ loop = (IF mode = "polling" THEN 1 ELSE None) /\ made = loop
  /\ loops = [l \in Loop |->
       [driver |-> IF mode = "polling" /\ l = 1 THEN Main ELSE Nobody,
        lock |-> Nobody, ready |-> <<>>, tasks |-> {},
        stopping |-> FALSE, closed |-> FALSE]]
  /\ runner = None
  /\ threads = [t \in Runner |-> [state |-> "unmade", on |-> None]]
  /\ closing = FALSE /\ draining = FALSE
  /\ \E cast \in Casts :
       /\ pc = [c \in Caller |->
            IF c = Main THEN IF mode = "polling" THEN "polling" ELSE "open"
            ELSE IF c \in cast THEN "idle" ELSE "done"]
       /\ outcome = [s \in Send |-> IF s \in cast THEN "none" ELSE "absent"]
  /\ at = [c \in Caller |-> None]
  /\ owned = {} /\ future = [r \in Request |-> "none"] /\ updates = {}
  /\ taken = None /\ snapshot = {} /\ closes = 0 /\ late = 0
  /\ answer = [r \in Request |-> "none"]
  /\ handled = {} /\ accepted = {} /\ collided = {}
-----------------------------------------------------------------------------
(***************************************************************************)
(* feed_update(), on a request thread.  First _ensure_loop_runs(): under   *)
(* the build guard, start a runner unless something drives the loop.       *)
(***************************************************************************)
Unmade == {t \in Runner : threads[t].state = "unmade"}

StartRunner(l) ==
  /\ Unmade # {}
  /\ runner' = Min(Unmade)
  /\ threads' = [threads EXCEPT ![Min(Unmade)] = [state |-> "started", on |-> l]]

KeptRunner == runner # None /\ Alive(runner)

EnsureLoopRuns(r) ==
  /\ pc[r] = "idle" /\ mode = "web"
  /\ \/ closing /\ Goto(r, "feed") /\ UNCHANGED <<facade, runners>>
     \/ ~closing /\ KeptRunner /\ Goto(r, "await") /\ UNCHANGED <<facade, runners>>
     \/ /\ ~closing /\ ~KeptRunner
        /\ LookUpLoop
        /\ IF Running(TheLoop) \/ loops[TheLoop].closed
           THEN runner' = None /\ UNCHANGED threads /\ Goto(r, "feed")
           ELSE StartRunner(TheLoop) /\ Goto(r, "await")
  /\ UNCHANGED <<loops, flags, at, waiting, closer, outcome, history>>

\* Outside the guard: the runner may have been taken by a close() meanwhile.  If
\* not, wait for _runner_ready or RUNNER_TIMEOUT: the answer is the same.
AwaitRunner(r) ==
  /\ pc[r] = "await"
  /\ owned' = IF runner = None THEN owned ELSE owned \cup {r}
  /\ Goto(r, "feed")
  /\ UNCHANGED <<facade, loops, runners, flags, at, future, updates, closer, outcome, history>>

CaptureLoop(r) ==
  /\ pc[r] = "feed"
  /\ LookUpLoop
  /\ at' = [at EXCEPT ![r] = TheLoop]
  /\ Goto(r, "submit")
  /\ UNCHANGED <<loops, runners, flags, waiting, closer, outcome, history>>

\* What the view answers: 503 when this was refused, else 200.
Answer(r, status) == answer' = [answer EXCEPT ![r] = status]

\* Mutant: only close() under way refuses an update, not a loop it has closed.
RefusesOnlyClosing(l) == closing

Refuses(l) == closing \/ loops[l].closed

\* Under the loop's lock: refuse, drive, or hand the update over and wait.
SubmitUpdate(r) ==
  LET l == at[r] IN
  /\ pc[r] = "submit" /\ Free(l)
  /\ \/ /\ Refuses(l) \/ (~Running(l) /\ r \in owned)
        /\ Answer(r, "503") /\ Goto(r, "done")
        /\ UNCHANGED <<loops, waiting, handled, accepted, collided>>
     \/ /\ ~Refuses(l) /\ Running(l)
        /\ loops' = Queued(l, Callback("feed", r))
        /\ future' = [future EXCEPT ![r] = "pending"]
        /\ updates' = updates \cup {r}
        /\ Goto(r, "result")
        /\ UNCHANGED <<owned, history>>
     \/ /\ ~Refuses(l) /\ ~Running(l) /\ r \notin owned
        /\ loops' = [loops EXCEPT ![l].lock = r]
        /\ Goto(r, "drive")
        /\ UNCHANGED <<waiting, history>>
  /\ UNCHANGED <<facade, runners, flags, at, closer, outcome>>

\* Nothing could be started to run the loop: run_until_complete(), under the lock.
\* A loop that somebody else drives by now raises, and the view answers 200.
DriveUpdate(r) ==
  LET l == at[r] IN
  /\ pc[r] = "drive"
  /\ IF Running(l) \/ loops[l].closed
     THEN /\ loops' = [loops EXCEPT ![l].lock = Nobody]
          /\ collided' = IF Running(l) THEN collided \cup {r} ELSE collided
          /\ Answer(r, "200") /\ Goto(r, "done")
     ELSE /\ loops' = [loops EXCEPT ![l].driver = r, ![l].tasks = @ \cup {r}]
          /\ Goto(r, "driving")
          /\ UNCHANGED <<collided, answer>>
  /\ UNCHANGED <<facade, runners, flags, at, waiting, closer, outcome, handled, accepted>>

UpdateDriven(r) ==
  LET l == at[r] IN
  /\ pc[r] = "driving"
  /\ r \notin loops[l].tasks \/ loops[l].stopping
  /\ loops' = Unlocked(l)
  /\ Answer(r, "200") /\ Goto(r, "done")
  /\ UNCHANGED <<facade, runners, flags, at, waiting, closer, outcome, handled, accepted, collided>>

\* future.result() returns, or raises: a cancelled update is refused.
AwaitUpdate(r) ==
  /\ pc[r] = "result" /\ future[r] # "pending"
  /\ Answer(r, IF future[r] = "cancelled" THEN "503" ELSE "200")
  /\ Goto(r, "forget")
  /\ UNCHANGED <<facade, loops, runners, flags, at, waiting, closer, outcome, handled, accepted, collided>>

\* _forget_update(), under the lock of whichever loop there is now.
ForgetUpdate(r) ==
  /\ pc[r] = "forget"
  /\ loop # None => Free(loop)
  /\ updates' = updates \ {r}
  /\ Goto(r, "done")
  /\ UNCHANGED <<facade, loops, runners, flags, at, owned, future, closer, outcome, history>>
-----------------------------------------------------------------------------
(***************************************************************************)
(* send_raw() from a thread that is not the loop's: _schedule().           *)
(***************************************************************************)
Ends(s, how) == outcome' = [outcome EXCEPT ![s] = how]

ScheduleSend(s) ==
  /\ pc[s] = "idle"
  /\ IF closing
     THEN Ends(s, "refused") /\ Goto(s, "done") /\ UNCHANGED <<facade, at>>
     ELSE /\ LookUpLoop
          /\ at' = [at EXCEPT ![s] = TheLoop]
          /\ Goto(s, "lock")
          /\ UNCHANGED outcome
  /\ UNCHANGED <<loops, runners, flags, waiting, closer, history>>

\* _hand_off(): a callback makes the task, on the loop's thread.
HandOff(s, l) ==
  /\ loops' = [Queued(l, Callback("start", s)) EXCEPT ![l].lock = Nobody]
  /\ accepted' = accepted \cup {s}
  /\ Goto(s, "done")
  /\ UNCHANGED <<outcome, answer, handled, collided>>

\* A loop is somebody's to drive while it runs, or while a runner is on its way.
HasDriver(l) == Running(l) \/ KeptRunner

\* Under the loop's lock: refuse, hand over, or drive.
LockSend(s) ==
  LET l == at[s] IN
  /\ pc[s] = "lock" /\ Free(l)
  /\ \/ /\ Refuses(l)
        /\ Ends(s, "refused") /\ Goto(s, "done")
        /\ UNCHANGED <<loops, history>>
     \/ ~Refuses(l) /\ HasDriver(l) /\ HandOff(s, l)
     \/ /\ ~Refuses(l) /\ ~HasDriver(l)
        /\ loops' = [loops EXCEPT ![l].lock = s]
        /\ Goto(s, "drive")
        /\ UNCHANGED <<outcome, history>>
  /\ UNCHANGED <<facade, runners, flags, at, waiting, closer>>

\* run_until_complete(), under the lock; a loop that runs by now gets a hand-off.
DriveSend(s) ==
  LET l == at[s] IN
  /\ pc[s] = "drive"
  /\ \/ Running(l) /\ HandOff(s, l)
     \/ /\ ~Running(l)
        /\ loops' = [loops EXCEPT ![l].driver = s, ![l].tasks = @ \cup {s}]
        /\ Goto(s, "driving")
        /\ UNCHANGED <<outcome, history>>
  /\ UNCHANGED <<facade, runners, flags, at, waiting, closer>>

\* It was sent; or the loop was stopped under it, which raises.
SendDriven(s) ==
  LET l == at[s] IN
  /\ pc[s] = "driving"
  /\ s \notin loops[l].tasks \/ loops[l].stopping
  /\ loops' = Unlocked(l)
  /\ IF s \in loops[l].tasks THEN Ends(s, "raised") ELSE UNCHANGED outcome
  /\ Goto(s, "done")
  /\ UNCHANGED <<facade, runners, flags, at, waiting, closer, history>>
-----------------------------------------------------------------------------
(***************************************************************************)
(* The runner's thread, and what the loop does while anybody drives it.    *)
(***************************************************************************)
RunForever(t) ==
  /\ threads[t].state = "started"
  /\ LET l == threads[t].on IN
     IF Running(l) \/ loops[l].closed
     THEN /\ threads' = [threads EXCEPT ![t].state = "dead"]
          /\ collided' = collided \cup ({loops[l].driver} \ {Nobody})
          /\ UNCHANGED loops
     ELSE /\ threads' = [threads EXCEPT ![t].state = "running"]
          /\ loops' = [loops EXCEPT ![l].driver = t]
          /\ UNCHANGED collided
  /\ UNCHANGED <<facade, runner, flags, pc, at, waiting, closer, outcome, answer, handled, accepted>>

\* The death _ensure_loop_runs() looks for, of a thread no close() has taken yet.
RunnerDies(t) ==
  /\ MayDie /\ threads[t].state = "started" /\ t # taken
  /\ threads' = [threads EXCEPT ![t].state = "dead"]
  /\ UNCHANGED <<facade, loops, runner, flags, pc, at, waiting, closer, outcome, history>>

RunnerStops(t) ==
  /\ threads[t].state = "running" /\ loops[threads[t].on].stopping
  /\ threads' = [threads EXCEPT ![t].state = "dead"]
  /\ loops' = Left(threads[t].on)
  /\ UNCHANGED <<facade, runner, flags, pc, at, waiting, closer, outcome, history>>

Turned(l) == [loops EXCEPT ![l].ready = Tail(@)]

\* What a hand-off meets when close() has begun in the meantime.
StartRefuses == closing /\ ~draining

\* One ready callback.  run_coroutine_threadsafe's makes the task of an update even
\* when its request gave it up meanwhile: the task is cancelled on a later turn.
RunCallback(l) ==
  /\ Running(l) /\ loops[l].ready # <<>>
  /\ LET callback == Head(loops[l].ready)
         j == callback.job
     IN  \/ /\ callback.do = "start" /\ ~StartRefuses
            /\ loops' = [Turned(l) EXCEPT ![l].tasks = @ \cup {j}]
            /\ UNCHANGED outcome
         \/ /\ callback.do = "start" /\ StartRefuses
            /\ loops' = Turned(l)
            /\ Ends(j, "refused")
         \/ /\ callback.do = "feed"
            /\ loops' = [Turned(l) EXCEPT
                 ![l].tasks = @ \cup {j},
                 ![l].ready = IF future[j] = "cancelled" THEN Append(@, Callback("cancel", j)) ELSE @]
            /\ UNCHANGED outcome
         \/ /\ callback.do = "cancel"
            /\ loops' = [Turned(l) EXCEPT ![l].tasks = @ \ {j}]
            /\ UNCHANGED outcome
         \/ /\ callback.do = "stop"
            /\ loops' = [Turned(l) EXCEPT ![l].stopping = TRUE]
            /\ UNCHANGED outcome
  /\ UNCHANGED <<facade, runners, flags, pc, at, waiting, closer, history>>

\* The handlers of an update have run, or a send is over.
FinishTask(l, j) ==
  /\ Running(l) /\ j \in loops[l].tasks
  /\ loops' = [loops EXCEPT ![l].tasks = @ \ {j}]
  /\ IF j \in Request
     THEN /\ handled' = handled \cup {j}
          /\ future' = [future EXCEPT ![j] = IF @ = "pending" THEN "done" ELSE @]
          /\ UNCHANGED outcome
     ELSE Ends(j, "sent") /\ UNCHANGED <<handled, future>>
  /\ UNCHANGED <<facade, runners, flags, pc, at, owned, updates, closer, answer, accepted, collided>>

\* A handler sends: already on the loop, so the task is made at once.
SendReply(l, s) ==
  /\ Running(l) /\ loops[l].tasks \cap Request # {}
  /\ outcome[s] = "none" /\ s \notin accepted
  /\ IF closing
     THEN Ends(s, "refused") /\ UNCHANGED <<loops, accepted>>
     ELSE /\ loops' = [loops EXCEPT ![l].tasks = @ \cup {s}]
          /\ accepted' = accepted \cup {s}
          /\ UNCHANGED outcome
  /\ UNCHANGED <<facade, runners, flags, pc, at, waiting, closer, answer, handled, collided>>
-----------------------------------------------------------------------------
(***************************************************************************)
(* close(), on the main thread, which may have been polling before.        *)
(***************************************************************************)
EndPolling ==
  /\ pc[Main] = "polling"
  /\ loops' = Left(loop)
  /\ Goto(Main, "open")
  /\ UNCHANGED <<facade, runners, flags, at, waiting, closer, outcome, history>>

\* Mutant: the two flags go up in the other order.
RaiseClosingFirst ==
  /\ \/ pc[Main] = "open" /\ closes < MaxCloses /\ closes' = closes + 1
        /\ closing' = TRUE /\ UNCHANGED draining /\ Goto(Main, "raise")
     \/ pc[Main] = "raise" /\ draining' = TRUE /\ UNCHANGED <<closing, closes>> /\ Goto(Main, "take")
  /\ UNCHANGED <<facade, loops, runners, at, waiting, taken, snapshot, late, outcome, history>>

RaiseFlags ==
  /\ \/ pc[Main] = "open" /\ closes < MaxCloses /\ closes' = closes + 1
        /\ draining' = TRUE /\ UNCHANGED closing /\ Goto(Main, "raise")
     \/ pc[Main] = "raise" /\ closing' = TRUE /\ UNCHANGED <<draining, closes>> /\ Goto(Main, "take")
  /\ UNCHANGED <<facade, loops, runners, at, waiting, taken, snapshot, late, outcome, history>>

\* _stop_runner(): under the guard, take the runner ...
TakeRunner ==
  /\ pc[Main] = "take"
  /\ taken' = runner /\ runner' = None
  /\ Goto(Main, IF runner = None THEN "teardown" ELSE "snapshot")
  /\ UNCHANGED <<facade, loops, threads, flags, at, waiting, snapshot, closes, late, outcome, history>>

\* ... under the loop's lock, note the updates in flight ...
SnapshotUpdates ==
  /\ pc[Main] = "snapshot"
  /\ loop # None => Free(loop)
  /\ snapshot' = updates
  /\ Goto(Main, "wait")
  /\ UNCHANGED <<facade, loops, runners, flags, at, waiting, taken, closes, late, outcome, history>>

\* Cancelling the future of an update the loop has a task for queues a callback.
Cancels(l, rs) ==
  LET here == SetToSeq(rs \cap loops[l].tasks)
  IN  [i \in DOMAIN here |-> Callback("cancel", here[i])]

\* Mutant: the wait ends and nothing is cancelled.
AbandonUpdates ==
  /\ pc[Main] = "wait"
  /\ snapshot' = {}
  /\ Goto(Main, "stop")
  /\ UNCHANGED <<facade, loops, runners, flags, at, waiting, taken, closes, late, outcome, history>>

\* ... wait for them, and cancel what outlasts the drain ...
AwaitUpdates ==
  /\ pc[Main] = "wait"
  /\ LET unfinished == {r \in snapshot : future[r] = "pending"}
     IN  /\ future' = [r \in Request |-> IF r \in unfinished THEN "cancelled" ELSE future[r]]
         /\ loops' = [l \in Loop |-> [loops[l] EXCEPT !.ready = @ \o Cancels(l, unfinished)]]
  /\ snapshot' = {}
  /\ Goto(Main, "stop")
  /\ UNCHANGED <<facade, runners, flags, at, owned, updates, taken, closes, late, outcome, history>>

\* Mutant: the stop is queued whether or not anybody is there to take it.
StopAnyway ==
  /\ pc[Main] = "stop"
  /\ loops' = IF loop # None /\ ~loops[loop].closed THEN Queued(loop, Callback("stop", Main)) ELSE loops
  /\ Goto(Main, "join")
  /\ UNCHANGED <<facade, runners, flags, at, waiting, closer, outcome, history>>

\* ... ask the loop to stop while the thread is there to hear it ...
StopLoop ==
  /\ pc[Main] = "stop"
  /\ loops' = IF loop # None /\ ~loops[loop].closed /\ Alive(taken)
              THEN Queued(loop, Callback("stop", Main)) ELSE loops
  /\ Goto(Main, "join")
  /\ UNCHANGED <<facade, runners, flags, at, waiting, closer, outcome, history>>

\* ... and join it.
JoinRunner ==
  /\ pc[Main] = "join" /\ ~Alive(taken)
  /\ taken' = None
  /\ Goto(Main, "teardown")
  /\ UNCHANGED <<facade, loops, runners, flags, at, waiting, snapshot, closes, late, outcome, history>>

\* Mutant: a runner that outlives its join is forgotten.
LoseRunner ==
  /\ pc[Main] = "join" /\ Alive(taken) /\ late < MaxLate
  /\ late' = late + 1
  /\ taken' = None
  /\ Goto(Main, "teardown")
  /\ UNCHANGED <<facade, loops, runners, flags, at, waiting, snapshot, closes, outcome, history>>

\* A runner that outlives its join is put back, for a later close() to find.
PutBackRunner ==
  /\ pc[Main] = "join" /\ Alive(taken) /\ late < MaxLate
  /\ late' = late + 1
  /\ runner' = IF runner = None THEN taken ELSE runner
  /\ taken' = None
  /\ Goto(Main, "teardown")
  /\ UNCHANGED <<facade, loops, threads, flags, at, waiting, snapshot, closes, outcome, history>>

\* Nothing was ever built, or there is a loop, or one is made now for what was;
\* a loop that still runs is left in place.
TearDown ==
  /\ pc[Main] = "teardown"
  /\ \/ loop = None /\ Goto(Main, "unset") /\ UNCHANGED <<facade, at>>
     \/ /\ LookUpLoop
        /\ at' = [at EXCEPT ![Main] = TheLoop]
        /\ Goto(Main, IF Running(TheLoop) THEN "lower" ELSE "seize")
  /\ UNCHANGED <<loops, runners, flags, waiting, closer, outcome, history>>

\* The lock is ours.  On a loop that runs after all the teardown raises.
SeizeLoop ==
  LET l == at[Main] IN
  /\ pc[Main] = "seize" /\ Free(l)
  /\ IF Running(l)
     THEN UNCHANGED loops /\ Goto(Main, "lower")
     ELSE loops' = [loops EXCEPT ![l].lock = Main, ![l].driver = Main] /\ Goto(Main, "turn")
  /\ UNCHANGED <<facade, runners, flags, at, waiting, closer, outcome, history>>

\* The sends of this bot the loop has tasks for, of those close() knows: one a
\* thread drives by itself was never registered.
Registered(l) == loops[l].tasks \cap accepted

\* Mutant: no turn for what was handed over just before.
NoTurn ==
  /\ pc[Main] = "turn"
  /\ draining' = FALSE
  /\ Goto(Main, "drain")
  /\ UNCHANGED <<facade, loops, runners, closing, at, waiting, closer, outcome, history>>

\* _drain(): one turn, so that every hand-off queued before becomes a task.
TurnLoop ==
  /\ pc[Main] = "turn"
  /\ loops[at[Main]].ready = <<>> /\ ~loops[at[Main]].stopping
  /\ draining' = FALSE
  /\ Goto(Main, "drain")
  /\ UNCHANGED <<facade, loops, runners, closing, at, waiting, closer, outcome, history>>

\* The sends end, or the time does and the rest are cancelled and recorded.
DrainSends ==
  LET l == at[Main] IN
  /\ pc[Main] = "drain" /\ ~loops[l].stopping
  /\ outcome' = [s \in Send |-> IF s \in Registered(l) THEN "dropped" ELSE outcome[s]]
  /\ loops' = [loops EXCEPT ![l].tasks = @ \ Registered(l)]
  /\ Goto(Main, "release")
  /\ UNCHANGED <<facade, runners, flags, at, waiting, closer, history>>

\* A stop meant for somebody else raises out of whichever run it ends.
BreakOff ==
  LET l == at[Main] IN
  /\ pc[Main] \in {"turn", "drain", "release"} /\ loops[l].stopping
  /\ loops' = Unlocked(l)
  /\ draining' = (draining /\ pc[Main] # "turn")
  /\ Goto(Main, "lower")
  /\ UNCHANGED <<facade, runners, closing, at, waiting, closer, outcome, history>>

\* The dispatcher's storage and the bot's session are closed, then the loop.
CloseLoop ==
  LET l == at[Main] IN
  /\ pc[Main] = "release" /\ ~loops[l].stopping
  /\ loops' = [Unlocked(l) EXCEPT ![l].closed = TRUE]
  /\ Goto(Main, "unset")
  /\ UNCHANGED <<facade, runners, flags, at, waiting, closer, outcome, history>>

UnsetLoop ==
  /\ pc[Main] = "unset"
  /\ loop' = None
  /\ Goto(Main, "lower")
  /\ UNCHANGED <<mode, made, loops, runners, flags, at, waiting, closer, outcome, history>>

LowerFlags ==
  /\ \/ pc[Main] = "lower" /\ closing' = FALSE /\ UNCHANGED draining /\ Goto(Main, "lowered")
     \/ pc[Main] = "lowered" /\ draining' = FALSE /\ UNCHANGED closing /\ Goto(Main, "open")
  /\ UNCHANGED <<facade, loops, runners, at, waiting, closer, outcome, history>>
-----------------------------------------------------------------------------
RequestStep(r) ==
  \/ AwaitRunner(r) \/ CaptureLoop(r) \/ SubmitUpdate(r)
  \/ DriveUpdate(r) \/ UpdateDriven(r) \/ AwaitUpdate(r) \/ ForgetUpdate(r)

SenderStep(s) == LockSend(s) \/ DriveSend(s) \/ SendDriven(s)

CloseStep ==
  \/ RaiseFlags \/ TakeRunner \/ SnapshotUpdates \/ AwaitUpdates \/ StopLoop
  \/ JoinRunner \/ TearDown \/ SeizeLoop \/ TurnLoop \/ DrainSends \/ BreakOff
  \/ CloseLoop \/ UnsetLoop \/ LowerFlags

Next ==
  \/ \E r \in Request : EnsureLoopRuns(r) \/ RequestStep(r)
  \/ \E s \in Sender : ScheduleSend(s) \/ SenderStep(s)
  \/ \E t \in Runner : RunForever(t) \/ RunnerDies(t) \/ RunnerStops(t)
  \/ \E l \in Loop : RunCallback(l) \/ \E j \in Job : FinishTask(l, j)
  \/ \E l \in Loop, s \in Reply : SendReply(l, s)
  \/ EndPolling \/ CloseStep \/ PutBackRunner

Spec == Init /\ [][Next]_vars

\* Threads and the loop keep going, handlers return and calls to Telegram end.
\* Nobody has to call anything, and no poll has to end.
FairSpec ==
  /\ Spec
  /\ \A r \in Request : WF_vars(RequestStep(r))
  /\ \A s \in Sender : WF_vars(SenderStep(s))
  /\ \A t \in Runner : WF_vars(RunForever(t)) /\ WF_vars(RunnerStops(t))
  /\ \A l \in Loop : WF_vars(RunCallback(l))
  /\ \A l \in Loop, j \in Job : WF_vars(FinishTask(l, j))
  /\ WF_vars(CloseStep /\ pc[Main] # "open")
-----------------------------------------------------------------------------
\* Everything has its type; a loop that runs was not closed, and a request or a
\* send that drives it holds its lock (loop_lock).
TypeOK ==
  /\ mode \in {"web", "polling"} /\ loop \in Loop \cup {None} /\ made \in 0..MaxLoops
  /\ loops \in [Loop ->
       [driver : Caller \cup Runner \cup {Nobody}, lock : Caller \cup {Nobody},
        ready : Seq([do : {"start", "feed", "cancel", "stop"}, job : Job \cup {Main}]),
        tasks : SUBSET Job, stopping : BOOLEAN, closed : BOOLEAN]]
  /\ runner \in Runner \cup {None} /\ taken \in Runner \cup {None}
  /\ threads \in [Runner -> [state : {"unmade", "started", "running", "dead"}, on : Loop \cup {None}]]
  /\ closing \in BOOLEAN /\ draining \in BOOLEAN
  /\ at \in [Caller -> Loop \cup {None}]
  /\ owned \subseteq Request /\ updates \subseteq Request /\ snapshot \subseteq Request
  /\ future \in [Request -> {"none", "pending", "done", "cancelled"}]
  /\ closes \in 0..MaxCloses /\ late \in 0..MaxLate
  /\ outcome \in [Send -> {"absent", "none", "sent", "refused", "dropped", "raised"}]
  /\ answer \in [Request -> {"none", "200", "503"}]
  /\ handled \subseteq Request /\ accepted \subseteq Send /\ collided \subseteq Caller \cup Runner
  /\ \A l \in Loop :
       /\ Running(l) => ~loops[l].closed
       /\ loops[l].driver \in Request \cup Sender => loops[l].lock = loops[l].driver

\* A send that was handed to the loop is never refused: neither a close() that
\* begins meanwhile nor one that ends meets the callback that makes its task
\* (close() raises _draining before _closing and lowers it after).  Three joins of
\* runners that time out can leave a stop that breaks a later drain off with the
\* callback still queued, so the promise is for joins that do not.
AcceptedIsNotRefused ==
  late = 0 => \A s \in accepted : outcome[s] # "refused"

\* No loop is closed over a send that was handed to it, as a task or as a callback
\* still queued (the drain's first turn makes the callbacks tasks, and the drain
\* finishes or drops them), nor over an update whose request still waits: what
\* feed_update() submits is in the snapshot of the close() that comes next, or is
\* refused (_stop_runner's wait for the thread did not time out).
ClosedOverNoSend(l) ==
  /\ loops[l].tasks \cap accepted = {}
  /\ \A i \in DOMAIN loops[l].ready : loops[l].ready[i].do # "start"

ClosedOverNoUpdate(l) ==
  \A r \in Request : future[r] = "pending" =>
    /\ r \notin loops[l].tasks
    /\ Callback("feed", r) \notin {loops[l].ready[i] : i \in DOMAIN loops[l].ready}

ClosedOverNothing ==
  \A l \in Loop : loops[l].closed =>
    ClosedOverNoSend(l) /\ (late = 0 => ClosedOverNoUpdate(l))

\* A thread that was started for a loop is known to the bot while it lives, so a
\* later close() can ask it to stop and no second one is started beside it.
RunnersAreKnown == \A t \in Runner : Alive(t) => t \in {runner, taken}

\* 200 tells Telegram to forget the update: its handlers ran to their end, unless
\* two threads drove the loop at once, or a stop left over from joins that timed
\* out ended the run that a request drives.
OkMeansHandled ==
  late = 0 => \A r \in Request : answer[r] = "200" => r \in handled \cup collided

\* What telegram_webhook() says: when nothing ran at all, it answers 503.
OkMeansItRan ==
  \A r \in Request : answer[r] = "200" /\ late = 0 =>
    r \in handled \/ \E l \in Loop : r \in loops[l].tasks

\* No stop meant for the runner ends a run of the teardown's own: it is queued
\* only while that thread is there to take it, and the thread takes it.
TeardownIsNotBrokenOff ==
  late = 0 =>
    ~(pc[Main] \in {"turn", "drain", "release"} /\ loops[at[Main]].stopping)

\* A request that waits for its update comes back: the handlers end, or close()
\* cancels the update while the loop still turns.
RequestsAreAnswered ==
  \A r \in Request : pc[r] = "result" ~> (pc[r] = "done" \/ late > 0)
=============================================================================
