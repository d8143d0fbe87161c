---------------------------- MODULE BotLoopProofs ----------------------------
(***************************************************************************)
(* Theorems about BotLoop, for every set of requests and sends, any number *)
(* of loops, runners and close()s.  One inductive invariant rests on the   *)
(* other:                                                                  *)
(*   KInv    a live runner is known to the bot or to the close() at work   *)
(*   Base    the types; who drives, who locks and who knows which loop     *)
(*   Jobs    whose callbacks and tasks the loops have                      *)
(*   Calm    a stop is there for the runner that close() has, who takes it *)
(*   Waited  an update that is waited for is in the next snapshot          *)
(*   Sends   what was handed over stays clear of the loops close() leaves  *)
(***************************************************************************)
EXTENDS BotLoop, CollectionLemmas, TLAPS

\* Where a close() has taken the runner.
Stopping == {"snapshot", "wait", "stop", "join"}

\* The flag _closing is up all the while, so _ensure_loop_runs() starts nothing.
Stages ==
  /\ pc[Main] \in Stopping => runner = None /\ closing
  /\ pc[Main] \notin Stopping => taken = None
  /\ pc[Main] = "take" => closing

\* As much of the types as this needs.
Shape ==
  /\ pc = [c \in Caller |-> pc[c]]
  /\ threads \in [Runner -> [state : {"unmade", "started", "running", "dead"}, on : Loop \cup {None}]]
  /\ runner \in Runner \cup {None} /\ taken \in Runner \cup {None}

KInv == Shape /\ Stages /\ RunnersAreKnown
-----------------------------------------------------------------------------
\* Most steps leave the runner and close() alone.
LEMMA QuietStep ==
  ASSUME KInv, UNCHANGED <<runner, threads, taken, closing>>,
         pc' = [c \in Caller |-> pc'[c]], pc'[Main] = pc[Main]
  PROVE  KInv'
BY DEF KInv, Shape, Stages, RunnersAreKnown, Alive

\* A step of a thread other than the one that calls close().
LEMMA OthersStep ==
  ASSUME KInv, UNCHANGED <<runner, threads, taken, closing>>,
         NEW c \in Request \cup Sender, NEW label, Goto(c, label)
  PROVE  KInv'
<1>1. c \in Caller /\ c # Main /\ Main \in Caller
  BY MainIsNobodyElse DEF Caller
<1>2. pc' = [d \in Caller |-> pc'[d]] /\ pc'[Main] = pc[Main]
  BY <1>1 DEF Goto, KInv, Shape
<1> QED BY <1>2, QuietStep

\* A step of close() that keeps the runner where it is.
LEMMA ClosersStep ==
  ASSUME KInv, UNCHANGED <<runner, threads, taken>>, NEW label, Goto(Main, label),
         pc[Main] \in Stopping <=> label \in Stopping,
         label \in Stopping \cup {"take"} => closing'
  PROVE  KInv'
<1>1. pc' = [d \in Caller |-> pc'[d]] /\ pc'[Main] = label
  BY DEF Goto, KInv, Shape, Caller
<1> QED BY <1>1 DEF KInv, Shape, Stages, RunnersAreKnown, Alive

LEMMA InitKInv == Init => KInv
<1> SUFFICES ASSUME Init PROVE KInv
  OBVIOUS
<1>1. Main \in Caller
  BY DEF Caller
<1>2. pc = [c \in Caller |-> pc[c]] /\ pc[Main] \in {"polling", "open"}
  <2>1. PICK cast \in Casts :
          pc = [c \in Caller |-> IF c = Main THEN IF mode = "polling" THEN "polling" ELSE "open"
                                 ELSE IF c \in cast THEN "idle" ELSE "done"]
    BY DEF Init
  <2> QED BY <1>1, <2>1
<1>3. threads = [t \in Runner |-> [state |-> "unmade", on |-> None]]
      /\ runner = None /\ taken = None
  BY DEF Init
<1> QED BY <1>2, <1>3 DEF KInv, Shape, Stages, Stopping, RunnersAreKnown, Alive

\* _ensure_loop_runs() starts a thread only where none it knows of lives, and none
\* while a close() has one in its hands.
LEMMA EnsureKInv == ASSUME KInv, NEW r \in Request, EnsureLoopRuns(r) PROVE KInv'
<1>1. UNCHANGED <<taken, closing>>
  BY DEF EnsureLoopRuns, flags, closer
<1>2. PICK label : Goto(r, label)
  BY DEF EnsureLoopRuns
<1>3. CASE UNCHANGED runners
  BY <1>1, <1>2, <1>3, OthersStep DEF runners
<1>4. CASE ~UNCHANGED runners
  <2>1. r \in Caller /\ r # Main
    BY MainIsNobodyElse DEF Caller
  <2>2. pc' = [d \in Caller |-> pc'[d]] /\ pc'[Main] = pc[Main]
    BY <1>2, <2>1 DEF Goto, KInv, Shape, Caller
  <2>3. ~closing /\ ~KeptRunner
    BY <1>4 DEF EnsureLoopRuns
  <2>4. pc[Main] \notin Stopping \cup {"take"} /\ taken = None
    BY <2>3 DEF KInv, Stages
  <2>5. \A t \in Runner : ~Alive(t)
    BY <2>3, <2>4 DEF KInv, RunnersAreKnown, KeptRunner, None, Runner
  <2>6. CASE runner' = None /\ UNCHANGED threads
    BY <1>1, <2>2, <2>4, <2>5, <2>6 DEF KInv, Shape, Stages, RunnersAreKnown, Alive
  <2>7. CASE LookUpLoop /\ StartRunner(TheLoop)
    <3>1. PICK t \in Runner : runner' = t /\ threads' = [threads EXCEPT ![t] = [state |-> "started", on |-> TheLoop]]
      <4>1. Unmade # {} /\ Unmade \subseteq Runner
        BY <2>7 DEF StartRunner, Unmade
      <4>2. Min(Unmade) \in Unmade
        BY <4>1, MinOfNats, Runner \subseteq Nat DEF Runner
      <4> QED BY <2>7, <4>1, <4>2 DEF StartRunner
    <3>2. TheLoop \in Loop
      BY <2>7 DEF LookUpLoop
    <3>3. Shape'
      BY <1>1, <2>2, <3>1, <3>2 DEF KInv, Shape
    <3>4. Stages'
      BY <1>1, <2>2, <2>4 DEF Stages
    <3>5. RunnersAreKnown'
      BY <2>5, <3>1 DEF KInv, Shape, RunnersAreKnown, Alive
    <3> QED BY <3>3, <3>4, <3>5 DEF KInv
  <2> QED BY <1>4, <2>6, <2>7 DEF EnsureLoopRuns, runners
<1> QED BY <1>3, <1>4

\* A thread that begins, runs or ends was known before.
LEMMA ThreadsKInv ==
  ASSUME KInv, NEW t \in Runner, RunForever(t) \/ RunnerDies(t) \/ RunnerStops(t)
  PROVE  KInv'
<1>1. UNCHANGED <<pc, runner, taken, closing>> /\ Alive(t)
  BY DEF RunForever, RunnerDies, RunnerStops, flags, runners, closer, Alive
<1>2. PICK label \in {"running", "dead"} : threads' = [threads EXCEPT ![t].state = label]
  BY DEF RunForever, RunnerDies, RunnerStops
<1>3. threads' \in [Runner -> [state : {"unmade", "started", "running", "dead"}, on : Loop \cup {None}]]
  BY <1>2 DEF KInv, Shape
<1>4. \A u \in Runner : Alive(u)' => Alive(u)
  BY <1>1, <1>2 DEF KInv, Shape, Alive
<1> QED BY <1>1, <1>3, <1>4 DEF KInv, Shape, Stages, RunnersAreKnown

\* close() takes the runner, and lets it go when it is dead or puts it back.
LEMMA CloseKInv == ASSUME KInv, CloseStep \/ EndPolling \/ PutBackRunner PROVE KInv'
<1>0. pc' = [d \in Caller |-> pc'[d]] /\ Main \in Caller
  <2>1. \E label : Goto(Main, label)
    BY DEF CloseStep, EndPolling, PutBackRunner, RaiseFlags, TakeRunner, SnapshotUpdates,
           AwaitUpdates, StopLoop, JoinRunner, TearDown, SeizeLoop, TurnLoop, DrainSends,
           BreakOff, CloseLoop, UnsetLoop, LowerFlags
  <2> QED BY <2>1 DEF Goto, KInv, Shape, Caller
<1>1. CASE EndPolling \/ RaiseFlags
  BY <1>1, ClosersStep DEF EndPolling, RaiseFlags, runners, flags, closer, Stopping
<1>2. CASE TakeRunner
  <2>1. /\ pc[Main] = "take" /\ taken' = runner /\ runner' = None /\ UNCHANGED <<threads, closing>>
        /\ pc'[Main] = IF runner = None THEN "teardown" ELSE "snapshot"
    BY <1>0, <1>2 DEF TakeRunner, Goto, flags, KInv, Shape
  <2>2. taken = None /\ closing
    BY <2>1 DEF KInv, Stages, Stopping
  <2> QED BY <1>0, <2>1, <2>2 DEF KInv, Shape, Stages, Stopping, RunnersAreKnown, Alive, None, Runner
<1>3. CASE SnapshotUpdates \/ AwaitUpdates \/ StopLoop
  <2>1. pc[Main] \in Stopping
    BY <1>3 DEF SnapshotUpdates, AwaitUpdates, StopLoop, Stopping
  <2>2. closing' /\ UNCHANGED <<runner, threads, taken>>
    BY <1>3, <2>1 DEF SnapshotUpdates, AwaitUpdates, StopLoop, runners, flags, closer, KInv, Stages
  <2>3. \E label \in Stopping : Goto(Main, label)
    BY <1>3 DEF SnapshotUpdates, AwaitUpdates, StopLoop, Stopping
  <2> QED BY <2>1, <2>2, <2>3, ClosersStep
<1>4. CASE JoinRunner \/ PutBackRunner
  <2>1. /\ pc[Main] \in Stopping /\ pc'[Main] = "teardown" /\ taken' = None
        /\ UNCHANGED <<threads, closing>>
    BY <1>0, <1>4 DEF JoinRunner, PutBackRunner, Goto, Stopping, runners, flags, KInv, Shape
  <2>2. runner = None
    BY <2>1 DEF KInv, Stages
  <2>3. (UNCHANGED runner /\ ~Alive(taken)) \/ runner' = taken
    BY <1>4, <2>2 DEF JoinRunner, PutBackRunner, runners
  <2> QED BY <1>0, <2>1, <2>2, <2>3
     DEF KInv, Shape, Stages, Stopping, RunnersAreKnown, Alive, None, Runner
<1>5. CASE TearDown \/ SeizeLoop \/ TurnLoop \/ DrainSends \/ BreakOff \/ CloseLoop \/ UnsetLoop \/ LowerFlags
  <2>1. pc[Main] \notin Stopping /\ UNCHANGED <<runner, threads, taken>>
    BY <1>5 DEF TearDown, SeizeLoop, TurnLoop, DrainSends, BreakOff, CloseLoop, UnsetLoop,
                LowerFlags, Stopping, runners, closer
  <2>2. PICK label : Goto(Main, label) /\ label \notin Stopping \cup {"take"}
    BY <1>5 DEF TearDown, SeizeLoop, TurnLoop, DrainSends, BreakOff, CloseLoop, UnsetLoop,
                LowerFlags, Stopping
  <2> QED BY <2>1, <2>2, ClosersStep
<1> QED BY <1>1, <1>2, <1>3, <1>4, <1>5 DEF CloseStep

LEMMA NextKInv == ASSUME KInv, [Next]_vars PROVE KInv'
<1>1. ASSUME NEW r \in Request, RequestStep(r) PROVE KInv'
  <2>1. UNCHANGED <<runner, threads, taken, closing>> /\ \E label : Goto(r, label)
    BY <1>1 DEF RequestStep, AwaitRunner, CaptureLoop, SubmitUpdate, DriveUpdate, UpdateDriven,
                AwaitUpdate, ForgetUpdate, runners, flags, closer
  <2> QED BY <2>1, OthersStep
<1>2. ASSUME NEW s \in Sender, ScheduleSend(s) \/ SenderStep(s) PROVE KInv'
  <2>1. UNCHANGED <<runner, threads, taken, closing>> /\ \E label : Goto(s, label)
    BY <1>2 DEF ScheduleSend, SenderStep, LockSend, DriveSend, SendDriven, HandOff,
                runners, flags, closer
  <2> QED BY <2>1, OthersStep
<1>3. ASSUME NEW l \in Loop,
             RunCallback(l) \/ (\E j \in Job : FinishTask(l, j)) \/ (\E s \in Reply : SendReply(l, s))
      PROVE  KInv'
  <2>1. UNCHANGED <<runner, threads, taken, closing, pc>>
    BY <1>3 DEF RunCallback, FinishTask, SendReply, runners, flags, closer
  <2> QED BY <2>1, QuietStep DEF KInv, Shape
<1>4. CASE UNCHANGED vars
  BY <1>4, QuietStep DEF vars, runners, flags, closer, KInv, Shape
<1> QED BY <1>1, <1>2, <1>3, <1>4, EnsureKInv, ThreadsKInv, CloseKInv DEF Next

(***************************************************************************)
(* A runner thread that lives is known to the bot, or to the close() that  *)
(* is stopping it: no request starts a second one beside it, none is       *)
(* started while a close() has taken it, and a join that times out gives   *)
(* it back (_ensure_loop_runs(), _stop_runner()).                          *)
(***************************************************************************)
THEOREM RunnersAreAlwaysKnown == Spec => []RunnersAreKnown
<1>1. Init => KInv
  BY InitKInv
<1>2. KInv /\ [Next]_vars => KInv'
  BY NextKInv
<1>3. KInv => RunnersAreKnown
  BY DEF KInv
<1> QED BY <1>1, <1>2, <1>3, PTL DEF Spec
-----------------------------------------------------------------------------
(***************************************************************************)
(* The loops, and what a step that concerns one of them leaves there.      *)
(***************************************************************************)
\* What a loop can be asked to do, and for whom.
CallbackType ==
  [do : {"start"}, job : Sender] \cup [do : {"feed", "cancel"}, job : Request]
    \cup [do : {"stop"}, job : {Main}]

LoopType ==
  [driver : Caller \cup Runner \cup {Nobody}, lock : Caller \cup {Nobody},
   ready : Seq(CallbackType), tasks : SUBSET Job, stopping : BOOLEAN, closed : BOOLEAN]

\* Every loop has its type, and finitely many tasks.
LoopsOK == loops \in [Loop -> LoopType] /\ \A l \in Loop : IsFiniteSet(loops[l].tasks)

\* A step that concerns the loop l alone, and what it leaves there.
Makes(l, driver, lock, ready, tasks, stopping, closed) ==
  /\ \A k \in Loop : k # l => loops'[k] = loops[k]
  /\ loops'[l].driver = driver /\ loops'[l].lock = lock /\ loops'[l].ready = ready
  /\ loops'[l].tasks = tasks /\ loops'[l].stopping = stopping /\ loops'[l].closed = closed

\* The queue of a loop once its first callback has run: the task of an update that
\* was given up is to be cancelled.
Rest(l) ==
  LET b == Head(loops[l].ready)
  IN  IF b.do = "feed" /\ future[b.job] = "cancelled"
      THEN Append(Tail(loops[l].ready), Callback("cancel", b.job)) ELSE Tail(loops[l].ready)

\* The parts of a loop.
LEMMA LoopParts ==
  ASSUME LoopsOK, NEW l \in Loop
  PROVE  /\ loops[l].driver \in Caller \cup Runner \cup {Nobody}
         /\ loops[l].lock \in Caller \cup {Nobody} /\ loops[l].ready \in Seq(CallbackType)
         /\ loops[l].tasks \subseteq Job /\ IsFiniteSet(loops[l].tasks)
         /\ loops[l].stopping \in BOOLEAN /\ loops[l].closed \in BOOLEAN
  BY DEF LoopsOK, LoopType

\* A step whose effect on the loops is given as the new record of one of them.
LEMMA MakesOK ==
  ASSUME LoopsOK, NEW l \in Loop,
         NEW d \in Caller \cup Runner \cup {Nobody}, NEW k \in Caller \cup {Nobody},
         NEW q \in Seq(CallbackType), NEW T \in SUBSET Job, IsFiniteSet(T),
         NEW s \in BOOLEAN, NEW c \in BOOLEAN,
         loops' = [loops EXCEPT ![l] = [driver |-> d, lock |-> k, ready |-> q, tasks |-> T,
                                        stopping |-> s, closed |-> c]]
  PROVE  LoopsOK' /\ Makes(l, d, k, q, T, s, c)
  BY DEF LoopsOK, LoopType, Makes

LEMMA MakesLock ==
  ASSUME LoopsOK, NEW l \in Loop, NEW k \in Caller \cup {Nobody},
         loops' = [loops EXCEPT ![l].lock = k]
  PROVE  LoopsOK' /\ Makes(l, loops[l].driver, k, loops[l].ready, loops[l].tasks,
                           loops[l].stopping, loops[l].closed)
  BY DEF LoopsOK, LoopType, Makes

LEMMA MakesDriven ==
  ASSUME LoopsOK, NEW l \in Loop, NEW c \in Request \cup Sender,
         loops' = [loops EXCEPT ![l].driver = c, ![l].tasks = @ \cup {c}]
  PROVE  LoopsOK' /\ Makes(l, c, loops[l].lock, loops[l].ready, loops[l].tasks \cup {c},
                           loops[l].stopping, loops[l].closed)
<1>1. IsFiniteSet(loops[l].tasks \cup {c}) /\ c \in Caller /\ c \in Job
  BY FS_AddElement DEF LoopsOK, Caller, Job, Send
<1>2. Makes(l, c, loops[l].lock, loops[l].ready, loops[l].tasks \cup {c}, loops[l].stopping,
            loops[l].closed)
  BY <1>1 DEF LoopsOK, LoopType, Makes
<1>3. loops' \in [Loop -> LoopType]
  BY <1>1 DEF LoopsOK, LoopType
<1> QED BY <1>1, <1>2, <1>3 DEF LoopsOK, Makes

LEMMA MakesLeft ==
  ASSUME LoopsOK, NEW l \in Loop, loops' = Left(l)
  PROVE  LoopsOK' /\ Makes(l, Nobody, loops[l].lock, loops[l].ready, loops[l].tasks, FALSE,
                           loops[l].closed)
  BY DEF LoopsOK, LoopType, Makes, Left

LEMMA MakesUnlocked ==
  ASSUME LoopsOK, NEW l \in Loop, loops' = Unlocked(l)
  PROVE  LoopsOK' /\ Makes(l, Nobody, Nobody, loops[l].ready, loops[l].tasks, FALSE, loops[l].closed)
  BY DEF LoopsOK, LoopType, Makes, Left, Unlocked

LEMMA MakesClosed ==
  ASSUME LoopsOK, NEW l \in Loop, loops' = [Unlocked(l) EXCEPT ![l].closed = TRUE]
  PROVE  LoopsOK' /\ Makes(l, Nobody, Nobody, loops[l].ready, loops[l].tasks, FALSE, TRUE)
  BY DEF LoopsOK, LoopType, Makes, Left, Unlocked

LEMMA MakesQueued ==
  ASSUME LoopsOK, NEW l \in Loop, NEW c \in CallbackType, loops' = Queued(l, c)
  PROVE  LoopsOK' /\ Makes(l, loops[l].driver, loops[l].lock, Append(loops[l].ready, c),
                           loops[l].tasks, loops[l].stopping, loops[l].closed)
<1>1. Append(loops[l].ready, c) \in Seq(CallbackType)
  BY LoopParts, AppendProperties
<1> QED BY <1>1 DEF LoopsOK, LoopType, Makes, Queued

LEMMA MakesHandedOver ==
  ASSUME LoopsOK, NEW l \in Loop, NEW c \in CallbackType,
         loops' = [Queued(l, c) EXCEPT ![l].lock = Nobody]
  PROVE  LoopsOK' /\ Makes(l, loops[l].driver, Nobody, Append(loops[l].ready, c),
                           loops[l].tasks, loops[l].stopping, loops[l].closed)
<1>1. Append(loops[l].ready, c) \in Seq(CallbackType)
  BY LoopParts, AppendProperties
<1> QED BY <1>1 DEF LoopsOK, LoopType, Makes, Queued

LEMMA MakesRun ==
  ASSUME LoopsOK, NEW l \in Loop, NEW t \in Runner, loops' = [loops EXCEPT ![l].driver = t]
  PROVE  LoopsOK' /\ Makes(l, t, loops[l].lock, loops[l].ready, loops[l].tasks,
                           loops[l].stopping, loops[l].closed)
  BY DEF LoopsOK, LoopType, Makes

LEMMA MakesSeized ==
  ASSUME LoopsOK, NEW l \in Loop, loops' = [loops EXCEPT ![l].lock = Main, ![l].driver = Main]
  PROVE  LoopsOK' /\ Makes(l, Main, Main, loops[l].ready, loops[l].tasks,
                           loops[l].stopping, loops[l].closed)
<1>1. Main \in Caller
  BY DEF Caller
<1> QED BY <1>1 DEF LoopsOK, LoopType, Makes

LEMMA MakesTasks ==
  ASSUME LoopsOK, NEW l \in Loop, NEW T \in SUBSET Job, IsFiniteSet(T),
         loops' = [loops EXCEPT ![l].tasks = T]
  PROVE  LoopsOK' /\ Makes(l, loops[l].driver, loops[l].lock, loops[l].ready, T,
                           loops[l].stopping, loops[l].closed)
<1>1. Makes(l, loops[l].driver, loops[l].lock, loops[l].ready, T, loops[l].stopping, loops[l].closed)
  BY DEF LoopsOK, LoopType, Makes
<1>2. loops' \in [Loop -> LoopType]
  BY DEF LoopsOK, LoopType
<1> QED BY <1>1, <1>2 DEF LoopsOK, Makes

LEMMA MakesTurned ==
  ASSUME LoopsOK, NEW l \in Loop, NEW q \in Seq(CallbackType), NEW T \in SUBSET Job,
         IsFiniteSet(T), NEW s \in BOOLEAN,
         \/ loops' = [[loops EXCEPT ![l].ready = q] EXCEPT ![l].tasks = T] /\ s = loops[l].stopping
         \/ loops' = [loops EXCEPT ![l].ready = q] /\ T = loops[l].tasks /\ s = loops[l].stopping
         \/ loops' = [[loops EXCEPT ![l].ready = q] EXCEPT ![l].stopping = s] /\ T = loops[l].tasks
  PROVE  LoopsOK' /\ Makes(l, loops[l].driver, loops[l].lock, q, T, s, loops[l].closed)
<1> DEFINE turned == [loops EXCEPT ![l].ready = q]
<1>1. turned \in [Loop -> LoopType] /\ turned[l] \in LoopType
  <2>1. loops \in [Loop -> LoopType] /\ loops[l] \in LoopType
    BY DEF LoopsOK
  <2>2. [loops[l] EXCEPT !.ready = q] \in LoopType
    BY <2>1 DEF LoopType
  <2> HIDE DEF LoopType
  <2> QED BY <2>1, <2>2
<1>2. /\ \A k \in Loop : k # l => turned[k] = loops[k]
      /\ turned[l].driver = loops[l].driver /\ turned[l].lock = loops[l].lock
      /\ turned[l].ready = q /\ turned[l].tasks = loops[l].tasks
      /\ turned[l].stopping = loops[l].stopping /\ turned[l].closed = loops[l].closed
  BY DEF LoopsOK, LoopType
<1> HIDE DEF turned
<1>3. Makes(l, loops[l].driver, loops[l].lock, q, T, s, loops[l].closed)
  <2>1. \/ loops' = [turned EXCEPT ![l].tasks = T] /\ s = loops[l].stopping
        \/ loops' = turned /\ T = loops[l].tasks /\ s = loops[l].stopping
        \/ loops' = [turned EXCEPT ![l].stopping = s] /\ T = loops[l].tasks
    BY DEF turned
  <2> QED BY <1>1, <1>2, <2>1 DEF LoopType, Makes
<1>4. loops' \in [Loop -> LoopType]
  <2>1. loops' \in {[turned EXCEPT ![l].tasks = T], turned, [turned EXCEPT ![l].stopping = s]}
    BY DEF turned
  <2>2. [turned EXCEPT ![l].tasks = T] \in [Loop -> LoopType]
    BY <1>1 DEF LoopType
  <2>3. [turned EXCEPT ![l].stopping = s] \in [Loop -> LoopType]
    BY <1>1 DEF LoopType
  <2> QED BY <1>1, <2>1, <2>2, <2>3
<1> QED BY <1>3, <1>4 DEF LoopsOK, Makes
-----------------------------------------------------------------------------
(***************************************************************************)
(* The types, and who drives and who locks which loop.                     *)
(***************************************************************************)
RequestPc == {"idle", "await", "feed", "submit", "drive", "driving", "result", "forget", "done"}
SenderPc  == {"idle", "lock", "drive", "driving", "done"}

\* Where the flag _closing is up, and where close() is otherwise.
Raised == {"take", "snapshot", "wait", "stop", "join", "teardown", "seize", "turn", "drain",
           "release", "unset", "lower"}
MainPc == {"polling", "open", "raise", "lowered"} \cup Raised

\* The types of what the steps of the loop's drivers do not turn on.
Typed ==
  /\ mode \in {"web", "polling"} /\ loop \in Loop \cup {None} /\ made \in 0..MaxLoops
  /\ closing \in BOOLEAN /\ draining \in BOOLEAN
  /\ at \in [Caller -> Loop \cup {None}]
  /\ owned \subseteq Request /\ updates \subseteq Request /\ snapshot \subseteq Request
  /\ future \in [Request -> {"none", "pending", "done", "cancelled"}]
  /\ closes \in 0..MaxCloses /\ late \in 0..MaxLate
  /\ outcome \in [Send -> {"absent", "none", "sent", "refused", "dropped", "raised"}]
  /\ answer \in [Request -> {"none", "200", "503"}]
  /\ handled \subseteq Request /\ accepted \subseteq Send /\ collided \subseteq Caller \cup Runner

\* The flags say where close() is; requests are served in webhook mode only.
Flow ==
  /\ pc = [c \in Caller |-> pc[c]]
  /\ \A r \in Request : pc[r] \in RequestPc
  /\ \A s \in Sender : pc[s] \in SenderPc
  /\ pc[Main] \in MainPc
  /\ closing <=> pc[Main] \in Raised
  /\ pc[Main] \in {"raise"} \cup (Raised \ {"drain", "release", "unset", "lower"}) => draining
  /\ mode = "polling" => \A r \in Request : pc[r] \in {"idle", "done"}
  /\ pc[Main] = "polling" => mode = "polling"

HoldsLock(c) ==
  IF c = Main THEN pc[c] \in {"turn", "drain", "release"} ELSE pc[c] \in {"drive", "driving"}

\* The lock of a loop is held where the code is inside `with loop_lock(loop)'.
Locks ==
  \A c \in Caller :
    HoldsLock(c) => at[c] \in Loop /\ loops[at[c]].lock = c /\ ~loops[at[c]].closed

DrivesIt(d, l) ==
  \/ d \in Request \cup Sender /\ pc[d] = "driving" /\ at[d] = l
  \/ d = Main /\ pc[d] = "polling" /\ l = loop
  \/ d = Main /\ pc[d] \in {"turn", "drain", "release"} /\ at[d] = l
  \/ d \in Runner /\ threads[d] = [state |-> "running", on |-> l]

\* A loop has the driver that is inside one of its runs, and no other.
Drivers ==
  \A l \in Loop :
    /\ loops[l].driver # Nobody => ~loops[l].closed
    /\ \A d \in Caller \cup Runner : loops[l].driver = d <=> DrivesIt(d, l)

Pristine ==
  [driver |-> Nobody, lock |-> Nobody, ready |-> <<>>, tasks |-> {}, stopping |-> FALSE,
   closed |-> FALSE]

\* Nobody knows a loop that was not made.
Known ==
  /\ loop <= made
  /\ \A c \in Caller : at[c] <= made
  /\ \A t \in Runner : threads[t].on <= made
  /\ \A l \in Loop : l > made => loops[l] = Pristine

\* Who has looked up a loop, and that the one there is was not closed yet.
Placed ==
  /\ loop # None /\ loops[loop].closed => pc[Main] = "unset"
  /\ pc[Main] \in {"seize", "turn", "drain", "release"} => at[Main] = loop /\ loop # None
  /\ pc[Main] = "polling" => loop # None
  /\ \A c \in Request \cup Sender : pc[c] \in {"lock", "submit", "result"} => at[c] # None
  /\ \A t \in Runner : threads[t].state # "unmade" => threads[t].on # None

Ground == Flow /\ Locks /\ Drivers /\ Known /\ Placed

Base == KInv /\ Typed /\ LoopsOK /\ Ground

\* A step of the caller c, to a label.
Moves(c, label) ==
  /\ pc' = [d \in Caller |-> pc'[d]]
  /\ pc'[c] = label /\ \A d \in Caller : d # c => pc'[d] = pc[d]

LEMMA GotoMoves ==
  ASSUME Flow, NEW c \in Caller, NEW label, Goto(c, label)
  PROVE  Moves(c, label)
  BY DEF Flow, Goto, Moves

LEMMA CallerIsSomebody ==
  /\ Main \in Caller /\ Main \notin Request \cup Sender /\ Main \notin Runner
  /\ Nobody \notin Caller \cup Runner /\ Request \cap Sender = {} /\ Caller \cap Runner = {}
  /\ Request \subseteq Caller /\ Sender \subseteq Caller
  /\ Caller = Request \cup Sender \cup {Main}
BY MainIsNobodyElse, NobodyIsNobody, ThreadsAreDistinct, JobsAreDisjoint DEF Caller, Send

LEMMA LoopNumbers ==
  Loop \subseteq Nat \ {0} /\ None \notin Loop /\ None = 0 /\ 1 \in Loop
BY BoundsAreKnown DEF Loop, None

\* The loops as one lock and one driver after another sees them: what a step of
\* somebody, a caller or a runner, may do to their locks and drivers.
Keeps(c) ==
  \A k \in Loop :
    /\ loops'[k].lock = loops[k].lock \/ loops[k].lock \in {c, Nobody}
    /\ loops'[k].closed = loops[k].closed \/ loops[k].lock = c
    /\ loops'[k].driver = loops[k].driver \/ {loops[k].driver, loops'[k].driver} \subseteq {c, Nobody}
    /\ k > made => loops'[k] = loops[k]

\* Finding the loop there is, or making one.
Finds ==
  \/ loop' = loop /\ made' = made
  \/ loop = None /\ loop' = made + 1 /\ made' = made + 1 /\ loop' \in Loop

LEMMA LookUpFinds ==
  ASSUME Typed, LookUpLoop
  PROVE  Finds /\ loop' = TheLoop /\ TheLoop \in Loop
  BY LoopNumbers DEF LookUpLoop, TheLoop, Finds, Typed

LEMMA FacadeFinds == ASSUME UNCHANGED facade PROVE Finds
  BY DEF facade, Finds

LEMMA LocksBy ==
  ASSUME Locks, NEW c \in Caller \cup Runner, Keeps(c),
         \A d \in Caller : d # c => pc'[d] = pc[d] /\ at'[d] = at[d],
         c \in Caller /\ HoldsLock(c)' =>
           at'[c] \in Loop /\ loops'[at'[c]].lock = c /\ ~loops'[at'[c]].closed
  PROVE  Locks'
<1> SUFFICES ASSUME NEW d \in Caller, d # c, HoldsLock(d)'
             PROVE  at'[d] \in Loop /\ loops'[at'[d]].lock = d /\ ~loops'[at'[d]].closed
  BY DEF Locks
<1>1. HoldsLock(d)
  BY DEF HoldsLock
<1>2. at[d] \in Loop /\ loops[at[d]].lock = d /\ ~loops[at[d]].closed
  BY <1>1 DEF Locks
<1> QED BY <1>2, CallerIsSomebody DEF Keeps

\* The runners other than c that run, run on as they did.
RunOn(c) ==
  \A t \in Runner :
    \/ t = c
    \/ threads'[t] = threads[t]
    \/ threads[t].state # "running" /\ threads'[t].state # "running"

LEMMA DriversBy ==
  ASSUME Drivers, NEW c \in Caller \cup Runner, Keeps(c), RunOn(c),
         \A d \in Caller : d # c => pc'[d] = pc[d] /\ at'[d] = at[d],
         c # Main /\ pc[Main] = "polling" => loop' = loop,
         \A k \in Loop : loops'[k].driver = c <=> DrivesIt(c, k)',
         \A k \in Loop : loops'[k].driver # Nobody => ~loops'[k].closed
  PROVE  Drivers'
<1> SUFFICES ASSUME NEW k \in Loop, NEW d \in Caller \cup Runner, d # c
             PROVE  loops'[k].driver = d <=> DrivesIt(d, k)'
  BY DEF Drivers
<1>1. loops'[k].driver = d <=> loops[k].driver = d
  BY CallerIsSomebody DEF Keeps
<1>2. loops[k].driver = d <=> DrivesIt(d, k)
  BY DEF Drivers
<1>3. DrivesIt(d, k)' <=> DrivesIt(d, k)
  <2>1. CASE d \in Caller
    <3>1. d \notin Runner /\ pc'[d] = pc[d] /\ at'[d] = at[d]
      BY <2>1, CallerIsSomebody
    <3>2. d = Main /\ pc[d] = "polling" => loop' = loop
      BY CallerIsSomebody
    <3> QED BY <3>1, <3>2 DEF DrivesIt
  <2>2. CASE d \in Runner
    <3>1. d \notin Caller
      BY <2>2, CallerIsSomebody
    <3>2. d \notin Request \cup Sender /\ d # Main
      BY <3>1, CallerIsSomebody
    <3> QED BY <2>2, <3>2 DEF DrivesIt, RunOn
  <2> QED BY <2>1, <2>2
<1> QED BY <1>1, <1>2, <1>3

LEMMA KnownBy ==
  ASSUME Known, Typed, Shape, (made' = made /\ loop' \in {loop, None}) \/ Finds,
         \A d \in Caller : at'[d] = at[d] \/ at'[d] \in {loop', None},
         \A t \in Runner : threads'[t].on = threads[t].on \/ threads'[t].on \in {loop', None},
         \A k \in Loop : k > made => loops'[k] = loops[k]
  PROVE  Known' /\ made' >= made
<1>1. made \in Nat /\ loop \in Nat /\ made' \in Nat /\ loop' \in Nat
  BY LoopNumbers DEF Typed, Finds
<1>2. made' >= made /\ loop' <= made'
  BY <1>1, LoopNumbers DEF Finds, Known
<1>3. ASSUME NEW d \in Caller PROVE at'[d] <= made'
  <2>1. at[d] \in Nat /\ at[d] <= made
    <3>1. at[d] \in Loop \cup {None} /\ at[d] <= made
      BY DEF Known, Typed
    <3>2. at[d] \in Nat
      <4>1. CASE at[d] \in Loop
        BY <4>1, LoopNumbers
      <4>2. CASE at[d] = None
        BY <4>2, LoopNumbers
      <4> QED BY <3>1, <4>1, <4>2
    <3> QED BY <3>1, <3>2
  <2>2. at'[d] = at[d] \/ at'[d] = loop' \/ at'[d] = 0
    BY LoopNumbers
  <2> QED BY <1>1, <1>2, <2>1, <2>2
<1>4. ASSUME NEW t \in Runner PROVE threads'[t].on <= made'
  <2>1. threads[t].on \in Nat /\ threads[t].on <= made
    BY LoopNumbers DEF Known, Shape
  <2>2. threads'[t].on = threads[t].on \/ threads'[t].on = loop' \/ threads'[t].on = 0
    BY LoopNumbers
  <2> QED BY <1>1, <1>2, <2>1, <2>2
<1>5. \A k \in Loop : k > made' => loops'[k] = Pristine
  BY <1>1, <1>2, LoopNumbers DEF Known
<1> QED BY <1>2, <1>3, <1>4, <1>5 DEF Known

\* A caller other than the main thread takes a step: what has to be shown of it.
LEMMA CallersStep ==
  ASSUME Base, NEW c \in Request \cup Sender, NEW label, Moves(c, label), Keeps(c), Finds, RunOn(c),
         UNCHANGED <<mode, closing, draining>>,
         c \in Request => label \in RequestPc,
         c \in Sender => label \in SenderPc,
         c \in Request /\ mode = "polling" => label = "done",
         \A d \in Caller : d # c => at'[d] = at[d],
         at'[c] = at[c] \/ (at'[c] = loop' /\ loop' # None),
         label \in {"lock", "submit", "result"} => at'[c] # None,
         \A t \in Runner : \/ threads'[t].on = threads[t].on /\ threads'[t].state = threads[t].state
                           \/ threads'[t].on = loop' /\ loop' # None,
         \A k \in Loop : loops'[k].closed = loops[k].closed,
         \A k \in Loop : loops'[k].driver = c <=> (label = "driving" /\ at'[c] = k),
         label = "driving" => at'[c] \in Loop /\ ~loops[at'[c]].closed,
         label \in {"drive", "driving"} =>
           at'[c] \in Loop /\ loops'[at'[c]].lock = c /\ ~loops'[at'[c]].closed
  PROVE  Ground'
<1>1. c \in Caller /\ c # Main /\ Main \in Caller /\ pc'[c] = label /\ pc'[Main] = pc[Main]
      /\ c \notin Runner /\ Request \cap Sender = {} /\ at'[Main] = at[Main]
      /\ \A d \in Request \cup Sender : d # c => pc'[d] = pc[d]
  BY CallerIsSomebody DEF Moves
<1>2. Flow'
  BY <1>1 DEF Flow, Base, Ground, Moves
<1>3. Locks'
  <2>1. HoldsLock(c)' => label \in {"drive", "driving"}
    BY <1>1 DEF HoldsLock
  <2> QED BY <1>1, <2>1, LocksBy DEF Base, Ground, Moves
<1>4. Known'
  BY <1>1, KnownBy DEF Base, Ground, Keeps, KInv
<1>5. pc[Main] = "polling" => loop' = loop
  BY DEF Finds, Base, Ground, Placed
<1>6. Drivers'
  <2>1. \A k \in Loop : DrivesIt(c, k)' <=> label = "driving" /\ at'[c] = k
    BY <1>1 DEF DrivesIt
  <2>2. ASSUME NEW k \in Loop, loops'[k].driver # Nobody PROVE ~loops'[k].closed
    <3>1. CASE loops'[k].driver = loops[k].driver
      BY <2>2, <3>1 DEF Base, Ground, Drivers
    <3>2. CASE loops'[k].driver # loops[k].driver
      <4>1. loops'[k].driver = c
        BY <2>2, <3>2 DEF Keeps
      <4> QED BY <4>1
    <3> QED BY <3>1, <3>2
  <2> QED BY <1>1, <1>5, <2>1, <2>2, DriversBy DEF Base, Ground, Moves
<1>7. loop' # None /\ loops'[loop'].closed => pc'[Main] = "unset"
  <2>1. CASE loop' = loop
    BY <1>1, <2>1, LoopNumbers DEF Base, Ground, Placed, Typed
  <2>2. CASE loop' = made + 1 /\ loop' \in Loop
    <3>1. loops[loop'] = Pristine
      BY <2>2, LoopNumbers DEF Base, Ground, Known, Typed
    <3> QED BY <2>2, <3>1 DEF Pristine
  <2> QED BY <2>1, <2>2 DEF Finds
<1>8. Placed'
  <2>1. pc[Main] \in {"seize", "turn", "drain", "release", "polling"} => loop' = loop
    BY DEF Finds, Base, Ground, Placed
  <2>2. \A d \in Request \cup Sender : pc'[d] \in {"lock", "submit", "result"} => at'[d] # None
    BY <1>1, CallerIsSomebody DEF Base, Ground, Placed
  <2>3. \A t \in Runner : threads'[t].state # "unmade" => threads'[t].on # None
    BY DEF Base, Ground, Placed
  <2>4. pc'[Main] \in {"seize", "turn", "drain", "release"} => at'[Main] = loop' /\ loop' # None
    BY <1>1, <2>1 DEF Base, Ground, Placed
  <2>5. pc'[Main] = "polling" => loop' # None
    BY <1>1, <2>1 DEF Base, Ground, Placed
  <2> QED BY <1>7, <2>2, <2>3, <2>4, <2>5 DEF Placed
<1> QED BY <1>2, <1>3, <1>4, <1>6, <1>8 DEF Ground

\* The main thread takes a step: what has to be shown of it.
LEMMA MainsStep ==
  ASSUME Base, NEW label \in MainPc, Moves(Main, label), Keeps(Main),
         (made' = made /\ loop' \in {loop, None}) \/ Finds, UNCHANGED <<mode>>,
         closing' <=> label \in Raised,
         label \in {"raise"} \cup (Raised \ {"drain", "release", "unset", "lower"}) => draining',
         label # "polling",
         \A d \in Caller : d # Main => at'[d] = at[d],
         at'[Main] = at[Main] \/ (at'[Main] = loop' /\ loop' # None),
         UNCHANGED threads,
         \A k \in Loop : loops'[k].driver = Main <=> (label \in {"turn", "drain", "release"} /\ at'[Main] = k),
         \A k \in Loop : loops'[k].driver # Nobody => ~loops'[k].closed,
         label \in {"turn", "drain", "release"} =>
           at'[Main] \in Loop /\ loops'[at'[Main]].lock = Main /\ ~loops'[at'[Main]].closed,
         label \in {"seize", "turn", "drain", "release"} => at'[Main] = loop' /\ loop' # None,
         loop' # None /\ loops'[loop'].closed => label = "unset"
  PROVE  Ground'
<1>1. Main \in Caller /\ Main \notin Runner /\ pc'[Main] = label /\ Main \notin Request \cup Sender
      /\ \A d \in Request \cup Sender : pc'[d] = pc[d] /\ at'[d] = at[d]
  BY CallerIsSomebody DEF Moves
<1>2. Flow'
  BY <1>1 DEF Flow, Base, Ground, Moves
<1>3. Locks'
  <2>1. HoldsLock(Main)' => label \in {"turn", "drain", "release"}
    BY <1>1 DEF HoldsLock
  <2> QED BY <1>1, <2>1, LocksBy DEF Base, Ground, Moves
<1>4. Known'
  BY <1>1, KnownBy DEF Base, Ground, Keeps, KInv
<1>5. Drivers'
  <2>1. \A k \in Loop : DrivesIt(Main, k)' <=> label \in {"turn", "drain", "release"} /\ at'[Main] = k
    BY <1>1 DEF DrivesIt
  <2>2. RunOn(Main)
    BY DEF RunOn
  <2> QED BY <1>1, <2>1, <2>2, DriversBy DEF Base, Ground, Moves
<1>6. Placed'
  BY <1>1 DEF Base, Ground, Placed
<1> QED BY <1>2, <1>3, <1>4, <1>5, <1>6 DEF Ground

\* What the loop does by itself: what has to be shown of it.
LEMMA LoopsStep ==
  ASSUME Base, UNCHANGED <<mode, loop, made, closing, draining, pc, at, threads>>,
         \A k \in Loop : /\ loops'[k].lock = loops[k].lock /\ loops'[k].driver = loops[k].driver
                         /\ loops'[k].closed = loops[k].closed
                         /\ k > made => loops'[k] = loops[k]
  PROVE  Ground'
<1>1. Flow' /\ Locks'
  BY DEF Base, Ground, Flow, Locks, HoldsLock
<1>2. Drivers'
  BY DEF Base, Ground, Drivers, DrivesIt
<1>3. Known'
  BY DEF Base, Ground, Known
<1>4. Placed'
  BY LoopNumbers DEF Base, Ground, Placed, Typed
<1> QED BY <1>1, <1>2, <1>3, <1>4 DEF Ground

\* A runner's thread takes a step: what has to be shown of it.
LEMMA RunnersStep ==
  ASSUME Base, UNCHANGED <<mode, loop, made, closing, draining, pc, at>>, NEW t \in Runner, Keeps(t),
         \A u \in Runner : u # t => threads'[u] = threads[u],
         threads'[t].on = threads[t].on, threads[t].state # "unmade",
         \A k \in Loop : loops'[k].closed = loops[k].closed,
         \A k \in Loop : loops'[k].driver = t <=> threads'[t] = [state |-> "running", on |-> k],
         \A k \in Loop : loops'[k].driver # Nobody => ~loops'[k].closed
  PROVE  Ground'
<1>1. t \notin Caller
  BY CallerIsSomebody
<1>2. Flow'
  BY DEF Base, Ground, Flow
<1>3. Locks'
  BY <1>1, LocksBy DEF Base, Ground
<1>4. Drivers'
  <2>1. \A k \in Loop : DrivesIt(t, k)' <=> threads'[t] = [state |-> "running", on |-> k]
    BY <1>1, CallerIsSomebody DEF DrivesIt
  <2>2. RunOn(t)
    BY DEF RunOn
  <2> QED BY <2>1, <2>2, DriversBy DEF Base, Ground
<1>5. Known'
  BY KnownBy DEF Base, Ground, Keeps, KInv, Finds
<1>6. Placed'
  BY LoopNumbers DEF Base, Ground, Placed, Typed
<1> QED BY <1>2, <1>3, <1>4, <1>5, <1>6 DEF Ground

\* A step that changes one loop, and how.
LEMMA MakesKeeps ==
  ASSUME Base, NEW c, NEW l \in Loop, l <= made,
         NEW d, NEW k, NEW q, NEW T, NEW s, NEW z, Makes(l, d, k, q, T, s, z),
         k = loops[l].lock \/ loops[l].lock \in {c, Nobody},
         z = loops[l].closed \/ loops[l].lock = c,
         d = loops[l].driver \/ {loops[l].driver, d} \subseteq {c, Nobody}
  PROVE  Keeps(c)
<1> SUFFICES ASSUME NEW j \in Loop
             PROVE /\ loops'[j].lock = loops[j].lock \/ loops[j].lock \in {c, Nobody}
                   /\ loops'[j].closed = loops[j].closed \/ loops[j].lock = c
                   /\ loops'[j].driver = loops[j].driver \/ {loops[j].driver, loops'[j].driver} \subseteq {c, Nobody}
                   /\ j > made => loops'[j] = loops[j]
  BY DEF Keeps
<1>1. CASE j = l
  <2>1. l \in Nat /\ made \in Nat
    BY LoopNumbers DEF Base, Typed
  <2> QED BY <1>1, <2>1 DEF Makes
<1>2. CASE j # l
  BY <1>2 DEF Makes
<1> QED BY <1>1, <1>2

LEMMA QuietKeeps ==
  ASSUME LoopsOK, UNCHANGED loops, NEW c
  PROVE  LoopsOK' /\ Keeps(c)
  BY DEF LoopsOK, Keeps

\* Who is not inside a run drives no loop.
LEMMA NotDriving ==
  ASSUME Base, NEW c \in Request \cup Sender, pc[c] # "driving"
  PROVE  \A k \in Loop : loops[k].driver # c
  BY CallerIsSomebody DEF Base, Ground, Drivers, DrivesIt

\* The loop that somebody inside its lock has looked up.
LEMMA Locked ==
  ASSUME Base, NEW c \in Request \cup Sender, pc[c] \in {"drive", "driving"}
  PROVE  at[c] \in Loop /\ loops[at[c]].lock = c /\ ~loops[at[c]].closed /\ at[c] <= made
  BY CallerIsSomebody DEF Base, Ground, Locks, HoldsLock, Known

LEMMA Found ==
  ASSUME Base, NEW c \in Request \cup Sender, pc[c] \in {"lock", "submit", "result"}
  PROVE  at[c] \in Loop /\ at[c] <= made
  BY CallerIsSomebody DEF Base, Ground, Placed, Known, Typed

\* A caller's step that leaves the loops and the threads as they are.
LEMMA QuietCaller ==
  ASSUME Base, NEW c \in Request \cup Sender, NEW label, Goto(c, label), Finds,
         UNCHANGED <<mode, loops, runners, flags>>, pc[c] # "driving",
         c \in Request => label \in RequestPc, c \in Sender => label \in SenderPc,
         label \notin {"drive", "driving"},
         c \in Request => pc[c] # "idle" /\ pc[c] # "done",
         \A d \in Caller : d # c => at'[d] = at[d],
         at'[c] = at[c] \/ (at'[c] = loop' /\ loop' # None),
         label \in {"lock", "submit", "result"} => at'[c] # None
  PROVE  LoopsOK' /\ Ground'
<1>1. Moves(c, label)
  BY GotoMoves, CallerIsSomebody DEF Base, Ground
<1>2. LoopsOK' /\ Keeps(c) /\ RunOn(c)
  BY QuietKeeps DEF Base, RunOn, runners
<1>3. c \in Request => mode # "polling"
  BY DEF Base, Ground, Flow
<1>4. UNCHANGED <<mode, closing, draining, threads, loops>>
  BY DEF flags, runners
<1> QED BY <1>1, <1>2, <1>3, <1>4, NotDriving, CallersStep

LEMMA AwaitRunnerBase == ASSUME Base, NEW r \in Request, AwaitRunner(r) PROVE LoopsOK' /\ Ground'
<1>1. Goto(r, "feed") /\ Finds /\ UNCHANGED <<mode, loops, runners, flags, at>> /\ pc[r] = "await"
  BY FacadeFinds DEF AwaitRunner, facade, runners
<1> QED BY <1>1, QuietCaller, CallerIsSomebody DEF RequestPc

LEMMA CaptureLoopBase == ASSUME Base, NEW r \in Request, CaptureLoop(r) PROVE LoopsOK' /\ Ground'
<1>1. Goto(r, "submit") /\ Finds /\ UNCHANGED <<mode, loops, runners, flags>> /\ pc[r] = "feed"
      /\ loop' = TheLoop /\ TheLoop \in Loop /\ at' = [at EXCEPT ![r] = TheLoop]
  BY LookUpFinds DEF CaptureLoop, facade, LookUpLoop, Base
<1>2. at'[r] = loop' /\ loop' # None /\ \A d \in Caller : d # r => at'[d] = at[d]
  BY <1>1, LoopNumbers, CallerIsSomebody DEF Base, Typed
<1> QED BY <1>1, <1>2, QuietCaller, CallerIsSomebody DEF RequestPc

LEMMA SubmitBase == ASSUME Base, NEW r \in Request, SubmitUpdate(r) PROVE LoopsOK' /\ Ground'
<1> DEFINE l == at[r]
<1>1. /\ pc[r] = "submit" /\ Free(l) /\ l \in Loop /\ l <= made /\ l # None
      /\ Finds /\ UNCHANGED <<mode, loop, made, closing, draining, runners, threads, flags, at>>
  BY Found, FacadeFinds, LoopNumbers DEF SubmitUpdate, facade, flags, runners
<1>2. r \in Caller /\ \A k \in Loop : loops[k].driver # r
  BY <1>1, NotDriving, CallerIsSomebody
<1>3. CASE Goto(r, "done") /\ UNCHANGED loops
  BY <1>1, <1>3, QuietCaller, CallerIsSomebody DEF RequestPc
<1>4. mode # "polling" /\ RunOn(r) /\ loops[l].lock = Nobody /\ r \in Request \cup Sender /\ r \notin Sender
  BY <1>1, CallerIsSomebody DEF Base, Ground, Flow, RunOn, Free
<1>5. CASE loops' = Queued(l, Callback("feed", r)) /\ Goto(r, "result")
  <2>1. Callback("feed", r) \in CallbackType
    BY DEF Callback, CallbackType, Job
  <2>2. LoopsOK' /\ Makes(l, loops[l].driver, loops[l].lock, Append(loops[l].ready, Callback("feed", r)),
                          loops[l].tasks, loops[l].stopping, loops[l].closed)
    BY <1>1, <1>5, <2>1, MakesQueued DEF Base
  <2>3. Keeps(r)
    BY <1>1, <2>2, MakesKeeps
  <2>4. \A k \in Loop : loops'[k].closed = loops[k].closed /\ loops'[k].driver = loops[k].driver
    BY <2>2 DEF Makes
  <2>5. Moves(r, "result")
    BY <1>2, <1>5, GotoMoves DEF Base, Ground
  <2> QED BY <1>1, <1>2, <1>4, <2>2, <2>3, <2>4, <2>5, CallersStep DEF RequestPc
<1>6. CASE ~Refuses(l) /\ loops' = [loops EXCEPT ![l].lock = r] /\ Goto(r, "drive")
  <2>2. LoopsOK' /\ Makes(l, loops[l].driver, r, loops[l].ready,
                          loops[l].tasks, loops[l].stopping, loops[l].closed)
    BY <1>1, <1>2, <1>6, MakesLock DEF Base
  <2>3. Keeps(r)
    BY <1>1, <1>4, <2>2, MakesKeeps
  <2>4. /\ \A k \in Loop : loops'[k].closed = loops[k].closed /\ loops'[k].driver = loops[k].driver
        /\ ~loops'[l].closed /\ loops'[l].lock = r
    BY <1>1, <1>6, <2>2 DEF Makes, Refuses
  <2>5. Moves(r, "drive")
    BY <1>2, <1>6, GotoMoves DEF Base, Ground
  <2> QED BY <1>1, <1>2, <1>4, <2>2, <2>3, <2>4, <2>5, CallersStep DEF RequestPc
<1> QED BY <1>3, <1>5, <1>6 DEF SubmitUpdate

LEMMA DriveUpdateBase == ASSUME Base, NEW r \in Request, DriveUpdate(r) PROVE LoopsOK' /\ Ground'
<1> DEFINE l == at[r]
<1>1. /\ pc[r] = "drive" /\ l \in Loop /\ l <= made /\ loops[l].lock = r /\ ~loops[l].closed
      /\ Finds /\ UNCHANGED <<mode, loop, made, closing, draining, runners, threads, flags, at>>
  BY Locked, FacadeFinds DEF DriveUpdate, facade, flags, runners
<1>2. r \in Caller /\ r \in Request \cup Sender /\ r \notin Sender /\ l # None
      /\ (\A k \in Loop : loops[k].driver # r) /\ mode # "polling" /\ RunOn(r)
  BY <1>1, NotDriving, CallerIsSomebody, LoopNumbers DEF Base, Ground, Flow, RunOn
<1>3. CASE loops' = [loops EXCEPT ![l].lock = Nobody] /\ Goto(r, "done")
  <2>1. LoopsOK' /\ Makes(l, loops[l].driver, Nobody, loops[l].ready,
                          loops[l].tasks, loops[l].stopping, loops[l].closed)
    BY <1>1, <1>3, MakesLock DEF Base
  <2>2. Keeps(r)
    BY <1>1, <2>1, MakesKeeps
  <2>3. \A k \in Loop : loops'[k].closed = loops[k].closed /\ loops'[k].driver = loops[k].driver
    BY <2>1 DEF Makes
  <2>4. Moves(r, "done")
    BY <1>2, <1>3, GotoMoves DEF Base, Ground
  <2> QED BY <1>1, <1>2, <2>1, <2>2, <2>3, <2>4, CallersStep DEF RequestPc
<1>4. CASE /\ ~Running(l) /\ loops' = [loops EXCEPT ![l].driver = r, ![l].tasks = @ \cup {r}]
           /\ Goto(r, "driving")
  <2>1. LoopsOK' /\ Makes(l, r, loops[l].lock, loops[l].ready, loops[l].tasks \cup {r},
                          loops[l].stopping, loops[l].closed)
    BY <1>1, <1>4, MakesDriven DEF Base
  <2>2. Keeps(r)
    BY <1>1, <1>4, <2>1, MakesKeeps DEF Running
  <2>3. /\ \A k \in Loop : loops'[k].closed = loops[k].closed
        /\ \A k \in Loop : loops'[k].driver = r <=> l = k
        /\ loops'[l].lock = r
    BY <1>1, <1>2, <2>1 DEF Makes
  <2>4. Moves(r, "driving")
    BY <1>2, <1>4, GotoMoves DEF Base, Ground
  <2> QED BY <1>1, <1>2, <2>1, <2>2, <2>3, <2>4, CallersStep DEF RequestPc
<1> QED BY <1>1, <1>3, <1>4 DEF DriveUpdate

\* A run that a caller drove ends.
LEMMA DrivenBase ==
  ASSUME Base, NEW c \in Request \cup Sender, pc[c] = "driving", Goto(c, "done"),
         loops' = Unlocked(at[c]), UNCHANGED <<facade, runners, flags, at>>
  PROVE  LoopsOK' /\ Ground'
<1> DEFINE l == at[c]
<1>1. /\ l \in Loop /\ l <= made /\ loops[l].lock = c /\ ~loops[l].closed
      /\ Finds /\ UNCHANGED <<mode, loop, made, closing, draining, threads>>
  BY Locked, FacadeFinds DEF facade, flags, runners
<1>2. /\ c \in Caller /\ c # Main /\ c # Nobody /\ l # None /\ RunOn(c)
      /\ c \in Request => mode # "polling"
  BY <1>1, CallerIsSomebody, LoopNumbers DEF Base, Ground, Flow, RunOn
<1>3. \A k \in Loop : loops[k].driver = c <=> k = l
  BY <1>2, CallerIsSomebody DEF Base, Ground, Drivers, DrivesIt
<1>4. LoopsOK' /\ Makes(l, Nobody, Nobody, loops[l].ready, loops[l].tasks, FALSE, loops[l].closed)
  BY <1>1, MakesUnlocked DEF Base
<1>5. Keeps(c)
  BY <1>1, <1>3, <1>4, MakesKeeps
<1>6. /\ \A k \in Loop : loops'[k].closed = loops[k].closed
      /\ \A k \in Loop : loops'[k].driver # c
  BY <1>1, <1>2, <1>3, <1>4 DEF Makes
<1>7. Moves(c, "done")
  BY <1>2, GotoMoves DEF Base, Ground
<1> QED BY <1>1, <1>2, <1>4, <1>5, <1>6, <1>7, CallersStep DEF RequestPc, SenderPc

LEMMA AwaitUpdateBase == ASSUME Base, NEW r \in Request, AwaitUpdate(r) PROVE LoopsOK' /\ Ground'
<1>1. Goto(r, "forget") /\ Finds /\ UNCHANGED <<mode, loops, runners, flags, at>> /\ pc[r] = "result"
  BY FacadeFinds DEF AwaitUpdate, facade, runners
<1> QED BY <1>1, QuietCaller, CallerIsSomebody DEF RequestPc

LEMMA ForgetBase == ASSUME Base, NEW r \in Request, ForgetUpdate(r) PROVE LoopsOK' /\ Ground'
<1>1. Goto(r, "done") /\ Finds /\ UNCHANGED <<mode, loops, runners, flags, at>> /\ pc[r] = "forget"
  BY FacadeFinds DEF ForgetUpdate, facade, runners
<1> QED BY <1>1, QuietCaller, CallerIsSomebody DEF RequestPc

LEMMA EnsureBase == ASSUME Base, NEW r \in Request, EnsureLoopRuns(r) PROVE LoopsOK' /\ Ground'
<1>1. /\ pc[r] = "idle" /\ mode = "web" /\ UNCHANGED <<mode, closing, draining, loops, at>>
      /\ r \in Caller /\ r \notin Sender /\ \A k \in Loop : loops[k].driver # r
  BY NotDriving, CallerIsSomebody DEF EnsureLoopRuns, flags, facade, LookUpLoop
<1>2. LoopsOK' /\ Keeps(r)
  BY <1>1, QuietKeeps DEF Base
<1>3. PICK label \in {"feed", "await"} : Goto(r, label)
  BY DEF EnsureLoopRuns
<1>4. Moves(r, label)
  BY <1>1, <1>3, GotoMoves DEF Base, Ground
<1>5. CASE UNCHANGED <<facade, threads>>
  BY <1>1, <1>2, <1>4, <1>5, FacadeFinds, CallersStep DEF RequestPc, RunOn
<1>6. CASE LookUpLoop /\ (UNCHANGED threads \/ StartRunner(TheLoop))
  <2>1. Finds /\ loop' = TheLoop /\ loop' # None /\ TheLoop \in Loop
    BY <1>6, LookUpFinds, LoopNumbers DEF Base
  <2>2. CASE UNCHANGED threads
    BY <1>1, <1>2, <1>4, <2>1, <2>2, CallersStep DEF RequestPc, RunOn
  <2>3. CASE StartRunner(TheLoop)
    <3>1. PICK t \in Runner : threads[t].state = "unmade"
                              /\ threads' = [threads EXCEPT ![t] = [state |-> "started", on |-> loop']]
      <4>1. Unmade # {} /\ Unmade \subseteq Runner
        BY <2>3 DEF StartRunner, Unmade
      <4>2. Min(Unmade) \in Unmade
        BY <4>1, MinOfNats, Runner \subseteq Nat DEF Runner
      <4> QED BY <2>1, <2>3, <4>1, <4>2 DEF StartRunner, Unmade
    <3>2. /\ \A u \in Runner : u # t => threads'[u] = threads[u]
          /\ threads'[t].state = "started" /\ threads'[t].on = loop'
      BY <3>1 DEF Base, KInv, Shape
    <3>3. RunOn(r)
      BY <3>1, <3>2 DEF RunOn
    <3> QED BY <1>1, <1>2, <1>4, <2>1, <3>2, <3>3, CallersStep DEF RequestPc
  <2> QED BY <1>6, <2>2, <2>3
<1> QED BY <1>5, <1>6 DEF EnsureLoopRuns, runners

LEMMA ScheduleBase == ASSUME Base, NEW s \in Sender, ScheduleSend(s) PROVE LoopsOK' /\ Ground'
<1>1. pc[s] = "idle" /\ UNCHANGED <<mode, loops, runners, flags>> /\ s \notin Request /\ s \in Caller
  BY CallerIsSomebody DEF ScheduleSend, runners, facade, LookUpLoop
<1>2. CASE Goto(s, "done") /\ UNCHANGED <<facade, at>>
  BY <1>1, <1>2, FacadeFinds, QuietCaller DEF SenderPc
<1>3. CASE LookUpLoop /\ at' = [at EXCEPT ![s] = TheLoop] /\ Goto(s, "lock")
  <2>1. Finds /\ loop' = TheLoop /\ loop' # None /\ TheLoop \in Loop
    BY <1>3, LookUpFinds, LoopNumbers DEF Base
  <2>2. at'[s] = loop' /\ \A d \in Caller : d # s => at'[d] = at[d]
    BY <1>1, <1>3, <2>1 DEF Base, Typed
  <2> QED BY <1>1, <1>3, <2>1, <2>2, QuietCaller DEF SenderPc
<1> QED BY <1>2, <1>3 DEF ScheduleSend

\* A send is handed over, and the lock released.
LEMMA HandOffBase ==
  ASSUME Base, NEW s \in Sender, pc[s] \in {"lock", "drive"}, HandOff(s, at[s]),
         loops[at[s]].lock \in {s, Nobody}, UNCHANGED <<facade, runners, flags, at>>
  PROVE  LoopsOK' /\ Ground'
<1> DEFINE l == at[s]
<1>1. /\ l \in Loop /\ l <= made /\ s \in Caller /\ s \notin Request
      /\ Finds /\ UNCHANGED <<mode, loop, made, closing, draining, threads>>
  BY Locked, Found, FacadeFinds, CallerIsSomebody DEF facade, flags, runners
<1>2. (\A k \in Loop : loops[k].driver # s) /\ RunOn(s)
  BY <1>1, NotDriving DEF RunOn
<1>3. Callback("start", s) \in CallbackType
  BY DEF Callback, CallbackType, Job, Send
<1>4. LoopsOK' /\ Makes(l, loops[l].driver, Nobody, Append(loops[l].ready, Callback("start", s)),
                        loops[l].tasks, loops[l].stopping, loops[l].closed)
  BY <1>1, <1>3, MakesHandedOver DEF Base, HandOff
<1>5. Keeps(s)
  BY <1>1, <1>4, MakesKeeps
<1>6. \A k \in Loop : loops'[k].closed = loops[k].closed /\ loops'[k].driver = loops[k].driver
  BY <1>4 DEF Makes
<1>7. Moves(s, "done")
  BY <1>1, GotoMoves DEF Base, Ground, HandOff
<1> QED BY <1>1, <1>2, <1>4, <1>5, <1>6, <1>7, CallersStep DEF SenderPc

LEMMA LockSendBase == ASSUME Base, NEW s \in Sender, LockSend(s) PROVE LoopsOK' /\ Ground'
<1> DEFINE l == at[s]
<1>1. /\ pc[s] = "lock" /\ loops[l].lock = Nobody /\ l \in Loop /\ l <= made /\ l # None
      /\ Finds /\ UNCHANGED <<facade, mode, loop, made, closing, draining, runners, threads, flags, at>>
  BY Found, FacadeFinds, LoopNumbers DEF LockSend, Free, facade, flags, runners
<1>2. s \in Caller /\ s \notin Request /\ RunOn(s) /\ \A k \in Loop : loops[k].driver # s
  BY <1>1, NotDriving, CallerIsSomebody DEF RunOn
<1>3. CASE Goto(s, "done") /\ UNCHANGED loops
  BY <1>1, <1>2, <1>3, QuietCaller DEF SenderPc
<1>4. CASE HandOff(s, l)
  BY <1>1, <1>4, HandOffBase
<1>5. CASE ~Refuses(l) /\ loops' = [loops EXCEPT ![l].lock = s] /\ Goto(s, "drive")
  <2>2. LoopsOK' /\ Makes(l, loops[l].driver, s, loops[l].ready,
                          loops[l].tasks, loops[l].stopping, loops[l].closed)
    BY <1>1, <1>2, <1>5, MakesLock DEF Base
  <2>3. Keeps(s)
    BY <1>1, <2>2, MakesKeeps
  <2>4. /\ \A k \in Loop : loops'[k].closed = loops[k].closed /\ loops'[k].driver = loops[k].driver
        /\ ~loops'[l].closed /\ loops'[l].lock = s
    BY <1>1, <1>5, <2>2 DEF Makes, Refuses
  <2>5. Moves(s, "drive")
    BY <1>2, <1>5, GotoMoves DEF Base, Ground
  <2> QED BY <1>1, <1>2, <2>2, <2>3, <2>4, <2>5, CallersStep DEF SenderPc
<1> QED BY <1>3, <1>4, <1>5 DEF LockSend

LEMMA DriveSendBase == ASSUME Base, NEW s \in Sender, DriveSend(s) PROVE LoopsOK' /\ Ground'
<1> DEFINE l == at[s]
<1>1. /\ pc[s] = "drive" /\ loops[l].lock = s /\ l \in Loop /\ l <= made /\ l # None
      /\ ~loops[l].closed
      /\ Finds /\ UNCHANGED <<facade, mode, loop, made, closing, draining, runners, threads, flags, at>>
  BY Locked, FacadeFinds, LoopNumbers DEF DriveSend, facade, flags, runners
<1>2. s \in Caller /\ s \notin Request /\ RunOn(s) /\ \A k \in Loop : loops[k].driver # s
  BY <1>1, NotDriving, CallerIsSomebody DEF RunOn
<1>3. CASE HandOff(s, l)
  BY <1>1, <1>3, HandOffBase
<1>4. CASE /\ ~Running(l) /\ loops' = [loops EXCEPT ![l].driver = s, ![l].tasks = @ \cup {s}]
           /\ Goto(s, "driving")
  <2>1. LoopsOK' /\ Makes(l, s, loops[l].lock, loops[l].ready, loops[l].tasks \cup {s},
                          loops[l].stopping, loops[l].closed)
    BY <1>1, <1>4, MakesDriven DEF Base
  <2>2. Keeps(s)
    BY <1>1, <1>4, <2>1, MakesKeeps DEF Running
  <2>3. /\ \A k \in Loop : loops'[k].closed = loops[k].closed
        /\ \A k \in Loop : loops'[k].driver = s <=> l = k
        /\ loops'[l].lock = s
    BY <1>1, <1>2, <2>1 DEF Makes
  <2>4. Moves(s, "driving")
    BY <1>2, <1>4, GotoMoves DEF Base, Ground
  <2> QED BY <1>1, <1>2, <2>1, <2>2, <2>3, <2>4, CallersStep DEF SenderPc
<1> QED BY <1>3, <1>4 DEF DriveSend

\* A runner that is not inside its run drives no loop.
LEMMA IdleRunner ==
  ASSUME Base, NEW t \in Runner, threads[t].state # "running"
  PROVE  \A k \in Loop : loops[k].driver # t
<1>1. t \notin Request \cup Sender /\ t # Main
  BY CallerIsSomebody
<1>2. \A k : threads[t] # [state |-> "running", on |-> k]
  OBVIOUS
<1> SUFFICES ASSUME NEW k \in Loop, loops[k].driver = t PROVE FALSE
  OBVIOUS
<1>3. DrivesIt(t, k)
  BY DEF Base, Ground, Drivers
<1> QED BY <1>1, <1>2, <1>3 DEF DrivesIt

LEMMA RunForeverBase == ASSUME Base, NEW t \in Runner, RunForever(t) PROVE LoopsOK' /\ Ground'
<1> DEFINE l == threads[t].on
<1>1. /\ threads[t].state = "started" /\ l \in Loop /\ l <= made
      /\ UNCHANGED <<mode, loop, made, closing, draining, pc, at>>
  BY DEF RunForever, Base, Ground, Placed, Known, KInv, Shape, facade, flags
<1>2. \A k \in Loop : loops[k].driver # t
  BY <1>1, IdleRunner
<1>3. CASE threads' = [threads EXCEPT ![t].state = "dead"] /\ UNCHANGED loops
  <2>1. /\ threads'[t].on = threads[t].on /\ threads'[t].state = "dead"
        /\ \A u \in Runner : u # t => threads'[u] = threads[u]
    BY <1>3 DEF Base, KInv, Shape
  <2>2. \A k \in Loop : loops'[k].driver # Nobody => ~loops'[k].closed
    BY <1>3 DEF Base, Ground, Drivers
  <2>3. \A k \in Loop : threads'[t] # [state |-> "running", on |-> k]
    BY <2>1
  <2> QED BY <1>1, <1>2, <1>3, <2>1, <2>2, <2>3, QuietKeeps, RunnersStep DEF Base
<1>4. CASE /\ ~(Running(l) \/ loops[l].closed)
           /\ threads' = [threads EXCEPT ![t].state = "running"]
           /\ loops' = [loops EXCEPT ![l].driver = t]
  <2>1. /\ threads'[t] = [state |-> "running", on |-> l]
        /\ \A u \in Runner : u # t => threads'[u] = threads[u]
    BY <1>4 DEF Base, KInv, Shape
  <2>2. LoopsOK' /\ Makes(l, t, loops[l].lock, loops[l].ready, loops[l].tasks,
                          loops[l].stopping, loops[l].closed)
    BY <1>1, <1>4, MakesRun DEF Base
  <2>3. Keeps(t)
    BY <1>1, <1>4, <2>2, MakesKeeps DEF Running
  <2>4. /\ \A k \in Loop : loops'[k].closed = loops[k].closed
        /\ \A k \in Loop : loops'[k].driver = t <=> k = l
    BY <1>1, <1>2, <2>2 DEF Makes
  <2>5. \A k \in Loop : loops'[k].driver # Nobody => ~loops'[k].closed
    BY <1>4, <2>2 DEF Makes, Base, Ground, Drivers
  <2>6. \A k \in Loop : threads'[t] = [state |-> "running", on |-> k] <=> k = l
    BY <2>1
  <2> QED BY <1>1, <2>1, <2>2, <2>3, <2>4, <2>5, <2>6, RunnersStep
<1> QED BY <1>3, <1>4 DEF RunForever

LEMMA RunnerDiesBase == ASSUME Base, NEW t \in Runner, RunnerDies(t) PROVE LoopsOK' /\ Ground'
<1>1. /\ threads[t].state = "started" /\ threads' = [threads EXCEPT ![t].state = "dead"]
      /\ UNCHANGED <<mode, loop, made, closing, draining, pc, at, loops>>
  BY DEF RunnerDies, facade, flags
<1>2. \A k \in Loop : loops[k].driver # t
  BY <1>1, IdleRunner
<1>3. /\ threads'[t].on = threads[t].on /\ threads'[t].state = "dead"
      /\ \A u \in Runner : u # t => threads'[u] = threads[u]
  BY <1>1 DEF Base, KInv, Shape
<1>4. \A k \in Loop : loops'[k].driver # Nobody => ~loops'[k].closed
  BY <1>1 DEF Base, Ground, Drivers
<1>5. \A k \in Loop : threads'[t] # [state |-> "running", on |-> k]
  BY <1>3
<1> QED BY <1>1, <1>2, <1>3, <1>4, <1>5, QuietKeeps, RunnersStep DEF Base

LEMMA RunnerStopsBase == ASSUME Base, NEW t \in Runner, RunnerStops(t) PROVE LoopsOK' /\ Ground'
<1> DEFINE l == threads[t].on
<1>1. /\ threads[t].state = "running" /\ threads' = [threads EXCEPT ![t].state = "dead"]
      /\ l \in Loop /\ l <= made /\ loops' = Left(l)
      /\ UNCHANGED <<mode, loop, made, closing, draining, pc, at>>
  BY DEF RunnerStops, facade, flags, Base, Ground, Placed, Known, KInv, Shape
<1>2. \A k \in Loop : loops[k].driver = t <=> k = l
  <2>1. \A k \in Loop : threads[t] = [state |-> "running", on |-> k] <=> k = l
    BY <1>1 DEF Base, KInv, Shape
  <2>2. t \notin Request \cup Sender /\ t # Main
    BY CallerIsSomebody
  <2> QED BY <2>1, <2>2 DEF Base, Ground, Drivers, DrivesIt
<1>3. /\ threads'[t].on = threads[t].on /\ threads'[t].state = "dead"
      /\ \A u \in Runner : u # t => threads'[u] = threads[u]
  BY <1>1 DEF Base, KInv, Shape
<1>4. LoopsOK' /\ Makes(l, Nobody, loops[l].lock, loops[l].ready, loops[l].tasks, FALSE, loops[l].closed)
  BY <1>1, MakesLeft DEF Base
<1>5. Keeps(t)
  BY <1>1, <1>2, <1>4, MakesKeeps
<1>6. /\ \A k \in Loop : loops'[k].closed = loops[k].closed
      /\ \A k \in Loop : loops'[k].driver # t
      /\ \A k \in Loop : loops'[k].driver # Nobody => ~loops'[k].closed
  BY <1>1, <1>2, <1>4, CallerIsSomebody DEF Makes, Base, Ground, Drivers
<1>7. \A k \in Loop : threads'[t] # [state |-> "running", on |-> k]
  BY <1>3
<1> QED BY <1>1, <1>3, <1>4, <1>5, <1>6, <1>7, RunnersStep

\* A loop that runs was made.
LEMMA RunningIsMade ==
  ASSUME Base, NEW l \in Loop, Running(l)
  PROVE  l <= made
<1>1. l > made => loops[l].driver = Nobody
  BY DEF Base, Ground, Known, Pristine
<1> QED BY <1>1, LoopNumbers DEF Running, Base, Typed

\* A step of a loop that runs: neither its driver nor its lock is touched.
LEMMA TurnsBase ==
  ASSUME Base, NEW l \in Loop, Running(l), NEW q, NEW T, NEW s,
         Makes(l, loops[l].driver, loops[l].lock, q, T, s, loops[l].closed),
         UNCHANGED <<facade, runners, flags, pc, at>>
  PROVE  Ground'
<1>1. l <= made /\ l \in Nat /\ made \in Nat
  BY RunningIsMade, LoopNumbers DEF Base, Typed
<1>2. \A k \in Loop : /\ loops'[k].lock = loops[k].lock /\ loops'[k].driver = loops[k].driver
                      /\ loops'[k].closed = loops[k].closed
                      /\ k > made => loops'[k] = loops[k]
  <2>1. TAKE k \in Loop
  <2>2. CASE k = l
    BY <1>1, <2>2 DEF Makes
  <2>3. CASE k # l
    BY <2>3 DEF Makes
  <2> QED BY <2>2, <2>3
<1> QED BY <1>2, LoopsStep DEF facade, flags, runners

\* What one ready callback does to its loop.
LEMMA CallbackMakes ==
  ASSUME Base, NEW l \in Loop, RunCallback(l)
  PROVE  LET callback == Head(loops[l].ready)
         IN  /\ callback \in CallbackType /\ LoopsOK'
             /\ \E T \in SUBSET Job, s \in BOOLEAN :
                  /\ Makes(l, loops[l].driver, loops[l].lock, Rest(l), T, s, loops[l].closed)
                  /\ IsFiniteSet(T)
                  /\ s = (loops[l].stopping \/ callback.do = "stop")
                  /\ T \subseteq loops[l].tasks \cup {callback.job}
                  /\ callback.do # "cancel" => loops[l].tasks \subseteq T
                  /\ callback.do = "start" /\ ~StartRefuses => callback.job \in T
                  /\ callback.do = "start" /\ StartRefuses => T = loops[l].tasks
                  /\ callback.do = "feed" => T = loops[l].tasks \cup {callback.job}
                  /\ callback.do = "cancel" => T = loops[l].tasks \ {callback.job}
                  /\ callback.do = "stop" => T = loops[l].tasks
<1> DEFINE callback == Head(loops[l].ready)
           j == callback.job
           A == loops[l].tasks
<1>1. /\ loops[l].ready # <<>> /\ loops[l].ready \in Seq(CallbackType)
      /\ A \subseteq Job /\ IsFiniteSet(A) /\ loops[l].stopping \in BOOLEAN
  BY LoopParts DEF RunCallback, Base
<1>2. callback \in CallbackType
  BY <1>1, HeadTailProperties
<1>3. /\ callback.do \in {"start", "feed", "cancel", "stop"}
      /\ callback.do \in {"start", "feed"} => j \in Job
  BY <1>2 DEF CallbackType, Job, Send
<1>4. /\ IsFiniteSet(A \cup {j}) /\ IsFiniteSet(A \ {j}) /\ A \ {j} \subseteq Job
  BY <1>1, FS_AddElement, FS_Subset
<1> DEFINE T == IF callback.do = "start" /\ ~StartRefuses THEN A \cup {j}
                ELSE IF callback.do = "feed" THEN A \cup {j}
                ELSE IF callback.do = "cancel" THEN A \ {j}
                ELSE A
           s == loops[l].stopping \/ callback.do = "stop"
<1>5. T \in SUBSET Job /\ IsFiniteSet(T) /\ s \in BOOLEAN
  BY <1>1, <1>3, <1>4
<1> DEFINE q == Rest(l)
           turned == [loops EXCEPT ![l].ready = q]
<1>6. q \in Seq(CallbackType)
  <2>1. Tail(loops[l].ready) \in Seq(CallbackType)
    BY <1>1, HeadTailProperties
  <2>2. callback.do = "feed" => Callback("cancel", j) \in CallbackType
    BY <1>2 DEF CallbackType, Callback
  <2> QED BY <2>1, <2>2, AppendProperties DEF Rest
<1>7. \/ loops' = [turned EXCEPT ![l].tasks = T] /\ s = loops[l].stopping
      \/ loops' = turned /\ T = loops[l].tasks /\ s = loops[l].stopping
      \/ loops' = [turned EXCEPT ![l].stopping = s] /\ T = loops[l].tasks
  <2>1. Turned(l)[l].tasks = A /\ Turned(l)[l].ready = Tail(loops[l].ready)
    BY DEF Turned, Base, LoopsOK, LoopType
  <2>2. callback.do # "feed" => turned = Turned(l)
    BY DEF Turned, Rest
  <2>3. CASE callback.do = "feed"
    <3> DEFINE x == [Turned(l) EXCEPT ![l].tasks = T, ![l].ready = q]
               y == [turned EXCEPT ![l].tasks = T]
    <3>1. loops' = x
      BY <1>1, <2>1, <2>3 DEF RunCallback, Rest
    <3>2. x = y
      <4>1. loops \in [Loop -> LoopType] /\ loops[l] \in LoopType
        BY DEF Base, LoopsOK
      <4> HIDE DEF T, q
      <4>2. x[l] = y[l]
        <5>1. x[l] = [[loops[l] EXCEPT !.ready = Tail(@)] EXCEPT !.tasks = T, !.ready = q]
          BY <4>1 DEF Turned
        <5>2. y[l] = [[loops[l] EXCEPT !.ready = q] EXCEPT !.tasks = T]
          BY <4>1
        <5> QED BY <4>1, <5>1, <5>2 DEF LoopType
      <4>3. \A k \in Loop : k # l => x[k] = y[k]
        BY <4>1 DEF Turned
      <4>4. x = [k \in Loop |-> x[k]] /\ y = [k \in Loop |-> y[k]]
        BY <4>1 DEF Turned
      <4> HIDE DEF x, y
      <4> QED BY <4>2, <4>3, <4>4
    <3>3. s = loops[l].stopping
      BY <1>1, <2>3
    <3> HIDE DEF x, s, T, turned
    <3> QED BY <3>1, <3>2, <3>3
  <2> HIDE DEF callback, turned
  <2>4. CASE callback.do = "start" /\ ~StartRefuses
    BY <1>1, <2>2, <2>1, <2>4 DEF RunCallback, callback
  <2>5. CASE callback.do = "start" /\ StartRefuses
    BY <1>1, <2>2, <2>1, <2>5 DEF RunCallback, callback
  <2>6. CASE callback.do = "cancel"
    BY <1>1, <2>2, <2>1, <2>6 DEF RunCallback, callback
  <2>7. CASE callback.do = "stop"
    BY <1>1, <2>2, <2>1, <2>7 DEF RunCallback, callback
  <2> QED BY <1>3, <2>4, <2>5, <2>6, <2>7, <2>3
<1> HIDE DEF T, s
<1> HIDE DEF q
<1>8. LoopsOK' /\ Makes(l, loops[l].driver, loops[l].lock, q, T, s, loops[l].closed)
  BY <1>5, <1>7, <1>6, MakesTurned DEF Base
<1>9. /\ s = (loops[l].stopping \/ callback.do = "stop")
      /\ T \subseteq A \cup {j}
      /\ callback.do # "cancel" => A \subseteq T
      /\ callback.do = "start" /\ ~StartRefuses => j \in T
      /\ callback.do = "start" /\ StartRefuses => T = A
      /\ callback.do = "feed" => T = A \cup {j}
      /\ callback.do = "cancel" => T = A \ {j}
      /\ callback.do = "stop" => T = A
  BY DEF T, s
<1> QED BY <1>2, <1>5, <1>8, <1>9 DEF q

LEMMA CallbackBase == ASSUME Base, NEW l \in Loop, RunCallback(l) PROVE LoopsOK' /\ Ground'
<1>1. Running(l) /\ UNCHANGED <<facade, runners, flags, pc, at>>
  BY DEF RunCallback
<1>2. LoopsOK' /\ \E T, s : Makes(l, loops[l].driver, loops[l].lock, Rest(l), T, s, loops[l].closed)
  BY CallbackMakes
<1> QED BY <1>1, <1>2, TurnsBase

LEMMA FinishMakes ==
  ASSUME Base, NEW l \in Loop, NEW j \in Job, FinishTask(l, j)
  PROVE  LoopsOK' /\ Makes(l, loops[l].driver, loops[l].lock, loops[l].ready,
                           loops[l].tasks \ {j}, loops[l].stopping, loops[l].closed)
<1>1. loops[l].tasks \ {j} \in SUBSET Job /\ IsFiniteSet(loops[l].tasks \ {j})
  BY LoopParts, FS_Subset DEF Base
<1>2. loops' = [loops EXCEPT ![l].tasks = loops[l].tasks \ {j}]
  BY DEF FinishTask
<1> QED BY <1>1, <1>2, MakesTasks DEF Base

LEMMA FinishBase ==
  ASSUME Base, NEW l \in Loop, NEW j \in Job, FinishTask(l, j)
  PROVE  LoopsOK' /\ Ground'
<1>1. Running(l) /\ UNCHANGED <<facade, runners, flags, pc, at>>
  BY DEF FinishTask
<1> QED BY <1>1, FinishMakes, TurnsBase

LEMMA ReplyMakes ==
  ASSUME Base, NEW l \in Loop, NEW s \in Reply, SendReply(l, s)
  PROVE  \/ closing /\ UNCHANGED <<loops, accepted>> /\ Ends(s, "refused")
         \/ /\ ~closing /\ accepted' = accepted \cup {s} /\ UNCHANGED outcome
            /\ LoopsOK' /\ Makes(l, loops[l].driver, loops[l].lock, loops[l].ready,
                                 loops[l].tasks \cup {s}, loops[l].stopping, loops[l].closed)
<1>1. loops[l].tasks \cup {s} \in SUBSET Job /\ IsFiniteSet(loops[l].tasks \cup {s})
  BY LoopParts, FS_AddElement DEF Base, Job, Send
<1>2. CASE ~closing
  <2>1. loops' = [loops EXCEPT ![l].tasks = loops[l].tasks \cup {s}]
    BY <1>2 DEF SendReply
  <2> QED BY <1>1, <1>2, <2>1, MakesTasks DEF Base, SendReply
<1> QED BY <1>2 DEF SendReply

LEMMA ReplyBase ==
  ASSUME Base, NEW l \in Loop, NEW s \in Reply, SendReply(l, s)
  PROVE  LoopsOK' /\ Ground'
<1>1. Running(l) /\ UNCHANGED <<facade, runners, flags, pc, at>>
  BY DEF SendReply
<1>2. CASE UNCHANGED loops
  BY <1>1, <1>2, LoopsStep DEF Base, LoopsOK, facade, runners, flags
<1> QED BY <1>1, <1>2, ReplyMakes, TurnsBase

\* A step of close() that changes no loop.
LEMMA QuietMain ==
  ASSUME Base, NEW label \in MainPc, Goto(Main, label), Finds,
         UNCHANGED <<mode, loops, threads>>,
         pc[Main] \notin {"polling", "turn", "drain", "release", "unset"},
         label \notin {"polling", "turn", "drain", "release"},
         closing' <=> label \in Raised,
         label \in {"raise"} \cup (Raised \ {"drain", "release", "unset", "lower"}) => draining',
         \A d \in Caller : d # Main => at'[d] = at[d],
         at'[Main] = at[Main] \/ (at'[Main] = loop' /\ loop' # None),
         label = "seize" => at'[Main] = loop' /\ loop' # None
  PROVE  LoopsOK' /\ Ground'
<1>1. Moves(Main, label)
  BY GotoMoves, CallerIsSomebody DEF Base, Ground
<1>2. LoopsOK' /\ Keeps(Main)
  BY QuietKeeps DEF Base
<1>3. \A k \in Loop : loops'[k].driver # Main
  <2>1. \A k \in Loop : ~DrivesIt(Main, k)
    BY CallerIsSomebody DEF DrivesIt
  <2> QED BY <2>1, CallerIsSomebody DEF Base, Ground, Drivers
<1>4. \A k \in Loop : loops'[k].driver # Nobody => ~loops'[k].closed
  BY DEF Base, Ground, Drivers
<1>5. loop' # None => ~loops'[loop'].closed
  <2>1. CASE loop' = loop
    BY <2>1 DEF Base, Ground, Placed
  <2>2. CASE loop' = made + 1 /\ loop' \in Loop
    <3>1. loops[loop'] = Pristine
      BY <2>2, LoopNumbers DEF Base, Ground, Known, Typed
    <3> QED BY <3>1 DEF Pristine
  <2> QED BY <2>1, <2>2 DEF Finds
<1> QED BY <1>1, <1>2, <1>3, <1>4, <1>5, MainsStep

LEMMA WherePolls ==
  ASSUME Base, pc[Main] = "polling"
  PROVE  loop \in Loop /\ loop <= made /\ \A k \in Loop : loops[k].driver = Main <=> k = loop
<1>1. loop \in Loop /\ loop <= made
  BY DEF Base, Ground, Placed, Known, Typed
<1>2. \A k \in Loop : DrivesIt(Main, k) <=> k = loop
  BY CallerIsSomebody DEF DrivesIt
<1> QED BY <1>1, <1>2, CallerIsSomebody DEF Base, Ground, Drivers

\* The loop that close() has locked.
LEMMA Seized ==
  ASSUME Base, pc[Main] \in {"turn", "drain", "release"}
  PROVE  /\ at[Main] \in Loop /\ at[Main] = loop /\ loop <= made /\ loops[loop].lock = Main
         /\ ~loops[loop].closed /\ \A k \in Loop : loops[k].driver = Main <=> k = loop
<1>1. HoldsLock(Main)
  BY DEF HoldsLock
<1>2. at[Main] \in Loop /\ loops[at[Main]].lock = Main /\ ~loops[at[Main]].closed
      /\ at[Main] = loop /\ loop <= made
  BY <1>1, CallerIsSomebody DEF Base, Ground, Locks, Placed, Known
<1>3. \A k \in Loop : DrivesIt(Main, k) <=> k = loop
  BY <1>2, CallerIsSomebody DEF DrivesIt
<1> QED BY <1>2, <1>3, CallerIsSomebody DEF Base, Ground, Drivers

LEMMA EndPollingBase == ASSUME Base, EndPolling PROVE LoopsOK' /\ Ground'
<1>1. /\ pc[Main] = "polling" /\ loop \in Loop /\ loop <= made /\ loops' = Left(loop)
      /\ Goto(Main, "open") /\ UNCHANGED <<mode, loop, made, closing, draining, threads, at>>
      /\ (\A k \in Loop : loops[k].driver = Main <=> k = loop) /\ Finds
  BY WherePolls, FacadeFinds DEF EndPolling, facade, runners, flags
<1>2. LoopsOK' /\ Makes(loop, Nobody, loops[loop].lock, loops[loop].ready, loops[loop].tasks, FALSE,
                        loops[loop].closed)
  BY <1>1, MakesLeft DEF Base
<1>3. Keeps(Main) /\ Moves(Main, "open")
  BY <1>1, <1>2, MakesKeeps, GotoMoves, CallerIsSomebody DEF Base, Ground
<1>4. /\ \A k \in Loop : loops'[k].driver # Main
      /\ \A k \in Loop : loops'[k].driver # Nobody => ~loops'[k].closed
      /\ \A k \in Loop : loops'[k].closed = loops[k].closed
  BY <1>1, <1>2, CallerIsSomebody DEF Makes, Base, Ground, Drivers
<1>5. ~closing'
  BY <1>1 DEF Base, Ground, Flow, Raised
<1>6. loop' # None => ~loops'[loop'].closed
  BY <1>1, <1>4 DEF Base, Ground, Placed
<1> QED BY <1>1, <1>2, <1>3, <1>4, <1>5, <1>6, MainsStep DEF MainPc, Raised

\* Steps of close() at which no loop changes.
LEMMA FlagsBase == ASSUME Base, RaiseFlags \/ LowerFlags PROVE LoopsOK' /\ Ground'
<1>1. Finds /\ UNCHANGED <<mode, loops, threads, at>>
  BY FacadeFinds DEF RaiseFlags, LowerFlags, facade, runners
<1>2. PICK label \in {"raise", "take", "lowered", "open"} :
        /\ Goto(Main, label)
        /\ pc[Main] \in {"open", "raise", "lower", "lowered"}
        /\ closing' <=> label = "take"
        /\ label \in {"raise", "take"} => draining'
  BY DEF RaiseFlags, LowerFlags, Base, Ground, Flow, Raised
<1> QED BY <1>1, <1>2, QuietMain DEF MainPc, Raised

LEMMA StopRunnerBase ==
  ASSUME Base, TakeRunner \/ SnapshotUpdates \/ JoinRunner \/ PutBackRunner
  PROVE  LoopsOK' /\ Ground'
<1>1. Finds /\ UNCHANGED <<mode, loops, threads, at, closing, draining>>
  BY FacadeFinds DEF TakeRunner, SnapshotUpdates, JoinRunner, PutBackRunner, facade, runners, flags
<1>2. PICK label \in {"teardown", "snapshot", "wait"} :
        Goto(Main, label) /\ pc[Main] \in {"take", "snapshot", "join"}
  BY DEF TakeRunner, SnapshotUpdates, JoinRunner, PutBackRunner
<1>3. closing /\ draining
  BY <1>2 DEF Base, Ground, Flow, Raised
<1> QED BY <1>1, <1>2, <1>3, QuietMain DEF MainPc, Raised

LEMMA TearDownBase == ASSUME Base, TearDown PROVE LoopsOK' /\ Ground'
<1>1. /\ UNCHANGED <<mode, loops, threads, closing, draining>> /\ pc[Main] = "teardown"
      /\ closing /\ draining
  BY DEF TearDown, facade, runners, flags, LookUpLoop, Base, Ground, Flow, Raised
<1>2. CASE Goto(Main, "unset") /\ UNCHANGED <<facade, at>>
  BY <1>1, <1>2, FacadeFinds, QuietMain DEF MainPc, Raised
<1>3. CASE /\ LookUpLoop /\ at' = [at EXCEPT ![Main] = TheLoop]
           /\ Goto(Main, IF Running(TheLoop) THEN "lower" ELSE "seize")
  <2>1. Finds /\ loop' = TheLoop /\ loop' # None /\ TheLoop \in Loop
    BY <1>3, LookUpFinds, LoopNumbers DEF Base
  <2>2. at'[Main] = loop' /\ \A d \in Caller : d # Main => at'[d] = at[d]
    BY <1>3, <2>1, CallerIsSomebody DEF Base, Typed
  <2>3. PICK label \in {"lower", "seize"} : Goto(Main, label)
    BY <1>3
  <2> QED BY <1>1, <2>1, <2>2, <2>3, QuietMain DEF MainPc, Raised
<1> QED BY <1>2, <1>3 DEF TearDown

LEMMA UnsetBase == ASSUME Base, UnsetLoop PROVE LoopsOK' /\ Ground'
<1>1. /\ UNCHANGED <<mode, made, loops, threads, closing, draining, at>> /\ pc[Main] = "unset"
      /\ closing /\ loop' = None /\ Goto(Main, "lower")
  BY DEF UnsetLoop, runners, flags, Base, Ground, Flow, Raised
<1>2. Moves(Main, "lower") /\ LoopsOK' /\ Keeps(Main)
  BY <1>1, GotoMoves, CallerIsSomebody, QuietKeeps DEF Base, Ground
<1>3. /\ \A k \in Loop : loops'[k].driver # Main
      /\ \A k \in Loop : loops'[k].driver # Nobody => ~loops'[k].closed
  BY <1>1, CallerIsSomebody DEF Base, Ground, Drivers, DrivesIt
<1> QED BY <1>1, <1>2, <1>3, MainsStep DEF MainPc, Raised

LEMMA StopLoopBase == ASSUME Base, StopLoop PROVE LoopsOK' /\ Ground'
<1>1. /\ UNCHANGED <<mode, loop, made, threads, closing, draining, at>> /\ pc[Main] = "stop"
      /\ closing /\ draining /\ Goto(Main, "join") /\ Finds
  BY FacadeFinds DEF StopLoop, facade, runners, flags, Base, Ground, Flow, Raised
<1>2. CASE UNCHANGED loops
  BY <1>1, <1>2, QuietMain DEF MainPc, Raised
<1>3. CASE loop # None /\ ~loops[loop].closed /\ loops' = Queued(loop, Callback("stop", Main))
  <2>1. loop \in Loop /\ loop <= made /\ Callback("stop", Main) \in CallbackType
    BY <1>3 DEF Base, Ground, Known, Typed, Callback, CallbackType
  <2>2. LoopsOK' /\ Makes(loop, loops[loop].driver, loops[loop].lock,
                          Append(loops[loop].ready, Callback("stop", Main)), loops[loop].tasks,
                          loops[loop].stopping, loops[loop].closed)
    BY <1>3, <2>1, MakesQueued DEF Base
  <2>3. Moves(Main, "join") /\ Keeps(Main)
    BY <1>1, <2>1, <2>2, MakesKeeps, GotoMoves, CallerIsSomebody DEF Base, Ground
  <2>4. /\ \A k \in Loop : loops'[k].driver = loops[k].driver /\ loops'[k].closed = loops[k].closed
    BY <2>2 DEF Makes
  <2>5. /\ \A k \in Loop : loops[k].driver # Main
        /\ \A k \in Loop : loops[k].driver # Nobody => ~loops[k].closed
    BY <1>1, CallerIsSomebody DEF Base, Ground, Drivers, DrivesIt
  <2> QED BY <1>1, <1>3, <2>1, <2>2, <2>3, <2>4, <2>5, MainsStep DEF MainPc, Raised
<1> QED BY <1>2, <1>3 DEF StopLoop

\* SetToSeq lists elements of the set, and nothing for the empty one.
LEMMA SetToSeqOf ==
  ASSUME NEW S, IsFiniteSet(S)
  PROVE  SetToSeq(S) \in Seq(S) /\ (S = {} => SetToSeq(S) = <<>>)
<1>1. Cardinality(S) \in Nat /\ ExistsBijection(1..Cardinality(S), S)
  BY FS_CardinalityType
<1>2. PICK f \in [1..Cardinality(S) -> S] : IsInjective(f)
  BY <1>1 DEF ExistsBijection, Bijection, Injection, IsInjective
<1>3. SetToSeq(S) \in [1..Cardinality(S) -> S]
  BY <1>2 DEF SetToSeq
<1>4. SetToSeq(S) \in Seq(S)
  BY <1>1, <1>3
<1>5. ASSUME S = {} PROVE SetToSeq(S) = <<>>
  <2>1. Cardinality(S) = 0
    BY <1>5, FS_EmptySet
  <2>2. Len(SetToSeq(S)) = 0
    BY <1>3, <1>4, <2>1
  <2> QED BY <1>4, <2>2, EmptySeq
<1> QED BY <1>4, <1>5

\* The cancellations close() queues: each is of an update it waited for.
LEMMA CancelsOf ==
  ASSUME LoopsOK, NEW l \in Loop, NEW rs \in SUBSET Request
  PROVE  /\ Cancels(l, rs) \in Seq(CallbackType)
         /\ \A i \in 1..Len(Cancels(l, rs)) : Cancels(l, rs)[i].do = "cancel" /\ Cancels(l, rs)[i].job \in rs
         /\ loops[l].tasks = {} => Cancels(l, rs) = <<>>
<1> DEFINE S == rs \cap loops[l].tasks
           here == SetToSeq(S)
<1>1. IsFiniteSet(S)
  BY LoopParts, FS_Subset
<1>2. here \in Seq(S) /\ (S = {} => here = <<>>)
  BY <1>1, SetToSeqOf
<1> HIDE DEF here
<1>3. Cancels(l, rs) = [i \in DOMAIN here |-> Callback("cancel", here[i])]
  BY DEF Cancels, here
<1>4. /\ Len(here) \in Nat /\ DOMAIN here = 1..Len(here) /\ \A i \in 1..Len(here) : here[i] \in S
  BY <1>2, LenProperties, ElementOfSeq
<1>5. \A i \in 1..Len(here) : Callback("cancel", here[i]) \in CallbackType
                               /\ Callback("cancel", here[i]).do = "cancel"
                               /\ Callback("cancel", here[i]).job = here[i]
  BY <1>4 DEF Callback, CallbackType
<1>6. Cancels(l, rs) \in Seq(CallbackType) /\ Len(Cancels(l, rs)) = Len(here)
  <2> DEFINE C == [i \in 1..Len(here) |-> Callback("cancel", here[i])]
  <2>1. C \in [1..Len(here) -> CallbackType]
    BY <1>5
  <2> HIDE DEF C
  <2>2. C \in Seq(CallbackType) /\ Len(C) = Len(here)
    BY <1>4, <2>1
  <2> QED BY <1>3, <1>4, <2>2 DEF C
<1>7. loops[l].tasks = {} => Cancels(l, rs) = <<>>
  <2>1. loops[l].tasks = {} => Len(here) = 0
    BY <1>2
  <2> QED BY <1>6, <2>1, EmptySeq
<1> QED BY <1>3, <1>4, <1>5, <1>6, <1>7

\* What the end of the wait does to the loops.
LEMMA AwaitMakes ==
  ASSUME Base, AwaitUpdates
  PROVE  LET unfinished == {r \in snapshot : future[r] = "pending"}
         IN  /\ LoopsOK'
             /\ \A k \in Loop :
                  /\ loops'[k].driver = loops[k].driver /\ loops'[k].lock = loops[k].lock
                  /\ loops'[k].ready = loops[k].ready \o Cancels(k, unfinished)
                  /\ loops'[k].tasks = loops[k].tasks /\ loops'[k].stopping = loops[k].stopping
                  /\ loops'[k].closed = loops[k].closed
                  /\ k > made => loops'[k] = loops[k]
<1> DEFINE unfinished == {r \in snapshot : future[r] = "pending"}
           q(k) == loops[k].ready \o Cancels(k, unfinished)
<1>1. loops' = [l \in Loop |-> [loops[l] EXCEPT !.ready = q(l)]]
  BY DEF AwaitUpdates
<1>2. unfinished \in SUBSET Request
  BY DEF Base, Typed
<1>3. \A k \in Loop : q(k) \in Seq(CallbackType) /\ (k > made => q(k) = <<>>)
  <2>1. TAKE k \in Loop
  <2>2. /\ loops[k].ready \in Seq(CallbackType) /\ Cancels(k, unfinished) \in Seq(CallbackType)
        /\ loops[k].tasks = {} => Cancels(k, unfinished) = <<>>
    BY <1>2, LoopParts, CancelsOf DEF Base
  <2>3. k > made => loops[k].ready = <<>> /\ loops[k].tasks = {}
    BY DEF Base, Ground, Known, Pristine
  <2>4. q(k) \in Seq(CallbackType)
    BY <2>2, ConcatProperties
  <2>5. <<>> \o <<>> = <<>>
    BY <2>2, ConcatEmptySeq
  <2> QED BY <2>2, <2>3, <2>4, <2>5
<1> HIDE DEF q
<1>4. \A k \in Loop :
        /\ loops'[k].driver = loops[k].driver /\ loops'[k].lock = loops[k].lock
        /\ loops'[k].ready = q(k)
        /\ loops'[k].tasks = loops[k].tasks /\ loops'[k].stopping = loops[k].stopping
        /\ loops'[k].closed = loops[k].closed
  BY <1>1 DEF Base, LoopsOK, LoopType
<1>5. LoopsOK'
  <2>1. \A k \in Loop : [loops[k] EXCEPT !.ready = q(k)] \in LoopType
    BY <1>3 DEF Base, LoopsOK, LoopType
  <2> QED BY <1>1, <1>4, <2>1 DEF Base, LoopsOK
<1>6. \A k \in Loop : k > made => loops'[k] = loops[k]
  <2>1. TAKE k \in Loop
  <2>2. HAVE k > made
  <2>3. loops[k] = Pristine /\ q(k) = <<>>
    BY <1>3, <2>2 DEF Base, Ground, Known
  <2> QED BY <1>1, <2>3 DEF Pristine
<1> QED BY <1>4, <1>5, <1>6 DEF q

LEMMA AwaitUpdatesBase == ASSUME Base, AwaitUpdates PROVE LoopsOK' /\ Ground'
<1>1. /\ UNCHANGED <<mode, loop, made, threads, closing, draining, at>> /\ pc[Main] = "wait"
      /\ closing /\ draining /\ Goto(Main, "stop") /\ Finds
  BY FacadeFinds DEF AwaitUpdates, facade, runners, flags, Base, Ground, Flow, Raised
<1>2. LoopsOK' /\ \A k \in Loop : /\ loops'[k].driver = loops[k].driver /\ loops'[k].lock = loops[k].lock
                                  /\ loops'[k].closed = loops[k].closed
                                  /\ k > made => loops'[k] = loops[k]
  BY AwaitMakes
<1>3. Keeps(Main) /\ Moves(Main, "stop")
  BY <1>1, <1>2, GotoMoves, CallerIsSomebody DEF Keeps, Base, Ground
<1>4. /\ \A k \in Loop : loops[k].driver # Main
      /\ \A k \in Loop : loops[k].driver # Nobody => ~loops[k].closed
      /\ loop # None => ~loops[loop].closed /\ loop \in Loop
  BY <1>1, CallerIsSomebody DEF Base, Ground, Drivers, DrivesIt, Placed, Typed
<1> QED BY <1>1, <1>2, <1>3, <1>4, MainsStep DEF MainPc, Raised

LEMMA SeizeBase == ASSUME Base, SeizeLoop PROVE LoopsOK' /\ Ground'
<1> DEFINE l == at[Main]
<1>1. /\ UNCHANGED <<mode, loop, made, threads, closing, draining, at>> /\ pc[Main] = "seize"
      /\ closing /\ draining /\ Finds /\ loops[l].lock = Nobody
      /\ l = loop /\ l \in Loop /\ l <= made /\ ~loops[l].closed
  BY FacadeFinds DEF SeizeLoop, Free, facade, runners, flags, Base, Ground, Flow, Raised, Placed,
                     Known, Typed
<1>2. CASE UNCHANGED loops /\ Goto(Main, "lower")
  BY <1>1, <1>2, QuietMain DEF MainPc, Raised
<1>3. CASE /\ ~Running(l) /\ Goto(Main, "turn")
           /\ loops' = [loops EXCEPT ![l].lock = Main, ![l].driver = Main]
  <2>1. LoopsOK' /\ Makes(l, Main, Main, loops[l].ready, loops[l].tasks, loops[l].stopping, loops[l].closed)
    BY <1>1, <1>3, MakesSeized DEF Base
  <2>2. Moves(Main, "turn") /\ Keeps(Main)
    BY <1>1, <1>3, <2>1, MakesKeeps, GotoMoves, CallerIsSomebody DEF Base, Ground, Running
  <2>3. \A k \in Loop : loops[k].driver # Main
    BY <1>1, CallerIsSomebody DEF Base, Ground, Drivers, DrivesIt
  <2>4. /\ \A k \in Loop : loops'[k].driver = Main <=> k = l
        /\ \A k \in Loop : loops'[k].driver # Nobody => ~loops'[k].closed
        /\ loops'[l].lock = Main /\ ~loops'[l].closed
    BY <1>1, <2>1, <2>3 DEF Makes, Base, Ground, Drivers
  <2>5. \A k \in Loop : loops'[k].driver = Main <=> ("turn" \in {"turn", "drain", "release"} /\ at'[Main] = k)
    BY <1>1, <2>4
  <2>6. l # None
    BY <1>1, LoopNumbers
  <2> QED BY <1>1, <2>1, <2>2, <2>4, <2>5, <2>6, MainsStep DEF MainPc, Raised
<1> QED BY <1>2, <1>3 DEF SeizeLoop

\* A step inside the lock that close() keeps.
LEMMA InsideBase ==
  ASSUME Base, pc[Main] \in {"turn", "drain"}, NEW label \in {"drain", "release"}, Goto(Main, label),
         UNCHANGED <<facade, runners, closing, at>>, LoopsOK',
         NEW T, Makes(loop, loops[loop].driver, loops[loop].lock, loops[loop].ready, T,
                      loops[loop].stopping, loops[loop].closed)
  PROVE  Ground'
<1>1. /\ UNCHANGED <<mode, loop, made, threads, closing, at>> /\ closing /\ Finds
  BY FacadeFinds DEF facade, runners, flags, Base, Ground, Flow, Raised
<1>2. /\ at[Main] = loop /\ loop \in Loop /\ loop <= made /\ ~loops[loop].closed
      /\ loops[loop].lock = Main /\ (\A k \in Loop : loops[k].driver = Main <=> k = loop) /\ loop # None
  BY Seized, LoopNumbers
<1>3. Moves(Main, label) /\ Keeps(Main)
  BY <1>2, MakesKeeps, GotoMoves, CallerIsSomebody DEF Base, Ground
<1>4. /\ \A k \in Loop : loops'[k].driver = loops[k].driver /\ loops'[k].closed = loops[k].closed
                         /\ loops'[k].lock = loops[k].lock
  BY <1>2 DEF Makes
<1>5. /\ \A k \in Loop : loops'[k].driver = Main <=> (label \in {"turn", "drain", "release"} /\ at'[Main] = k)
      /\ \A k \in Loop : loops'[k].driver # Nobody => ~loops'[k].closed
      /\ loops'[loop].lock = Main /\ ~loops'[loop].closed
  BY <1>1, <1>2, <1>4 DEF Base, Ground, Drivers
<1> QED BY <1>1, <1>2, <1>3, <1>5, MainsStep DEF MainPc, Raised

LEMMA TurnBase == ASSUME Base, TurnLoop PROVE LoopsOK' /\ Ground'
<1>1. /\ pc[Main] = "turn" /\ Goto(Main, "drain") /\ UNCHANGED <<facade, runners, closing, at, loops>>
  BY DEF TurnLoop
<1>2. Makes(loop, loops[loop].driver, loops[loop].lock, loops[loop].ready, loops[loop].tasks,
            loops[loop].stopping, loops[loop].closed)
  BY <1>1 DEF Makes
<1>3. LoopsOK'
  BY <1>1 DEF Base, LoopsOK
<1> QED BY <1>1, <1>2, <1>3, InsideBase

LEMMA DrainMakes ==
  ASSUME Base, DrainSends
  PROVE  /\ loop \in Loop /\ at[Main] = loop /\ LoopsOK'
         /\ Makes(loop, loops[loop].driver, loops[loop].lock, loops[loop].ready,
                  loops[loop].tasks \ accepted, loops[loop].stopping, loops[loop].closed)
<1>1. at[Main] = loop /\ loop \in Loop
  BY Seized DEF DrainSends
<1>2. loops' = [loops EXCEPT ![loop].tasks = loops[loop].tasks \ accepted]
  <2>1. loops[loop].tasks \ (loops[loop].tasks \cap accepted) = loops[loop].tasks \ accepted
    OBVIOUS
  <2> QED BY <1>1, <2>1 DEF DrainSends, Registered
<1>3. loops[loop].tasks \ accepted \in SUBSET Job /\ IsFiniteSet(loops[loop].tasks \ accepted)
  BY <1>1, LoopParts, FS_Subset DEF Base
<1> QED BY <1>1, <1>2, <1>3, MakesTasks DEF Base

LEMMA DrainBase == ASSUME Base, DrainSends PROVE LoopsOK' /\ Ground'
<1>1. /\ pc[Main] = "drain" /\ Goto(Main, "release") /\ UNCHANGED <<facade, runners, closing, at>>
  BY DEF DrainSends, flags
<1> QED BY <1>1, DrainMakes, InsideBase

\* close() leaves its loop, closing it or not.
LEMMA LeaveBase ==
  ASSUME Base, pc[Main] \in {"turn", "drain", "release"}, LoopsOK', NEW z \in BOOLEAN,
         Makes(loop, Nobody, Nobody, loops[loop].ready, loops[loop].tasks, FALSE, z),
         IF z THEN Goto(Main, "unset") ELSE Goto(Main, "lower"),
         UNCHANGED <<facade, runners, closing, at>>
  PROVE  Ground'
<1> DEFINE label == IF z THEN "unset" ELSE "lower"
<1>1. UNCHANGED <<mode, loop, made, threads, closing, at>> /\ closing /\ Finds /\ Goto(Main, label)
  BY FacadeFinds DEF facade, runners, flags, Base, Ground, Flow, Raised
<1>2. /\ at[Main] = loop /\ loop \in Loop /\ loop <= made /\ ~loops[loop].closed
      /\ loops[loop].lock = Main /\ \A k \in Loop : loops[k].driver = Main <=> k = loop
  BY Seized
<1>3. Moves(Main, label) /\ Keeps(Main)
  BY <1>1, <1>2, MakesKeeps, GotoMoves, CallerIsSomebody DEF Base, Ground
<1>4. /\ \A k \in Loop : loops'[k].driver # Main
      /\ \A k \in Loop : loops'[k].driver # Nobody => ~loops'[k].closed
      /\ loops'[loop].closed = z
  BY <1>2, CallerIsSomebody DEF Makes, Base, Ground, Drivers
<1>5. label \in {"unset", "lower"} /\ (z <=> label = "unset")
  OBVIOUS
<1> HIDE DEF label
<1> QED BY <1>1, <1>2, <1>3, <1>4, <1>5, MainsStep DEF MainPc, Raised

LEMMA BreakOffMakes ==
  ASSUME Base, BreakOff
  PROVE  /\ loop \in Loop /\ at[Main] = loop /\ ~loops[loop].closed /\ LoopsOK'
         /\ Makes(loop, Nobody, Nobody, loops[loop].ready, loops[loop].tasks, FALSE, FALSE)
<1>1. at[Main] = loop /\ loop \in Loop /\ ~loops[loop].closed
  BY Seized DEF BreakOff
<1>2. loops[loop].closed = FALSE
  BY <1>1, LoopParts DEF Base
<1> QED BY <1>1, <1>2, MakesUnlocked DEF Base, BreakOff

LEMMA BreakOffBase == ASSUME Base, BreakOff PROVE LoopsOK' /\ Ground'
<1>1. /\ pc[Main] \in {"turn", "drain", "release"} /\ Goto(Main, "lower")
      /\ UNCHANGED <<facade, runners, closing, at>>
  BY DEF BreakOff
<1> QED BY <1>1, BreakOffMakes, LeaveBase

LEMMA CloseMakes ==
  ASSUME Base, CloseLoop
  PROVE  /\ loop \in Loop /\ at[Main] = loop /\ ~loops[loop].closed /\ LoopsOK'
         /\ Makes(loop, Nobody, Nobody, loops[loop].ready, loops[loop].tasks, FALSE, TRUE)
<1>1. at[Main] = loop /\ loop \in Loop /\ ~loops[loop].closed
  BY Seized DEF CloseLoop
<1> QED BY <1>1, MakesClosed DEF Base, CloseLoop

LEMMA CloseBase == ASSUME Base, CloseLoop PROVE LoopsOK' /\ Ground'
<1>1. /\ pc[Main] = "release" /\ Goto(Main, "unset") /\ UNCHANGED <<facade, runners, closing, at>>
  BY DEF CloseLoop, flags
<1> QED BY <1>1, CloseMakes, LeaveBase

\* The rest of the types, one kind of step after the other.
LEMMA CallersTyped ==
  ASSUME Base, \/ \E r \in Request : EnsureLoopRuns(r) \/ RequestStep(r)
               \/ \E s \in Sender : ScheduleSend(s) \/ SenderStep(s)
  PROVE  Typed'
<1>0. /\ Request \subseteq Caller /\ Sender \subseteq Caller /\ Sender \subseteq Send
      /\ "refused" \in {"absent", "none", "sent", "refused", "dropped", "raised"}
  BY CallerIsSomebody DEF Send
<1>1. ASSUME LookUpLoop PROVE TheLoop \in Loop /\ loop' \in Loop /\ made' \in 0..MaxLoops /\ mode' = mode
  BY <1>1, BoundsAreKnown DEF LookUpLoop, TheLoop, Loop, None, Base, Typed
<1>2. ASSUME NEW r \in Request, EnsureLoopRuns(r) PROVE Typed'
  <2>1. /\ UNCHANGED <<closing, draining, at, owned, updates, snapshot, future, closes, late, outcome,
                       answer, handled, accepted, collided>>
        /\ LookUpLoop \/ UNCHANGED facade
    BY <1>2 DEF EnsureLoopRuns, flags, waiting, closer, history
  <2> QED BY <1>1, <2>1 DEF Base, Typed, facade
<1>3. ASSUME NEW r \in Request, AwaitRunner(r) PROVE Typed'
  BY <1>3 DEF AwaitRunner, Base, Typed, facade, flags, closer, history
<1>4. ASSUME NEW r \in Request, CaptureLoop(r) PROVE Typed'
  BY <1>0, <1>1, <1>4 DEF CaptureLoop, Base, Typed, flags, waiting, closer, history
<1>5. ASSUME NEW r \in Request, SubmitUpdate(r) PROVE Typed'
  <2>1. /\ answer' \in [Request -> {"none", "200", "503"}]
        /\ future' \in [Request -> {"none", "pending", "done", "cancelled"}]
        /\ updates' \subseteq Request
        /\ UNCHANGED <<owned, handled, accepted, collided>>
    BY <1>5 DEF SubmitUpdate, Answer, Base, Typed, waiting, history
  <2> QED BY <1>5, <2>1 DEF SubmitUpdate, Base, Typed, facade, flags, closer
<1>6. ASSUME NEW r \in Request, DriveUpdate(r) PROVE Typed'
  <2>1. /\ answer' \in [Request -> {"none", "200", "503"}]
        /\ collided' \subseteq Caller \cup Runner
    BY <1>0, <1>6 DEF DriveUpdate, Answer, Base, Typed
  <2> QED BY <1>6, <2>1 DEF DriveUpdate, Base, Typed, facade, flags, closer, waiting
<1>7. ASSUME NEW r \in Request, UpdateDriven(r) PROVE Typed'
  BY <1>7 DEF UpdateDriven, Answer, Base, Typed, facade, flags, closer, waiting
<1>8. ASSUME NEW r \in Request, AwaitUpdate(r) PROVE Typed'
  BY <1>8 DEF AwaitUpdate, Answer, Base, Typed, facade, flags, closer, waiting
<1>9. ASSUME NEW r \in Request, ForgetUpdate(r) PROVE Typed'
  BY <1>9 DEF ForgetUpdate, Base, Typed, facade, flags, closer, history
<1>10. ASSUME NEW s \in Sender, ScheduleSend(s) PROVE Typed'
  <2>1. CASE Ends(s, "refused") /\ UNCHANGED <<facade, at>>
    BY <1>0, <1>10, <2>1 DEF ScheduleSend, Ends, Base, Typed, facade, flags, waiting, closer, history
  <2>2. CASE LookUpLoop /\ at' = [at EXCEPT ![s] = TheLoop] /\ UNCHANGED outcome
    BY <1>0, <1>1, <1>10, <2>2 DEF ScheduleSend, Base, Typed, flags, waiting, closer, history
  <2> QED BY <1>10, <2>1, <2>2 DEF ScheduleSend
<1>11. ASSUME NEW s \in Sender, SenderStep(s) PROVE Typed'
  <2>1. UNCHANGED <<facade, flags, at, waiting, closer, answer, handled, collided>>
    BY <1>11 DEF SenderStep, LockSend, DriveSend, SendDriven, HandOff, history
  <2>2. accepted' = accepted \/ accepted' = accepted \cup {s}
    BY <1>11 DEF SenderStep, LockSend, DriveSend, SendDriven, HandOff, history
  <2>3. outcome' = outcome \/ \E how \in {"refused", "raised"} : outcome' = [outcome EXCEPT ![s] = how]
    BY <1>11 DEF SenderStep, LockSend, DriveSend, SendDriven, HandOff, Ends
  <2>4. outcome' \in [Send -> {"absent", "none", "sent", "refused", "dropped", "raised"}]
    BY <1>0, <2>3 DEF Base, Typed
  <2>5. accepted' \subseteq Send
    BY <1>0, <2>2 DEF Base, Typed
  <2> QED BY <2>1, <2>4, <2>5 DEF Base, Typed, facade, flags, waiting, closer
<1> QED BY <1>2, <1>3, <1>4, <1>5, <1>6, <1>7, <1>8, <1>9, <1>10, <1>11 DEF RequestStep

LEMMA LoopsTyped ==
  ASSUME Base, \/ \E t \in Runner : RunForever(t) \/ RunnerDies(t) \/ RunnerStops(t)
               \/ \E l \in Loop : RunCallback(l) \/ \E j \in Job : FinishTask(l, j)
               \/ \E l \in Loop, s \in Reply : SendReply(l, s)
  PROVE  Typed'
<1>1. ASSUME NEW t \in Runner, RunForever(t) PROVE Typed'
  <2>1. threads[t].on \in Loop
    BY <1>1 DEF RunForever, Base, Ground, Placed, KInv, Shape
  <2>2. {loops[threads[t].on].driver} \ {Nobody} \subseteq Caller \cup Runner
    BY <2>1, LoopParts DEF Base
  <2>3. collided' \subseteq Caller \cup Runner
    BY <1>1, <2>2 DEF RunForever, Base, Typed
  <2> QED BY <1>1, <2>3 DEF RunForever, Base, Typed, facade, flags, waiting, closer
<1>2. ASSUME NEW t \in Runner, RunnerDies(t) \/ RunnerStops(t) PROVE Typed'
  BY <1>2 DEF RunnerDies, RunnerStops, Base, Typed, facade, flags, waiting, closer, history
<1>3. ASSUME NEW l \in Loop, RunCallback(l) PROVE Typed'
  <2>1. UNCHANGED <<facade, flags, at, waiting, closer, history>>
    BY <1>3 DEF RunCallback
  <2>2. outcome' = outcome \/ \E j : outcome' = [outcome EXCEPT ![j] = "refused"]
    BY <1>3 DEF RunCallback, Ends
  <2>3. outcome' \in [Send -> {"absent", "none", "sent", "refused", "dropped", "raised"}]
    BY <2>2 DEF Base, Typed
  <2> QED BY <2>1, <2>3 DEF Base, Typed, facade, flags, waiting, closer, history
<1>4. ASSUME NEW l \in Loop, NEW j \in Job, FinishTask(l, j) PROVE Typed'
  <2>1. UNCHANGED <<facade, flags, at, owned, updates, closer, answer, accepted, collided>>
    BY <1>4 DEF FinishTask
  <2>2. CASE j \in Request
    <3>1. /\ handled' = handled \cup {j} /\ UNCHANGED outcome
          /\ future' = [future EXCEPT ![j] = IF @ = "pending" THEN "done" ELSE @]
      BY <1>4, <2>2 DEF FinishTask
    <3>2. handled' \subseteq Request /\ future' \in [Request -> {"none", "pending", "done", "cancelled"}]
      BY <2>2, <3>1 DEF Base, Typed
    <3> QED BY <2>1, <3>1, <3>2 DEF Base, Typed, facade, flags, closer
  <2>3. CASE j \notin Request
    <3>1. outcome' = [outcome EXCEPT ![j] = "sent"] /\ UNCHANGED <<handled, future>>
      BY <1>4, <2>3 DEF FinishTask, Ends
    <3>2. outcome' \in [Send -> {"absent", "none", "sent", "refused", "dropped", "raised"}]
      BY <3>1 DEF Base, Typed
    <3> QED BY <2>1, <3>1, <3>2 DEF Base, Typed, facade, flags, closer
  <2> QED BY <2>2, <2>3
<1>5. ASSUME NEW l \in Loop, NEW s \in Reply, SendReply(l, s) PROVE Typed'
  <2>1. UNCHANGED <<facade, flags, at, waiting, closer, answer, handled, collided>>
    BY <1>5 DEF SendReply
  <2>2. /\ outcome' \in [Send -> {"absent", "none", "sent", "refused", "dropped", "raised"}]
        /\ accepted' \subseteq Send
    BY <1>5 DEF SendReply, Ends, Base, Typed, Send
  <2> QED BY <2>1, <2>2 DEF Base, Typed, facade, flags, waiting, closer
<1> QED BY <1>1, <1>2, <1>3, <1>4, <1>5

LEMMA MainTyped ==
  ASSUME Base, EndPolling \/ CloseStep \/ PutBackRunner
  PROVE  Typed'
<1>1. CASE EndPolling \/ TakeRunner \/ StopLoop \/ JoinRunner \/ SeizeLoop \/ CloseLoop
  <2>1. UNCHANGED <<facade, flags, at, waiting, snapshot, closes, late, outcome, history>>
    BY <1>1 DEF EndPolling, TakeRunner, StopLoop, JoinRunner, SeizeLoop, CloseLoop, closer
  <2> QED BY <2>1 DEF Base, Typed, facade, flags, waiting, history
<1>2. CASE RaiseFlags
  <2>1. closes' \in 0..MaxCloses
    BY <1>2, BoundsAreKnown DEF RaiseFlags, Base, Typed
  <2>2. closing' \in BOOLEAN /\ draining' \in BOOLEAN
    BY <1>2 DEF RaiseFlags, Base, Typed
  <2>3. UNCHANGED <<facade, at, waiting, snapshot, late, outcome, history>>
    BY <1>2 DEF RaiseFlags
  <2> QED BY <2>1, <2>2, <2>3 DEF Base, Typed, facade, waiting, history
<1>3. CASE SnapshotUpdates
  BY <1>3 DEF SnapshotUpdates, Base, Typed, facade, flags, waiting, history
<1>4. CASE AwaitUpdates
  <2> DEFINE unfinished == {r \in snapshot : future[r] = "pending"}
  <2>1. /\ UNCHANGED <<facade, flags, at, owned, updates, closes, late, outcome, history>>
        /\ snapshot' = {}
        /\ future' = [r \in Request |-> IF r \in unfinished THEN "cancelled" ELSE future[r]]
    BY <1>4 DEF AwaitUpdates
  <2>2. future' \in [Request -> {"none", "pending", "done", "cancelled"}]
    BY <2>1 DEF Base, Typed
  <2> QED BY <2>1, <2>2 DEF Base, Typed, facade, flags, history
<1>5. CASE TearDown
  <2>1. ASSUME LookUpLoop PROVE TheLoop \in Loop /\ loop' \in Loop /\ made' \in 0..MaxLoops /\ mode' = mode
    BY <2>1, BoundsAreKnown DEF LookUpLoop, TheLoop, Loop, None, Base, Typed
  <2>2. UNCHANGED <<flags, waiting, closer, outcome, history>>
        /\ \/ UNCHANGED <<facade, at>>
           \/ LookUpLoop /\ at' = [at EXCEPT ![Main] = TheLoop]
    BY <1>5 DEF TearDown
  <2> QED BY <2>1, <2>2 DEF Base, Typed, facade, flags, waiting, closer, history
<1>6. CASE TurnLoop \/ BreakOff
  BY <1>6 DEF TurnLoop, BreakOff, Base, Typed, facade, waiting, closer, history
<1>7. CASE DrainSends
  <2>1. outcome' = [s \in Send |-> IF s \in Registered(at[Main]) THEN "dropped" ELSE outcome[s]]
        /\ UNCHANGED <<facade, flags, at, waiting, closer, history>>
    BY <1>7 DEF DrainSends
  <2>2. outcome' \in [Send -> {"absent", "none", "sent", "refused", "dropped", "raised"}]
    BY <2>1 DEF Base, Typed
  <2> QED BY <2>1, <2>2 DEF Base, Typed, facade, flags, waiting, closer, history
<1>8. CASE UnsetLoop
  BY <1>8 DEF UnsetLoop, Base, Typed, flags, waiting, closer, history
<1>9. CASE LowerFlags
  BY <1>9 DEF LowerFlags, Base, Typed, facade, waiting, closer, history
<1>10. CASE PutBackRunner
  <2>1. late' \in 0..MaxLate
    BY <1>10, BoundsAreKnown DEF PutBackRunner, Base, Typed
  <2>2. UNCHANGED <<facade, flags, at, waiting, snapshot, closes, outcome, history>>
    BY <1>10 DEF PutBackRunner
  <2> QED BY <2>1, <2>2 DEF Base, Typed, facade, flags, waiting, history
<1> QED BY <1>1, <1>2, <1>3, <1>4, <1>5, <1>6, <1>7, <1>8, <1>9, <1>10 DEF CloseStep

LEMMA InitBase == Init => Base
<1> SUFFICES ASSUME Init PROVE Base
  OBVIOUS
<1>1. KInv
  BY InitKInv
<1>2. PICK cast \in Casts :
        /\ pc = [c \in Caller |-> IF c = Main THEN IF mode = "polling" THEN "polling" ELSE "open"
                                  ELSE IF c \in cast THEN "idle" ELSE "done"]
        /\ outcome = [s \in Send |-> IF s \in cast THEN "none" ELSE "absent"]
  BY DEF Init
<1>3. /\ mode \in {"web", "polling"} /\ loop = (IF mode = "polling" THEN 1 ELSE 0) /\ made = loop
      /\ loop \in Loop \cup {None} /\ made \in 0..MaxLoops
  BY ModesAreKnown, BoundsAreKnown, LoopNumbers DEF Init, None
<1>4. Typed
  <2>1. at = [c \in Caller |-> None]
        /\ owned = {} /\ future = [r \in Request |-> "none"] /\ updates = {}
        /\ snapshot = {} /\ closes = 0 /\ late = 0
        /\ answer = [r \in Request |-> "none"]
        /\ handled = {} /\ accepted = {} /\ collided = {} /\ closing = FALSE /\ draining = FALSE
    BY DEF Init
  <2>2. closes \in 0..MaxCloses /\ late \in 0..MaxLate
    BY <2>1, BoundsAreKnown
  <2> QED BY <1>2, <1>3, <2>1, <2>2 DEF Typed
<1>5. LoopsOK
  <2>1. <<>> \in Seq(CallbackType) /\ IsFiniteSet({}) /\ Main \in Caller
    BY FS_EmptySet, CallerIsSomebody
  <2>2. \A l \in Loop : [driver |-> IF mode = "polling" /\ l = 1 THEN Main ELSE Nobody,
          lock |-> Nobody, ready |-> <<>>, tasks |-> {},
          stopping |-> FALSE, closed |-> FALSE] \in LoopType
    BY <2>1 DEF LoopType
  <2> QED BY <2>1, <2>2 DEF Init, LoopsOK
<1>6. \A l \in Loop : /\ loops[l].driver = (IF mode = "polling" /\ l = 1 THEN Main ELSE Nobody)
                      /\ ~loops[l].closed
                      /\ l > made => loops[l] = Pristine
  <2>1. TAKE l \in Loop
  <2>2. loops[l] = [driver |-> IF mode = "polling" /\ l = 1 THEN Main ELSE Nobody,
                    lock |-> Nobody, ready |-> <<>>, tasks |-> {},
                    stopping |-> FALSE, closed |-> FALSE]
    BY DEF Init
  <2>3. l > made => ~(mode = "polling" /\ l = 1)
    BY <1>3, LoopNumbers
  <2>4. l > made => loops[l] = Pristine
    BY <2>2, <2>3 DEF Pristine
  <2> QED BY <2>2, <2>4
<1>7. /\ \A c \in Request \cup Sender : pc[c] \in {"idle", "done"}
      /\ pc[Main] = (IF mode = "polling" THEN "polling" ELSE "open") /\ pc = [c \in Caller |-> pc[c]]
  BY <1>2, CallerIsSomebody
<1>8. Flow
  BY <1>7, CallerIsSomebody DEF Flow, RequestPc, SenderPc, MainPc, Raised, Init
<1>9. Locks
  BY <1>7, CallerIsSomebody DEF Locks, HoldsLock
<1>10. Drivers
  <2>1. \A t \in Runner : threads[t].state = "unmade" /\ threads[t].on = None
    BY DEF Init
  <2>2. ASSUME NEW l \in Loop, NEW d \in Caller \cup Runner
        PROVE  DrivesIt(d, l) <=> (d = Main /\ mode = "polling" /\ l = 1)
    <3>1. ~(d \in Runner /\ threads[d] = [state |-> "running", on |-> l])
      BY <2>1
    <3> QED BY <1>3, <1>7, <3>1, CallerIsSomebody DEF DrivesIt
  <2>3. ASSUME NEW l \in Loop, NEW d \in Caller \cup Runner
        PROVE  loops[l].driver = d <=> (d = Main /\ mode = "polling" /\ l = 1)
    BY <1>6, CallerIsSomebody
  <2> QED BY <1>6, <2>2, <2>3 DEF Drivers
<1>11. Known /\ Placed
  <2>1. made \in Nat /\ loop <= made
    BY <1>3
  <2>2. (\A c \in Caller : at[c] = 0) /\ \A t \in Runner : threads[t].on = 0 /\ threads[t].state = "unmade"
    BY DEF Init, None
  <2>3. \A c \in Caller : at[c] <= made
    BY <2>1, <2>2
  <2>4. \A t \in Runner : threads[t].on <= made
    BY <2>1, <2>2
  <2>5. Known
    BY <1>6, <2>1, <2>3, <2>4 DEF Known
  <2>6. Placed
    BY <1>3, <1>6, <1>7, <2>2, LoopNumbers DEF Placed
  <2> QED BY <2>5, <2>6
<1> QED BY <1>1, <1>4, <1>5, <1>8, <1>9, <1>10, <1>11 DEF Base, Ground

LEMMA NextBase == ASSUME Base, [Next]_vars PROVE Base'
<1>1. KInv'
  BY NextKInv DEF Base
<1>2. ASSUME NEW r \in Request, EnsureLoopRuns(r) \/ RequestStep(r) PROVE LoopsOK' /\ Ground'
  <2>1. CASE UpdateDriven(r)
    <3>1. /\ pc[r] = "driving" /\ Goto(r, "done") /\ loops' = Unlocked(at[r])
          /\ UNCHANGED <<facade, runners, flags, at>>
      BY <2>1 DEF UpdateDriven
    <3> QED BY <3>1, DrivenBase
  <2> QED BY <1>2, <2>1, EnsureBase, AwaitRunnerBase, CaptureLoopBase, SubmitBase, DriveUpdateBase,
             AwaitUpdateBase, ForgetBase DEF RequestStep
<1>3. ASSUME NEW s \in Sender, ScheduleSend(s) \/ SenderStep(s) PROVE LoopsOK' /\ Ground'
  <2>1. CASE SendDriven(s)
    <3>1. /\ pc[s] = "driving" /\ Goto(s, "done") /\ loops' = Unlocked(at[s])
          /\ UNCHANGED <<facade, runners, flags, at>>
      BY <2>1 DEF SendDriven
    <3> QED BY <3>1, DrivenBase
  <2> QED BY <1>3, <2>1, ScheduleBase, LockSendBase, DriveSendBase DEF SenderStep
<1>4. ASSUME NEW t \in Runner, RunForever(t) \/ RunnerDies(t) \/ RunnerStops(t) PROVE LoopsOK' /\ Ground'
  BY <1>4, RunForeverBase, RunnerDiesBase, RunnerStopsBase
<1>5. ASSUME NEW l \in Loop, RunCallback(l) \/ (\E j \in Job : FinishTask(l, j)) PROVE LoopsOK' /\ Ground'
  BY <1>5, CallbackBase, FinishBase
<1>6. ASSUME NEW l \in Loop, NEW s \in Reply, SendReply(l, s) PROVE LoopsOK' /\ Ground'
  BY <1>6, ReplyBase
<1>7. ASSUME EndPolling \/ CloseStep \/ PutBackRunner PROVE LoopsOK' /\ Ground'
  BY <1>7, EndPollingBase, FlagsBase, StopRunnerBase, TearDownBase, UnsetBase, StopLoopBase,
     AwaitUpdatesBase, SeizeBase, TurnBase, DrainBase, BreakOffBase, CloseBase DEF CloseStep
<1>8. CASE Next
  <2>1. LoopsOK' /\ Ground'
    BY <1>2, <1>3, <1>4, <1>5, <1>6, <1>7, <1>8 DEF Next
  <2>2. Typed'
    BY <1>8, CallersTyped, LoopsTyped, MainTyped DEF Next
  <2> QED BY <1>1, <2>1, <2>2 DEF Base
<1>9. CASE UNCHANGED vars
  <2>1. Typed' /\ LoopsOK'
    BY <1>9 DEF vars, Base, Typed, LoopsOK, facade, flags, waiting, closer, history
  <2>2. Ground'
    BY <1>9, LoopsStep DEF vars, facade, flags, runners
  <2> QED BY <1>1, <2>1, <2>2 DEF Base
<1> QED BY <1>8, <1>9

LEMMA TypeOKHolds == ASSUME Base PROVE TypeOK
<1>1. LoopType \subseteq
        [driver : Caller \cup Runner \cup {Nobody}, lock : Caller \cup {Nobody},
         ready : Seq([do : {"start", "feed", "cancel", "stop"}, job : Job \cup {Main}]),
         tasks : SUBSET Job, stopping : BOOLEAN, closed : BOOLEAN]
  <2> DEFINE C == [do : {"start", "feed", "cancel", "stop"}, job : Job \cup {Main}]
  <2>1. CallbackType \subseteq C
    BY DEF CallbackType, Job, Send
  <2> HIDE DEF C
  <2>2. ASSUME NEW q \in Seq(CallbackType) PROVE q \in Seq(C)
    <3>1. Len(q) \in Nat /\ q \in [1..Len(q) -> CallbackType]
      BY LenProperties
    <3>2. q \in [1..Len(q) -> C]
      BY <2>1, <3>1
    <3> QED BY <3>1, <3>2
  <2> QED BY <2>2 DEF LoopType, C
<1>2. ASSUME NEW l \in Loop
      PROVE  /\ Running(l) => ~loops[l].closed
             /\ loops[l].driver \in Request \cup Sender => loops[l].lock = loops[l].driver
  <2>1. Running(l) => ~loops[l].closed
    BY DEF Base, Ground, Drivers, Running
  <2>2. ASSUME NEW d \in Request \cup Sender, loops[l].driver = d PROVE loops[l].lock = d
    <3>1. DrivesIt(d, l)
      BY <2>2, CallerIsSomebody DEF Base, Ground, Drivers
    <3>2. pc[d] = "driving" /\ at[d] = l
      BY <3>1, CallerIsSomebody DEF DrivesIt
    <3> QED BY <3>2, Locked
  <2> QED BY <2>1, <2>2
<1> QED BY <1>1, <1>2 DEF TypeOK, Base, Typed, LoopsOK, KInv, Shape

THEOREM TypeCorrect == Spec => []TypeOK
<1>1. Init => Base
  BY InitBase
<1>2. Base /\ [Next]_vars => Base'
  BY NextBase
<1>3. Base => TypeOK
  BY TypeOKHolds
<1> QED BY <1>1, <1>2, <1>3, PTL DEF Spec
-----------------------------------------------------------------------------
(***************************************************************************)
(* Whose callbacks and tasks the loops have.                               *)
(***************************************************************************)
Callbacks(l) == Range(loops[l].ready)

\* A callback that feeds or cancels is of an update whose future is waited for.
Asked ==
  \A l \in Loop : \A c \in Callbacks(l) :
    /\ c.do = "start" => c.job \in accepted
    /\ c.do = "feed" => future[c.job] # "none" /\ at[c.job] = l
    /\ c.do = "cancel" => future[c.job] = "cancelled"

\* A task is of a send that was handed over or is driven, or of an update.
Tasked ==
  \A l \in Loop :
    /\ \A s \in Sender : s \in loops[l].tasks => s \in accepted \/ pc[s] \in {"driving", "done"}
    /\ \A s \in Reply : s \in loops[l].tasks => s \in accepted
    /\ \A r \in Request :
         r \in loops[l].tasks => at[r] = l /\ pc[r] \in {"driving", "result", "forget", "done"}

\* A send that was handed over is over for its caller; the future of an update says
\* where its request is, and whether its handlers ran.
Awaited ==
  /\ \A s \in Sender : s \in accepted => pc[s] = "done"
  /\ \A r \in Request :
       /\ future[r] = "pending" => pc[r] = "result"
       /\ future[r] # "none" => pc[r] \in {"result", "forget", "done"}
       /\ pc[r] = "result" => future[r] # "none"
       /\ future[r] = "done" => r \in handled
       /\ pc[r] = "driving" => r \in handled \/ r \in loops[at[r]].tasks

Jobs == Asked /\ Tasked /\ Awaited

\* A step that changes no queue and no set of tasks.
Kept ==
  \A k \in Loop :
    /\ loops'[k].ready = loops[k].ready /\ loops'[k].tasks = loops[k].tasks
    /\ loops'[k].stopping => loops[k].stopping
    /\ loops'[k].closed = loops[k].closed \/ (pc'[Main] # pc[Main] /\ loops'[k].closed)

LEMMA KeptBy ==
  ASSUME LoopsOK, NEW l,
         \/ UNCHANGED loops
         \/ l \in Loop /\ \E k \in Caller \cup {Nobody} : loops' = [loops EXCEPT ![l].lock = k]
         \/ l \in Loop /\ \E t \in Runner : loops' = [loops EXCEPT ![l].driver = t]
         \/ l \in Loop /\ loops' = [loops EXCEPT ![l].lock = Main, ![l].driver = Main]
         \/ l \in Loop /\ loops' \in {Left(l), Unlocked(l)}
         \/ /\ l \in Loop /\ loops' = [Unlocked(l) EXCEPT ![l].closed = TRUE]
            /\ pc'[Main] # pc[Main]
  PROVE  Kept
<1>1. CASE UNCHANGED loops
  BY <1>1 DEF Kept
<1>2. CASE l \in Loop /\ \E k \in Caller \cup {Nobody} : loops' = [loops EXCEPT ![l].lock = k]
  BY <1>2, MakesLock DEF Makes, Kept
<1>3. CASE l \in Loop /\ \E t \in Runner : loops' = [loops EXCEPT ![l].driver = t]
  BY <1>3, MakesRun DEF Makes, Kept
<1>4. CASE l \in Loop /\ loops' = [loops EXCEPT ![l].lock = Main, ![l].driver = Main]
  BY <1>4, MakesSeized DEF Makes, Kept
<1>5. CASE l \in Loop /\ loops' = Left(l)
  BY <1>5, MakesLeft DEF Makes, Kept
<1>6. CASE l \in Loop /\ loops' = Unlocked(l)
  BY <1>6, MakesUnlocked DEF Makes, Kept
<1>7. CASE l \in Loop /\ loops' = [Unlocked(l) EXCEPT ![l].closed = TRUE] /\ pc'[Main] # pc[Main]
  BY <1>7, MakesClosed DEF Makes, Kept
<1> QED BY <1>1, <1>2, <1>3, <1>4, <1>5, <1>6, <1>7

\* Where c is, when a step of c touches neither queues nor tasks.
Onward(c) ==
  /\ \A d \in Caller : d # c => pc'[d] = pc[d] /\ at'[d] = at[d]
  /\ c \in Request =>
       /\ pc'[c] \notin {"result", "driving"} /\ future[c] # "pending"
       /\ pc[c] \in {"driving", "result", "forget", "done"} =>
            at'[c] = at[c] /\ pc'[c] \in {"forget", "done"}
  /\ c \in Sender =>
       pc[c] # "done" /\ (pc[c] = "driving" => pc'[c] = "done")

LEMMA JobsQuiet ==
  ASSUME Base, Jobs, Kept, UNCHANGED <<accepted, future, handled>>, NEW c, Onward(c)
  PROVE  Jobs'
<1>0. Request \subseteq Caller /\ Sender \subseteq Caller /\ Request \cap Sender = {}
  BY CallerIsSomebody
<1>1. Asked'
  <2> SUFFICES ASSUME NEW l \in Loop, NEW b \in Callbacks(l)'
               PROVE /\ b.do = "start" => b.job \in accepted
                     /\ b.do = "feed" => future[b.job] # "none" /\ at'[b.job] = l
                     /\ b.do = "cancel" => future[b.job] = "cancelled"
    BY DEF Asked
  <2>1. b \in Callbacks(l)
    BY DEF Callbacks, Kept
  <2>2. b.do = "feed" => b.job \in Request
    <3>1. loops[l].ready \in Seq(CallbackType)
      BY LoopParts DEF Base
    <3>2. b \in CallbackType
      BY <2>1, <3>1 DEF Callbacks, Range
    <3> QED BY <3>2 DEF CallbackType
  <2>3. b.do = "feed" => future[b.job] # "none" /\ at[b.job] = l
    BY <2>1 DEF Jobs, Asked
  <2>4. \A r \in Request : future[r] # "none" => at'[r] = at[r]
    BY <1>0 DEF Jobs, Awaited, Onward
  <2> QED BY <2>1, <2>2, <2>3, <2>4 DEF Jobs, Asked
<1>2. Tasked'
  BY <1>0 DEF Jobs, Tasked, Kept, Onward
<1>3. Awaited'
  <2>1. \A s \in Sender : s \in accepted => pc'[s] = "done"
    BY <1>0 DEF Jobs, Awaited, Onward
  <2>2. ASSUME NEW r \in Request
        PROVE  /\ future[r] = "pending" => pc'[r] = "result"
               /\ future[r] # "none" => pc'[r] \in {"result", "forget", "done"}
               /\ pc'[r] = "result" => future[r] # "none"
               /\ future[r] = "done" => r \in handled
    BY <1>0 DEF Jobs, Awaited, Onward
  <2>3. ASSUME NEW r \in Request, pc'[r] = "driving"
        PROVE  r \in handled \/ r \in loops'[at'[r]].tasks
    <3>1. pc[r] = "driving" /\ at'[r] = at[r]
      BY <1>0, <2>3 DEF Onward
    <3>2. at[r] \in Loop
      BY <3>1, Locked
    <3> QED BY <3>1, <3>2 DEF Jobs, Awaited, Kept
  <2> QED BY <2>1, <2>2, <2>3 DEF Awaited
<1> QED BY <1>1, <1>2, <1>3 DEF Jobs

\* The types of the callbacks that are queued.
LEMMA CallbackTypes ==
  ASSUME Base, NEW l \in Loop
  PROVE  /\ loops[l].ready \in Seq(CallbackType)
         /\ \A b \in Callbacks(l) : /\ b \in CallbackType
                                    /\ b.do \in {"start", "feed", "cancel", "stop"}
                                    /\ b.do = "start" => b.job \in Sender
                                    /\ b.do \in {"feed", "cancel"} => b.job \in Request
<1>1. loops[l].ready \in Seq(CallbackType)
  BY LoopParts DEF Base
<1>2. \A b \in Callbacks(l) : b \in CallbackType
  BY <1>1 DEF Callbacks, Range
<1> QED BY <1>1, <1>2 DEF CallbackType

\* What the steps that do change queues or tasks leave behind.
LEMMA SubmitMakes ==
  ASSUME Base, NEW r \in Request, SubmitUpdate(r)
  PROVE  /\ pc[r] = "submit" /\ at[r] \in Loop
         /\ \/ Kept /\ UNCHANGED <<future, updates, accepted, handled>>
               /\ (Goto(r, "done") \/ (Goto(r, "drive") /\ ~closing /\ ~Running(at[r])))
            \/ /\ ~closing /\ Running(at[r]) /\ Free(at[r]) /\ Goto(r, "result")
               /\ future' = [future EXCEPT ![r] = "pending"] /\ updates' = updates \cup {r}
               /\ UNCHANGED <<accepted, handled, answer>>
               /\ Callback("feed", r) \in CallbackType
               /\ Makes(at[r], loops[at[r]].driver, loops[at[r]].lock,
                        Append(loops[at[r]].ready, Callback("feed", r)), loops[at[r]].tasks,
                        loops[at[r]].stopping, loops[at[r]].closed)
<1>1. pc[r] = "submit" /\ at[r] \in Loop /\ r \in Caller
  BY Found, CallerIsSomebody DEF SubmitUpdate
<1>2. CASE Goto(r, "done") /\ UNCHANGED <<loops, waiting, handled, accepted, collided>>
  BY <1>1, <1>2, KeptBy DEF Base, waiting
<1>3. CASE /\ loops' = [loops EXCEPT ![at[r]].lock = r] /\ Goto(r, "drive")
           /\ ~Refuses(at[r]) /\ ~Running(at[r]) /\ UNCHANGED <<waiting, history>>
  BY <1>1, <1>3, KeptBy DEF Base, waiting, history, Refuses
<1>4. CASE /\ ~Refuses(at[r]) /\ Running(at[r]) /\ loops' = Queued(at[r], Callback("feed", r))
           /\ future' = [future EXCEPT ![r] = "pending"] /\ updates' = updates \cup {r}
           /\ Goto(r, "result") /\ UNCHANGED <<owned, history>>
  <2>1. Callback("feed", r) \in CallbackType
    BY DEF Callback, CallbackType
  <2>2. Free(at[r])
    BY DEF SubmitUpdate
  <2> QED BY <1>1, <1>4, <2>1, <2>2, MakesQueued DEF Base, history, Refuses
<1> QED BY <1>2, <1>3, <1>4 DEF SubmitUpdate

LEMMA HandOffMakes ==
  ASSUME Base, NEW s \in Sender, NEW l \in Loop, HandOff(s, l)
  PROVE  /\ Callback("start", s) \in CallbackType
         /\ Makes(l, loops[l].driver, Nobody, Append(loops[l].ready, Callback("start", s)),
                  loops[l].tasks, loops[l].stopping, loops[l].closed)
         /\ accepted' = accepted \cup {s} /\ Goto(s, "done")
         /\ UNCHANGED <<outcome, answer, handled, collided>>
<1>1. Callback("start", s) \in CallbackType
  BY DEF Callback, CallbackType
<1> QED BY <1>1, MakesHandedOver DEF Base, HandOff

LEMMA LockSendMakes ==
  ASSUME Base, NEW s \in Sender, LockSend(s)
  PROVE  /\ pc[s] = "lock" /\ at[s] \in Loop /\ Free(at[s])
         /\ UNCHANGED <<facade, runners, flags, at, waiting, closer, answer, handled, collided>>
         /\ \/ Kept /\ Goto(s, "done") /\ Ends(s, "refused") /\ UNCHANGED accepted
            \/ ~closing /\ ~loops[at[s]].closed /\ HandOff(s, at[s])
            \/ Kept /\ ~closing /\ Goto(s, "drive") /\ UNCHANGED <<outcome, accepted>>
<1>1. pc[s] = "lock" /\ at[s] \in Loop /\ s \in Caller /\ Free(at[s])
  BY Found, CallerIsSomebody DEF LockSend
<1>2. UNCHANGED <<facade, runners, flags, at, waiting, closer, answer, handled, collided>>
  BY DEF LockSend, HandOff, history
<1>3. CASE Ends(s, "refused") /\ Goto(s, "done") /\ UNCHANGED <<loops, history>>
  BY <1>1, <1>2, <1>3, KeptBy DEF Base, history
<1>4. CASE ~Refuses(at[s]) /\ HandOff(s, at[s])
  BY <1>1, <1>2, <1>4 DEF Refuses
<1>5. CASE /\ ~Refuses(at[s]) /\ loops' = [loops EXCEPT ![at[s]].lock = s] /\ Goto(s, "drive")
           /\ UNCHANGED <<outcome, history>>
  BY <1>1, <1>2, <1>5, KeptBy DEF Base, history, Refuses
<1> QED BY <1>3, <1>4, <1>5 DEF LockSend

LEMMA DriveSendMakes ==
  ASSUME Base, NEW s \in Sender, DriveSend(s)
  PROVE  /\ pc[s] = "drive" /\ at[s] \in Loop /\ loops[at[s]].lock = s /\ ~loops[at[s]].closed
         /\ UNCHANGED <<facade, runners, flags, at, waiting, closer, answer, handled, collided, outcome>>
         /\ \/ HandOff(s, at[s])
            \/ /\ Goto(s, "driving") /\ UNCHANGED accepted
               /\ Makes(at[s], s, loops[at[s]].lock, loops[at[s]].ready, loops[at[s]].tasks \cup {s},
                        loops[at[s]].stopping, loops[at[s]].closed)
<1>1. pc[s] = "drive" /\ at[s] \in Loop /\ loops[at[s]].lock = s /\ ~loops[at[s]].closed
  BY Locked DEF DriveSend
<1>2. UNCHANGED <<facade, runners, flags, at, waiting, closer, answer, handled, collided, outcome>>
  BY DEF DriveSend, HandOff, history
<1>3. CASE /\ loops' = [loops EXCEPT ![at[s]].driver = s, ![at[s]].tasks = @ \cup {s}]
           /\ Goto(s, "driving") /\ UNCHANGED <<outcome, history>>
  BY <1>1, <1>2, <1>3, MakesDriven DEF Base, history
<1> QED BY <1>1, <1>2, <1>3 DEF DriveSend

LEMMA DriveUpdateMakes ==
  ASSUME Base, NEW r \in Request, DriveUpdate(r)
  PROVE  /\ pc[r] = "drive" /\ at[r] \in Loop /\ loops[at[r]].lock = r /\ ~loops[at[r]].closed
         /\ UNCHANGED <<facade, runners, flags, at, waiting, closer, outcome, handled, accepted>>
         /\ \/ Kept /\ Goto(r, "done") /\ collided' = collided \cup {r} /\ Answer(r, "200")
            \/ /\ Goto(r, "driving") /\ UNCHANGED <<collided, answer>>
               /\ Makes(at[r], r, loops[at[r]].lock, loops[at[r]].ready, loops[at[r]].tasks \cup {r},
                        loops[at[r]].stopping, loops[at[r]].closed)
<1>1. pc[r] = "drive" /\ at[r] \in Loop /\ loops[at[r]].lock = r /\ ~loops[at[r]].closed
  BY Locked DEF DriveUpdate
<1>2. CASE Running(at[r])
  BY <1>1, <1>2, KeptBy DEF DriveUpdate, Base
<1>3. CASE ~Running(at[r])
  BY <1>1, <1>3, MakesDriven DEF DriveUpdate, Base
<1> QED BY <1>1, <1>2, <1>3 DEF DriveUpdate

LEMMA StopLoopMakes ==
  ASSUME Base, StopLoop
  PROVE  /\ pc[Main] = "stop" /\ Goto(Main, "join")
         /\ UNCHANGED <<facade, runners, flags, at, waiting, closer, outcome, history>>
         /\ \/ UNCHANGED loops
            \/ /\ loop \in Loop /\ Alive(taken) /\ Callback("stop", Main) \in CallbackType
               /\ Makes(loop, loops[loop].driver, loops[loop].lock,
                        Append(loops[loop].ready, Callback("stop", Main)), loops[loop].tasks,
                        loops[loop].stopping, loops[loop].closed)
<1>1. CASE loop # None /\ Alive(taken) /\ loops' = Queued(loop, Callback("stop", Main))
  <2>1. loop \in Loop /\ Callback("stop", Main) \in CallbackType
    BY <1>1 DEF Base, Typed, Callback, CallbackType
  <2> QED BY <1>1, <2>1, MakesQueued DEF Base, StopLoop
<1> QED BY <1>1 DEF StopLoop

LEMMA OnwardRequest ==
  ASSUME Base, Jobs, NEW r \in Request, NEW label, Goto(r, label), label \notin {"result", "driving"},
         pc[r] # "done", pc[r] = "result" => future[r] # "pending",
         \A d \in Caller : d # r => at'[d] = at[d],
         pc[r] \in {"driving", "result", "forget"} => at'[r] = at[r] /\ label \in {"forget", "done"}
  PROVE  Onward(r)
<1>1. Moves(r, label) /\ r \notin Sender
  BY GotoMoves, CallerIsSomebody DEF Base, Ground
<1>2. future[r] # "pending"
  BY DEF Jobs, Awaited
<1> QED BY <1>1, <1>2 DEF Onward, Moves

LEMMA OnwardSender ==
  ASSUME Base, NEW s \in Sender, NEW label, Goto(s, label), pc[s] # "done",
         \A d \in Caller : d # s => at'[d] = at[d],
         pc[s] = "driving" => label = "done"
  PROVE  Onward(s)
<1>1. Moves(s, label) /\ s \notin Request
  BY GotoMoves, CallerIsSomebody DEF Base, Ground
<1> QED BY <1>1 DEF Onward, Moves

LEMMA OnwardMain ==
  ASSUME Base, UNCHANGED pc \/ (\E label : Goto(Main, label)),
         \A d \in Caller : d # Main => at'[d] = at[d]
  PROVE  Onward(Main)
<1>1. \A d \in Caller : d # Main => pc'[d] = pc[d]
  BY GotoMoves, CallerIsSomebody DEF Base, Ground, Moves
<1> QED BY <1>1, CallerIsSomebody DEF Onward

LEMMA EnsureJobs == ASSUME Base, Jobs, NEW r \in Request, EnsureLoopRuns(r) PROVE Jobs'
<1>1. /\ pc[r] = "idle" /\ UNCHANGED <<loops, at, accepted, future, handled>>
      /\ \E label \in {"feed", "await"} : Goto(r, label)
  BY DEF EnsureLoopRuns, waiting, history
<1> QED BY <1>1, KeptBy, OnwardRequest, JobsQuiet DEF Base

LEMMA RequestJobs == ASSUME Base, Jobs, NEW r \in Request, RequestStep(r) PROVE Jobs'
<1>0. r \in Caller
  BY CallerIsSomebody
<1>1. CASE AwaitRunner(r)
  BY <1>1, KeptBy, OnwardRequest, JobsQuiet DEF Base, AwaitRunner, history
<1>2. CASE CaptureLoop(r)
  <2>1. /\ pc[r] = "feed" /\ Goto(r, "submit") /\ UNCHANGED <<loops, accepted, future, handled>>
        /\ \A d \in Caller : d # r => at'[d] = at[d]
    BY <1>2 DEF CaptureLoop, waiting, history, Base, Typed
  <2> QED BY <2>1, KeptBy, OnwardRequest, JobsQuiet DEF Base
<1>3. CASE UpdateDriven(r)
  <2>1. /\ pc[r] = "driving" /\ Goto(r, "done") /\ UNCHANGED <<accepted, future, handled, at>>
        /\ loops' = Unlocked(at[r]) /\ at[r] \in Loop
    BY <1>3, Locked DEF UpdateDriven, waiting
  <2> QED BY <2>1, KeptBy, OnwardRequest, JobsQuiet DEF Base
<1>4. CASE AwaitUpdate(r)
  <2>1. /\ pc[r] = "result" /\ future[r] # "pending" /\ Goto(r, "forget")
        /\ UNCHANGED <<loops, accepted, future, handled, at>>
    BY <1>4 DEF AwaitUpdate, waiting
  <2> QED BY <2>1, KeptBy, OnwardRequest, JobsQuiet DEF Base
<1>5. CASE ForgetUpdate(r)
  <2>1. /\ pc[r] = "forget" /\ Goto(r, "done")
        /\ UNCHANGED <<loops, accepted, future, handled, at>>
    BY <1>5 DEF ForgetUpdate, history
  <2> QED BY <2>1, KeptBy, OnwardRequest, JobsQuiet DEF Base
<1>6. CASE SubmitUpdate(r)
  <2>1. pc[r] = "submit" /\ UNCHANGED at
    BY <1>6 DEF SubmitUpdate
  <2>2. CASE Kept /\ UNCHANGED <<future, accepted, handled>> /\ (Goto(r, "done") \/ Goto(r, "drive"))
    BY <2>1, <2>2, OnwardRequest, JobsQuiet
  <2> DEFINE l == at[r]
             b == Callback("feed", r)
  <2>3. CASE /\ Goto(r, "result") /\ future' = [future EXCEPT ![r] = "pending"] /\ l \in Loop
             /\ UNCHANGED <<accepted, handled>> /\ b \in CallbackType
             /\ Makes(l, loops[l].driver, loops[l].lock, Append(loops[l].ready, b), loops[l].tasks,
                      loops[l].stopping, loops[l].closed)
    <3>1. Moves(r, "result")
      BY <1>0, <2>3, GotoMoves DEF Base, Ground
    <3>2. /\ Callbacks(l)' = Callbacks(l) \cup {b} /\ \A k \in Loop : k # l => Callbacks(k)' = Callbacks(k)
      BY <2>1, <2>3, CallbackTypes, AppendRange DEF Makes, Callbacks
    <3>3. \A k \in Loop : loops'[k].tasks = loops[k].tasks
      BY <2>3 DEF Makes
    <3>4. /\ future'[r] = "pending" /\ \A q \in Request : q # r => future'[q] = future[q]
          /\ future[r] = "none" /\ b.do = "feed" /\ b.job = r
      BY <2>1, <2>3 DEF Base, Typed, Jobs, Awaited, Callback
    <3>5. Asked'
      <4> SUFFICES ASSUME NEW k \in Loop, NEW c \in Callbacks(k)'
                   PROVE  /\ c.do = "start" => c.job \in accepted'
                          /\ c.do = "feed" => future'[c.job] # "none" /\ at'[c.job] = k
                          /\ c.do = "cancel" => future'[c.job] = "cancelled"
        BY DEF Asked
      <4>1. CASE c \in Callbacks(k)
        <5>1. /\ c.do = "start" => c.job \in accepted
              /\ c.do = "feed" => future[c.job] # "none" /\ at[c.job] = k /\ c.job \in Request
              /\ c.do = "cancel" => future[c.job] = "cancelled" /\ c.job \in Request
          BY <4>1, CallbackTypes DEF Jobs, Asked
        <5> QED BY <2>1, <2>3, <3>4, <5>1
      <4>2. CASE c = b /\ k = l
        BY <2>1, <3>4, <4>2
      <4> QED BY <2>1, <3>2, <4>1, <4>2
    <3>6. Tasked'
      BY <2>1, <2>3, <3>1, <3>3, CallerIsSomebody DEF Jobs, Tasked, Moves
    <3>7. Awaited'
      <4>1. \A s \in Sender : s \in accepted' => pc'[s] = "done"
        BY <2>3, <3>1, CallerIsSomebody DEF Jobs, Awaited, Moves
      <4>2. ASSUME NEW q \in Request, q # r
            PROVE  /\ future'[q] = "pending" => pc'[q] = "result"
                   /\ future'[q] # "none" => pc'[q] \in {"result", "forget", "done"}
                   /\ pc'[q] = "result" => future'[q] # "none"
                   /\ future'[q] = "done" => q \in handled'
                   /\ pc'[q] = "driving" => q \in handled' \/ q \in loops'[at'[q]].tasks
        <5>1. pc'[q] = pc[q] /\ at'[q] = at[q] /\ future'[q] = future[q] /\ handled' = handled
          BY <2>1, <2>3, <3>1, <3>4, <4>2, CallerIsSomebody DEF Moves
        <5>2. pc[q] = "driving" => at[q] \in Loop
          BY Locked
        <5> QED BY <3>3, <5>1, <5>2 DEF Jobs, Awaited
      <4>3. pc'[r] = "result" /\ future'[r] = "pending"
        BY <3>1, <3>4 DEF Moves
      <4> QED BY <4>1, <4>2, <4>3 DEF Awaited
    <3> QED BY <3>5, <3>6, <3>7 DEF Jobs
  <2> QED BY <1>6, <2>2, <2>3, SubmitMakes
<1>7. CASE DriveUpdate(r)
  <2> DEFINE l == at[r]
  <2>1. pc[r] = "drive" /\ UNCHANGED <<at, accepted, future, handled>> /\ l \in Loop
    BY <1>7, DriveUpdateMakes DEF waiting
  <2>2. CASE Kept /\ Goto(r, "done")
    BY <2>1, <2>2, OnwardRequest, JobsQuiet
  <2>3. CASE /\ Goto(r, "driving")
             /\ Makes(l, r, loops[l].lock, loops[l].ready, loops[l].tasks \cup {r},
                      loops[l].stopping, loops[l].closed)
    <3>1. Moves(r, "driving")
      BY <1>0, <2>3, GotoMoves DEF Base, Ground
    <3>2. \A k \in Loop : Callbacks(k)' = Callbacks(k)
      BY <2>3 DEF Makes, Callbacks
    <3>3. /\ loops'[l].tasks = loops[l].tasks \cup {r}
          /\ \A k \in Loop : k # l => loops'[k].tasks = loops[k].tasks
      BY <2>3 DEF Makes
    <3>4. Asked'
      BY <2>1, <3>2 DEF Jobs, Asked
    <3>5. Tasked'
      <4>1. r \notin Sender /\ r \notin Reply
        BY JobsAreDisjoint DEF Send
      <4> QED BY <2>1, <3>1, <3>3, <4>1, CallerIsSomebody DEF Jobs, Tasked, Moves
    <3>6. Awaited'
      <4>1. \A s \in Sender : s \in accepted' => pc'[s] = "done"
        BY <2>1, <3>1, CallerIsSomebody DEF Jobs, Awaited, Moves
      <4>2. ASSUME NEW q \in Request
            PROVE  /\ future'[q] = "pending" => pc'[q] = "result"
                   /\ future'[q] # "none" => pc'[q] \in {"result", "forget", "done"}
                   /\ pc'[q] = "result" => future'[q] # "none"
                   /\ future'[q] = "done" => q \in handled'
        BY <2>1, <3>1, CallerIsSomebody DEF Jobs, Awaited, Moves
      <4>3. ASSUME NEW q \in Request, pc'[q] = "driving"
            PROVE  q \in handled' \/ q \in loops'[at'[q]].tasks
        <5>1. CASE q = r
          BY <2>1, <3>3, <5>1
        <5>2. CASE q # r
          <6>1. pc[q] = "driving" /\ at'[q] = at[q]
            BY <2>1, <3>1, <4>3, <5>2, CallerIsSomebody DEF Moves
          <6>2. at[q] \in Loop
            BY <6>1, Locked
          <6> QED BY <2>1, <3>3, <6>1, <6>2 DEF Jobs, Awaited
        <5> QED BY <5>1, <5>2
      <4> QED BY <4>1, <4>2, <4>3 DEF Awaited
    <3> QED BY <3>4, <3>5, <3>6 DEF Jobs
  <2> QED BY <1>7, <2>2, <2>3, DriveUpdateMakes
<1> QED BY <1>1, <1>2, <1>3, <1>4, <1>5, <1>6, <1>7 DEF RequestStep

\* A send is handed over.
LEMMA HandOffJobs ==
  ASSUME Base, Jobs, NEW s \in Sender, pc[s] \in {"lock", "drive"}, NEW l \in Loop, HandOff(s, l),
         UNCHANGED <<at, future>>
  PROVE  Jobs'
<1> DEFINE b == Callback("start", s)
<1>1. /\ b \in CallbackType /\ b.do = "start" /\ b.job = s /\ accepted' = accepted \cup {s}
      /\ Makes(l, loops[l].driver, Nobody, Append(loops[l].ready, b), loops[l].tasks,
               loops[l].stopping, loops[l].closed)
      /\ handled' = handled
  BY HandOffMakes DEF Callback
<1>2. Moves(s, "done")
  BY GotoMoves, HandOffMakes, CallerIsSomebody DEF Base, Ground
<1>3. Callbacks(l)' = Callbacks(l) \cup {b} /\ \A k \in Loop : k # l => Callbacks(k)' = Callbacks(k)
  BY <1>1, CallbackTypes, AppendRange DEF Makes, Callbacks
<1>4. \A k \in Loop : loops'[k].tasks = loops[k].tasks
  BY <1>1 DEF Makes
<1>5. Asked'
  BY <1>1, <1>3 DEF Jobs, Asked
<1>6. Tasked'
  BY <1>1, <1>2, <1>4, CallerIsSomebody DEF Jobs, Tasked, Moves
<1>7. Awaited'
  <2>1. \A c \in Sender : c \in accepted' => pc'[c] = "done"
    BY <1>1, <1>2, CallerIsSomebody DEF Jobs, Awaited, Moves
  <2>2. \A q \in Request : pc'[q] = pc[q]
    BY <1>2, CallerIsSomebody DEF Moves
  <2>3. \A q \in Request : pc[q] = "driving" => at[q] \in Loop
    BY Locked
  <2> QED BY <1>1, <1>4, <2>1, <2>2, <2>3 DEF Jobs, Awaited
<1> QED BY <1>5, <1>6, <1>7 DEF Jobs

LEMMA SenderJobs == ASSUME Base, Jobs, NEW s \in Sender, ScheduleSend(s) \/ SenderStep(s) PROVE Jobs'
<1>0. s \in Caller /\ s \notin Request
  BY CallerIsSomebody
<1>1. CASE ScheduleSend(s)
  <2>1. /\ pc[s] = "idle" /\ UNCHANGED <<loops, accepted, future, handled>>
        /\ \E label : Goto(s, label)
        /\ \A d \in Caller : d # s => at'[d] = at[d]
    BY <1>1 DEF ScheduleSend, waiting, history, Base, Typed
  <2> QED BY <2>1, KeptBy, OnwardSender, JobsQuiet DEF Base
<1>2. CASE LockSend(s)
  <2>1. pc[s] = "lock" /\ at[s] \in Loop /\ UNCHANGED <<at, future, handled>>
    BY <1>2, LockSendMakes DEF waiting
  <2>2. CASE Kept /\ UNCHANGED accepted /\ (Goto(s, "done") \/ Goto(s, "drive"))
    BY <2>1, <2>2, OnwardSender, JobsQuiet
  <2>3. CASE HandOff(s, at[s])
    BY <2>1, <2>3, HandOffJobs
  <2> QED BY <1>2, <2>2, <2>3, LockSendMakes
<1>3. CASE DriveSend(s)
  <2> DEFINE l == at[s]
  <2>1. pc[s] = "drive" /\ l \in Loop /\ UNCHANGED <<at, future, handled>>
    BY <1>3, DriveSendMakes DEF waiting
  <2>2. CASE HandOff(s, l)
    BY <2>1, <2>2, HandOffJobs
  <2>3. CASE /\ Goto(s, "driving") /\ UNCHANGED accepted
             /\ Makes(l, s, loops[l].lock, loops[l].ready, loops[l].tasks \cup {s},
                      loops[l].stopping, loops[l].closed)
    <3>1. Moves(s, "driving")
      BY <1>0, <2>3, GotoMoves DEF Base, Ground
    <3>2. \A k \in Loop : Callbacks(k)' = Callbacks(k)
      BY <2>3 DEF Makes, Callbacks
    <3>3. /\ loops'[l].tasks = loops[l].tasks \cup {s}
          /\ \A k \in Loop : k # l => loops'[k].tasks = loops[k].tasks
      BY <2>3 DEF Makes
    <3>4. Asked'
      BY <2>1, <2>3, <3>2 DEF Jobs, Asked
    <3>5. Tasked'
      <4>1. s \notin Reply
        BY JobsAreDisjoint
      <4> QED BY <1>0, <2>1, <2>3, <3>1, <3>3, <4>1, CallerIsSomebody DEF Jobs, Tasked, Moves
    <3>6. Awaited'
      <4>1. \A c \in Sender : c \in accepted' => pc'[c] = "done"
        BY <2>1, <2>3, <3>1, CallerIsSomebody DEF Jobs, Awaited, Moves
      <4>2. \A q \in Request : pc'[q] = pc[q]
        BY <1>0, <3>1, CallerIsSomebody DEF Moves
      <4>3. \A q \in Request : pc[q] = "driving" => at[q] \in Loop
        BY Locked
      <4> QED BY <2>1, <3>3, <4>1, <4>2, <4>3 DEF Jobs, Awaited
    <3> QED BY <3>4, <3>5, <3>6 DEF Jobs
  <2> QED BY <1>3, <2>2, <2>3, DriveSendMakes
<1>4. CASE SendDriven(s)
  <2>1. /\ pc[s] = "driving" /\ Goto(s, "done") /\ UNCHANGED <<accepted, future, handled, at>>
        /\ loops' = Unlocked(at[s]) /\ at[s] \in Loop
    BY <1>4, Locked DEF SendDriven, waiting, history
  <2> QED BY <2>1, KeptBy, OnwardSender, JobsQuiet DEF Base
<1> QED BY <1>1, <1>2, <1>3, <1>4 DEF SenderStep

\* The callback c cancels the task that the next callback of l makes.
Cancelling(l, c) ==
  LET b == Head(loops[l].ready)
  IN  b.do = "feed" /\ future[b.job] = "cancelled" /\ c = Callback("cancel", b.job)

\* A loop runs a callback or ends a task: where the callers are does not change.
LEMMA TailCallbacks ==
  ASSUME Base, NEW l \in Loop, RunCallback(l)
  PROVE  /\ Head(loops[l].ready) \in Callbacks(l)
         /\ \A c \in Callbacks(l)' : c \in Callbacks(l) \/ Cancelling(l, c)
         /\ \A k \in Loop : k # l => Callbacks(k)' = Callbacks(k)
<1> DEFINE b == Head(loops[l].ready)
           q == Tail(loops[l].ready)
<1>1. loops[l].ready # <<>> /\ loops[l].ready \in Seq(CallbackType)
  BY CallbackTypes DEF RunCallback
<1>2. /\ loops'[l].ready = Rest(l)
      /\ \A k \in Loop : k # l => loops'[k].ready = loops[k].ready
  BY CallbackMakes DEF Makes
<1>3. b \in CallbackType /\ q \in Seq(CallbackType) /\ b \in Range(loops[l].ready)
      /\ Range(q) \subseteq Range(loops[l].ready)
  BY <1>1, TailRange, HeadTailProperties
<1> DEFINE e == Callback("cancel", b.job)
<1>4. CASE b.do = "feed" /\ future[b.job] = "cancelled"
  <2>1. e \in CallbackType
    BY <1>3, <1>4 DEF CallbackType, Callback
  <2>2. Range(Append(q, e)) = Range(q) \cup {e}
    <3> HIDE DEF q, e
    <3> QED BY <1>3, <2>1, AppendRange
  <2>3. Rest(l) = Append(q, e) /\ Cancelling(l, e)
    BY <1>4 DEF Rest, Cancelling
  <2> HIDE DEF b, q, e
  <2> QED BY <1>2, <1>3, <2>2, <2>3 DEF Callbacks, b
<1>5. CASE ~(b.do = "feed" /\ future[b.job] = "cancelled")
  BY <1>2, <1>3, <1>5 DEF Rest, Callbacks
<1> QED BY <1>4, <1>5

LEMMA CallbackJobs == ASSUME Base, Jobs, NEW l \in Loop, RunCallback(l) PROVE Jobs'
<1> DEFINE b == Head(loops[l].ready)
<1>1. /\ b \in Callbacks(l) /\ b.do \in {"start", "feed", "cancel", "stop"}
      /\ b.do = "start" => b.job \in Sender /\ b.job \in accepted
      /\ b.do = "feed" => b.job \in Request /\ future[b.job] # "none" /\ at[b.job] = l
      /\ b.do = "cancel" => b.job \in Request /\ future[b.job] = "cancelled"
  BY TailCallbacks, CallbackTypes DEF Jobs, Asked
<1>2. UNCHANGED <<pc, at, accepted, future, handled>>
  BY DEF RunCallback, waiting, history
<1>3. PICK T, s : /\ Makes(l, loops[l].driver, loops[l].lock, Rest(l), T, s, loops[l].closed)
                  /\ T \subseteq loops[l].tasks \cup {b.job}
                  /\ b.do # "cancel" => loops[l].tasks \subseteq T
                  /\ b.do = "cancel" => T = loops[l].tasks \ {b.job}
                  /\ b.do = "stop" => T = loops[l].tasks
  BY CallbackMakes
<1>4. Asked'
  <2>1. ASSUME NEW c, Cancelling(l, c)
        PROVE  c.do = "cancel" /\ c.job \in Request /\ future[c.job] = "cancelled"
    BY <1>1, <2>1 DEF Cancelling, Callback
  <2> QED BY <1>2, <2>1, TailCallbacks DEF Jobs, Asked
<1>5. loops'[l].tasks = T /\ \A k \in Loop : k # l => loops'[k].tasks = loops[k].tasks
  BY <1>3 DEF Makes
<1> HIDE DEF b
<1>6. Tasked'
  <2>1. ASSUME NEW s1 \in Sender, s1 \in T PROVE s1 \in accepted \/ pc[s1] \in {"driving", "done"}
    BY <1>1, <1>3, <2>1, CallerIsSomebody DEF Jobs, Tasked
  <2>2. ASSUME NEW s1 \in Reply, s1 \in T PROVE s1 \in accepted
    BY <1>1, <1>3, <2>2, JobsAreDisjoint DEF Jobs, Tasked, Send
  <2>3. ASSUME NEW r \in Request, r \in T
        PROVE  at[r] = l /\ pc[r] \in {"driving", "result", "forget", "done"}
    <3>1. r \notin Sender
      BY CallerIsSomebody
    <3> QED BY <1>1, <1>3, <2>3, <3>1 DEF Jobs, Tasked, Awaited
  <2> QED BY <1>2, <1>5, <2>1, <2>2, <2>3 DEF Jobs, Tasked
<1>7. Awaited'
  <2>1. ASSUME NEW r \in Request, pc[r] = "driving" PROVE r \in handled \/ r \in loops'[at[r]].tasks
    <3>1. r \in handled \/ r \in loops[at[r]].tasks
      BY <2>1 DEF Jobs, Awaited
    <3>2. at[r] \in Loop /\ future[r] = "none"
      BY <2>1, Locked DEF Jobs, Awaited
    <3>3. r \in loops[l].tasks => r \in T
      BY <1>1, <1>3, <3>2
    <3> QED BY <1>5, <3>1, <3>2, <3>3
  <2> QED BY <1>2, <2>1 DEF Jobs, Awaited
<1> QED BY <1>4, <1>6, <1>7 DEF Jobs

LEMMA FinishJobs == ASSUME Base, Jobs, NEW l \in Loop, NEW j \in Job, FinishTask(l, j) PROVE Jobs'
<1>1. /\ UNCHANGED <<pc, at, accepted>>
      /\ j \in Request => /\ handled' = handled \cup {j}
                          /\ future' = [future EXCEPT ![j] = IF @ = "pending" THEN "done" ELSE @]
      /\ j \notin Request => UNCHANGED <<handled, future>>
  BY DEF FinishTask
<1>2. Makes(l, loops[l].driver, loops[l].lock, loops[l].ready, loops[l].tasks \ {j},
            loops[l].stopping, loops[l].closed)
  BY FinishMakes
<1>3. /\ \A k \in Loop : Callbacks(k)' = Callbacks(k)
      /\ loops'[l].tasks = loops[l].tasks \ {j} /\ \A k \in Loop : k # l => loops'[k].tasks = loops[k].tasks
  BY <1>2 DEF Makes, Callbacks
<1>4. /\ handled \subseteq handled' /\ (j \in Request => j \in handled')
      /\ \A r \in Request : \/ future'[r] = future[r]
                            \/ future[r] = "pending" /\ future'[r] = "done" /\ r \in handled'
  BY <1>1 DEF Base, Typed
<1>5. Asked'
  <2> SUFFICES ASSUME NEW k \in Loop, NEW c \in Callbacks(k)
               PROVE  /\ c.do = "start" => c.job \in accepted
                      /\ c.do = "feed" => future'[c.job] # "none" /\ at[c.job] = k
                      /\ c.do = "cancel" => future'[c.job] = "cancelled"
    BY <1>1, <1>3 DEF Asked
  <2>1. c.do \in {"feed", "cancel"} => c.job \in Request
    BY CallbackTypes
  <2> QED BY <1>4, <2>1 DEF Jobs, Asked
<1>6. Tasked'
  BY <1>1, <1>3 DEF Jobs, Tasked
<1>7. Awaited'
  <2>1. ASSUME NEW r \in Request, pc[r] = "driving" PROVE r \in handled' \/ r \in loops'[at[r]].tasks
    <3>1. (r \in handled \/ r \in loops[at[r]].tasks) /\ at[r] \in Loop
      BY <2>1, Locked DEF Jobs, Awaited
    <3> QED BY <1>3, <1>4, <3>1
  <2> QED BY <1>1, <1>4, <2>1 DEF Jobs, Awaited
<1> QED BY <1>5, <1>6, <1>7 DEF Jobs

LEMMA ReplyJobs == ASSUME Base, Jobs, NEW l \in Loop, NEW s \in Reply, SendReply(l, s) PROVE Jobs'
<1>1. UNCHANGED <<pc, at, future, handled>>
  BY DEF SendReply, waiting
<1>2. CASE UNCHANGED <<loops, accepted>>
  BY <1>1, <1>2, KeptBy, OnwardMain, JobsQuiet DEF Base
<1>3. CASE /\ accepted' = accepted \cup {s}
           /\ Makes(l, loops[l].driver, loops[l].lock, loops[l].ready,
                    loops[l].tasks \cup {s}, loops[l].stopping, loops[l].closed)
  <2>1. /\ \A k \in Loop : Callbacks(k)' = Callbacks(k)
        /\ loops'[l].tasks = loops[l].tasks \cup {s}
        /\ \A k \in Loop : k # l => loops'[k].tasks = loops[k].tasks
    BY <1>3 DEF Makes, Callbacks
  <2>2. s \notin Sender /\ s \notin Request
    BY JobsAreDisjoint DEF Send
  <2>3. Asked' /\ Tasked'
    BY <1>1, <1>3, <2>1, <2>2 DEF Jobs, Asked, Tasked
  <2>4. \A r \in Request : pc[r] = "driving" => at[r] \in Loop
    BY Locked
  <2>5. Awaited'
    BY <1>1, <1>3, <2>1, <2>2, <2>4 DEF Jobs, Awaited
  <2> QED BY <2>3, <2>5 DEF Jobs
<1> QED BY <1>2, <1>3, ReplyMakes

LEMMA RunnerJobs ==
  ASSUME Base, Jobs, NEW t \in Runner, RunForever(t) \/ RunnerDies(t) \/ RunnerStops(t)
  PROVE  Jobs'
<1>1. /\ UNCHANGED <<pc, at, accepted, future, handled>>
      /\ threads[t].state # "unmade"
      /\ \/ UNCHANGED loops
         \/ loops' = [loops EXCEPT ![threads[t].on].driver = t]
         \/ loops' = Left(threads[t].on)
  BY DEF RunForever, RunnerDies, RunnerStops, waiting, history
<1>2. threads[t].on \in Loop
  BY <1>1 DEF Base, Ground, Placed, KInv, Shape
<1>3. Kept
  BY <1>1, <1>2, KeptBy DEF Base
<1> QED BY <1>1, <1>3, OnwardMain, JobsQuiet

LEMMA AwaitUpdatesJobs == ASSUME Base, Jobs, AwaitUpdates PROVE Jobs'
<1> DEFINE unfinished == {r \in snapshot : future[r] = "pending"}
<1>1. /\ Goto(Main, "stop") /\ UNCHANGED <<at, accepted, handled>>
      /\ future' = [r \in Request |-> IF r \in unfinished THEN "cancelled" ELSE future[r]]
      /\ unfinished \in SUBSET Request
  BY DEF AwaitUpdates, history, Base, Typed
<1>2. \A c \in Request \cup Sender : pc'[c] = pc[c]
  BY <1>1, GotoMoves, CallerIsSomebody DEF Base, Ground, Moves
<1>3. \A r \in Request : \/ future'[r] = future[r] /\ r \notin unfinished
                         \/ future[r] = "pending" /\ future'[r] = "cancelled" /\ r \in unfinished
  BY <1>1
<1>4. /\ \A k \in Loop : loops'[k].tasks = loops[k].tasks
      /\ \A k \in Loop : loops'[k].ready = loops[k].ready \o Cancels(k, unfinished)
  BY AwaitMakes
<1>5. ASSUME NEW k \in Loop, NEW c \in Callbacks(k)'
      PROVE  c \in Callbacks(k) \/ (c.do = "cancel" /\ c.job \in unfinished)
  <2>1. loops[k].ready \in Seq(CallbackType) /\ Cancels(k, unfinished) \in Seq(CallbackType)
    BY <1>1, CallbackTypes, CancelsOf DEF Base
  <2>2. c \in Range(loops[k].ready) \/ c \in Range(Cancels(k, unfinished))
    <3>1. c \in Range(loops[k].ready \o Cancels(k, unfinished))
      BY <1>4 DEF Callbacks
    <3>2. Range(loops[k].ready \o Cancels(k, unfinished))
            = Range(loops[k].ready) \cup Range(Cancels(k, unfinished))
      BY <2>1, RangeConcatenation
    <3> QED BY <3>1, <3>2
  <2>3. CASE c \in Range(Cancels(k, unfinished))
    <3>1. PICK i \in 1..Len(Cancels(k, unfinished)) : c = Cancels(k, unfinished)[i]
      BY <2>1, <2>3, LenProperties DEF Range
    <3> QED BY <1>1, <3>1, CancelsOf DEF Base
  <2> QED BY <2>2, <2>3 DEF Callbacks
<1> HIDE DEF unfinished
<1>6. Asked'
  <2> SUFFICES ASSUME NEW k \in Loop, NEW c \in Callbacks(k)'
               PROVE  /\ c.do = "start" => c.job \in accepted
                      /\ c.do = "feed" => future'[c.job] # "none" /\ at[c.job] = k
                      /\ c.do = "cancel" => future'[c.job] = "cancelled"
    BY <1>1 DEF Asked
  <2>1. CASE c \in Callbacks(k)
    <3>1. c.do \in {"feed", "cancel"} => c.job \in Request
      BY <2>1, CallbackTypes
    <3> QED BY <1>3, <2>1, <3>1 DEF Jobs, Asked
  <2>2. CASE c.do = "cancel" /\ c.job \in unfinished
    BY <1>1, <1>3, <2>2
  <2> QED BY <1>5, <2>1, <2>2
<1>7. Tasked'
  BY <1>1, <1>2, <1>4 DEF Jobs, Tasked
<1>8. Awaited'
  <2>1. \A r \in Request : pc[r] = "driving" => at[r] \in Loop
    BY Locked
  <2> QED BY <1>1, <1>2, <1>3, <1>4, <2>1 DEF Jobs, Awaited
<1> QED BY <1>6, <1>7, <1>8 DEF Jobs

LEMMA MainJobs == ASSUME Base, Jobs, EndPolling \/ CloseStep \/ PutBackRunner PROVE Jobs'
<1>1. CASE EndPolling
  <2>1. /\ Goto(Main, "open") /\ UNCHANGED <<at, accepted, future, handled>>
        /\ loop \in Loop /\ loops' = Left(loop)
    BY <1>1, WherePolls DEF EndPolling, waiting, history
  <2> QED BY <2>1, KeptBy, OnwardMain, JobsQuiet DEF Base
<1>2. CASE RaiseFlags \/ LowerFlags \/ TakeRunner \/ SnapshotUpdates \/ JoinRunner \/ PutBackRunner
           \/ UnsetLoop \/ TurnLoop
  <2>1. UNCHANGED <<loops, at, accepted, future, handled>> /\ \E label : Goto(Main, label)
    BY <1>2 DEF RaiseFlags, LowerFlags, TakeRunner, SnapshotUpdates, JoinRunner, PutBackRunner,
                UnsetLoop, TurnLoop, waiting, history
  <2> QED BY <2>1, KeptBy, OnwardMain, JobsQuiet DEF Base
<1>3. CASE TearDown
  <2>1. UNCHANGED <<loops, accepted, future, handled>> /\ (\E label : Goto(Main, label))
        /\ \A d \in Caller : d # Main => at'[d] = at[d]
    BY <1>3 DEF TearDown, waiting, history, Base, Typed
  <2> QED BY <2>1, KeptBy, OnwardMain, JobsQuiet DEF Base
<1>4. CASE SeizeLoop
  <2>1. /\ UNCHANGED <<at, accepted, future, handled>> /\ (\E label : Goto(Main, label))
        /\ at[Main] \in Loop
    BY <1>4 DEF SeizeLoop, waiting, history, Base, Ground, Placed, Typed
  <2>2. UNCHANGED loops \/ loops' = [loops EXCEPT ![at[Main]].lock = Main, ![at[Main]].driver = Main]
    BY <1>4 DEF SeizeLoop
  <2> QED BY <2>1, <2>2, KeptBy, OnwardMain, JobsQuiet DEF Base
<1>5. CASE BreakOff \/ CloseLoop
  <2>1. /\ UNCHANGED <<at, accepted, future, handled>> /\ (\E label : Goto(Main, label))
        /\ pc[Main] \in {"turn", "drain", "release"}
        /\ loops' \in {Unlocked(at[Main]), [Unlocked(at[Main]) EXCEPT ![at[Main]].closed = TRUE]}
    BY <1>5 DEF BreakOff, CloseLoop, waiting, history
  <2>2. at[Main] \in Loop
    BY <2>1, Seized
  <2>3. pc'[Main] # pc[Main]
    BY <1>5, CallerIsSomebody DEF BreakOff, CloseLoop, Goto, Base, Ground, Flow
  <2> QED BY <2>1, <2>2, <2>3, KeptBy, OnwardMain, JobsQuiet DEF Base
<1>6. CASE AwaitUpdates
  BY <1>6, AwaitUpdatesJobs
<1>7. CASE StopLoop
  <2>1. Goto(Main, "join") /\ UNCHANGED <<at, accepted, future, handled>>
    BY <1>7, StopLoopMakes DEF waiting, history
  <2>2. CASE UNCHANGED loops
    BY <2>1, <2>2, KeptBy, OnwardMain, JobsQuiet DEF Base
  <2> DEFINE b == Callback("stop", Main)
  <2>3. CASE /\ loop \in Loop /\ b \in CallbackType
             /\ Makes(loop, loops[loop].driver, loops[loop].lock,
                      Append(loops[loop].ready, b), loops[loop].tasks,
                      loops[loop].stopping, loops[loop].closed)
    <3>1. \A c \in Request \cup Sender : pc'[c] = pc[c]
      BY <2>1, GotoMoves, CallerIsSomebody DEF Base, Ground, Moves
    <3>2. \A k \in Loop : Callbacks(k)' \subseteq Callbacks(k) \cup {b}
      <4>1. TAKE k \in Loop
      <4>2. CASE k = loop
        <5>1. Callbacks(k)' = Range(Append(loops[k].ready, b))
          BY <2>3, <4>2 DEF Makes, Callbacks
        <5>2. loops[k].ready \in Seq(CallbackType)
          BY CallbackTypes
        <5> QED BY <2>3, <5>1, <5>2, AppendRange DEF Callbacks
      <4>3. CASE k # loop
        BY <2>3, <4>3 DEF Makes, Callbacks
      <4> QED BY <4>2, <4>3
    <3>3. b.do = "stop" /\ \A k \in Loop : loops'[k].tasks = loops[k].tasks
      BY <2>3 DEF Makes, Callback
    <3> HIDE DEF b
    <3>4. Asked' /\ Tasked'
      BY <2>1, <3>1, <3>2, <3>3 DEF Jobs, Asked, Tasked
    <3>5. \A r \in Request : pc[r] = "driving" => at[r] \in Loop
      BY Locked
    <3>6. Awaited'
      BY <2>1, <3>1, <3>3, <3>5 DEF Jobs, Awaited
    <3> QED BY <3>4, <3>6 DEF Jobs
  <2> QED BY <1>7, <2>2, <2>3, StopLoopMakes
<1>8. CASE DrainSends
  <2>1. Goto(Main, "release") /\ UNCHANGED <<at, accepted, future, handled>>
    BY <1>8 DEF DrainSends, waiting, history
  <2>2. /\ \A k \in Loop : loops'[k].ready = loops[k].ready
        /\ loops'[loop].tasks = loops[loop].tasks \ accepted /\ loop \in Loop
        /\ \A k \in Loop : k # loop => loops'[k].tasks = loops[k].tasks
    BY <1>8, DrainMakes DEF Makes
  <2>3. \A c \in Request \cup Sender : pc'[c] = pc[c]
    BY <2>1, GotoMoves, CallerIsSomebody DEF Base, Ground, Moves
  <2>4. Asked' /\ Tasked'
    BY <2>1, <2>2, <2>3 DEF Jobs, Asked, Tasked, Callbacks
  <2>5. \A r \in Request : (pc[r] = "driving" => at[r] \in Loop) /\ r \notin accepted
    BY Locked, JobsAreDisjoint DEF Base, Typed
  <2>6. Awaited'
    BY <2>1, <2>2, <2>3, <2>5 DEF Jobs, Awaited
  <2> QED BY <2>4, <2>6 DEF Jobs
<1> QED BY <1>1, <1>2, <1>3, <1>4, <1>5, <1>6, <1>7, <1>8 DEF CloseStep

LEMMA InitJobs == Init => Jobs
<1> SUFFICES ASSUME Init PROVE Jobs
  OBVIOUS
<1>1. \A l \in Loop : loops[l].ready = <<>> /\ loops[l].tasks = {}
  BY DEF Init
<1>2. \A l \in Loop : Callbacks(l) = {}
  BY <1>1 DEF Callbacks, Range
<1>3. /\ \A r \in Request : future[r] = "none" /\ pc[r] \in {"idle", "done"}
      /\ accepted = {}
  BY CallerIsSomebody DEF Init
<1> QED BY <1>1, <1>2, <1>3 DEF Jobs, Asked, Tasked, Awaited

LEMMA NextJobs == ASSUME Base, Jobs, [Next]_vars PROVE Jobs'
<1>1. CASE UNCHANGED vars
  <2>1. UNCHANGED <<loops, pc, at, accepted, future, handled>>
    BY <1>1 DEF vars, waiting, history
  <2> QED BY <2>1, KeptBy, OnwardMain, JobsQuiet DEF Base
<1>2. CASE Next
  BY <1>2, EnsureJobs, RequestJobs, SenderJobs, RunnerJobs, CallbackJobs, FinishJobs, ReplyJobs,
     MainJobs DEF Next
<1> QED BY <1>1, <1>2
-----------------------------------------------------------------------------
(***************************************************************************)
(* What a step of a request or of a sender may do, seen by the others.     *)
(***************************************************************************)
\* Nobody but c moves, and c takes no lock while _closing is up.
Alone(c) ==
  /\ \A d \in Caller : d # c => pc'[d] = pc[d] /\ at'[d] = at[d]
  /\ HoldsLock(c)' => (HoldsLock(c) /\ at'[c] = at[c]) \/ ~closing

LEMMA AloneBy ==
  ASSUME Base, NEW c \in Request \cup Sender, NEW label, Goto(c, label),
         \A d \in Caller : d # c => at'[d] = at[d],
         label \in {"drive", "driving"} => (pc[c] = "drive" /\ at'[c] = at[c]) \/ ~closing
  PROVE  Alone(c)
<1>1. Moves(c, label) /\ c # Main /\ c \in Caller
  BY GotoMoves, CallerIsSomebody DEF Base, Ground
<1> QED BY <1>1 DEF Alone, Moves, HoldsLock

\* What a request's step may do to the queue and the tasks of the loop k.
RequestEffect(r, k) ==
  /\ loops'[k].closed = loops[k].closed /\ (loops'[k].stopping => loops[k].stopping)
  /\ \/ loops'[k].ready = loops[k].ready
     \/ /\ loops'[k].ready = Append(loops[k].ready, Callback("feed", r))
        /\ pc[r] = "submit" /\ at[r] = k /\ ~closing /\ Running(k) /\ Free(k)
        /\ pc'[r] = "result" /\ future' = [future EXCEPT ![r] = "pending"]
        /\ updates' = updates \cup {r}
  /\ loops'[k].tasks = loops[k].tasks \/ loops'[k].tasks = loops[k].tasks \cup {r}

LEMMA KeptEffect ==
  ASSUME Kept, NEW r \in Request, Alone(r), NEW k \in Loop
  PROVE  RequestEffect(r, k)
BY CallerIsSomebody DEF Kept, Alone, RequestEffect

\* The future of a request begins to be waited for with its callback, and no other way.
LEMMA RequestDoes ==
  ASSUME Base, NEW r \in Request, RequestStep(r)
  PROVE  /\ UNCHANGED <<runners, flags, closer, outcome, accepted>> /\ Finds
         /\ Alone(r) /\ \A k \in Loop : RequestEffect(r, k)
         /\ \/ UNCHANGED future /\ (UNCHANGED updates \/ (pc[r] = "forget" /\ updates' = updates \ {r}))
            \/ /\ future' = [future EXCEPT ![r] = "pending"] /\ updates' = updates \cup {r}
               /\ pc[r] = "submit" /\ at[r] \in Loop /\ ~closing /\ Running(at[r]) /\ Free(at[r])
               /\ UNCHANGED at
               /\ \A k \in Loop : loops'[k].driver = loops[k].driver
<1>0. r \in Caller
  BY CallerIsSomebody
<1>1. CASE AwaitRunner(r)
  <2>1. /\ UNCHANGED <<runners, flags, closer, outcome, accepted, facade, loops, at, future, updates>>
        /\ Goto(r, "feed")
    BY <1>1 DEF AwaitRunner, history
  <2> QED BY <2>1, KeptBy, KeptEffect, AloneBy, FacadeFinds DEF Base
<1>2. CASE CaptureLoop(r)
  <2>1. /\ UNCHANGED <<runners, flags, closer, outcome, accepted, loops, future, updates>>
        /\ Goto(r, "submit") /\ \A d \in Caller : d # r => at'[d] = at[d]
    BY <1>2 DEF CaptureLoop, history, waiting, Base, Typed
  <2>2. Finds
    BY <1>2, LookUpFinds DEF CaptureLoop, Base
  <2> QED BY <2>1, <2>2, KeptBy, KeptEffect, AloneBy DEF Base
<1>3. CASE UpdateDriven(r)
  <2>1. /\ pc[r] = "driving" /\ Goto(r, "done") /\ loops' = Unlocked(at[r]) /\ at[r] \in Loop
        /\ UNCHANGED <<runners, flags, closer, outcome, accepted, facade, at, future, updates>>
    BY <1>3, Locked DEF UpdateDriven, waiting
  <2> QED BY <2>1, KeptBy, KeptEffect, AloneBy, FacadeFinds DEF Base
<1>4. CASE AwaitUpdate(r)
  <2>1. /\ UNCHANGED <<runners, flags, closer, outcome, accepted, facade, loops, at, future, updates>>
        /\ Goto(r, "forget")
    BY <1>4 DEF AwaitUpdate, waiting
  <2> QED BY <2>1, KeptBy, KeptEffect, AloneBy, FacadeFinds DEF Base
<1>5. CASE ForgetUpdate(r)
  <2>1. /\ UNCHANGED <<runners, flags, closer, outcome, accepted, facade, loops, at, future>>
        /\ Goto(r, "done") /\ pc[r] = "forget" /\ updates' = updates \ {r}
    BY <1>5 DEF ForgetUpdate, history
  <2> QED BY <2>1, KeptBy, KeptEffect, AloneBy, FacadeFinds DEF Base
<1>6. CASE SubmitUpdate(r)
  <2>1. UNCHANGED <<runners, flags, closer, outcome, facade, at>> /\ pc[r] = "submit" /\ at[r] \in Loop
    BY <1>6, SubmitMakes DEF SubmitUpdate
  <2>2. CASE /\ Kept /\ UNCHANGED <<future, updates, accepted, handled>>
             /\ (Goto(r, "done") \/ (Goto(r, "drive") /\ ~closing /\ ~Running(at[r])))
    BY <2>1, <2>2, KeptEffect, AloneBy, FacadeFinds
  <2>3. CASE /\ ~closing /\ Running(at[r]) /\ Free(at[r]) /\ Goto(r, "result")
             /\ future' = [future EXCEPT ![r] = "pending"] /\ updates' = updates \cup {r}
             /\ UNCHANGED <<accepted, handled, answer>>
             /\ Makes(at[r], loops[at[r]].driver, loops[at[r]].lock,
                      Append(loops[at[r]].ready, Callback("feed", r)), loops[at[r]].tasks,
                      loops[at[r]].stopping, loops[at[r]].closed)
    <3>1. pc'[r] = "result"
      BY <1>0, <2>3 DEF Goto, Base, Ground, Flow
    <3>2. \A k \in Loop : RequestEffect(r, k)
      BY <2>1, <2>3, <3>1 DEF Makes, RequestEffect
    <3>3. \A k \in Loop : loops'[k].driver = loops[k].driver
      BY <2>3 DEF Makes
    <3> QED BY <2>1, <2>3, <3>2, <3>3, AloneBy, FacadeFinds
  <2> QED BY <1>6, <2>2, <2>3, SubmitMakes
<1>7. CASE DriveUpdate(r)
  <2>1. /\ UNCHANGED <<runners, flags, closer, outcome, facade, at, accepted, future, updates>>
        /\ pc[r] = "drive" /\ at[r] \in Loop
    BY <1>7, DriveUpdateMakes DEF waiting
  <2>2. CASE Kept /\ Goto(r, "done")
    BY <2>1, <2>2, KeptEffect, AloneBy, FacadeFinds
  <2>3. CASE /\ Goto(r, "driving")
             /\ Makes(at[r], r, loops[at[r]].lock, loops[at[r]].ready, loops[at[r]].tasks \cup {r},
                      loops[at[r]].stopping, loops[at[r]].closed)
    <3>1. \A k \in Loop : RequestEffect(r, k)
      BY <2>3 DEF Makes, RequestEffect
    <3> QED BY <2>1, <2>3, <3>1, AloneBy, FacadeFinds
  <2> QED BY <1>7, <2>2, <2>3, DriveUpdateMakes
<1> QED BY <1>1, <1>2, <1>3, <1>4, <1>5, <1>6, <1>7 DEF RequestStep

\* What a sender's step may do to the loop k.
SenderEffect(s, k) ==
  /\ loops'[k].closed = loops[k].closed /\ (loops'[k].stopping => loops[k].stopping)
  /\ \/ loops'[k].ready = loops[k].ready
     \/ /\ loops'[k].ready = Append(loops[k].ready, Callback("start", s))
        /\ pc[s] \in {"lock", "drive"} /\ at[s] = k /\ ~loops[k].closed
        /\ loops[k].lock \in {s, Nobody}
  /\ \/ loops'[k].tasks = loops[k].tasks
     \/ /\ loops'[k].tasks = loops[k].tasks \cup {s}
        /\ HoldsLock(s) /\ at[s] = k /\ s \notin accepted'

LEMMA KeptSend ==
  ASSUME Kept, NEW s \in Sender, Alone(s), NEW k \in Loop
  PROVE  SenderEffect(s, k)
BY CallerIsSomebody DEF Kept, Alone, SenderEffect

LEMMA HandOffEffect ==
  ASSUME Base, NEW s \in Sender, pc[s] \in {"lock", "drive"}, at[s] \in Loop, HandOff(s, at[s]),
         ~loops[at[s]].closed, loops[at[s]].lock \in {s, Nobody}
  PROVE  \A k \in Loop : SenderEffect(s, k)
BY HandOffMakes DEF Makes, SenderEffect

\* Where a sender goes: to the loop there is, while _closing is not up; and how the
\* sends are told of it.
SenderGoes(s) ==
  /\ pc[s] \in {"idle", "lock", "drive", "driving"}
  /\ pc'[s] \in {"lock", "drive", "driving"} =>
       \/ pc[s] = "idle" /\ at'[s] = loop' /\ ~closing
       \/ pc[s] \in {"lock", "drive"} /\ at'[s] = at[s]
  /\ \/ accepted' = accepted
     \/ accepted' = accepted \cup {s} /\ pc[s] \in {"lock", "drive"} /\ outcome' = outcome
  /\ \A c \in Send : outcome'[c] = "refused" =>
       outcome[c] = "refused" \/ (c = s /\ pc'[s] = "done" /\ accepted' = accepted)

LEMMA SenderDoes ==
  ASSUME Base, Jobs, NEW s \in Sender, ScheduleSend(s) \/ SenderStep(s)
  PROVE  /\ UNCHANGED <<runners, flags, closer, future, updates, handled, answer>> /\ Finds
         /\ Alone(s) /\ \A k \in Loop : SenderEffect(s, k)
         /\ SenderGoes(s)
<1>0. s \in Caller /\ HoldsLock(s) = (pc[s] \in {"drive", "driving"})
  BY CallerIsSomebody DEF HoldsLock
<1>00. /\ outcome \in [Send -> {"absent", "none", "sent", "refused", "dropped", "raised"}]
       /\ \A label : Goto(s, label) => pc'[s] = label
  BY <1>0 DEF Base, Typed, Ground, Flow, Goto
<1>1. CASE ScheduleSend(s)
  <2>1. /\ UNCHANGED <<runners, flags, closer, future, updates, handled, answer, loops, accepted>>
        /\ (\A d \in Caller : d # s => at'[d] = at[d]) /\ pc[s] = "idle"
        /\ \/ Goto(s, "done") /\ UNCHANGED facade /\ Ends(s, "refused")
           \/ /\ Goto(s, "lock") /\ LookUpLoop /\ at' = [at EXCEPT ![s] = TheLoop]
              /\ ~closing /\ UNCHANGED outcome
    BY <1>1 DEF ScheduleSend, waiting, history, Base, Typed
  <2>2. Finds /\ (pc'[s] \in {"lock", "drive", "driving"} => at'[s] = loop' /\ ~closing)
    BY <1>0, <1>00, <2>1, LookUpFinds, FacadeFinds DEF Base, Typed
  <2>3. SenderGoes(s)
    BY <1>00, <2>1, <2>2 DEF SenderGoes, Ends
  <2>4. Alone(s)
    BY <2>1, AloneBy
  <2> QED BY <2>1, <2>2, <2>3, <2>4, KeptBy, KeptSend DEF Base
<1>2. CASE LockSend(s)
  <2>1. /\ UNCHANGED <<runners, flags, closer, future, updates, handled, answer, facade, at>>
        /\ pc[s] = "lock" /\ at[s] \in Loop /\ loops[at[s]].lock = Nobody
    BY <1>2, LockSendMakes DEF waiting, Free
  <2>2. CASE /\ Kept /\ UNCHANGED accepted
             /\ \/ Goto(s, "done") /\ Ends(s, "refused")
                \/ Goto(s, "drive") /\ ~closing /\ UNCHANGED outcome
    <3>1. SenderGoes(s)
      BY <1>00, <2>1, <2>2 DEF SenderGoes, Ends
    <3>2. Alone(s)
      BY <2>1, <2>2, AloneBy
    <3> QED BY <2>1, <2>2, <3>1, <3>2, KeptSend, FacadeFinds
  <2>3. CASE ~closing /\ ~loops[at[s]].closed /\ HandOff(s, at[s])
    <3>1. SenderGoes(s)
      BY <1>00, <2>1, <2>3 DEF SenderGoes, HandOff
    <3>2. Alone(s)
      BY <2>1, <2>3, AloneBy DEF HandOff
    <3> QED BY <2>1, <2>3, <3>1, <3>2, HandOffEffect, FacadeFinds
  <2> QED BY <1>2, <2>2, <2>3, LockSendMakes
<1>3. CASE DriveSend(s)
  <2>1. /\ UNCHANGED <<runners, flags, closer, future, updates, handled, answer, facade, at, outcome>>
        /\ pc[s] = "drive" /\ at[s] \in Loop /\ ~loops[at[s]].closed /\ loops[at[s]].lock = s
    BY <1>3, DriveSendMakes DEF waiting
  <2>2. CASE HandOff(s, at[s])
    <3>1. SenderGoes(s)
      BY <1>00, <2>1, <2>2 DEF SenderGoes, HandOff
    <3>2. Alone(s)
      BY <2>1, <2>2, AloneBy DEF HandOff
    <3> QED BY <2>1, <2>2, <3>1, <3>2, HandOffEffect, FacadeFinds
  <2>3. CASE /\ Goto(s, "driving") /\ UNCHANGED accepted
             /\ Makes(at[s], s, loops[at[s]].lock, loops[at[s]].ready, loops[at[s]].tasks \cup {s},
                      loops[at[s]].stopping, loops[at[s]].closed)
    <3>1. s \notin accepted'
      BY <2>1, <2>3 DEF Jobs, Awaited
    <3>2. \A k \in Loop : SenderEffect(s, k)
      BY <1>0, <2>1, <2>3, <3>1 DEF Makes, SenderEffect
    <3>3. SenderGoes(s)
      BY <1>00, <2>1, <2>3 DEF SenderGoes
    <3> QED BY <2>1, <2>3, <3>2, <3>3, AloneBy, FacadeFinds
  <2> QED BY <1>3, <2>2, <2>3, DriveSendMakes
<1>4. CASE SendDriven(s)
  <2>1. /\ UNCHANGED <<runners, flags, closer, future, updates, handled, answer, facade, at, accepted>>
        /\ pc[s] = "driving" /\ Goto(s, "done") /\ loops' = Unlocked(at[s]) /\ at[s] \in Loop
        /\ Ends(s, "raised") \/ UNCHANGED outcome
    BY <1>4, Locked DEF SendDriven, waiting, history
  <2>2. SenderGoes(s)
    BY <1>00, <2>1 DEF SenderGoes, Ends
  <2>3. Alone(s)
    BY <2>1, AloneBy
  <2> QED BY <2>1, <2>2, <2>3, KeptBy, KeptSend, FacadeFinds DEF Base
<1> QED BY <1>1, <1>2, <1>3, <1>4 DEF SenderStep
-----------------------------------------------------------------------------
(***************************************************************************)
(* As long as no join has timed out, a stop is meant for the runner that   *)
(* close() has in its hands, and that runner takes it.                     *)
(***************************************************************************)
StopQueued(l) == \E c \in Callbacks(l) : c.do = "stop"
Stops(l) == loops[l].stopping \/ StopQueued(l)

NotBothStop == {p \in CallbackType \X CallbackType : ~(p[1].do = "stop" /\ p[2].do = "stop")}

\* Where close() has let its runner go, and no new one may be started.
Letting == {"teardown", "seize", "turn", "drain", "release", "unset", "lower"}

\* A runner that lives was started for the loop there is.
RunsTheLoop == \A t \in Runner : Alive(t) => threads[t].on = loop

NoRunner == pc[Main] \in Letting => runner = None

\* A stop is there while close() joins the runner that is to take it, and once.
StopsAreTaken ==
  \A l \in Loop :
    /\ Stops(l) => pc[Main] = "join" /\ l = loop /\ Alive(taken)
    /\ loops[l].stopping => ~StopQueued(l)
    /\ Linked(loops[l].ready, NotBothStop)

\* Nobody drives the loop by itself from when close() has noted the updates.
NobodyHoldsIt ==
  pc[Main] \in {"wait", "stop", "join"} =>
    \A c \in Request \cup Sender : HoldsLock(c) => at[c] # loop

Peace == RunsTheLoop /\ NoRunner /\ StopsAreTaken /\ NobodyHoldsIt

Calm == late = 0 => Peace

\* No runner lives while nothing is being stopped and none is kept.
LEMMA NobodyAlive ==
  ASSUME Base, runner = None, pc[Main] \notin Stopping
  PROVE  \A t \in Runner : ~Alive(t)
<1>1. None \notin Runner
  BY DEF None, Runner
<1> QED BY <1>1 DEF Base, KInv, Stages, RunnersAreKnown

\* A runner that lives has a loop, and it is the loop there is when one was made.
LEMMA AliveOn ==
  ASSUME Base, Peace, NEW t \in Runner, Alive(t)
  PROVE  loop \in Loop /\ threads[t].on = loop
BY DEF Base, Ground, Placed, Typed, Peace, RunsTheLoop, Alive

\* A step after which no loop is asked to stop that was not.
Gentle ==
  \A k \in Loop :
    /\ loops'[k].stopping => loops[k].stopping
    /\ StopQueued(k)' => StopQueued(k)
    /\ Linked(loops'[k].ready, NotBothStop)

LEMMA QueueGentle ==
  ASSUME Base, Peace,
         \A k \in Loop :
           /\ loops'[k].stopping => loops[k].stopping
           /\ \/ loops'[k].ready = loops[k].ready
              \/ \E b \in CallbackType :
                   b.do # "stop" /\ loops'[k].ready = Append(loops[k].ready, b)
  PROVE  Gentle
<1> SUFFICES ASSUME NEW k \in Loop
             PROVE  (StopQueued(k)' => StopQueued(k)) /\ Linked(loops'[k].ready, NotBothStop)
  BY DEF Gentle
<1>1. loops[k].ready \in Seq(CallbackType) /\ Linked(loops[k].ready, NotBothStop)
      /\ Callbacks(k) \subseteq CallbackType
  BY CallbackTypes DEF Peace, StopsAreTaken
<1>2. CASE loops'[k].ready = loops[k].ready
  BY <1>1, <1>2 DEF StopQueued, Callbacks
<1>3. ASSUME NEW b \in CallbackType, b.do # "stop", loops'[k].ready = Append(loops[k].ready, b)
      PROVE  (StopQueued(k)' => StopQueued(k)) /\ Linked(loops'[k].ready, NotBothStop)
  <2>1. Callbacks(k)' = Callbacks(k) \cup {b}
    BY <1>1, <1>3, AppendRange DEF Callbacks
  <2>2. \A x \in Range(loops[k].ready) : <<x, b>> \in NotBothStop
    BY <1>1, <1>3 DEF NotBothStop, Callbacks
  <2>3. Linked(loops'[k].ready, NotBothStop)
    BY <1>1, <1>3, <2>2, AppendLinked
  <2> QED BY <1>3, <2>1, <2>3 DEF StopQueued
<1> QED BY <1>2, <1>3

LEMMA KeptGentle == ASSUME Base, Peace, Kept PROVE Gentle
  BY QueueGentle DEF Kept

\* A gentle step of a request or a sender, which starts or takes no runner.
LEMMA PeaceAlone ==
  ASSUME Base, Peace, NEW c \in Request \cup Sender, Alone(c), Gentle, Finds,
         UNCHANGED <<runners, taken>>
  PROVE  Peace'
<1>1. pc'[Main] = pc[Main] /\ Main # c /\ UNCHANGED <<runner, threads>>
  BY CallerIsSomebody DEF Alone, runners
<1>2. loop # None => loop' = loop
  BY DEF Finds
<1>3. RunsTheLoop'
  <2>1. \A t \in Runner : Alive(t) => loop \in Loop /\ threads[t].on = loop
    BY AliveOn
  <2> QED BY <1>1, <1>2, <2>1, LoopNumbers DEF RunsTheLoop, Alive
<1>4. NoRunner'
  BY <1>1 DEF Peace, NoRunner
<1>5. StopsAreTaken'
  <2>1. ASSUME NEW l \in Loop, Stops(l)' PROVE pc'[Main] = "join" /\ l = loop' /\ Alive(taken)'
    <3>1. Stops(l)
      BY <2>1 DEF Gentle, Stops
    <3>2. pc[Main] = "join" /\ l = loop /\ Alive(taken)
      BY <3>1 DEF Peace, StopsAreTaken
    <3> QED BY <1>1, <1>2, <3>2, LoopNumbers DEF Alive
  <2> QED BY <2>1 DEF StopsAreTaken, Gentle, Peace
<1>6. NobodyHoldsIt'
  <2> SUFFICES ASSUME pc[Main] \in {"wait", "stop", "join"}, NEW d \in Request \cup Sender, HoldsLock(d)'
               PROVE  at'[d] # loop'
    BY <1>1 DEF NobodyHoldsIt
  <2>1. closing
    BY DEF Base, Ground, Flow, Raised
  <2>2. HoldsLock(d) /\ at'[d] = at[d]
    <3>1. CASE d = c
      BY <2>1, <3>1 DEF Alone
    <3>2. CASE d # c
      BY <3>2, CallerIsSomebody DEF Alone, HoldsLock
    <3> QED BY <3>1, <3>2
  <2>3. at[d] # loop /\ at[d] \in Nat /\ at[d] <= made /\ made \in Nat
    <3>1. pc[d] \in {"drive", "driving"}
      BY <2>2, CallerIsSomebody DEF HoldsLock
    <3>2. at[d] \in Loop /\ at[d] <= made
      BY <3>1, Locked
    <3>3. at[d] # loop
      BY <2>2 DEF Peace, NobodyHoldsIt
    <3>4. at[d] \in Nat
      BY <3>2, LoopNumbers
    <3>5. made \in Nat
      BY DEF Base, Typed
    <3> QED BY <3>2, <3>3, <3>4, <3>5
  <2> QED BY <2>2, <2>3 DEF Finds
<1> QED BY <1>3, <1>4, <1>5, <1>6 DEF Peace

LEMMA RequestPeace == ASSUME Base, Peace, NEW r \in Request, RequestStep(r) PROVE Peace'
<1>1. Callback("feed", r) \in CallbackType /\ Callback("feed", r).do # "stop"
  BY DEF Callback, CallbackType
<1>2. Gentle
  <2>1. \A k \in Loop : RequestEffect(r, k)
    BY RequestDoes
  <2> QED BY <1>1, <2>1, QueueGentle DEF RequestEffect
<1> QED BY <1>2, RequestDoes, PeaceAlone DEF closer

LEMMA SenderPeace ==
  ASSUME Base, Jobs, Peace, NEW s \in Sender, ScheduleSend(s) \/ SenderStep(s)
  PROVE  Peace'
<1>1. Callback("start", s) \in CallbackType /\ Callback("start", s).do # "stop"
  BY DEF Callback, CallbackType
<1>2. Gentle
  <2>1. \A k \in Loop : SenderEffect(s, k)
    BY SenderDoes
  <2> QED BY <1>1, <2>1, QueueGentle DEF SenderEffect
<1> QED BY <1>2, SenderDoes, PeaceAlone DEF closer

LEMMA EnsurePeace == ASSUME Base, Peace, NEW r \in Request, EnsureLoopRuns(r) PROVE Peace'
<1>0. r \in Request \cup Sender /\ Main \in Caller /\ r # Main /\ r \in Caller
  BY CallerIsSomebody
<1>1. /\ UNCHANGED <<loops, flags, at, taken>> /\ Finds
      /\ \E label \in {"feed", "await"} : Goto(r, label)
  <2>1. LookUpLoop \/ UNCHANGED facade
    BY DEF EnsureLoopRuns
  <2> QED BY <2>1, LookUpFinds, FacadeFinds DEF EnsureLoopRuns, closer, Base
<1>2. Alone(r) /\ Gentle
  BY <1>1, AloneBy, KeptBy, KeptGentle DEF Base
<1>3. CASE UNCHANGED runners
  BY <1>0, <1>1, <1>2, <1>3, PeaceAlone
<1>4. CASE ~UNCHANGED runners
  <2>1. /\ ~closing /\ ~KeptRunner /\ LookUpLoop
        /\ \/ runner' = None /\ UNCHANGED threads
           \/ StartRunner(TheLoop)
    BY <1>4 DEF EnsureLoopRuns
  <2>2. pc[Main] \notin Raised /\ pc'[Main] = pc[Main]
    BY <1>0, <1>2, <2>1 DEF Base, Ground, Flow, Alone
  <2>3. \A t \in Runner : ~Alive(t)
    <3>1. pc[Main] \notin Stopping
      BY <2>2 DEF Raised, Stopping
    <3>2. None \notin Runner
      BY DEF None, Runner
    <3> QED BY <2>1, <3>1, <3>2 DEF Base, KInv, Stages, RunnersAreKnown, KeptRunner
  <2>4. RunsTheLoop'
    <3>1. CASE UNCHANGED threads
      BY <2>3, <3>1 DEF RunsTheLoop, Alive
    <3>2. CASE StartRunner(TheLoop)
      <4>1. loop' = TheLoop
        BY <2>1 DEF LookUpLoop
      <4>2. \A t \in Runner : threads'[t] = threads[t] \/ threads'[t].on = TheLoop
        BY <3>2 DEF StartRunner, Base, KInv, Shape
      <4> QED BY <2>3, <4>1, <4>2 DEF RunsTheLoop, Alive
    <3> QED BY <2>1, <3>1, <3>2
  <2>5. NoRunner' /\ NobodyHoldsIt'
    BY <2>2 DEF NoRunner, NobodyHoldsIt, Letting, Raised
  <2>6. StopsAreTaken'
    <3>1. \A l \in Loop : ~Stops(l)
      BY <2>2 DEF Peace, StopsAreTaken, Raised
    <3> QED BY <1>1, <3>1 DEF Peace, StopsAreTaken, Stops, StopQueued, Callbacks
  <2> QED BY <2>4, <2>5, <2>6 DEF Peace
<1> QED BY <1>3, <1>4

\* Nothing drives the loop by now that the runner close() joins would collide with.
LEMMA NobodyInTheWay ==
  ASSUME Base, Peace, NEW t \in Runner, threads[t].state = "started", pc[Main] = "join",
         Alive(taken)
  PROVE  t = taken /\ ~Running(threads[t].on) /\ ~loops[threads[t].on].closed
<1>1. Alive(t)
  BY DEF Alive
<1>2. loop \in Loop /\ threads[t].on = loop
  BY <1>1, AliveOn
<1>3. t = taken
  <2>1. runner = None /\ None \notin Runner
    BY DEF Base, KInv, Stages, Stopping, None, Runner
  <2> QED BY <1>1, <2>1 DEF Base, KInv, RunnersAreKnown
<1>4. ~loops[loop].closed
  BY <1>2, LoopNumbers DEF Base, Ground, Placed
<1>5. ASSUME NEW d \in Caller \cup Runner, loops[loop].driver = d PROVE FALSE
  <2>1. DrivesIt(d, loop)
    BY <1>2, <1>5 DEF Base, Ground, Drivers
  <2>2. CASE d \in Request \cup Sender /\ pc[d] = "driving" /\ at[d] = loop
    BY <2>2, CallerIsSomebody DEF Peace, NobodyHoldsIt, HoldsLock
  <2>3. CASE d \in Runner /\ threads[d] = [state |-> "running", on |-> loop]
    <3>1. Alive(d) /\ d # t
      BY <2>3 DEF Alive
    <3>2. runner = None /\ None \notin Runner
      BY DEF Base, KInv, Stages, Stopping, None, Runner
    <3> QED BY <1>3, <2>3, <3>1, <3>2 DEF Base, KInv, RunnersAreKnown
  <2> QED BY <2>1, <2>2, <2>3 DEF DrivesIt
<1>6. ~Running(loop)
  BY <1>2, <1>5, LoopParts DEF Running, Base
<1> QED BY <1>2, <1>3, <1>4, <1>6

LEMMA RunnerPeace ==
  ASSUME Base, Peace, NEW t \in Runner, RunForever(t) \/ RunnerDies(t) \/ RunnerStops(t)
  PROVE  Peace'
<1>1. /\ UNCHANGED <<facade, runner, pc, at, taken>> /\ Alive(t) /\ threads[t].state # "unmade"
  BY DEF RunForever, RunnerDies, RunnerStops, closer, Alive
<1>2. threads[t].on \in Loop /\ threads[t].on = loop
  BY <1>1, AliveOn
<1>3. PICK label \in {"running", "dead"} : threads' = [threads EXCEPT ![t].state = label]
  BY DEF RunForever, RunnerDies, RunnerStops
<1>4. /\ \A u \in Runner : u # t => threads'[u] = threads[u]
      /\ threads'[t].on = threads[t].on /\ threads'[t].state = label
  BY <1>3 DEF Base, KInv, Shape
<1>5. \A u \in Runner : (Alive(u)' => Alive(u)) /\ threads'[u].on = threads[u].on
  BY <1>1, <1>4 DEF Alive
<1>6. RunsTheLoop' /\ NoRunner'
  BY <1>1, <1>5 DEF Peace, RunsTheLoop, NoRunner, facade
<1>7. NobodyHoldsIt'
  BY <1>1 DEF Peace, NobodyHoldsIt, facade, HoldsLock
<1>8. ASSUME NEW l \in Loop, Stops(l)
      PROVE  pc[Main] = "join" /\ l = loop /\ Alive(taken) /\ taken \in Runner
  <2>1. pc[Main] = "join" /\ l = loop /\ Alive(taken)
    BY <1>8 DEF Peace, StopsAreTaken
  <2>2. taken # None
    BY <1>1, <2>1 DEF Base, KInv, Stages, Stopping, RunnersAreKnown, None, Runner
  <2> QED BY <2>1, <2>2 DEF Base, KInv, Shape
<1>9. StopsAreTaken'
  <2>1. CASE RunForever(t) \/ RunnerDies(t)
    <3>1. Kept
      <4>1. UNCHANGED loops \/ loops' = [loops EXCEPT ![threads[t].on].driver = t]
        BY <2>1 DEF RunForever, RunnerDies
      <4> QED BY <1>2, <4>1, KeptBy DEF Base
    <3>2. Gentle
      BY <3>1, KeptGentle
    <3>3. ASSUME NEW l \in Loop, Stops(l)' PROVE pc'[Main] = "join" /\ l = loop' /\ Alive(taken)'
      <4>1. Stops(l)
        BY <3>2, <3>3 DEF Gentle, Stops
      <4>2. pc[Main] = "join" /\ l = loop /\ Alive(taken) /\ taken \in Runner
        BY <1>8, <4>1
      <4>3. taken # t \/ label = "running"
        <5>1. CASE RunForever(t)
          <6>1. ~Running(threads[t].on) /\ ~loops[threads[t].on].closed
            BY <4>2, <5>1, NobodyInTheWay DEF RunForever
          <6>2. threads' = [threads EXCEPT ![t].state = "running"]
            BY <5>1, <6>1 DEF RunForever
          <6> QED BY <1>4, <6>2 DEF Base, KInv, Shape
        <5>2. CASE RunnerDies(t)
          BY <5>2 DEF RunnerDies
        <5> QED BY <2>1, <5>1, <5>2
      <4>4. Alive(taken)'
        BY <1>1, <1>4, <4>2, <4>3 DEF Alive
      <4> QED BY <1>1, <4>2, <4>4 DEF facade
    <3> QED BY <3>2, <3>3 DEF Gentle, StopsAreTaken, Peace
  <2>2. CASE RunnerStops(t)
    <3>1. loops' = Left(loop) /\ loops[loop].stopping /\ loop \in Loop
      BY <1>2, <2>2 DEF RunnerStops
    <3>2. Kept
      BY <3>1, KeptBy DEF Base
    <3>3. Gentle
      BY <3>2, KeptGentle
    <3>4. \A l \in Loop : ~Stops(l)'
      <4>1. \A l \in Loop : Stops(l)' => l = loop
        BY <1>8, <3>3 DEF Gentle, Stops
      <4>2. ~StopQueued(loop) /\ ~loops'[loop].stopping
        BY <3>1, MakesLeft DEF Peace, StopsAreTaken, Base, Makes
      <4> QED BY <3>1, <3>3, <4>1, <4>2 DEF Gentle, Stops
    <3> QED BY <3>3, <3>4 DEF Gentle, Stops, StopsAreTaken
  <2> QED BY <2>1, <2>2
<1> QED BY <1>6, <1>7, <1>9 DEF Peace

LEMMA CallbackPeace == ASSUME Base, Peace, NEW l \in Loop, RunCallback(l) PROVE Peace'
<1> DEFINE b == Head(loops[l].ready)
<1>1. UNCHANGED <<facade, runners, pc, at, taken>>
  BY DEF RunCallback, closer
<1>2. PICK T, s : /\ Makes(l, loops[l].driver, loops[l].lock, Rest(l), T, s, loops[l].closed)
                  /\ s = (loops[l].stopping \/ b.do = "stop")
  BY CallbackMakes
<1>3. /\ b \in Callbacks(l)
      /\ \A c \in Callbacks(l)' : c \in Callbacks(l) \/ (Cancelling(l, c) /\ c.do = "cancel")
      /\ \A k \in Loop : k # l => Callbacks(k)' = Callbacks(k)
  BY TailCallbacks DEF Cancelling, Callback
<1>4. /\ Linked(Rest(l), NotBothStop)
      /\ b.do = "stop" => \A x \in Callbacks(l)' : x.do # "stop"
  <2> DEFINE q == Tail(loops[l].ready)
             c == Callback("cancel", b.job)
  <2>1. /\ loops[l].ready # <<>> /\ loops[l].ready \in Seq(CallbackType)
        /\ b \in CallbackType /\ q \in Seq(CallbackType)
    BY CallbackTypes, HeadTailProperties DEF RunCallback
  <2>2. Linked(q, NotBothStop) /\ \A x \in Range(q) : <<b, x>> \in NotBothStop
    BY <2>1, TailLinked DEF Peace, StopsAreTaken
  <2>3. loops'[l].ready = Rest(l)
    BY <1>2 DEF Makes
  <2>4. CASE b.do = "feed" /\ future[b.job] = "cancelled"
    <3>1. c \in CallbackType /\ c.do = "cancel"
      BY <2>1, <2>4 DEF CallbackType, Callback
    <3>2. \A x \in Range(q) : x \in CallbackType /\ <<x, c>> \in NotBothStop
      BY <2>2, <3>1 DEF NotBothStop
    <3>3. Linked(Append(q, c), NotBothStop)
      BY <2>1, <2>2, <3>1, <3>2, AppendLinked
    <3> QED BY <2>4, <3>3 DEF Rest
  <2>5. CASE ~(b.do = "feed" /\ future[b.job] = "cancelled")
    <3>1. Rest(l) = q
      BY <2>5 DEF Rest
    <3> QED BY <2>2, <2>3, <3>1 DEF Callbacks, NotBothStop
  <2> QED BY <2>4, <2>5
<1>5. /\ loops'[l].stopping = s /\ loops'[l].ready = Rest(l)
      /\ \A k \in Loop : k # l => loops'[k] = loops[k]
  BY <1>2 DEF Makes
<1> HIDE DEF b
<1>6. \A k \in Loop : Stops(k)' => Stops(k)
  BY <1>2, <1>3, <1>5 DEF Stops, StopQueued
<1>7. \A k \in Loop : loops'[k].stopping => ~StopQueued(k)'
  <2>1. CASE b.do = "stop"
    <3>1. ~StopQueued(l)'
      BY <1>4, <2>1 DEF StopQueued
    <3> QED BY <1>3, <1>5, <3>1 DEF Peace, StopsAreTaken, StopQueued
  <2>2. CASE b.do # "stop"
    BY <1>2, <1>3, <1>5, <2>2 DEF Peace, StopsAreTaken, StopQueued
  <2> QED BY <2>1, <2>2
<1>8. \A k \in Loop : Linked(loops'[k].ready, NotBothStop)
  BY <1>4, <1>5 DEF Peace, StopsAreTaken
<1>9. StopsAreTaken'
  BY <1>1, <1>6, <1>7, <1>8 DEF Peace, StopsAreTaken, Alive, runners, facade
<1> QED BY <1>1, <1>9 DEF Peace, RunsTheLoop, NoRunner, NobodyHoldsIt, facade, runners, Alive, HoldsLock

\* A gentle step of the loop itself or of close().
LEMMA PeaceMoves ==
  ASSUME Base, Peace, Gentle, UNCHANGED threads,
         Finds \/ (loop' = None /\ pc[Main] = "unset"),
         \A c \in Request \cup Sender : pc'[c] = pc[c] /\ at'[c] = at[c],
         pc'[Main] \in Letting => runner' = None,
         pc'[Main] \in {"wait", "stop", "join"} =>
           loop' = loop /\ \/ pc[Main] \in {"wait", "stop", "join"}
                           \/ \A c \in Request \cup Sender : HoldsLock(c) => at[c] # loop,
         pc[Main] = "join" => (pc'[Main] = "join" /\ taken' = taken) \/ ~Alive(taken)
  PROVE  Peace'
<1>1. RunsTheLoop'
  <2>1. CASE Finds
    <3>1. \A t \in Runner : Alive(t) => loop \in Loop /\ threads[t].on = loop
      BY AliveOn
    <3> QED BY <2>1, <3>1, LoopNumbers DEF RunsTheLoop, Alive, Finds
  <2>2. CASE pc[Main] = "unset"
    <3>1. \A t \in Runner : ~Alive(t)
      BY <2>2, NobodyAlive DEF Peace, NoRunner, Letting, Stopping
    <3> QED BY <3>1 DEF RunsTheLoop, Alive
  <2> QED BY <2>1, <2>2
<1>2. NobodyHoldsIt'
  <2>1. \A c \in Request \cup Sender : HoldsLock(c)' => HoldsLock(c) /\ at'[c] = at[c]
    BY CallerIsSomebody DEF HoldsLock
  <2> QED BY <2>1 DEF Peace, NobodyHoldsIt
<1>3. StopsAreTaken'
  <2>1. ASSUME NEW l \in Loop, Stops(l)' PROVE pc'[Main] = "join" /\ l = loop' /\ Alive(taken)'
    <3>1. Stops(l)
      BY <2>1 DEF Gentle, Stops
    <3>2. pc[Main] = "join" /\ l = loop /\ Alive(taken)
      BY <3>1 DEF Peace, StopsAreTaken
    <3>3. loop' = loop
      BY <3>2, LoopNumbers DEF Finds
    <3> QED BY <3>2, <3>3 DEF Alive
  <2> QED BY <2>1 DEF StopsAreTaken, Gentle, Peace
<1> QED BY <1>1, <1>2, <1>3 DEF Peace, NoRunner

LEMMA TurnsPeace ==
  ASSUME Base, Peace,
         \/ \E l \in Loop, j \in Job : FinishTask(l, j)
         \/ \E l \in Loop, s \in Reply : SendReply(l, s)
  PROVE  Peace'
<1>1. UNCHANGED <<facade, runners, pc, at, taken>>
  BY DEF FinishTask, SendReply, closer
<1>2. \A k \in Loop : loops'[k].ready = loops[k].ready /\ loops'[k].stopping = loops[k].stopping
  BY FinishMakes, ReplyMakes DEF Makes
<1>3. Gentle
  BY <1>2, QueueGentle
<1> QED BY <1>1, <1>3, PeaceMoves, FacadeFinds DEF Peace, NoRunner, runners, facade

LEMMA AwaitUpdatesGentle == ASSUME Base, Peace, AwaitUpdates PROVE Gentle
<1> DEFINE unfinished == {r \in snapshot : future[r] = "pending"}
<1>1. \A k \in Loop : /\ loops'[k].ready = loops[k].ready \o Cancels(k, unfinished)
                      /\ loops'[k].stopping = loops[k].stopping
  BY AwaitMakes
<1>2. unfinished \in SUBSET Request
  BY DEF Base, Typed
<1> HIDE DEF unfinished
<1> SUFFICES ASSUME NEW k \in Loop
             PROVE  (StopQueued(k)' => StopQueued(k)) /\ Linked(loops'[k].ready, NotBothStop)
  BY <1>1 DEF Gentle
<1> DEFINE s == loops[k].ready
           t == Cancels(k, unfinished)
<1>3. /\ s \in Seq(CallbackType) /\ Linked(s, NotBothStop) /\ Range(s) \subseteq CallbackType
  BY CallbackTypes DEF Peace, StopsAreTaken, Callbacks
<1>4. /\ t \in Seq(CallbackType) /\ \A i \in 1..Len(t) : t[i].do = "cancel"
  BY <1>2, CancelsOf DEF Base
<1>5. Callbacks(k)' = Range(s \o t)
  BY <1>1 DEF Callbacks
<1>6. Callbacks(k) = Range(s)
  BY DEF Callbacks
<1>7. loops'[k].ready = s \o t
  BY <1>1
<1> HIDE DEF s, t
<1>8. \A x \in Range(t) : x \in CallbackType /\ x.do = "cancel"
  <2>1. \A x \in Range(t) : \E i \in 1..Len(t) : x = t[i]
    BY <1>4, LenProperties DEF Range
  <2>2. \A i \in 1..Len(t) : t[i] \in CallbackType
    BY <1>4, ElementOfSeq
  <2> QED BY <1>4, <2>1, <2>2
<1>9. Range(s \o t) = Range(s) \cup Range(t)
  BY <1>3, <1>4, RangeConcatenation
<1>10. Linked(t, NotBothStop)
  <2>1. DOMAIN t = 1..Len(t) /\ \A i \in 1..Len(t) : t[i] \in CallbackType
    BY <1>4, LenProperties, ElementOfSeq
  <2> QED BY <1>4, <2>1 DEF Linked, NotBothStop
<1>11. Linked(s \o t, NotBothStop)
  <2>1. \A x \in Range(s), y \in Range(t) : <<x, y>> \in NotBothStop
    BY <1>3, <1>8 DEF NotBothStop
  <2> QED BY <1>3, <1>4, <1>10, <2>1, ConcatLinked
<1> QED BY <1>5, <1>6, <1>7, <1>8, <1>9, <1>11 DEF StopQueued

\* The stop is queued for the runner, once: there is no other.
LEMMA StopLoopPeace == ASSUME Base, Peace, StopLoop PROVE Peace'
<1>1. /\ pc[Main] = "stop" /\ Goto(Main, "join") /\ UNCHANGED <<facade, runners, at, taken>>
  BY StopLoopMakes DEF closer
<1>2. pc'[Main] = "join" /\ \A c \in Request \cup Sender : pc'[c] = pc[c]
  BY <1>1, GotoMoves, CallerIsSomebody DEF Base, Ground, Moves
<1>3. CASE UNCHANGED loops
  <2>1. Gentle
    BY <1>3, KeptBy, KeptGentle DEF Base
  <2> QED BY <1>1, <1>2, <2>1, PeaceMoves, FacadeFinds DEF Letting, runners, facade
<1> DEFINE b == Callback("stop", Main)
<1>4. CASE /\ loop \in Loop /\ Alive(taken) /\ b \in CallbackType
           /\ Makes(loop, loops[loop].driver, loops[loop].lock,
                    Append(loops[loop].ready, b), loops[loop].tasks,
                    loops[loop].stopping, loops[loop].closed)
  <2>1. \A l \in Loop : ~Stops(l)
    BY <1>1 DEF Peace, StopsAreTaken
  <2>2. /\ \A k \in Loop : k # loop => loops'[k] = loops[k]
        /\ loops'[loop].ready = Append(loops[loop].ready, b)
        /\ loops'[loop].stopping = loops[loop].stopping
    BY <1>4 DEF Makes
  <2>3. /\ loops[loop].ready \in Seq(CallbackType) /\ Callbacks(loop) \subseteq CallbackType
        /\ Linked(loops[loop].ready, NotBothStop)
    BY <1>4, CallbackTypes DEF Peace, StopsAreTaken
  <2>4. \A x \in Range(loops[loop].ready) : <<x, b>> \in NotBothStop
    BY <1>4, <2>1, <2>3 DEF Stops, StopQueued, Callbacks, NotBothStop
  <2>5. Linked(loops'[loop].ready, NotBothStop)
    BY <1>4, <2>2, <2>3, <2>4, AppendLinked
  <2> HIDE DEF b
  <2>6. StopsAreTaken'
    <3>1. \A k \in Loop : k # loop => ~Stops(k)' /\ Linked(loops'[k].ready, NotBothStop)
      BY <2>1, <2>2 DEF Stops, StopQueued, Callbacks, Peace, StopsAreTaken
    <3>2. ~loops'[loop].stopping
      BY <1>4, <2>1, <2>2 DEF Stops
    <3>3. Alive(taken)' /\ loop' = loop
      BY <1>1, <1>4 DEF Alive, runners, facade
    <3> QED BY <1>2, <1>4, <2>5, <3>1, <3>2, <3>3 DEF StopsAreTaken, Stops
  <2>7. NobodyHoldsIt'
    BY <1>1, <1>2, CallerIsSomebody DEF Peace, NobodyHoldsIt, HoldsLock, facade
  <2>8. RunsTheLoop' /\ NoRunner'
    BY <1>1, <1>2 DEF Peace, RunsTheLoop, NoRunner, Letting, Alive, runners, facade
  <2> QED BY <2>6, <2>7, <2>8 DEF Peace
<1> QED BY <1>3, <1>4, StopLoopMakes

LEMMA MainPeace ==
  ASSUME Base, Peace, EndPolling \/ CloseStep
  PROVE  Peace'
<1>0. ASSUME NEW label, Goto(Main, label)
      PROVE  pc'[Main] = label /\ \A c \in Request \cup Sender : pc'[c] = pc[c] /\ c # Main /\ c \in Caller
  BY <1>0, GotoMoves, CallerIsSomebody DEF Base, Ground, Moves
<1>1. CASE EndPolling
  <2>1. /\ pc[Main] = "polling" /\ Goto(Main, "open") /\ UNCHANGED <<at, facade, runners, taken>>
        /\ loop \in Loop /\ loops' = Left(loop)
    BY <1>1, WherePolls DEF EndPolling, closer
  <2>2. Gentle
    BY <2>1, KeptBy, KeptGentle DEF Base
  <2> QED BY <1>0, <2>1, <2>2, PeaceMoves, FacadeFinds DEF Letting, runners
<1>2. CASE RaiseFlags \/ LowerFlags
  <2>1. /\ UNCHANGED <<at, facade, runners, taken, loops>>
        /\ pc[Main] \in {"open", "raise", "lower", "lowered"}
        /\ \E label \in {"raise", "take", "lowered", "open"} : Goto(Main, label)
    BY <1>2 DEF RaiseFlags, LowerFlags, closer
  <2>2. Gentle
    BY <2>1, KeptBy, KeptGentle DEF Base
  <2> QED BY <1>0, <2>1, <2>2, PeaceMoves, FacadeFinds DEF Letting, runners
<1>3. CASE TakeRunner
  <2>1. /\ UNCHANGED <<at, facade, threads, loops>> /\ pc[Main] = "take" /\ runner' = None
        /\ \E label \in {"teardown", "snapshot"} : Goto(Main, label)
    BY <1>3 DEF TakeRunner
  <2>2. Gentle
    BY <2>1, KeptBy, KeptGentle DEF Base
  <2> QED BY <1>0, <2>1, <2>2, PeaceMoves, FacadeFinds
<1>4. CASE SnapshotUpdates
  <2>1. /\ UNCHANGED <<at, facade, runners, taken, loops>> /\ pc[Main] = "snapshot"
        /\ Goto(Main, "wait") /\ (loop # None => Free(loop))
    BY <1>4 DEF SnapshotUpdates
  <2>2. Gentle
    BY <2>1, KeptBy, KeptGentle DEF Base
  <2>3. \A c \in Request \cup Sender : HoldsLock(c) => at[c] # loop
    <3>1. \A c \in Request \cup Sender : HoldsLock(c) => at[c] \in Loop /\ loops[at[c]].lock = c
      BY CallerIsSomebody DEF Base, Ground, Locks
    <3> QED BY <2>1, <3>1, CallerIsSomebody, LoopNumbers DEF Free
  <2> QED BY <1>0, <2>1, <2>2, <2>3, PeaceMoves, FacadeFinds DEF Letting, runners, facade
<1>5. CASE AwaitUpdates
  <2>1. /\ UNCHANGED <<at, facade, runners, taken>> /\ pc[Main] = "wait" /\ Goto(Main, "stop")
    BY <1>5 DEF AwaitUpdates
  <2> QED BY <1>0, <1>5, <2>1, AwaitUpdatesGentle, PeaceMoves, FacadeFinds DEF Letting, runners, facade
<1>6. CASE StopLoop
  BY <1>6, StopLoopPeace
<1>7. CASE JoinRunner
  <2>1. /\ UNCHANGED <<at, facade, runners, loops>> /\ pc[Main] = "join" /\ ~Alive(taken)
        /\ Goto(Main, "teardown")
    BY <1>7 DEF JoinRunner
  <2>2. Gentle
    BY <2>1, KeptBy, KeptGentle DEF Base
  <2>3. runner = None
    BY <2>1 DEF Base, KInv, Stages, Stopping
  <2> QED BY <1>0, <2>1, <2>2, <2>3, PeaceMoves, FacadeFinds DEF runners
<1>8. CASE TearDown
  <2>1. /\ UNCHANGED <<runners, taken, loops>> /\ pc[Main] = "teardown"
        /\ (\A d \in Caller : d # Main => at'[d] = at[d])
        /\ \E label \in {"unset", "lower", "seize"} : Goto(Main, label)
    BY <1>8 DEF TearDown, closer, Base, Typed
  <2>2. Gentle
    BY <2>1, KeptBy, KeptGentle DEF Base
  <2>3. Finds
    <3>1. UNCHANGED facade \/ LookUpLoop
      BY <1>8 DEF TearDown
    <3> QED BY <3>1, FacadeFinds, LookUpFinds DEF Base
  <2>4. runner = None
    BY <2>1 DEF Peace, NoRunner, Letting
  <2> QED BY <1>0, <2>1, <2>2, <2>3, <2>4, PeaceMoves DEF runners
<1>9. CASE SeizeLoop \/ TurnLoop \/ BreakOff \/ CloseLoop \/ DrainSends
  <2>1. /\ UNCHANGED <<at, facade, runners, taken>>
        /\ pc[Main] \in {"seize", "turn", "drain", "release"}
        /\ \E label \in {"turn", "drain", "release", "lower", "unset"} : Goto(Main, label)
    BY <1>9 DEF SeizeLoop, TurnLoop, BreakOff, CloseLoop, DrainSends, closer
  <2>2. at[Main] \in Loop
    BY <2>1 DEF Base, Ground, Placed, Typed
  <2>3. Gentle
    <3>1. CASE DrainSends
      <4>1. \A k \in Loop : loops'[k].ready = loops[k].ready /\ loops'[k].stopping = loops[k].stopping
        BY <3>1, DrainMakes DEF Makes
      <4> QED BY <4>1, QueueGentle
    <3>2. CASE ~DrainSends
      <4>1. \/ UNCHANGED loops
            \/ loops' = [loops EXCEPT ![at[Main]].lock = Main, ![at[Main]].driver = Main]
            \/ loops' = Unlocked(at[Main])
            \/ loops' = [Unlocked(at[Main]) EXCEPT ![at[Main]].closed = TRUE] /\ pc'[Main] # pc[Main]
        BY <1>0, <1>9, <3>2 DEF SeizeLoop, TurnLoop, BreakOff, CloseLoop
      <4> QED BY <2>2, <4>1, KeptBy, KeptGentle DEF Base
    <3> QED BY <3>1, <3>2
  <2>4. runner = None
    BY <2>1 DEF Peace, NoRunner, Letting
  <2> QED BY <1>0, <2>1, <2>3, <2>4, PeaceMoves, FacadeFinds DEF runners
<1>10. CASE UnsetLoop
  <2>1. /\ UNCHANGED <<at, runners, taken, loops>> /\ pc[Main] = "unset" /\ loop' = None
        /\ Goto(Main, "lower")
    BY <1>10 DEF UnsetLoop, closer
  <2>2. Gentle
    BY <2>1, KeptBy, KeptGentle DEF Base
  <2>3. runner = None
    BY <2>1 DEF Peace, NoRunner, Letting
  <2> QED BY <1>0, <2>1, <2>2, <2>3, PeaceMoves DEF runners
<1> QED BY <1>1, <1>2, <1>3, <1>4, <1>5, <1>6, <1>7, <1>8, <1>9, <1>10 DEF CloseStep

LEMMA InitCalm == Init => Calm
<1> SUFFICES ASSUME Init PROVE Calm
  OBVIOUS
<1>1. \A t \in Runner : threads[t].state = "unmade"
  BY DEF Init
<1>2. \A l \in Loop : loops[l].ready = <<>> /\ loops[l].stopping = FALSE
  BY DEF Init
<1>3. \A l \in Loop : Callbacks(l) = {} /\ ~Stops(l)
  BY <1>2 DEF Callbacks, Range, Stops, StopQueued
<1>4. pc[Main] \in {"polling", "open"}
  BY CallerIsSomebody DEF Init
<1>5. StopsAreTaken
  BY <1>2, <1>3, EmptyLinked DEF StopsAreTaken
<1> QED BY <1>1, <1>4, <1>5 DEF Calm, Peace, RunsTheLoop, NoRunner, NobodyHoldsIt, Alive, Letting

\* late only grows: it counts the joins that timed out.
LEMMA LateGrows ==
  ASSUME Base, Jobs, Next
  PROVE  (~PutBackRunner => late' = late) /\ (PutBackRunner => late' # 0)
<1>1. late \in Nat
  BY BoundsAreKnown DEF Base, Typed
<1>2. CASE PutBackRunner
  BY <1>1, <1>2 DEF PutBackRunner
<1>3. CASE ~PutBackRunner
  <2>1. CASE \E r \in Request : EnsureLoopRuns(r) \/ RequestStep(r)
    BY <1>3, <2>1, RequestDoes DEF EnsureLoopRuns, closer
  <2>2. CASE \E s \in Sender : ScheduleSend(s) \/ SenderStep(s)
    BY <1>3, <2>2, SenderDoes DEF closer
  <2>3. CASE \/ \E t \in Runner : RunForever(t) \/ RunnerDies(t) \/ RunnerStops(t)
             \/ \E l \in Loop : RunCallback(l) \/ \E j \in Job : FinishTask(l, j)
             \/ \E l \in Loop, s \in Reply : SendReply(l, s)
    BY <1>3, <2>3 DEF RunForever, RunnerDies, RunnerStops, RunCallback, FinishTask, SendReply, closer
  <2>4. CASE EndPolling \/ CloseStep
    BY <1>3, <2>4 DEF CloseStep, EndPolling, RaiseFlags, LowerFlags, TakeRunner, SnapshotUpdates,
       AwaitUpdates, StopLoop, JoinRunner, TearDown, SeizeLoop, TurnLoop, DrainSends, BreakOff,
       CloseLoop, UnsetLoop, closer
  <2> QED BY <1>3, <2>1, <2>2, <2>3, <2>4 DEF Next
<1> QED BY <1>2, <1>3

LEMMA NextCalm == ASSUME Base, Jobs, Calm, [Next]_vars PROVE Calm'
<1>1. CASE UNCHANGED vars
  <2>1. UNCHANGED <<facade, runners, loops, pc, at, taken, late>>
    BY <1>1 DEF vars, closer
  <2>2. late = 0 => Gentle
    BY <2>1, KeptBy, KeptGentle DEF Base, Calm
  <2> QED BY <2>1, <2>2, PeaceMoves, FacadeFinds DEF Calm, Peace, NoRunner, runners, facade
<1>2. CASE Next
  <2>1. CASE PutBackRunner
    BY <1>2, <2>1, LateGrows DEF Calm
  <2>2. CASE ~PutBackRunner
    <3> SUFFICES ASSUME late' = 0 PROVE Peace'
      BY DEF Calm
    <3>1. late = 0 /\ Peace
      BY <1>2, <2>2, LateGrows DEF Calm
    <3> QED BY <1>2, <2>2, <3>1, EnsurePeace, RequestPeace, SenderPeace, RunnerPeace, CallbackPeace,
               TurnsPeace, MainPeace DEF Next
  <2> QED BY <2>1, <2>2
<1> QED BY <1>1, <1>2

\* No stop meant for a runner breaks off the close() that asked for it.
LEMMA CalmIsNotBrokenOff == ASSUME Base, Calm PROVE TeardownIsNotBrokenOff
<1> SUFFICES ASSUME late = 0, pc[Main] \in {"turn", "drain", "release"}, loops[at[Main]].stopping
             PROVE  FALSE
  BY DEF TeardownIsNotBrokenOff
<1>1. at[Main] \in Loop /\ Stops(at[Main])
  BY Seized DEF Stops
<1> QED BY <1>1 DEF Calm, Peace, StopsAreTaken
-----------------------------------------------------------------------------
(***************************************************************************)
(* What a 200 says.                                                        *)
(***************************************************************************)
LEMMA RequestAnswers ==
  ASSUME Base, Jobs, Calm, late = 0, NEW r \in Request, RequestStep(r)
  PROVE  /\ handled' = handled /\ collided \subseteq collided'
         /\ \A q \in Request : q # r => answer'[q] = answer[q]
         /\ answer'[r] = "200" => answer[r] = "200" \/ r \in handled \cup collided'
<1>0. answer \in [Request -> {"none", "200", "503"}]
  BY DEF Base, Typed
<1>1. CASE AwaitRunner(r) \/ CaptureLoop(r) \/ ForgetUpdate(r)
  BY <1>1 DEF AwaitRunner, CaptureLoop, ForgetUpdate, history
<1>2. CASE SubmitUpdate(r)
  BY <1>0, <1>2 DEF SubmitUpdate, Answer, history
<1>3. CASE DriveUpdate(r)
  <2>1. /\ UNCHANGED handled
        /\ \/ collided' = collided \cup {r} /\ Answer(r, "200")
           \/ UNCHANGED <<collided, answer>>
    BY <1>3, DriveUpdateMakes
  <2> QED BY <1>0, <2>1 DEF Answer
<1>4. CASE UpdateDriven(r)
  <2>1. /\ pc[r] = "driving" /\ UNCHANGED <<handled, collided>> /\ Answer(r, "200")
        /\ r \notin loops[at[r]].tasks \/ loops[at[r]].stopping
    BY <1>4 DEF UpdateDriven
  <2>2. at[r] \in Loop
    BY <2>1, Locked
  <2>3. ~loops[at[r]].stopping
    <3>1. ASSUME loops[at[r]].stopping PROVE FALSE
      <4>1. pc[Main] = "join" /\ at[r] = loop
        BY <2>2, <3>1 DEF Calm, Peace, StopsAreTaken, Stops
      <4>2. HoldsLock(r)
        BY <2>1, CallerIsSomebody DEF HoldsLock
      <4> QED BY <4>1, <4>2 DEF Calm, Peace, NobodyHoldsIt
    <3> QED BY <3>1
  <2>4. r \in handled
    BY <2>1, <2>3 DEF Jobs, Awaited
  <2> QED BY <1>0, <2>1, <2>4 DEF Answer
<1>5. CASE AwaitUpdate(r)
  <2>1. /\ pc[r] = "result" /\ future[r] # "pending" /\ UNCHANGED <<handled, collided>>
        /\ Answer(r, IF future[r] = "cancelled" THEN "503" ELSE "200")
    BY <1>5 DEF AwaitUpdate
  <2>2. future[r] # "cancelled" => r \in handled
    BY <2>1 DEF Jobs, Awaited, Base, Typed
  <2> QED BY <1>0, <2>1, <2>2 DEF Answer
<1> QED BY <1>1, <1>2, <1>3, <1>4, <1>5 DEF RequestStep

LEMMA NextOk == ASSUME Base, Jobs, Calm, OkMeansHandled, [Next]_vars PROVE OkMeansHandled'
<1>1. CASE UNCHANGED vars
  BY <1>1 DEF vars, history, closer, OkMeansHandled
<1>2. CASE Next
  <2> SUFFICES ASSUME late' = 0
               PROVE  \A r \in Request : answer'[r] = "200" => r \in handled' \cup collided'
    BY DEF OkMeansHandled
  <2>0. late = 0 /\ \A r \in Request : answer[r] = "200" => r \in handled \cup collided
    <3>1. late = 0
      BY <1>2, LateGrows
    <3> QED BY <3>1 DEF OkMeansHandled
  <2>1. CASE \E r \in Request : RequestStep(r)
    BY <2>0, <2>1, RequestAnswers
  <2>2. CASE \E r \in Request : EnsureLoopRuns(r)
    BY <2>0, <2>2 DEF EnsureLoopRuns, history
  <2>3. CASE \E s \in Sender : ScheduleSend(s) \/ SenderStep(s)
    <3>1. UNCHANGED <<answer, handled>> /\ collided \subseteq collided'
      BY <2>3 DEF ScheduleSend, SenderStep, LockSend, DriveSend, SendDriven, HandOff, history
    <3> QED BY <2>0, <3>1
  <2>4. CASE \/ \E t \in Runner : RunForever(t) \/ RunnerDies(t) \/ RunnerStops(t)
             \/ \E l \in Loop : RunCallback(l) \/ \E j \in Job : FinishTask(l, j)
             \/ \E l \in Loop, s \in Reply : SendReply(l, s)
    <3>1. UNCHANGED answer /\ handled \subseteq handled' /\ collided \subseteq collided'
      BY <2>4 DEF RunForever, RunnerDies, RunnerStops, RunCallback, FinishTask, SendReply, history
    <3> QED BY <2>0, <3>1
  <2>5. CASE EndPolling \/ CloseStep \/ PutBackRunner
    <3>1. UNCHANGED <<answer, handled, collided>>
      BY <2>5 DEF CloseStep, EndPolling, RaiseFlags, LowerFlags, TakeRunner, SnapshotUpdates,
         AwaitUpdates, StopLoop, JoinRunner, TearDown, SeizeLoop, TurnLoop, DrainSends, BreakOff,
         CloseLoop, UnsetLoop, PutBackRunner, history
    <3> QED BY <2>0, <3>1
  <2> QED BY <1>2, <2>1, <2>2, <2>3, <2>4, <2>5 DEF Next
<1> QED BY <1>1, <1>2

LEMMA InitOk == Init => OkMeansHandled
BY DEF Init, OkMeansHandled
-----------------------------------------------------------------------------
(***************************************************************************)
(* Updates that are waited for.                                            *)
(***************************************************************************)
RunsOn(t, l) == threads[t] = [state |-> "running", on |-> l]

\* A runner runs the loop that has the update, until close() has cancelled it.
Fed(r) ==
  /\ \E t \in Runner : RunsOn(t, at[r])
  /\ r \in updates
  /\ pc[Main] = "wait" => r \in snapshot
  /\ pc[Main] \notin {"stop", "join"}

Waited == late = 0 => \A r \in Request : future[r] = "pending" => Fed(r)

\* A step that ends nobody's run, and leaves what is waited for as it is.
LEMMA FedStays ==
  ASSUME NEW r, Fed(r), at'[r] = at[r], r \in updates',
         \A t \in Runner : threads[t].state = "running" => threads'[t] = threads[t],
         \/ pc'[Main] = pc[Main] /\ snapshot' = snapshot
         \/ pc'[Main] \notin {"wait", "stop", "join"}
         \/ pc'[Main] = "wait" /\ snapshot' = updates
  PROVE  Fed(r)'
BY DEF Fed, RunsOn

LEMMA RequestWaited ==
  ASSUME Base, Jobs, \A r \in Request : future[r] = "pending" => Fed(r),
         NEW r \in Request, RequestStep(r)
  PROVE  \A q \in Request : future'[q] = "pending" => Fed(q)'
<1>1. /\ UNCHANGED <<runners, closer>> /\ Alone(r)
      /\ \/ UNCHANGED future /\ (UNCHANGED updates \/ (pc[r] = "forget" /\ updates' = updates \ {r}))
         \/ /\ future' = [future EXCEPT ![r] = "pending"] /\ updates' = updates \cup {r}
            /\ pc[r] = "submit" /\ at[r] \in Loop /\ ~closing /\ Running(at[r]) /\ Free(at[r])
            /\ UNCHANGED at
  BY RequestDoes
<1>2. pc'[Main] = pc[Main] /\ UNCHANGED <<threads, snapshot>>
  BY <1>1, CallerIsSomebody DEF Alone, runners, closer
<1>3. ASSUME NEW q \in Request, future[q] = "pending", at'[q] = at[q], q \in updates'
      PROVE  Fed(q)'
  BY <1>2, <1>3, FedStays
<1>4. \A q \in Request : future[q] = "pending" => q \in updates /\ pc[q] = "result"
  BY DEF Fed, Jobs, Awaited
<1>5. CASE UNCHANGED future /\ (UNCHANGED updates \/ (pc[r] = "forget" /\ updates' = updates \ {r}))
  <2>1. \A q \in Request : future[q] = "pending" => at'[q] = at[q]
    <3> SUFFICES ASSUME NEW q \in Request, future[q] = "pending" PROVE at'[q] = at[q]
      OBVIOUS
    <3>1. CASE q # r
      BY <1>1, <3>1, CallerIsSomebody DEF Alone
    <3>2. CASE q = r
      <4>1. pc[r] = "result"
        BY <1>4, <3>2
      <4> QED BY <3>2, <4>1 DEF RequestStep, AwaitRunner, CaptureLoop, SubmitUpdate, DriveUpdate,
                 UpdateDriven, AwaitUpdate, ForgetUpdate
    <3> QED BY <3>1, <3>2
  <2> QED BY <1>3, <1>4, <1>5, <2>1
<1>6. CASE /\ future' = [future EXCEPT ![r] = "pending"] /\ updates' = updates \cup {r}
           /\ pc[r] = "submit" /\ at[r] \in Loop /\ ~closing /\ Running(at[r]) /\ Free(at[r])
           /\ UNCHANGED at
  <2>1. \A q \in Request : q # r /\ future'[q] = "pending" => Fed(q)'
    BY <1>3, <1>4, <1>6 DEF Base, Typed
  <2>2. \E t \in Runner : loops[at[r]].driver = t
    <3>1. PICK d \in Caller \cup Runner : loops[at[r]].driver = d /\ DrivesIt(d, at[r])
      BY <1>6, LoopParts DEF Base, Ground, Drivers, Running
    <3>2. d \notin Request \cup Sender
      BY <1>6, <3>1, TypeOKHolds, CallerIsSomebody DEF TypeOK, Free
    <3>3. d # Main
      <4>1. pc[Main] # "polling"
        BY <1>6 DEF Base, Ground, Flow
      <4>2. pc[Main] \notin {"turn", "drain", "release"}
        BY <1>6 DEF Base, Ground, Flow, Raised
      <4> QED BY <3>1, <4>1, <4>2, CallerIsSomebody DEF DrivesIt
    <3> QED BY <3>1, <3>2, <3>3, CallerIsSomebody
  <2>3. PICK t \in Runner : RunsOn(t, at[r])
    BY <1>6, <2>2, CallerIsSomebody DEF Base, Ground, Drivers, DrivesIt, RunsOn
  <2>4. pc[Main] \notin {"wait", "stop", "join"}
    BY <1>6 DEF Base, Ground, Flow, Raised
  <2>5. Fed(r)'
    BY <1>2, <1>6, <2>3, <2>4 DEF Fed, RunsOn
  <2> QED BY <2>1, <2>5
<1> QED BY <1>1, <1>5, <1>6

LEMMA EnsureWaited ==
  ASSUME Base, Jobs, \A r \in Request : future[r] = "pending" => Fed(r),
         NEW r \in Request, EnsureLoopRuns(r)
  PROVE  \A q \in Request : future'[q] = "pending" => Fed(q)'
<1>1. /\ UNCHANGED <<flags, at, waiting, closer>> /\ \E label : Goto(r, label)
  BY DEF EnsureLoopRuns
<1>2. pc'[Main] = pc[Main]
  BY <1>1, GotoMoves, CallerIsSomebody DEF Base, Ground, Moves
<1>3. \A t \in Runner : threads[t].state = "running" => threads'[t] = threads[t]
  <2>1. CASE UNCHANGED threads
    BY <2>1
  <2>2. CASE StartRunner(TheLoop)
    <3>1. Unmade # {} /\ Unmade \subseteq Runner
      BY <2>2 DEF StartRunner, Unmade
    <3>2. Min(Unmade) \in Unmade
      BY <3>1, MinOfNats, Runner \subseteq Nat DEF Runner
    <3>3. PICK t \in Unmade : threads' = [threads EXCEPT ![t] = [state |-> "started", on |-> TheLoop]]
      BY <2>2, <3>2 DEF StartRunner
    <3> QED BY <3>3 DEF Unmade, Base, KInv, Shape
  <2> QED BY <2>1, <2>2 DEF EnsureLoopRuns, runners
<1> QED BY <1>1, <1>2, <1>3, FedStays DEF waiting, closer, Fed

LEMMA RunnerWaited ==
  ASSUME Base, Jobs, Peace, \A r \in Request : future[r] = "pending" => Fed(r),
         NEW t \in Runner, RunForever(t) \/ RunnerDies(t) \/ RunnerStops(t)
  PROVE  \A q \in Request : future'[q] = "pending" => Fed(q)'
<1>1. UNCHANGED <<pc, at, waiting, closer>>
  BY DEF RunForever, RunnerDies, RunnerStops
<1>2. CASE RunForever(t) \/ RunnerDies(t)
  <2>1. threads[t].state = "started" /\ \E label : threads' = [threads EXCEPT ![t].state = label]
    BY <1>2 DEF RunForever, RunnerDies
  <2>2. \A u \in Runner : threads[u].state = "running" => threads'[u] = threads[u]
    BY <2>1 DEF Base, KInv, Shape
  <2> QED BY <1>1, <2>2, FedStays DEF waiting, closer, Fed
<1>3. CASE RunnerStops(t)
  <2>1. \A r \in Request : future[r] # "pending"
    <3>1. loops[threads[t].on].stopping /\ threads[t].on \in Loop
      BY <1>3 DEF RunnerStops, Base, Ground, Placed, KInv, Shape
    <3>2. pc[Main] = "join"
      BY <3>1 DEF Peace, StopsAreTaken, Stops
    <3> QED BY <3>2 DEF Fed
  <2> QED BY <1>1, <2>1 DEF waiting
<1> QED BY <1>2, <1>3

\* close() cancels what it has noted, and that is all there is to cancel.
LEMMA MainWaited ==
  ASSUME Base, Jobs, \A r \in Request : future[r] = "pending" => Fed(r), EndPolling \/ CloseStep
  PROVE  \A q \in Request : future'[q] = "pending" => Fed(q)'
<1>0. ASSUME NEW label, Goto(Main, label) PROVE pc'[Main] = label
  BY <1>0, CallerIsSomebody DEF Base, Ground, Flow, Goto
<1>1. UNCHANGED <<threads, updates>> /\ \A r \in Request : at'[r] = at[r]
  <2>1. CASE TearDown
    BY <2>1, CallerIsSomebody DEF TearDown, Base, Typed, runners, waiting
  <2>2. CASE ~TearDown
    BY <2>2 DEF EndPolling, CloseStep, RaiseFlags, LowerFlags, TakeRunner, SnapshotUpdates,
       AwaitUpdates, StopLoop, JoinRunner, SeizeLoop, TurnLoop, DrainSends, BreakOff, CloseLoop,
       UnsetLoop, runners, waiting
  <2> QED BY <2>1, <2>2
<1>2. CASE AwaitUpdates
  <2>1. pc[Main] = "wait"
        /\ future' = [r \in Request |-> IF r \in {q \in snapshot : future[q] = "pending"}
                                        THEN "cancelled" ELSE future[r]]
    BY <1>2 DEF AwaitUpdates
  <2>2. \A r \in Request : future'[r] # "pending"
    BY <2>1 DEF Fed
  <2> QED BY <2>2
<1>3. CASE ~AwaitUpdates
  <2>1. UNCHANGED future
    BY <1>3 DEF EndPolling, CloseStep, RaiseFlags, LowerFlags, TakeRunner, SnapshotUpdates,
       StopLoop, JoinRunner, TearDown, SeizeLoop, TurnLoop, DrainSends, BreakOff, CloseLoop,
       UnsetLoop, waiting
  <2>2. CASE StopLoop
    <3>1. pc[Main] = "stop"
      BY <2>2 DEF StopLoop
    <3> QED BY <2>1, <3>1 DEF Fed
  <2>3. CASE SnapshotUpdates
    <3>1. pc'[Main] = "wait" /\ snapshot' = updates
      BY <1>0, <2>3 DEF SnapshotUpdates
    <3> QED BY <1>1, <2>1, <3>1, FedStays DEF Fed
  <2>4. CASE ~StopLoop /\ ~SnapshotUpdates
    <3>1. pc'[Main] \notin {"wait", "stop", "join"}
      BY <1>0, <1>3, <2>4 DEF EndPolling, CloseStep, RaiseFlags, LowerFlags, TakeRunner, JoinRunner,
         TearDown, SeizeLoop, TurnLoop, DrainSends, BreakOff, CloseLoop, UnsetLoop
    <3> QED BY <1>1, <2>1, <3>1, FedStays DEF Fed
  <2> QED BY <2>2, <2>3, <2>4
<1> QED BY <1>2, <1>3

LEMMA NextWaited == ASSUME Base, Jobs, Calm, Waited, [Next]_vars PROVE Waited'
<1>1. CASE UNCHANGED vars
  <2>1. UNCHANGED <<pc, at, late, threads, updates, future, snapshot>>
    BY <1>1 DEF vars, closer, waiting, runners
  <2> QED BY <2>1 DEF Waited, Fed, RunsOn
<1>2. CASE Next
  <2>1. CASE PutBackRunner
    BY <1>2, <2>1, LateGrows DEF Waited
  <2>2. CASE ~PutBackRunner
    <3> SUFFICES ASSUME late' = 0
                 PROVE  \A r \in Request : future'[r] = "pending" => Fed(r)'
      BY DEF Waited
    <3>1. late = 0 /\ Peace /\ \A r \in Request : future[r] = "pending" => Fed(r)
      BY <1>2, <2>2, LateGrows DEF Calm, Waited
    <3>2. CASE \E r \in Request : EnsureLoopRuns(r) \/ RequestStep(r)
      BY <3>1, <3>2, EnsureWaited, RequestWaited
    <3>3. CASE \E s \in Sender : ScheduleSend(s) \/ SenderStep(s)
      <4>1. PICK s \in Sender : ScheduleSend(s) \/ SenderStep(s)
        BY <3>3
      <4>2. UNCHANGED <<runners, closer, future, updates>> /\ Alone(s)
        BY <4>1, SenderDoes
      <4>3. pc'[Main] = pc[Main] /\ UNCHANGED <<threads, snapshot>> /\ \A r \in Request : at'[r] = at[r]
        BY <4>2, CallerIsSomebody DEF Alone, runners, closer
      <4> QED BY <3>1, <4>2, <4>3, FedStays DEF Fed
    <3>4. CASE \E t \in Runner : RunForever(t) \/ RunnerDies(t) \/ RunnerStops(t)
      BY <3>1, <3>4, RunnerWaited
    <3>5. CASE \/ \E l \in Loop : RunCallback(l) \/ \E j \in Job : FinishTask(l, j)
               \/ \E l \in Loop, s \in Reply : SendReply(l, s)
      <4>1. UNCHANGED <<pc, at, runners, updates, closer>>
        BY <3>5 DEF RunCallback, FinishTask, SendReply, waiting
      <4>2. \A r \in Request : future'[r] = "pending" => future[r] = "pending"
        BY <3>5 DEF RunCallback, FinishTask, SendReply, waiting, Base, Typed
      <4> QED BY <3>1, <4>1, <4>2, FedStays DEF Fed, runners, closer
    <3>6. CASE EndPolling \/ CloseStep
      BY <3>1, <3>6, MainWaited
    <3> QED BY <1>2, <2>2, <3>2, <3>3, <3>4, <3>5, <3>6 DEF Next
  <2> QED BY <2>1, <2>2
<1> QED BY <1>1, <1>2

LEMMA InitWaited == Init => Waited
BY DEF Init, Waited

\* What is waited for is on a loop that runs, so on none that is closed.
LEMMA ClosedOverNoUpdateHolds ==
  ASSUME Base, Jobs, Waited, late = 0, NEW l \in Loop, loops[l].closed
  PROVE  ClosedOverNoUpdate(l)
<1> SUFFICES ASSUME NEW r \in Request, future[r] = "pending",
                    r \in loops[l].tasks \/ Callback("feed", r) \in {loops[l].ready[i] : i \in DOMAIN loops[l].ready}
             PROVE  FALSE
  BY DEF ClosedOverNoUpdate
<1>1. at[r] = l
  <2>1. CASE r \in loops[l].tasks
    BY <2>1 DEF Jobs, Tasked
  <2>2. CASE Callback("feed", r) \in {loops[l].ready[i] : i \in DOMAIN loops[l].ready}
    <3>1. Callback("feed", r) \in Callbacks(l)
      BY <2>2 DEF Callbacks, Range
    <3> QED BY <3>1 DEF Jobs, Asked, Callback
  <2> QED BY <2>1, <2>2
<1>2. PICK t \in Runner : RunsOn(t, l)
  BY <1>1 DEF Waited, Fed
<1>3. loops[l].driver = t
  BY <1>2 DEF Base, Ground, Drivers, DrivesIt, RunsOn
<1> QED BY <1>3, CallerIsSomebody DEF Base, Ground, Drivers
-----------------------------------------------------------------------------
(***************************************************************************)
(* Sends that were handed over.                                            *)
(***************************************************************************)
NoStart(l) == \A c \in Callbacks(l) : c.do # "start"

\* No sender has anything there, nor is on its way there.
SenderFree(l) ==
  NoStart(l) /\ \A s \in Sender : pc[s] \in {"lock", "drive", "driving"} => at[s] # l

\* Where close() has done with the loop and drains no more.
Leaving == pc[Main] = "unset" \/ (pc[Main] = "lower" /\ ~draining /\ late = 0)

\* A loop that was left open, and one made since, is nobody's to send on.
LeftAlone ==
  \A l \in Loop : (l # loop \/ Leaving) /\ ~loops[l].closed => SenderFree(l)

\* The loops that have to keep what the drain has made of them.
Sealed(l) == loops[l].closed \/ (pc[Main] = "release" /\ l = at[Main])
TurnedOut(l) == Sealed(l) \/ (pc[Main] = "drain" /\ l = at[Main])

\* The drain's first turn leaves no callback of a send, and the drain no task.
Drained ==
  \A l \in Loop :
    /\ TurnedOut(l) => NoStart(l)
    /\ Sealed(l) => loops[l].tasks \cap accepted = {}

\* Who is refused is told so, and is done.
RefusedAreDone == \A s \in Sender : outcome[s] = "refused" => pc[s] = "done"

Sends == LeftAlone /\ Drained /\ RefusedAreDone

\* A step of anybody but a sender.
LEMMA SendsBy ==
  ASSUME Base, Sends,
         \A s \in Sender : pc'[s] = pc[s] /\ at'[s] = at[s],
         \A s \in Sender : outcome'[s] = "refused" => outcome[s] = "refused" \/ pc[s] = "done",
         \A k \in Loop : NoStart(k) => NoStart(k)',
         \A k \in Loop : Sealed(k) => loops'[k].tasks \cap accepted' \subseteq loops[k].tasks \cap accepted,
         \A k \in Loop : loops[k].closed => loops'[k].closed,
         \A k \in Loop : loops'[k].closed => loops[k].closed \/ (pc[Main] = "release" /\ k = at[Main]),
         Finds \/ (loop' = None /\ pc[Main] = "unset"),
         \/ pc'[Main] = pc[Main] /\ at'[Main] = at[Main] /\ UNCHANGED <<draining, late>> /\ Finds
         \/ \A k \in Loop :
              /\ Leaving' /\ k = loop' => loops'[k].closed
              /\ pc'[Main] \in {"drain", "release"} /\ k = at'[Main] => NoStart(k)'
              /\ pc'[Main] = "release" /\ k = at'[Main] => loops'[k].tasks \cap accepted' = {}
  PROVE  Sends'
<1>1. \A k \in Loop : SenderFree(k) => SenderFree(k)'
  BY DEF SenderFree
<1>2. ASSUME NEW l \in Loop, l # loop', ~loops'[l].closed PROVE SenderFree(l)'
  <2>1. ~loops[l].closed
    BY <1>2
  <2>2. l # loop \/ (l = loop /\ pc[Main] = "unset")
    BY <1>2, LoopNumbers DEF Finds
  <2>3. SenderFree(l)
    BY <2>1, <2>2 DEF Sends, LeftAlone, Leaving
  <2> QED BY <1>1, <2>3
<1>3. ASSUME NEW l \in Loop, l = loop', Leaving', ~loops'[l].closed PROVE SenderFree(l)'
  <2>1. Leaving
    BY <1>3 DEF Leaving
  <2>2. ~loops[l].closed
    BY <1>3
  <2>3. SenderFree(l)
    BY <2>1, <2>2 DEF Sends, LeftAlone
  <2> QED BY <1>1, <2>3
<1>4. Drained'
  <2> SUFFICES ASSUME NEW l \in Loop
               PROVE  /\ TurnedOut(l)' => NoStart(l)'
                      /\ Sealed(l)' => loops'[l].tasks \cap accepted' = {}
    BY DEF Drained
  <2>1. loops'[l].closed => Sealed(l)
    BY DEF Sealed
  <2>2. loops'[l].closed => NoStart(l)' /\ loops'[l].tasks \cap accepted' = {}
    BY <2>1 DEF Sends, Drained, TurnedOut
  <2>3. ASSUME pc'[Main] \in {"drain", "release"}, l = at'[Main]
        PROVE  NoStart(l)' /\ (pc'[Main] = "release" => loops'[l].tasks \cap accepted' = {})
    <3>1. CASE pc'[Main] = pc[Main] /\ at'[Main] = at[Main]
      BY <2>3, <3>1 DEF Sends, Drained, TurnedOut, Sealed
    <3> QED BY <2>3, <3>1
  <2> QED BY <2>2, <2>3 DEF Sealed, TurnedOut
<1>5. RefusedAreDone'
  BY DEF Sends, RefusedAreDone
<1>6. LeftAlone'
  BY <1>2, <1>3 DEF LeftAlone
<1> QED BY <1>4, <1>5, <1>6 DEF Sends

\* Queueing anything but a send's callback, or nothing.
LEMMA NoStartStays ==
  ASSUME Base, NEW k \in Loop,
         \/ loops'[k].ready = loops[k].ready
         \/ \E b \in CallbackType : b.do # "start" /\ loops'[k].ready = Append(loops[k].ready, b)
  PROVE  NoStart(k) => NoStart(k)'
<1>1. CASE loops'[k].ready = loops[k].ready
  BY <1>1 DEF NoStart, Callbacks
<1>2. ASSUME NEW b \in CallbackType, b.do # "start", loops'[k].ready = Append(loops[k].ready, b)
      PROVE  NoStart(k) => NoStart(k)'
  <2>1. Callbacks(k)' = Callbacks(k) \cup {b}
    BY <1>2, CallbackTypes, AppendRange DEF Callbacks
  <2> QED BY <1>2, <2>1 DEF NoStart
<1> QED BY <1>1, <1>2

LEMMA RequestsNotAccepted == ASSUME Base PROVE accepted \cap Request = {}
  BY JobsAreDisjoint DEF Base, Typed

LEMMA RequestSends == ASSUME Base, Sends, NEW r \in Request, RequestStep(r) PROVE Sends'
<1>1. /\ UNCHANGED <<flags, closer, outcome, accepted>> /\ Finds
      /\ Alone(r) /\ \A k \in Loop : RequestEffect(r, k)
  BY RequestDoes
<1>2. /\ pc'[Main] = pc[Main] /\ at'[Main] = at[Main] /\ UNCHANGED <<draining, late>>
      /\ \A s \in Sender : pc'[s] = pc[s] /\ at'[s] = at[s]
  BY <1>1, CallerIsSomebody DEF Alone, flags, closer
<1>3. Callback("feed", r) \in CallbackType /\ Callback("feed", r).do # "start"
  BY DEF Callback, CallbackType
<1>4. \A k \in Loop : NoStart(k) => NoStart(k)'
  BY <1>1, <1>3, NoStartStays DEF RequestEffect
<1>5. \A k \in Loop : /\ loops'[k].tasks \cap accepted' \subseteq loops[k].tasks \cap accepted
                      /\ loops'[k].closed = loops[k].closed
  BY <1>1, RequestsNotAccepted DEF RequestEffect
<1> QED BY <1>1, <1>2, <1>4, <1>5, SendsBy

LEMMA EnsureSends == ASSUME Base, Sends, NEW r \in Request, EnsureLoopRuns(r) PROVE Sends'
<1>1. UNCHANGED <<loops, draining, at, late, outcome, accepted>> /\ \E label : Goto(r, label)
  BY DEF EnsureLoopRuns, flags, closer, history
<1>2. Finds
  <2>1. LookUpLoop \/ UNCHANGED facade
    BY DEF EnsureLoopRuns
  <2> QED BY <2>1, LookUpFinds, FacadeFinds DEF Base
<1>3. pc'[Main] = pc[Main] /\ \A s \in Sender : pc'[s] = pc[s]
  BY <1>1, GotoMoves, CallerIsSomebody DEF Base, Ground, Moves
<1> QED BY <1>1, <1>2, <1>3, NoStartStays, SendsBy

LEMMA SenderSends ==
  ASSUME Base, Jobs, Sends, NEW s \in Sender, ScheduleSend(s) \/ SenderStep(s)
  PROVE  Sends'
<1>1. /\ UNCHANGED <<flags, closer>> /\ Finds
      /\ Alone(s) /\ (\A k \in Loop : SenderEffect(s, k)) /\ SenderGoes(s)
  BY SenderDoes
<1>2. /\ pc'[Main] = pc[Main] /\ at'[Main] = at[Main] /\ UNCHANGED <<closing, draining, late>>
      /\ \A c \in Sender : c # s => pc'[c] = pc[c] /\ at'[c] = at[c]
  BY <1>1, CallerIsSomebody DEF Alone, flags, closer
<1>3. ASSUME NEW k \in Loop, NoStart(k),
             ~(pc[s] \in {"lock", "drive"} /\ at[s] = k /\ ~loops[k].closed /\ loops[k].lock \in {s, Nobody})
      PROVE  NoStart(k)'
  <2>1. loops'[k].ready = loops[k].ready
    BY <1>1, <1>3 DEF SenderEffect
  <2> QED BY <1>3, <2>1, NoStartStays
<1>4. ASSUME NEW k \in Loop, SenderFree(k), k # loop' \/ closing
      PROVE  SenderFree(k)'
  <2>1. ~(pc[s] \in {"lock", "drive", "driving"} /\ at[s] = k)
    BY <1>4 DEF SenderFree
  <2>2. NoStart(k)'
    BY <1>3, <1>4, <2>1 DEF SenderFree
  <2>3. pc'[s] \in {"lock", "drive", "driving"} => at'[s] # k
    BY <1>1, <1>4, <2>1 DEF SenderGoes
  <2> QED BY <1>2, <1>4, <2>2, <2>3 DEF SenderFree
<1>5. \A k \in Loop : /\ loops'[k].closed = loops[k].closed
                      /\ loops'[k].tasks \cap accepted' \subseteq loops[k].tasks \cap accepted
  <2> SUFFICES ASSUME NEW k \in Loop
               PROVE  loops'[k].tasks \cap accepted' \subseteq loops[k].tasks \cap accepted
    BY <1>1 DEF SenderEffect
  <2>1. accepted' # accepted => s \notin loops[k].tasks /\ loops'[k].tasks = loops[k].tasks
    <3> SUFFICES ASSUME accepted' # accepted
                 PROVE  s \notin loops[k].tasks /\ loops'[k].tasks = loops[k].tasks
      OBVIOUS
    <3>1. pc[s] \in {"lock", "drive"} /\ s \in accepted'
      BY <1>1 DEF SenderGoes
    <3>2. s \notin accepted
      BY <3>1 DEF Jobs, Awaited
    <3> QED BY <1>1, <3>1, <3>2 DEF SenderEffect, Jobs, Tasked
  <2> QED BY <1>1, <2>1 DEF SenderEffect, SenderGoes
<1>6. LeftAlone'
  <2> SUFFICES ASSUME NEW l \in Loop, l # loop' \/ Leaving', ~loops'[l].closed PROVE SenderFree(l)'
    BY DEF LeftAlone
  <2>1. ~loops[l].closed
    BY <1>5
  <2>2. Leaving' => Leaving /\ closing
    BY <1>2 DEF Leaving, Base, Ground, Flow, Raised
  <2>3. l # loop \/ Leaving
    BY <1>1, <2>2, LoopNumbers DEF Finds
  <2>4. SenderFree(l)
    BY <2>1, <2>3 DEF Sends, LeftAlone
  <2> QED BY <1>4, <2>2, <2>4
<1>7. Drained'
  <2> SUFFICES ASSUME NEW l \in Loop
               PROVE  /\ TurnedOut(l)' => NoStart(l)'
                      /\ Sealed(l)' => loops'[l].tasks \cap accepted' = {}
    BY DEF Drained
  <2>1. TurnedOut(l)' = TurnedOut(l) /\ Sealed(l)' = Sealed(l)
    BY <1>2, <1>5 DEF TurnedOut, Sealed
  <2>2. TurnedOut(l) => loops[l].closed \/ loops[l].lock = Main
    BY Seized DEF TurnedOut, Sealed
  <2>3. TurnedOut(l) => NoStart(l)'
    BY <1>3, <2>2, CallerIsSomebody DEF Sends, Drained
  <2> QED BY <1>5, <2>1, <2>3 DEF Sends, Drained
<1>8. RefusedAreDone'
  <2>1. Sender \subseteq Send
    BY DEF Send
  <2>2. pc[s] # "done"
    BY <1>1 DEF SenderGoes
  <2>3. ASSUME NEW c \in Sender, outcome'[c] = "refused" PROVE pc'[c] = "done"
    <3>1. outcome[c] = "refused" \/ (c = s /\ pc'[s] = "done")
      BY <1>1, <2>1, <2>3 DEF SenderGoes
    <3>2. outcome[c] = "refused" => pc[c] = "done"
      BY DEF Sends, RefusedAreDone
    <3> QED BY <1>2, <2>2, <3>1, <3>2
  <2> QED BY <2>3 DEF RefusedAreDone
<1> QED BY <1>6, <1>7, <1>8 DEF Sends

LEMMA CallbackSends == ASSUME Base, Jobs, Sends, NEW l \in Loop, RunCallback(l) PROVE Sends'
<1> DEFINE b == Head(loops[l].ready)
<1>1. /\ UNCHANGED <<facade, pc, at, late, draining, accepted>>
      /\ \A j \in Send : outcome'[j] = "refused" => outcome[j] = "refused" \/ (j = b.job /\ b.do = "start")
  BY DEF RunCallback, closer, flags, history, Ends, Base, Typed
<1>2. PICK T, s : /\ Makes(l, loops[l].driver, loops[l].lock, Rest(l), T, s, loops[l].closed)
                  /\ T \subseteq loops[l].tasks \cup {b.job}
                  /\ b.do = "cancel" => T = loops[l].tasks \ {b.job}
                  /\ b.do = "stop" => T = loops[l].tasks
  BY CallbackMakes
<1>3. /\ b \in Callbacks(l)
      /\ \A c \in Callbacks(l)' : c \in Callbacks(l) \/ c.do = "cancel"
      /\ \A k \in Loop : k # l => Callbacks(k)' = Callbacks(k)
  BY TailCallbacks DEF Cancelling, Callback
<1>4. /\ b.do \in {"start", "feed", "cancel", "stop"}
      /\ b.do = "start" => b.job \in Sender /\ b.job \in accepted
      /\ b.do = "feed" => b.job \in Request
  BY <1>3, CallbackTypes DEF Jobs, Asked
<1>5. /\ loops'[l].tasks = T /\ \A k \in Loop : k # l => loops'[k].tasks = loops[k].tasks
      /\ \A k \in Loop : loops'[k].closed = loops[k].closed
  BY <1>2 DEF Makes
<1> HIDE DEF b
<1>6. \A k \in Loop : NoStart(k) => NoStart(k)'
  BY <1>3 DEF NoStart
<1>7. Sealed(l) => T \cap accepted \subseteq loops[l].tasks \cap accepted
  <2> SUFFICES ASSUME Sealed(l) PROVE T \cap accepted \subseteq loops[l].tasks \cap accepted
    OBVIOUS
  <2>1. b.do # "start"
    BY <1>3 DEF Sends, Drained, TurnedOut, NoStart
  <2> QED BY <1>2, <1>4, <2>1, RequestsNotAccepted
<1>8. \A s1 \in Sender : outcome'[s1] = "refused" => outcome[s1] = "refused" \/ pc[s1] = "done"
  <2>1. Sender \subseteq Send
    BY DEF Send
  <2> QED BY <1>1, <1>4, <2>1 DEF Jobs, Awaited
<1> QED BY <1>1, <1>5, <1>6, <1>7, <1>8, FacadeFinds, SendsBy

LEMMA FinishSends == ASSUME Base, Sends, NEW l \in Loop, NEW j \in Job, FinishTask(l, j) PROVE Sends'
<1>1. /\ UNCHANGED <<facade, pc, at, late, draining, accepted>>
      /\ \A c \in Send : outcome'[c] = "refused" => outcome[c] = "refused"
  BY DEF FinishTask, closer, flags, Ends, Base, Typed
<1>2. \A k \in Loop : /\ loops'[k].ready = loops[k].ready /\ loops'[k].tasks \subseteq loops[k].tasks
                      /\ loops'[k].closed = loops[k].closed
  BY FinishMakes DEF Makes
<1>3. \A k \in Loop : NoStart(k) => NoStart(k)'
  BY <1>2, NoStartStays
<1>4. Sender \subseteq Send
  BY DEF Send
<1> QED BY <1>1, <1>2, <1>3, <1>4, FacadeFinds, SendsBy

LEMMA ReplySends == ASSUME Base, Jobs, Sends, NEW l \in Loop, NEW s \in Reply, SendReply(l, s) PROVE Sends'
<1>1. /\ UNCHANGED <<facade, pc, at, late, draining>> /\ Running(l)
      /\ \A c \in Send : outcome'[c] = "refused" => outcome[c] = "refused" \/ c = s
  BY DEF SendReply, closer, flags, Ends, Base, Typed
<1>2. \A k \in Loop : loops'[k].ready = loops[k].ready /\ loops'[k].closed = loops[k].closed
  BY ReplyMakes DEF Makes
<1>3. \A k \in Loop : NoStart(k) => NoStart(k)'
  BY <1>2, NoStartStays
<1>4. ASSUME NEW k \in Loop, Sealed(k)
      PROVE  loops'[k].tasks \cap accepted' \subseteq loops[k].tasks \cap accepted
  <2>1. CASE UNCHANGED <<loops, accepted>>
    BY <2>1
  <2>2. CASE /\ ~closing /\ accepted' = accepted \cup {s}
             /\ Makes(l, loops[l].driver, loops[l].lock, loops[l].ready,
                      loops[l].tasks \cup {s}, loops[l].stopping, loops[l].closed)
    <3>1. loops[k].closed
      BY <1>4, <2>2 DEF Sealed, Base, Ground, Flow, Raised
    <3>2. k # l
      BY <1>1, <3>1 DEF Base, Ground, Drivers, Running
    <3>3. loops'[k].tasks = loops[k].tasks
      BY <2>2, <3>2 DEF Makes
    <3>4. s \notin loops[k].tasks
      <4>1. s \notin accepted
        BY DEF SendReply
      <4> QED BY <4>1 DEF Jobs, Tasked
    <3> QED BY <2>2, <3>3, <3>4
  <2> QED BY <2>1, <2>2, ReplyMakes
<1>5. Sender \subseteq Send /\ s \notin Sender
  BY JobsAreDisjoint DEF Send
<1> QED BY <1>1, <1>2, <1>3, <1>4, <1>5, FacadeFinds, SendsBy

LEMMA RunnerSends ==
  ASSUME Base, Sends, NEW t \in Runner, RunForever(t) \/ RunnerDies(t) \/ RunnerStops(t)
  PROVE  Sends'
<1>1. /\ UNCHANGED <<facade, pc, at, late, draining, accepted, outcome>>
      /\ threads[t].state # "unmade"
      /\ \/ UNCHANGED loops
         \/ loops' = [loops EXCEPT ![threads[t].on].driver = t]
         \/ loops' = Left(threads[t].on)
  BY DEF RunForever, RunnerDies, RunnerStops, closer, flags, history
<1>2. threads[t].on \in Loop
  BY <1>1 DEF Base, Ground, Placed, KInv, Shape
<1>3. Kept
  BY <1>1, <1>2, KeptBy DEF Base
<1>4. \A k \in Loop : /\ loops'[k].ready = loops[k].ready /\ loops'[k].tasks = loops[k].tasks
                      /\ loops'[k].closed = loops[k].closed
  BY <1>1, <1>3 DEF Kept
<1>5. \A k \in Loop : NoStart(k) => NoStart(k)'
  BY <1>4, NoStartStays
<1> QED BY <1>1, <1>4, <1>5, FacadeFinds, SendsBy

\* A step of close() that queues nothing and goes where there is nothing to show.
LEMMA QuietSends ==
  ASSUME Base, Sends, Kept, UNCHANGED <<accepted, outcome>>, NEW label, Goto(Main, label),
         \A c \in Caller : c # Main => at'[c] = at[c],
         Finds \/ (loop' = None /\ pc[Main] = "unset"),
         \A k \in Loop : loops'[k].closed => loops[k].closed \/ (pc[Main] = "release" /\ k = at[Main]),
         label \notin {"drain", "release"},
         label = "unset" => \A k \in Loop : k = loop' => loops'[k].closed,
         label = "lower" => draining' \/ late' # 0 \/ loop' = None
  PROVE  Sends'
<1>1. pc'[Main] = label /\ \A s \in Sender : pc'[s] = pc[s] /\ at'[s] = at[s]
  BY GotoMoves, CallerIsSomebody DEF Base, Ground, Moves
<1>2. \A k \in Loop : NoStart(k) => NoStart(k)'
  BY NoStartStays DEF Kept
<1>3. \A k \in Loop : loops'[k].tasks = loops[k].tasks /\ (loops[k].closed => loops'[k].closed)
  BY DEF Kept
<1>4. \A k \in Loop : Leaving' /\ k = loop' => loops'[k].closed
  BY <1>1, LoopNumbers DEF Leaving
<1>5. \/ pc'[Main] = pc[Main] /\ at'[Main] = at[Main] /\ UNCHANGED <<draining, late>> /\ Finds
      \/ \A k \in Loop :
           /\ Leaving' /\ k = loop' => loops'[k].closed
           /\ pc'[Main] \in {"drain", "release"} /\ k = at'[Main] => NoStart(k)'
           /\ pc'[Main] = "release" /\ k = at'[Main] => loops'[k].tasks \cap accepted' = {}
  BY <1>1, <1>4
<1> QED BY <1>1, <1>2, <1>3, <1>5, SendsBy

LEMMA MainSends ==
  ASSUME Base, Calm, Sends, EndPolling \/ CloseStep \/ PutBackRunner
  PROVE  Sends'
<1>0. ASSUME NEW label, Goto(Main, label)
      PROVE  pc'[Main] = label /\ \A c \in Request \cup Sender : pc'[c] = pc[c] /\ c # Main /\ c \in Caller
  BY <1>0, GotoMoves, CallerIsSomebody DEF Base, Ground, Moves
<1>1. CASE EndPolling
  <2>1. /\ pc[Main] = "polling" /\ Goto(Main, "open") /\ UNCHANGED <<at, facade, accepted, outcome>>
        /\ loop \in Loop /\ loops' = Left(loop)
    BY <1>1, WherePolls DEF EndPolling, history
  <2>2. pc'[Main] = "open"
    BY <1>0, <2>1
  <2>3. Kept /\ \A k \in Loop : loops'[k].closed = loops[k].closed
    BY <2>1, KeptBy, MakesLeft DEF Base, Makes
  <2> QED BY <2>1, <2>3, QuietSends, FacadeFinds
<1>2. CASE RaiseFlags \/ LowerFlags \/ TakeRunner \/ SnapshotUpdates \/ JoinRunner \/ PutBackRunner
  <2>1. /\ UNCHANGED <<at, facade, accepted, outcome, loops>>
        /\ \E label \in {"raise", "take", "lowered", "open", "teardown", "snapshot", "wait"} : Goto(Main, label)
    BY <1>2 DEF RaiseFlags, LowerFlags, TakeRunner, SnapshotUpdates, JoinRunner, PutBackRunner, history
  <2> QED BY <2>1, KeptBy, QuietSends, FacadeFinds DEF Base
<1>3. CASE TearDown
  <2>1. /\ UNCHANGED <<accepted, outcome, loops, draining>> /\ pc[Main] = "teardown"
        /\ (\A d \in Caller : d # Main => at'[d] = at[d])
        /\ \/ loop = None /\ loop' = None /\ Goto(Main, "unset")
           \/ Goto(Main, "lower") \/ Goto(Main, "seize")
    BY <1>3 DEF TearDown, history, flags, facade, Base, Typed
  <2>2. Finds
    <3>1. UNCHANGED facade \/ LookUpLoop
      BY <1>3 DEF TearDown
    <3> QED BY <3>1, FacadeFinds, LookUpFinds DEF Base
  <2>3. draining'
    BY <2>1 DEF Base, Ground, Flow, Raised
  <2> QED BY <2>1, <2>2, <2>3, KeptBy, QuietSends, LoopNumbers DEF Base
<1>4. CASE SeizeLoop
  <2>1. /\ UNCHANGED <<at, facade, accepted, outcome, draining>> /\ pc[Main] = "seize" /\ at[Main] \in Loop
        /\ Goto(Main, "lower") \/ Goto(Main, "turn")
        /\ UNCHANGED loops \/ loops' = [loops EXCEPT ![at[Main]].lock = Main, ![at[Main]].driver = Main]
    BY <1>4 DEF SeizeLoop, history, flags, Base, Ground, Placed, Typed
  <2>2. Kept /\ \A k \in Loop : loops'[k].closed = loops[k].closed
    BY <2>1, KeptBy, MakesSeized DEF Base, Makes
  <2>3. draining'
    BY <2>1 DEF Base, Ground, Flow, Raised
  <2> QED BY <2>1, <2>2, <2>3, QuietSends, FacadeFinds
<1>5. CASE BreakOff
  <2>1. /\ UNCHANGED <<at, facade, accepted, outcome, late>> /\ Goto(Main, "lower")
        /\ pc[Main] \in {"turn", "drain", "release"} /\ loops[at[Main]].stopping
        /\ loops' = Unlocked(at[Main]) /\ at[Main] \in Loop
    BY <1>5, Seized DEF BreakOff, history, closer
  <2>2. Kept /\ \A k \in Loop : loops'[k].closed = loops[k].closed
    BY <2>1, KeptBy, MakesUnlocked DEF Base, Makes
  <2>3. late # 0
    BY <2>1, CalmIsNotBrokenOff DEF TeardownIsNotBrokenOff
  <2> QED BY <2>1, <2>2, <2>3, QuietSends, FacadeFinds
<1>6. CASE CloseLoop
  <2>1. /\ UNCHANGED <<at, facade, accepted, outcome>> /\ Goto(Main, "unset") /\ pc[Main] = "release"
        /\ at[Main] = loop /\ loop' = loop
        /\ loops' = [Unlocked(at[Main]) EXCEPT ![at[Main]].closed = TRUE] /\ at[Main] \in Loop
    BY <1>6, Seized DEF CloseLoop, history, facade
  <2>2. pc'[Main] # pc[Main]
    BY <1>0, <2>1
  <2>3. Kept
    BY <2>1, <2>2, KeptBy DEF Base
  <2>4. /\ \A k \in Loop : loops'[k].closed => loops[k].closed \/ k = at[Main]
        /\ \A k \in Loop : k = loop => loops'[k].closed
    BY <2>1, MakesClosed DEF Base, Makes
  <2> QED BY <2>1, <2>3, <2>4, QuietSends, FacadeFinds
<1>7. CASE UnsetLoop
  <2>1. /\ UNCHANGED <<at, accepted, outcome, loops>> /\ Goto(Main, "lower") /\ pc[Main] = "unset"
        /\ loop' = None
    BY <1>7 DEF UnsetLoop, history
  <2> QED BY <2>1, KeptBy, QuietSends DEF Base
<1>8. CASE AwaitUpdates
  <2>1. UNCHANGED <<at, facade, accepted, outcome, draining, late>> /\ Goto(Main, "stop")
    BY <1>8 DEF AwaitUpdates, history, flags, closer
  <2>2. \A k \in Loop : loops'[k].tasks = loops[k].tasks /\ loops'[k].closed = loops[k].closed
    BY <1>8, AwaitMakes
  <2>3. ASSUME NEW k \in Loop, NoStart(k) PROVE NoStart(k)'
    <3> DEFINE unfinished == {r \in snapshot : future[r] = "pending"}
               s == loops[k].ready
               t == Cancels(k, unfinished)
    <3>1. unfinished \in SUBSET Request
      BY DEF Base, Typed
    <3>2. loops'[k].ready = s \o t
      BY <1>8, AwaitMakes
    <3> HIDE DEF unfinished
    <3>3. s \in Seq(CallbackType) /\ t \in Seq(CallbackType) /\ \A i \in 1..Len(t) : t[i].do = "cancel"
      BY <3>1, CallbackTypes, CancelsOf DEF Base
    <3>4. Callbacks(k) = Range(s) /\ Callbacks(k)' = Range(s \o t)
      BY <3>2 DEF Callbacks
    <3> HIDE DEF s, t
    <3>5. Range(s \o t) = Range(s) \cup Range(t)
      BY <3>3, RangeConcatenation
    <3>6. \A x \in Range(t) : x.do = "cancel"
      BY <3>3, LenProperties DEF Range
    <3> QED BY <2>3, <3>4, <3>5, <3>6 DEF NoStart
  <2>4. /\ pc'[Main] = "stop" /\ Finds
        /\ \A s \in Sender : pc'[s] = pc[s] /\ at'[s] = at[s]
    BY <1>0, <2>1, FacadeFinds
  <2>5. \A k \in Loop :
          /\ Leaving' /\ k = loop' => loops'[k].closed
          /\ pc'[Main] \in {"drain", "release"} /\ k = at'[Main] => NoStart(k)'
          /\ pc'[Main] = "release" /\ k = at'[Main] => loops'[k].tasks \cap accepted' = {}
    BY <2>4 DEF Leaving
  <2> QED BY <2>1, <2>2, <2>3, <2>4, <2>5, SendsBy
<1>9. CASE StopLoop
  <2>1. UNCHANGED <<at, facade, accepted, outcome>> /\ Goto(Main, "join")
    BY <1>9, StopLoopMakes DEF history
  <2>2. CASE UNCHANGED loops
    BY <2>1, <2>2, KeptBy, QuietSends, FacadeFinds DEF Base
  <2> DEFINE b == Callback("stop", Main)
  <2>3. CASE /\ loop \in Loop /\ b \in CallbackType
             /\ Makes(loop, loops[loop].driver, loops[loop].lock,
                      Append(loops[loop].ready, b), loops[loop].tasks,
                      loops[loop].stopping, loops[loop].closed)
    <3>1. \A k \in Loop : /\ loops'[k].tasks = loops[k].tasks /\ loops'[k].closed = loops[k].closed
                          /\ \/ loops'[k].ready = loops[k].ready
                             \/ loops'[k].ready = Append(loops[k].ready, b)
      BY <2>3 DEF Makes
    <3>2. b.do # "start"
      BY DEF Callback
    <3>3. \A k \in Loop : NoStart(k) => NoStart(k)'
      BY <2>3, <3>1, <3>2, NoStartStays
    <3>4. /\ pc'[Main] = "join" /\ Finds
          /\ \A s \in Sender : pc'[s] = pc[s] /\ at'[s] = at[s]
      BY <1>0, <2>1, FacadeFinds
    <3>5. \A k \in Loop :
            /\ Leaving' /\ k = loop' => loops'[k].closed
            /\ pc'[Main] \in {"drain", "release"} /\ k = at'[Main] => NoStart(k)'
            /\ pc'[Main] = "release" /\ k = at'[Main] => loops'[k].tasks \cap accepted' = {}
      BY <3>4 DEF Leaving
    <3> QED BY <2>1, <3>1, <3>3, <3>4, <3>5, SendsBy
  <2> QED BY <1>9, <2>2, <2>3, StopLoopMakes
<1>10. CASE TurnLoop
  <2>1. /\ UNCHANGED <<at, facade, accepted, outcome, loops>> /\ Goto(Main, "drain")
        /\ pc[Main] = "turn" /\ loops[at[Main]].ready = <<>>
    BY <1>10 DEF TurnLoop, history
  <2>2. /\ pc'[Main] = "drain" /\ Finds
        /\ \A s \in Sender : pc'[s] = pc[s] /\ at'[s] = at[s]
    BY <1>0, <2>1, FacadeFinds
  <2>3. \A k \in Loop : NoStart(k) => NoStart(k)'
    BY <2>1, NoStartStays
  <2>4. \A k \in Loop : k = at'[Main] => NoStart(k)'
    BY <2>1 DEF NoStart, Callbacks, Range
  <2>5. \A k \in Loop :
          /\ Leaving' /\ k = loop' => loops'[k].closed
          /\ pc'[Main] \in {"drain", "release"} /\ k = at'[Main] => NoStart(k)'
          /\ pc'[Main] = "release" /\ k = at'[Main] => loops'[k].tasks \cap accepted' = {}
    BY <2>2, <2>4 DEF Leaving
  <2> QED BY <2>1, <2>2, <2>3, <2>5, SendsBy
<1>11. CASE DrainSends
  <2>1. /\ UNCHANGED <<at, facade, accepted>> /\ Goto(Main, "release") /\ pc[Main] = "drain"
        /\ \A s \in Send : outcome'[s] = "refused" => outcome[s] = "refused"
    BY <1>11 DEF DrainSends, history
  <2>2. /\ loop \in Loop /\ at[Main] = loop
        /\ loops'[loop].tasks = loops[loop].tasks \ accepted
        /\ \A k \in Loop : /\ loops'[k].ready = loops[k].ready /\ loops'[k].tasks \subseteq loops[k].tasks
                           /\ loops'[k].closed = loops[k].closed
    BY <1>11, DrainMakes DEF Makes
  <2>3. /\ pc'[Main] = "release" /\ Finds /\ Sender \subseteq Send
        /\ \A s \in Sender : pc'[s] = pc[s] /\ at'[s] = at[s]
    BY <1>0, <2>1, FacadeFinds DEF Send
  <2>4. \A k \in Loop : NoStart(k) => NoStart(k)'
    BY <2>2, NoStartStays
  <2>5. \A k \in Loop : k = at'[Main] => NoStart(k)'
    BY <2>1, <2>4 DEF Sends, Drained, TurnedOut
  <2>6. \A k \in Loop :
          /\ Leaving' /\ k = loop' => loops'[k].closed
          /\ pc'[Main] \in {"drain", "release"} /\ k = at'[Main] => NoStart(k)'
          /\ pc'[Main] = "release" /\ k = at'[Main] => loops'[k].tasks \cap accepted' = {}
    BY <2>1, <2>2, <2>3, <2>5 DEF Leaving
  <2>7. \A s \in Sender : outcome'[s] = "refused" => outcome[s] = "refused" \/ pc[s] = "done"
    BY <2>1, <2>3
  <2> QED BY <2>1, <2>2, <2>3, <2>4, <2>6, <2>7, SendsBy
<1> QED BY <1>1, <1>2, <1>3, <1>4, <1>5, <1>6, <1>7, <1>8, <1>9, <1>10, <1>11 DEF CloseStep

LEMMA NextSends == ASSUME Base, Jobs, Calm, Sends, [Next]_vars PROVE Sends'
<1>1. CASE UNCHANGED vars
  <2>1. UNCHANGED <<facade, loops, pc, at, draining, late, accepted, outcome>>
    BY <1>1 DEF vars, flags, closer, history
  <2>2. /\ \A k \in Loop : NoStart(k) => NoStart(k)'
        /\ \A s \in Sender : pc'[s] = pc[s] /\ at'[s] = at[s]
        /\ \A s \in Sender : outcome'[s] = "refused" => outcome[s] = "refused"
        /\ \A k \in Loop : loops'[k] = loops[k]
    BY <2>1, NoStartStays
  <2> QED BY <2>1, <2>2, FacadeFinds, SendsBy
<1>2. CASE Next
  BY <1>2, EnsureSends, RequestSends, SenderSends, RunnerSends, CallbackSends, FinishSends,
     ReplySends, MainSends DEF Next
<1> QED BY <1>1, <1>2

LEMMA InitSends == Init => Sends
<1> SUFFICES ASSUME Init PROVE Sends
  OBVIOUS
<1>1. \A l \in Loop : loops[l].ready = <<>> /\ loops[l].tasks = {} /\ loops[l].closed = FALSE
  BY DEF Init
<1>2. \A l \in Loop : NoStart(l)
  BY <1>1 DEF NoStart, Callbacks, Range
<1>3. pc[Main] \in {"polling", "open"} /\ \A s \in Sender : at[s] = None
  BY CallerIsSomebody DEF Init
<1>4. \A s \in Sender : outcome[s] \in {"none", "absent"}
  BY DEF Init, Send
<1>5. LeftAlone
  <2>1. \A s \in Sender, l \in Loop : at[s] # l
    BY <1>3, LoopNumbers
  <2> QED BY <1>2, <2>1 DEF LeftAlone, SenderFree
<1> QED BY <1>2, <1>3, <1>4, <1>5, <1>1 DEF Sends, Drained, TurnedOut, Sealed, RefusedAreDone

\* Where close() would have a callback refused, no send's callback is left.
LEMMA RefusesNobody ==
  ASSUME Base, Sends, late = 0, StartRefuses, NEW l \in Loop, Running(l)
  PROVE  NoStart(l)
<1>1. pc[Main] \in {"drain", "release", "unset", "lower"} /\ ~draining
  BY DEF StartRefuses, Base, Ground, Flow, Raised
<1>2. ~loops[l].closed
  BY DEF Running, Base, Ground, Drivers
<1>3. CASE Leaving \/ l # loop
  BY <1>2, <1>3 DEF Sends, LeftAlone, SenderFree
<1>4. CASE pc[Main] \in {"drain", "release"} /\ l = loop
  <2>1. l = at[Main]
    BY <1>4, Seized
  <2> QED BY <1>4, <2>1 DEF Sends, Drained, TurnedOut, Sealed
<1> QED BY <1>1, <1>3, <1>4 DEF Leaving

LEMMA NextAccepted ==
  ASSUME Base, Jobs, Sends, AcceptedIsNotRefused, [Next]_vars
  PROVE  AcceptedIsNotRefused'
<1>1. CASE UNCHANGED vars
  BY <1>1 DEF vars, history, closer, AcceptedIsNotRefused
<1>2. CASE Next
  <2> SUFFICES ASSUME late' = 0, NEW s \in accepted', outcome'[s] = "refused"
               PROVE  FALSE
    BY DEF AcceptedIsNotRefused
  <2>1. late = 0 /\ (s \in accepted => outcome[s] # "refused")
    <3>1. late = 0
      BY <1>2, LateGrows
    <3> QED BY <3>1 DEF AcceptedIsNotRefused
  <2>2. /\ outcome \in [Send -> {"absent", "none", "sent", "refused", "dropped", "raised"}]
        /\ accepted \subseteq Send
    BY DEF Base, Typed
  <2>3. CASE \E r \in Request : EnsureLoopRuns(r) \/ RequestStep(r)
    <3>1. UNCHANGED <<outcome, accepted>>
      BY <2>3, RequestDoes DEF EnsureLoopRuns, history
    <3> QED BY <2>1, <3>1
  <2>4. ASSUME NEW c \in Sender, ScheduleSend(c) \/ SenderStep(c) PROVE FALSE
    <3>1. SenderGoes(c)
      BY <2>4, SenderDoes
    <3>2. c \notin accepted /\ outcome[c] # "refused" /\ c \in Send
      BY <3>1 DEF SenderGoes, Jobs, Awaited, Sends, RefusedAreDone, Send
    <3>3. CASE accepted' = accepted
      BY <2>1, <2>2, <3>1, <3>2, <3>3 DEF SenderGoes
    <3>4. CASE accepted' = accepted \cup {c} /\ outcome' = outcome
      BY <2>1, <3>2, <3>4
    <3> QED BY <3>1, <3>3, <3>4 DEF SenderGoes
  <2>5. ASSUME NEW t \in Runner, RunForever(t) \/ RunnerDies(t) \/ RunnerStops(t) PROVE FALSE
    <3>1. UNCHANGED <<outcome, accepted>>
      BY <2>5 DEF RunForever, RunnerDies, RunnerStops, history
    <3> QED BY <2>1, <3>1
  <2>6. ASSUME NEW l \in Loop, RunCallback(l) PROVE FALSE
    <3> DEFINE b == Head(loops[l].ready)
    <3>1. accepted' = accepted /\ Running(l)
      BY <2>6 DEF RunCallback, history
    <3>2. outcome' # outcome => b.do = "start" /\ StartRefuses
      BY <2>6 DEF RunCallback
    <3>3. b \in Callbacks(l)
      BY <2>6, TailCallbacks
    <3> HIDE DEF b
    <3>4. StartRefuses => b.do # "start"
      BY <2>1, <3>1, <3>3, RefusesNobody DEF NoStart
    <3> QED BY <2>1, <3>1, <3>2, <3>4
  <2>7. ASSUME NEW l \in Loop, NEW j \in Job, FinishTask(l, j) PROVE FALSE
    <3>1. accepted' = accepted /\ (outcome' = outcome \/ outcome' = [outcome EXCEPT ![j] = "sent"])
      BY <2>7 DEF FinishTask, Ends
    <3> QED BY <2>1, <2>2, <3>1
  <2>8. ASSUME NEW l \in Loop, NEW c \in Reply, SendReply(l, c) PROVE FALSE
    <3>1. /\ outcome[c] = "none" /\ c \notin accepted
          /\ \/ outcome' = [outcome EXCEPT ![c] = "refused"] /\ accepted' = accepted
             \/ outcome' = outcome /\ accepted' = accepted \cup {c}
      BY <2>8 DEF SendReply, Ends
    <3> QED BY <2>1, <2>2, <3>1
  <2>9. CASE EndPolling \/ CloseStep \/ PutBackRunner
    <3>1. CASE DrainSends
      BY <2>1, <2>2, <3>1 DEF DrainSends, history
    <3>2. CASE ~DrainSends
      <4>1. UNCHANGED <<outcome, accepted>>
        BY <2>9, <3>2 DEF CloseStep, EndPolling, RaiseFlags, LowerFlags, TakeRunner, SnapshotUpdates,
           AwaitUpdates, StopLoop, JoinRunner, TearDown, SeizeLoop, TurnLoop, BreakOff,
           CloseLoop, UnsetLoop, PutBackRunner, history
      <4> QED BY <2>1, <4>1
    <3> QED BY <3>1, <3>2
  <2> QED BY <1>2, <2>3, <2>4, <2>5, <2>6, <2>7, <2>8, <2>9 DEF Next
<1> QED BY <1>1, <1>2

LEMMA NothingClosedOver == ASSUME Base, Jobs, Waited, Sends PROVE ClosedOverNothing
<1> SUFFICES ASSUME NEW l \in Loop, loops[l].closed
             PROVE  ClosedOverNoSend(l) /\ (late = 0 => ClosedOverNoUpdate(l))
  BY DEF ClosedOverNothing
<1>1. NoStart(l) /\ loops[l].tasks \cap accepted = {}
  BY DEF Sends, Drained, TurnedOut, Sealed
<1>2. ClosedOverNoSend(l)
  BY <1>1 DEF ClosedOverNoSend, NoStart, Callbacks, Range
<1> QED BY <1>2, ClosedOverNoUpdateHolds
-----------------------------------------------------------------------------
\* All of it together.
Calmly == Base /\ Jobs /\ Calm

LEMMA CalmlyIsKept == Init => Calmly
BY InitBase, InitJobs, InitCalm DEF Calmly

LEMMA NextCalmly == Calmly /\ [Next]_vars => Calmly'
BY NextBase, NextJobs, NextCalm DEF Calmly

\* A close() whose joins do not time out is never broken off: no stop that was
\* meant for the runner ends a run of the teardown's own (_stop_runner, _teardown).
THEOREM TeardownRunsToItsEnd == Spec => []TeardownIsNotBrokenOff
<1>1. Init => Calmly
  BY CalmlyIsKept
<1>2. Calmly /\ [Next]_vars => Calmly'
  BY NextCalmly
<1>3. Calmly => TeardownIsNotBrokenOff
  BY CalmIsNotBrokenOff DEF Calmly
<1> QED BY <1>1, <1>2, <1>3, PTL DEF Spec

\* While joins do not time out, an update that was answered with 200 had its
\* handlers run to their end, or two threads had met on its loop
\* (telegram_webhook, feed_update, close).
THEOREM OkMeansHandledAlways == Spec => []OkMeansHandled
<1>1. Init => Calmly /\ OkMeansHandled
  BY CalmlyIsKept, InitOk
<1>2. Calmly /\ OkMeansHandled /\ [Next]_vars => Calmly' /\ OkMeansHandled'
  BY NextCalmly, NextOk DEF Calmly
<1> QED BY <1>1, <1>2, PTL DEF Spec

\* No loop is closed over a send that was handed to it, however joins end, and
\* none over an update a request waits for, while joins do not time out (_drain,
\* _stop_runner, _submit_update).
THEOREM NothingIsClosedOver == Spec => []ClosedOverNothing
<1>1. Init => Calmly /\ Waited /\ Sends
  BY CalmlyIsKept, InitWaited, InitSends
<1>2. Calmly /\ Waited /\ Sends /\ [Next]_vars => Calmly' /\ Waited' /\ Sends'
  BY NextCalmly, NextWaited, NextSends DEF Calmly
<1>3. Calmly /\ Waited /\ Sends => ClosedOverNothing
  BY NothingClosedOver DEF Calmly
<1> QED BY <1>1, <1>2, <1>3, PTL DEF Spec

\* A send that was handed to the loop is not refused by the close() that comes
\* between the hand-off and its callback, while joins do not time out (_schedule,
\* _hand_off, _drain).
THEOREM AcceptedSendsAreKept == Spec => []AcceptedIsNotRefused
<1>1. Init => Calmly /\ Sends /\ AcceptedIsNotRefused
  <2>1. Init => AcceptedIsNotRefused
    BY DEF Init, AcceptedIsNotRefused
  <2> QED BY <2>1, CalmlyIsKept, InitSends
<1>2. Calmly /\ Sends /\ AcceptedIsNotRefused /\ [Next]_vars
        => Calmly' /\ Sends' /\ AcceptedIsNotRefused'
  BY NextCalmly, NextSends, NextAccepted DEF Calmly
<1> QED BY <1>1, <1>2, PTL DEF Spec
=============================================================================
