--------------------------- MODULE DeliveryProofs ---------------------------
(***************************************************************************)
(* Theorems about Delivery, for every number of workers and messages,      *)
(* every setting and any number of kills, faults and shutdowns.            *)
(***************************************************************************)
EXTENDS Delivery, CollectionLemmas, TLAPS

\* A consumer that is dispatching or acknowledging has a message to do it to.
Hands == \A w \in Worker : pc[w] \in {"dispatch", "ack"} => raw[w] \in Message

\* The budgets of faults, kills and shutdowns.
BoundsOK ==
  crashes \in 0..MaxCrashes /\ faults \in 0..MaxFaults /\ stops \in 0..MaxStops

LEMMA FaultType ==
  ASSUME TypeOK, Fault \/ NoFault
  PROVE  BoundsOK'
<1>1. {crashes, faults, stops, MaxFaults} \subseteq Nat /\ BoundsOK
  BY BoundsAreNaturals DEF TypeOK, BoundsOK
<1>2. CASE Fault
  BY <1>1, <1>2 DEF Fault, BoundsOK
<1>3. CASE NoFault
  BY <1>1, <1>3 DEF NoFault, bounds, BoundsOK
<1> QED BY <1>2, <1>3

LEMMA MoveBackType ==
  ASSUME NEW w \in Worker, TypeOK, MoveBack(w)
  PROVE  queue' \in Seq(Message) /\ processing' \in [Worker -> Seq(Message)]
<1>1. processing[w] \in Seq(Message) /\ processing[w] # <<>>
  BY DEF TypeOK, MoveBack
<1>2. Last(processing[w]) \in Message /\ Front(processing[w]) \in Seq(Message)
  BY <1>1, FrontRange
<1>3. <<Last(processing[w])>> \o queue \in Seq(Message)
  BY <1>2, ConsRange DEF TypeOK
<1> QED BY <1>2, <1>3 DEF MoveBack, TypeOK

LEMMA AcknowledgeType ==
  ASSUME NEW w \in Worker, NEW m \in Message, TypeOK, Acknowledge(w, m)
  PROVE  /\ queue' \in Seq(Message) /\ processing' \in [Worker -> Seq(Message)]
         /\ BoundsOK'
<1>1. RemoveFirst(processing[w], m) \in Seq(Message)
  BY RemoveFirstRange DEF TypeOK
<1>2. Fault \/ NoFault
  BY DEF Acknowledge
<1> QED BY <1>1, <1>2, FaultType DEF TypeOK, Acknowledge, redis

LEMMA InitType == Init => TypeOK /\ Hands
  BY BoundsAreNaturals, KindsAreKinds
  DEF Init, TypeOK, Hands, MainPhase, ConsumerPc, NoMessage

\* A process that ends leaves well-typed state behind.
LEMMA GoneType ==
  ASSUME NEW w \in Worker, TypeOK, Hands, Gone(w), BoundsOK'
  PROVE  TypeOK' /\ Hands'
<1>1. UNCHANGED <<queue, processing, pushed, kind, reliable, reclaimed, upgraded,
                  op, settled, repeated>>
  BY DEF Gone, redis, input, mode, history
<1>2. sending' \in [Worker -> [Message -> Nat]]
  BY DEF Gone, TypeOK
<1>3. finished' \in [Worker -> Seq(Report)]
  BY DEF Gone, TypeOK
<1> QED BY <1>1, <1>2, <1>3
        DEF Gone, Goto, BoundsOK, TypeOK, Hands, MainPhase, ConsumerPc, NoMessage

\* What a report does to the two counts the consumer keeps.
LEMMA CollectType ==
  ASSUME NEW w \in Worker, TypeOK, Hands, CollectOne(w), UNCHANGED pc
  PROVE  TypeOK' /\ Hands'
<1> DEFINE report == Head(finished[w])
<1>1. report \in Report /\ Tail(finished[w]) \in Seq(Report)
  BY TailRange DEF TypeOK, CollectOne
<1>2. /\ queue' \in Seq(Message) /\ processing' \in [Worker -> Seq(Message)]
      /\ BoundsOK'
  <2>1. CASE report.delivered
    BY <1>1, <2>1, AcknowledgeType DEF CollectOne, Report
  <2>2. CASE ~report.delivered
    <3>1. UNCHANGED redis /\ NoFault
      BY <2>2 DEF CollectOne
    <3> QED BY <3>1, FaultType DEF TypeOK, redis
  <2> QED BY <2>1, <2>2
<1>3. UNCHANGED <<pushed, kind, main, reliable, reclaimed, upgraded, raw, sending,
                  op, settled, repeated>>
  BY DEF CollectOne, input, mode, history
<1>4. inFlight' \in [Worker -> Int] /\ finished' \in [Worker -> Seq(Report)]
  <2>1. /\ finished' = [finished EXCEPT ![w] = Tail(finished[w])]
        /\ inFlight' = [inFlight EXCEPT ![w] = inFlight[w] - 1]
    BY DEF CollectOne
  <2> QED BY <2>1, <1>1 DEF TypeOK
<1> QED BY <1>2, <1>3, <1>4 DEF BoundsOK, TypeOK, Hands

LEMMA LifecycleType ==
  ASSUME NEW w \in Worker, TypeOK, Hands, Lifecycle(w)
  PROVE  TypeOK' /\ Hands'
<1> USE BoundsAreNaturals DEF redis, input, mode, sends, bounds, history, Goto, Fault, NoFault
<1>1. CASE Start(w)
  BY <1>1, ZenonT(60) DEF Start, TypeOK, Hands, MainPhase, ConsumerPc
<1>2. CASE StartConsumer(w)
  BY <1>2, ZenonT(60) DEF StartConsumer, TypeOK, Hands, MainPhase, ConsumerPc
<1>3. CASE Stop(w)
  BY <1>3, SMTT(30) DEF Stop, TypeOK, Hands, MainPhase, ConsumerPc
<1>4. CASE Joined(w)
  <2>1. BoundsOK'
    BY <1>4, FaultType DEF Joined
  <2> QED BY <1>4, <2>1 DEF Joined, BoundsOK, TypeOK, Hands, MainPhase
<1>5. CASE Closed(w)
  BY <1>5 DEF Closed, TypeOK, Hands, MainPhase, ConsumerPc
<1>6. CASE MainCollect(w)
  BY <1>6, CollectType DEF MainCollect
<1>7. CASE Exit(w)
  BY <1>7, FaultType, GoneType DEF Exit
<1>8. CASE Crash(w)
  <2>1. BoundsOK'
    <3>1. BoundsOK
      BY DEF TypeOK, BoundsOK
    <3> QED BY <1>8, <3>1 DEF Crash, BoundsOK
  <2> QED BY <1>8, <2>1, GoneType DEF Crash
<1> QED BY <1>1, <1>2, <1>3, <1>4, <1>5, <1>6, <1>7, <1>8 DEF Lifecycle

LEMMA AfterReclaimType ==
  ASSUME NEW w \in Worker, TypeOK, Hands, InReclaim(w),
         NEW isSettled \in BOOLEAN, NEW downgraded \in BOOLEAN,
         AfterReclaim(w, isSettled, downgraded)
  PROVE  /\ main' \in [Worker -> MainPhase] /\ pc' \in [Worker -> ConsumerPc]
         /\ reliable' \in [Worker -> BOOLEAN] /\ reclaimed' \in [Worker -> BOOLEAN]
         /\ upgraded' = upgraded
         /\ \A v \in Worker : pc'[v] \in {"dispatch", "ack"} => pc'[v] = pc[v]
<1>1. CASE pc[w] = "preflight"
  BY <1>1, ZenonT(60) DEF AfterReclaim, Goto, TypeOK, MainPhase, ConsumerPc
<1>2. CASE pc[w] # "preflight"
  BY <1>2, ZenonT(60) DEF AfterReclaim, Goto, TypeOK, MainPhase, ConsumerPc
<1> QED BY <1>1, <1>2

LEMMA ReclaimType ==
  ASSUME NEW w \in Worker, TypeOK, Hands, Reclaim(w)
  PROVE  TypeOK' /\ Hands'
<1> USE DEF redis, input, mode, sends, history
<1>1. CASE ReclaimMove(w)
  <2>1. queue' \in Seq(Message) /\ processing' \in [Worker -> Seq(Message)]
    BY <1>1, MoveBackType DEF ReclaimMove
  <2> QED BY <1>1, <2>1 DEF ReclaimMove, bounds, TypeOK, Hands
<1>2. CASE ReclaimSettled(w)
  <2>1. InReclaim(w) /\ AfterReclaim(w, TRUE, ~HasLmove)
    BY <1>2 DEF ReclaimSettled
  <2> QED BY <1>2, <2>1, AfterReclaimType, FlagsAreBooleans DEF ReclaimSettled, bounds, TypeOK, Hands
<1>3. CASE ReclaimFailed(w)
  <2>1. InReclaim(w) /\ AfterReclaim(w, FALSE, FALSE)
    BY <1>3 DEF ReclaimFailed
  <2>2. BoundsOK'
    BY <1>3, FaultType DEF ReclaimFailed
  <2>3. queue' \in Seq(Message) /\ processing' \in [Worker -> Seq(Message)]
    BY <1>3, MoveBackType DEF ReclaimFailed, TypeOK
  <2> QED BY <1>3, <2>1, <2>2, <2>3, AfterReclaimType DEF ReclaimFailed, BoundsOK, TypeOK, Hands
<1> QED BY <1>1, <1>2, <1>3 DEF Reclaim

LEMMA SendEndsType ==
  ASSUME TypeOK, NEW m \in Message, SendEnds(m) \/ Dismiss(m)
  PROVE  settled' \subseteq Message /\ repeated' \subseteq settled'
<1>1. CASE SendEnds(m)
  BY <1>1 DEF SendEnds, TypeOK
<1>2. CASE Dismiss(m)
  BY <1>2 DEF Dismiss, TypeOK
<1> QED BY <1>1, <1>2

\* A hand-over that adds a report, or a send, to what the worker has outstanding.
LEMMA HandOverType ==
  ASSUME NEW w \in Worker, TypeOK, Hands, HandOver(w)
  PROVE  TypeOK' /\ Hands'
<1> USE DEF redis, input, mode, sends, bounds, history
<1>1. pc[w] = "dispatch" /\ raw[w] \in Message
  BY DEF HandOver, Scheduled, DrivenInline, Refused, CancelledInline, HandlerFailed,
         Handled, InHandOver, Hands
<1>2. \A d \in BOOLEAN : Append(finished[w], [msg |-> raw[w], delivered |-> d]) \in Seq(Report)
  <2>1. TAKE d \in BOOLEAN
  <2>2. [msg |-> raw[w], delivered |-> d] \in Report /\ finished[w] \in Seq(Report)
    BY <1>1 DEF TypeOK, Report
  <2> QED BY <2>2, AppendRange
<1>3. ASSUME Handled(w) PROVE /\ pc' \in [Worker -> ConsumerPc]
                              /\ raw' \in [Worker -> Message \cup {NoMessage}]
                              /\ Hands'
                              /\ UNCHANGED <<queue, processing, pushed, kind, main, reliable,
                                             reclaimed, upgraded, op, crashes, faults, stops>>
  BY <1>3 DEF Handled, Goto, TypeOK, Hands, ConsumerPc, NoMessage
<1>4. CASE Scheduled(w)
  <2>1. sending' \in [Worker -> [Message -> Nat]]
    BY <1>1, <1>4, SMTT(30) DEF Scheduled, TypeOK
  <2>2. inFlight' \in [Worker -> Int] /\ UNCHANGED <<finished, settled, repeated>> /\ Handled(w)
    BY <1>4 DEF Scheduled, TypeOK
  <2> QED BY <1>3, <2>1, <2>2 DEF TypeOK
<1>5. CASE DrivenInline(w)
  <2>1. finished' \in [Worker -> Seq(Report)]
    BY <1>2, <1>5 DEF DrivenInline, TypeOK
  <2>2. settled' \subseteq Message /\ repeated' \subseteq settled'
    BY <1>1, <1>5, SendEndsType DEF DrivenInline
  <2>3. inFlight' \in [Worker -> Int] /\ UNCHANGED sending /\ Handled(w)
    BY <1>5 DEF DrivenInline, TypeOK
  <2> QED BY <1>3, <2>1, <2>2, <2>3, SMTT(30) DEF TypeOK
<1>6. CASE Refused(w)
  <2>1. finished' \in [Worker -> Seq(Report)]
    BY <1>2, <1>6 DEF Refused, TypeOK
  <2>2. inFlight' \in [Worker -> Int] /\ UNCHANGED <<sending, settled, repeated>> /\ Handled(w)
    BY <1>6 DEF Refused, TypeOK
  <2> QED BY <1>3, <2>1, <2>2 DEF TypeOK
<1>7. CASE CancelledInline(w)
  BY <1>3, <1>7 DEF CancelledInline, TypeOK
<1>8. CASE HandlerFailed(w)
  <2>1. settled' \subseteq Message /\ repeated' \subseteq settled'
    BY <1>1, <1>8, SendEndsType DEF HandlerFailed
  <2> QED BY <1>1, <1>8, <2>1 DEF HandlerFailed, Goto, TypeOK, Hands, ConsumerPc
<1> QED BY <1>4, <1>5, <1>6, <1>7, <1>8 DEF HandOver

LEMMA ConsumerType ==
  ASSUME NEW w \in Worker, TypeOK, Hands, Consumer(w)
  PROVE  TypeOK' /\ Hands'
<1> USE DEF redis, input, mode, sends, history
<1>1. ASSUME NEW from \in ConsumerPc, NEW to \in ConsumerPc \ {"dispatch", "ack"},
             ConsumerMoves(w, from, to)
      PROVE  TypeOK' /\ Hands'
  BY <1>1 DEF ConsumerMoves, Goto, bounds, TypeOK, Hands
<1>2. CASE Top(w) \/ Collected(w) \/ LeaveHold(w) \/ Finish(w)
  BY <1>1, <1>2 DEF Top, Collected, LeaveHold, Finish, ConsumerPc
<1>3. CASE Collect(w)
  BY <1>3, CollectType DEF Collect
<1>4. CASE Pop(w)
  <2>1. /\ Head(queue) \in Message /\ Tail(queue) \in Seq(Message)
        /\ Append(processing[w], Head(queue)) \in Seq(Message)
    BY <1>4, TailRange, AppendRange DEF Pop, TypeOK
  <2>2. queue' \in Seq(Message) /\ processing' \in [Worker -> Seq(Message)]
    BY <1>4, <2>1 DEF Pop, TypeOK
  <2>3. BoundsOK'
    BY <1>4, FaultType DEF Pop
  <2>4. UNCHANGED <<pushed, kind, main, reliable, reclaimed, upgraded, inFlight,
                    sending, finished, op, settled, repeated>>
    BY <1>4 DEF Pop
  <2>5. /\ raw' \in [Worker -> Message \cup {NoMessage}]
        /\ pc' \in [Worker -> ConsumerPc] /\ Hands'
    BY <1>4, <2>1, ZenonT(60) DEF Pop, Goto, TypeOK, Hands, ConsumerPc
  <2> QED BY <2>2, <2>3, <2>4, <2>5 DEF BoundsOK, TypeOK
<1>5. CASE PopNothing(w)
  <2>1. BoundsOK'
    BY <1>5, FaultType DEF PopNothing
  <2> QED BY <1>5, <2>1 DEF PopNothing, Goto, BoundsOK, TypeOK, Hands, ConsumerPc
<1>6. CASE Drop(w)
  <2>1. raw[w] \in Message
    BY <1>6 DEF Drop, Hands
  <2>2. settled' \subseteq Message /\ repeated' \subseteq settled'
    BY <1>6, <2>1, SendEndsType DEF Drop
  <2> QED BY <1>6, <2>1, <2>2 DEF Drop, Goto, bounds, TypeOK, Hands, ConsumerPc
<1>7. CASE Keep(w)
  BY <1>7 DEF Keep, Goto, bounds, TypeOK, Hands, ConsumerPc, NoMessage
<1>8. CASE Ack(w)
  <2>1. raw[w] \in Message
    BY <1>8 DEF Ack, Hands
  <2>2. /\ queue' \in Seq(Message) /\ processing' \in [Worker -> Seq(Message)]
        /\ BoundsOK'
    BY <1>8, <2>1, AcknowledgeType DEF Ack
  <2> QED BY <1>8, <2>2 DEF Ack, Goto, BoundsOK, TypeOK, Hands, ConsumerPc, NoMessage
<1>9. CASE HandOver(w)
  BY <1>9, HandOverType
<1> QED BY <1>2, <1>3, <1>4, <1>5, <1>6, <1>7, <1>8, <1>9 DEF Consumer

LEMMA LoopType ==
  ASSUME NEW w \in Worker, NEW m \in Message, TypeOK, Hands,
         Complete(w, m) \/ CancelSend(w, m)
  PROVE  TypeOK' /\ Hands'
<1> USE DEF redis, input, mode, bounds, history
<1>1. sending' \in [Worker -> [Message -> Nat]]
  <2>1. /\ sending[w] \in [Message -> Nat] /\ sending[w][m] > 0
        /\ sending' = [sending EXCEPT ![w][m] = @ - 1]
    BY DEF Complete, CancelSend, TypeOK
  <2>2. sending[w][m] - 1 \in Nat
    BY <2>1
  <2> QED BY <2>1, <2>2 DEF TypeOK
<1>2. CASE Complete(w, m)
  <2>1. [msg |-> m, delivered |-> TRUE] \in Report /\ finished[w] \in Seq(Report)
    BY DEF TypeOK, Report
  <2>2. finished' \in [Worker -> Seq(Report)]
    BY <1>2, <2>1, AppendRange DEF Complete, TypeOK
  <2>3. settled' \subseteq Message /\ repeated' \subseteq settled'
    BY <1>2, SendEndsType DEF Complete
  <2> QED BY <1>1, <1>2, <2>2, <2>3 DEF Complete, TypeOK, Hands
<1>3. CASE CancelSend(w, m)
  BY <1>1, <1>3 DEF CancelSend, TypeOK, Hands
<1> QED BY <1>2, <1>3

LEMMA OperatorType ==
  ASSUME TypeOK, Hands, OpEnds \/ \E w \in Worker : OpNames(w) \/ OpMoves(w)
  PROVE  TypeOK' /\ Hands'
<1> USE DEF redis, input, mode, sends, bounds, history
<1>1. CASE OpEnds
  BY <1>1 DEF OpEnds, TypeOK, Hands
<1>2. ASSUME NEW w \in Worker, OpNames(w) PROVE TypeOK' /\ Hands'
  BY <1>2 DEF OpNames, TypeOK, Hands
<1>3. ASSUME NEW w \in Worker, OpMoves(w) PROVE TypeOK' /\ Hands'
  <2>1. queue' \in Seq(Message) /\ processing' \in [Worker -> Seq(Message)]
    BY <1>3, MoveBackType DEF OpMoves
  <2> QED BY <1>3, <2>1 DEF OpMoves, TypeOK, Hands
<1> QED BY <1>1, <1>2, <1>3

LEMMA PushType ==
  ASSUME TypeOK, Hands, Push
  PROVE  TypeOK' /\ Hands' /\ pushed' \in Message
<1>1. pushed' \in Message /\ pushed' \in 0..MaxMessages
  BY BoundsAreNaturals DEF Push, TypeOK, Message
<1>2. queue' \in Seq(Message)
  BY <1>1, AppendRange DEF Push, TypeOK
<1> QED BY <1>1, <1>2 DEF Push, mode, sends, bounds, history, TypeOK, Hands

LEMMA TypeStep == TypeOK /\ Hands /\ [Next]_vars => TypeOK' /\ Hands'
<1> SUFFICES ASSUME TypeOK, Hands, [Next]_vars PROVE TypeOK' /\ Hands'
  OBVIOUS
<1>1. CASE Push
  BY <1>1, PushType
<1>2. CASE \E w \in Worker : Lifecycle(w) \/ Reclaim(w) \/ Consumer(w)
  BY <1>2, LifecycleType, ReclaimType, ConsumerType
<1>3. CASE \E w \in Worker, m \in Message : Complete(w, m) \/ CancelSend(w, m)
  BY <1>3, LoopType
<1>4. CASE OpEnds \/ \E w \in Worker : OpNames(w) \/ OpMoves(w)
  BY <1>4, OperatorType
<1>5. CASE UNCHANGED vars
  BY <1>5 DEF vars, TypeOK, Hands
<1> QED BY <1>1, <1>2, <1>3, <1>4, <1>5 DEF Next

(***************************************************************************)
(* The state stays well typed, and a consumer that dispatches or           *)
(* acknowledges always has a message in its hands, through every kill.     *)
(***************************************************************************)
THEOREM TypeCorrect == Spec => []TypeOK
<1>1. Init => TypeOK /\ Hands
  BY InitType
<1>2. TypeOK /\ Hands /\ [Next]_vars => (TypeOK /\ Hands)'
  BY TypeStep
<1> QED BY <1>1, <1>2, PTL DEF Spec
-----------------------------------------------------------------------------
(***************************************************************************)
(* MAX_IN_FLIGHT.  The bound holds because nothing raises the count        *)
(* between the consumer's check in hold_for_capacity and the hand-over     *)
(* that takes the slot; every other step leaves it or lowers it.           *)
(***************************************************************************)
\* A consumer on its way to a hand-over has a slot for it.
SlotFree ==
  MaxInFlight > 0 =>
    \A w \in Worker : pc[w] \in {"retrying", "pop", "dispatch"} => inFlight[w] < MaxInFlight

LEMMA SlotsKept ==
  ASSUME TypeOK, WithinMaxInFlight, SlotFree,
         \A w \in Worker : inFlight'[w] \in Int /\ inFlight'[w] <= inFlight[w],
         \A w \in Worker : pc'[w] \in {"retrying", "pop", "dispatch"} =>
                           pc[w] \in {"retrying", "pop", "dispatch"}
  PROVE  WithinMaxInFlight' /\ SlotFree'
<1>1. MaxInFlight \in Nat /\ \A w \in Worker : inFlight[w] \in Int
  BY BoundsAreNaturals DEF TypeOK
<1> QED BY <1>1 DEF WithinMaxInFlight, SlotFree

LEMMA SlotsHandOver ==
  ASSUME NEW w \in Worker, TypeOK, WithinMaxInFlight, SlotFree, HandOver(w)
  PROVE  WithinMaxInFlight' /\ SlotFree'
<1>1. MaxInFlight \in Nat /\ \A v \in Worker : inFlight[v] \in Int
  BY BoundsAreNaturals DEF TypeOK
<1>2. pc[w] = "dispatch" /\ MaxInFlight > 0 => inFlight[w] < MaxInFlight
  BY DEF SlotFree
<1>3. CASE Scheduled(w) \/ DrivenInline(w) \/ Refused(w)
  <2>1. /\ pc[w] = "dispatch" /\ pc' = [pc EXCEPT ![w] = "top"]
        /\ inFlight' = [inFlight EXCEPT ![w] = @ + 1]
    BY <1>3 DEF Scheduled, DrivenInline, Refused, Handled, InHandOver, Goto
  <2>2. \A v \in Worker : /\ pc'[v] = IF v = w THEN "top" ELSE pc[v]
                          /\ inFlight'[v] = IF v = w THEN inFlight[w] + 1 ELSE inFlight[v]
    BY <2>1 DEF TypeOK
  <2>3. WithinMaxInFlight'
    BY <1>1, <1>2, <2>1, <2>2 DEF WithinMaxInFlight
  <2>4. SlotFree'
    BY <1>1, <2>2 DEF SlotFree
  <2> QED BY <2>3, <2>4
<1>4. CASE CancelledInline(w) \/ HandlerFailed(w)
  <2>1. /\ \A v \in Worker : pc'[v] \in {"top", "ack"} \/ pc'[v] = pc[v]
        /\ UNCHANGED inFlight
    BY <1>4 DEF CancelledInline, HandlerFailed, Handled, Goto, sends, TypeOK
  <2> QED BY <1>1, <2>1, SlotsKept
<1> QED BY <1>3, <1>4 DEF HandOver

LEMMA SlotsStep ==
  ASSUME TypeOK, WithinMaxInFlight, SlotFree, [Next]_vars
  PROVE  WithinMaxInFlight' /\ SlotFree'
<1> USE SlotsKept DEF sends, Goto
<1>1. MaxInFlight \in Nat /\ \A v \in Worker : inFlight[v] \in Int
  BY BoundsAreNaturals DEF TypeOK
<1>2. ASSUME NEW w \in Worker, CollectOne(w), UNCHANGED pc
      PROVE  WithinMaxInFlight' /\ SlotFree'
  <2>1. \A v \in Worker : inFlight'[v] \in Int /\ inFlight'[v] <= inFlight[v]
    BY <1>1, <1>2, SMTT(30) DEF CollectOne, TypeOK
  <2> QED BY <1>2, <2>1
<1>3. ASSUME NEW w \in Worker, Gone(w)
      PROVE  WithinMaxInFlight' /\ SlotFree'
  <2>1. /\ inFlight' = [inFlight EXCEPT ![w] = 0] /\ pc' = [pc EXCEPT ![w] = "off"]
    BY <1>3 DEF Gone
  <2> QED BY <1>1, <2>1 DEF WithinMaxInFlight, SlotFree, TypeOK
<1>4. ASSUME NEW w \in Worker, Lifecycle(w)
      PROVE  WithinMaxInFlight' /\ SlotFree'
  <2>1. CASE MainCollect(w)
    BY <1>2, <2>1 DEF MainCollect
  <2>2. CASE Exit(w) \/ Crash(w)
    BY <1>3, <2>2 DEF Exit, Crash
  <2>3. CASE Start(w) \/ StartConsumer(w) \/ Stop(w) \/ Joined(w) \/ Closed(w)
    BY <1>1, <2>3 DEF Start, StartConsumer, Stop, Joined, Closed, TypeOK
  <2> QED BY <1>4, <2>1, <2>2, <2>3 DEF Lifecycle
<1>5. ASSUME NEW w \in Worker, Reclaim(w)
      PROVE  WithinMaxInFlight' /\ SlotFree'
  <2>1. UNCHANGED inFlight
    BY <1>5 DEF Reclaim, ReclaimMove, ReclaimSettled, ReclaimFailed
  <2>2. CASE UNCHANGED pc
    BY <1>1, <2>1, <2>2
  <2>3. CASE InReclaim(w) /\ \E s, d \in BOOLEAN : AfterReclaim(w, s, d)
    <3>1. \A v \in Worker : pc'[v] \in {"retrying", "pop", "dispatch"} =>
                            pc[v] \in {"retrying", "pop", "dispatch"}
      <4>1. CASE pc[w] = "preflight"
        BY <2>3, <4>1 DEF AfterReclaim, TypeOK
      <4>2. CASE pc[w] # "preflight"
        BY <2>3, <4>2 DEF AfterReclaim, InReclaim, TypeOK
      <4> QED BY <4>1, <4>2
    <3> QED BY <1>1, <2>1, <3>1
  <2> QED BY <1>5, <2>2, <2>3, FlagsAreBooleans
          DEF Reclaim, ReclaimMove, ReclaimSettled, ReclaimFailed
<1>6. ASSUME NEW w \in Worker, Consumer(w)
      PROVE  WithinMaxInFlight' /\ SlotFree'
  <2>1. CASE Collect(w)
    BY <1>2, <2>1 DEF Collect
  <2>2. CASE HandOver(w)
    BY <2>2, SlotsHandOver
  <2>3. CASE LeaveHold(w)
    <3>1. /\ pc[w] = "hold" /\ UNCHANGED inFlight
          /\ \E to \in {"last", "pop", "retrying"} : pc' = [pc EXCEPT ![w] = to]
          /\ pc'[w] # "last" => ~AtCapacity(w)
      BY <2>3 DEF LeaveHold, ConsumerMoves, TypeOK
    <3> QED BY <1>1, <3>1 DEF AtCapacity, WithinMaxInFlight, SlotFree, TypeOK
  <2>4. CASE Top(w) \/ Collected(w) \/ Finish(w)
    <3>1. /\ UNCHANGED inFlight
          /\ \E to : to \notin {"retrying", "pop", "dispatch"} /\ pc' = [pc EXCEPT ![w] = to]
      BY <2>4 DEF Top, Collected, Finish, ConsumerMoves
    <3> QED BY <1>1, <3>1 DEF TypeOK
  <2>5. CASE Pop(w) \/ PopNothing(w) \/ Drop(w) \/ Keep(w) \/ Ack(w)
    <3>1. /\ UNCHANGED inFlight
          /\ \/ pc[w] = "pop" /\ pc' = [pc EXCEPT ![w] = "dispatch"]
             \/ \E to \in {"top", "ack"} : pc' = [pc EXCEPT ![w] = to]
      <4>1. CASE Pop(w)
        BY <4>1 DEF Pop
      <4>2. CASE PopNothing(w)
        BY <4>2 DEF PopNothing
      <4>3. CASE Drop(w)
        BY <4>3 DEF Drop
      <4>4. CASE Keep(w)
        BY <4>4 DEF Keep
      <4>5. CASE Ack(w)
        BY <4>5 DEF Ack
      <4> QED BY <2>5, <4>1, <4>2, <4>3, <4>4, <4>5
    <3> QED BY <1>1, <3>1 DEF TypeOK
  <2> QED BY <1>6, <2>1, <2>2, <2>3, <2>4, <2>5 DEF Consumer
<1>7. ASSUME NEW w \in Worker, NEW m \in Message, Complete(w, m) \/ CancelSend(w, m)
      PROVE  WithinMaxInFlight' /\ SlotFree'
  BY <1>1, <1>7 DEF Complete, CancelSend
<1>8. CASE Push \/ OpEnds \/ \E w \in Worker : OpNames(w) \/ OpMoves(w)
  BY <1>1, <1>8 DEF Push, OpEnds, OpNames, OpMoves
<1>9. CASE UNCHANGED vars
  BY <1>1, <1>9 DEF vars
<1> QED BY <1>4, <1>5, <1>6, <1>7, <1>8, <1>9 DEF Next

(***************************************************************************)
(* MAX_IN_FLIGHT is never exceeded: not by a late completion, a refusal, a *)
(* cancelled hand-over or the collect that follows close().                *)
(***************************************************************************)
THEOREM InFlightIsBounded == Spec => []WithinMaxInFlight
<1> DEFINE Inv == TypeOK /\ Hands /\ WithinMaxInFlight /\ SlotFree
<1>1. Init => Inv
  <2>1. Init => WithinMaxInFlight /\ SlotFree
    BY BoundsAreNaturals DEF Init, WithinMaxInFlight, SlotFree
  <2> QED BY <2>1, InitType
<1>2. Inv /\ [Next]_vars => Inv'
  BY TypeStep, SlotsStep
<1>3. Inv => WithinMaxInFlight
  OBVIOUS
<1> QED BY <1>1, <1>2, <1>3, PTL DEF Spec
-----------------------------------------------------------------------------
\* The two relations between the messages of a list.
Different == {p \in Message \X Message : p[1] # p[2]}
Before    == {p \in Message \X Message : p[1] < p[2]}

\* What the Redis commands of the system do to the lists.
Takes(w) ==
  /\ queue # <<>>
  /\ queue' = Tail(queue)
  /\ \/ processing' = [processing EXCEPT ![w] = Append(@, Head(queue))]
     \/ UNCHANGED processing

Removes(w, m) ==
  /\ UNCHANGED queue
  /\ processing' = [processing EXCEPT ![w] = RemoveFirst(@, m)]

RedisStep ==
  \/ Push
  \/ /\ UNCHANGED pushed
     /\ \/ UNCHANGED redis
        \/ \E w \in Worker : MoveBack(w) \/ Takes(w)
        \/ \E w \in Worker, m \in Message : Removes(w, m)

LEMMA AcknowledgeIsRedisStep ==
  ASSUME NEW w \in Worker, NEW m \in Message, Acknowledge(w, m), UNCHANGED pushed
  PROVE  RedisStep
  BY DEF Acknowledge, RedisStep, Removes, redis

LEMMA CollectIsRedisStep ==
  ASSUME NEW w \in Worker, TypeOK, CollectOne(w)
  PROVE  RedisStep
<1>1. UNCHANGED pushed /\ Head(finished[w]) \in Report
  BY TailRange DEF CollectOne, TypeOK, input
<1>2. CASE Head(finished[w]).delivered
  <2>1. Head(finished[w]).msg \in Message
    BY <1>1 DEF Report
  <2> QED BY <1>1, <1>2, <2>1, AcknowledgeIsRedisStep DEF CollectOne
<1>3. CASE ~Head(finished[w]).delivered
  BY <1>1, <1>3 DEF CollectOne, RedisStep
<1> QED BY <1>2, <1>3

\* Every step of the system is a Redis command of one of four kinds, or none.
LEMMA StepIsRedisStep ==
  ASSUME TypeOK, Hands, [Next]_vars
  PROVE  RedisStep
<1> USE DEF input
<1>1. ASSUME NEW w \in Worker, Lifecycle(w) PROVE RedisStep
  <2>1. CASE MainCollect(w)
    BY <2>1, CollectIsRedisStep DEF MainCollect
  <2>2. CASE ~MainCollect(w)
    BY <1>1, <2>2
    DEF Lifecycle, Start, StartConsumer, Stop, Joined, Closed, Exit, Crash, Gone, RedisStep
  <2> QED BY <2>1, <2>2
<1>2. ASSUME NEW w \in Worker, Reclaim(w) PROVE RedisStep
  BY <1>2 DEF Reclaim, ReclaimMove, ReclaimSettled, ReclaimFailed, RedisStep
<1>3. ASSUME NEW w \in Worker, Consumer(w) PROVE RedisStep
  <2>1. CASE Collect(w)
    BY <2>1, CollectIsRedisStep DEF Collect
  <2>2. CASE Pop(w)
    BY <2>2 DEF Pop, RedisStep, Takes
  <2>3. CASE Ack(w)
    <3>1. raw[w] \in Message /\ UNCHANGED pushed /\ Acknowledge(w, raw[w])
      BY <2>3 DEF Ack, Hands
    <3> QED BY <3>1, AcknowledgeIsRedisStep
  <2>4. CASE HandOver(w)
    BY <2>4 DEF HandOver, Scheduled, DrivenInline, Refused, CancelledInline, HandlerFailed,
                Handled, RedisStep
  <2>5. CASE Top(w) \/ Collected(w) \/ LeaveHold(w) \/ Finish(w) \/ PopNothing(w) \/ Drop(w) \/ Keep(w)
    BY <2>5 DEF Top, Collected, LeaveHold, Finish, ConsumerMoves, PopNothing, Drop, Keep, RedisStep
  <2> QED BY <1>3, <2>1, <2>2, <2>3, <2>4, <2>5 DEF Consumer
<1>4. ASSUME NEW w \in Worker, NEW m \in Message, Complete(w, m) \/ CancelSend(w, m)
      PROVE  RedisStep
  BY <1>4 DEF Complete, CancelSend, RedisStep
<1>5. CASE Push
  BY <1>5 DEF RedisStep
<1>6. CASE OpEnds \/ \E w \in Worker : OpNames(w) \/ OpMoves(w)
  BY <1>6 DEF OpEnds, OpNames, OpMoves, RedisStep
<1>7. CASE UNCHANGED vars
  BY <1>7 DEF vars, RedisStep, redis
<1> QED BY <1>1, <1>2, <1>3, <1>4, <1>5, <1>6, <1>7 DEF Next

(***************************************************************************)
(* The lists hold pushed messages only, one copy of each, and with one     *)
(* worker all it holds was pushed before all that waits.                   *)
(***************************************************************************)
OnlyPushedListed ==
  /\ Range(queue) \subseteq 1..pushed
  /\ \A w \in Worker : Range(processing[w]) \subseteq 1..pushed

Unique ==
  /\ Linked(queue, Different)
  /\ \A w \in Worker : /\ Linked(processing[w], Different)
                       /\ Range(queue) \cap Range(processing[w]) = {}
  /\ \A v, w \in Worker : v # w => Range(processing[v]) \cap Range(processing[w]) = {}

Ascending ==
  (\A v, w \in Worker : v = w) =>
    /\ Linked(queue, Before)
    /\ \A w \in Worker : /\ Linked(processing[w], Before)
                         /\ \A x \in Range(processing[w]), y \in Range(queue) : x < y

InOrder == OnlyPushedListed /\ Unique /\ Ascending

LEMMA RangeInMessage ==
  ASSUME NEW s \in Seq(Message)
  PROVE  Range(s) \subseteq Message
  BY DEF Range

LEMMA PushInOrder ==
  ASSUME TypeOK, InOrder, Push
  PROVE  InOrder'
<1>1. /\ pushed \in Nat /\ pushed' = pushed + 1 /\ pushed' \in Message
      /\ UNCHANGED processing
  BY BoundsAreNaturals DEF Push, TypeOK, Message
<1>2. queue \in Seq(Message) /\ queue' = Append(queue, pushed') /\ Range(queue) \subseteq Message
  BY RangeInMessage DEF Push, TypeOK
<1>3. Range(queue') = Range(queue) \cup {pushed'}
  BY <1>1, <1>2, AppendRange
<1>4. \A x \in Range(queue) : x \in Nat /\ x < pushed' /\ <<x, pushed'>> \in Before
  BY <1>1, <1>2 DEF InOrder, OnlyPushedListed, Before, Message
<1>5. \A x \in Range(queue) : <<x, pushed'>> \in Different
  BY <1>1, <1>2, <1>4 DEF Different
<1>6. OnlyPushedListed'
  BY <1>1, <1>3 DEF InOrder, OnlyPushedListed
<1>7. Linked(queue, Different) => Linked(queue', Different)
  BY <1>1, <1>2, <1>5, AppendLinked
<1>8. Linked(queue, Before) => Linked(queue', Before)
  BY <1>1, <1>2, <1>4, AppendLinked
<1>9. \A w \in Worker : \A x \in Range(processing[w]) : x \in 1..pushed /\ x < pushed'
  BY <1>1 DEF InOrder, OnlyPushedListed
<1>10. Unique'
  BY <1>1, <1>3, <1>7, <1>9 DEF InOrder, Unique
<1>11. Ascending'
  BY <1>1, <1>3, <1>8, <1>9 DEF InOrder, Ascending
<1> QED BY <1>6, <1>10, <1>11 DEF InOrder

LEMMA MoveBackInOrder ==
  ASSUME NEW w \in Worker, TypeOK, InOrder, MoveBack(w), UNCHANGED pushed
  PROVE  InOrder'
<1> DEFINE p == processing[w]
           e == Last(p)
<1>1. /\ p \in Seq(Message) /\ p # <<>> /\ queue \in Seq(Message)
      /\ queue' = <<e>> \o queue /\ processing'[w] = Front(p)
      /\ \A v \in Worker \ {w} : processing'[v] = processing[v]
  BY DEF MoveBack, TypeOK
<1>2. /\ e \in Message /\ Range(p) = {e} \cup Range(Front(p))
      /\ Range(queue') = {e} \cup Range(queue)
      /\ Range(queue) \subseteq Message /\ Range(Front(p)) \subseteq Message
  BY <1>1, FrontRange, ConsRange, RangeInMessage
<1>3. \A x \in Range(queue) : x # e /\ <<e, x>> \in Different
  BY <1>1, <1>2 DEF InOrder, Unique, Different
<1>4. /\ Linked(queue', Different) /\ Linked(Front(p), Different)
      /\ \A x \in Range(Front(p)) : <<x, e>> \in Different
  BY <1>1, <1>2, <1>3, ConsLinked, FrontLinked DEF InOrder, Unique
<1>5. e \notin Range(Front(p))
  BY <1>4 DEF Different
<1> HIDE DEF p, e
<1>6. \A v \in Worker : Range(processing'[v]) \subseteq Range(processing[v])
                        /\ (v # w => e \notin Range(processing[v]))
  BY <1>1, <1>2 DEF InOrder, Unique, p
<1>7. OnlyPushedListed'
  BY <1>1, <1>2, <1>6 DEF InOrder, OnlyPushedListed, p
<1>8. Unique'
  <2>1. \A v \in Worker : Linked(processing'[v], Different)
    BY <1>1, <1>4 DEF InOrder, Unique
  <2>2. \A v \in Worker : e \notin Range(processing'[v])
    BY <1>1, <1>5, <1>6
  <2> QED BY <1>2, <1>4, <1>6, <2>1, <2>2 DEF InOrder, Unique
<1>9. Ascending'
  <2>1. SUFFICES ASSUME \A u, v \in Worker : u = v
                 PROVE  /\ Linked(queue', Before)
                        /\ \A v \in Worker :
                             /\ Linked(processing'[v], Before)
                             /\ \A x \in Range(processing'[v]), y \in Range(queue') : x < y
    BY DEF Ascending
  <2>2. /\ Linked(queue, Before) /\ Linked(p, Before)
        /\ \A x \in Range(p), y \in Range(queue) : x < y
    BY <2>1 DEF InOrder, Ascending, p
  <2>3. /\ Linked(Front(p), Before) /\ \A x \in Range(Front(p)) : <<x, e>> \in Before
    BY <1>1, <2>2, FrontLinked DEF e
  <2>4. \A x \in Range(queue) : <<e, x>> \in Before
    BY <1>2, <2>2 DEF Before
  <2>5. Linked(queue', Before)
    BY <1>1, <1>2, <2>2, <2>4, ConsLinked
  <2>6. \A x \in Range(Front(p)), y \in Range(queue') : x < y
    BY <1>2, <2>2, <2>3 DEF Before
  <2> QED BY <1>1, <2>1, <2>3, <2>5, <2>6
<1> QED BY <1>7, <1>8, <1>9 DEF InOrder

LEMMA TakesInOrder ==
  ASSUME NEW w \in Worker, TypeOK, InOrder, Takes(w), UNCHANGED pushed
  PROVE  InOrder'
<1> DEFINE p == processing[w]
           e == Head(queue)
<1>1. /\ queue \in Seq(Message) /\ queue # <<>> /\ p \in Seq(Message)
      /\ queue' = Tail(queue)
      /\ processing'[w] = Append(p, e) \/ processing'[w] = p
      /\ \A v \in Worker \ {w} : processing'[v] = processing[v]
  BY DEF Takes, TypeOK
<1>2. /\ e \in Message /\ Range(queue) = {e} \cup Range(queue')
      /\ Range(Append(p, e)) = Range(p) \cup {e}
      /\ Range(queue) \subseteq Message /\ Range(p) \subseteq Message
  BY <1>1, TailRange, AppendRange, RangeInMessage
<1>3. /\ Linked(queue', Different)
      /\ \A x \in Range(queue') : <<e, x>> \in Different
  BY <1>1, TailLinked DEF InOrder, Unique
<1>4. e \notin Range(queue')
  BY <1>3 DEF Different
<1>5. \A v \in Worker : e \notin Range(processing[v])
  BY <1>2 DEF InOrder, Unique
<1>6. Linked(Append(p, e), Different)
  <2>1. \A x \in Range(p) : <<x, e>> \in Different
    BY <1>2, <1>5 DEF Different
  <2> QED BY <1>1, <1>2, <2>1, AppendLinked DEF InOrder, Unique
<1> HIDE DEF p, e
<1>7. \A v \in Worker : Range(processing'[v]) \subseteq Range(processing[v]) \cup {e}
                        /\ (v # w => processing'[v] = processing[v])
  BY <1>1, <1>2 DEF p
<1>8. OnlyPushedListed'
  BY <1>2, <1>7 DEF InOrder, OnlyPushedListed
<1>9. Unique'
  <2>1. \A v \in Worker : Linked(processing'[v], Different)
    BY <1>1, <1>6 DEF InOrder, Unique, p
  <2> QED BY <1>2, <1>3, <1>4, <1>5, <1>7, <2>1 DEF InOrder, Unique
<1>10. Ascending'
  <2>1. SUFFICES ASSUME \A u, v \in Worker : u = v
                 PROVE  /\ Linked(queue', Before)
                        /\ \A v \in Worker :
                             /\ Linked(processing'[v], Before)
                             /\ \A x \in Range(processing'[v]), y \in Range(queue') : x < y
    BY DEF Ascending
  <2>2. /\ Linked(queue, Before) /\ Linked(p, Before)
        /\ \A x \in Range(p), y \in Range(queue) : x < y
    BY <2>1 DEF InOrder, Ascending, p
  <2>3. /\ Linked(queue', Before) /\ \A x \in Range(queue') : <<e, x>> \in Before
    BY <1>1, <2>2, TailLinked DEF e
  <2>4. \A x \in Range(p) : <<x, e>> \in Before
    BY <1>2, <2>2 DEF Before
  <2>5. Linked(Append(p, e), Before)
    BY <1>1, <1>2, <2>2, <2>4, AppendLinked
  <2>6. \A x \in Range(p) \cup {e}, y \in Range(queue') : x < y
    BY <1>2, <2>2, <2>3 DEF Before
  <2> QED BY <1>1, <1>2, <2>1, <2>2, <2>3, <2>5, <2>6
<1> QED BY <1>8, <1>9, <1>10 DEF InOrder

LEMMA RemovesInOrder ==
  ASSUME NEW w \in Worker, NEW m \in Message, TypeOK, InOrder, Removes(w, m), UNCHANGED pushed
  PROVE  InOrder'
<1> DEFINE p == processing[w]
           q == RemoveFirst(p, m)
<1>1. /\ p \in Seq(Message) /\ processing'[w] = q /\ queue' = queue
      /\ \A v \in Worker \ {w} : processing'[v] = processing[v]
  BY DEF Removes, TypeOK
<1>2. Range(q) \subseteq Range(p)
  BY <1>1, RemoveFirstRange
<1>3. \A R : Linked(p, R) => Linked(q, R)
  BY <1>1, RemoveFirstLinked
<1> HIDE DEF p, q
<1>4. \A v \in Worker : /\ Range(processing'[v]) \subseteq Range(processing[v])
                        /\ \A R : Linked(processing[v], R) => Linked(processing'[v], R)
  BY <1>1, <1>2, <1>3 DEF p
<1>5. OnlyPushedListed'
  BY <1>1, <1>4 DEF InOrder, OnlyPushedListed
<1>6. Unique'
  BY <1>1, <1>4 DEF InOrder, Unique
<1>7. Ascending'
  BY <1>1, <1>4 DEF InOrder, Ascending
<1> QED BY <1>5, <1>6, <1>7 DEF InOrder

LEMMA InOrderStep ==
  ASSUME TypeOK, Hands, InOrder, [Next]_vars
  PROVE  InOrder'
<1>1. RedisStep
  BY StepIsRedisStep
<1>2. CASE UNCHANGED <<redis, pushed>>
  BY <1>2 DEF redis, InOrder, OnlyPushedListed, Unique, Ascending
<1> QED BY <1>1, <1>2, PushInOrder, MoveBackInOrder, TakesInOrder, RemovesInOrder DEF RedisStep

LEMMA InitInOrder == Init => InOrder
<1>1. Range(<<>>) = {} /\ Linked(<<>>, Different) /\ Linked(<<>>, Before)
  BY EmptyLinked DEF Range
<1> QED BY <1>1 DEF Init, InOrder, OnlyPushedListed, Unique, Ascending

\* A list without repetition, in the words of the community modules.
LEMMA DifferentIsInjective ==
  ASSUME NEW s \in Seq(Message), Linked(s, Different)
  PROVE  IsInjective(s)
<1>1. SUFFICES ASSUME NEW i \in 1..Len(s), NEW j \in 1..Len(s), s[i] = s[j], i # j
               PROVE  FALSE
  BY DEF IsInjective
<1>2. i < j \/ j < i
  BY <1>1
<1>3. <<s[i], s[j]>> \in Different \/ <<s[j], s[i]>> \in Different
  BY <1>2 DEF Linked
<1> QED BY <1>1, <1>3 DEF Different

(***************************************************************************)
(* A message is never in two places at once: racing pops, reclaims and     *)
(* tgbot_reclaim each move the one copy Redis has (BLMOVE, LMOVE), and the  *)
(* LREM of an acknowledgement takes that copy and no other message.        *)
(***************************************************************************)
THEOREM MessagesAreNeverCopied == Spec => []OneCopy
<1> DEFINE Inv == TypeOK /\ Hands /\ InOrder
<1>1. Init => Inv
  BY InitType, InitInOrder
<1>2. Inv /\ [Next]_vars => Inv'
  BY TypeStep, InOrderStep
<1>3. Inv => OneCopy
  BY DifferentIsInjective DEF InOrder, Unique, OneCopy, TypeOK
<1> QED BY <1>1, <1>2, <1>3, PTL DEF Spec

(***************************************************************************)
(* With one worker, what it holds was pushed before all that waits, and    *)
(* both lists are in the order of the pushes, after any kill, shutdown or  *)
(* partial reclaim: moving back from the right end to the left end is what *)
(* reclaim() relies on.                                                    *)
(***************************************************************************)
THEOREM OrderIsKept == Spec => []PushOrderKept
<1> DEFINE Inv == TypeOK /\ Hands /\ InOrder
<1>1. Init => Inv
  BY InitType, InitInOrder
<1>2. Inv /\ [Next]_vars => Inv'
  BY TypeStep, InOrderStep
<1>3. Inv => PushOrderKept
  <2>1. SUFFICES ASSUME Inv, \A v, w \in Worker : v = w, NEW w \in Worker
                 PROVE  LET all == processing[w] \o queue
                        IN  \A i, j \in DOMAIN all : i < j => all[i] < all[j]
    BY DEF PushOrderKept
  <2>2. /\ queue \in Seq(Message) /\ processing[w] \in Seq(Message)
        /\ Linked(queue, Before) /\ Linked(processing[w], Before)
        /\ \A x \in Range(processing[w]), y \in Range(queue) : x < y
        /\ Range(queue) \subseteq Message /\ Range(processing[w]) \subseteq Message
    BY <2>1, RangeInMessage DEF InOrder, Ascending, TypeOK
  <2>3. Linked(processing[w] \o queue, Before)
    <3>1. \A x \in Range(processing[w]), y \in Range(queue) : <<x, y>> \in Before
      BY <2>2 DEF Before
    <3> QED BY <2>2, <3>1, ConcatLinked
  <2> QED BY <2>3 DEF Linked, Before
<1> QED BY <1>1, <1>2, <1>3, PTL DEF Spec
-----------------------------------------------------------------------------
(***************************************************************************)
(* The slots.  What is outstanding is counted when it starts and given     *)
(* back when its report is drained; only the cancellations of close() end  *)
(* a send that nobody reports, in a process that takes nothing more.       *)
(***************************************************************************)
Outstanding(w) == SumFunction(sending[w]) + Len(finished[w])

\* The preflight check runs before anything else of its process.
PreflightFirst == \A w \in Worker : pc[w] = "preflight" => main[w] = "preflight"

SlotsHeld ==
  \A w \in Worker :
    /\ inFlight[w] >= Outstanding(w)
    /\ main[w] \in {"down", "preflight", "running", "joining"} => inFlight[w] = Outstanding(w)

LEMMA MessagesAreFinite == IsFiniteSet(Message)
<1>1. MaxMessages \in Int /\ 1 \in Int
  BY BoundsAreNaturals
<1> QED BY <1>1, FS_Interval DEF Message

LEMMA SendsAreNats ==
  ASSUME TypeOK, NEW w \in Worker
  PROVE  /\ IsFiniteSet(Message) /\ sending[w] \in [Message -> Nat]
         /\ SumFunction(sending[w]) \in Nat /\ Len(finished[w]) \in Nat
         /\ inFlight[w] \in Int
<1>1. IsFiniteSet(Message)
  BY MessagesAreFinite
<1>2. sending[w] \in [Message -> Nat] /\ finished[w] \in Seq(Report) /\ inFlight[w] \in Int
  BY DEF TypeOK
<1> QED BY <1>1, <1>2, SumOfNats, LenProperties

\* A step that changes what at most one worker has outstanding, and how.
LEMMA SlotsOfOne ==
  ASSUME NEW w \in Worker, SlotsHeld,
         \A v \in Worker \ {w} : /\ sending'[v] = sending[v] /\ finished'[v] = finished[v]
                                 /\ inFlight'[v] = inFlight[v] /\ main'[v] = main[v],
         /\ inFlight'[w] >= Outstanding(w)'
         /\ main'[w] \in {"down", "preflight", "running", "joining"} =>
              inFlight'[w] = Outstanding(w)'
  PROVE  SlotsHeld'
<1>1. \A v \in Worker \ {w} : Outstanding(v)' = Outstanding(v)
  BY DEF Outstanding
<1> QED BY <1>1 DEF SlotsHeld

LEMMA SlotsKeptIdle ==
  ASSUME SlotsHeld, UNCHANGED sends,
         \A w \in Worker : main'[w] \in {"down", "preflight", "running", "joining"} =>
                             main[w] \in {"down", "preflight", "running", "joining"}
  PROVE  SlotsHeld'
<1>1. \A w \in Worker : Outstanding(w)' = Outstanding(w)
  BY DEF Outstanding, sends
<1> QED BY <1>1 DEF SlotsHeld, sends

LEMMA SlotsCollect ==
  ASSUME NEW w \in Worker, TypeOK, SlotsHeld, CollectOne(w)
  PROVE  SlotsHeld'
<1>1. /\ finished[w] \in Seq(Report) /\ finished[w] # <<>> /\ UNCHANGED <<main, sending>>
      /\ finished' = [finished EXCEPT ![w] = Tail(@)]
      /\ inFlight' = [inFlight EXCEPT ![w] = @ - 1]
  BY DEF CollectOne, TypeOK
<1>2. Len(Tail(finished[w])) = Len(finished[w]) - 1
  BY <1>1, HeadTailProperties
<1>3. finished'[w] = Tail(finished[w]) /\ inFlight'[w] = inFlight[w] - 1
  BY <1>1 DEF TypeOK
<1>4. /\ SumFunction(sending[w]) \in Nat /\ Len(finished[w]) \in Nat /\ inFlight[w] \in Int
  BY SendsAreNats
<1>5. Outstanding(w)' = Outstanding(w) - 1 /\ Outstanding(w) \in Nat
  <2>1. Outstanding(w)' = SumFunction(sending[w]) + (Len(finished[w]) - 1)
    BY <1>1, <1>2, <1>3 DEF Outstanding
  <2> QED BY <1>4, <2>1 DEF Outstanding
<1>6. /\ inFlight'[w] >= Outstanding(w)'
      /\ main'[w] \in {"down", "preflight", "running", "joining"} => inFlight'[w] = Outstanding(w)'
  BY <1>1, <1>3, <1>4, <1>5 DEF SlotsHeld
<1> QED BY <1>1, <1>6, SlotsOfOne DEF TypeOK

LEMMA NothingOutstanding ==
  ASSUME IsFiniteSet(Message)
  PROVE  SumFunction([m \in Message |-> 0]) = 0
  BY SumZero

LEMMA SlotsGone ==
  ASSUME NEW w \in Worker, TypeOK, SlotsHeld, Gone(w)
  PROVE  SlotsHeld'
<1>1. /\ sending'[w] = [m \in Message |-> 0] /\ finished'[w] = <<>> /\ inFlight'[w] = 0
      /\ \A v \in Worker \ {w} : /\ sending'[v] = sending[v] /\ finished'[v] = finished[v]
                                 /\ inFlight'[v] = inFlight[v] /\ main'[v] = main[v]
  BY DEF Gone, TypeOK
<1>2. Outstanding(w)' = 0
  BY <1>1, SendsAreNats, NothingOutstanding DEF Outstanding
<1> QED BY <1>1, <1>2, SlotsOfOne

LEMMA SlotsTaken ==
  ASSUME NEW w \in Worker, NEW m \in Message, TypeOK, SlotsHeld,
         UNCHANGED <<main, finished>>,
         inFlight' = [inFlight EXCEPT ![w] = @ + 1],
         sending' = [sending EXCEPT ![w][m] = @ + 1]
  PROVE  SlotsHeld'
<1>1. /\ inFlight'[w] = inFlight[w] + 1
      /\ sending'[w] = [sending[w] EXCEPT ![m] = sending[w][m] + 1]
  BY DEF TypeOK
<1>2. /\ sending[w][m] \in Nat /\ SumFunction(sending[w]) \in Nat
      /\ Len(finished[w]) \in Nat /\ inFlight[w] \in Int
      /\ sending[w] \in [Message -> Int] /\ IsFiniteSet(Message)
  BY SendsAreNats
<1>3. SumFunction(sending'[w]) = SumFunction(sending[w]) - sending[w][m] + (sending[w][m] + 1)
  <2>1. PICK n \in Int : n = sending[w][m] + 1
    BY <1>2
  <2>2. sending'[w] = [sending[w] EXCEPT ![m] = n]
    BY <1>1, <2>1
  <2>3. SumFunction(sending'[w]) = SumFunction(sending[w]) - sending[w][m] + n
    BY <1>2, <2>2, SumExcept
  <2> QED BY <2>1, <2>3
<1>4. Outstanding(w)' = Outstanding(w) + 1 /\ Outstanding(w) \in Nat
  <2>1. Outstanding(w)' = SumFunction(sending'[w]) + Len(finished[w])
    BY DEF Outstanding
  <2> QED BY <1>2, <1>3, <2>1 DEF Outstanding
<1>5. /\ inFlight'[w] >= Outstanding(w)'
      /\ main'[w] \in {"down", "preflight", "running", "joining"} => inFlight'[w] = Outstanding(w)'
  BY <1>1, <1>2, <1>4 DEF SlotsHeld
<1> QED BY <1>5, SlotsOfOne DEF TypeOK

LEMMA SlotsScheduled ==
  ASSUME NEW w \in Worker, TypeOK, Hands, SlotsHeld, Scheduled(w)
  PROVE  SlotsHeld'
<1>1. raw[w] \in Message
  BY DEF Scheduled, Handled, InHandOver, Hands
<1> QED BY <1>1, SlotsTaken DEF Scheduled, Handled

\* A hand-over that is reported on the spot.
LEMMA SlotsReported ==
  ASSUME NEW w \in Worker, TypeOK, Hands, SlotsHeld, DrivenInline(w) \/ Refused(w)
  PROVE  SlotsHeld'
<1>1. PICK d \in BOOLEAN :
        /\ raw[w] \in Message /\ UNCHANGED <<main, sending>>
        /\ inFlight' = [inFlight EXCEPT ![w] = @ + 1]
        /\ finished' = [finished EXCEPT ![w] = Append(@, [msg |-> raw[w], delivered |-> d])]
  BY DEF DrivenInline, Refused, Handled, InHandOver, Hands
<1>2. finished[w] \in Seq(Report) /\ [msg |-> raw[w], delivered |-> d] \in Report
  BY <1>1 DEF TypeOK, Report
<1>3. /\ inFlight'[w] = inFlight[w] + 1
      /\ Len(finished'[w]) = Len(finished[w]) + 1
  BY <1>1, <1>2, AppendProperties DEF TypeOK
<1>4. Outstanding(w)' = Outstanding(w) + 1 /\ Outstanding(w) \in Nat /\ inFlight[w] \in Int
  BY <1>1, <1>3, SendsAreNats DEF Outstanding
<1>5. /\ inFlight'[w] >= Outstanding(w)'
      /\ main'[w] \in {"down", "preflight", "running", "joining"} => inFlight'[w] = Outstanding(w)'
  BY <1>1, <1>3, <1>4 DEF SlotsHeld
<1> QED BY <1>1, <1>5, SlotsOfOne DEF TypeOK

LEMMA SlotsLoop ==
  ASSUME NEW w \in Worker, NEW m \in Message, TypeOK, SlotsHeld,
         Complete(w, m) \/ CancelSend(w, m)
  PROVE  SlotsHeld'
<1>1. /\ sending[w][m] > 0 /\ UNCHANGED <<main, inFlight>>
      /\ sending' = [sending EXCEPT ![w][m] = @ - 1]
  BY DEF Complete, CancelSend
<1>2. sending'[w] = [sending[w] EXCEPT ![m] = sending[w][m] - 1]
  BY <1>1 DEF TypeOK
<1>3. /\ sending[w][m] \in Nat /\ SumFunction(sending[w]) \in Nat
      /\ Len(finished[w]) \in Nat /\ inFlight[w] \in Int
      /\ sending[w] \in [Message -> Int] /\ IsFiniteSet(Message)
  BY SendsAreNats
<1>4. SumFunction(sending'[w]) = SumFunction(sending[w]) - sending[w][m] + (sending[w][m] - 1)
  BY <1>2, <1>3, SumExcept
<1>5. CASE Complete(w, m)
  <2>1. finished' = [finished EXCEPT ![w] = Append(@, [msg |-> m, delivered |-> TRUE])]
    BY <1>5 DEF Complete
  <2>2. finished[w] \in Seq(Report) /\ [msg |-> m, delivered |-> TRUE] \in Report
    BY DEF TypeOK, Report
  <2>3. Len(finished'[w]) = Len(finished[w]) + 1
    BY <2>1, <2>2, AppendProperties DEF TypeOK
  <2>4. Outstanding(w)' = Outstanding(w)
    BY <1>3, <1>4, <2>3 DEF Outstanding
  <2> QED BY <1>1, <2>1, <2>4, SlotsOfOne DEF SlotsHeld, TypeOK
<1>6. CASE CancelSend(w, m)
  <2>1. main[w] = "closing" /\ UNCHANGED finished
    BY <1>6 DEF CancelSend
  <2>2. Outstanding(w)' = Outstanding(w) - 1 /\ Outstanding(w) \in Nat
    BY <1>3, <1>4, <2>1 DEF Outstanding
  <2>3. inFlight'[w] >= Outstanding(w)'
    BY <1>1, <1>3, <2>2 DEF SlotsHeld
  <2> QED BY <1>1, <2>1, <2>3, SlotsOfOne DEF TypeOK
<1> QED BY <1>5, <1>6

LEMMA PreflightStep ==
  ASSUME TypeOK, PreflightFirst, [Next]_vars
  PROVE  PreflightFirst'
<1> USE DEF PreflightFirst, Goto
<1>1. ASSUME NEW w \in Worker, Lifecycle(w) PROVE PreflightFirst'
  <2>1. CASE Start(w) \/ StartConsumer(w) \/ Stop(w)
    BY <2>1 DEF Start, StartConsumer, Stop, TypeOK
  <2>2. CASE Joined(w) \/ Closed(w)
    BY <2>2 DEF Joined, Closed, TypeOK
  <2>3. CASE MainCollect(w) \/ Exit(w) \/ Crash(w)
    BY <2>3 DEF MainCollect, CollectOne, Exit, Crash, Gone, TypeOK
  <2> QED BY <1>1, <2>1, <2>2, <2>3 DEF Lifecycle
<1>2. ASSUME NEW w \in Worker, Reclaim(w) PROVE PreflightFirst'
  <2>1. CASE ReclaimMove(w)
    BY <2>1 DEF ReclaimMove
  <2>2. CASE ReclaimSettled(w) \/ ReclaimFailed(w)
    <3>1. /\ \A v \in Worker \ {w} : pc'[v] = pc[v] /\ main'[v] = main[v]
          /\ pc'[w] # "preflight"
      <4>1. CASE pc[w] = "preflight"
        BY <2>2, <4>1 DEF ReclaimSettled, ReclaimFailed, AfterReclaim, TypeOK
      <4>2. CASE pc[w] # "preflight"
        BY <2>2, <4>2 DEF ReclaimSettled, ReclaimFailed, AfterReclaim, TypeOK
      <4> QED BY <4>1, <4>2
    <3> QED BY <3>1
  <2> QED BY <1>2, <2>1, <2>2 DEF Reclaim
<1>3. ASSUME NEW w \in Worker, Consumer(w) PROVE PreflightFirst'
  <2>1. UNCHANGED main
    BY <1>3
    DEF Consumer, Top, Collect, CollectOne, Collected, LeaveHold, Finish, ConsumerMoves, Pop,
        PopNothing, Drop, Keep, Ack, HandOver, Scheduled, DrivenInline, Refused,
        CancelledInline, HandlerFailed, Handled
  <2>2. \E to \in ConsumerPc \ {"preflight"} : pc' = pc \/ pc' = [pc EXCEPT ![w] = to]
    BY <1>3
    DEF Consumer, Top, Collect, Collected, LeaveHold, Finish, ConsumerMoves, Pop,
        PopNothing, Drop, Keep, Ack, HandOver, Scheduled, DrivenInline, Refused,
        CancelledInline, HandlerFailed, Handled, ConsumerPc
  <2> QED BY <2>1, <2>2 DEF TypeOK
<1>4. ASSUME NEW w \in Worker, NEW m \in Message, Complete(w, m) \/ CancelSend(w, m)
      PROVE  PreflightFirst'
  BY <1>4 DEF Complete, CancelSend
<1>5. CASE Push \/ OpEnds \/ \E w \in Worker : OpNames(w) \/ OpMoves(w)
  BY <1>5 DEF Push, OpEnds, OpNames, OpMoves
<1>6. CASE UNCHANGED vars
  BY <1>6 DEF vars
<1> QED BY <1>1, <1>2, <1>3, <1>4, <1>5, <1>6 DEF Next

LEMMA SlotsHeldStep ==
  ASSUME TypeOK, Hands, PreflightFirst, SlotsHeld, [Next]_vars
  PROVE  SlotsHeld'
<1> USE SlotsKeptIdle
<1>1. ASSUME NEW w \in Worker, Lifecycle(w) PROVE SlotsHeld'
  <2>1. CASE MainCollect(w)
    BY <2>1, SlotsCollect DEF MainCollect
  <2>2. CASE Exit(w) \/ Crash(w)
    BY <2>2, SlotsGone DEF Exit, Crash
  <2>3. CASE Start(w) \/ StartConsumer(w) \/ Stop(w) \/ Joined(w) \/ Closed(w)
    BY <2>3 DEF Start, StartConsumer, Stop, Joined, Closed, TypeOK
  <2> QED BY <1>1, <2>1, <2>2, <2>3 DEF Lifecycle
<1>2. ASSUME NEW w \in Worker, Reclaim(w) PROVE SlotsHeld'
  <2>1. UNCHANGED sends
    BY <1>2 DEF Reclaim, ReclaimMove, ReclaimSettled, ReclaimFailed
  <2>2. CASE UNCHANGED main
    BY <2>1, <2>2
  <2>3. CASE pc[w] = "preflight" /\ \E s, d \in BOOLEAN : AfterReclaim(w, s, d)
    <3>1. main[w] \in {"down", "preflight", "running", "joining"}
      BY <2>3 DEF PreflightFirst
    <3> QED BY <2>1, <2>3, <3>1 DEF AfterReclaim, TypeOK
  <2> QED BY <1>2, <2>2, <2>3, FlagsAreBooleans
          DEF Reclaim, ReclaimMove, ReclaimSettled, ReclaimFailed, AfterReclaim
<1>3. ASSUME NEW w \in Worker, Consumer(w) PROVE SlotsHeld'
  <2>1. CASE Collect(w)
    BY <2>1, SlotsCollect DEF Collect
  <2>2. CASE Scheduled(w)
    BY <2>2, SlotsScheduled
  <2>3. CASE DrivenInline(w) \/ Refused(w)
    BY <2>3, SlotsReported
  <2>4. CASE CancelledInline(w) \/ HandlerFailed(w)
    BY <2>4 DEF CancelledInline, HandlerFailed, Handled
  <2>5. CASE Top(w) \/ Collected(w) \/ LeaveHold(w) \/ Finish(w)
    BY <2>5 DEF Top, Collected, LeaveHold, Finish, ConsumerMoves
  <2>6. CASE Pop(w) \/ PopNothing(w) \/ Drop(w) \/ Keep(w) \/ Ack(w)
    BY <2>6 DEF Pop, PopNothing, Drop, Keep, Ack
  <2> QED BY <1>3, <2>1, <2>2, <2>3, <2>4, <2>5, <2>6 DEF Consumer, HandOver
<1>4. ASSUME NEW w \in Worker, NEW m \in Message, Complete(w, m) \/ CancelSend(w, m)
      PROVE  SlotsHeld'
  BY <1>4, SlotsLoop
<1>5. CASE Push \/ OpEnds \/ \E w \in Worker : OpNames(w) \/ OpMoves(w)
  BY <1>5 DEF Push, OpEnds, OpNames, OpMoves
<1>6. CASE UNCHANGED vars
  BY <1>6 DEF vars, sends
<1> QED BY <1>1, <1>2, <1>3, <1>4, <1>5, <1>6 DEF Next

LEMMA InitSlots == Init => SlotsHeld
<1> SUFFICES ASSUME Init, NEW w \in Worker PROVE inFlight[w] = 0 /\ Outstanding(w) = 0
  BY DEF SlotsHeld
<1>1. IsFiniteSet(Message)
  BY MessagesAreFinite
<1>2. sending[w] = [m \in Message |-> 0] /\ finished[w] = <<>> /\ inFlight[w] = 0
  BY DEF Init
<1> QED BY <1>1, <1>2, NothingOutstanding DEF Outstanding

(***************************************************************************)
(* _in_flight is the number of sends that run plus the reports that wait,  *)
(* in every process whose consumer may still take a message; afterwards it *)
(* is never less.  So at_capacity() neither over- nor undercounts.         *)
(***************************************************************************)
THEOREM SlotsAreAccounted == Spec => []SlotsAccounted
<1> DEFINE Inv == TypeOK /\ Hands /\ PreflightFirst /\ SlotsHeld
<1>1. Init => Inv
  BY InitType, InitSlots DEF Init, PreflightFirst
<1>2. Inv /\ [Next]_vars => Inv'
  BY TypeStep, PreflightStep, SlotsHeldStep
<1>3. Inv => SlotsAccounted
  BY DEF SlotsHeld, SlotsAccounted, Outstanding
<1> QED BY <1>1, <1>2, <1>3, PTL DEF Spec
=============================================================================
