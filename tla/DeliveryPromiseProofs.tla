------------------------ MODULE DeliveryPromiseProofs ------------------------
(***************************************************************************)
(* What the queue promises, on servers with LMOVE and without.             *)
(*                                                                         *)
(* With LMOVE every pushed message stays in Redis until its outcome is     *)
(* final: Delivery implements AtLeastOnce.  Every command that moves a     *)
(* message (LMOVE, BLMOVE) keeps the set of listed messages, and the only  *)
(* one that shrinks it, the LREM of an acknowledgement, is given a message *)
(* whose outcome is final.  The second half needs the invariant Verdicts   *)
(* about what the consumer holds; "final" needs OnlyPushed, so that        *)
(* nothing concludes an unknown message.                                   *)
(*                                                                         *)
(* While nothing goes wrong each worker has custody of what it sends       *)
(* (Custody), so that nothing is sent twice (Once).  Without LMOVE every   *)
(* message has one claim on it and is never repeated (ClaimedOnce), and a  *)
(* kill costs no more than the slots of one process (Cost).                *)
(***************************************************************************)
EXTENDS DeliveryProofs

\* The server never makes a consumer give up its processing list.
StaysReliable == HasLmove => \A w \in Worker : reliable[w]

\* What is about to be acknowledged has a final outcome.
Verdicts ==
  /\ \A w \in Worker : pc[w] = "ack" => raw[w] \in settled
  /\ \A w \in Worker : \A r \in Range(finished[w]) : r.delivered => r.msg \in settled

\* Nothing is handled that was not pushed.
OnlyPushed ==
  /\ Listed \subseteq 1..pushed
  /\ \A w \in Worker : raw[w] \in 0..pushed
  /\ \A w \in Worker, m \in Message : sending[w][m] > 0 => m \in 1..pushed

IndInv == TypeOK /\ Hands /\ StaysReliable /\ Verdicts /\ OnlyPushed /\ NothingIsLost

\* The step is one the promise allows, or it is none of its business.
Mapped == Promise!Next \/ UNCHANGED <<1..pushed, Listed, settled>>
-----------------------------------------------------------------------------
(***************************************************************************)
(* What each Redis command does to the set of listed messages.             *)
(***************************************************************************)
LEMMA UnchangedListed ==
  ASSUME UNCHANGED <<queue, processing>>
  PROVE  Listed' = Listed
  BY DEF Listed

LEMMA MoveBackListed ==
  ASSUME NEW w \in Worker, TypeOK, MoveBack(w)
  PROVE  Listed' = Listed
<1> DEFINE p == processing[w]
<1>1. p \in Seq(Message) /\ p # <<>> /\ queue \in Seq(Message)
  BY DEF TypeOK, MoveBack
<1>2. Last(p) \in Message /\ Range(p) = {Last(p)} \cup Range(Front(p))
  BY <1>1, FrontRange
<1>3. Range(queue') = {Last(p)} \cup Range(queue)
  BY <1>1, <1>2, ConsRange DEF MoveBack
<1>4. /\ processing'[w] = Front(p)
      /\ \A v \in Worker \ {w} : processing'[v] = processing[v]
  BY DEF MoveBack, TypeOK
<1> HIDE DEF p
<1>5. \A m : m \in UNION {Range(processing'[v]) : v \in Worker}
             <=> m \in Range(Front(p)) \/ \E v \in Worker \ {w} : m \in Range(processing[v])
  BY <1>4
<1>6. \A m : m \in UNION {Range(processing[v]) : v \in Worker}
             <=> m \in Range(p) \/ \E v \in Worker \ {w} : m \in Range(processing[v])
  BY DEF p
<1> QED BY <1>2, <1>3, <1>5, <1>6 DEF Listed

\* LREM takes away at most the message it names.
LEMMA AcknowledgeListed ==
  ASSUME NEW w \in Worker, NEW m \in Message, TypeOK, Acknowledge(w, m)
  PROVE  Listed' = Listed \/ Listed' = Listed \ {m}
<1> DEFINE p == processing[w]
           q == RemoveFirst(p, m)
<1>1. p \in Seq(Message) /\ queue' = queue
  BY DEF TypeOK, Acknowledge, redis
<1>2. Range(q) \subseteq Range(p) /\ \A x \in Range(p) : x # m => x \in Range(q)
  BY <1>1, RemoveFirstRange
<1>3. CASE processing' = processing
  BY <1>1, <1>3, UnchangedListed
<1>4. CASE processing' = [processing EXCEPT ![w] = q]
  <2>1. /\ processing'[w] = q
        /\ \A v \in Worker \ {w} : processing'[v] = processing[v]
    BY <1>4 DEF TypeOK
  <2> HIDE DEF p, q
  <2>2. \A x : x \in UNION {Range(processing'[v]) : v \in Worker}
               <=> x \in Range(q) \/ \E v \in Worker \ {w} : x \in Range(processing[v])
    BY <2>1
  <2>3. \A x : x \in UNION {Range(processing[v]) : v \in Worker}
               <=> x \in Range(p) \/ \E v \in Worker \ {w} : x \in Range(processing[v])
    BY DEF p
  <2>4. \A x : x # m => (x \in Listed' <=> x \in Listed)
    BY <1>1, <1>2, <2>2, <2>3 DEF Listed
  <2>5. m \in Listed' => m \in Listed
    BY <1>1, <1>2, <2>2, <2>3 DEF Listed
  <2> QED BY <2>4, <2>5
<1> QED BY <1>3, <1>4 DEF Acknowledge, redis

\* BLMOVE.
LEMMA PopListed ==
  ASSUME NEW w \in Worker, TypeOK, Pop(w), reliable[w]
  PROVE  Listed' = Listed
<1> DEFINE p == processing[w]
<1>1. p \in Seq(Message) /\ queue \in Seq(Message) /\ queue # <<>>
  BY DEF TypeOK, Pop
<1>2. Head(queue) \in Message /\ Range(queue) = {Head(queue)} \cup Range(queue')
  BY <1>1, TailRange DEF Pop
<1>3. Range(Append(p, Head(queue))) = Range(p) \cup {Head(queue)}
  BY <1>1, <1>2, AppendRange
<1>4. /\ processing'[w] = Append(p, Head(queue))
      /\ \A v \in Worker \ {w} : processing'[v] = processing[v]
  BY DEF Pop, TypeOK
<1> HIDE DEF p
<1>5. \A m : m \in UNION {Range(processing'[v]) : v \in Worker}
             <=> m \in Range(p) \cup {Head(queue)}
                 \/ \E v \in Worker \ {w} : m \in Range(processing[v])
  BY <1>3, <1>4
<1>6. \A m : m \in UNION {Range(processing[v]) : v \in Worker}
             <=> m \in Range(p) \/ \E v \in Worker \ {w} : m \in Range(processing[v])
  BY DEF p
<1> QED BY <1>2, <1>5, <1>6 DEF Listed

\* RPUSH.
LEMMA PushListed ==
  ASSUME TypeOK, Push
  PROVE  pushed' = pushed + 1 /\ pushed' \in Message /\ Listed' = Listed \cup {pushed'}
<1>1. pushed' = pushed + 1 /\ pushed' \in Message
  BY BoundsAreNaturals DEF Push, TypeOK, Message
<1>2. Range(queue') = Range(queue) \cup {pushed'}
  BY <1>1, AppendRange DEF Push, TypeOK
<1> QED BY <1>1, <1>2 DEF Push, Listed
-----------------------------------------------------------------------------
(***************************************************************************)
(* How the abstract state may move.                                        *)
(***************************************************************************)
LEMMA MapsQuiet ==
  ASSUME pushed' = pushed, Listed' = Listed, settled' = settled
  PROVE  Mapped
  BY DEF Mapped

LEMMA MapsForget ==
  ASSUME NEW m \in settled, TypeOK, pushed' = pushed, settled' = settled,
         Listed' = Listed \/ Listed' = Listed \ {m}
  PROVE  Mapped
<1>1. CASE Listed' = Listed
  BY <1>1, MapsQuiet
<1>2. CASE Listed' = Listed \ {m}
  <2>1. m \in Message /\ Promise!Forget(m)
    BY <1>2 DEF Promise!Forget, TypeOK
  <2> QED BY <2>1 DEF Mapped, Promise!Next
<1> QED BY <1>1, <1>2

\* A message that is concluded is one Redis still has, or was final already.
LEMMA MapsConclude ==
  ASSUME NEW m \in Message, NothingIsLost, HasLmove, m \in 1..pushed,
         pushed' = pushed, Listed' = Listed, settled' = settled \cup {m}
  PROVE  Mapped
<1>1. CASE m \in settled
  <2>1. settled' = settled
    BY <1>1
  <2> QED BY <2>1, MapsQuiet
<1>2. CASE m \notin settled
  <2>1. m \in Listed
    BY <1>2 DEF NothingIsLost
  <2>2. Promise!Conclude(m)
    BY <2>1 DEF Promise!Conclude
  <2> QED BY <2>2 DEF Mapped, Promise!Next
<1> QED BY <1>1, <1>2

LEMMA MapsAccept ==
  ASSUME TypeOK, Push
  PROVE  Mapped
<1>1. pushed' = pushed + 1 /\ pushed' \in Message /\ Listed' = Listed \cup {pushed'}
  BY PushListed
<1>2. pushed \in Nat /\ settled' = settled
  BY BoundsAreNaturals DEF TypeOK, Push, history
<1>3. pushed' \notin 1..pushed /\ 1..pushed' = 1..pushed \cup {pushed'}
  BY <1>1, <1>2
<1>4. Promise!Accept(pushed')
  BY <1>1, <1>2, <1>3 DEF Promise!Accept
<1> QED BY <1>1, <1>4 DEF Mapped, Promise!Next

\* A step that maps keeps the promise, and keeps the lists to what was pushed.
LEMMA MappedKeeps ==
  ASSUME TypeOK, TypeOK', Mapped, NothingIsLost, Listed \subseteq 1..pushed
  PROVE  NothingIsLost' /\ Listed' \subseteq 1..pushed'
<1>1. ASSUME NEW m \in Message, Promise!Accept(m)
      PROVE  NothingIsLost' /\ Listed' \subseteq 1..pushed'
  BY <1>1 DEF Promise!Accept, NothingIsLost
<1>2. ASSUME NEW m \in Message, Promise!Conclude(m)
      PROVE  NothingIsLost' /\ Listed' \subseteq 1..pushed'
  BY <1>2 DEF Promise!Conclude, NothingIsLost
<1>3. ASSUME NEW m \in Message, Promise!Forget(m)
      PROVE  NothingIsLost' /\ Listed' \subseteq 1..pushed'
  BY <1>3 DEF Promise!Forget, NothingIsLost
<1>4. CASE UNCHANGED <<1..pushed, Listed, settled>>
  BY <1>4 DEF NothingIsLost
<1> QED BY <1>1, <1>2, <1>3, <1>4 DEF Mapped, Promise!Next
-----------------------------------------------------------------------------
(***************************************************************************)
(* One lemma per family of actions: on a server with LMOVE every step maps.*)
(***************************************************************************)
\* The actions that touch neither Redis nor an outcome.
LEMMA MapsIdle ==
  ASSUME UNCHANGED <<redis, pushed, settled>>
  PROVE  Mapped
  BY UnchangedListed, MapsQuiet DEF redis

LEMMA MapsCollectOne ==
  ASSUME NEW w \in Worker, IndInv, CollectOne(w)
  PROVE  Mapped
<1> DEFINE report == Head(finished[w])
<1>1. report \in Report /\ report \in Range(finished[w])
  BY TailRange DEF IndInv, TypeOK, CollectOne
<1>2. pushed' = pushed /\ settled' = settled
  BY DEF CollectOne, input, history
<1>3. CASE report.delivered
  <2>1. report.msg \in settled /\ report.msg \in Message
    BY <1>1, <1>3 DEF IndInv, Verdicts, Report
  <2>2. Listed' = Listed \/ Listed' = Listed \ {report.msg}
    BY <1>3, <2>1, AcknowledgeListed DEF CollectOne, IndInv
  <2> QED BY <1>2, <2>1, <2>2, MapsForget DEF IndInv
<1>4. CASE ~report.delivered
  BY <1>2, <1>4, MapsIdle DEF CollectOne
<1> QED BY <1>3, <1>4

LEMMA MapsLifecycle ==
  ASSUME NEW w \in Worker, IndInv, Lifecycle(w)
  PROVE  Mapped
<1>1. CASE MainCollect(w)
  BY <1>1, MapsCollectOne DEF MainCollect
<1>2. CASE ~MainCollect(w)
  BY <1>2, MapsIdle
  DEF Lifecycle, Start, StartConsumer, Stop, Joined, Closed, Exit, Crash, Gone, input, history
<1> QED BY <1>1, <1>2

LEMMA MapsReclaim ==
  ASSUME NEW w \in Worker, IndInv, Reclaim(w)
  PROVE  Mapped
<1>1. pushed' = pushed /\ settled' = settled
  BY DEF Reclaim, ReclaimMove, ReclaimSettled, ReclaimFailed, input, history
<1>2. CASE MoveBack(w)
  BY <1>1, <1>2, MoveBackListed, MapsQuiet DEF IndInv
<1>3. CASE UNCHANGED redis
  BY <1>1, <1>3, MapsIdle
<1> QED BY <1>2, <1>3 DEF Reclaim, ReclaimMove, ReclaimSettled, ReclaimFailed

\* A consumer that dispatches has a message that was pushed.
LEMMA HandsPushed ==
  ASSUME NEW w \in Worker, IndInv, pc[w] \in {"dispatch", "ack"}
  PROVE  raw[w] \in Message /\ raw[w] \in 1..pushed
<1>1. raw[w] \in Message /\ raw[w] \in 0..pushed
  BY DEF IndInv, Hands, OnlyPushed
<1> QED BY <1>1 DEF Message

LEMMA MapsVerdict ==
  ASSUME NEW w \in Worker, IndInv, HasLmove, pc[w] = "dispatch",
         SendEnds(raw[w]) \/ Dismiss(raw[w]), UNCHANGED <<redis, pushed>>
  PROVE  Mapped
<1>1. raw[w] \in Message /\ raw[w] \in 1..pushed
  BY HandsPushed
<1>2. settled' = settled \cup {raw[w]}
  BY DEF SendEnds, Dismiss
<1> QED BY <1>1, <1>2, UnchangedListed, MapsConclude DEF IndInv, redis

LEMMA MapsConsumer ==
  ASSUME NEW w \in Worker, IndInv, HasLmove, Consumer(w)
  PROVE  Mapped
<1> USE DEF input, history
<1>1. CASE Top(w) \/ Collected(w) \/ LeaveHold(w) \/ Finish(w) \/ PopNothing(w) \/ Keep(w)
  BY <1>1, MapsIdle
  DEF Top, Collected, LeaveHold, Finish, ConsumerMoves, PopNothing, Keep
<1>2. CASE Collect(w)
  BY <1>2, MapsCollectOne DEF Collect
<1>3. CASE Pop(w)
  <2>1. pushed' = pushed /\ settled' = settled
    BY <1>3 DEF Pop
  <2>2. Listed' = Listed
    BY <1>3, PopListed DEF IndInv, StaysReliable
  <2> QED BY <2>1, <2>2, MapsQuiet
<1>4. CASE Drop(w)
  BY <1>4, MapsVerdict DEF Drop
<1>5. CASE Ack(w)
  <2>1. raw[w] \in Message /\ raw[w] \in settled
    BY <1>5, HandsPushed DEF Ack, IndInv, Verdicts
  <2>2. pushed' = pushed /\ settled' = settled
    BY <1>5 DEF Ack
  <2>3. Listed' = Listed \/ Listed' = Listed \ {raw[w]}
    BY <1>5, <2>1, AcknowledgeListed DEF Ack, IndInv
  <2> QED BY <2>1, <2>2, <2>3, MapsForget DEF IndInv
<1>6. CASE HandOver(w)
  <2>1. pc[w] = "dispatch" /\ UNCHANGED <<redis, pushed>>
    BY <1>6 DEF HandOver, Scheduled, DrivenInline, Refused, CancelledInline,
                HandlerFailed, Handled, InHandOver
  <2>2. CASE DrivenInline(w) \/ HandlerFailed(w)
    BY <2>1, <2>2, MapsVerdict DEF DrivenInline, HandlerFailed
  <2>3. CASE Scheduled(w) \/ Refused(w) \/ CancelledInline(w)
    BY <2>1, <2>3, MapsIdle DEF Scheduled, Refused, CancelledInline
  <2> QED BY <1>6, <2>2, <2>3 DEF HandOver
<1> QED BY <1>1, <1>2, <1>3, <1>4, <1>5, <1>6 DEF Consumer

LEMMA MapsLoop ==
  ASSUME NEW w \in Worker, NEW m \in Message, IndInv, HasLmove,
         Complete(w, m) \/ CancelSend(w, m)
  PROVE  Mapped
<1>1. CASE Complete(w, m)
  <2>1. m \in 1..pushed
    BY <1>1 DEF Complete, IndInv, OnlyPushed
  <2>2. settled' = settled \cup {m} /\ UNCHANGED <<redis, pushed>>
    BY <1>1 DEF Complete, SendEnds, input
  <2> QED BY <2>1, <2>2, UnchangedListed, MapsConclude DEF IndInv, redis
<1>2. CASE CancelSend(w, m)
  BY <1>2, MapsIdle DEF CancelSend, input, history
<1> QED BY <1>1, <1>2

LEMMA MapsOperator ==
  ASSUME IndInv, OpEnds \/ \E w \in Worker : OpNames(w) \/ OpMoves(w)
  PROVE  Mapped
<1> USE DEF input, history
<1>1. CASE OpEnds \/ \E w \in Worker : OpNames(w)
  BY <1>1, MapsIdle DEF OpEnds, OpNames
<1>2. ASSUME NEW w \in Worker, OpMoves(w) PROVE Mapped
  BY <1>2, MoveBackListed, MapsQuiet DEF OpMoves, IndInv
<1> QED BY <1>1, <1>2

LEMMA StepMaps ==
  ASSUME IndInv, HasLmove, [Next]_vars
  PROVE  Mapped
<1>1. CASE Push
  BY <1>1, MapsAccept DEF IndInv
<1>2. CASE \E w \in Worker : Lifecycle(w) \/ Reclaim(w) \/ Consumer(w)
  BY <1>2, MapsLifecycle, MapsReclaim, MapsConsumer
<1>3. CASE \E w \in Worker, m \in Message : Complete(w, m) \/ CancelSend(w, m)
  BY <1>3, MapsLoop
<1>4. CASE OpEnds \/ \E w \in Worker : OpNames(w) \/ OpMoves(w)
  BY <1>4, MapsOperator
<1>5. CASE UNCHANGED vars
  BY <1>5, MapsIdle DEF vars, redis
<1> QED BY <1>1, <1>2, <1>3, <1>4, <1>5 DEF Next
-----------------------------------------------------------------------------
(***************************************************************************)
(* The other parts of the invariant are inductive too.                     *)
(***************************************************************************)
LEMMA ReliableStep ==
  ASSUME TypeOK, HasLmove, StaysReliable, [Next]_vars
  PROVE  StaysReliable'
<1> USE DEF mode, StaysReliable
<1>1. ASSUME NEW w \in Worker, ReclaimSettled(w) \/ ReclaimFailed(w)
      PROVE  StaysReliable'
  <2>1. reliable' = [reliable EXCEPT ![w] = @ /\ TRUE]
    BY <1>1 DEF ReclaimSettled, ReclaimFailed, AfterReclaim
  <2> QED BY <2>1 DEF TypeOK
<1>2. ASSUME NEW w \in Worker, Start(w) PROVE StaysReliable'
  BY <1>2 DEF Start, TypeOK
<1>3. ASSUME NEW w \in Worker, Lifecycle(w) PROVE StaysReliable'
  BY <1>2, <1>3
  DEF Lifecycle, StartConsumer, Stop, Joined, Closed, MainCollect, CollectOne, Exit, Crash, Gone
<1>4. ASSUME NEW w \in Worker, Reclaim(w) PROVE StaysReliable'
  BY <1>1, <1>4 DEF Reclaim, ReclaimMove
<1>5. ASSUME NEW w \in Worker, HandOver(w) PROVE StaysReliable'
  BY <1>5 DEF HandOver, Scheduled, DrivenInline, Refused, CancelledInline, HandlerFailed, Handled
<1>6. ASSUME NEW w \in Worker, Consumer(w) PROVE StaysReliable'
  BY <1>5, <1>6
  DEF Consumer, Top, Collect, CollectOne, Collected, LeaveHold, Finish, ConsumerMoves,
      Pop, PopNothing, Drop, Keep, Ack
<1>7. ASSUME NEW w \in Worker, NEW m \in Message, Complete(w, m) \/ CancelSend(w, m)
      PROVE  StaysReliable'
  BY <1>7 DEF Complete, CancelSend
<1>8. CASE Push \/ OpEnds \/ \E w \in Worker : OpNames(w) \/ OpMoves(w)
  BY <1>8 DEF Push, OpEnds, OpNames, OpMoves
<1>9. CASE UNCHANGED vars
  BY <1>9 DEF vars
<1> QED BY <1>3, <1>4, <1>6, <1>7, <1>8, <1>9 DEF Next

LEMMA SettledGrows ==
  ASSUME [Next]_vars
  PROVE  settled \subseteq settled'
<1> USE DEF history, Dismiss, SendEnds
<1>1. ASSUME NEW w \in Worker, Lifecycle(w) PROVE settled \subseteq settled'
  BY <1>1
  DEF Lifecycle, Start, StartConsumer, Stop, Joined, Closed, MainCollect, CollectOne, Exit, Crash, Gone
<1>2. ASSUME NEW w \in Worker, Reclaim(w) PROVE settled \subseteq settled'
  BY <1>2 DEF Reclaim, ReclaimMove, ReclaimSettled, ReclaimFailed
<1>3. ASSUME NEW w \in Worker, HandOver(w) PROVE settled \subseteq settled'
  BY <1>3 DEF HandOver, Scheduled, DrivenInline, Refused, CancelledInline, HandlerFailed
<1>4. ASSUME NEW w \in Worker, Consumer(w) PROVE settled \subseteq settled'
  BY <1>3, <1>4
  DEF Consumer, Top, Collect, CollectOne, Collected, LeaveHold, Finish, ConsumerMoves,
      Pop, PopNothing, Drop, Keep, Ack
<1>5. ASSUME NEW w \in Worker, NEW m \in Message, Complete(w, m) \/ CancelSend(w, m)
      PROVE  settled \subseteq settled'
  BY <1>5 DEF Complete, CancelSend
<1>6. CASE Push \/ OpEnds \/ \E w \in Worker : OpNames(w) \/ OpMoves(w)
  BY <1>6 DEF Push, OpEnds, OpNames, OpMoves
<1>7. CASE UNCHANGED vars
  BY <1>7 DEF vars
<1> QED BY <1>1, <1>2, <1>4, <1>5, <1>6, <1>7 DEF Next

\* Whoever leaves the reports and the acknowledgement alone keeps Verdicts.
LEMMA VerdictsKept ==
  ASSUME TypeOK, Verdicts, settled \subseteq settled',
         \A w \in Worker : Range(finished'[w]) \subseteq Range(finished[w]),
         \A w \in Worker : pc'[w] = "ack" => pc[w] = "ack" /\ raw'[w] = raw[w]
  PROVE  Verdicts'
  BY DEF Verdicts

LEMMA VerdictsCollectOne ==
  ASSUME NEW w \in Worker, TypeOK, Verdicts, settled \subseteq settled',
         CollectOne(w), UNCHANGED pc
  PROVE  Verdicts'
<1>1. Range(Tail(finished[w])) \subseteq Range(finished[w])
  BY TailRange DEF TypeOK, CollectOne
<1>2. raw' = raw /\ \A v \in Worker : Range(finished'[v]) \subseteq Range(finished[v])
  BY <1>1 DEF CollectOne, TypeOK
<1> QED BY <1>2, VerdictsKept

\* A new report is of a send that is over, or does not acknowledge.
LEMMA VerdictsReport ==
  ASSUME NEW w \in Worker, NEW m \in Message, NEW d \in BOOLEAN,
         TypeOK, Verdicts, settled \subseteq settled', d => m \in settled',
         finished' = [finished EXCEPT ![w] = Append(@, [msg |-> m, delivered |-> d])],
         \A v \in Worker : pc'[v] = "ack" => pc[v] = "ack" /\ raw'[v] = raw[v]
  PROVE  Verdicts'
<1> DEFINE report == [msg |-> m, delivered |-> d]
<1>1. report \in Report /\ finished[w] \in Seq(Report)
  BY DEF TypeOK, Report
<1>2. Range(Append(finished[w], report)) = Range(finished[w]) \cup {report}
  BY <1>1, AppendRange
<1>3. /\ finished'[w] = Append(finished[w], report)
      /\ \A v \in Worker \ {w} : finished'[v] = finished[v]
  BY DEF TypeOK
<1> QED BY <1>2, <1>3 DEF Verdicts

\* A verdict of the consumer's own is final before it is acknowledged.
LEMMA VerdictsDismiss ==
  ASSUME NEW w \in Worker, TypeOK, Verdicts, Dismiss(raw[w]), Goto(w, "ack"),
         UNCHANGED <<raw, finished>>
  PROVE  Verdicts'
  BY DEF Verdicts, Dismiss, Goto, TypeOK

LEMMA VerdictsHandOver ==
  ASSUME NEW w \in Worker, TypeOK, Hands, Verdicts, settled \subseteq settled', HandOver(w)
  PROVE  Verdicts'
<1>1. raw[w] \in Message
  BY DEF HandOver, Scheduled, DrivenInline, Refused, CancelledInline, HandlerFailed,
         Handled, InHandOver, Hands
<1>2. CASE HandlerFailed(w)
  BY <1>2, VerdictsDismiss DEF HandlerFailed, sends
<1>3. ASSUME Handled(w)
      PROVE  \A v \in Worker : pc'[v] = "ack" => pc[v] = "ack" /\ raw'[v] = raw[v]
  BY <1>3 DEF Handled, Goto, TypeOK
<1>4. CASE Scheduled(w) \/ CancelledInline(w)
  <2>1. Handled(w) /\ UNCHANGED finished
    BY <1>4 DEF Scheduled, CancelledInline, sends
  <2> QED BY <1>3, <2>1, VerdictsKept
<1>5. CASE DrivenInline(w)
  BY <1>1, <1>3, <1>5, VerdictsReport DEF DrivenInline, SendEnds
<1>6. CASE Refused(w)
  BY <1>1, <1>3, <1>6, VerdictsReport DEF Refused
<1> QED BY <1>2, <1>4, <1>5, <1>6 DEF HandOver

LEMMA VerdictsStep ==
  ASSUME TypeOK, Hands, Verdicts, [Next]_vars
  PROVE  Verdicts'
<1> USE SettledGrows, VerdictsKept DEF sends
<1>1. ASSUME NEW w \in Worker, Gone(w) PROVE Verdicts'
  <2>1. \A v \in Worker : /\ finished'[v] = <<>> \/ finished'[v] = finished[v]
                          /\ pc'[v] = "ack" => pc[v] = "ack" /\ raw'[v] = raw[v]
    BY <1>1 DEF Gone, Goto, TypeOK
  <2>2. Range(<<>>) = {}
    BY DEF Range
  <2> QED BY <2>1, <2>2
<1>2. ASSUME NEW w \in Worker, Lifecycle(w) PROVE Verdicts'
  <2>1. CASE MainCollect(w)
    BY <2>1, VerdictsCollectOne DEF MainCollect
  <2>2. CASE Exit(w) \/ Crash(w)
    BY <2>2, <1>1 DEF Exit, Crash
  <2>3. CASE Start(w) \/ StartConsumer(w) \/ Stop(w) \/ Joined(w) \/ Closed(w)
    BY <2>3 DEF Start, StartConsumer, Stop, Joined, Closed, Goto, TypeOK
  <2> QED BY <1>2, <2>1, <2>2, <2>3 DEF Lifecycle
<1>3. ASSUME NEW w \in Worker, Reclaim(w) PROVE Verdicts'
  <2>1. UNCHANGED <<raw, finished>>
    BY <1>3 DEF Reclaim, ReclaimMove, ReclaimSettled, ReclaimFailed
  <2>2. \A v \in Worker : pc'[v] = "ack" => pc[v] = "ack"
    BY <1>3, AfterReclaimType, FlagsAreBooleans
    DEF Reclaim, ReclaimMove, ReclaimSettled, ReclaimFailed
  <2> QED BY <2>1, <2>2
<1>4. ASSUME NEW w \in Worker, Consumer(w) PROVE Verdicts'
  <2>1. CASE Collect(w)
    BY <2>1, VerdictsCollectOne DEF Collect
  <2>2. CASE HandOver(w)
    BY <2>2, VerdictsHandOver
  <2>3. CASE Drop(w)
    BY <2>3, VerdictsDismiss DEF Drop
  <2>4. CASE Top(w) \/ Collected(w) \/ LeaveHold(w) \/ Finish(w)
    BY <2>4 DEF Top, Collected, LeaveHold, Finish, ConsumerMoves, Goto, TypeOK
  <2>5. CASE Pop(w) \/ PopNothing(w) \/ Keep(w) \/ Ack(w)
    BY <2>5 DEF Pop, PopNothing, Keep, Ack, Goto, TypeOK
  <2> QED BY <1>4, <2>1, <2>2, <2>3, <2>4, <2>5 DEF Consumer
<1>5. ASSUME NEW w \in Worker, NEW m \in Message, Complete(w, m) \/ CancelSend(w, m)
      PROVE  Verdicts'
  <2>1. CASE Complete(w, m)
    BY <2>1, VerdictsReport DEF Complete, SendEnds
  <2>2. CASE CancelSend(w, m)
    BY <2>2 DEF CancelSend
  <2> QED BY <1>5, <2>1, <2>2
<1>6. CASE Push \/ OpEnds \/ \E w \in Worker : OpNames(w) \/ OpMoves(w)
  BY <1>6 DEF Push, OpEnds, OpNames, OpMoves
<1>7. CASE UNCHANGED vars
  BY <1>7 DEF vars
<1> QED BY <1>2, <1>3, <1>4, <1>5, <1>6, <1>7 DEF Next

\* What a consumer takes and schedules comes from the queue.
LEMMA OnlyPushedStep ==
  ASSUME TypeOK, OnlyPushed, [Next]_vars
  PROVE  /\ \A w \in Worker : raw'[w] \in 0..pushed'
         /\ \A w \in Worker, m \in Message : sending'[w][m] > 0 => m \in 1..pushed'
<1> DEFINE Rest == /\ \A w \in Worker : raw'[w] \in 0..pushed'
                   /\ \A w \in Worker, m \in Message : sending'[w][m] > 0 => m \in 1..pushed'
<1> USE DEF sends, input, OnlyPushed
<1>1. pushed \in Nat
  BY BoundsAreNaturals DEF TypeOK
<1>2. ASSUME UNCHANGED <<pushed, sending>>,
             \A w \in Worker : raw'[w] = NoMessage \/ raw'[w] = raw[w]
      PROVE  Rest
  BY <1>1, <1>2 DEF NoMessage
<1>3. ASSUME NEW w \in Worker, Gone(w) PROVE Rest
  <2>1. \A v \in Worker, m \in Message : sending'[v][m] > 0 => sending[v][m] > 0
    BY <1>3 DEF Gone, TypeOK
  <2> QED BY <1>1, <1>3, <2>1 DEF Gone, TypeOK, NoMessage
<1>4. ASSUME NEW w \in Worker, Lifecycle(w) PROVE Rest
  <2>1. CASE Exit(w) \/ Crash(w)
    BY <1>3, <2>1 DEF Exit, Crash
  <2>2. CASE ~(Exit(w) \/ Crash(w))
    BY <1>2, <1>4, <2>2
    DEF Lifecycle, Start, StartConsumer, Stop, Joined, Closed, MainCollect, CollectOne
  <2> QED BY <2>1, <2>2
<1>5. ASSUME NEW w \in Worker, Reclaim(w) PROVE Rest
  BY <1>2, <1>5 DEF Reclaim, ReclaimMove, ReclaimSettled, ReclaimFailed
<1>6. ASSUME NEW w \in Worker, Consumer(w) PROVE Rest
  <2>1. CASE Pop(w)
    <3>1. Head(queue) \in 1..pushed
      <4>1. queue \in Seq(Message) /\ queue # <<>>
        BY <2>1 DEF Pop, TypeOK
      <4>2. Head(queue) \in Range(queue)
        BY <4>1, TailRange
      <4> QED BY <4>2 DEF Listed
    <3>2. \A v \in Worker : raw'[v] = Head(queue) \/ raw'[v] = raw[v]
      BY <2>1 DEF Pop, TypeOK
    <3> QED BY <1>1, <2>1, <3>1, <3>2 DEF Pop
  <2>2. CASE Scheduled(w)
    <3>1. raw[w] \in 0..pushed /\ UNCHANGED pushed
      BY <2>2 DEF Scheduled, Handled
    <3>2. \A v \in Worker, m \in Message :
             sending'[v][m] > 0 => sending[v][m] > 0 \/ m = raw[w]
      BY <2>2 DEF Scheduled, TypeOK
    <3>3. \A v \in Worker : raw'[v] = NoMessage \/ raw'[v] = raw[v]
      BY <2>2 DEF Scheduled, Handled, TypeOK
    <3> QED BY <1>1, <3>1, <3>2, <3>3 DEF Message, NoMessage
  <2>3. CASE HandOver(w) /\ ~Scheduled(w)
    <3>1. UNCHANGED <<pushed, sending>>
      BY <2>3 DEF HandOver, DrivenInline, Refused, CancelledInline, HandlerFailed, Handled
    <3>2. \A v \in Worker : raw'[v] = NoMessage \/ raw'[v] = raw[v]
      BY <2>3
      DEF HandOver, DrivenInline, Refused, CancelledInline, HandlerFailed, Handled, TypeOK
    <3> QED BY <1>2, <3>1, <3>2
  <2>4. CASE Keep(w) \/ Ack(w)
    BY <1>2, <2>4 DEF Keep, Ack, TypeOK
  <2>5. CASE Drop(w) \/ PopNothing(w) \/ Collect(w)
    BY <1>2, <2>5 DEF Drop, PopNothing, Collect, CollectOne
  <2>6. CASE Top(w) \/ Collected(w) \/ LeaveHold(w) \/ Finish(w)
    BY <1>2, <2>6 DEF Top, Collected, LeaveHold, Finish, ConsumerMoves
  <2> QED BY <1>6, <2>1, <2>2, <2>3, <2>4, <2>5, <2>6 DEF Consumer
<1>7. ASSUME NEW w \in Worker, NEW m \in Message, Complete(w, m) \/ CancelSend(w, m)
      PROVE  Rest
  <2>1. UNCHANGED <<raw, pushed>>
    BY <1>7 DEF Complete, CancelSend
  <2>2. \A v \in Worker, n \in Message : sending'[v][n] > 0 => sending[v][n] > 0
    <3>1. /\ sending[w] \in [Message -> Nat] /\ sending[w][m] > 0
          /\ sending' = [sending EXCEPT ![w][m] = @ - 1]
      BY <1>7 DEF Complete, CancelSend, TypeOK
    <3>2. TAKE v \in Worker, n \in Message
    <3>3. CASE v = w /\ n = m
      BY <3>1, <3>3
    <3>4. CASE ~(v = w /\ n = m)
      <4>1. sending'[v][n] = sending[v][n]
        BY <3>1, <3>4 DEF TypeOK
      <4> QED BY <4>1
    <3> QED BY <3>3, <3>4
  <2> QED BY <2>1, <2>2
<1>8. CASE Push
  BY <1>1, <1>8 DEF Push
<1>9. CASE OpEnds \/ \E w \in Worker : OpNames(w) \/ OpMoves(w)
  BY <1>2, <1>9 DEF OpEnds, OpNames, OpMoves
<1>10. CASE UNCHANGED vars
  BY <1>10 DEF vars
<1> QED BY <1>4, <1>5, <1>6, <1>7, <1>8, <1>9, <1>10 DEF Next
-----------------------------------------------------------------------------
LEMMA InitInd == Init => IndInv
<1> SUFFICES ASSUME Init PROVE IndInv
  OBVIOUS
<1>1. Range(<<>>) = {}
  BY DEF Range
<1>2. Listed = {} /\ 1..pushed = {}
  BY <1>1 DEF Init, Listed
<1>3. StaysReliable /\ Verdicts /\ OnlyPushed /\ NothingIsLost
  BY <1>1, <1>2
  DEF Init, StaysReliable, Verdicts, OnlyPushed, NothingIsLost, NoMessage
<1> QED BY <1>3, InitType DEF IndInv

LEMMA IndStep ==
  ASSUME IndInv, HasLmove, [Next]_vars
  PROVE  IndInv'
<1>1. TypeOK' /\ Hands'
  BY TypeStep DEF IndInv
<1>2. StaysReliable' /\ Verdicts'
  BY ReliableStep, VerdictsStep DEF IndInv
<1>3. NothingIsLost' /\ Listed' \subseteq 1..pushed'
  BY <1>1, StepMaps, MappedKeeps DEF IndInv, OnlyPushed
<1>4. OnlyPushed'
  BY <1>3, OnlyPushedStep DEF IndInv, OnlyPushed
<1> QED BY <1>1, <1>2, <1>3, <1>4 DEF IndInv

(***************************************************************************)
(* No message whose outcome is not final leaves Redis, whatever is killed, *)
(* stopped, refused, acknowledged late or reclaimed: at-least-once, on any *)
(* server that has LMOVE.                                                  *)
(***************************************************************************)
THEOREM NoMessageIsLost == Spec => []NothingIsLost
<1>1. CASE HasLmove
  <2>1. Init => IndInv
    BY InitInd
  <2>2. IndInv /\ [Next]_vars => IndInv'
    BY <1>1, IndStep
  <2>3. IndInv => NothingIsLost
    BY DEF IndInv
  <2> QED BY <2>1, <2>2, <2>3, PTL DEF Spec
<1>2. CASE ~HasLmove
  <2>1. NothingIsLost
    BY <1>2 DEF NothingIsLost
  <2> QED BY <2>1, PTL
<1> QED BY <1>1, <1>2

(***************************************************************************)
(* The whole promise: Delivery implements AtLeastOnce.                     *)
(***************************************************************************)
THEOREM DeliveryKeepsThePromise ==
  ASSUME HasLmove
  PROVE  Spec => KeepsThePromise
<1>1. Init => IndInv
  BY InitInd
<1>2. IndInv /\ [Next]_vars => IndInv'
  BY IndStep
<1>3. Init => Promise!Init
  <2>1. Range(<<>>) = {}
    BY DEF Range
  <2> QED BY <2>1 DEF Init, Promise!Init, Listed
<1>4. IndInv /\ [Next]_vars => [Promise!Next]_(Promise!vars)
  BY StepMaps DEF Mapped, Promise!vars
<1> QED BY <1>1, <1>2, <1>3, <1>4, PTL DEF Spec, KeepsThePromise, Promise!Spec
-----------------------------------------------------------------------------
(***************************************************************************)
(* Custody.  While no Redis command fails, no join times out and nobody    *)
(* runs tgbot_reclaim, a worker's processing list holds every message it   *)
(* is sending, has to report or has in its hands, each of them once: only  *)
(* a worker that holds nothing reclaims, and what a pop adds came from the *)
(* queue.                                                                  *)
(***************************************************************************)
InHands(w)  == IF pc[w] \in {"dispatch", "ack"} THEN {raw[w]} ELSE {}
Running(w)  == {m \in Message : sending[w][m] > 0}
Reported(w) == {r.msg : r \in Range(finished[w])}
Idle(w)     == Running(w) = {} /\ finished[w] = <<>>

\* Reports of two messages.
Apart == {p \in Report \X Report : p[1].msg # p[2].msg}

\* What each phase of a process says of its consumer and its sends.
Phases(w) ==
  /\ pc[w] # "retrying"
  /\ pc[w] \in {"top", "collect", "hold", "pop", "dispatch", "ack", "last"} => reclaimed[w]
  /\ main[w] \in {"closing", "collecting"} => pc[w] \in {"off", "queued"}
  /\ main[w] = "collecting" => pc[w] = "off" /\ Running(w) = {}
  /\ main[w] = "down" => pc[w] = "off"
  /\ main[w] = "down" \/ pc[w] \in {"preflight", "queued", "starting"} => Idle(w)

\* A message is in one of the worker's hands at most, and on its list.
OneToken(w) ==
  /\ \A m \in Message : sending[w][m] <= 1
  /\ Linked(finished[w], Apart)
  /\ Running(w) \cap Reported(w) = {}
  /\ InHands(w) \cap (Running(w) \cup Reported(w)) = {}
  /\ Running(w) \cup Reported(w) \cup InHands(w) \subseteq Range(processing[w])

Kept(w) == Phases(w) /\ OneToken(w)

Calm == HasLmove /\ faults = 0 /\ ~Operator

Custody == Calm => op = NoWorker /\ \A w \in Worker : Kept(w)

\* What a step leaves alone of a worker.
Same(w) ==
  /\ main'[w] = main[w] /\ pc'[w] = pc[w] /\ reclaimed'[w] = reclaimed[w]
  /\ raw'[w] = raw[w] /\ sending'[w] = sending[w] /\ finished'[w] = finished[w]
  /\ processing'[w] = processing[w]

LEMMA SameIsKept ==
  ASSUME NEW w \in Worker, Kept(w), Same(w)
  PROVE  Kept(w)'
<1>1. /\ InHands(w)' = InHands(w) /\ Running(w)' = Running(w) /\ Reported(w)' = Reported(w)
      /\ Idle(w)' = Idle(w)
  BY DEF Same, InHands, Running, Reported, Idle
<1> HIDE DEF InHands, Running, Reported, Idle
<1> QED BY <1>1 DEF Kept, Phases, OneToken, Same

\* A worker that holds nothing.
LEMMA IdleToken ==
  ASSUME NEW w \in Worker, TypeOK', Idle(w)', pc'[w] \notin {"dispatch", "ack"}
  PROVE  OneToken(w)'
<1>1. /\ InHands(w)' = {} /\ Running(w)' = {} /\ finished'[w] = <<>>
      /\ sending'[w] \in [Message -> Nat]
  BY DEF InHands, Idle, TypeOK
<1>2. Reported(w)' = {} /\ Linked(finished'[w], Apart)
  BY <1>1, EmptyLinked DEF Reported, Range
<1>3. \A m \in Message : sending'[w][m] <= 1
  BY <1>1 DEF Running
<1> QED BY <1>1, <1>2, <1>3 DEF OneToken

\* A step of the thread that leaves messages alone, outside the dispatch.
LEMMA TokenUntouched ==
  ASSUME NEW w \in Worker, OneToken(w), UNCHANGED <<raw, sending, finished, processing>>,
         pc'[w] \notin {"dispatch", "ack"} \/ (pc'[w] \in {"dispatch", "ack"} /\ pc[w] \in {"dispatch", "ack"})
  PROVE  OneToken(w)'
<1>1. /\ InHands(w)' \subseteq InHands(w) /\ Running(w)' = Running(w) /\ Reported(w)' = Reported(w)
  BY DEF InHands, Running, Reported
<1> QED BY <1>1 DEF OneToken

Others(w) == \A v \in Worker \ {w} : Same(v)

\* The worker's part of the invariant after a step of its own.
KeptBy(w) == Others(w) /\ Kept(w)'

\* The steps of the main thread that take or give no message.
LEMMA LifecycleKeeps ==
  ASSUME NEW w \in Worker, TypeOK, TypeOK', Kept(w), faults' = faults,
         Start(w) \/ StartConsumer(w) \/ Stop(w) \/ Joined(w) \/ Closed(w)
  PROVE  KeptBy(w)
<1>1. UNCHANGED <<processing, sending, finished, raw>> /\ Idle(w)' = Idle(w) /\ Running(w)' = Running(w)
  BY DEF Start, StartConsumer, Stop, Joined, Closed, redis, sends, Idle, Running
<1>2. Others(w)
  BY DEF Start, StartConsumer, Stop, Joined, Closed, redis, sends, mode, Goto, TypeOK, Others, Same
<1>3. OneToken(w)'
  <2>1. pc'[w] \notin {"dispatch", "ack"} \/ pc'[w] = pc[w]
    BY DEF Start, StartConsumer, Stop, Joined, Closed, Goto, TypeOK
  <2> QED BY <1>1, <2>1, TokenUntouched DEF Kept
<1> SUFFICES Phases(w)'
  BY <1>2, <1>3 DEF KeptBy, Kept
<1> HIDE DEF Idle, Running
<1>4. CASE Start(w)
  BY <1>1, <1>4 DEF Start, Goto, TypeOK, Kept, Phases
<1>5. CASE StartConsumer(w)
  BY <1>1, <1>5 DEF StartConsumer, Goto, mode, TypeOK, Kept, Phases
<1>6. CASE Stop(w)
  BY <1>1, <1>6 DEF Stop, mode, TypeOK, Kept, Phases
<1>7. CASE Joined(w)
  <2>1. pc[w] \in {"off", "queued"}
    BY <1>7, BoundsAreNaturals DEF Joined, Fault, TypeOK
  <2> QED BY <1>1, <1>7, <2>1 DEF Joined, mode, TypeOK, Kept, Phases
<1>8. CASE Closed(w)
  <2>1. pc[w] = "off" /\ main'[w] = "collecting" /\ UNCHANGED <<pc, reclaimed>>
    BY <1>8 DEF Closed, mode, TypeOK, Kept, Phases
  <2>2. Running(w) = {}
    BY <1>8, <2>1 DEF Closed, Running
  <2> QED BY <1>1, <2>1, <2>2 DEF Kept, Phases
<1> QED BY <1>4, <1>5, <1>6, <1>7, <1>8

LEMMA GoneKeeps ==
  ASSUME NEW w \in Worker, TypeOK, TypeOK', Gone(w)
  PROVE  KeptBy(w)
<1>1. /\ main'[w] = "down" /\ pc'[w] = "off"
      /\ sending'[w] = [m \in Message |-> 0] /\ finished'[w] = <<>>
  BY DEF Gone, Goto, TypeOK
<1>2. Others(w)
  BY DEF Gone, Goto, redis, mode, TypeOK, Others, Same
<1>3. Idle(w)'
  BY <1>1 DEF Idle, Running
<1>4. OneToken(w)'
  BY <1>1, <1>3, IdleToken
<1> QED BY <1>1, <1>2, <1>3, <1>4 DEF KeptBy, Kept, Phases

\* Only a worker that holds nothing reclaims.
LEMMA ReclaimKeeps ==
  ASSUME NEW w \in Worker, TypeOK, TypeOK', HasLmove, Kept(w), faults' = faults, Reclaim(w)
  PROVE  KeptBy(w) /\ Idle(w) /\ Idle(w)' /\ pc'[w] \notin {"dispatch", "ack"}
<1>1. /\ pc[w] \in {"preflight", "starting"} /\ UNCHANGED <<sending, finished, raw>>
      /\ Idle(w) /\ Idle(w)' /\ main[w] \notin {"down", "closing", "collecting"}
  <2>1. pc[w] \in {"preflight", "starting"} /\ UNCHANGED <<sending, finished, raw>>
    BY DEF Reclaim, ReclaimMove, ReclaimSettled, ReclaimFailed, InReclaim, sends, Kept, Phases
  <2> QED BY <2>1 DEF Kept, Phases, Idle, Running
<1> HIDE DEF Idle
<1>2. CASE ReclaimMove(w)
  <2>1. /\ UNCHANGED <<main, pc, reclaimed>>
        /\ \A v \in Worker \ {w} : processing'[v] = processing[v]
    BY <1>2 DEF ReclaimMove, MoveBack, mode, TypeOK
  <2>2. Others(w)
    BY <1>1, <2>1 DEF Others, Same
  <2>3. Phases(w)'
    BY <1>1, <2>1 DEF Kept, Phases
  <2>4. OneToken(w)'
    BY <1>1, <2>1, IdleToken
  <2> QED BY <1>1, <2>1, <2>2, <2>3, <2>4 DEF KeptBy, Kept
<1>3. CASE ReclaimSettled(w)
  <2>1. AfterReclaim(w, TRUE, FALSE) /\ UNCHANGED processing
    BY <1>3 DEF ReclaimSettled, redis
  <2>2. CASE pc[w] = "preflight"
    <3>1. /\ main' = [main EXCEPT ![w] = "running"] /\ pc' = [pc EXCEPT ![w] = "queued"]
          /\ UNCHANGED reclaimed
      BY <2>1, <2>2, Zenon DEF AfterReclaim, Goto
    <3>2. main'[w] = "running" /\ pc'[w] = "queued" /\ Others(w)
      BY <1>1, <2>1, <3>1 DEF TypeOK, Others, Same
    <3>3. OneToken(w)'
      BY <1>1, <3>2, IdleToken
    <3> QED BY <1>1, <3>2, <3>3 DEF KeptBy, Kept, Phases
  <2>3. CASE pc[w] = "starting"
    <3>1. /\ reclaimed' = [reclaimed EXCEPT ![w] = TRUE] /\ pc' = [pc EXCEPT ![w] = "top"]
          /\ UNCHANGED main
      BY <2>1, <2>3 DEF AfterReclaim, Goto
    <3>2. reclaimed'[w] /\ pc'[w] = "top" /\ Others(w)
      BY <1>1, <2>1, <3>1 DEF TypeOK, Others, Same
    <3>3. OneToken(w)'
      BY <1>1, <3>2, IdleToken
    <3> QED BY <1>1, <3>1, <3>2, <3>3 DEF KeptBy, Kept, Phases
  <2> QED BY <1>1, <2>2, <2>3
<1>4. CASE ReclaimFailed(w)
  BY <1>4, BoundsAreNaturals DEF ReclaimFailed, Fault, TypeOK
<1> QED BY <1>2, <1>3, <1>4 DEF Reclaim

\* A turn of collect(): the message leaves the list with its report.
LEMMA CollectKeeps ==
  ASSUME NEW w \in Worker, TypeOK, TypeOK', StaysReliable, HasLmove, Kept(w), faults' = faults,
         CollectOne(w), UNCHANGED pc
  PROVE  /\ KeptBy(w)
         /\ Head(finished[w]) \in Report /\ finished'[w] = Tail(finished[w])
         /\ UNCHANGED <<queue, sending, raw, settled, repeated>>
         /\ processing'[w] = IF Head(finished[w]).delivered
                             THEN RemoveFirst(processing[w], Head(finished[w]).msg)
                             ELSE processing[w]
<1> DEFINE f == finished[w]
           r == Head(f)
           p == processing[w]
<1>1. /\ f \in Seq(Report) /\ f # <<>> /\ finished' = [finished EXCEPT ![w] = Tail(f)]
      /\ UNCHANGED <<main, reclaimed, raw, sending, settled, repeated>>
      /\ p \in Seq(Message) /\ reliable[w]
  BY DEF CollectOne, TypeOK, mode, history, StaysReliable
<1>2. /\ r \in Report /\ Tail(f) \in Seq(Report) /\ Range(f) = {r} \cup Range(Tail(f))
  BY <1>1, TailRange
<1>3. r.msg \in Message
  BY <1>2 DEF Report
<1>4. /\ UNCHANGED queue
      /\ processing' = IF r.delivered THEN [processing EXCEPT ![w] = RemoveFirst(p, r.msg)]
                       ELSE processing
  <2>1. CASE r.delivered
    <3>1. Acknowledge(w, r.msg)
      BY <2>1 DEF CollectOne
    <3>2. ~Fault
      BY BoundsAreNaturals DEF Fault, TypeOK
    <3> QED BY <1>1, <2>1, <3>1, <3>2 DEF Acknowledge
  <2>2. CASE ~r.delivered
    BY <2>2 DEF CollectOne, redis
  <2> QED BY <2>1, <2>2
<1>5. /\ finished'[w] = Tail(f)
      /\ processing'[w] = IF r.delivered THEN RemoveFirst(p, r.msg) ELSE p
      /\ Others(w)
  BY <1>1, <1>4 DEF TypeOK, Others, Same
<1>6. /\ Linked(Tail(f), Apart) /\ \A q \in Range(Tail(f)) : <<r, q>> \in Apart
  BY <1>1, TailLinked DEF Kept, OneToken
<1>7. /\ Running(w)' = Running(w) /\ InHands(w)' = InHands(w)
      /\ Reported(w)' \subseteq Reported(w) \ {r.msg} /\ r.msg \in Reported(w)
  <2>1. \A q \in Range(Tail(f)) : q \in Range(f) /\ q.msg # r.msg
    BY <1>2, <1>6 DEF Apart
  <2> QED BY <1>1, <1>2, <1>5, <2>1 DEF Running, InHands, Reported
<1>8. \A m \in Range(p) : m # r.msg => m \in Range(processing'[w])
  BY <1>1, <1>3, <1>5, RemoveFirstRange
<1> HIDE DEF f, r, p
<1>9. OneToken(w)'
  <2>1. \A m \in Message : sending'[w][m] <= 1
    BY <1>1 DEF Kept, OneToken
  <2>2. r.msg \notin Running(w) \cup InHands(w)
    BY <1>7 DEF Kept, OneToken
  <2> QED BY <1>5, <1>6, <1>7, <1>8, <2>1, <2>2 DEF Kept, OneToken, p
<1>10. ~Idle(w) /\ Phases(w)'
  BY <1>1, <1>7 DEF Kept, Phases, Idle, f
<1> QED BY <1>1, <1>2, <1>4, <1>5, <1>9, <1>10 DEF KeptBy, Kept, f, r, p

\* The consumer moves along.
LEMMA MovesKeep ==
  ASSUME NEW w \in Worker, TypeOK, TypeOK', Kept(w), faults' = faults,
         Top(w) \/ Collected(w) \/ LeaveHold(w) \/ Finish(w) \/ PopNothing(w)
  PROVE  KeptBy(w) /\ pc'[w] \notin {"dispatch", "ack"} /\ pc[w] \notin {"dispatch", "ack"}
<1>1. /\ UNCHANGED <<main, reclaimed, raw, sending, finished, processing>>
      /\ pc[w] \in {"top", "collect", "hold", "last", "pop"}
      /\ \E to \in {"last", "collect", "hold", "pop", "off", "top"} : pc' = [pc EXCEPT ![w] = to]
  BY DEF Top, Collected, LeaveHold, Finish, PopNothing, ConsumerMoves, Goto, redis, mode, sends,
         Kept, Phases
<1>2. pc'[w] \in {"last", "collect", "hold", "pop", "off", "top"} /\ Others(w)
  BY <1>1 DEF TypeOK, Others, Same
<1>3. OneToken(w)'
  BY <1>1, <1>2, TokenUntouched DEF Kept
<1>4. Running(w)' = Running(w) /\ Idle(w)' = Idle(w)
  BY <1>1 DEF Running, Idle
<1> HIDE DEF Running, Idle
<1>5. Phases(w)'
  BY <1>1, <1>2, <1>4 DEF Kept, Phases
<1> QED BY <1>1, <1>2, <1>3, <1>5 DEF KeptBy, Kept

\* BLMOVE: what it adds to the list came from the queue, so it is new to it.
LEMMA PopKeeps ==
  ASSUME NEW w \in Worker, TypeOK, TypeOK', StaysReliable, HasLmove, Unique, Kept(w),
         faults' = faults, Pop(w)
  PROVE  /\ KeptBy(w) /\ UNCHANGED <<sending, finished, settled, repeated>>
         /\ pc[w] = "pop" /\ pc'[w] = "dispatch"
         /\ queue # <<>> /\ raw'[w] = Head(queue) /\ queue' = Tail(queue)
         /\ processing'[w] = Append(processing[w], Head(queue))
<1> DEFINE p == processing[w]
           e == Head(queue)
<1>1. /\ queue \in Seq(Message) /\ queue # <<>> /\ p \in Seq(Message) /\ reliable[w]
      /\ pc[w] = "pop" /\ pc' = [pc EXCEPT ![w] = "dispatch"] /\ raw' = [raw EXCEPT ![w] = e]
      /\ UNCHANGED <<main, reclaimed, sending, finished, settled, repeated>>
      /\ processing' = [processing EXCEPT ![w] = Append(p, e)] /\ queue' = Tail(queue)
  <2>1. ~Fault
    BY BoundsAreNaturals DEF Fault, TypeOK
  <2> QED BY <2>1 DEF Pop, Goto, mode, sends, history, TypeOK, StaysReliable
<1>2. /\ pc'[w] = "dispatch" /\ raw'[w] = e /\ processing'[w] = Append(p, e) /\ Others(w)
  BY <1>1 DEF TypeOK, Others, Same
<1>3. e \in Range(queue) /\ Range(Append(p, e)) = Range(p) \cup {e}
  BY <1>1, TailRange, AppendRange
<1>4. e \notin Range(p)
  BY <1>3 DEF Unique
<1>5. /\ Running(w)' = Running(w) /\ Reported(w)' = Reported(w) /\ InHands(w)' = {e}
  BY <1>1, <1>2 DEF Running, Reported, InHands
<1>6. OneToken(w)'
  <2>1. e \notin Running(w) \cup Reported(w)
    BY <1>4 DEF Kept, OneToken
  <2> QED BY <1>1, <1>2, <1>3, <1>5, <2>1 DEF Kept, OneToken
<1>7. Phases(w)'
  BY <1>1, <1>2 DEF Kept, Phases
<1> QED BY <1>1, <1>2, <1>6, <1>7 DEF KeptBy, Kept

\* What becomes of the message in hand without a send or a report.
LEMMA VerdictKeeps ==
  ASSUME NEW w \in Worker, TypeOK, TypeOK', Kept(w),
         Drop(w) \/ Keep(w) \/ CancelledInline(w) \/ HandlerFailed(w)
  PROVE  KeptBy(w)
<1>1. /\ UNCHANGED <<main, reclaimed, sending, finished, processing>> /\ pc[w] = "dispatch"
      /\ \/ pc' = [pc EXCEPT ![w] = "top"] /\ raw' = [raw EXCEPT ![w] = NoMessage]
         \/ pc' = [pc EXCEPT ![w] = "ack"] /\ UNCHANGED raw
  BY DEF Drop, Keep, CancelledInline, HandlerFailed, Handled, InHandOver, Goto, redis, mode, sends
<1>2. Others(w) /\ pc'[w] \in {"top", "ack"} /\ (pc'[w] = "ack" => UNCHANGED raw)
  BY <1>1 DEF TypeOK, Others, Same
<1>3. /\ Running(w)' = Running(w) /\ Reported(w)' = Reported(w) /\ InHands(w)' \subseteq InHands(w)
  BY <1>1, <1>2 DEF Running, Reported, InHands
<1>4. OneToken(w)'
  BY <1>1, <1>3 DEF Kept, OneToken
<1>5. Phases(w)'
  BY <1>1, <1>2 DEF Kept, Phases
<1> QED BY <1>2, <1>4, <1>5 DEF KeptBy, Kept

\* The acknowledgement of a verdict takes the message in hand off the list.
LEMMA AckKeeps ==
  ASSUME NEW w \in Worker, TypeOK, TypeOK', Hands, StaysReliable, HasLmove, Kept(w),
         faults' = faults, Ack(w)
  PROVE  /\ KeptBy(w) /\ UNCHANGED <<queue, sending, finished, settled, repeated>>
         /\ pc[w] = "ack" /\ pc'[w] = "top"
         /\ processing'[w] = RemoveFirst(processing[w], raw[w])
<1> DEFINE p == processing[w]
<1>1. /\ pc[w] = "ack" /\ raw[w] \in Message /\ p \in Seq(Message) /\ reliable[w]
      /\ UNCHANGED <<main, reclaimed, sending, finished, queue, settled, repeated>>
      /\ pc' = [pc EXCEPT ![w] = "top"] /\ raw' = [raw EXCEPT ![w] = NoMessage]
      /\ processing' = [processing EXCEPT ![w] = RemoveFirst(p, raw[w])]
  <2>1. ~Fault
    BY BoundsAreNaturals DEF Fault, TypeOK
  <2> QED BY <2>1 DEF Ack, Acknowledge, Goto, mode, sends, history, TypeOK, StaysReliable, Hands
<1>2. pc'[w] = "top" /\ processing'[w] = RemoveFirst(p, raw[w]) /\ Others(w)
  BY <1>1 DEF TypeOK, Others, Same
<1>3. \A m \in Range(p) : m # raw[w] => m \in Range(processing'[w])
  BY <1>1, <1>2, RemoveFirstRange
<1>4. /\ Running(w)' = Running(w) /\ Reported(w)' = Reported(w)
      /\ InHands(w) = {raw[w]} /\ InHands(w)' = {}
  BY <1>1, <1>2 DEF Running, Reported, InHands
<1>5. OneToken(w)'
  BY <1>1, <1>3, <1>4 DEF Kept, OneToken
<1>6. Phases(w)'
  BY <1>1, <1>2 DEF Kept, Phases
<1> QED BY <1>1, <1>2, <1>5, <1>6 DEF KeptBy, Kept

\* A hand-over turns the message in hand into a send that runs ...
LEMMA ScheduledKeeps ==
  ASSUME NEW w \in Worker, TypeOK, TypeOK', Hands, Kept(w), Scheduled(w)
  PROVE  /\ KeptBy(w) /\ UNCHANGED <<queue, processing, finished, settled, repeated>>
         /\ Running(w)' = Running(w) \cup {raw[w]} /\ pc[w] = "dispatch" /\ pc'[w] = "top"
<1>1. /\ pc[w] = "dispatch" /\ raw[w] \in Message /\ main[w] = "running"
      /\ UNCHANGED <<main, reclaimed, queue, processing, finished, settled, repeated>>
      /\ pc' = [pc EXCEPT ![w] = "top"] /\ raw' = [raw EXCEPT ![w] = NoMessage]
      /\ sending' = [sending EXCEPT ![w][raw[w]] = @ + 1]
  BY DEF Scheduled, Handled, InHandOver, Goto, redis, mode, history, Hands
<1>2. pc'[w] = "top" /\ Others(w)
  BY <1>1 DEF TypeOK, Others, Same
<1>3. \A m \in Message : /\ sending[w][m] \in Nat
                         /\ sending'[w][m] = IF m = raw[w] THEN sending[w][m] + 1 ELSE sending[w][m]
  BY <1>1 DEF TypeOK
<1>4. /\ InHands(w) = {raw[w]} /\ InHands(w)' = {} /\ Reported(w)' = Reported(w)
      /\ Running(w)' = Running(w) \cup {raw[w]}
  BY <1>1, <1>2, <1>3 DEF InHands, Reported, Running
<1>5. \A m \in Message : sending'[w][m] <= 1
  <2>1. sending[w][raw[w]] = 0
    BY <1>1, <1>3, <1>4 DEF Kept, OneToken, Running
  <2> QED BY <1>3, <2>1 DEF Kept, OneToken
<1>6. OneToken(w)'
  BY <1>1, <1>4, <1>5 DEF Kept, OneToken
<1>7. Phases(w)'
  BY <1>1, <1>2 DEF Kept, Phases
<1> QED BY <1>1, <1>2, <1>4, <1>6, <1>7 DEF KeptBy, Kept

\* ... or into a report.
LEMMA ReportedKeeps ==
  ASSUME NEW w \in Worker, TypeOK, TypeOK', Hands, Kept(w), DrivenInline(w) \/ Refused(w)
  PROVE  /\ KeptBy(w) /\ UNCHANGED <<queue, processing, sending>>
         /\ pc[w] = "dispatch" /\ pc'[w] = "top"
         /\ \E d \in BOOLEAN :
              /\ finished'[w] = Append(finished[w], [msg |-> raw[w], delivered |-> d])
              /\ DrivenInline(w) => d
              /\ ~d => Refused(w)
<1>1. PICK d \in BOOLEAN :
        /\ pc[w] = "dispatch" /\ raw[w] \in Message
        /\ UNCHANGED <<main, reclaimed, queue, processing, sending>>
        /\ pc' = [pc EXCEPT ![w] = "top"] /\ raw' = [raw EXCEPT ![w] = NoMessage]
        /\ finished' = [finished EXCEPT ![w] = Append(@, [msg |-> raw[w], delivered |-> d])]
        /\ DrivenInline(w) => d
        /\ ~d => Refused(w)
  <2>1. CASE DrivenInline(w)
    BY <2>1 DEF DrivenInline, Handled, InHandOver, Goto, redis, mode, Hands
  <2>2. CASE ~DrivenInline(w)
    BY <2>2 DEF Refused, Handled, InHandOver, Goto, redis, mode, Hands
  <2> QED BY <2>1, <2>2
<1> DEFINE f == finished[w]
           r == [msg |-> raw[w], delivered |-> d]
<1>2. f \in Seq(Report) /\ r \in Report
  BY <1>1 DEF TypeOK, Report
<1>3. pc'[w] = "top" /\ Others(w) /\ finished'[w] = Append(f, r)
  BY <1>1 DEF TypeOK, Others, Same
<1>4. Range(Append(f, r)) = Range(f) \cup {r}
  BY <1>2, AppendRange
<1>5. /\ InHands(w) = {raw[w]} /\ InHands(w)' = {} /\ Running(w)' = Running(w)
      /\ Reported(w)' = Reported(w) \cup {raw[w]}
  BY <1>1, <1>3, <1>4 DEF InHands, Reported, Running
<1>6. Linked(finished'[w], Apart)
  <2>1. \A q \in Range(f) : q \in Report /\ q.msg # r.msg
    BY <1>2, <1>5 DEF Kept, OneToken, Reported, Range
  <2>2. \A q \in Range(f) : <<q, r>> \in Apart
    BY <1>2, <2>1 DEF Apart
  <2> QED BY <1>2, <1>3, <2>2, AppendLinked DEF Kept, OneToken
<1> HIDE DEF f, r
<1>7. OneToken(w)'
  BY <1>1, <1>5, <1>6 DEF Kept, OneToken
<1>8. Phases(w)'
  BY <1>1, <1>3 DEF Kept, Phases
<1> QED BY <1>1, <1>3, <1>7, <1>8 DEF KeptBy, Kept, f, r

\* A send that ends leaves a report, a send that is cancelled leaves nothing.
LEMMA LoopKeeps ==
  ASSUME NEW w \in Worker, NEW m \in Message, TypeOK, TypeOK', Kept(w),
         Complete(w, m) \/ CancelSend(w, m)
  PROVE  /\ KeptBy(w) /\ UNCHANGED <<queue, processing, pc, raw>>
         /\ m \in Running(w) /\ Running(w)' = Running(w) \ {m}
         /\ Complete(w, m) => finished'[w] = Append(finished[w], [msg |-> m, delivered |-> TRUE])
<1>1. /\ sending[w][m] > 0 /\ sending' = [sending EXCEPT ![w][m] = @ - 1]
      /\ UNCHANGED <<main, pc, reclaimed, raw, queue, processing>>
  BY DEF Complete, CancelSend, redis, mode
<1>2. \A n \in Message : /\ sending[w][n] \in Nat
                         /\ sending'[w][n] = IF n = m THEN sending[w][n] - 1 ELSE sending[w][n]
  BY <1>1 DEF TypeOK
<1>3. \A n \in Message : sending[w][n] <= 1
  BY DEF Kept, OneToken
<1>4. /\ m \in Running(w) /\ Running(w)' = Running(w) \ {m} /\ InHands(w)' = InHands(w)
      /\ \A n \in Message : sending'[w][n] <= 1
  BY <1>1, <1>2, <1>3 DEF Running, InHands
<1>5. Phases(w)'
  BY <1>1, <1>4 DEF Kept, Phases, Idle
<1>6. CASE Complete(w, m)
  <2> DEFINE f == finished[w]
             r == [msg |-> m, delivered |-> TRUE]
  <2>1. /\ f \in Seq(Report) /\ r \in Report /\ r.msg = m
        /\ finished' = [finished EXCEPT ![w] = Append(f, r)]
    BY <1>6 DEF TypeOK, Report, Complete
  <2>2. finished'[w] = Append(f, r) /\ Others(w)
    BY <1>1, <2>1 DEF TypeOK, Others, Same
  <2> HIDE DEF f, r
  <2>3. Range(Append(f, r)) = Range(f) \cup {r}
    BY <2>1, AppendRange
  <2>4. Reported(w)' = Reported(w) \cup {m}
    BY <2>1, <2>2, <2>3 DEF Reported, f
  <2>5. Linked(finished'[w], Apart)
    <3>1. \A q \in Range(f) : q \in Report /\ q.msg # r.msg
      BY <1>4, <2>1 DEF Kept, OneToken, Reported, Range, f
    <3>2. \A q \in Range(f) : <<q, r>> \in Apart
      BY <2>1, <3>1 DEF Apart
    <3> QED BY <2>1, <2>2, <3>2, AppendLinked DEF Kept, OneToken, f
  <2>6. OneToken(w)'
    BY <1>1, <1>4, <2>4, <2>5 DEF Kept, OneToken
  <2> QED BY <1>1, <1>4, <1>5, <2>2, <2>6 DEF KeptBy, Kept, f, r
<1>7. CASE CancelSend(w, m)
  <2>1. UNCHANGED finished
    BY <1>7 DEF CancelSend
  <2>2. Others(w) /\ Reported(w)' = Reported(w)
    BY <1>1, <2>1 DEF TypeOK, Others, Same, Reported
  <2>3. OneToken(w)'
    BY <1>1, <1>4, <2>1, <2>2 DEF Kept, OneToken
  <2>4. (main[w] = "closing" /\ ~Complete(w, m)) \/ Complete(w, m)
    BY <1>7 DEF CancelSend
  <2> QED BY <1>1, <1>4, <1>5, <1>6, <2>2, <2>3, <2>4 DEF KeptBy, Kept
<1> QED BY <1>6, <1>7

LEMMA KeptByOne ==
  ASSUME NEW w \in Worker, \A v \in Worker : Kept(v), KeptBy(w)
  PROVE  \A v \in Worker : Kept(v)'
<1>1. \A v \in Worker \ {w} : Kept(v)'
  BY SameIsKept DEF KeptBy, Others
<1> QED BY <1>1 DEF KeptBy

LEMMA KeptByNone ==
  ASSUME \A v \in Worker : Kept(v), \A v \in Worker : Same(v)
  PROVE  \A v \in Worker : Kept(v)'
  BY SameIsKept

\* The invariant the promise rests on, with the lists in order.
Base == TypeOK /\ Hands /\ InOrder /\ StaysReliable

LEMMA BaseStep ==
  ASSUME Base, HasLmove, [Next]_vars
  PROVE  Base'
  BY TypeStep, InOrderStep, ReliableStep DEF Base

LEMMA InitBase == Init => Base
  BY InitType, InitInOrder DEF Base, Init, StaysReliable

\* A fault is never taken back.
LEMMA FaultsGrow ==
  ASSUME TypeOK, [Next]_vars
  PROVE  faults' \in Nat /\ faults' >= faults
<1> USE DEF bounds
<1>1. faults \in Nat
  BY BoundsAreNaturals DEF TypeOK
<1>2. ASSUME NEW w \in Worker, CollectOne(w) PROVE faults' \in {faults, faults + 1}
  BY <1>2 DEF CollectOne, Acknowledge, Fault, NoFault
<1>3. ASSUME NEW w \in Worker, Lifecycle(w) PROVE faults' \in {faults, faults + 1}
  BY <1>2, <1>3
  DEF Lifecycle, Start, StartConsumer, Stop, Joined, Closed, MainCollect, Exit, Crash, Gone,
      Fault, NoFault
<1>4. ASSUME NEW w \in Worker, Reclaim(w) PROVE faults' \in {faults, faults + 1}
  BY <1>4 DEF Reclaim, ReclaimMove, ReclaimSettled, ReclaimFailed, Fault
<1>5. ASSUME NEW w \in Worker, HandOver(w) PROVE faults' = faults
  BY <1>5 DEF HandOver, Scheduled, DrivenInline, Refused, CancelledInline, HandlerFailed, Handled
<1>6. ASSUME NEW w \in Worker, Consumer(w) PROVE faults' \in {faults, faults + 1}
  BY <1>2, <1>5, <1>6
  DEF Consumer, Top, Collect, Collected, LeaveHold, Finish, ConsumerMoves, Pop, PopNothing,
      Drop, Keep, Ack, Acknowledge, Fault, NoFault
<1>7. ASSUME NEW w \in Worker, NEW m \in Message, Complete(w, m) \/ CancelSend(w, m)
      PROVE  faults' = faults
  BY <1>7 DEF Complete, CancelSend
<1>8. CASE Push \/ OpEnds \/ \E w \in Worker : OpNames(w) \/ OpMoves(w)
  BY <1>1, <1>8 DEF Push, OpEnds, OpNames, OpMoves
<1>9. CASE UNCHANGED vars
  BY <1>1, <1>9 DEF vars
<1> QED BY <1>1, <1>3, <1>4, <1>6, <1>7, <1>8, <1>9 DEF Next

\* A step of one worker, without a fault.
LEMMA WorkerKeeps ==
  ASSUME NEW w \in Worker, Base, TypeOK', HasLmove, Kept(w), faults' = faults,
         Lifecycle(w) \/ Reclaim(w) \/ Consumer(w)
         \/ \E m \in Message : Complete(w, m) \/ CancelSend(w, m)
  PROVE  KeptBy(w)
<1> USE DEF Base
<1>1. CASE Lifecycle(w)
  BY <1>1, LifecycleKeeps, GoneKeeps, CollectKeeps DEF Lifecycle, MainCollect, Exit, Crash
<1>2. CASE Reclaim(w)
  BY <1>2, ReclaimKeeps
<1>3. CASE Consumer(w)
  BY <1>3, MovesKeep, CollectKeeps, PopKeeps, VerdictKeeps, AckKeeps, ScheduledKeeps, ReportedKeeps
  DEF Consumer, HandOver, Collect, InOrder
<1>4. CASE \E m \in Message : Complete(w, m) \/ CancelSend(w, m)
  BY <1>4, LoopKeeps
<1> QED BY <1>1, <1>2, <1>3, <1>4

LEMMA CustodyStep ==
  ASSUME Base, Base', Custody, [Next]_vars
  PROVE  Custody'
<1> SUFFICES ASSUME Calm' PROVE op' = NoWorker /\ \A w \in Worker : Kept(w)'
  BY DEF Custody
<1>1. Calm /\ faults' = faults
  BY FaultsGrow, BoundsAreNaturals DEF Calm, Base, TypeOK
<1>2. HasLmove /\ ~Operator /\ op = NoWorker /\ \A w \in Worker : Kept(w)
  BY <1>1 DEF Custody, Calm
<1>3. ASSUME NEW w \in Worker, Lifecycle(w) \/ Reclaim(w) \/ Consumer(w)
                               \/ \E m \in Message : Complete(w, m) \/ CancelSend(w, m)
      PROVE  op' = NoWorker /\ \A v \in Worker : Kept(v)'
  <2>1. op' = op
    BY <1>3
    DEF Lifecycle, Start, StartConsumer, Stop, Joined, Closed, MainCollect, CollectOne, Exit, Crash,
        Gone, Reclaim, ReclaimMove, ReclaimSettled, ReclaimFailed, Consumer, Top, Collect, Collected,
        LeaveHold, Finish, ConsumerMoves, Pop, PopNothing, Drop, Keep, Ack, HandOver, Scheduled,
        DrivenInline, Refused, CancelledInline, HandlerFailed, Handled, Complete, CancelSend
  <2> QED BY <1>1, <1>2, <1>3, <2>1, WorkerKeeps, KeptByOne DEF Base
<1>4. CASE Push \/ UNCHANGED vars
  <2>1. op' = op /\ \A v \in Worker : Same(v)
    BY <1>4 DEF Push, mode, sends, vars, Same
  <2> QED BY <1>2, <2>1, KeptByNone
<1>5. CASE OpEnds \/ \E w \in Worker : OpNames(w) \/ OpMoves(w)
  BY <1>2, <1>5, NoWorkerIsNoName DEF OpEnds, OpNames, OpMoves
<1> QED BY <1>3, <1>4, <1>5 DEF Next

LEMMA InitCustody == Init => Custody
<1> SUFFICES ASSUME Init, NEW w \in Worker PROVE Kept(w)
  BY DEF Custody, Init
<1>1. /\ main[w] = "down" /\ pc[w] = "off" /\ finished[w] = <<>> /\ op = NoWorker
      /\ sending[w] = [m \in Message |-> 0] /\ processing[w] = <<>>
  BY DEF Init
<1>2. Running(w) = {} /\ Reported(w) = {} /\ InHands(w) = {} /\ Linked(finished[w], Apart)
  BY <1>1, EmptyLinked DEF Running, Reported, InHands, Range
<1>3. OneToken(w)
  BY <1>1, <1>2 DEF OneToken
<1>4. Phases(w)
  BY <1>1, <1>2 DEF Phases, Idle
<1> QED BY <1>1, <1>3, <1>4 DEF Kept

(***************************************************************************)
(* A send that is running has its message in its own worker's list, where  *)
(* a kill of the process leaves it and no other worker's pop reaches it:   *)
(* reclaim() is called only by a consumer whose process has nothing under  *)
(* way, so it never puts back a message that is being sent.                *)
(***************************************************************************)
THEOREM LiveSendsStayHeld == Spec => []LiveSendsAreHeld
<1>1. CASE HasLmove
  <2> DEFINE Inv == Base /\ Custody
  <2>1. Init => Inv
    BY InitBase, InitCustody
  <2>2. Inv /\ [Next]_vars => Inv'
    BY <1>1, BaseStep, CustodyStep
  <2>3. Inv => LiveSendsAreHeld
    BY DEF Custody, Calm, Kept, OneToken, Running, LiveSendsAreHeld
  <2> QED BY <2>1, <2>2, <2>3, PTL DEF Spec
<1>2. CASE ~HasLmove
  <2>1. LiveSendsAreHeld
    BY <1>2 DEF LiveSendsAreHeld
  <2> QED BY <2>1, PTL
<1> QED BY <1>1, <1>2

\* Only pushed messages get a verdict.
LEMMA SettledWasPushed ==
  ASSUME TypeOK, Hands, OnlyPushed, settled \subseteq 1..pushed, [Next]_vars
  PROVE  settled' \subseteq 1..pushed'
<1> USE DEF history, input
<1>1. pushed \in Nat
  BY BoundsAreNaturals DEF TypeOK
<1>2. ASSUME NEW w \in Worker, pc[w] = "dispatch"
      PROVE  raw[w] \in 1..pushed
  BY <1>1, <1>2 DEF Hands, OnlyPushed, Message
<1>3. ASSUME NEW w \in Worker, Lifecycle(w) \/ Reclaim(w)
      PROVE  UNCHANGED <<settled, pushed>>
  BY <1>3
  DEF Lifecycle, Start, StartConsumer, Stop, Joined, Closed, MainCollect, CollectOne, Exit, Crash,
      Gone, Reclaim, ReclaimMove, ReclaimSettled, ReclaimFailed
<1>4. ASSUME NEW w \in Worker, HandOver(w)
      PROVE  UNCHANGED pushed /\ settled' \subseteq settled \cup {raw[w]} /\ pc[w] = "dispatch"
  BY <1>4
  DEF HandOver, Scheduled, DrivenInline, Refused, CancelledInline, HandlerFailed, Handled,
      InHandOver, SendEnds, Dismiss
<1>5. ASSUME NEW w \in Worker, Consumer(w)
      PROVE  /\ UNCHANGED pushed
             /\ \/ settled' = settled
                \/ settled' \subseteq settled \cup {raw[w]} /\ pc[w] = "dispatch"
  BY <1>4, <1>5
  DEF Consumer, Top, Collect, CollectOne, Collected, LeaveHold, Finish, ConsumerMoves, Pop,
      PopNothing, Drop, Dismiss, Keep, Ack
<1>6. ASSUME NEW w \in Worker, NEW m \in Message, Complete(w, m) \/ CancelSend(w, m)
      PROVE  UNCHANGED pushed /\ settled' \subseteq settled \cup {m} /\ m \in 1..pushed
  BY <1>6 DEF Complete, CancelSend, SendEnds, OnlyPushed
<1>7. CASE Push
  BY <1>1, <1>7 DEF Push
<1>8. CASE OpEnds \/ \E w \in Worker : OpNames(w) \/ OpMoves(w)
  BY <1>8 DEF OpEnds, OpNames, OpMoves
<1>9. CASE UNCHANGED vars
  BY <1>9 DEF vars
<1> QED BY <1>2, <1>3, <1>5, <1>6, <1>7, <1>8, <1>9 DEF Next

-----------------------------------------------------------------------------
(***************************************************************************)
(* Sent once.  Without a kill either, a message whose outcome is final has *)
(* no claim on another send: it is out of the queue, nobody is sending or  *)
(* dispatching it, and it stays on a processing list only while its        *)
(* acknowledgement is under way.                                           *)
(***************************************************************************)
Claims(w) == Running(w) \cup (IF pc[w] = "dispatch" THEN {raw[w]} ELSE {})

Delivered(f) == {r.msg : r \in {q \in Range(f) : q.delivered}}

Acked(w) == Delivered(finished[w]) \cup (IF pc[w] = "ack" THEN {raw[w]} ELSE {})

Done(w) == /\ Claims(w) \cap settled = {}
           /\ settled \cap Range(processing[w]) \subseteq Acked(w)

SentOnce ==
  /\ repeated = {}
  /\ settled \subseteq 1..pushed
  /\ settled \cap Range(queue) = {}
  /\ \A w \in Worker : Done(w)

Once == Calm /\ crashes = 0 => SentOnce

\* A worker's step makes at most messages of its own list final.
OnceBy(w) ==
  /\ Others(w) /\ Done(w)' /\ repeated' = {}
  /\ settled' \cap Range(queue') = {}
  /\ settled' \subseteq settled \cup Range(processing[w])

LEMMA OnceByOne ==
  ASSUME NEW w \in Worker, Unique, \A v \in Worker : Kept(v), SentOnce, OnceBy(w),
         settled' \subseteq 1..pushed'
  PROVE  SentOnce'
<1>1. ASSUME NEW v \in Worker \ {w} PROVE Done(v)'
  <2>1. Same(v)
    BY DEF OnceBy, Others
  <2>2. Claims(v)' = Claims(v) /\ Acked(v)' = Acked(v) /\ processing'[v] = processing[v]
    BY <2>1 DEF Same, Claims, Running, Acked
  <2>3. Claims(v) \subseteq Range(processing[v])
    BY DEF Kept, OneToken, Claims, InHands
  <2>4. Range(processing[w]) \cap Range(processing[v]) = {}
    BY DEF Unique
  <2>5. settled' \cap Range(processing[v]) \subseteq settled
    BY <2>4 DEF OnceBy
  <2>6. Claims(v) \cap settled = {} /\ settled \cap Range(processing[v]) \subseteq Acked(v)
    BY DEF SentOnce, Done
  <2> QED BY <2>2, <2>3, <2>5, <2>6 DEF Done
<1> QED BY <1>1 DEF OnceBy, SentOnce

\* A step that is none of the messages' business.
LEMMA OnceUntouched ==
  ASSUME NEW w \in Worker, SentOnce, Others(w),
         UNCHANGED <<queue, processing, sending, finished, raw, settled, repeated>>,
         pc'[w] \notin {"dispatch", "ack"}, pc[w] \notin {"dispatch", "ack"} \/ pc[w] = pc'[w]
  PROVE  OnceBy(w)
<1>1. Claims(w)' = Claims(w) /\ Acked(w)' = Acked(w)
  BY DEF Claims, Running, Acked
<1> QED BY <1>1 DEF SentOnce, Done, OnceBy

\* A worker that holds nothing, before and after.
LEMMA OnceIdle ==
  ASSUME NEW w \in Worker, SentOnce, Others(w), Idle(w), Idle(w)', UNCHANGED <<settled, repeated>>,
         pc[w] \notin {"dispatch", "ack"}, pc'[w] \notin {"dispatch", "ack"},
         Range(processing'[w]) \subseteq Range(processing[w]),
         Range(queue') \subseteq Range(queue) \cup Range(processing[w])
  PROVE  OnceBy(w)
<1>1. Acked(w) = {} /\ Claims(w)' = {} /\ settled \cap Range(processing[w]) = {}
  <2>1. Range(<<>>) = {}
    BY DEF Range
  <2> QED BY <2>1 DEF Idle, Acked, Delivered, Claims, SentOnce, Done
<1> QED BY <1>1 DEF SentOnce, Done, OnceBy

LEMMA OnceLifecycle ==
  ASSUME NEW w \in Worker, TypeOK, TypeOK', Kept(w), SentOnce, faults' = faults, crashes' = crashes,
         Lifecycle(w), ~MainCollect(w)
  PROVE  OnceBy(w)
<1>1. CASE Start(w) \/ StartConsumer(w)
  <2>1. KeptBy(w)
    BY <1>1, LifecycleKeeps
  <2>2. /\ UNCHANGED <<queue, processing, sending, finished, raw, settled, repeated>>
        /\ pc'[w] \notin {"dispatch", "ack"} /\ pc[w] \notin {"dispatch", "ack"}
    BY <1>1 DEF Start, StartConsumer, Goto, redis, sends, history, TypeOK, Kept, Phases
  <2> QED BY <2>1, <2>2, OnceUntouched DEF KeptBy
<1>2. CASE Stop(w) \/ Joined(w) \/ Closed(w)
  <2>1. KeptBy(w)
    BY <1>2, LifecycleKeeps
  <2>2. UNCHANGED <<queue, processing, sending, finished, raw, settled, repeated, pc>>
    BY <1>2 DEF Stop, Joined, Closed, redis, sends, history
  <2>3. Claims(w)' = Claims(w) /\ Acked(w)' = Acked(w)
    BY <2>2 DEF Claims, Running, Acked
  <2> QED BY <2>1, <2>2, <2>3 DEF KeptBy, SentOnce, Done, OnceBy
<1>3. CASE Exit(w)
  <2>1. KeptBy(w)
    BY <1>3, GoneKeeps DEF Exit
  <2>2. /\ UNCHANGED <<queue, processing, settled, repeated>> /\ pc'[w] = "off" /\ main'[w] = "down"
        /\ Idle(w) /\ pc[w] = "off"
    BY <1>3 DEF Exit, Gone, Goto, redis, history, TypeOK, Kept, Phases, Idle
  <2>3. Idle(w)'
    BY <2>1, <2>2 DEF KeptBy, Kept, Phases
  <2> QED BY <2>1, <2>2, <2>3, OnceIdle DEF KeptBy
<1>4. CASE Crash(w)
  BY <1>4, BoundsAreNaturals DEF Crash, TypeOK
<1> QED BY <1>1, <1>2, <1>3, <1>4 DEF Lifecycle

LEMMA OnceReclaim ==
  ASSUME NEW w \in Worker, TypeOK, TypeOK', HasLmove, Kept(w), SentOnce, faults' = faults, Reclaim(w)
  PROVE  OnceBy(w)
<1>1. /\ KeptBy(w) /\ Idle(w) /\ Idle(w)' /\ pc'[w] \notin {"dispatch", "ack"}
      /\ pc[w] \notin {"dispatch", "ack"} /\ UNCHANGED <<settled, repeated>>
  BY ReclaimKeeps DEF Reclaim, ReclaimMove, ReclaimSettled, ReclaimFailed, InReclaim, history
<1>2. /\ Range(processing'[w]) \subseteq Range(processing[w])
      /\ Range(queue') \subseteq Range(queue) \cup Range(processing[w])
  <2>1. CASE UNCHANGED redis
    BY <2>1 DEF redis
  <2>2. CASE MoveBack(w)
    <3>1. /\ processing[w] \in Seq(Message) /\ processing[w] # <<>> /\ queue \in Seq(Message)
          /\ processing'[w] = Front(processing[w]) /\ queue' = <<Last(processing[w])>> \o queue
      BY <2>2 DEF MoveBack, TypeOK
    <3>2. /\ Last(processing[w]) \in Message
          /\ Range(processing[w]) = {Last(processing[w])} \cup Range(processing'[w])
      BY <3>1, FrontRange
    <3>3. Range(queue') = {Last(processing[w])} \cup Range(queue)
      BY <3>1, <3>2, ConsRange
    <3> QED BY <3>2, <3>3
  <2> QED BY <2>1, <2>2 DEF Reclaim, ReclaimMove, ReclaimSettled, ReclaimFailed
<1> QED BY <1>1, <1>2, OnceIdle DEF KeptBy

LEMMA OnceCollect ==
  ASSUME NEW w \in Worker, TypeOK, TypeOK', StaysReliable, HasLmove, Unique, Kept(w), SentOnce,
         faults' = faults, CollectOne(w), UNCHANGED pc
  PROVE  OnceBy(w)
<1> DEFINE f == finished[w]
           r == Head(f)
           p == processing[w]
<1>1. /\ KeptBy(w) /\ r \in Report /\ finished'[w] = Tail(f)
      /\ UNCHANGED <<queue, sending, raw, settled, repeated>>
      /\ processing'[w] = IF r.delivered THEN RemoveFirst(p, r.msg) ELSE p
  BY CollectKeeps
<1>2. /\ f \in Seq(Report) /\ f # <<>> /\ p \in Seq(Message) /\ Linked(p, Different)
  BY DEF CollectOne, TypeOK, Unique
<1>3. Range(f) = {r} \cup Range(Tail(f)) /\ r.msg \in Message
  BY <1>1, <1>2, TailRange DEF Report
<1>4. /\ Range(processing'[w]) \subseteq Range(p)
      /\ r.delivered => r.msg \notin Range(processing'[w])
  <2>1. <<r.msg, r.msg>> \notin Different
    BY <1>3 DEF Different
  <2> HIDE DEF r, p
  <2> QED BY <1>1, <1>2, <1>3, <2>1, RemoveFirstRange, RemoveFirstGone
<1>5. /\ Claims(w)' = Claims(w)
      /\ Acked(w) \subseteq Acked(w)' \cup (IF r.delivered THEN {r.msg} ELSE {})
  BY <1>1, <1>3 DEF Claims, Running, Acked, Delivered
<1> HIDE DEF f, r, p
<1> QED BY <1>1, <1>4, <1>5 DEF KeptBy, SentOnce, Done, OnceBy, p

LEMMA OnceMoves ==
  ASSUME NEW w \in Worker, TypeOK, TypeOK', Kept(w), SentOnce, faults' = faults,
         Top(w) \/ Collected(w) \/ LeaveHold(w) \/ Finish(w) \/ PopNothing(w)
  PROVE  OnceBy(w)
<1>1. KeptBy(w) /\ pc'[w] \notin {"dispatch", "ack"} /\ pc[w] \notin {"dispatch", "ack"}
  BY MovesKeep
<1>2. UNCHANGED <<queue, processing, sending, finished, raw, settled, repeated>>
  BY DEF Top, Collected, LeaveHold, Finish, PopNothing, ConsumerMoves, redis, sends, history
<1> QED BY <1>1, <1>2, OnceUntouched DEF KeptBy

LEMMA OncePop ==
  ASSUME NEW w \in Worker, TypeOK, TypeOK', StaysReliable, HasLmove, Unique, Kept(w), SentOnce,
         faults' = faults, Pop(w)
  PROVE  OnceBy(w)
<1>1. /\ KeptBy(w) /\ UNCHANGED <<sending, finished, settled, repeated>>
      /\ pc[w] = "pop" /\ pc'[w] = "dispatch"
      /\ queue # <<>> /\ raw'[w] = Head(queue) /\ queue' = Tail(queue)
      /\ processing'[w] = Append(processing[w], Head(queue))
  BY PopKeeps
<1>2. /\ Range(queue) = {Head(queue)} \cup Range(queue')
      /\ Range(processing'[w]) = Range(processing[w]) \cup {Head(queue)}
  <2>1. queue \in Seq(Message) /\ processing[w] \in Seq(Message)
    BY DEF TypeOK
  <2>2. Head(queue) \in Message /\ Range(queue) = {Head(queue)} \cup Range(Tail(queue))
    BY <1>1, <2>1, TailRange
  <2> QED BY <1>1, <2>1, <2>2, AppendRange
<1>3. Claims(w)' = Claims(w) \cup {Head(queue)} /\ Acked(w)' = Acked(w)
  BY <1>1 DEF Claims, Running, Acked
<1> QED BY <1>1, <1>2, <1>3 DEF KeptBy, SentOnce, Done, OnceBy

\* The message in hand is given back, or is concluded and to be acknowledged.
LEMMA OnceVerdict ==
  ASSUME NEW w \in Worker, TypeOK, TypeOK', Unique, Kept(w), SentOnce,
         Drop(w) \/ Keep(w) \/ CancelledInline(w) \/ HandlerFailed(w)
  PROVE  OnceBy(w)
<1>1. KeptBy(w)
  BY VerdictKeeps
<1>2. /\ UNCHANGED <<queue, processing, sending, finished, repeated>> /\ pc[w] = "dispatch"
      /\ \/ pc'[w] = "top" /\ UNCHANGED settled
         \/ pc'[w] = "ack" /\ UNCHANGED raw /\ settled' = settled \cup {raw[w]}
  BY DEF Drop, Keep, CancelledInline, HandlerFailed, Handled, InHandOver, Dismiss, Goto, redis,
         sends, history, TypeOK
<1>3. /\ Running(w)' = Running(w) /\ raw[w] \notin Running(w) /\ raw[w] \in Range(processing[w])
      /\ raw[w] \notin Range(queue)
  BY <1>2 DEF Running, Kept, OneToken, InHands, Unique
<1>4. /\ Claims(w)' = Claims(w) \ {raw[w]}
      /\ Acked(w)' = Acked(w) \cup (IF pc'[w] = "ack" THEN {raw[w]} ELSE {})
  BY <1>2, <1>3 DEF Claims, Acked
<1> QED BY <1>1, <1>2, <1>3, <1>4 DEF KeptBy, SentOnce, Done, OnceBy

LEMMA OnceAck ==
  ASSUME NEW w \in Worker, TypeOK, TypeOK', Hands, StaysReliable, HasLmove, Unique, Kept(w), SentOnce,
         faults' = faults, Ack(w)
  PROVE  OnceBy(w)
<1>1. /\ KeptBy(w) /\ UNCHANGED <<queue, sending, finished, settled, repeated>>
      /\ pc[w] = "ack" /\ pc'[w] = "top"
      /\ processing'[w] = RemoveFirst(processing[w], raw[w])
  BY AckKeeps
<1>2. raw[w] \in Message /\ processing[w] \in Seq(Message) /\ Linked(processing[w], Different)
  BY <1>1 DEF Hands, TypeOK, Unique
<1>3. /\ Range(processing'[w]) \subseteq Range(processing[w])
      /\ raw[w] \notin Range(processing'[w])
  BY <1>1, <1>2, RemoveFirstRange, RemoveFirstGone DEF Different
<1>4. Claims(w)' = Claims(w) /\ Acked(w) \subseteq Acked(w)' \cup {raw[w]}
  BY <1>1 DEF Claims, Running, Acked
<1> QED BY <1>1, <1>3, <1>4 DEF KeptBy, SentOnce, Done, OnceBy

LEMMA OnceScheduled ==
  ASSUME NEW w \in Worker, TypeOK, TypeOK', Hands, Kept(w), SentOnce, Scheduled(w)
  PROVE  OnceBy(w)
<1>1. /\ KeptBy(w) /\ UNCHANGED <<queue, processing, finished, settled, repeated>>
      /\ Running(w)' = Running(w) \cup {raw[w]} /\ pc[w] = "dispatch" /\ pc'[w] = "top"
  BY ScheduledKeeps
<1>2. Claims(w)' = Claims(w) /\ Acked(w)' = Acked(w)
  BY <1>1 DEF Claims, Acked
<1> QED BY <1>1, <1>2 DEF KeptBy, SentOnce, Done, OnceBy

\* A report that acknowledges makes the message ready to leave the list.
LEMMA DeliveredAppend ==
  ASSUME NEW f \in Seq(Report), NEW m \in Message, NEW d \in BOOLEAN
  PROVE  Delivered(Append(f, [msg |-> m, delivered |-> d]))
           = Delivered(f) \cup (IF d THEN {m} ELSE {})
<1> DEFINE r == [msg |-> m, delivered |-> d]
<1>1. r \in Report /\ r.msg = m /\ r.delivered = d
  BY DEF Report
<1> HIDE DEF r
<1>2. Range(Append(f, r)) = Range(f) \cup {r}
  BY <1>1, AppendRange
<1> QED BY <1>1, <1>2 DEF Delivered, r

LEMMA OnceReported ==
  ASSUME NEW w \in Worker, TypeOK, TypeOK', Hands, Unique, Kept(w), SentOnce,
         DrivenInline(w) \/ Refused(w)
  PROVE  OnceBy(w)
<1>1. PICK d \in BOOLEAN :
        /\ KeptBy(w) /\ UNCHANGED <<queue, processing, sending>>
        /\ pc[w] = "dispatch" /\ pc'[w] = "top"
        /\ finished'[w] = Append(finished[w], [msg |-> raw[w], delivered |-> d])
        /\ DrivenInline(w) => d
        /\ ~d => Refused(w)
  BY ReportedKeeps
<1>2. raw[w] \in Message /\ finished[w] \in Seq(Report)
  BY <1>1 DEF Hands, TypeOK
<1>3. /\ raw[w] \notin settled /\ raw[w] \notin Running(w)
      /\ raw[w] \in Range(processing[w]) /\ raw[w] \notin Range(queue)
  BY <1>1 DEF SentOnce, Done, Claims, Kept, OneToken, InHands, Unique
<1>4. /\ Claims(w)' = Claims(w) \ {raw[w]}
      /\ Acked(w)' = Acked(w) \cup (IF d THEN {raw[w]} ELSE {})
  BY <1>1, <1>2, <1>3, DeliveredAppend DEF Claims, Running, Acked
<1>5. CASE DrivenInline(w)
  <2>1. settled' = settled \cup {raw[w]} /\ repeated' = repeated /\ d
    BY <1>1, <1>3, <1>5 DEF DrivenInline, SendEnds
  <2> QED BY <1>1, <1>3, <1>4, <2>1 DEF KeptBy, SentOnce, Done, OnceBy
<1>6. CASE Refused(w)
  <2>1. UNCHANGED <<settled, repeated>>
    BY <1>6 DEF Refused, history
  <2> QED BY <1>1, <1>4, <2>1 DEF KeptBy, SentOnce, Done, OnceBy
<1> QED BY <1>5, <1>6

LEMMA OnceLoop ==
  ASSUME NEW w \in Worker, NEW m \in Message, TypeOK, TypeOK', Unique, Kept(w), SentOnce,
         Complete(w, m) \/ CancelSend(w, m)
  PROVE  OnceBy(w)
<1>1. /\ KeptBy(w) /\ UNCHANGED <<queue, processing, pc, raw>>
      /\ m \in Running(w) /\ Running(w)' = Running(w) \ {m}
      /\ Complete(w, m) => finished'[w] = Append(finished[w], [msg |-> m, delivered |-> TRUE])
  BY LoopKeeps
<1>2. m \notin settled /\ m \in Range(processing[w]) /\ m \notin Range(queue)
  BY <1>1 DEF SentOnce, Done, Claims, Kept, OneToken, Unique
<1>3. Claims(w)' = Claims(w) \ {m}
  BY <1>1 DEF Claims, Kept, OneToken, InHands
<1>4. CASE Complete(w, m)
  <2>1. settled' = settled \cup {m} /\ repeated' = repeated /\ finished[w] \in Seq(Report)
    BY <1>2, <1>4 DEF Complete, SendEnds, TypeOK
  <2>2. Delivered(finished'[w]) = Delivered(finished[w]) \cup {m}
    <3>1. /\ finished'[w] = Append(finished[w], [msg |-> m, delivered |-> TRUE])
          /\ TRUE \in BOOLEAN
      BY <1>1, <1>4
    <3>2. Delivered(Append(finished[w], [msg |-> m, delivered |-> TRUE]))
            = Delivered(finished[w]) \cup (IF TRUE THEN {m} ELSE {})
      BY <2>1, <3>1, DeliveredAppend
    <3> QED BY <3>1, <3>2
  <2>3. Acked(w)' = Acked(w) \cup {m}
    BY <1>1, <2>2 DEF Acked
  <2> QED BY <1>1, <1>2, <1>3, <2>1, <2>3 DEF KeptBy, SentOnce, Done, OnceBy
<1>5. CASE CancelSend(w, m)
  <2>1. UNCHANGED <<settled, repeated, finished>>
    BY <1>5 DEF CancelSend, history
  <2>2. Acked(w)' = Acked(w)
    BY <1>1, <2>1 DEF Acked
  <2> QED BY <1>1, <1>3, <2>1, <2>2 DEF KeptBy, SentOnce, Done, OnceBy
<1> QED BY <1>4, <1>5

LEMMA CrashesGrow ==
  ASSUME TypeOK, [Next]_vars
  PROVE  crashes' = crashes \/ crashes' = crashes + 1
<1> USE DEF bounds, Fault, NoFault
<1>1. ASSUME NEW w \in Worker, CollectOne(w) PROVE crashes' = crashes
  BY <1>1 DEF CollectOne, Acknowledge
<1>2. ASSUME NEW w \in Worker, Lifecycle(w) PROVE crashes' = crashes \/ crashes' = crashes + 1
  BY <1>1, <1>2
  DEF Lifecycle, Start, StartConsumer, Stop, Joined, Closed, MainCollect, Exit, Crash, Gone
<1>3. ASSUME NEW w \in Worker, Reclaim(w) PROVE crashes' = crashes
  BY <1>3 DEF Reclaim, ReclaimMove, ReclaimSettled, ReclaimFailed
<1>4. ASSUME NEW w \in Worker, HandOver(w) PROVE crashes' = crashes
  BY <1>4 DEF HandOver, Scheduled, DrivenInline, Refused, CancelledInline, HandlerFailed, Handled
<1>5. ASSUME NEW w \in Worker, Consumer(w) PROVE crashes' = crashes
  BY <1>1, <1>4, <1>5
  DEF Consumer, Top, Collect, Collected, LeaveHold, Finish, ConsumerMoves, Pop, PopNothing,
      Drop, Keep, Ack, Acknowledge
<1>6. ASSUME NEW w \in Worker, NEW m \in Message, Complete(w, m) \/ CancelSend(w, m)
      PROVE  crashes' = crashes
  BY <1>6 DEF Complete, CancelSend
<1>7. CASE Push \/ OpEnds \/ \E w \in Worker : OpNames(w) \/ OpMoves(w)
  BY <1>7 DEF Push, OpEnds, OpNames, OpMoves
<1>8. CASE UNCHANGED vars
  BY <1>8 DEF vars
<1> QED BY <1>2, <1>3, <1>5, <1>6, <1>7, <1>8 DEF Next

LEMMA WorkerOnce ==
  ASSUME NEW w \in Worker, Base, TypeOK', HasLmove, Kept(w), SentOnce,
         faults' = faults, crashes' = crashes,
         Lifecycle(w) \/ Reclaim(w) \/ Consumer(w)
         \/ \E m \in Message : Complete(w, m) \/ CancelSend(w, m)
  PROVE  OnceBy(w)
<1> USE DEF Base, InOrder
<1>1. CASE Lifecycle(w)
  BY <1>1, OnceLifecycle, OnceCollect DEF MainCollect
<1>2. CASE Reclaim(w)
  BY <1>2, OnceReclaim
<1>3. CASE Consumer(w)
  BY <1>3, OnceMoves, OnceCollect, OncePop, OnceVerdict, OnceAck, OnceScheduled, OnceReported
  DEF Consumer, HandOver, Collect
<1>4. CASE \E m \in Message : Complete(w, m) \/ CancelSend(w, m)
  BY <1>4, OnceLoop
<1> QED BY <1>1, <1>2, <1>3, <1>4

LEMMA OncePush ==
  ASSUME TypeOK, SentOnce, settled' \subseteq 1..pushed', Push
  PROVE  SentOnce'
<1>1. /\ pushed \in Nat /\ queue' = Append(queue, pushed + 1) /\ pushed + 1 \in Message
      /\ UNCHANGED <<processing, pc, raw, sending, finished, settled, repeated>>
  BY PushType, BoundsAreNaturals DEF Push, sends, history, TypeOK, Message
<1>2. Range(queue') = Range(queue) \cup {pushed + 1}
  BY <1>1, AppendRange DEF TypeOK
<1>3. pushed + 1 \notin settled
  BY <1>1 DEF SentOnce
<1>4. \A w \in Worker : Done(w)' = Done(w)
  BY <1>1 DEF Done, Claims, Running, Acked
<1> QED BY <1>1, <1>2, <1>3, <1>4 DEF SentOnce

LEMMA OnceStep ==
  ASSUME Base, Base', OnlyPushed, Custody, Once, [Next]_vars
  PROVE  Once'
<1> SUFFICES ASSUME Calm', crashes' = 0 PROVE SentOnce'
  BY DEF Once
<1>1. Calm /\ faults' = faults
  BY FaultsGrow, BoundsAreNaturals DEF Calm, Base, TypeOK
<1>2. crashes = 0
  BY CrashesGrow, BoundsAreNaturals DEF Base, TypeOK
<1>3. HasLmove /\ ~Operator /\ op = NoWorker /\ SentOnce /\ \A w \in Worker : Kept(w)
  BY <1>1, <1>2 DEF Custody, Calm, Once
<1>4. settled' \subseteq 1..pushed'
  BY <1>3, SettledWasPushed DEF Base, SentOnce
<1>5. ASSUME NEW w \in Worker, Lifecycle(w) \/ Reclaim(w) \/ Consumer(w)
                               \/ \E m \in Message : Complete(w, m) \/ CancelSend(w, m)
      PROVE  SentOnce'
  BY <1>1, <1>2, <1>3, <1>4, <1>5, WorkerOnce, OnceByOne DEF Base, InOrder
<1>6. CASE Push
  BY <1>3, <1>4, <1>6, OncePush DEF Base
<1>7. CASE OpEnds \/ \E w \in Worker : OpNames(w) \/ OpMoves(w)
  BY <1>3, <1>7, NoWorkerIsNoName DEF OpEnds, OpNames, OpMoves
<1>8. CASE UNCHANGED vars
  <2>1. /\ UNCHANGED <<queue, pushed, settled, repeated, processing>>
        /\ \A w \in Worker : Done(w)' = Done(w)
    BY <1>8 DEF vars, Done, Claims, Running, Acked
  <2> QED BY <1>3, <1>4, <2>1 DEF SentOnce
<1> QED BY <1>5, <1>6, <1>7, <1>8 DEF Next

LEMMA InitOnce == Init => Once
<1> SUFFICES ASSUME Init PROVE SentOnce
  BY DEF Once
<1>1. settled = {} /\ repeated = {} /\ \A w \in Worker : Running(w) = {} /\ pc[w] = "off"
  BY DEF Init, Running
<1> QED BY <1>1 DEF SentOnce, Done, Claims

(***************************************************************************)
(* Without a kill, a Redis fault, a join that timed out or an operator, no *)
(* send runs to its end twice, however often the workers are stopped and   *)
(* started: what the drain of bot.close() finished is acknowledged by the  *)
(* collect() after it, and what it cancelled is still on the list.         *)
(***************************************************************************)
THEOREM UndisturbedSendsOnce == Spec => []SentOnceUnlessDisturbed
<1>1. CASE HasLmove
  <2> DEFINE Inv == IndInv /\ Base /\ Custody /\ Once
  <2>1. Init => Inv
    BY InitInd, InitBase, InitCustody, InitOnce
  <2>2. Inv /\ [Next]_vars => Inv'
    BY <1>1, IndStep, BaseStep, CustodyStep, OnceStep DEF IndInv
  <2>3. Inv => SentOnceUnlessDisturbed
    BY DEF Once, Calm, SentOnce, SentOnceUnlessDisturbed
  <2> QED BY <2>1, <2>2, <2>3, PTL DEF Spec
<1>2. CASE ~HasLmove
  <2>1. SentOnceUnlessDisturbed
    BY <1>2 DEF SentOnceUnlessDisturbed
  <2> QED BY <2>1, PTL
<1> QED BY <1>1, <1>2
-----------------------------------------------------------------------------
(***************************************************************************)
(* Without LMOVE a message exists once: in the queue until a pop takes it, *)
(* then as the claim of one worker, which is used up by the verdict or the *)
(* end of the send.  Nothing ever moves back, so nothing is sent again.    *)
(***************************************************************************)
\* The claim of a worker on a message is a single one.
SingleClaims(w) ==
  /\ \A m \in Message : sending[w][m] <= 1
  /\ pc[w] = "dispatch" => sending[w][raw[w]] = 0

ClaimedOnce ==
  /\ repeated = {}
  /\ settled \cap Range(queue) = {}
  /\ \A w \in Worker : /\ processing[w] = <<>>
                       /\ SingleClaims(w)
                       /\ Claims(w) \cap (settled \cup Range(queue)) = {}
  /\ \A v, w \in Worker : v # w => Claims(v) \cap Claims(w) = {}

\* A worker claims what it takes off the queue, and concludes what it claims.
ClaimsBy(w) ==
  /\ \A v \in Worker \ {w} : pc'[v] = pc[v] /\ raw'[v] = raw[v] /\ sending'[v] = sending[v]
  /\ UNCHANGED processing /\ repeated' = {}
  /\ SingleClaims(w)'
  /\ Range(queue') \subseteq Range(queue)
  /\ Claims(w)' \subseteq Claims(w) \cup (Range(queue) \ Range(queue'))
  /\ settled' \subseteq settled \cup (Claims(w) \ Claims(w)')

LEMMA ClaimedByOne ==
  ASSUME NEW w \in Worker, ClaimedOnce, ClaimsBy(w)
  PROVE  ClaimedOnce'
<1>1. \A v \in Worker \ {w} : Claims(v)' = Claims(v) /\ (SingleClaims(v) => SingleClaims(v)')
  BY DEF ClaimsBy, Claims, Running, SingleClaims
<1>2. /\ \A v \in Worker : /\ processing'[v] = <<>>
                           /\ SingleClaims(v)'
      /\ repeated' = {}
  BY <1>1 DEF ClaimedOnce, ClaimsBy
<1>3. settled' \cap Range(queue') = {}
  BY DEF ClaimedOnce, ClaimsBy
<1>4. \A v \in Worker : Claims(v)' \cap (settled' \cup Range(queue')) = {}
  <2>1. Claims(w)' \cap (settled' \cup Range(queue')) = {}
    BY DEF ClaimedOnce, ClaimsBy
  <2>2. \A v \in Worker \ {w} : Claims(v)' \cap (settled' \cup Range(queue')) = {}
    BY <1>1 DEF ClaimedOnce, ClaimsBy
  <2> QED BY <2>1, <2>2
<1>5. \A u, v \in Worker : u # v => Claims(u)' \cap Claims(v)' = {}
  BY <1>1 DEF ClaimedOnce, ClaimsBy
<1> QED BY <1>2, <1>3, <1>4, <1>5 DEF ClaimedOnce

\* A step that leaves the messages alone, or forgets a claim.
LEMMA ClaimsForgotten ==
  ASSUME NEW w \in Worker, ClaimedOnce, UNCHANGED <<queue, processing, settled, repeated>>,
         \A v \in Worker \ {w} : pc'[v] = pc[v] /\ raw'[v] = raw[v] /\ sending'[v] = sending[v],
         sending'[w] = sending[w] \/ sending'[w] = [m \in Message |-> 0],
         pc'[w] = "dispatch" => pc[w] = "dispatch" /\ raw'[w] = raw[w] /\ sending'[w] = sending[w]
  PROVE  ClaimsBy(w)
<1>1. SingleClaims(w)'
  BY DEF SingleClaims, ClaimedOnce
<1>2. Claims(w)' \subseteq Claims(w)
  BY DEF Claims, Running
<1> QED BY <1>1, <1>2 DEF ClaimsBy, ClaimedOnce

\* There is nothing to acknowledge.
LEMMA NothingAcknowledged ==
  ASSUME NEW w \in Worker, NEW m, TypeOK, ClaimedOnce, Acknowledge(w, m)
  PROVE  UNCHANGED <<queue, processing>>
<1>1. RemoveFirst(processing[w], m) = processing[w]
  BY DEF ClaimedOnce, RemoveFirst
<1> QED BY <1>1 DEF Acknowledge, redis, TypeOK

LEMMA ClaimsCollect ==
  ASSUME NEW w \in Worker, TypeOK, ClaimedOnce, CollectOne(w), UNCHANGED pc
  PROVE  ClaimsBy(w)
<1>1. UNCHANGED <<queue, processing>>
  BY NothingAcknowledged DEF CollectOne, redis
<1> QED BY <1>1, ClaimsForgotten DEF CollectOne, history

LEMMA ClaimsLifecycle ==
  ASSUME NEW w \in Worker, TypeOK, ClaimedOnce, Lifecycle(w)
  PROVE  ClaimsBy(w)
<1>1. CASE MainCollect(w)
  BY <1>1, ClaimsCollect DEF MainCollect
<1>2. CASE Start(w) \/ StartConsumer(w) \/ Stop(w) \/ Joined(w) \/ Closed(w)
  <2>1. UNCHANGED <<queue, processing, settled, repeated, raw, sending>>
    BY <1>2 DEF Start, StartConsumer, Stop, Joined, Closed, redis, sends, history
  <2>2. /\ \A v \in Worker \ {w} : pc'[v] = pc[v]
        /\ pc'[w] = "dispatch" => pc[w] = "dispatch"
    BY <1>2 DEF Start, StartConsumer, Stop, Joined, Closed, Goto, TypeOK
  <2> QED BY <2>1, <2>2, ClaimsForgotten
<1>3. CASE Exit(w) \/ Crash(w)
  <2>1. UNCHANGED <<queue, processing, settled, repeated>> /\ Gone(w)
    BY <1>3 DEF Exit, Crash, Gone, redis, history
  <2>2. /\ \A v \in Worker \ {w} : pc'[v] = pc[v] /\ raw'[v] = raw[v] /\ sending'[v] = sending[v]
        /\ pc'[w] = "off" /\ sending'[w] = [m \in Message |-> 0]
    BY <2>1 DEF Gone, Goto, TypeOK
  <2> QED BY <2>1, <2>2, ClaimsForgotten
<1> QED BY <1>1, <1>2, <1>3 DEF Lifecycle

LEMMA ClaimsReclaim ==
  ASSUME NEW w \in Worker, TypeOK, Hands, ClaimedOnce, ~HasLmove, Reclaim(w)
  PROVE  ClaimsBy(w)
<1>1. UNCHANGED <<queue, processing, settled, repeated, raw, sending>>
  BY DEF Reclaim, ReclaimMove, ReclaimSettled, ReclaimFailed, redis, sends, history
<1>2. InReclaim(w) /\ \E s, d \in BOOLEAN : AfterReclaim(w, s, d)
  BY DEF Reclaim, ReclaimMove, ReclaimSettled, ReclaimFailed
<1>3. pc' \in [Worker -> ConsumerPc] /\ \E to \in {"off", "queued", "top", "pop"} : pc' = [pc EXCEPT ![w] = to]
  <2>1. CASE pc[w] = "preflight"
    BY <1>2, <2>1, AfterReclaimType DEF AfterReclaim, Goto
  <2>2. CASE pc[w] # "preflight"
    BY <1>2, <2>2, AfterReclaimType DEF AfterReclaim, Goto
  <2> QED BY <2>1, <2>2
<1>4. /\ \A v \in Worker \ {w} : pc'[v] = pc[v]
      /\ pc'[w] # "dispatch"
  BY <1>3 DEF TypeOK
<1> QED BY <1>1, <1>4, ClaimsForgotten

LEMMA ClaimsPop ==
  ASSUME NEW w \in Worker, TypeOK, Unique, ClaimedOnce, ~HasLmove, Pop(w)
  PROVE  ClaimsBy(w)
<1> DEFINE e == Head(queue)
<1>1. /\ queue \in Seq(Message) /\ queue # <<>> /\ queue' = Tail(queue)
      /\ UNCHANGED <<processing, sending, settled, repeated>>
      /\ \/ pc' = [pc EXCEPT ![w] = "dispatch"] /\ raw' = [raw EXCEPT ![w] = e]
         \/ pc' = [pc EXCEPT ![w] = "top"] /\ UNCHANGED raw
  BY DEF Pop, Goto, sends, history, TypeOK
<1>2. /\ e \in Message /\ Range(queue) = {e} \cup Range(queue')
      /\ Linked(queue, Different)
  BY <1>1, TailRange DEF Unique
<1>3. e \notin Range(queue')
  <2>1. \A x \in Range(Tail(queue)) : <<e, x>> \in Different
    BY <1>1, <1>2, TailLinked
  <2> QED BY <1>1, <2>1 DEF Different
<1>4. sending[w][e] = 0
  BY <1>2 DEF ClaimedOnce, Claims, Running, TypeOK
<1>5. /\ \A v \in Worker \ {w} : pc'[v] = pc[v] /\ raw'[v] = raw[v]
      /\ \/ pc'[w] = "dispatch" /\ raw'[w] = e
         \/ pc'[w] = "top"
  BY <1>1 DEF TypeOK
<1> HIDE DEF e
<1>6. SingleClaims(w)'
  BY <1>1, <1>4, <1>5 DEF SingleClaims, ClaimedOnce
<1>7. Claims(w)' \subseteq Claims(w) \cup {e}
  BY <1>1, <1>5 DEF Claims, Running
<1> QED BY <1>1, <1>2, <1>3, <1>5, <1>6, <1>7 DEF ClaimsBy, ClaimedOnce

\* The claim on the message in hand, used up by a verdict.
LEMMA ClaimConcluded ==
  ASSUME NEW w \in Worker, TypeOK, Hands, ClaimedOnce, pc[w] = "dispatch",
         UNCHANGED <<queue, processing, sending>>,
         SendEnds(raw[w]) \/ Dismiss(raw[w]),
         \A v \in Worker \ {w} : pc'[v] = pc[v] /\ raw'[v] = raw[v],
         pc'[w] # "dispatch"
  PROVE  ClaimsBy(w)
<1>1. raw[w] \in Message /\ raw[w] \in Claims(w) /\ raw[w] \notin settled /\ sending[w][raw[w]] = 0
  BY DEF Hands, Claims, ClaimedOnce, SingleClaims
<1>2. Claims(w)' = Claims(w) \ {raw[w]}
  BY <1>1 DEF Claims, Running
<1>3. settled' = settled \cup {raw[w]} /\ repeated' = repeated
  BY <1>1 DEF SendEnds, Dismiss
<1>4. SingleClaims(w)'
  BY DEF SingleClaims, ClaimedOnce
<1> QED BY <1>1, <1>2, <1>3, <1>4 DEF ClaimsBy, ClaimedOnce

LEMMA ClaimsConsumer ==
  ASSUME NEW w \in Worker, TypeOK, Hands, Unique, ClaimedOnce, ~HasLmove, Consumer(w)
  PROVE  ClaimsBy(w)
<1>1. CASE Top(w) \/ Collected(w) \/ LeaveHold(w) \/ Finish(w) \/ PopNothing(w)
  <2>1. UNCHANGED <<queue, processing, settled, repeated, raw, sending>>
    BY <1>1 DEF Top, Collected, LeaveHold, Finish, PopNothing, ConsumerMoves, redis, sends, history
  <2>2. \E to \in ConsumerPc \ {"dispatch"} : pc' = [pc EXCEPT ![w] = to]
    BY <1>1 DEF Top, Collected, LeaveHold, Finish, PopNothing, ConsumerMoves, Goto, ConsumerPc
  <2>3. /\ \A v \in Worker \ {w} : pc'[v] = pc[v]
        /\ pc'[w] # "dispatch"
    BY <2>2 DEF TypeOK
  <2> QED BY <2>1, <2>3, ClaimsForgotten
<1>2. CASE Collect(w)
  BY <1>2, ClaimsCollect DEF Collect
<1>3. CASE Pop(w)
  BY <1>3, ClaimsPop
<1>4. CASE Drop(w) \/ HandlerFailed(w)
  BY <1>4, ClaimConcluded DEF Drop, HandlerFailed, InHandOver, Goto, redis, sends, TypeOK
<1>5. CASE Keep(w) \/ CancelledInline(w) \/ Refused(w)
  <2>1. /\ UNCHANGED <<queue, processing, settled, repeated, sending>>
        /\ pc' = [pc EXCEPT ![w] = "top"] /\ raw' = [raw EXCEPT ![w] = NoMessage]
    BY <1>5 DEF Keep, CancelledInline, Refused, Handled, Goto, redis, sends, history
  <2>2. /\ \A v \in Worker \ {w} : pc'[v] = pc[v] /\ raw'[v] = raw[v]
        /\ pc'[w] = "top"
    BY <2>1 DEF TypeOK
  <2> QED BY <2>1, <2>2, ClaimsForgotten
<1>6. CASE Ack(w)
  <2>1. /\ UNCHANGED <<queue, processing, settled, repeated, sending>>
        /\ pc' = [pc EXCEPT ![w] = "top"] /\ raw' = [raw EXCEPT ![w] = NoMessage]
    BY <1>6, NothingAcknowledged DEF Ack, Goto, sends, history
  <2>2. /\ \A v \in Worker \ {w} : pc'[v] = pc[v] /\ raw'[v] = raw[v]
        /\ pc'[w] = "top"
    BY <2>1 DEF TypeOK
  <2> QED BY <2>1, <2>2, ClaimsForgotten
<1>7. CASE Scheduled(w)
  <2>1. /\ pc[w] = "dispatch" /\ raw[w] \in Message
        /\ UNCHANGED <<queue, processing, settled, repeated>>
        /\ pc' = [pc EXCEPT ![w] = "top"] /\ raw' = [raw EXCEPT ![w] = NoMessage]
        /\ sending' = [sending EXCEPT ![w][raw[w]] = @ + 1]
    BY <1>7 DEF Scheduled, Handled, InHandOver, Goto, redis, history, Hands
  <2>2. /\ \A v \in Worker \ {w} : pc'[v] = pc[v] /\ raw'[v] = raw[v] /\ sending'[v] = sending[v]
        /\ pc'[w] = "top"
    BY <2>1 DEF TypeOK
  <2>3. \A m \in Message : /\ sending[w][m] \in Nat
                           /\ sending'[w][m] = IF m = raw[w] THEN sending[w][m] + 1 ELSE sending[w][m]
    BY <2>1 DEF TypeOK
  <2>4. Claims(w)' \subseteq Claims(w)
    BY <2>1, <2>2, <2>3 DEF Claims, Running
  <2>5. SingleClaims(w)'
    BY <2>1, <2>2, <2>3 DEF SingleClaims, ClaimedOnce
  <2> QED BY <2>1, <2>2, <2>4, <2>5 DEF ClaimsBy, ClaimedOnce
<1>8. CASE DrivenInline(w)
  BY <1>8, ClaimConcluded DEF DrivenInline, Handled, InHandOver, Goto, redis, TypeOK
<1> QED BY <1>1, <1>2, <1>3, <1>4, <1>5, <1>6, <1>7, <1>8 DEF Consumer, HandOver

LEMMA ClaimsLoop ==
  ASSUME NEW w \in Worker, NEW m \in Message, TypeOK, ClaimedOnce,
         Complete(w, m) \/ CancelSend(w, m)
  PROVE  ClaimsBy(w)
<1>1. /\ sending[w][m] > 0 /\ sending' = [sending EXCEPT ![w][m] = @ - 1]
      /\ UNCHANGED <<queue, processing, pc, raw>>
  BY DEF Complete, CancelSend, redis
<1>2. /\ \A v \in Worker \ {w} : sending'[v] = sending[v]
      /\ \A n \in Message : /\ sending[w][n] \in Nat
                            /\ sending'[w][n] = IF n = m THEN sending[w][n] - 1 ELSE sending[w][n]
  BY <1>1 DEF TypeOK
<1>3. SingleClaims(w)
  BY DEF ClaimedOnce
<1>4. m \in Claims(w) /\ m \notin settled /\ Claims(w)' = Claims(w) \ {m}
  <2>1. m \in Running(w) /\ Running(w)' = Running(w) \ {m}
    BY <1>1, <1>2, <1>3 DEF Running, SingleClaims
  <2>2. pc[w] = "dispatch" => raw[w] # m
    BY <1>1, <1>3 DEF SingleClaims
  <2> QED BY <1>1, <2>1, <2>2 DEF Claims, ClaimedOnce
<1>5. SingleClaims(w)'
  <2>1. \A n \in Message : sending'[w][n] <= 1
    BY <1>2, <1>3 DEF SingleClaims
  <2>2. pc[w] = "dispatch" => raw[w] # m /\ sending'[w][raw[w]] = sending[w][raw[w]]
    BY <1>1, <1>3 DEF SingleClaims, TypeOK
  <2> QED BY <1>1, <1>3, <2>1, <2>2 DEF SingleClaims
<1>6. settled' \subseteq settled \cup {m} /\ repeated' = repeated
  BY <1>4 DEF Complete, CancelSend, SendEnds, history
<1> QED BY <1>1, <1>2, <1>4, <1>5, <1>6 DEF ClaimsBy, ClaimedOnce

LEMMA ClaimsPush ==
  ASSUME TypeOK, OnlyPushed, settled \subseteq 1..pushed, ClaimedOnce, Push
  PROVE  ClaimedOnce'
<1>1. /\ pushed \in Nat /\ queue' = Append(queue, pushed + 1) /\ pushed + 1 \in Message
      /\ UNCHANGED <<processing, pc, raw, sending, finished, settled, repeated>>
  BY PushType, BoundsAreNaturals DEF Push, sends, history, TypeOK, Message
<1>2. Range(queue') = Range(queue) \cup {pushed + 1}
  BY <1>1, AppendRange DEF TypeOK
<1>3. pushed + 1 \notin settled
  BY <1>1
<1>4. \A w \in Worker : /\ pushed + 1 \notin Claims(w)
                        /\ Claims(w)' = Claims(w) /\ (SingleClaims(w) => SingleClaims(w)')
  BY <1>1 DEF Claims, Running, SingleClaims, OnlyPushed
<1> QED BY <1>1, <1>2, <1>3, <1>4 DEF ClaimedOnce

LEMMA ClaimedStep ==
  ASSUME TypeOK, Hands, Unique, OnlyPushed, settled \subseteq 1..pushed, ClaimedOnce, ~HasLmove,
         [Next]_vars
  PROVE  ClaimedOnce'
<1>1. ASSUME NEW w \in Worker, Lifecycle(w) \/ Reclaim(w) \/ Consumer(w)
                               \/ \E m \in Message : Complete(w, m) \/ CancelSend(w, m)
      PROVE  ClaimedOnce'
  BY <1>1, ClaimsLifecycle, ClaimsReclaim, ClaimsConsumer, ClaimsLoop, ClaimedByOne
<1>2. CASE Push
  BY <1>2, ClaimsPush
<1>3. CASE OpEnds \/ (\E w \in Worker : OpNames(w) \/ OpMoves(w)) \/ UNCHANGED vars
  <2>1. UNCHANGED <<queue, processing, settled, repeated, pc, raw, sending>>
    BY <1>3 DEF OpEnds, OpNames, OpMoves, MoveBack, ClaimedOnce, redis, sends, history, vars
  <2>2. \A w \in Worker : Claims(w)' = Claims(w) /\ (SingleClaims(w) => SingleClaims(w)')
    BY <2>1 DEF Claims, Running, SingleClaims
  <2> QED BY <2>1, <2>2 DEF ClaimedOnce
<1> QED BY <1>1, <1>2, <1>3 DEF Next

\* What is listed was pushed, on every kind of server.
LEMMA OnlyPushedKept ==
  ASSUME TypeOK, Hands, InOrder, InOrder', OnlyPushed, [Next]_vars
  PROVE  OnlyPushed'
<1>1. Listed' \subseteq 1..pushed'
  BY DEF Listed, InOrder, OnlyPushedListed
<1> QED BY <1>1, OnlyPushedStep DEF OnlyPushed

LEMMA InitClaimed == Init => ClaimedOnce /\ OnlyPushed
<1> SUFFICES ASSUME Init PROVE ClaimedOnce /\ OnlyPushed
  OBVIOUS
<1>1. OnlyPushed
  BY InitInd DEF IndInv
<1>2. \A w \in Worker : /\ pc[w] = "off" /\ processing[w] = <<>>
                        /\ sending[w] = [m \in Message |-> 0]
  BY DEF Init
<1>3. \A w \in Worker : Claims(w) = {} /\ SingleClaims(w)
  BY <1>2 DEF Claims, Running, SingleClaims
<1>4. settled = {} /\ repeated = {}
  BY DEF Init
<1> QED BY <1>1, <1>2, <1>3, <1>4 DEF ClaimedOnce

(***************************************************************************)
(* On a server without LMOVE no message is ever sent twice, whatever is    *)
(* killed, lost or timed out: BLPOP takes the one copy, and reclaim(),     *)
(* acknowledge() and tgbot_reclaim find nothing to put back.               *)
(***************************************************************************)
THEOREM OldServersNeverRepeat == Spec => []AtMostOnceWithoutLmove
<1>1. CASE ~HasLmove
  <2> DEFINE Inv == /\ TypeOK /\ Hands /\ InOrder /\ OnlyPushed
                    /\ settled \subseteq 1..pushed /\ ClaimedOnce
  <2>1. Init => Inv
    BY InitType, InitInOrder, InitClaimed DEF Init
  <2>2. Inv /\ [Next]_vars => Inv'
    BY <1>1, TypeStep, InOrderStep, OnlyPushedKept, SettledWasPushed, ClaimedStep DEF InOrder
  <2>3. Inv => AtMostOnceWithoutLmove
    BY DEF ClaimedOnce, AtMostOnceWithoutLmove
  <2> QED BY <2>1, <2>2, <2>3, PTL DEF Spec
<1>2. CASE HasLmove
  <2>1. AtMostOnceWithoutLmove
    BY <1>2 DEF AtMostOnceWithoutLmove
  <2> QED BY <2>1, PTL
<1> QED BY <1>1, <1>2
-----------------------------------------------------------------------------
(***************************************************************************)
(* What a kill costs without LMOVE.  Until the first shutdown nothing      *)
(* refuses or cancels a send, so a message is lost only with the process   *)
(* that holds it, or with the reply of its pop; and a process holds no     *)
(* more than its slots.                                                    *)
(***************************************************************************)
\* No process has reached its shutdown.
Young == stops = 0 => \A w \in Worker : main[w] \in {"down", "preflight", "running"}

KindsKept == kind \in [Message -> Kinds]

\* What the promise is made for.
Modest == ~HasLmove /\ MaxInFlight > 0 /\ ~MayDisable /\ "kept" \notin Kinds


\* A process that is down has no consumer.
DownIsOff == \A w \in Worker : main[w] = "down" => pc[w] = "off"

Phased == DownIsOff /\ Young

\* Steps of one worker's threads, by what they may do to its phases.
LEMMA PhasedByOne ==
  ASSUME NEW w \in Worker, Phased, stops' = stops,
         \A v \in Worker \ {w} : main'[v] = main[v] /\ pc'[v] = pc[v],
         main'[w] = "down" => pc'[w] = "off",
         main'[w] \in {main[w], "down", "preflight", "running"}
                      \cup (IF main[w] \in {"joining", "closing"} THEN {"closing", "collecting"} ELSE {})
  PROVE  Phased'
<1>1. DownIsOff'
  BY DEF Phased, DownIsOff
<1>2. Young'
  BY DEF Phased, Young
<1> QED BY <1>1, <1>2 DEF Phased

LEMMA PhasedLifecycle ==
  ASSUME NEW w \in Worker, TypeOK, Phased, Lifecycle(w)
  PROVE  Phased'
<1> USE DEF Goto
<1>1. main[w] = "down" => pc[w] = "off"
  BY DEF Phased, DownIsOff
<1>2. CASE Start(w)
  <2>1. /\ stops' = stops
        /\ \A v \in Worker \ {w} : main'[v] = main[v] /\ pc'[v] = pc[v]
        /\ main[w] = "down" /\ main'[w] \in {"preflight", "running"} /\ pc'[w] \in {"preflight", "queued"}
    BY <1>2 DEF Start, bounds, TypeOK
  <2> QED BY <1>1, <2>1, PhasedByOne
<1>3. CASE StartConsumer(w)
  <2>1. /\ stops' = stops /\ UNCHANGED main
        /\ \A v \in Worker \ {w} : pc'[v] = pc[v]
        /\ pc[w] = "queued" /\ pc'[w] \in {"starting", "off"}
    BY <1>3 DEF StartConsumer, bounds, TypeOK
  <2> QED BY <1>1, <2>1, PhasedByOne
<1>4. CASE Stop(w)
  <2>1. stops' # 0 /\ UNCHANGED pc /\ \A v \in Worker : main'[v] = "down" => main[v] = "down"
    BY <1>4, BoundsAreNaturals DEF Stop, TypeOK
  <2> QED BY <2>1 DEF Phased, DownIsOff, Young
<1>5. CASE Joined(w) \/ Closed(w)
  <2>1. /\ stops' = stops /\ UNCHANGED pc /\ main[w] \in {"joining", "closing"}
        /\ \A v \in Worker \ {w} : main'[v] = main[v]
        /\ main'[w] \in {"closing", "collecting"}
    BY <1>5 DEF Joined, Closed, Fault, NoFault, bounds, TypeOK
  <2> QED BY <1>1, <2>1, PhasedByOne
<1>6. CASE MainCollect(w)
  <2>1. stops' = stops /\ UNCHANGED <<pc, main>>
    BY <1>6 DEF MainCollect, CollectOne, Acknowledge, Fault, NoFault, bounds
  <2> QED BY <1>1, <2>1, PhasedByOne
<1>7. CASE Exit(w) \/ Crash(w)
  <2>1. /\ stops' = stops /\ main'[w] = "down" /\ pc'[w] = "off" 
        /\ \A v \in Worker \ {w} : main'[v] = main[v] /\ pc'[v] = pc[v]
    BY <1>7 DEF Exit, Crash, Gone, NoFault, bounds, TypeOK
  <2> QED BY <2>1, PhasedByOne
<1> QED BY <1>2, <1>3, <1>4, <1>5, <1>6, <1>7 DEF Lifecycle

LEMMA PhasedReclaim ==
  ASSUME NEW w \in Worker, TypeOK, Phased, Reclaim(w)
  PROVE  Phased'
<1>1. /\ stops' = stops /\ InReclaim(w)
      /\ UNCHANGED <<main, pc>> \/ \E s, d \in BOOLEAN : AfterReclaim(w, s, d)
  BY FlagsAreBooleans DEF Reclaim, ReclaimMove, ReclaimSettled, ReclaimFailed, Fault, bounds
<1>2. main[w] = "down" => pc[w] = "off"
  BY <1>1 DEF Phased, DownIsOff, InReclaim
<1>3. \/ UNCHANGED <<main, pc>>
      \/ pc' = [pc EXCEPT ![w] = "off"] /\ main' = [main EXCEPT ![w] = "down"]
      \/ pc' = [pc EXCEPT ![w] = "queued"] /\ main' = [main EXCEPT ![w] = "running"]
      \/ UNCHANGED main /\ \E to \in {"top", "pop"} : pc' = [pc EXCEPT ![w] = to]
  <2>1. CASE pc[w] = "preflight"
    BY <1>1, <2>1, Zenon DEF AfterReclaim, Goto
  <2>2. CASE pc[w] # "preflight"
    BY <1>1, <2>2 DEF AfterReclaim, Goto
  <2> QED BY <2>1, <2>2
<1>4. /\ \A v \in Worker \ {w} : main'[v] = main[v] /\ pc'[v] = pc[v]
      /\ main'[w] \in {main[w], "down", "running"}
      /\ main'[w] = "down" => pc'[w] = "off"
  BY <1>1, <1>2, <1>3 DEF TypeOK, InReclaim
<1> QED BY <1>1, <1>2, <1>4, PhasedByOne

LEMMA PhasedConsumer ==
  ASSUME NEW w \in Worker, TypeOK, Phased, Consumer(w)
  PROVE  Phased'
<1> USE DEF Goto
<1>1. pc[w] # "off" /\ stops' = stops /\ UNCHANGED main
  BY DEF Consumer, Top, Collect, CollectOne, Acknowledge, Collected, LeaveHold, Finish, ConsumerMoves,
         Pop, PopNothing, Drop, Keep, Ack, HandOver, Scheduled, DrivenInline, Refused, CancelledInline,
         HandlerFailed, Handled, InHandOver, Fault, NoFault, bounds
<1>2. main[w] # "down"
  BY <1>1 DEF Phased, DownIsOff
<1>3. \A v \in Worker \ {w} : pc'[v] = pc[v]
  BY DEF Consumer, Top, Collect, Collected, LeaveHold, Finish, ConsumerMoves, Pop, PopNothing, Drop,
         Keep, Ack, HandOver, Scheduled, DrivenInline, Refused, CancelledInline, HandlerFailed,
         Handled, TypeOK
<1> QED BY <1>1, <1>2, <1>3, PhasedByOne

LEMMA PhasedStep ==
  ASSUME TypeOK, Phased, [Next]_vars
  PROVE  Phased'
<1>1. CASE UNCHANGED <<main, pc, stops>>
  BY <1>1 DEF Phased, DownIsOff, Young
<1>2. CASE Push \/ OpEnds \/ \E w \in Worker : OpNames(w) \/ OpMoves(w)
  BY <1>1, <1>2 DEF Push, OpEnds, OpNames, OpMoves, bounds
<1>3. CASE UNCHANGED vars
  BY <1>1, <1>3 DEF vars
<1>4. CASE \E w \in Worker, m \in Message : Complete(w, m) \/ CancelSend(w, m)
  BY <1>1, <1>4 DEF Complete, CancelSend, bounds
<1> QED BY <1>2, <1>3, <1>4, PhasedLifecycle, PhasedReclaim, PhasedConsumer DEF Next

LEMMA StopsGrow ==
  ASSUME TypeOK, [Next]_vars
  PROVE  stops' = stops \/ stops' = stops + 1
<1> USE DEF bounds, Fault, NoFault
<1>1. ASSUME NEW w \in Worker, CollectOne(w) PROVE stops' = stops
  BY <1>1 DEF CollectOne, Acknowledge
<1>2. ASSUME NEW w \in Worker, Lifecycle(w) PROVE stops' = stops \/ stops' = stops + 1
  BY <1>1, <1>2
  DEF Lifecycle, Start, StartConsumer, Stop, Joined, Closed, MainCollect, Exit, Crash, Gone
<1>3. ASSUME NEW w \in Worker, Reclaim(w) PROVE stops' = stops
  BY <1>3 DEF Reclaim, ReclaimMove, ReclaimSettled, ReclaimFailed
<1>4. ASSUME NEW w \in Worker, HandOver(w) PROVE stops' = stops
  BY <1>4 DEF HandOver, Scheduled, DrivenInline, Refused, CancelledInline, HandlerFailed, Handled
<1>5. ASSUME NEW w \in Worker, Consumer(w) PROVE stops' = stops
  BY <1>1, <1>4, <1>5
  DEF Consumer, Top, Collect, Collected, LeaveHold, Finish, ConsumerMoves, Pop, PopNothing,
      Drop, Keep, Ack, Acknowledge
<1>6. ASSUME NEW w \in Worker, NEW m \in Message, Complete(w, m) \/ CancelSend(w, m)
      PROVE  stops' = stops
  BY <1>6 DEF Complete, CancelSend
<1>7. CASE Push \/ OpEnds \/ \E w \in Worker : OpNames(w) \/ OpMoves(w)
  BY <1>7 DEF Push, OpEnds, OpNames, OpMoves
<1>8. CASE UNCHANGED vars
  BY <1>8 DEF vars
<1> QED BY <1>2, <1>3, <1>5, <1>6, <1>7, <1>8 DEF Next

\* The messages that are final, queued, or claimed by a process.
Seen   == settled \cup Range(queue) \cup UNION {Claims(w) : w \in Worker}
Unseen == (1..pushed) \ Seen

Cost == Modest /\ stops = 0 => Cardinality(Unseen) <= crashes * MaxInFlight + faults

\* A step of w loses sight of nothing but what is in N.
LosesBy(w, N) ==
  /\ pushed' = pushed
  /\ \A v \in Worker \ {w} : pc'[v] = pc[v] /\ raw'[v] = raw[v] /\ sending'[v] = sending[v]
  /\ settled \cup Range(queue) \cup Claims(w)
       \subseteq settled' \cup Range(queue') \cup Claims(w)' \cup N

LEMMA LostByOne ==
  ASSUME NEW w \in Worker, NEW N, LosesBy(w, N)
  PROVE  Unseen' \subseteq Unseen \cup N
<1>1. \A v \in Worker \ {w} : Claims(v)' = Claims(v)
  BY DEF LosesBy, Claims, Running
<1>2. ASSUME NEW m, m \in Seen, m \notin N PROVE m \in Seen'
  <2>1. CASE m \in settled \cup Range(queue) \cup Claims(w)
    BY <1>2, <2>1 DEF LosesBy, Seen
  <2>2. CASE \E v \in Worker \ {w} : m \in Claims(v)
    BY <1>1, <2>2 DEF Seen
  <2> QED BY <1>2, <2>1, <2>2 DEF Seen
<1>3. pushed' = pushed
  BY DEF LosesBy
<1> QED BY <1>2, <1>3 DEF Unseen

\* A step that leaves the worker's claims alone loses nothing.
LEMMA NothingLost ==
  ASSUME NEW w \in Worker, UNCHANGED <<pushed, queue, raw, sending>>, settled \subseteq settled',
         \A v \in Worker \ {w} : pc'[v] = pc[v],
         pc[w] = "dispatch" => pc'[w] = "dispatch" \/ raw[w] \in settled'
  PROVE  LosesBy(w, {})
<1>1. Claims(w) \subseteq settled' \cup Claims(w)'
  BY DEF Claims, Running
<1> QED BY <1>1 DEF LosesBy

LEMMA LossCollect ==
  ASSUME NEW w \in Worker, TypeOK, ClaimedOnce, CollectOne(w), UNCHANGED pc
  PROVE  LosesBy(w, {})
<1>1. UNCHANGED <<pushed, raw, sending, settled>>
  BY DEF CollectOne, input, history
<1>2. queue' = queue
  <2>1. CASE Head(finished[w]).delivered
    BY <2>1, NothingAcknowledged DEF CollectOne
  <2>2. CASE ~Head(finished[w]).delivered
    BY <2>2 DEF CollectOne, redis
  <2> QED BY <2>1, <2>2
<1> QED BY <1>1, <1>2, NothingLost

LEMMA LossLifecycle ==
  ASSUME NEW w \in Worker, TypeOK, ClaimedOnce, Phased, stops' = 0, Lifecycle(w), ~Crash(w)
  PROVE  LosesBy(w, {})
<1> USE DEF redis, input, sends, history, Goto
<1>1. stops = 0 /\ ~Stop(w)
  BY BoundsAreNaturals DEF Stop, TypeOK, Lifecycle, Start, StartConsumer, Joined, Closed, MainCollect,
         CollectOne, Acknowledge, Exit, Gone, Fault, NoFault, bounds
<1>2. main[w] \in {"down", "preflight", "running"} /\ (main[w] = "down" => pc[w] = "off")
  BY <1>1 DEF Phased, DownIsOff, Young
<1>3. Start(w) \/ StartConsumer(w)
  BY <1>1, <1>2 DEF Lifecycle, Joined, Closed, MainCollect, Exit
<1>4. /\ UNCHANGED <<pushed, queue, raw, sending, settled>>
      /\ \A v \in Worker \ {w} : pc'[v] = pc[v]
      /\ pc[w] # "dispatch"
  BY <1>2, <1>3 DEF Start, StartConsumer, TypeOK
<1> QED BY <1>4, NothingLost

LEMMA LossReclaim ==
  ASSUME NEW w \in Worker, TypeOK, Hands, ClaimedOnce, ~HasLmove, Reclaim(w)
  PROVE  LosesBy(w, {})
<1>1. /\ UNCHANGED <<pushed, queue, settled, raw, sending>>
      /\ InReclaim(w)
  BY DEF Reclaim, ReclaimMove, ReclaimSettled, ReclaimFailed, redis, sends, history, input
<1>2. \A v \in Worker \ {w} : pc'[v] = pc[v]
  BY ClaimsReclaim DEF ClaimsBy
<1> QED BY <1>1, <1>2, NothingLost DEF InReclaim

LEMMA LossPop ==
  ASSUME NEW w \in Worker, TypeOK, Pop(w)
  PROVE  LosesBy(w, {}) \/ (faults' = faults + 1 /\ \E m \in Message : LosesBy(w, {m}))
<1> DEFINE e == Head(queue)
<1>1. /\ queue \in Seq(Message) /\ queue # <<>> /\ queue' = Tail(queue) /\ pc[w] = "pop"
      /\ UNCHANGED <<pushed, sending, settled>>
      /\ \/ pc' = [pc EXCEPT ![w] = "dispatch"] /\ raw' = [raw EXCEPT ![w] = e]
         \/ /\ pc' = [pc EXCEPT ![w] = "top"] /\ UNCHANGED raw
            /\ faults' = faults + 1
  BY DEF Pop, Goto, Fault, input, sends, history, TypeOK
<1>2. e \in Message /\ Range(queue) = {e} \cup Range(queue')
  BY <1>1, TailRange
<1>3. /\ \A v \in Worker \ {w} : pc'[v] = pc[v] /\ raw'[v] = raw[v]
      /\ \/ pc'[w] = "dispatch" /\ raw'[w] = e
         \/ pc'[w] = "top" /\ faults' = faults + 1
  BY <1>1 DEF TypeOK
<1> HIDE DEF e
<1>4. Claims(w) \subseteq Claims(w)'
  BY <1>1 DEF Claims, Running
<1>5. CASE pc'[w] = "dispatch" /\ raw'[w] = e
  <2>1. e \in Claims(w)'
    BY <1>5 DEF Claims
  <2> QED BY <1>1, <1>2, <1>3, <1>4, <2>1 DEF LosesBy
<1>6. CASE faults' = faults + 1
  <2>1. LosesBy(w, {e})
    BY <1>1, <1>2, <1>3, <1>4 DEF LosesBy
  <2> QED BY <1>2, <1>6, <2>1
<1> QED BY <1>3, <1>5, <1>6

LEMMA LossConsumer ==
  ASSUME NEW w \in Worker, TypeOK, Hands, ClaimedOnce, KindsKept, Phased, Modest, stops' = 0,
         Consumer(w)
  PROVE  LosesBy(w, {}) \/ (faults' = faults + 1 /\ \E m \in Message : LosesBy(w, {m}))
<1> USE DEF redis, input, sends, history, Goto
<1>1. stops' = stops
  BY DEF Consumer, Top, Collect, CollectOne, Acknowledge, Collected, LeaveHold, Finish, ConsumerMoves,
         Pop, PopNothing, Drop, Keep, Ack, HandOver, Scheduled, DrivenInline, Refused, CancelledInline,
         HandlerFailed, Handled, InHandOver, Fault, NoFault, bounds
<1>2. main[w] \in {"down", "preflight", "running"}
  BY <1>1 DEF Phased, Young
<1>3. CASE Top(w) \/ Collected(w) \/ LeaveHold(w) \/ Finish(w) \/ PopNothing(w)
  <2>1. /\ UNCHANGED <<pushed, queue, settled, raw, sending>> /\ pc[w] # "dispatch"
        /\ \A v \in Worker \ {w} : pc'[v] = pc[v]
    BY <1>3 DEF Top, Collected, LeaveHold, Finish, PopNothing, ConsumerMoves, TypeOK
  <2>2. LosesBy(w, {})
    BY <2>1, NothingLost
  <2> QED BY <2>2
<1>4. CASE Collect(w)
  <2>1. LosesBy(w, {})
    BY <1>4, LossCollect DEF Collect
  <2> QED BY <2>1
<1>5. CASE Pop(w)
  BY <1>5, LossPop
<1>6. CASE Drop(w) \/ HandlerFailed(w)
  <2>1. /\ UNCHANGED <<pushed, queue, raw, sending>>
        /\ settled' = settled \cup {raw[w]}
        /\ \A v \in Worker \ {w} : pc'[v] = pc[v]
    BY <1>6 DEF Drop, HandlerFailed, Dismiss, TypeOK
  <2>2. LosesBy(w, {})
    BY <2>1, NothingLost
  <2> QED BY <2>2
<1>7. ~Keep(w) /\ ~DrivenInline(w) /\ ~Refused(w) /\ ~CancelledInline(w)
  <2>1. pc[w] = "dispatch" => kind[raw[w]] # "kept"
    BY DEF Hands, KindsKept, Modest
  <2> QED BY <1>2, <2>1 DEF Keep, DrivenInline, Refused, CancelledInline, Modest
<1>8. CASE Ack(w)
  <2>1. /\ UNCHANGED <<pushed, settled, sending>> /\ pc[w] = "ack"
        /\ raw' = [raw EXCEPT ![w] = NoMessage] /\ pc' = [pc EXCEPT ![w] = "top"]
    BY <1>8 DEF Ack
  <2>2. queue' = queue
    BY <1>8, NothingAcknowledged DEF Ack
  <2>3. /\ \A v \in Worker \ {w} : pc'[v] = pc[v] /\ raw'[v] = raw[v]
        /\ Claims(w) \subseteq Claims(w)'
    BY <2>1 DEF Claims, Running, TypeOK
  <2>4. LosesBy(w, {})
    BY <2>1, <2>2, <2>3 DEF LosesBy
  <2> QED BY <2>4
<1>9. CASE Scheduled(w)
  <2>1. /\ UNCHANGED <<pushed, queue, settled>> /\ pc[w] = "dispatch" /\ raw[w] \in Message
        /\ raw' = [raw EXCEPT ![w] = NoMessage] /\ pc' = [pc EXCEPT ![w] = "top"]
        /\ sending' = [sending EXCEPT ![w][raw[w]] = @ + 1]
    BY <1>9 DEF Scheduled, Handled, InHandOver, Hands
  <2>2. /\ \A v \in Worker \ {w} : /\ pc'[v] = pc[v] /\ raw'[v] = raw[v]
                                   /\ sending'[v] = sending[v]
        /\ sending'[w] = [sending[w] EXCEPT ![raw[w]] = sending[w][raw[w]] + 1]
    BY <2>1 DEF TypeOK
  <2>3. sending[w] \in [Message -> Nat]
    BY DEF TypeOK
  <2>4. \A m \in Message : m \in Running(w) \/ m = raw[w] => m \in Running(w)'
    BY <2>1, <2>2, <2>3 DEF Running
  <2>5. Claims(w) \subseteq Claims(w)'
    BY <2>1, <2>4 DEF Claims, Running
  <2> QED BY <2>1, <2>2, <2>5 DEF LosesBy
<1> QED BY <1>3, <1>4, <1>5, <1>6, <1>7, <1>8, <1>9 DEF Consumer, HandOver

LEMMA LossLoop ==
  ASSUME NEW w \in Worker, NEW m \in Message, TypeOK, Phased, stops' = 0,
         Complete(w, m) \/ CancelSend(w, m)
  PROVE  LosesBy(w, {})
<1> USE DEF redis, input
<1>1. stops' = stops
  BY DEF Complete, CancelSend, bounds
<1>2. main[w] \in {"down", "preflight", "running"}
  BY <1>1 DEF Phased, Young
<1>3. /\ UNCHANGED <<pushed, queue, pc, raw>> /\ settled' = settled \cup {m}
      /\ sending' = [sending EXCEPT ![w][m] = @ - 1]
  BY <1>2 DEF Complete, CancelSend, SendEnds
<1>4. /\ \A v \in Worker \ {w} : sending'[v] = sending[v]
      /\ \A n \in Message \ {m} : sending'[w][n] = sending[w][n]
  BY <1>3 DEF TypeOK
<1>5. Claims(w) \subseteq settled' \cup Claims(w)'
  BY <1>3, <1>4 DEF Claims, Running
<1> QED BY <1>3, <1>4, <1>5 DEF LosesBy

LEMMA LossCrash ==
  ASSUME NEW w \in Worker, TypeOK, Crash(w)
  PROVE  LosesBy(w, Claims(w)) /\ crashes' = crashes + 1 /\ faults' = faults
<1>1. /\ UNCHANGED <<pushed, queue, settled, faults>> /\ crashes' = crashes + 1
      /\ \A v \in Worker \ {w} : pc'[v] = pc[v] /\ raw'[v] = raw[v] /\ sending'[v] = sending[v]
  BY DEF Crash, Gone, Goto, redis, input, history, TypeOK
<1> QED BY <1>1 DEF LosesBy
-----------------------------------------------------------------------------
\* A process claims no more messages than it has slots.
LEMMA ClaimsHaveSlots ==
  ASSUME NEW w \in Worker, TypeOK, SlotsHeld, WithinMaxInFlight, SlotFree, MaxInFlight > 0
  PROVE  IsFiniteSet(Claims(w)) /\ Cardinality(Claims(w)) <= MaxInFlight
<1>1. /\ IsFiniteSet(Message) /\ sending[w] \in [Message -> Nat]
      /\ SumFunction(sending[w]) \in Nat /\ Len(finished[w]) \in Nat /\ inFlight[w] \in Int
  BY SendsAreNats
<1>2. Cardinality(Running(w)) <= SumFunction(sending[w])
  BY <1>1, SumOfNats DEF Running
<1>3. IsFiniteSet(Running(w)) /\ Cardinality(Running(w)) \in Nat
  BY <1>1, FS_Subset, FS_CardinalityType DEF Running
<1>4. SumFunction(sending[w]) <= inFlight[w]
  BY <1>1 DEF SlotsHeld, Outstanding
<1>5. /\ inFlight[w] <= MaxInFlight
      /\ pc[w] = "dispatch" => inFlight[w] < MaxInFlight
      /\ MaxInFlight \in Nat
  BY BoundsAreNaturals DEF WithinMaxInFlight, SlotFree
<1>6. CASE pc[w] = "dispatch"
  <2>1. Claims(w) = Running(w) \cup {raw[w]}
    BY <1>6 DEF Claims
  <2>2. /\ IsFiniteSet(Claims(w))
        /\ Cardinality(Claims(w)) = IF raw[w] \in Running(w) THEN Cardinality(Running(w))
                                    ELSE Cardinality(Running(w)) + 1
    BY <1>3, <2>1, FS_AddElement
  <2> QED BY <1>1, <1>2, <1>3, <1>4, <1>5, <1>6, <2>2
<1>7. CASE pc[w] # "dispatch"
  <2>1. Claims(w) = Running(w)
    BY <1>7 DEF Claims
  <2> QED BY <1>1, <1>2, <1>3, <1>4, <1>5, <2>1
<1> QED BY <1>6, <1>7

LEMMA UnseenIsFinite ==
  ASSUME TypeOK
  PROVE  IsFiniteSet(Unseen) /\ Cardinality(Unseen) \in Nat
<1>1. IsFiniteSet(1..pushed)
  BY FS_Interval, BoundsAreNaturals DEF TypeOK
<1> QED BY <1>1, FS_Subset, FS_CardinalityType DEF Unseen

\* Adding at most k elements.
LEMMA UnionBound ==
  ASSUME NEW S, NEW T, IsFiniteSet(S), IsFiniteSet(T), NEW U, U \subseteq S \cup T
  PROVE  Cardinality(U) <= Cardinality(S) + Cardinality(T)
<1>1. /\ IsFiniteSet(S \cup T)
      /\ Cardinality(S \cup T) = Cardinality(S) + Cardinality(T) - Cardinality(S \cap T)
  BY FS_Union
<1>2. Cardinality(S) \in Nat /\ Cardinality(T) \in Nat /\ Cardinality(S \cap T) \in Nat
  BY FS_Intersection, FS_CardinalityType
<1>3. IsFiniteSet(U) /\ Cardinality(U) <= Cardinality(S \cup T)
  BY <1>1, FS_Subset
<1>4. Cardinality(U) \in Nat
  BY <1>3, FS_CardinalityType
<1> QED BY <1>1, <1>2, <1>3, <1>4

\* One more kill pays for one more set of slots.
LEMMA PerKill ==
  ASSUME NEW c \in Nat, NEW M \in Nat
  PROVE  c * M \in Nat /\ (c + 1) * M = c * M + M
  OBVIOUS

LEMMA CostStep ==
  ASSUME TypeOK, TypeOK', Hands, Unique, ClaimedOnce, KindsKept, Phased, SlotsHeld,
         WithinMaxInFlight, SlotFree, Cost, [Next]_vars
  PROVE  Cost'
<1> SUFFICES ASSUME Modest, stops' = 0
             PROVE  Cardinality(Unseen') <= crashes' * MaxInFlight + faults'
  BY DEF Cost, Modest
<1>1. stops = 0
  BY StopsGrow, BoundsAreNaturals DEF TypeOK
<1>2. /\ crashes \in Nat /\ faults \in Nat /\ crashes' \in Nat /\ faults' \in Nat
      /\ crashes' = crashes \/ crashes' = crashes + 1
      /\ faults' >= faults /\ MaxInFlight \in Nat
  BY CrashesGrow, FaultsGrow, BoundsAreNaturals DEF TypeOK
<1>3. /\ IsFiniteSet(Unseen) /\ Cardinality(Unseen) \in Nat
      /\ Cardinality(Unseen) <= crashes * MaxInFlight + faults
  BY <1>1, UnseenIsFinite DEF Cost
<1>4. PICK n \in Nat : n = crashes * MaxInFlight
  BY <1>2, PerKill
<1>5. /\ crashes' * MaxInFlight \in Nat
      /\ crashes' = crashes => crashes' * MaxInFlight = n
      /\ crashes' = crashes + 1 => crashes' * MaxInFlight = n + MaxInFlight
  BY <1>2, <1>4, PerKill
<1>6. PICK k \in Nat : k = crashes' * MaxInFlight
  BY <1>5
<1>7. Cardinality(Unseen') \in Nat
  <2>1. IsFiniteSet(1..pushed')
    BY FS_Interval, BoundsAreNaturals DEF TypeOK
  <2>2. Unseen' \subseteq 1..pushed'
    BY DEF Unseen
  <2> QED BY <2>1, <2>2, FS_Subset, FS_CardinalityType
<1>8. CASE Unseen' \subseteq Unseen
  <2>1. Cardinality(Unseen') <= Cardinality(Unseen)
    BY <1>3, <1>8, FS_Subset
  <2> QED BY <1>2, <1>3, <1>4, <1>5, <1>6, <1>7, <2>1
<1>9. CASE faults' = faults + 1 /\ \E m : Unseen' \subseteq Unseen \cup {m}
  <2>1. PICK m : Unseen' \subseteq Unseen \cup {m}
    BY <1>9
  <2>2. Cardinality(Unseen') <= Cardinality(Unseen) + 1
    BY <1>3, <2>1, UnionBound, FS_Singleton
  <2> QED BY <1>2, <1>3, <1>4, <1>5, <1>6, <1>7, <1>9, <2>2
<1>10. ASSUME NEW w \in Worker, Crash(w)
       PROVE  Cardinality(Unseen') <= crashes' * MaxInFlight + faults'
  <2>1. Unseen' \subseteq Unseen \cup Claims(w) /\ crashes' = crashes + 1 /\ faults' = faults
    BY <1>10, LossCrash, LostByOne
  <2>2. IsFiniteSet(Claims(w)) /\ Cardinality(Claims(w)) <= MaxInFlight
    BY ClaimsHaveSlots DEF Modest
  <2>3. Cardinality(Claims(w)) \in Nat
    BY <2>2, FS_CardinalityType
  <2>4. Cardinality(Unseen') <= Cardinality(Unseen) + Cardinality(Claims(w))
    BY <1>3, <2>1, <2>2, UnionBound
  <2> QED BY <1>2, <1>3, <1>4, <1>5, <1>6, <1>7, <2>1, <2>2, <2>3, <2>4
<1>11. ASSUME NEW w \in Worker, LosesBy(w, {}) PROVE Unseen' \subseteq Unseen
  BY <1>11, LostByOne
<1>12. ASSUME NEW w \in Worker, NEW m \in Message, LosesBy(w, {m})
       PROVE  Unseen' \subseteq Unseen \cup {m}
  BY <1>12, LostByOne
<1>13. CASE \E w \in Worker : Lifecycle(w) \/ Reclaim(w) \/ Consumer(w)
  BY <1>8, <1>9, <1>10, <1>11, <1>12, <1>13, LossLifecycle, LossReclaim, LossConsumer DEF Modest
<1>14. CASE \E w \in Worker, m \in Message : Complete(w, m) \/ CancelSend(w, m)
  BY <1>8, <1>11, <1>14, LossLoop
<1>15. CASE Push
  <2>1. /\ queue' = Append(queue, pushed + 1) /\ pushed' = pushed + 1 /\ pushed + 1 \in Message
        /\ UNCHANGED <<pc, raw, sending, settled>> /\ queue \in Seq(Message) /\ pushed \in Nat
    BY <1>15, BoundsAreNaturals DEF Push, sends, history, Message, TypeOK
  <2>2. Range(queue') = Range(queue) \cup {pushed + 1}
    BY <2>1, AppendRange
  <2>3. \A w \in Worker : Claims(w)' = Claims(w)
    BY <2>1 DEF Claims, Running
  <2>4. Seen \subseteq Seen' /\ pushed + 1 \in Seen'
    BY <2>1, <2>2, <2>3 DEF Seen
  <2>5. \A m : m \in 1..pushed' => m \in 1..pushed \/ m = pushed + 1
    BY <2>1
  <2> QED BY <1>8, <2>4, <2>5 DEF Unseen
<1>16. CASE OpEnds \/ (\E w \in Worker : OpNames(w) \/ OpMoves(w)) \/ UNCHANGED vars
  <2>1. UNCHANGED <<pushed, queue, pc, raw, sending, settled>>
    BY <1>16 DEF OpEnds, OpNames, OpMoves, MoveBack, ClaimedOnce, redis, input, sends, history, vars
  <2>2. \A w \in Worker : Claims(w)' = Claims(w)
    BY <2>1 DEF Claims, Running
  <2> QED BY <1>8, <2>1, <2>2 DEF Unseen, Seen
<1> QED BY <1>13, <1>14, <1>15, <1>16 DEF Next

LEMMA KindsKeptStep ==
  ASSUME KindsKept, TypeOK, [Next]_vars
  PROVE  KindsKept'
<1> USE DEF KindsKept, input
<1>1. CASE \E w \in Worker : Lifecycle(w) \/ Reclaim(w) \/ Consumer(w)
  BY <1>1
  DEF Lifecycle, Start, StartConsumer, Stop, Joined, Closed, MainCollect, CollectOne, Exit, Crash, Gone,
      Reclaim, ReclaimMove, ReclaimSettled, ReclaimFailed, Consumer, Top, Collect, Collected, LeaveHold,
      Finish, ConsumerMoves, Pop, PopNothing, Drop, Keep, Ack, HandOver, Scheduled, DrivenInline,
      Refused, CancelledInline, HandlerFailed, Handled
<1>2. CASE Push \/ OpEnds \/ (\E w \in Worker : OpNames(w) \/ OpMoves(w)) \/ UNCHANGED vars
  BY <1>2 DEF Push, OpEnds, OpNames, OpMoves, vars
<1>3. CASE \E w \in Worker, m \in Message : Complete(w, m) \/ CancelSend(w, m)
  BY <1>3 DEF Complete, CancelSend
<1> QED BY <1>1, <1>2, <1>3 DEF Next

LEMMA InitCost == Init => KindsKept /\ Phased /\ Cost
<1> SUFFICES ASSUME Init PROVE KindsKept /\ Phased /\ Cost
  OBVIOUS
<1>1. KindsKept /\ Phased
  BY DEF Init, KindsKept, Phased, DownIsOff, Young
<1>2. Unseen = {}
  BY DEF Unseen, Init
<1>3. crashes * MaxInFlight + faults = 0
  BY BoundsAreNaturals DEF Init
<1> QED BY <1>1, <1>2, <1>3, FS_EmptySet DEF Cost

LEMMA LostIsUnseen ==
  ASSUME TypeOK, ClaimedOnce
  PROVE  Lost \subseteq Unseen
<1>1. Range(queue) \subseteq Listed
  BY DEF Listed
<1>2. SUFFICES ASSUME NEW m \in Lost, m \in Seen PROVE FALSE
  BY DEF Lost, Unseen
<1>3. m \notin settled /\ m \notin Range(queue)
  BY <1>1, <1>2 DEF Lost
<1>4. PICK w \in Worker : m \in Claims(w)
  BY <1>2, <1>3 DEF Seen
<1>5. raw[w] # m /\ sending[w][m] = 0
  BY <1>2 DEF Lost
<1> QED BY <1>4, <1>5 DEF Claims, Running

(***************************************************************************)
(* On a server without LMOVE and before the first shutdown, the messages   *)
(* that are nowhere number at most MAX_IN_FLIGHT for every process killed  *)
(* and one for every Redis fault: hold_for_capacity() stands between every *)
(* pop and the one before it, so that is all a process can have taken.     *)
(***************************************************************************)
THEOREM LossIsBounded == Spec => []LossBounded
<1>1. CASE ~HasLmove
  <2> DEFINE Inv == /\ TypeOK /\ Hands /\ InOrder /\ OnlyPushed
                    /\ settled \subseteq 1..pushed /\ ClaimedOnce
                    /\ PreflightFirst /\ SlotsHeld /\ WithinMaxInFlight /\ SlotFree
                    /\ KindsKept /\ Phased /\ Cost
  <2>1. Init => Inv
    <3>1. Init => WithinMaxInFlight /\ SlotFree /\ PreflightFirst
      BY BoundsAreNaturals DEF Init, WithinMaxInFlight, SlotFree, PreflightFirst
    <3> QED BY <3>1, InitType, InitInOrder, InitClaimed, InitSlots, InitCost DEF Init
  <2>2. Inv /\ [Next]_vars => Inv'
    <3> SUFFICES ASSUME Inv, [Next]_vars PROVE Inv'
      OBVIOUS
    <3>1. TypeOK' /\ Hands' /\ InOrder' /\ OnlyPushed' /\ settled' \subseteq 1..pushed' /\ ClaimedOnce'
      BY <1>1, TypeStep, InOrderStep, OnlyPushedKept, SettledWasPushed, ClaimedStep DEF InOrder
    <3>2. PreflightFirst' /\ SlotsHeld' /\ WithinMaxInFlight' /\ SlotFree'
      BY PreflightStep, SlotsHeldStep, SlotsStep
    <3>3. KindsKept' /\ Phased' /\ Cost'
      BY <3>1, KindsKeptStep, PhasedStep, CostStep DEF InOrder
    <3> QED BY <3>1, <3>2, <3>3
  <2>3. Inv => LossBounded
    <3> SUFFICES ASSUME Inv, Modest, stops = 0
                 PROVE  Cardinality(Lost) <= crashes * MaxInFlight + faults
      BY DEF LossBounded, Modest
    <3>1. Lost \subseteq Unseen /\ IsFiniteSet(Unseen) /\ Cardinality(Unseen) \in Nat
      BY LostIsUnseen, UnseenIsFinite
    <3>2. Cardinality(Lost) \in Nat /\ Cardinality(Lost) <= Cardinality(Unseen)
      BY <3>1, FS_Subset, FS_CardinalityType
    <3>3. Cardinality(Unseen) <= crashes * MaxInFlight + faults
      BY DEF Cost
    <3>4. crashes * MaxInFlight + faults \in Int
      BY BoundsAreNaturals DEF TypeOK
    <3> QED BY <3>1, <3>2, <3>3, <3>4
  <2> QED BY <2>1, <2>2, <2>3, PTL DEF Spec
<1>2. CASE HasLmove
  <2>1. LossBounded
    BY <1>2 DEF LossBounded
  <2> QED BY <2>1, PTL
<1> QED BY <1>1, <1>2
=============================================================================
