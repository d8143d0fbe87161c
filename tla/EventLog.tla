------------------------------- MODULE EventLog -------------------------------
(***************************************************************************)
(* write_batch() of eventlog.py: one batch of event rows, a database that  *)
(* refuses some of them and may drop the connection, with or without       *)
(* having committed.  It runs on the writer's own thread, or under         *)
(* EVENT_LOG_SYNC on a caller's, inside a transaction of the caller's.     *)
(***************************************************************************)
EXTENDS Integers, Sequences, FiniteSetsExt

CONSTANTS
  N,         \* rows of the batch
  RowByRow,  \* ROW_BY_ROW: up to so many rows are not bisected
  MaxDrops   \* bound: connections dropped during a statement

ASSUME BatchIsNotEmpty == N \in Nat \ {0}
ASSUME BoundsAreNatural == RowByRow \in Nat \ {0} /\ MaxDrops \in Nat

Row == 1..N

VARIABLES
  poison,    \* the rows the database refuses: fixed
  context,   \* "own": no transaction; "block": in atomic(); "manual": no autocommit
  connection,\* "ok", or "dead": the server dropped it
  caller,    \* the caller's transaction: "none", "open", "rolledBack" by the
             \* server, or "closed" under it
  pc,
  todo,      \* the parts of the batch that are still to be inserted, in order
  copies,    \* [Row -> rows of the table that came from it]
  written,   \* how many rows the ladder believes landed
  result,    \* what write_batch() returned, or Raised
  drops,     \* connections dropped
  unheard    \* history: commits whose answer was lost

fixed == <<poison, context>>
vars  == <<fixed, connection, caller, pc, todo, copies, written, result, drops, unheard>>
-----------------------------------------------------------------------------
Raised == -1  \* EventLogRefusedError

Part(first, last, how) == [first |-> first, last |-> last, how |-> how]
Rows(part) == part.first..part.last

\* Mutant: both halves hold the middle row.
SplitOverlapping(part) ==
  LET middle == part.first + (part.last - part.first + 1) \div 2 IN
  IF Cardinality(Rows(part)) > RowByRow
  THEN <<Part(part.first, middle, "half"), Part(middle, part.last, "half")>>
  ELSE [i \in 1..Cardinality(Rows(part)) |-> Part(part.first + i - 1, part.first + i - 1, "row")]

\* Mutant: a part is bisected down to nothing.
SplitToNothing(part) ==
  LET middle == part.first + (part.last - part.first + 1) \div 2 IN
  <<Part(part.first, middle - 1, "half"), Part(middle, part.last, "half")>>

\* _write_one_by_one(): two halves, or every row by itself.
Split(part) ==
  LET middle == part.first + (part.last - part.first + 1) \div 2 IN
  IF Cardinality(Rows(part)) > RowByRow
  THEN <<Part(part.first, middle - 1, "half"), Part(middle, part.last, "half")>>
  ELSE [i \in 1..Cardinality(Rows(part)) |-> Part(part.first + i - 1, part.first + i - 1, "row")]

Whole == Part(1, N, "half")

Init ==
  /\ poison \in SUBSET Row
  /\ context \in {"own", "block", "manual"}
  /\ connection \in IF context = "own" THEN {"ok", "dead"} ELSE {"ok"}
  /\ caller = IF context = "own" THEN "none" ELSE "open"
  /\ pc = "start" /\ todo = <<>> /\ copies = [r \in Row |-> 0]
  /\ written = 0 /\ result = 0 /\ drops = 0 /\ unheard = 0
-----------------------------------------------------------------------------
(***************************************************************************)
(* atomic() around one INSERT of some rows, and what comes of it.  With no *)
(* transaction around it, it commits; Django may open the connection again *)
(* on the way out of a failure, or at the next statement, or not.          *)
(***************************************************************************)
Inserted(part) == copies' = [r \in Row |-> IF r \in Rows(part) THEN copies[r] + 1 ELSE copies[r]]
Unchanged == UNCHANGED <<connection, caller, copies, drops, unheard>>

Accepts(part) == Rows(part) \cap poison = {}

Succeeds(part) ==
  /\ connection = "ok" /\ Accepts(part)
  /\ Inserted(part)
  /\ UNCHANGED <<connection, caller, drops, unheard>>

\* DatabaseError: the savepoint takes it back.
IsRefused(part) == connection = "ok" /\ ~Accepts(part) /\ Unchanged

\* OperationalError or InterfaceError.
IsDropped(part) ==
  \/ /\ connection = "ok" /\ drops < MaxDrops
     /\ drops' = drops + 1
     /\ \/ /\ context = "own"
           /\ connection' \in {"ok", "dead"}
           /\ \/ UNCHANGED <<copies, unheard>>
              \/ Accepts(part) /\ Inserted(part) /\ unheard' = unheard + 1
           /\ UNCHANGED caller
        \/ /\ context # "own"   \* the server rolls the caller's transaction back
           /\ connection' = "dead" /\ caller' = "rolledBack"
           /\ copies' = [r \in Row |-> 0] /\ UNCHANGED unheard
  \/ /\ connection = "dead"
     /\ connection' \in IF context = "own" THEN {"ok", "dead"} ELSE {"dead"}
     /\ UNCHANGED <<caller, copies, drops, unheard>>
-----------------------------------------------------------------------------
\* Mutant: a connection in a transaction without a block is taken for a free one.
FreeOutsideBlocks == context # "block"

\* _recycle(): never in a transaction of the caller's.
MayRecycle == context = "own"

Recycled(force) ==
  IF MayRecycle
  THEN /\ connection' \in IF force THEN {"ok"} ELSE {connection, "ok"}
       /\ caller' = IF caller = "open" THEN "closed" ELSE caller
  ELSE UNCHANGED <<connection, caller>>

Start ==
  /\ pc = "start"
  /\ Recycled(FALSE)
  /\ pc' = "bulk"
  /\ UNCHANGED <<fixed, todo, copies, written, result, drops, unheard>>

\* Mutant: a total refusal returns like any other.
ReturnsAlways(n) == result' = N - n

\* _refused() raises when none of the batch landed.
Returns(n) == result' = IF n = 0 THEN Raised ELSE N - n

\* The first attempt, on all of the batch; a refusal can be an OperationalError too.
Bulk ==
  /\ pc = "bulk"
  /\ \/ /\ Succeeds(Whole)
        /\ pc' = "done" /\ result' = 0 /\ UNCHANGED todo
     \/ /\ IsRefused(Whole)
        /\ pc' = "ladder" /\ todo' = Split(Whole) /\ UNCHANGED result
     \/ /\ IsDropped(Whole) \/ IsRefused(Whole)
        /\ pc' = "again" /\ UNCHANGED <<todo, result>>
  /\ UNCHANGED <<fixed, written>>

\* One retry, on a fresh connection.
Again ==
  /\ pc = "again"
  /\ Recycled(TRUE)
  /\ pc' = "ladder" /\ todo' = <<Whole>>
  /\ UNCHANGED <<fixed, copies, written, result, drops, unheard>>

\* _write_half() and _write_row(), and the halves and rows they leave.
Climb ==
  /\ pc = "ladder" /\ todo # <<>>
  /\ LET part == Head(todo) IN
     \/ /\ Succeeds(part)
        /\ written' = written + Cardinality(Rows(part)) /\ todo' = Tail(todo)
     \/ /\ IsRefused(part) \/ IsDropped(part)
        /\ UNCHANGED written
        /\ todo' = IF part.how = "half" THEN Split(part) \o Tail(todo) ELSE Tail(todo)
  /\ UNCHANGED <<fixed, pc, result>>

Finish ==
  /\ pc = "ladder" /\ todo = <<>>
  /\ Returns(written)
  /\ pc' = "done"
  /\ UNCHANGED <<fixed, connection, caller, todo, copies, written, drops, unheard>>

\* The call has returned, or raised.
Over == pc = "done" /\ UNCHANGED vars

Next == Start \/ Bulk \/ Again \/ Climb \/ Finish \/ Over

Spec == Init /\ [][Next]_vars
-----------------------------------------------------------------------------
Landed  == {r \in Row : copies[r] > 0}
Refused == IF result = Raised THEN N ELSE result

\* Everything has its type, and the parts left lie inside the batch.
TypeOK ==
  /\ poison \subseteq Row /\ context \in {"own", "block", "manual"}
  /\ connection \in {"ok", "dead"}
  /\ caller \in {"none", "open", "rolledBack", "closed"}
  /\ pc \in {"start", "bulk", "again", "ladder", "done"}
  /\ todo \in Seq([first : Row, last : Row, how : {"half", "row"}])
  /\ \A i \in DOMAIN todo : Rows(todo[i]) # {} /\ Rows(todo[i]) \subseteq Row
  /\ copies \in [Row -> Nat] /\ written \in 0..N /\ result \in Raised..N
  /\ drops \in 0..MaxDrops /\ unheard \in 0..drops

\* No row disappears uncounted: what did not land is in the count write_batch()
\* returns, and a batch of which nothing landed raises, which the recorder needs
\* to tell a failed flush from a clean one (_refused()).  The count is exact
\* unless a commit went unheard.  Where the server drops the caller's own
\* transaction, the rows go with it and the caller is told by the database.
LossesAreCounted ==
  pc = "done" /\ caller # "rolledBack" =>
    /\ Cardinality(Row \ Landed) <= Refused
    /\ unheard = 0 => Cardinality(Row \ Landed) = Refused
    /\ Landed = {} => result = Raised

\* A row is never inserted twice, but for a commit whose answer was lost.
CopiesAreExplained == \A r \in Row : copies[r] <= 1 + unheard

\* A batch costs nothing but its poisoned rows: every other row lands, once,
\* when no connection is dropped under the batch (one that was dropped before
\* costs nothing), and the transaction the caller has open is never closed under
\* it (_write_one_by_one(), _recycle()).
NothingElseIsLost ==
  /\ caller # "closed"
  /\ pc = "done" /\ drops = 0 => \A r \in Row \ poison : copies[r] = 1
=============================================================================
