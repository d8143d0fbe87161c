---------------------------- MODULE EventAccount ----------------------------
(***************************************************************************)
(* What the event log promises whoever records an event.  It has one fate, *)
(* and for good: it is in the log, or it is counted as lost.  What the log *)
(* tells of losses never exceeds what was lost, but for one drop that each *)
(* writer that could not be started may add.  Some events may wait for     *)
(* their fate for ever: that every one gets it is not promised here.       *)
(***************************************************************************)
EXTENDS Naturals, FiniteSets

CONSTANT Event

VARIABLES
  recorded,  \* events handed to record()
  written,   \* those in the log
  lost,      \* those counted as dropped
  told,      \* how many drops the log tells of
  unstarted  \* how many writers could not be started

vars == <<recorded, written, lost, told, unstarted>>

Pending == recorded \ (written \cup lost)

Init == recorded = {} /\ written = {} /\ lost = {} /\ told = 0 /\ unstarted = 0

\* record() is called.
Record(e) ==
  /\ e \notin recorded
  /\ recorded' = recorded \cup {e}
  /\ UNCHANGED <<written, lost, told, unstarted>>

\* The outcome of a write, or of none: some events land and some are counted.
Settle(landed, refused) ==
  /\ written' = written \cup landed
  /\ lost' = lost \cup refused
  /\ UNCHANGED <<recorded, told, unstarted>>

\* No writer could be started: what the caller had in hand, if that was an event.
GiveUp(refused) ==
  /\ lost' = lost \cup refused
  /\ unstarted' = unstarted + 1
  /\ UNCHANGED <<recorded, written, told>>

\* A gap row.
Tell ==
  /\ told' >= told
  /\ told' <= Cardinality(lost) + unstarted
  /\ UNCHANGED <<recorded, written, lost, unstarted>>

Next ==
  \/ \E e \in Event : Record(e)
  \/ \E landed \in SUBSET Pending : \E refused \in SUBSET (Pending \ landed) : Settle(landed, refused)
  \/ \E refused \in {{}} \cup {{e} : e \in Pending} : GiveUp(refused)
  \/ Tell

Spec == Init /\ [][Next]_vars
=============================================================================
