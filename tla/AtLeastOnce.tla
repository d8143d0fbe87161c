----------------------------- MODULE AtLeastOnce -----------------------------
(***************************************************************************)
(* What the queue promises a producer on a server with LMOVE: from the     *)
(* moment a message is accepted until its outcome is final, Redis holds    *)
(* it.  "Final" is the outcome bot.send_raw or the consumer's verdict gives*)
(* it: sent, failed, given up on, or impossible to read.  A message may be *)
(* held, and so sent again, after that; it may not be forgotten before.    *)
(***************************************************************************)
CONSTANT Message

VARIABLES
  accepted,  \* messages a producer's write put into Redis
  held,      \* messages some Redis list still has
  final      \* messages whose outcome is known

vars == <<accepted, held, final>>

Init == accepted = {} /\ held = {} /\ final = {}

\* The producer's RPUSH is applied.
Accept(m) ==
  /\ m \notin accepted
  /\ accepted' = accepted \cup {m}
  /\ held' = held \cup {m}
  /\ UNCHANGED final

\* A worker learns the outcome while Redis has the message.
Conclude(m) ==
  /\ m \in held
  /\ final' = final \cup {m}
  /\ UNCHANGED <<accepted, held>>

\* The acknowledgement.
Forget(m) ==
  /\ m \in final
  /\ held' = held \ {m}
  /\ UNCHANGED <<accepted, final>>

Next == \E m \in Message : Accept(m) \/ Conclude(m) \/ Forget(m)

Spec == Init /\ [][Next]_vars
=============================================================================
