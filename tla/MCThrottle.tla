----------------------------- MODULE MCThrottle -----------------------------
(* A limiter with two tracked chats for TLC: one group and private chats.  *)
EXTENDS Throttle

CONSTANTS c1, c2, g1, m1, m2, m3, m4, m5

FiveSends == {m1, m2, m3, m4, m5}
Chats  == {c1, c2, g1}
Groups == {g1}

\* A group's conversation and the messages of two other chats.
OneTalk == m1 :> g1 @@ m2 :> g1 @@ m3 :> g1 @@ m4 :> c1 @@ m5 :> c2

Intervals == [k \in Budget |-> CASE k = "overall" -> 1 [] k = "chat" -> 2 [] OTHER -> 3]
Doubles   == [k \in Budget |-> 2]

Symmetry == Permutations({m1, m2, m3})
=============================================================================
