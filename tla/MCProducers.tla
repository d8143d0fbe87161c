----------------------------- MODULE MCProducers -----------------------------
(***************************************************************************)
(* An instance of Producers for TLC: a thread, and two coroutines and an   *)
(* aclose() on two loops.                                                  *)
(***************************************************************************)
EXTENDS Producers, TLC

CONSTANTS t1, t2, a1, a2, a3, z1, l1, l2

Threads    == {t1, t2}
Coroutines == {a1, a2, a3}
Closers    == {z1}
Loops      == {l1, l2}

\* The second coroutine has a loop of its own, the others share one.
LoopOf == [c \in Async |-> IF c = a2 THEN l2 ELSE l1]

\* Threads on the shared client; coroutines of a loop, one of which may close its
\* client; a thread beside a loop; two loops, of which one may be gone.
Scenes == {{t1, t2}, {a1, z1}, {a1, a3}, {t1, a1}, {a1, a2}}

TwoChunks == [c \in Sender |-> IF c \in {t1, a1} THEN 2 ELSE 1]
=============================================================================
