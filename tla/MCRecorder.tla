----------------------------- MODULE MCRecorder -----------------------------
(* Small instances of Recorder for TLC.                                    *)
EXTENDS Recorder, TLC

CONSTANTS p1, p2, s1, s2, f1, d1

OneProducer  == {p1}
TwoProducers == {p1, p2}
OneStop      == {s1}
TwoStops     == {s1, s2}
OneFlush     == {f1}
OneDrain     == {d1}
NoCalls      == {}

\* A stop(), a flush() or a drain_once() against two producers; one or
\* two stop()s against one.
StopOrFlush == {{p1, p2, s1}, {p1, p2, f1}, {p1, p2, d1}}
StopOnly    == {{p1, s1}}
TwoStopping == {{p1, s1, s2}}

\* Two flushes can race for one hole only when a third event made it.
EventsOf == [cast \in Casts |-> IF s1 \in cast THEN 2 ELSE 3]

\* The threads of a kind run the same code.
Symmetry == Permutations({p1, p2})
=============================================================================
