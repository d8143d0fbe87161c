----------------------------- MODULE MCDelivery -----------------------------
(***************************************************************************)
(* Delivery with small sets for TLC.  The worker names are interchangeable *)
(* and no property orders them, so they may be permuted in safety runs.    *)
(***************************************************************************)
EXTENDS Delivery

CONSTANTS w1, w2

OneWorker  == {w1}
TwoWorkers == {w1, w2}
AllKinds   == Kind
Readable   == {"sendable", "broken"}

Symmetry == Permutations(Worker)
=============================================================================
