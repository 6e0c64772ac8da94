------------------------------ MODULE MCRvTimer ------------------------------
(* A timer with halves of three values and two comparators: the counter     *)
(* crosses from one upper half to the next, and a comparator is armed with  *)
(* a threshold before and after the crossing, in either order. Every pair   *)
(* of frequencies up to 40 is calibrated, with fields of 12 and 6 values:   *)
(* quotients that fit, that just fit and that do not.                       *)
EXTENDS CalibratedTimer, TLC

MCTickStep == {1, 2}

MCThreshold == {Double(0, 2), Double(1, 0)}

MCFreq == 0 .. 40

\* the comparators are interchangeable
MCSymmetry == Permutations(Comparator)
=============================================================================
