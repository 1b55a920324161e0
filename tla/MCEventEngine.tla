--------------------------- MODULE MCEventEngine ---------------------------
(* Small instances of EventEngine for TLC.                                 *)
EXTENDS EventEngine, TLC

CONSTANTS s1, s2, s3, s4, t1, t2, w1, w2, p1, p2

\* Slots are told apart by nothing but the rows in them.
SlotSymmetry == Permutations(Slot)
=============================================================================
