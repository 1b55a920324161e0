---------------------------- MODULE MCCeoRuntime ----------------------------
(* Small instances of CeoRuntime for TLC.                                  *)
EXTENDS CeoRuntime, TLC

CONSTANTS m1, m2, t1, t2, a1, c1, c2

\* Two tasks of one lane; the later message may be the less urgent one.
OneLane == t1 :> "product" @@ t2 :> "product"
Weights == m1 :> 60 @@ m2 :> 50
OneWeight == m1 :> 50
=============================================================================
