----------------------------- MODULE MCRequeue -----------------------------
(* The two tasks of the allowlist for TLC.                                 *)
EXTENDS Requeue
=============================================================================
