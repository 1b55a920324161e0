-------------------------- MODULE MCTaskLifecycle --------------------------
(* Small instances of TaskLifecycle for TLC.                               *)
EXTENDS TaskLifecycle, TLC

CONSTANTS t1, t2, e1, e2, o1, o2

\* One task, or two of the same lane with different titles.
OneTaskLane == t1 :> "product"
OneTitle == t1 :> "first"
OneRank == t1 :> 1
OneLane == t1 :> "product" @@ t2 :> "product"
OwnTitles == t1 :> "first" @@ t2 :> "second"
Ranks == t1 :> 2 @@ t2 :> 1

\* Errors that mention no approval, or the first one.
NoMention == {{}}
FirstOrNone == {{}, {1}}

\* The executors are told apart by nothing: every property is one of safety.
ExecutorSymmetry == Permutations({e1, e2})
=============================================================================
