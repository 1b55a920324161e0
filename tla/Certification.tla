---------------------------- MODULE Certification ----------------------------
(***************************************************************************)
(* What the pilot gate promises about one task: the task is certified only *)
(* for the artifact set its work was started for, while that set is still  *)
(* what is approved.  PilotGate implements this specification.             *)
(***************************************************************************)
CONSTANTS
    Part, \* artifact versions
    None  \* no work, no certificate

VARIABLES
    build,    \* the parts approved now
    lost,     \* the parts that were withdrawn
    work,     \* the set the work in hand was started for
    certified \* the set the finished work is certified for

vars == <<build, lost, work, certified>>

Init ==
    /\ build \subseteq Part /\ lost = {}
    /\ work = None /\ certified = None

\* Parts join the build, or leave it and are lost for good.
Change ==
    /\ build' \subseteq Part \ lost'
    /\ lost \subseteq lost' /\ build \ build' \subseteq lost'
    /\ UNCHANGED <<work, certified>>

Begin ==
    /\ work = None /\ certified = None
    /\ work' = build
    /\ UNCHANGED <<build, lost, certified>>

Stop ==
    /\ work' = None
    /\ UNCHANGED <<build, lost, certified>>

Certify ==
    /\ work = build /\ certified = None
    /\ certified' = work /\ work' = None
    /\ UNCHANGED <<build, lost>>

Next == Change \/ Begin \/ Stop \/ Certify

Spec == Init /\ [][Next]_vars

=============================================================================
