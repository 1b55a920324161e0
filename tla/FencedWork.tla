----------------------------- MODULE FencedWork -----------------------------
(***************************************************************************)
(* What the ledger promises about who works on a task: it is granted to    *)
(* nobody while somebody has it, every grant has a number of its own, and  *)
(* a call is accepted only from the latest grant, while it lasts.  With    *)
(* fencing tokens TaskLifecycle implements this specification.             *)
(***************************************************************************)
EXTENDS Naturals

CONSTANTS
    Work,   \* what is granted
    Worker, \* who asks for it
    Nobody  \* no worker

VARIABLES
    grants, \* <<work, number, worker>>: every grant ever made
    latest, \* the number of the latest grant
    holder, \* who has the work now
    wrote   \* the grant the call accepted last came from

vars == <<grants, latest, holder, wrote>>

Init ==
    /\ grants = {}
    /\ latest = [w \in Work |-> 0]
    /\ holder = [w \in Work |-> Nobody]
    /\ wrote = [w \in Work |-> 0]

\* A grant is itself the first call under it.
Grant(w, e) ==
    LET n == latest[w] + 1 IN
    /\ holder[w] = Nobody
    /\ grants' = grants \cup {<<w, n, e>>}
    /\ latest' = [latest EXCEPT ![w] = n]
    /\ holder' = [holder EXCEPT ![w] = e]
    /\ wrote' = [wrote EXCEPT ![w] = n]

\* A call of the holder, which may be the last one.
Accept(w) ==
    /\ holder[w] # Nobody
    /\ wrote' = [wrote EXCEPT ![w] = latest[w]]
    /\ holder' \in {holder, [holder EXCEPT ![w] = Nobody]}
    /\ UNCHANGED <<grants, latest>>

\* Work is taken from whoever has it.
Withdraw(W) ==
    /\ holder' = [w \in Work |-> IF w \in W THEN Nobody ELSE holder[w]]
    /\ UNCHANGED <<grants, latest, wrote>>

Next ==
    \/ \E w \in Work, e \in Worker : Grant(w, e)
    \/ \E w \in Work : Accept(w)
    \/ \E W \in SUBSET Work : Withdraw(W)

Spec == Init /\ [][Next]_vars

=============================================================================
