---------------------------- MODULE DurableQueue ----------------------------
(***************************************************************************)
(* What the table execution_events promises to the processes that insert   *)
(* into it: an accepted event is kept until its handler has run to the     *)
(* end, or until it is rejected after Patience attempts.  It may be        *)
(* handled more than once.  EventEngine implements this specification.     *)
(***************************************************************************)
EXTENDS Naturals

CONSTANTS
    Slot,    \* places an accepted event may take
    Patience \* attempts before an event may be rejected

VARIABLES
    todo,    \* accepted and not yet finished
    handled, \* those among them whose handler has run to the end
    tries    \* how often each was started, counted up to Patience

vars == <<todo, handled, tries>>

Init == todo = {} /\ handled = {} /\ tries = [s \in Slot |-> 0]

\* Events arrive, from outside or from the handler of another event.
Accept(S) ==
    /\ S # {} /\ S \cap todo = {}
    /\ todo' = todo \cup S
    /\ UNCHANGED <<handled, tries>>

Start(s) ==
    /\ s \in todo
    /\ tries' = [tries EXCEPT ![s] = IF @ < Patience THEN @ + 1 ELSE @]
    /\ UNCHANGED <<todo, handled>>

\* The handler ends; the events in S are the work it asks for.
Handle(s, S) ==
    /\ s \in todo /\ S \cap todo = {}
    /\ handled' = handled \cup {s}
    /\ todo' = todo \cup S
    /\ UNCHANGED tries

Leave(s) ==
    /\ todo' = todo \ {s}
    /\ handled' = handled \ {s}
    /\ tries' = [tries EXCEPT ![s] = 0]

Finish(s) == s \in handled /\ Leave(s)
Reject(s) == s \in todo /\ tries[s] >= Patience /\ Leave(s)

Next ==
    \/ \E S \in SUBSET Slot : Accept(S) \/ \E s \in Slot : Handle(s, S)
    \/ \E s \in Slot : Start(s) \/ Finish(s) \/ Reject(s)

Spec == Init /\ [][Next]_vars

\* Every accepted event is finished or rejected in the end.
Drained == \A s \in Slot : s \in todo ~> s \notin todo

=============================================================================
