------------------------------ MODULE CeoProofs ------------------------------
(* CeoRuntime: its types, judgements applied to what they were made on,    *)
(* decision cards that are neither lost nor sent again, and the reviews    *)
(* that keep a phase going.                                                *)
EXTENDS CeoRuntime, FiniteSetTheorems, TLAPS

-----------------------------------------------------------------------------
(* Events and rows                                                         *)

LEMMA Events ==
  /\ \A m \in Message : [kind |-> "directive", ref |-> m] \in Event
  /\ \A a \in Approval : /\ [kind |-> "card", ref |-> a] \in Event
                         /\ [kind |-> "fact", ref |-> a] \in Event
  /\ \A t \in Title : /\ [kind |-> "fact", ref |-> t] \in Event
                      /\ [kind |-> "routine", ref |-> t] \in Event
  /\ \A e \in Event :
       /\ e.kind \in Kind
       /\ e.kind = "directive" => e.ref \in Message
       /\ e.kind = "card" => /\ e.ref \in Approval
                             /\ e = [kind |-> "card", ref |-> e.ref]
BY DEF Event, Kind, Review

LEMMA Rows ==
  /\ NoRow \in EventRow /\ NoRow.status = "absent"
  /\ \A k : Row(k) \in EventRow /\ Row(k).status # "absent"
  /\ \A row \in EventRow :
       /\ Started(row) \in EventRow /\ Started(row).status # "absent"
       /\ Returned(row) \in EventRow /\ Returned(row).status # "absent"
       /\ Deferred(row) \in EventRow /\ Deferred(row).status # "absent"
       /\ Ready(row) \in EventRow /\ Ready(row).status = row.status
<1>1. NoRow \in EventRow /\ NoRow.status = "absent"
  BY DEF NoRow, EventRow, Patience
<1>2. ASSUME NEW k
      PROVE  Row(k) \in EventRow /\ Row(k).status # "absent"
  BY (k # "stall") \in BOOLEAN DEF Row, EventRow, Patience
<1>3. ASSUME NEW row \in EventRow
      PROVE  /\ Started(row) \in EventRow /\ Started(row).status # "absent"
             /\ Returned(row) \in EventRow /\ Returned(row).status # "absent"
             /\ Deferred(row) \in EventRow /\ Deferred(row).status # "absent"
             /\ Ready(row) \in EventRow /\ Ready(row).status = row.status
  <2>1. Started(row) \in EventRow /\ Started(row).status # "absent"
    <3>1. PICK n \in 0 .. Patience :
            n = IF row.attempts < Patience THEN row.attempts + 1
                ELSE row.attempts
      BY DEF EventRow, Patience
    <3>2. Started(row) = [row EXCEPT !.status = "processing", !.attempts = n]
      BY <3>1 DEF Started, EventRow
    <3>3. QED
      BY <3>1, <3>2 DEF EventRow
  <2>2. Returned(row) \in EventRow /\ Returned(row).status # "absent"
    BY DEF Returned, EventRow
  <2>3. Deferred(row) \in EventRow /\ Deferred(row).status # "absent"
    BY DEF Deferred, EventRow
  <2>4. Ready(row) \in EventRow /\ Ready(row).status = row.status
    BY DEF Ready, EventRow
  <2>5. QED
    BY <2>1, <2>2, <2>3, <2>4
<1>4. QED
  BY <1>1, <1>2, <1>3

\* q keeps every event of p.
Keeps(p, q) == q \in [Event -> EventRow] /\ Live(p) \subseteq Live(q)

LEMMA PlusKeeps ==
  ASSUME NEW q \in [Event -> EventRow], NEW k, NEW r
  PROVE  /\ Keeps(q, Plus(q, k, r))
         /\ [kind |-> k, ref |-> r] \in Event
              => [kind |-> k, ref |-> r] \in Live(Plus(q, k, r))
BY Rows DEF Plus, Keeps, Live

LEMMA PlusReviewKeeps ==
  ASSUME NEW q \in [Event -> EventRow], NEW k, NEW p \in PlusReview(q, k)
  PROVE  Keeps(q, p)
BY PlusKeeps DEF PlusReview

LEMMA EnsuredKeeps ==
  ASSUME NEW q \in [Event -> EventRow], NEW p \in Ensured(q)
  PROVE  Keeps(q, p)
BY PlusReviewKeeps DEF Ensured, Keeps

LEMMA ChangeKeeps ==
  ASSUME NEW q \in [Event -> EventRow], NEW e \in Event, NEW row \in EventRow,
         e \in Live(q) => row.status # "absent"
  PROVE  Keeps(q, [q EXCEPT ![e] = row])
BY DEF Keeps, Live

-----------------------------------------------------------------------------
(* The queue under each action                                             *)

LEMMA QueueStep ==
  ASSUME TypeOK, [Next]_vars
  PROVE  /\ queue' \in [Event -> EventRow]
         /\ \/ Keeps(queue, queue')
            \/ /\ Close /\ outcome # "defer"
               /\ \A e \in Event \ {at} : e \in Live(queue) => e \in Live(queue')
<1>1. queue \in [Event -> EventRow]
  BY DEF TypeOK
<1>2. CASE Start
  <2>1. DEFINE q == [e \in Event |-> IF queue[e].status = "processing"
                                     THEN Returned(queue[e]) ELSE queue[e]]
  <2>2. q \in [Event -> EventRow] /\ Live(queue) \subseteq Live(q)
    BY <1>1, Rows DEF Live
  <2>3. queue' \in Ensured(q)
    BY <1>2 DEF Start
  <2>4. QED
    BY <2>2, <2>3, EnsuredKeeps DEF Keeps
<1>3. CASE Idle \/ Visit
  BY <1>1, <1>3, EnsuredKeeps DEF Idle, Visit, Keeps
<1>4. CASE \E e \in Event : Claim(e) \/ EventDue(e)
  <2>1. PICK e \in Event : Claim(e) \/ EventDue(e)
    BY <1>4
  <2>2. \/ queue' = [queue EXCEPT ![e] = Started(queue[e])]
        \/ queue' = [queue EXCEPT ![e] = Ready(queue[e])]
    BY <2>1 DEF Claim, EventDue
  <2>3. e \in Live(queue)
    BY <2>1 DEF Claim, EventDue, Due
  <2>4. QED
    BY <1>1, <2>2, <2>3, Rows, ChangeKeeps DEF Keeps, Live
<1>5. CASE Raise
  <2>1. at \in Event /\ queue' = [queue EXCEPT ![at] = Returned(queue[at])]
    BY <1>5 DEF Raise, TypeOK
  <2>2. QED
    BY <1>1, <2>1, Rows, ChangeKeeps DEF Keeps
<1>6. CASE Close
  <2>1. at \in Event
    BY <1>6 DEF Close, TypeOK
  <2>2. CASE outcome = "defer"
    BY <1>1, <1>6, <2>1, <2>2, Rows, ChangeKeeps DEF Close, Keeps
  <2>3. CASE outcome # "defer"
    BY <1>1, <1>6, <2>1, <2>3, Rows DEF Close, Live
  <2>4. QED
    BY <2>2, <2>3
<1>7. CASE Apply \/ FollowUp
  <2>1. \/ UNCHANGED queue
        \/ \E a \in Approval : queue' = Plus(queue, "card", a)
        \/ queue' \in PlusReview(queue, "stall")
    BY <1>7 DEF Apply, Requests, Fresh, FollowUp
  <2>2. QED
    BY <1>1, <2>1, PlusKeeps, PlusReviewKeeps DEF Keeps
<1>8. CASE \/ \E m \in Message : Ingest(m)
           \/ \E a \in Approval : Decide(a)
           \/ \E t \in Title : EndTask(t)
  <2>1. \E k \in Kind : \E r : queue' = Plus(queue, k, r)
    BY <1>8 DEF Ingest, Decide, EndTask, Kind
  <2>2. QED
    BY <1>1, <2>1, PlusKeeps DEF Keeps
<1>9. CASE UNCHANGED queue
  BY <1>1, <1>9 DEF Keeps
<1>10. QED
  BY <1>2, <1>3, <1>4, <1>5, <1>6, <1>7, <1>8, <1>9
     DEF Next, Step, Crash, Others, Judge, Deliver, Reason, Answer, Unavailable,
         BadAnswer, ReadState, ReadDirectives, Supersede, Prepare, Withhold,
         Send, SendFails, Mark, Wake, vars, eventVars

-----------------------------------------------------------------------------
(* Type correctness                                                        *)

\* The delivery handler runs on cards, and what is applied is an answer.
OnCards == pc \in {"preparing", "sending", "marking"} => at.kind = "card"
Valid == pc = "applying" => answer.strategy \in Strategy

LEMMA OnCardsStep ==
  ASSUME OnCards, [Next]_vars
  PROVE  OnCards'
BY DEF OnCards, Next, Step, Others, Judge, Deliver, Reason, Start, Idle, Wake,
       Claim, Handler, ReadState, ReadDirectives, Answer, Unavailable,
       BadAnswer, Apply, Supersede, FollowUp, Prepare, Withhold, Send,
       SendFails, Mark, Close, Crash, Raise, Gone, Ends, Ingest, Decide,
       EndTask, Visit, EventDue, others, vars, eventVars

LEMMA ValidStep ==
  ASSUME Valid, [Next]_vars
  PROVE  Valid'
BY DEF Valid, Next, Step, Others, Judge, Deliver, Reason, Start, Idle, Wake,
       Claim, Handler, ReadState, ReadDirectives, Answer, Unavailable,
       BadAnswer, Apply, Supersede, FollowUp, Prepare, Withhold, Send,
       SendFails, Mark, Close, Crash, Raise, Gone, Ends, Ingest, Decide,
       EndTask, Visit, EventDue, others, vars, eventVars, judgeVars

\* Everything but the queue, action by action.
LEMMA TypeStep ==
  ASSUME TypeOK, OnCards, Valid, [Next]_vars
  PROVE  TypeOK'
<1>1. queue' \in [Event -> EventRow]
  BY QueueStep
<1>2. CASE Start \/ Idle \/ Wake
  BY <1>1, <1>2 DEF TypeOK, Start, Idle, Wake, eventVars, judgeVars, cardVars
<1>3. CASE \E e \in Event : Claim(e)
  BY <1>1, <1>3 DEF TypeOK, Claim, Handler, judgeVars, cardVars
<1>4. CASE ReadState
  BY <1>1, <1>4 DEF TypeOK, ReadState, eventVars, cardVars
<1>5. CASE ReadDirectives
  BY <1>1, <1>5 DEF TypeOK, ReadDirectives, InForce, eventVars, cardVars
<1>6. CASE \E c \in Strategy, t \in Title \cup {None}, ask \in BOOLEAN :
              Answer(c, t, ask)
  BY <1>1, <1>6 DEF TypeOK, Answer, eventVars, cardVars
<1>7. NoRead \in [version : Nat, directive : Nat, strategy : Strategy \cup {None},
                  seen : SUBSET (DOMAIN directives)]
      /\ NoRead.version = 0
      /\ NoAnswer \in [strategy : Strategy \cup {None}, create : Title \cup {None},
                       ask : BOOLEAN]
  BY DEF NoRead, NoAnswer
<1>8. CASE Unavailable \/ BadAnswer \/ Supersede \/ Crash \/ Raise
  <2>1. read' = NoRead /\ answer' = NoAnswer /\ UNCHANGED <<head, directives>>
    BY <1>8 DEF Unavailable, BadAnswer, Supersede, Crash, Raise, Gone, Ends,
                Forgets
  <2>2. failures' \in 0 .. MaxFailures
    BY <1>8, CeoAssumption
       DEF TypeOK, Unavailable, BadAnswer, Supersede, Crash, Raise, Gone
  <2>3. answered' \subseteq Message
    BY <1>8, Events DEF TypeOK, Unavailable, BadAnswer, Supersede, Crash, Raise,
                        Gone, Heard
  <2>4. /\ outcome' \in {"none", "ack", "defer", "reject"}
        /\ pc' \in {"closing", "down"}
        /\ IF pc' = "down" THEN at' = None ELSE at' \in Event
    BY <1>8 DEF TypeOK, Unavailable, BadAnswer, Supersede, SupersededOutcome,
                Crash, Raise, Gone, Ends
  <2>5. UNCHANGED <<task, approval, delivery, sent>>
    BY <1>8 DEF Unavailable, BadAnswer, Supersede, Crash, Raise, Gone, cardVars
  <2>6. QED
    BY <1>1, <1>7, <2>1, <2>2, <2>3, <2>4, <2>5 DEF TypeOK
<1>9. CASE Apply
  <2>1. head' \in [version : Nat, directive : Nat, strategy : Strategy]
        /\ head'.directive = head.directive /\ head'.version >= head.version
    BY <1>9 DEF TypeOK, Valid, Apply, Patched
  <2>2. task' \in [Title -> {"absent", "active", "closed"}]
    BY <1>9 DEF TypeOK, Apply, Creates
  <2>3. approval' \in [Approval -> {"absent", "pending", "decided"}]
    BY <1>9 DEF TypeOK, Apply, Requests
  <2>4. QED
    BY <1>1, <1>7, <1>9, <2>1, <2>2, <2>3, Events
       DEF TypeOK, Apply, Heard, Forgets, cardVars
<1>10. CASE FollowUp \/ Close
  BY <1>1, <1>10 DEF TypeOK, FollowUp, Close, judgeVars, cardVars
<1>11. CASE Prepare \/ Withhold \/ Send \/ SendFails \/ Mark
  <2>1. /\ UNCHANGED <<head, directives, task, approval, answered, at>>
        /\ \/ read' = NoRead /\ answer' = NoAnswer
           \/ UNCHANGED <<read, answer>>
    BY <1>11 DEF Prepare, Withhold, Send, SendFails, Mark, Ends, Forgets,
                 eventVars, judgeVars
  <2>2. failures' \in 0 .. MaxFailures
    BY <1>11, CeoAssumption
       DEF TypeOK, Prepare, Withhold, Send, SendFails, Mark
  <2>3. /\ delivery' \in [Approval -> {"absent", "pending", "delivered"}]
        /\ pc' \in {"sending", "marking", "closing"} /\ at \in Event
        /\ outcome' \in {"none", "ack", "defer", "reject"}
    BY <1>11 DEF TypeOK, Prepare, Withhold, Send, SendFails, Mark, Ends,
                 eventVars, cardVars
  <2>4. pc \in {"preparing", "sending", "marking"}
    BY <1>11 DEF Prepare, Withhold, Send, SendFails, Mark
  <2>5. at.ref \in Approval
    BY <2>3, <2>4, Events DEF OnCards
  <2>6. sent' = sent \/ sent' = sent \cup {at.ref}
    BY <1>11 DEF Prepare, Withhold, Send, SendFails, Mark, cardVars
  <2>7. sent' \subseteq Approval
    BY <2>5, <2>6 DEF TypeOK
  <2>8. QED
    BY <1>1, <1>7, <2>1, <2>2, <2>3, <2>7 DEF TypeOK
<1>12. CASE \E m \in Message : Ingest(m)
  <2>1. PICK m \in Message : Ingest(m)
    BY <1>12
  <2>2. /\ directives' \in Seq(Message) /\ Len(directives') = Len(directives) + 1
        /\ DOMAIN directives \subseteq DOMAIN directives'
    BY <2>1 DEF TypeOK, Ingest
  <2>3. /\ head' \in [version : Nat, directive : Nat, strategy : Strategy]
        /\ head'.directive = head.directive + 1
        /\ head'.version = head.version + 1
    BY <2>1 DEF TypeOK, Ingest, Directed
  <2>4. QED
    BY <1>1, <2>1, <2>2, <2>3 DEF TypeOK, Ingest, others, judgeVars, cardVars
<1>13. CASE \/ \E a \in Approval : Decide(a)
            \/ \E t \in Title : EndTask(t)
            \/ Visit \/ \E e \in Event : EventDue(e)
  BY <1>1, <1>13
     DEF TypeOK, Decide, EndTask, Visit, EventDue, others, judgeVars, cardVars
<1>14. CASE UNCHANGED vars
  BY <1>14 DEF TypeOK, vars, eventVars, judgeVars, cardVars
<1>15. QED
  BY <1>2, <1>3, <1>4, <1>5, <1>6, <1>8, <1>9, <1>10, <1>11, <1>12, <1>13, <1>14
     DEF Next, Step, Others, Judge, Deliver, Reason

\* Types hold, and with them the numbering: there is a state version for every
\* directive, and no snapshot is ahead of the state.
THEOREM CeoTypeCorrect == Spec => []TypeOK
<1>1. Init => TypeOK
  BY CeoAssumption, Rows
     DEF Init, TypeOK, NoRead, NoAnswer
<1>2. Init => OnCards /\ Valid
  BY DEF Init, OnCards, Valid
<1>3. TypeOK /\ OnCards /\ Valid /\ [Next]_vars => TypeOK' /\ OnCards' /\ Valid'
  BY TypeStep, OnCardsStep, ValidStep
<1>4. QED
  BY <1>1, <1>2, <1>3, PTL DEF Spec

-----------------------------------------------------------------------------
(* Judgements                                                              *)

\* As long as no version was added, the snapshot is what one would read now.
SnapshotFresh ==
  pc \in {"listing", "reasoning", "applying"} /\ read.version = head.version =>
    /\ read.strategy = head.strategy
    /\ read.directive = head.directive
    /\ pc # "listing" => read.seen = InForce

\* An event has an outcome once it is handled.
Quiet == pc \notin {"closing", "following"} => outcome = "none"

LEMMA QuietStep ==
  ASSUME Quiet, [Next]_vars
  PROVE  Quiet'
BY DEF Quiet, Next, Step, Others, Judge, Deliver, Reason, Start, Idle, Wake,
       Claim, Handler, ReadState, ReadDirectives, Answer, Unavailable,
       BadAnswer, Apply, Supersede, FollowUp, Prepare, Withhold, Send,
       SendFails, Mark, Close, Crash, Raise, Gone, Ends, Ingest, Decide,
       EndTask, Visit, EventDue, others, vars, eventVars

\* Only directives and judgements change the state, and directives count it up.
LEMMA HeadStep ==
  ASSUME TypeOK, [Next]_vars
  PROVE  \/ UNCHANGED <<head, directives>>
         \/ Apply
         \/ /\ head'.version = head.version + 1
            /\ UNCHANGED <<pc, read>>
<1>1. CASE \E m \in Message : Ingest(m)
  BY <1>1 DEF Ingest, Directed, others, judgeVars
<1>2. CASE Apply
  BY <1>2
<1>3. CASE ~(\E m \in Message : Ingest(m)) /\ ~Apply
  BY <1>3
     DEF Next, Step, Others, Judge, Deliver, Reason, Start, Idle, Wake, Claim,
         ReadState, ReadDirectives, Answer, Unavailable, BadAnswer, Supersede,
         FollowUp, Prepare, Withhold, Send, SendFails, Mark, Close, Crash, Raise,
         Gone, Decide, EndTask, Visit, EventDue, vars
<1>4. QED
  BY <1>1, <1>2, <1>3

\* The snapshot is made in two steps and kept until the judgement ends.
LEMMA ReadStep ==
  ASSUME TypeOK, [Next]_vars, pc' \in {"listing", "reasoning", "applying"}
  PROVE  \/ ReadState /\ pc' = "listing"
         \/ ReadDirectives /\ pc = "listing" /\ pc' = "reasoning"
         \/ /\ UNCHANGED read /\ pc \in {"listing", "reasoning", "applying"}
            /\ pc = "listing" <=> pc' = "listing"
BY DEF Next, Step, Others, Judge, Deliver, Reason, Start, Idle, Wake, Claim,
       Handler, ReadState, ReadDirectives, Answer, Unavailable, BadAnswer, Apply,
       Supersede, FollowUp, Prepare, Withhold, Send, SendFails, Mark, Close,
       Crash, Raise, Gone, Ends, Ingest, Decide, EndTask, Visit, EventDue, others,
       vars, eventVars, judgeVars

LEMMA SnapshotStep ==
  ASSUME TypeOK, SnapshotFresh, [Next]_vars
  PROVE  SnapshotFresh'
<1> SUFFICES ASSUME pc' \in {"listing", "reasoning", "applying"},
                    read'.version = head'.version
             PROVE  /\ read'.strategy = head'.strategy
                    /\ read'.directive = head'.directive
                    /\ pc' # "listing" => read'.seen = InForce'
  BY DEF SnapshotFresh
<1>1. CASE ReadState
  BY <1>1 DEF ReadState
<1>2. CASE ReadDirectives
  <2>1. /\ UNCHANGED <<head, directives>> /\ pc = "listing"
        /\ read' = [read EXCEPT !.seen = InForce]
    BY <1>2 DEF ReadDirectives
  <2>2. InForce' = InForce
    BY <2>1 DEF InForce, Outranks
  <2>3. QED
    BY <2>1, <2>2 DEF SnapshotFresh, TypeOK
<1>3. CASE ~ReadState /\ ~ReadDirectives
  <2>1. /\ UNCHANGED read /\ pc \in {"listing", "reasoning", "applying"}
        /\ pc = "listing" <=> pc' = "listing"
    BY <1>3, ReadStep
  <2>2. ~Apply
    BY DEF Apply
  <2>3. head'.version # head.version + 1
    BY <2>1 DEF TypeOK
  <2>4. UNCHANGED <<head, directives>>
    BY <2>2, <2>3, HeadStep
  <2>5. InForce' = InForce
    BY <2>4 DEF InForce, Outranks
  <2>6. QED
    BY <2>1, <2>4, <2>5 DEF SnapshotFresh
<1>4. QED
  BY <1>1, <1>2, <1>3

LEMMA JudgedStep ==
  ASSUME TypeOK, SnapshotFresh, Quiet, [Next]_vars, pc = "applying",
         outcome' = "ack"
  PROVE  /\ read.strategy = head.strategy
         /\ read.directive = Len(directives)
         /\ read.seen = InForce
<1>1. outcome = "none"
  BY DEF Quiet
<1>2. Apply
  BY <1>1
     DEF Next, Step, Others, Judge, Deliver, Reason, Start, Idle, Wake, Claim,
         ReadState, ReadDirectives, Answer, Unavailable, BadAnswer, Supersede,
         SupersededOutcome, FollowUp, Prepare, Withhold, Send, SendFails, Mark,
         Close, Crash, Raise, Gone, Ends, Ingest, Decide, EndTask, Visit,
         EventDue, others, vars, eventVars
<1>3. QED
  BY <1>2 DEF Apply, Current, SnapshotFresh, TypeOK

\* A judgement is applied only to the state and the directives it was made on,
\* although nothing is locked while the CEO reasons (_reason_about): whoever
\* changes what the snapshot shows adds a version.
THEOREM JudgementsCurrent == Spec => JudgedOnCurrent
<1>1. Init => SnapshotFresh /\ Quiet
  BY DEF Init, SnapshotFresh, Quiet
<1>2. TypeOK /\ SnapshotFresh /\ Quiet /\ [Next]_vars => SnapshotFresh' /\ Quiet'
  BY SnapshotStep, QuietStep
<1>3. TypeOK /\ SnapshotFresh /\ Quiet /\ [Next]_vars =>
        [pc = "applying" /\ outcome' = "ack" =>
           /\ read.strategy = head.strategy
           /\ read.directive = Len(directives)
           /\ read.seen = InForce]_vars
  BY JudgedStep
<1>4. QED
  BY CeoTypeCorrect, <1>1, <1>2, <1>3, PTL DEF Spec, JudgedOnCurrent

-----------------------------------------------------------------------------
(* Decision cards                                                          *)

\* The delivery handler runs on cards, and nothing else does.
OffCards ==
    pc \in {"reading", "listing", "reasoning", "applying", "following"} =>
        at.kind # "card"

\* Where the handler stands tells what it has recorded: what is being sent is
\* not delivered, and an event that will be dropped is.
Recorded ==
    /\ \A a \in Approval : delivery[a] = "delivered" => a \in sent
    /\ pc \in {"sending", "marking"} => delivery[at.ref] # "delivered"
    /\ pc = "marking" => at.ref \in sent
    /\ pc = "closing" /\ at.kind = "card" /\ outcome # "defer" =>
          delivery[at.ref] = "delivered"

CardInv == OnCards /\ OffCards /\ Recorded /\ CardTracked

LEMMA OffCardsStep ==
  ASSUME OffCards, [Next]_vars
  PROVE  OffCards'
BY DEF OffCards, Next, Step, Others, Judge, Deliver, Reason, Start, Idle, Wake,
       Claim, Handler, ReadState, ReadDirectives, Answer, Unavailable,
       BadAnswer, Apply, Supersede, FollowUp, Prepare, Withhold, Send,
       SendFails, Mark, Close, Crash, Raise, Gone, Ends, Ingest, Decide,
       EndTask, Visit, EventDue, others, vars, eventVars

\* Every other action leaves the records alone and ends no event of a card.
LEMMA CardsAlone ==
  ASSUME OnCards, OffCards, [Next]_vars, ~Deliver
  PROVE  /\ UNCHANGED <<delivery, sent>>
         /\ pc' \in {"sending", "marking"} => UNCHANGED <<pc, at>>
         /\ pc' = "closing" /\ at'.kind = "card" => UNCHANGED <<pc, at, outcome>>
BY DEF OnCards, OffCards, Deliver, Next, Step, Others, Judge, Reason, Start, Idle,
       Wake, Claim, Handler, ReadState, ReadDirectives, Answer, Unavailable,
       BadAnswer, Apply, Supersede, FollowUp, Close, Crash, Raise, Gone, Ends,
       Ingest, Decide, EndTask, Visit, EventDue, others, vars, eventVars, cardVars

\* What each action of the handler does to the records of its approval.
LEMMA DeliverStep ==
  ASSUME TypeOK, OnCards, Recorded, Deliver
  PROVE  /\ at.ref \in Approval /\ UNCHANGED <<at, queue, approval>>
         /\ sent \subseteq sent'
         /\ \A a \in Approval : delivery[a] = "delivered"
              => delivery'[a] = "delivered"
         /\ Recorded'
<1>1. at.ref \in Approval
  <2>1. pc \in {"preparing", "sending", "marking"}
    BY DEF Deliver, Prepare, Withhold, Send, SendFails, Mark
  <2>2. at \in Event
    BY <2>1 DEF TypeOK
  <2>3. QED
    BY <2>1, <2>2, Events DEF OnCards
<1>2. delivery \in [Approval -> {"absent", "pending", "delivered"}]
  BY DEF TypeOK
<1>3. CASE Prepare
  BY <1>1, <1>2, <1>3 DEF Prepare, Settled, Ends, Recorded
<1>4. CASE Withhold
  BY <1>1, <1>2, <1>4 DEF Withhold, Ends, Recorded, cardVars
<1>5. CASE Send
  BY <1>1, <1>2, <1>5 DEF Send, Recorded, eventVars
<1>6. CASE SendFails
  <2>1. /\ UNCHANGED <<at, queue, approval>> /\ pc' = "closing"
        /\ outcome' = "defer" /\ pc = "sending"
        /\ delivery' = [delivery EXCEPT ![at.ref] = "pending"]
    BY <1>6 DEF SendFails, Ends
  <2>2. sent' = sent \/ sent' = sent \cup {at.ref}
    BY <1>6 DEF SendFails
  <2>3. QED
    BY <1>1, <1>2, <2>1, <2>2 DEF Recorded
<1>7. CASE Mark
  BY <1>1, <1>2, <1>7 DEF Mark, Ends, Recorded
<1>8. QED
  BY <1>3, <1>4, <1>5, <1>6, <1>7 DEF Deliver

LEMMA RecordedStep ==
  ASSUME TypeOK, CardInv, [Next]_vars
  PROVE  /\ Recorded'
         /\ sent \subseteq sent'
         /\ \A a \in Approval : delivery[a] = "delivered"
              => delivery'[a] = "delivered"
<1>1. CASE Deliver
  BY <1>1, DeliverStep DEF CardInv
<1>2. CASE ~Deliver
  BY <1>2, CardsAlone DEF CardInv, Recorded
<1>3. QED
  BY <1>1, <1>2

\* A requested approval was so before, or its card's event is put in with it.
LEMMA ApprovalStep ==
  ASSUME TypeOK, [Next]_vars, NEW a \in Approval, approval'[a] # "absent"
  PROVE  \/ approval[a] # "absent"
         \/ queue' = Plus(queue, "card", a)
<1>1. CASE Apply
  BY <1>1 DEF TypeOK, Apply, Requests, Fresh
<1>2. CASE \E b \in Approval : Decide(b)
  BY <1>2 DEF TypeOK, Decide
<1>3. CASE ~Apply /\ ~(\E b \in Approval : Decide(b))
  BY <1>3
     DEF Next, Step, Others, Judge, Deliver, Reason, Start, Idle, Wake, Claim,
         ReadState, ReadDirectives, Answer, Unavailable, BadAnswer, Supersede,
         FollowUp, Prepare, Withhold, Send, SendFails, Mark, Close, Crash, Raise,
         Gone, Ingest, EndTask, Visit, EventDue, vars
<1>4. QED
  BY <1>1, <1>2, <1>3

LEMMA TrackedStep ==
  ASSUME TypeOK, CardInv, [Next]_vars
  PROVE  CardTracked'
<1> SUFFICES ASSUME NEW a \in Approval, approval'[a] # "absent",
                    [kind |-> "card", ref |-> a] \notin Live(queue')
             PROVE  delivery'[a] = "delivered" /\ a \in sent'
  BY DEF CardTracked
<1> DEFINE e == [kind |-> "card", ref |-> a]
<1>1. e \in Event /\ e.kind = "card" /\ e.ref = a
  BY Events
<1>2. queue' # Plus(queue, "card", a)
  BY <1>1, PlusKeeps DEF TypeOK
<1>3. approval[a] # "absent"
  BY <1>2, ApprovalStep
<1>4. delivery[a] = "delivered" /\ a \in sent
  <2>1. CASE e \notin Live(queue)
    BY <1>3, <2>1 DEF CardInv, CardTracked
  <2>2. CASE e \in Live(queue)
    <3>1. Close /\ outcome # "defer" /\ at = e
      BY <1>1, <2>2, QueueStep DEF Keeps
    <3>2. delivery[a] = "delivered"
      BY <1>1, <3>1 DEF Close, CardInv, Recorded
    <3>3. QED
      BY <3>2 DEF CardInv, Recorded
  <2>3. QED
    BY <2>1, <2>2
<1>5. QED
  BY <1>4, RecordedStep

LEMMA CardInvariant == Spec => []CardInv
<1>1. Init => CardInv
  BY DEF Init, CardInv, OnCards, OffCards, Recorded, CardTracked
<1>2. TypeOK /\ CardInv /\ [Next]_vars => CardInv'
  BY OnCardsStep, OffCardsStep, RecordedStep, TrackedStep DEF CardInv
<1>3. QED
  BY CeoTypeCorrect, <1>1, <1>2, PTL DEF Spec

\* No requested decision loses its card: whatever fails between the request and
\* the delivery, the event that delivers it is still there (_deliver_approval,
\* _defer_event).
THEOREM CardsTracked == Spec => []CardTracked
<1>1. CardInv => CardTracked
  BY DEF CardInv
<1>2. QED
  BY CardInvariant, <1>1, PTL

\* A card that is recorded as delivered stays so and is not sent again, by
\* retries, restarts or another event (_deliver_approval).
THEOREM CardsDeliveredOnce == Spec => DeliveredOnce
<1>1. TypeOK /\ CardInv /\ [Next]_vars =>
        [\A a \in Approval : delivery[a] = "delivered" =>
           delivery'[a] = "delivered" /\ ~(pc = "sending" /\ at.ref = a)]_vars
  BY RecordedStep DEF CardInv, Recorded
<1>2. QED
  BY CeoTypeCorrect, CardInvariant, <1>1, PTL DEF Spec, DeliveredOnce

-----------------------------------------------------------------------------
(* Strategic reviews                                                       *)

\* The event that is handled is in the queue.
AtLive == at # None => at \in Live(queue)

\* No two rows of one type of review.
OneReview ==
    \A e, f \in Live(queue) : e.kind \in Review /\ e.kind = f.kind => e = f

\* The worker falls asleep over a phase without work only with a review to come.
NotAsleepOverIt ==
    pc = "waiting" /\ PhaseActive /\ Work = {} =>
        LiveKinds(queue) \cap Review # {} \/ Due(queue) # {}

\* The stall review is there before the strategic review is acknowledged.
FollowedFirst ==
    pc = "closing" /\ outcome = "ack" /\ at.kind = "review" =>
        "stall" \in LiveKinds(queue)

ReviewInv == AtLive /\ OneReview /\ NotAsleepOverIt /\ FollowedFirst

\* A row that is put in is live, and due unless it is a stall review's.
LEMMA PlusLive ==
  ASSUME NEW q \in [Event -> EventRow], NEW k, NEW r, [kind |-> k, ref |-> r] \in Event
  PROVE  /\ Live(Plus(q, k, r)) = Live(q) \cup {[kind |-> k, ref |-> r]}
         /\ k # "stall" => [kind |-> k, ref |-> r] \in Due(Plus(q, k, r))
<1>0. PICK e \in Event : e = [kind |-> k, ref |-> r]
  OBVIOUS
<1>1. Plus(q, k, r) = [q EXCEPT ![e] = Row(k)]
      /\ Row(k).status = "pending" /\ Row(k).due = (k # "stall")
  BY <1>0 DEF Plus, Row
<1>2. Plus(q, k, r)[e] = Row(k) /\ \A f \in Event \ {e} : Plus(q, k, r)[f] = q[f]
  BY <1>1
<1>3. Live(Plus(q, k, r)) = Live(q) \cup {e}
  BY <1>1, <1>2 DEF Live
<1>4. k # "stall" => e \in Due(Plus(q, k, r))
  BY <1>1, <1>2, <1>3 DEF Due
<1>5. QED
  BY <1>0, <1>3, <1>4

LEMMA ReviewEvents ==
  \A k \in Review, p \in 1 .. Places :
     [kind |-> k, ref |-> p] \in Event /\ [kind |-> k, ref |-> p].kind = k
BY DEF Event

\* A review that is put in: one live row more, of its type.
LEMMA PlusReviewLive ==
  ASSUME NEW q \in [Event -> EventRow], NEW k \in Review, NEW p \in PlusReview(q, k)
  PROVE  \E e \in Event : /\ e.kind = k /\ Live(p) = Live(q) \cup {e}
                          /\ k # "stall" => e \in Due(p)
<1>1. PICK i \in 1 .. Places : p = Plus(q, k, i)
  BY DEF PlusReview
<1>2. [kind |-> k, ref |-> i] \in Event /\ [kind |-> k, ref |-> i].kind = k
  BY ReviewEvents
<1>3. QED
  BY <1>1, <1>2, PlusLive

\* Whoever calls init: the same rows, or a review where there was none.
LEMMA EnsuredLive ==
  ASSUME NEW q \in [Event -> EventRow], NEW p \in Ensured(q)
  PROVE  \/ p = q /\ (PhaseActive /\ Work = {} => LiveKinds(q) \cap Review # {})
         \/ \E e \in Event : /\ e.kind = "review" /\ "review" \notin LiveKinds(q)
                             /\ Live(p) = Live(q) \cup {e} /\ e \in Due(p)
<1>1. CASE PhaseActive /\ Work = {} /\ LiveKinds(q) \cap Review = {}
  <2>1. p \in PlusReview(q, "review") /\ "review" \in Review
    BY <1>1 DEF Ensured, Review
  <2>2. "review" \notin LiveKinds(q)
    BY <1>1, <2>1
  <2>3. QED
    BY <2>1, <2>2, PlusReviewLive
<1>2. CASE ~(PhaseActive /\ Work = {} /\ LiveKinds(q) \cap Review = {})
  BY <1>2 DEF Ensured
<1>3. QED
  BY <1>1, <1>2

\* What a step does to the live rows: it adds none, or one, and a review only
\* where there is none of its type.
AddsOne(q, p) ==
    \E e \in Event : /\ Live(p) = Live(q) \cup {e}
                     /\ e.kind \in Review => e.kind \notin LiveKinds(q)

LEMMA LiveStep ==
  ASSUME TypeOK, AtLive, [Next]_vars
  PROVE  Live(queue') \subseteq Live(queue) \/ AddsOne(queue, queue')
<1>1. queue \in [Event -> EventRow]
  BY DEF TypeOK
<1>2. CASE Start
  <2> DEFINE q == [e \in Event |-> IF queue[e].status = "processing"
                                   THEN Returned(queue[e]) ELSE queue[e]]
  <2>2. q \in [Event -> EventRow] /\ Live(q) = Live(queue)
    BY <1>1, Rows DEF Live
  <2>3. LiveKinds(q) = LiveKinds(queue)
    BY <2>2 DEF LiveKinds
  <2>4. queue' \in Ensured(q)
    BY <1>2 DEF Start
  <2> HIDE DEF q
  <2>5. QED
    BY <2>2, <2>3, <2>4, EnsuredLive DEF AddsOne
<1>3. CASE Idle \/ Visit
  BY <1>1, <1>3, EnsuredLive DEF Idle, Visit, AddsOne
<1>4. CASE \E e \in Event : Claim(e) \/ EventDue(e)
  <2>1. PICK e \in Live(queue) : \/ queue' = [queue EXCEPT ![e] = Started(queue[e])]
                                 \/ queue' = [queue EXCEPT ![e] = Ready(queue[e])]
    BY <1>4 DEF Claim, EventDue, Due
  <2>2. QED
    BY <1>1, <2>1 DEF Live
<1>5. CASE Raise \/ Close
  <2>1. \/ queue' = [queue EXCEPT ![at] = Returned(queue[at])]
        \/ queue' = [queue EXCEPT ![at] = Deferred(queue[at])]
        \/ queue' = [queue EXCEPT ![at] = NoRow]
    BY <1>5 DEF Raise, Close
  <2>2. at \in Live(queue)
    BY <1>5, CeoAssumption DEF Raise, Close, TypeOK, AtLive
  <2>3. QED
    BY <1>1, <2>1, <2>2 DEF Live
<1>6. CASE FollowUp
  <2>1. CASE queue' \in PlusReview(queue, "stall") /\ ~Watched
    <3>1. "stall" \in Review
      BY DEF Review
    <3>2. QED
      BY <1>1, <2>1, <3>1, PlusReviewLive DEF AddsOne, Watched
  <2>2. QED
    BY <1>6, <2>1 DEF FollowUp
<1>7. CASE \/ Apply
           \/ \E m \in Message : Ingest(m)
           \/ \E a \in Approval : Decide(a)
           \/ \E t \in Title : EndTask(t)
  <2>1. \/ UNCHANGED queue
        \/ \E a \in Approval : queue' = Plus(queue, "card", a)
        \/ \E a \in Approval : queue' = Plus(queue, "fact", a)
        \/ \E m \in Message : queue' = Plus(queue, "directive", m)
        \/ \E t \in Title, k \in {"fact", "routine"} : queue' = Plus(queue, k, t)
    BY <1>7 DEF Apply, Requests, Fresh, Ingest, Decide, EndTask
  <2>2. ASSUME NEW k \in Kind \ Review, NEW r, queue' = Plus(queue, k, r),
               [kind |-> k, ref |-> r] \in Event
        PROVE  AddsOne(queue, queue')
    BY <1>1, <2>2, PlusLive DEF AddsOne
  <2>3. QED
    BY <2>1, <2>2, Events DEF Kind, Review
<1>8. CASE UNCHANGED queue
  BY <1>8
<1>9. \/ UNCHANGED queue \/ Start \/ Idle \/ Visit
      \/ \E e \in Event : Claim(e) \/ EventDue(e)
      \/ Raise \/ Close \/ FollowUp \/ Apply
      \/ \E m \in Message : Ingest(m)
      \/ \E a \in Approval : Decide(a)
      \/ \E t \in Title : EndTask(t)
  BY DEF Next, Step, Crash, Others, Judge, Deliver, Reason, Answer, Unavailable,
         BadAnswer, ReadState, ReadDirectives, Supersede, Prepare, Withhold,
         Send, SendFails, Mark, Wake, vars, eventVars
<1>10. QED
  BY <1>2, <1>3, <1>4, <1>5, <1>6, <1>7, <1>8, <1>9

LEMMA AtLiveStep ==
  ASSUME TypeOK, AtLive, [Next]_vars
  PROVE  AtLive'
<1>1. CASE \E e \in Event : Claim(e)
  <2>1. PICK e \in Event : Claim(e)
    BY <1>1
  <2>2. e \in Live(queue) /\ at' = e
    BY <2>1 DEF Claim, Due
  <2>3. Keeps(queue, queue')
    BY <2>1, QueueStep DEF Claim, Close
  <2>4. QED
    BY <2>2, <2>3 DEF AtLive, Keeps
<1>2. CASE ~\E e \in Event : Claim(e)
  <2>1. at' = None \/ (at' = at /\ ~Close)
    BY <1>2, CeoAssumption
       DEF Next, Step, Others, Judge, Deliver, Reason, Start, Idle, Wake,
           ReadState, ReadDirectives, Answer, Unavailable, BadAnswer, Apply,
           Supersede, FollowUp, Prepare, Withhold, Send, SendFails, Mark, Close,
           Crash, Raise, Gone, Ends, Ingest, Decide, EndTask, Visit, EventDue,
           others, vars, eventVars, TypeOK
  <2>2. QED
    BY <2>1, QueueStep DEF AtLive, Keeps
<1>3. QED
  BY <1>1, <1>2

LEMMA OneReviewStep ==
  ASSUME TypeOK, AtLive, OneReview, [Next]_vars
  PROVE  OneReview'
<1>1. CASE Live(queue') \subseteq Live(queue)
  BY <1>1 DEF OneReview
<1>2. CASE AddsOne(queue, queue')
  <2>1. PICK n \in Event : /\ Live(queue') = Live(queue) \cup {n}
                           /\ n.kind \in Review => n.kind \notin LiveKinds(queue)
    BY <1>2 DEF AddsOne
  <2>2. \A e \in Live(queue) : e.kind \in LiveKinds(queue)
    BY DEF LiveKinds
  <2>3. QED
    BY <2>1, <2>2 DEF OneReview
<1>3. QED
  BY <1>1, <1>2, LiveStep

\* Whatever ends a task or decides while the worker waits is an event that is
\* due; any other step keeps the tasks and the rows.
LEMMA WaitingStep ==
  ASSUME TypeOK, [Next]_vars, pc = "waiting", pc' = "waiting"
  PROVE  \/ Due(queue') # {}
         \/ /\ task' = task /\ Due(queue) \subseteq Due(queue')
            /\ LiveKinds(queue) \subseteq LiveKinds(queue')
<1>1. queue \in [Event -> EventRow]
  BY DEF TypeOK
<1>2. CASE \/ \E m \in Message : Ingest(m)
           \/ \E a \in Approval : Decide(a)
           \/ \E t \in Title : EndTask(t)
  <2>1. \/ \E a \in Approval : queue' = Plus(queue, "fact", a)
        \/ \E m \in Message : queue' = Plus(queue, "directive", m)
        \/ \E t \in Title, k \in {"fact", "routine"} : queue' = Plus(queue, k, t)
    BY <1>2 DEF Ingest, Decide, EndTask
  <2>2. ASSUME NEW k \in {"fact", "directive", "routine"}, NEW r,
               queue' = Plus(queue, k, r), [kind |-> k, ref |-> r] \in Event
        PROVE  Due(queue') # {}
    BY <1>1, <2>2, PlusLive
  <2>3. QED
    BY <2>1, <2>2, Events
<1>3. CASE Visit
  BY <1>1, <1>3, EnsuredLive DEF Visit
<1>4. ASSUME NEW e \in Event, EventDue(e)
      PROVE  /\ task' = task /\ Due(queue) \subseteq Due(queue')
             /\ LiveKinds(queue) \subseteq LiveKinds(queue')
  <2>1. /\ task' = task /\ e \notin Due(queue) /\ e \in Live(queue)
        /\ queue' = [queue EXCEPT ![e] = Ready(queue[e])]
    BY <1>4 DEF EventDue, Due
  <2>2. queue'[e].status = queue[e].status /\ \A f \in Event \ {e} : queue'[f] = queue[f]
    BY <1>1, <2>1, Rows
  <2>3. Live(queue') = Live(queue)
    BY <2>2 DEF Live
  <2>4. Due(queue) \subseteq Due(queue')
    BY <2>1, <2>2, <2>3 DEF Due, Live
  <2>5. QED
    BY <2>1, <2>3, <2>4 DEF LiveKinds
<1>5. CASE UNCHANGED <<queue, task>>
  BY <1>5 DEF LiveKinds
<1>6. Others \/ (\E e \in Event : EventDue(e)) \/ UNCHANGED <<queue, task>>
  BY DEF Next, Step, Others, Judge, Deliver, Reason, Start, Idle, Wake, Claim,
         ReadState, ReadDirectives, Answer, Unavailable, BadAnswer, Apply,
         Supersede, FollowUp, Prepare, Withhold, Send, SendFails, Mark, Close,
         Crash, Raise, Gone, vars, eventVars
<1>7. QED
  BY <1>2, <1>3, <1>4, <1>5, <1>6 DEF Others

LEMMA AsleepStep ==
  ASSUME TypeOK, NotAsleepOverIt, [Next]_vars
  PROVE  NotAsleepOverIt'
<1> SUFFICES ASSUME pc' = "waiting", PhaseActive, Work' = {}, Due(queue') = {}
             PROVE  LiveKinds(queue') \cap Review # {}
  BY DEF NotAsleepOverIt
<1>1. CASE pc = "waiting"
  <2>1. /\ task' = task /\ Due(queue) = {}
        /\ LiveKinds(queue) \subseteq LiveKinds(queue')
    BY <1>1, WaitingStep
  <2>2. Work = {}
    BY <2>1 DEF Work
  <2>3. QED
    BY <1>1, <2>1, <2>2 DEF NotAsleepOverIt
<1>2. CASE pc # "waiting"
  <2>1. Idle
    BY <1>2
       DEF Next, Step, Others, Judge, Deliver, Reason, Start, Wake, Claim, Handler,
           ReadState, ReadDirectives, Answer, Unavailable, BadAnswer, Apply,
           Supersede, FollowUp, Prepare, Withhold, Send, SendFails, Mark, Close,
           Crash, Raise, Gone, Ends, Ingest, Decide, EndTask, Visit, EventDue,
           others, vars, eventVars
  <2>2. queue' \in Ensured(queue) /\ Work = {}
    BY <2>1 DEF Idle, Work
  <2>3. queue' = queue /\ LiveKinds(queue) \cap Review # {}
    BY <2>2, EnsuredLive DEF TypeOK
  <2>4. QED
    BY <2>3
<1>3. QED
  BY <1>1, <1>2

LEMMA FollowedStep ==
  ASSUME TypeOK, OnCards, FollowedFirst, [Next]_vars
  PROVE  FollowedFirst'
<1> SUFFICES ASSUME pc' = "closing", outcome' = "ack", at'.kind = "review"
             PROVE  "stall" \in LiveKinds(queue')
  BY DEF FollowedFirst
<1>1. CASE FollowUp
  <2>1. CASE Watched
    BY <1>1, <2>1 DEF FollowUp, Watched
  <2>2. CASE ~Watched
    <3>1. queue' \in PlusReview(queue, "stall") /\ "stall" \in Review
      BY <1>1, <2>2 DEF FollowUp, Review
    <3>2. PICK e \in Event : e.kind = "stall" /\ Live(queue') = Live(queue) \cup {e}
      BY <3>1, PlusReviewLive DEF TypeOK
    <3>3. QED
      BY <3>2 DEF LiveKinds
  <2>3. QED
    BY <2>1, <2>2
<1>2. CASE ~FollowUp
  <2>1. UNCHANGED <<pc, at, outcome>> /\ ~Close
    BY <1>2
       DEF Next, Step, Others, Judge, Deliver, Reason, Start, Idle, Wake, Claim,
           Handler, ReadState, ReadDirectives, Answer, Unavailable, BadAnswer,
           Apply, Review, Supersede, SupersededOutcome, Prepare, Withhold, Send,
           SendFails, Mark, Close, Crash, Raise, Gone, Ends, Ingest, Decide,
           EndTask, Visit, EventDue, others, vars, eventVars, OnCards
  <2>2. "stall" \in LiveKinds(queue)
    BY <2>1 DEF FollowedFirst
  <2>3. Keeps(queue, queue')
    BY <2>1, QueueStep
  <2>4. QED
    BY <2>2, <2>3 DEF Keeps, LiveKinds
<1>3. QED
  BY <1>1, <1>2

LEMMA ReviewInvariant == Spec => []ReviewInv
<1>1. Init => ReviewInv
  <2> SUFFICES ASSUME Init PROVE ReviewInv
    OBVIOUS
  <2>1. Live(queue) = {}
    BY Rows DEF Init, Live
  <2>2. QED
    BY <2>1 DEF Init, ReviewInv, AtLive, OneReview, NotAsleepOverIt, FollowedFirst
<1>2. TypeOK /\ OnCards /\ ReviewInv /\ [Next]_vars => ReviewInv'
  BY AtLiveStep, OneReviewStep, AsleepStep, FollowedStep DEF ReviewInv
<1>3. CardInv => OnCards
  BY DEF CardInv
<1>4. QED
  BY CeoTypeCorrect, CardInvariant, <1>1, <1>2, <1>3, PTL DEF Spec

\* Reviews neither pile up nor run dry: whoever calls init, and however often,
\* there is one strategic and one stall review at most (_ensure_strategic_review,
\* _schedule_followup_review), and whenever the last task ends, the worker sleeps
\* through a phase without work only with one of them in the queue, if only a
\* stall review that falls due in 24 hours, or with another event due.
THEOREM ReviewsScheduled == Spec => []ReviewScheduled
<1>1. TypeOK /\ ReviewInv => ReviewScheduled
  <2> SUFFICES ASSUME TypeOK, ReviewInv PROVE ReviewScheduled
    OBVIOUS
  <2>1. ASSUME NEW k \in Review
        PROVE  Cardinality({e \in Live(queue) : e.kind = k}) <= 1
    <3> DEFINE S == {e \in Live(queue) : e.kind = k}
    <3>1. CASE S = {}
      BY <3>1, FS_EmptySet
    <3>2. CASE S # {}
      <4>1. PICK e \in S : S = {e}
        BY <3>2 DEF ReviewInv, OneReview
      <4>2. QED
        BY <4>1, FS_Singleton
    <3>3. QED
      BY <3>1, <3>2
  <2>2. (\A t \in Title : task[t] # "active") => Work = {}
    BY DEF Work
  <2>3. QED
    BY <2>1, <2>2 DEF ReviewInv, NotAsleepOverIt, ReviewScheduled
<1>2. QED
  BY CeoTypeCorrect, ReviewInvariant, <1>1, PTL

\* When the event of a strategic review ends, its stall review is in the queue:
\* it was put there in a step of its own, between the judgement and the end of
\* the event, and a crash in between leaves the event to be handled again.
THEOREM ReviewsFollowed == Spec => ReviewFollowed
<1>1. TypeOK /\ ReviewInv /\ [Next]_vars =>
        [/\ pc = "closing" /\ outcome = "ack" /\ at.kind = "review"
         /\ at' = None /\ failures' = failures
         => "stall" \in LiveKinds(queue')]_vars
  <2> SUFFICES ASSUME TypeOK, ReviewInv, [Next]_vars,
                      pc = "closing", outcome = "ack", at.kind = "review"
               PROVE  at' = None /\ failures' = failures
                        => "stall" \in LiveKinds(queue')
    OBVIOUS
  <2>1. PICK e \in Live(queue) : e.kind = "stall"
    BY DEF ReviewInv, FollowedFirst, LiveKinds
  <2>2. e # at /\ e \in Event
    BY <2>1 DEF Live
  <2>3. e \in Live(queue')
    BY <2>1, <2>2, QueueStep DEF Keeps
  <2>4. QED
    BY <2>1, <2>3 DEF LiveKinds
<1>2. QED
  BY CeoTypeCorrect, ReviewInvariant, <1>1, PTL DEF Spec, ReviewFollowed

=============================================================================
