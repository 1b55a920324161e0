----------------------------- MODULE CeoRuntime -----------------------------
(***************************************************************************)
(* The CEO control plane of agent_company/ceo_runtime.py: versioned state, *)
(* Chairman directives, judgements made on a snapshot and applied if it is *)
(* still current, and decision cards; with the strategic reviews that      *)
(* event_engine.py schedules for it.                                       *)
(*                                                                         *)
(* One worker at a time handles events (EventEngine's subject, as are the  *)
(* lock, the wake-up protocol and run_cycle); directives, decisions and    *)
(* ends of tasks arrive while it reasons.  A row of execution_events is    *)
(* named by its event_type and entity, which no two live rows share but    *)
(* those of reviews, and forgotten when it is processed or failed.         *)
(***************************************************************************)
EXTENDS Naturals, FiniteSets, Sequences

CONSTANTS
    Message,     \* Chairman messages, told apart by platform, session and id
    Title,       \* titles of tasks
    Approval,    \* row ids of approvals
    Strategy,    \* contents of strategy, assumptions and critical_path
    Empty,       \* the content of the first version
    None,        \* SQL NULL
    Lane,        \* the lane, product or commercial, of each title
    Weight,      \* the priority of each message's directive
    Window,      \* LIMIT of the snapshot's directives
    PhaseActive, \* whether a strategic phase is active
    Patches,     \* bound: the last version that a judgement changes
    Places,      \* bound: reviews of one type that the queue has room for
    MaxFailures  \* bound: crashes, bad answers and unsent cards in total

\* fact: the other events of COMPLEX_EVENT_TYPES.  review, stall: strategic and
\* business stall reviews.  routine: every event of deterministic dispatch.
Kind == {"directive", "card", "review", "stall", "fact", "routine"}
Priority == [directive |-> 100, card |-> 90, review |-> 80, stall |-> 70,
             fact |-> 10, routine |-> 10]
Review == {"review", "stall"}
Patience == 3

Event ==
    [kind : {"directive"}, ref : Message] \cup [kind : {"card"}, ref : Approval]
    \cup [kind : {"fact"}, ref : Approval \cup Title]
    \cup [kind : {"routine"}, ref : Title] \cup [kind : Review, ref : 1 .. Places]

ASSUME CeoAssumption ==
    /\ None \notin Event \cup Title \cup Strategy
    /\ Empty \in Strategy
    /\ Weight \in [Message -> 1 .. 100]
    /\ Window \in Nat \ {0}
    /\ PhaseActive \in BOOLEAN
    /\ Patches \in Nat /\ Places \in Nat /\ MaxFailures \in Nat

VARIABLES
    head,       \* the latest row of ceo_state_versions
    directives, \* rows of chairman_directives, by directive_version
    queue,      \* the row of each event
    pc, at,     \* where the worker is, and its event
    read,       \* the snapshot it reasons about
    answer,     \* the valid answer of the reasoner
    outcome,    \* what becomes of the event
    task,       \* tasks.status
    approval,   \* approvals.status
    delivery,   \* approval_deliveries.status
    sent,       \* history: approvals whose card has gone out
    answered,   \* history: messages that the CEO acted on, or gave up
    failures    \* failures so far

eventVars == <<queue, at, outcome>>
judgeVars == <<read, answer>>
cardVars == <<delivery, sent>>
vars == <<head, directives, eventVars, pc, judgeVars, task, approval, cardVars,
          answered, failures>>

-----------------------------------------------------------------------------
(* Rows                                                                    *)

\* A stall review is due after 24 hours.
Row(k) == [status |-> "pending", due |-> k # "stall", attempts |-> 0]
NoRow == [status |-> "absent", due |-> FALSE, attempts |-> 0]

Live(q) == {e \in Event : q[e].status # "absent"}
Due(q) == {e \in Live(q) : q[e].status = "pending" /\ q[e].due}
LiveKinds(q) == {e.kind : e \in Live(q)}

\* enqueue_event: q with a new row.
Plus(q, k, r) == [q EXCEPT ![[kind |-> k, ref |-> r]] = Row(k)]
\* The queue that differs from q by a review, in the first place there is.
PlusReview(q, k) ==
    {Plus(q, k, p) : p \in {p \in 1 .. Places : \A i \in 1 .. p :
                               ([kind |-> k, ref |-> i] \in Live(q)) <=> (i < p)}}

\* Mutant: tasks of any status count.
EverWork == {t \in Title : task[t] # "absent"}
Work == {t \in Title : task[t] = "active"}

\* _ensure_strategic_review: a phase without work has a review to come.
Ensured(q) ==
    IF PhaseActive /\ Work = {} /\ LiveKinds(q) \cap Review = {}
    THEN PlusReview(q, "review") ELSE {q}

NoRead == [version |-> 0, directive |-> 0, strategy |-> None, seen |-> {}]
NoAnswer == [strategy |-> None, create |-> None, ask |-> FALSE]

Init ==
    /\ head = [version |-> 1, directive |-> 0, strategy |-> Empty]
    /\ directives = <<>>
    /\ queue = [e \in Event |-> NoRow]
    /\ pc = "down" /\ at = None /\ outcome = "none"
    /\ read = NoRead /\ answer = NoAnswer
    /\ task = [t \in Title |-> "absent"]
    /\ approval = [a \in Approval |-> "absent"]
    /\ delivery = [a \in Approval |-> "absent"]
    /\ sent = {} /\ answered = {}
    /\ failures = 0

-----------------------------------------------------------------------------
(* The worker between events                                               *)

Returned(row) == [row EXCEPT !.status = "pending"]
Started(row) == [row EXCEPT !.status = "processing",
                            !.attempts = IF @ < Patience THEN @ + 1 ELSE @]
Deferred(row) == [row EXCEPT !.status = "pending", !.due = FALSE]
Ready(row) == [row EXCEPT !.due = TRUE]

\* init and _recover_processing_events.
Start ==
    /\ pc = "down"
    /\ queue' \in Ensured([e \in Event |-> IF queue[e].status = "processing"
                                           THEN Returned(queue[e]) ELSE queue[e]])
    /\ pc' = "claiming"
    /\ UNCHANGED <<head, directives, at, outcome, judgeVars, task, approval,
                   cardVars, answered, failures>>

\* classify: who handles an event of this kind.
Handler(k) == CASE k = "card" -> "preparing"
                [] k = "routine" -> "closing"
                [] OTHER -> "reading"

Claim(e) ==
    /\ pc = "claiming" /\ e \in Due(queue)
    /\ \A f \in Due(queue) : Priority[f.kind] <= Priority[e.kind]
    /\ queue' = [queue EXCEPT ![e] = Started(@)]
    /\ at' = e
    /\ pc' = Handler(e.kind)
    /\ outcome' = IF e.kind = "routine" THEN "ack" ELSE "none"
    /\ UNCHANGED <<head, directives, judgeVars, task, approval, cardVars,
                   answered, failures>>

\* wait_for_wake begins with init.
Idle ==
    /\ pc = "claiming" /\ Due(queue) = {}
    /\ queue' \in Ensured(queue)
    /\ pc' = IF Due(queue') = {} THEN "waiting" ELSE "claiming"
    /\ UNCHANGED <<head, directives, at, outcome, judgeVars, task, approval,
                   cardVars, answered, failures>>

Wake ==
    /\ pc = "waiting" /\ Due(queue) # {}
    /\ pc' = "claiming"
    /\ UNCHANGED <<head, directives, eventVars, judgeVars, task, approval,
                   cardVars, answered, failures>>

-----------------------------------------------------------------------------
(* Judgement: _reason_about                                                *)

\* The snapshot takes the directives of the highest priority, the latest first
\* among equals.
Outranks(i, j) ==
    \/ Weight[directives[i]] > Weight[directives[j]]
    \/ Weight[directives[i]] = Weight[directives[j]] /\ i > j
InForce ==
    {j \in DOMAIN directives :
        Cardinality({i \in DOMAIN directives : Outranks(i, j)}) < Window}

\* _snapshot reads the state first and the directives after it; neither read
\* is protected from commits in between.
ReadState ==
    /\ pc = "reading"
    /\ read' = [version |-> head.version, directive |-> head.directive,
                strategy |-> head.strategy, seen |-> {}]
    /\ pc' = "listing"
    /\ UNCHANGED <<head, directives, eventVars, answer, task, approval, cardVars,
                   answered, failures>>

ReadDirectives ==
    /\ pc = "listing"
    /\ read' = [read EXCEPT !.seen = InForce]
    /\ pc' = "reasoning"
    /\ UNCHANGED <<head, directives, eventVars, answer, task, approval, cardVars,
                   answered, failures>>

\* A valid answer: a strategy, which may be the old one, and at most one task
\* and one request.  A review must ask for either.
Fresh == {a \in Approval : approval[a] = "absent"}
Answer(c, t, ask) ==
    /\ pc = "reasoning"
    /\ c = read.strategy \/ read.version < Patches
    /\ ask => Fresh # {}
    /\ at.kind \in Review => t # None \/ ask
    /\ answer' = [strategy |-> c, create |-> t, ask |-> ask]
    /\ pc' = "applying"
    /\ UNCHANGED <<head, directives, eventVars, read, task, approval, cardVars,
                   answered, failures>>

\* What the worker has read and been answered is gone with the handler.
Forgets == read' = NoRead /\ answer' = NoAnswer
Ends(o) == outcome' = o /\ pc' = "closing" /\ Forgets

\* The reasoner is unavailable or times out.
Unavailable ==
    /\ pc = "reasoning" /\ failures < MaxFailures
    /\ Ends("defer")
    /\ failures' = failures + 1
    /\ UNCHANGED <<head, directives, queue, at, task, approval,
                   cardVars, answered>>

\* The message of the event, if it is a directive.
Heard == IF at.kind = "directive" THEN {at.ref} ELSE {}

\* ProtocolError: the third bad answer ends the event.
BadAnswer ==
    /\ pc = "reasoning" /\ failures < MaxFailures
    /\ IF queue[at].attempts >= Patience
       THEN Ends("reject") /\ answered' = answered \cup Heard
       ELSE Ends("defer") /\ UNCHANGED answered
    /\ failures' = failures + 1
    /\ UNCHANGED <<head, directives, queue, at, task, approval,
                   cardVars>>

\* A title is used once, and a lane by one active task.
CanCreate(t) ==
    /\ t # None
    /\ task[t] = "absent"
    /\ \A u \in Work : Lane[u] # Lane[t]

\* The tasks row; its task.created event is EventEngine's subject.
Creates(t) ==
    task' = IF CanCreate(t) THEN [task EXCEPT ![t] = "active"] ELSE task

\* The approvals row and, by its trigger, the event that delivers its card.
Requests(ask) ==
    IF ask
    THEN \E a \in Fresh : /\ approval' = [approval EXCEPT ![a] = "pending"]
                          /\ queue' = Plus(queue, "card", a)
    ELSE UNCHANGED <<approval, queue>>

\* _append_state: a version of its own for every change of the content.
Patched(c) ==
    IF c = head.strategy THEN head
    ELSE [version |-> head.version + 1, directive |-> head.directive,
          strategy |-> c]

\* Mutant: what was read is still the content, whatever its version.
SameContent == head.strategy = read.strategy
Current == /\ head.version = read.version
           /\ head.directive = read.directive

\* Under the writer lock and in one transaction.
Apply ==
    /\ pc = "applying" /\ Current
    /\ head' = Patched(answer.strategy)
    /\ Creates(answer.create)
    /\ Requests(answer.ask)
    /\ answered' = answered \cup Heard
    /\ outcome' = "ack"
    /\ pc' = IF at.kind \in Review THEN "following" ELSE "closing"
    /\ Forgets
    /\ UNCHANGED <<directives, at, cardVars, failures>>

\* Mutant: the status is missing from those that _process_one defers on.
SupersededDone == "ack"
SupersededOutcome == "defer"
Supersede ==
    /\ pc = "applying" /\ ~Current
    /\ Ends(SupersededOutcome)
    /\ UNCHANGED <<head, directives, queue, at, task, approval,
                   cardVars, answered, failures>>

\* _schedule_followup_review: unless a stall review is in the queue, be it the
\* very one that is being processed.
\* Mutant: any review will do.
ReviewWatched == LiveKinds(queue) \cap Review # {}
Watched == "stall" \in LiveKinds(queue)
FollowUp ==
    /\ pc = "following"
    /\ IF Watched THEN UNCHANGED queue ELSE queue' \in PlusReview(queue, "stall")
    /\ pc' = "closing"
    /\ UNCHANGED <<head, directives, at, outcome, judgeVars, task, approval,
                   cardVars, answered, failures>>

-----------------------------------------------------------------------------
(* Decision cards: _deliver_approval                                       *)

\* Mutants: a card is always sent, or never retried.
NeverSettled(a) == FALSE
KnownSettled(a) == delivery[a] # "absent"
Settled(a) == delivery[a] = "delivered"

Prepare ==
    LET a == at.ref IN
    /\ pc = "preparing"
    /\ IF Settled(a)
       THEN Ends("ack") /\ UNCHANGED delivery
       ELSE /\ delivery' = [delivery EXCEPT ![a] = "pending"]
            /\ pc' = "sending" /\ UNCHANGED <<outcome, judgeVars>>
    /\ UNCHANGED <<head, directives, queue, at, task, approval, sent,
                   answered, failures>>

\* The process runs with --disable-external-delivery.
Withhold ==
    /\ pc = "sending" /\ failures < MaxFailures
    /\ Ends("defer")
    /\ failures' = failures + 1
    /\ UNCHANGED <<head, directives, queue, at, task, approval,
                   cardVars, answered>>

Send ==
    /\ pc = "sending"
    /\ sent' = sent \cup {at.ref}
    /\ pc' = "marking"
    /\ UNCHANGED <<head, directives, eventVars, judgeVars, task, approval,
                   delivery, answered, failures>>

\* The sender raises; after a timeout the card may nevertheless have gone out.
SendFails ==
    LET a == at.ref IN
    /\ pc = "sending" /\ failures < MaxFailures
    /\ sent' \in {sent, sent \cup {a}}
    /\ delivery' = [delivery EXCEPT ![a] = "pending"]
    /\ Ends("defer")
    /\ failures' = failures + 1
    /\ UNCHANGED <<head, directives, queue, at, task, approval,
                   answered>>

Mark ==
    /\ pc = "marking"
    /\ delivery' = [delivery EXCEPT ![at.ref] = "delivered"]
    /\ Ends("ack")
    /\ UNCHANGED <<head, directives, queue, at, task, approval, sent,
                   answered, failures>>

-----------------------------------------------------------------------------
(* The end of an event                                                     *)

\* run() goes on; step() leaves.
Close ==
    /\ pc = "closing"
    /\ queue' = [queue EXCEPT ![at] = IF outcome = "defer" THEN Deferred(@)
                                      ELSE NoRow]
    /\ at' = None /\ outcome' = "none"
    /\ pc' \in {"claiming", "down"}
    /\ UNCHANGED <<head, directives, judgeVars, task, approval, cardVars, answered, failures>>

Gone ==
    /\ failures < MaxFailures
    /\ failures' = failures + 1
    /\ pc' = "down" /\ at' = None /\ outcome' = "none"
    /\ Forgets
    /\ UNCHANGED <<head, directives, task, approval, cardVars, answered>>

Crash == pc # "down" /\ Gone /\ UNCHANGED queue

\* Any other exception of the reasoner: the event is due at once, run() ends.
Raise ==
    /\ pc = "reasoning"
    /\ queue' = [queue EXCEPT ![at] = Returned(@)]
    /\ Gone

-----------------------------------------------------------------------------
(* The Chairman, executors and other processes                             *)

others == <<pc, at, outcome, judgeVars, cardVars, answered, failures>>

\* The state version of a new directive.
\* Mutant: only the directive_version is counted up.
Numbered == [head EXCEPT !.directive = @ + 1]
Directed == [version |-> head.version + 1, directive |-> head.directive + 1,
             strategy |-> head.strategy]

\* ingest_directive under the writer lock; a known message is left alone.
Ingest(m) ==
    /\ \A i \in DOMAIN directives : directives[i] # m
    /\ directives' = Append(directives, m)
    /\ head' = Directed
    /\ queue' = Plus(queue, "directive", m)
    /\ UNCHANGED <<others, task, approval>>

\* A denial closes the tasks that are blocked for it.
Decide(a) ==
    /\ approval[a] = "pending"
    /\ approval' = [approval EXCEPT ![a] = "decided"]
    /\ \E T \in SUBSET Work :
          task' = [t \in Title |-> IF t \in T THEN "closed" ELSE task[t]]
    /\ queue' = Plus(queue, "fact", a)
    /\ UNCHANGED <<others, head, directives>>

\* complete_task and cancel_task.
EndTask(t) ==
    /\ task[t] = "active"
    /\ task' = [task EXCEPT ![t] = "closed"]
    /\ \E k \in {"fact", "routine"} : queue' = Plus(queue, k, t)
    /\ UNCHANGED <<others, head, directives, approval>>

\* EventEngine.init in a process that is not the worker.
Visit ==
    /\ queue' \in Ensured(queue) /\ queue' # queue
    /\ UNCHANGED <<others, head, directives, task, approval>>

EventDue(e) ==
    /\ e \in Live(queue) /\ ~queue[e].due
    /\ queue' = [queue EXCEPT ![e] = Ready(@)]
    /\ UNCHANGED <<others, head, directives, task, approval>>

-----------------------------------------------------------------------------
Reason ==
    \/ \E c \in Strategy, t \in Title \cup {None}, ask \in BOOLEAN :
          Answer(c, t, ask)
    \/ Unavailable \/ BadAnswer \/ Raise

Judge == ReadState \/ ReadDirectives \/ Reason \/ Apply \/ Supersede \/ FollowUp
Deliver == Prepare \/ Withhold \/ Send \/ SendFails \/ Mark

Step ==
    \/ Start \/ Idle \/ Wake \/ Judge \/ Deliver \/ Close
    \/ \E e \in Event : Claim(e)

Others ==
    \/ \E m \in Message : Ingest(m)
    \/ \E a \in Approval : Decide(a)
    \/ \E t \in Title : EndTask(t)
    \/ Visit

Next ==
    \/ Step \/ Crash \/ Others
    \/ \E e \in Event : EventDue(e)

Spec == Init /\ [][Next]_vars

\* The worker goes on and is restarted when it ends (Restart=on-failure in
\* deploy/agent-company-worker.service); backoffs end.  Which of two events of
\* one priority is claimed first is left open, and nobody has to send
\* directives, decide or end tasks.
FairSpec ==
    /\ Spec
    /\ WF_vars(Step)
    /\ \A k \in Kind : WF_vars(\E e \in Event : e.kind = k /\ EventDue(e))

-----------------------------------------------------------------------------
(* Properties                                                              *)

\* The directive_version counts the directives, each of which is a state
\* version; a snapshot is never ahead of the state.
EventRow == [status : {"absent", "pending", "processing"}, due : BOOLEAN,
             attempts : 0 .. Patience]
TypeOK ==
    /\ head \in [version : Nat, directive : Nat, strategy : Strategy]
    /\ directives \in Seq(Message)
    /\ head.directive = Len(directives) /\ head.version > head.directive
    /\ queue \in [Event -> EventRow]
    /\ pc \in {"down", "claiming", "waiting", "reading", "listing", "reasoning",
               "applying", "following", "preparing", "sending", "marking",
               "closing"}
    /\ IF pc \in {"down", "claiming", "waiting"} THEN at = None ELSE at \in Event
    /\ outcome \in {"none", "ack", "defer", "reject"}
    /\ read \in [version : Nat, directive : Nat, strategy : Strategy \cup {None},
                 seen : SUBSET (DOMAIN directives)]
    /\ read.version <= head.version
    /\ answer \in [strategy : Strategy \cup {None}, create : Title \cup {None},
                   ask : BOOLEAN]
    /\ task \in [Title -> {"absent", "active", "closed"}]
    /\ approval \in [Approval -> {"absent", "pending", "decided"}]
    /\ delivery \in [Approval -> {"absent", "pending", "delivered"}]
    /\ sent \subseteq Approval /\ answered \subseteq Message
    /\ failures \in 0 .. MaxFailures

\* What a judgement is applied to is what it was made on: the state and the
\* directives in its snapshot, though read one after the other and long before,
\* are those that a snapshot would show at the commit (ceo_runtime.py 671-689;
\* README.md 92: superseded reasoning requeues the same event).
JudgedOnCurrent ==
    [][pc = "applying" /\ outcome' = "ack" =>
         /\ read.strategy = head.strategy
         /\ read.directive = Len(directives)
         /\ read.seen = InForce]_vars

\* Every approval that was requested and not delivered has its card on the way,
\* whatever failed (the trigger approvals_enqueue_pending_event, _defer_event).
CardTracked ==
    \A a \in Approval :
       approval[a] # "absent" /\ [kind |-> "card", ref |-> a] \notin Live(queue)
          => delivery[a] = "delivered" /\ a \in sent

\* A card recorded as delivered never goes out again: "Delivery is idempotently
\* recorded in SQLite" (docs/event-worker-deployment.md 96).
DeliveredOnce ==
    [][\A a \in Approval : delivery[a] = "delivered" =>
         delivery'[a] = "delivered" /\ ~(pc = "sending" /\ at.ref = a)]_vars

\* Reviews neither pile up nor run dry: there is at most one strategic and one
\* stall review, and the worker never sleeps through an active phase without
\* work unless one of them is in the queue or another event is due, even when the
\* last task ends as it falls asleep.  A stall review is enough
\* (event_engine.py 55-61), and may be due only in 24 hours.
ReviewScheduled ==
    /\ \A k \in Review : Cardinality({e \in Live(queue) : e.kind = k}) <= 1
    /\ pc = "waiting" /\ PhaseActive /\ (\A t \in Title : task[t] # "active") =>
         LiveKinds(queue) \cap Review # {} \/ Due(queue) # {}

\* docs/cadence.md 7-8: "When an active strategic phase has no executable product
\* or commercial work, the worker persists an immediate ceo.strategic_review
\* event".  README gives an instance: a stall review keeps it away.
ReviewImmediate ==
    pc = "waiting" /\ PhaseActive /\ Work = {} =>
      "review" \in LiveKinds(queue) \/ Due(queue) # {}

\* "Each strategic review schedules a durable 24-hour ceo.business_stall_review"
\* (docs/cadence.md 10): when its event ends there is one in the queue.
ReviewFollowed ==
    [][/\ pc = "closing" /\ outcome = "ack" /\ at.kind = "review"
       /\ at' = None /\ failures' = failures
       => "stall" \in LiveKinds(queue')]_vars

\* The CEO acts on every directive, or gives it up at a third attempt: newer
\* directives, failures and restarts only delay it (README.md 91-93).
DirectiveAnswered ==
    \A m \in Message :
       (\E i \in DOMAIN directives : directives[i] = m) ~> m \in answered

\* Every requested decision reaches the Chairman.
CardDelivered ==
    \A a \in Approval : approval[a] # "absent" ~> delivery[a] = "delivered"

\* "A successful review must create bounded phase-linked work or request a
\* Chairman decision" (docs/cadence.md 8-9).
ReviewAdvances ==
    [][pc = "applying" /\ pc' = "following" => task' # task \/ approval' # approval]_vars

=============================================================================
