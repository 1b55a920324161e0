---------------------------- MODULE EventEngine ----------------------------
(***************************************************************************)
(* The durable event queue of agent_company/event_engine.py, the worker    *)
(* that empties it, and the wake-up protocol between the worker and the    *)
(* processes that enqueue events (db.py enqueue_event, notify_worker).     *)
(*                                                                         *)
(* A row of execution_events that is processed or failed is never read     *)
(* again, so rows are modelled by a fixed set of slots that are used anew. *)
(* The task ledger, TaskLifecycle's subject, appears only as far as the    *)
(* engine reads it: whether a task is open, whether it has an execution    *)
(* row, and whether that row is due for recovery.                          *)
(***************************************************************************)
EXTENDS Naturals, FiniteSets

CONSTANTS
    Slot,         \* places for the rows of execution_events
    Task,         \* row ids of tasks
    Worker,       \* processes that run worker-run, worker-step or ceo-step
    Resident,     \* the workers among them that run worker-run
    Producer,     \* processes that enqueue events: executors, CEO, Chairman
    None,         \* SQL NULL
    Reserved,     \* tasks that run_cycle escalates to the Chairman
    Limit,        \* max_attempts of every claim
    Submitted,    \* kinds of events that producers send outright
    LosesNotices, \* whether a producer may die between commit and notify
    Spare,        \* bound: slots that producers leave to the worker
    MaxFailures   \* bound: crashes, raised and retried handlers in total

\* created: task.created.  judgement: COMPLEX_EVENT_TYPES of ceo_runtime.
\* directive: chairman.directive, one of these, at priority 100.
\* card: approval.pending.  recovery: the worker.wake of _enqueue_recovery_wake.
\* routine: every other type.
Kind == {"created", "judgement", "directive", "card", "recovery", "routine"}
Deterministic == {"created", "recovery", "routine"}
Priority == [created |-> 10, judgement |-> 10, directive |-> 100,
             card |-> 90, recovery |-> 10, routine |-> 10]
Patience == 3

ASSUME ConstantsAssumption ==
    /\ IsFiniteSet(Slot) /\ IsFiniteSet(Task)
    /\ None \notin Slot /\ None \notin Task /\ None \notin Worker
    /\ Resident \subseteq Worker
    /\ Reserved \subseteq Task
    /\ Limit \in Nat \ {0}
    /\ Submitted \subseteq {"judgement", "directive", "routine"}
    /\ LosesNotices \in BOOLEAN
    /\ Spare \in Nat /\ MaxFailures \in Nat

VARIABLES
    queue,    \* the row in each slot
    lock,     \* the holder of the worker lock file
    pc,       \* where each worker is
    at,       \* the slot of the event each worker handles
    outcome,  \* what the worker does with that event once it is handled
    fifo,     \* the wake FIFO: closed, or open for reading, empty or readable
    armed,    \* whether the sleeping worker's select has a timeout
    owes,     \* producers that committed an event and have yet to notify
    task,     \* tasks.status
    exec,     \* task_executions.recovery_status
    retries,  \* task_executions.attempt_count
    approved, \* reserved tasks that the Chairman approved
    failures  \* failures so far

queueVars == <<queue, at, outcome>>
wakeVars == <<fifo, armed>>
ledgerVars == <<task, exec, retries, approved>>
vars == <<queueVars, lock, pc, wakeVars, owes, ledgerVars, failures>>

-----------------------------------------------------------------------------
(* Rows                                                                    *)

\* due: available_at has passed.  attempts is only ever compared with 3.
\* handled is history: the handler has run to the end since the insert.
Row(k, t) == [kind |-> k, task |-> t, status |-> "pending", due |-> TRUE,
              attempts |-> 0, worker |-> None, handled |-> FALSE]
NoRow == [kind |-> "routine", task |-> None, status |-> "free", due |-> FALSE,
          attempts |-> 0, worker |-> None, handled |-> FALSE]

Pending == {s \in Slot : queue[s].status = "pending"}
DuePending == {s \in Pending : queue[s].due}
Live == {s \in Slot : queue[s].status # "free"}
Free == Slot \ Live

TaskState == {"absent", "open", "in_progress", "awaiting", "blocked", "closed"}
ExecState == {"none", "running", "expired", "failed", "unknown", "released"}
DueTasks == {t \in Task : exec[t] \in {"expired", "failed"}}

Init ==
    /\ queue = [s \in Slot |-> NoRow]
    /\ lock = None
    /\ pc = [w \in Worker |-> "down"]
    /\ at = [w \in Worker |-> None]
    /\ outcome = [w \in Worker |-> "none"]
    /\ fifo = "closed" /\ armed = FALSE
    /\ owes = {}
    /\ task = [t \in Task |-> "absent"]
    /\ exec = [t \in Task |-> "none"]
    /\ retries = [t \in Task |-> 0]
    /\ approved = {}
    /\ failures = 0

-----------------------------------------------------------------------------
(* Starting, stopping, and taking events                                   *)

Goto(w, place) == pc' = [pc EXCEPT ![w] = place]

\* worker_lock: a second worker is refused and leaves no trace but an audit row.
Lock(w) ==
    /\ pc[w] = "down" /\ lock = None
    /\ lock' = w
    /\ Goto(w, "recovering")
    /\ UNCHANGED <<queueVars, wakeVars, owes, ledgerVars, failures>>

\* Mutants: only one's own rows are returned; the worker's name is left.
OwnRows(w) == {s \in Slot : /\ queue[s].status = "processing"
                            /\ queue[s].worker = w}
Interrupted(w) == {s \in Slot : queue[s].status = "processing"}
StillNamed(row) == [row EXCEPT !.status = "pending"]
Returned(row) == [row EXCEPT !.status = "pending", !.worker = None]

RecoverProcessing(w) ==
    /\ pc[w] = "recovering"
    /\ queue' = [s \in Slot |-> IF s \in Interrupted(w)
                                THEN Returned(queue[s]) ELSE queue[s]]
    /\ Goto(w, "claiming")
    /\ UNCHANGED <<at, outcome, lock, wakeVars, owes, ledgerVars, failures>>

\* _claim_one: the highest priority first.  Among equals the order of
\* available_at and id is left open.
First(s) ==
    /\ s \in DuePending
    /\ \A r \in DuePending : Priority[queue[r].kind] <= Priority[queue[s].kind]

Started(w, row) == [row EXCEPT !.status = "processing", !.worker = w,
                               !.attempts = IF @ < Patience THEN @ + 1 ELSE @]

Claim(w, s) ==
    /\ pc[w] = "claiming" /\ First(s)
    /\ queue' = [queue EXCEPT ![s] = Started(w, @)]
    /\ at' = [at EXCEPT ![w] = s]
    /\ Goto(w, "handling")
    /\ UNCHANGED <<outcome, lock, wakeVars, owes, ledgerVars, failures>>

NothingDue(w) ==
    /\ pc[w] = "claiming" /\ DuePending = {}
    /\ Goto(w, "idle")
    /\ UNCHANGED <<queueVars, lock, wakeVars, owes, ledgerVars, failures>>

\* _enqueue_recovery_wake_if_due: one recovery wake at a time.
Waking == \E s \in Live : queue[s].kind = "recovery"
RecoveryWake ==
    IF DueTasks = {} \/ Waking THEN UNCHANGED queue
    ELSE \E s \in Free : queue' = [queue EXCEPT ![s] = Row("recovery", None)]

Idle(w) ==
    /\ pc[w] = "idle"
    /\ RecoveryWake
    /\ IF DueTasks # {} THEN Goto(w, "claiming") /\ UNCHANGED lock
       ELSE IF w \in Resident THEN Goto(w, "checking") /\ UNCHANGED lock
       ELSE Goto(w, "down") /\ lock' = None
    /\ UNCHANGED <<at, outcome, wakeVars, owes, ledgerVars, failures>>

-----------------------------------------------------------------------------
(* Handlers                                                                *)

\* The handler of this row has run to the end; o is how its event will end.
Done(row) == [row EXCEPT !.handled = TRUE]
Handled(w, o) ==
    /\ outcome' = [outcome EXCEPT ![w] = o]
    /\ Goto(w, "closing")

\* run_cycle recovers what is due: T is requeued or exhausted, with an event
\* each, and the rest of it, failed while its process lives, becomes unknown.
Recovers(T) ==
    /\ T \subseteq DueTasks
    /\ \A t \in DueTasks \ T : exec[t] = "failed"
    /\ task' = [t \in Task |->
                  IF t \notin T THEN task[t]
                  ELSE IF retries[t] + 1 >= Limit THEN "blocked" ELSE "open"]
    /\ exec' = [t \in Task |-> IF t \in T THEN "released"
                               ELSE IF t \in DueTasks THEN "unknown"
                               ELSE exec[t]]
    /\ retries' = [t \in Task |->
                     IF t \in T THEN retries[t] + 1 ELSE retries[t]]

\* With nothing due it escalates reserved open tasks, those of free lanes.
Escalates(T) ==
    /\ DueTasks = {}
    /\ T \subseteq {t \in Reserved \ approved : task[t] = "open"}
    /\ task' = [t \in Task |-> IF t \in T THEN "awaiting" ELSE task[t]]
    /\ UNCHANGED <<exec, retries>>

\* The event of task t goes to slot place[t].
Places(T) == {place \in [T -> Free] :
                \A t, u \in T : place[t] = place[u] => t = u}

\* task.created is not over yet: _enforce_task_dispatch_outcome follows.
Dispatch(w, T) ==
    LET s == at[w]
        created == queue[s].kind = "created"
        kind == IF DueTasks = {} THEN "card" ELSE "judgement"
    IN
    /\ pc[w] = "handling" /\ queue[s].kind \in Deterministic
    /\ Recovers(T) \/ Escalates(T)
    /\ \E place \in Places(T) :
          queue' = [r \in Slot |->
                      IF \E t \in T : place[t] = r THEN Row(kind, None)
                      ELSE IF r = s /\ ~created
                           THEN Done(queue[r])
                      ELSE queue[r]]
    /\ IF created THEN Goto(w, "enforcing") /\ UNCHANGED outcome
       ELSE Handled(w, "ack")
    /\ UNCHANGED <<at, lock, wakeVars, owes, approved, failures>>

\* The task of a task.created event that nobody took care of.
\* Mutant: inspecting the task is enough.
NeverUnclaimed(t) == FALSE
Unclaimed(t) == task[t] \in {"open", "in_progress"} /\ exec[t] = "none"

\* _enforce_task_dispatch_outcome reads the task, and then ends the event, or
\* defers it by five minutes, or at the third attempt blocks the task.
Enforce(w) ==
    LET s == at[w] t == queue[s].task IN
    /\ pc[w] = "enforcing"
    /\ IF ~Unclaimed(t)
       THEN /\ queue' = [queue EXCEPT ![s] = Done(@)]
            /\ Handled(w, "ack")
       ELSE IF queue[s].attempts >= Patience
       THEN Goto(w, "blocking") /\ UNCHANGED <<queue, outcome>>
       ELSE Handled(w, "defer") /\ UNCHANGED queue
    /\ UNCHANGED <<at, lock, wakeVars, owes, ledgerVars, failures>>

BlockUnclaimed(w) ==
    LET s == at[w] t == queue[s].task IN
    /\ pc[w] = "blocking"
    /\ task' = [task EXCEPT ![t] = IF @ = "open" THEN "blocked" ELSE @]
    /\ queue' = [queue EXCEPT ![s] = Done(@)]
    /\ Handled(w, "ack")
    /\ UNCHANGED <<at, lock, wakeVars, owes, exec, retries, approved, failures>>

\* The CEO's judgement is applied: nothing more, a new task, or an approval.
Judge(w) ==
    LET s == at[w]
        judged == [queue EXCEPT ![s] = Done(@)]
    IN
    /\ pc[w] = "handling" /\ queue[s].kind \in {"judgement", "directive"}
    /\ \/ queue' = judged /\ UNCHANGED task
       \/ \E r \in Free : /\ queue' = [judged EXCEPT ![r] = Row("card", None)]
                          /\ UNCHANGED task
       \/ \E r \in Free, t \in Task :
             /\ task[t] = "absent"
             /\ queue' = [judged EXCEPT ![r] = Row("created", t)]
             /\ task' = [task EXCEPT ![t] = "open"]
    /\ Handled(w, "ack")
    /\ UNCHANGED <<at, lock, wakeVars, owes, exec, retries, approved, failures>>

Deliver(w) ==
    /\ pc[w] = "handling" /\ queue[at[w]].kind = "card"
    /\ queue' = [queue EXCEPT ![at[w]] = Done(@)]
    /\ Handled(w, "ack")
    /\ UNCHANGED <<at, lock, wakeVars, owes, ledgerVars, failures>>

\* Reasoning timed out, was superseded or not understood, or the card could
\* not be sent: the statuses _process_one defers on.
\* Mutant: one of them is forgotten, and the event counts as processed.
RetryForgotten == "ack"
RetryOutcome == "defer"
Retry(w) ==
    /\ pc[w] = "handling" /\ queue[at[w]].kind \notin Deterministic
    /\ failures < MaxFailures
    /\ Handled(w, RetryOutcome)
    /\ failures' = failures + 1
    /\ UNCHANGED <<queue, at, lock, wakeVars, owes, ledgerVars>>

\* protocol_rejected: the third answer that is no valid protocol.
RejectProtocol(w) ==
    LET row == queue[at[w]] IN
    /\ pc[w] = "handling" /\ row.kind \in {"judgement", "directive"}
    /\ row.attempts >= Patience /\ failures < MaxFailures
    /\ Handled(w, "reject")
    /\ failures' = failures + 1
    /\ UNCHANGED <<queue, at, lock, wakeVars, owes, ledgerVars>>

\* The UPDATEs that end an event name its worker.
Closed(w, row) ==
    LET s == at[w] IN
    queue' = [queue EXCEPT ![s] =
                IF queue[s].status = "processing" /\ queue[s].worker = w
                THEN row ELSE @]

\* The worker goes on, or leaves: step() handles one event.
GoesOn(w) ==
    /\ at' = [at EXCEPT ![w] = None]
    /\ outcome' = [outcome EXCEPT ![w] = "none"]
    /\ IF w \in Resident THEN Goto(w, "claiming") /\ UNCHANGED lock
       ELSE Goto(w, "down") /\ lock' = None

End(w) ==
    /\ pc[w] = "closing" /\ outcome[w] \in {"ack", "reject"}
    /\ Closed(w, NoRow)
    /\ GoesOn(w)
    /\ UNCHANGED <<wakeVars, owes, ledgerVars, failures>>

Deferred(row) == [Returned(row) EXCEPT !.due = FALSE]
Defer(w) ==
    /\ pc[w] = "closing" /\ outcome[w] = "defer"
    /\ Closed(w, Deferred(queue[at[w]]))
    /\ GoesOn(w)
    /\ UNCHANGED <<wakeVars, owes, ledgerVars, failures>>

-----------------------------------------------------------------------------
(* Failures of the worker                                                  *)

Gone(w) ==
    /\ failures < MaxFailures
    /\ failures' = failures + 1
    /\ pc' = [pc EXCEPT ![w] = "down"]
    /\ lock' = None
    /\ at' = [at EXCEPT ![w] = None]
    /\ outcome' = [outcome EXCEPT ![w] = "none"]
    /\ fifo' = "closed" /\ armed' = FALSE
    /\ UNCHANGED <<owes, ledgerVars>>

\* The process ends, wherever it is; the kernel drops its lock and its FIFO.
Crash(w) ==
    /\ pc[w] # "down"
    /\ Gone(w)
    /\ UNCHANGED queue

\* A handler raises: the event is pending again at once, and run() ends.
Raise(w) ==
    /\ pc[w] \in {"handling", "enforcing", "blocking"}
    /\ queue' = [queue EXCEPT ![at[w]] = Returned(@)]
    /\ Gone(w)

-----------------------------------------------------------------------------
(* wait_for_wake                                                           *)

FirstCheck(w) ==
    /\ pc[w] = "checking"
    /\ Goto(w, IF DuePending # {} THEN "claiming" ELSE "opening")
    /\ UNCHANGED <<queueVars, lock, wakeVars, owes, ledgerVars, failures>>

Open(w) ==
    /\ pc[w] = "opening"
    /\ fifo' = "empty"
    /\ Goto(w, "opened")
    /\ UNCHANGED <<queueVars, lock, armed, owes, ledgerVars, failures>>

SecondCheck(w) ==
    /\ pc[w] = "opened"
    /\ IF DuePending # {}
       THEN fifo' = "closed" /\ Goto(w, "claiming")
       ELSE UNCHANGED fifo /\ Goto(w, "arming")
    /\ UNCHANGED <<queueVars, lock, armed, owes, ledgerVars, failures>>

\* _next_wake_timeout: there is a pending event or an execution to recover.
\* Mutants: only the one or the other is looked at.
OnlyLeases == \E t \in Task : exec[t] \in {"running", "expired", "failed"}
OnlyEvents == Pending # {}
Deadline ==
    \/ Pending # {}
    \/ \E t \in Task : exec[t] \in {"running", "expired", "failed"}

Arm(w) ==
    /\ pc[w] = "arming"
    /\ armed' = Deadline
    /\ Goto(w, "sleeping")
    /\ UNCHANGED <<queueVars, lock, fifo, owes, ledgerVars, failures>>

Awake(w) ==
    /\ fifo' = "closed" /\ armed' = FALSE
    /\ Goto(w, "claiming")
    /\ UNCHANGED <<at, outcome, lock, owes, ledgerVars, failures>>

WakeUp(w) ==
    /\ pc[w] = "sleeping" /\ fifo = "readable"
    /\ Awake(w)
    /\ UNCHANGED queue

\* A timeout may come before anything is due, as after a renewed lease.
Timeout(w) ==
    /\ pc[w] = "sleeping" /\ armed
    /\ RecoveryWake
    /\ Awake(w)

-----------------------------------------------------------------------------
(* Producers: a change of the ledger and its event are one transaction,    *)
(* the notification follows                                                *)

Commits(p, k, t) ==
    /\ p \notin owes
    /\ Cardinality(Free) > Spare
    /\ \E s \in Free : queue' = [queue EXCEPT ![s] = Row(k, t)]
    /\ owes' = owes \cup {p}
    /\ UNCHANGED <<at, outcome, lock, pc, wakeVars, failures>>

\* notify_worker: without a reader the open fails, and nothing is kept.
Notify(p) ==
    /\ p \in owes
    /\ owes' = owes \ {p}
    /\ fifo' = IF fifo = "closed" THEN "closed" ELSE "readable"
    /\ UNCHANGED <<queueVars, lock, pc, armed, ledgerVars, failures>>

Forget(p) ==
    /\ LosesNotices /\ p \in owes
    /\ owes' = owes \ {p}
    /\ UNCHANGED <<queueVars, lock, pc, wakeVars, ledgerVars, failures>>

\* worker-wake, chairman-directive-ingest and other requests.
Submit(p, k) ==
    /\ k \in Submitted
    /\ Commits(p, k, None)
    /\ UNCHANGED ledgerVars

CreateTask(p, t) ==
    /\ task[t] = "absent"
    /\ Commits(p, "created", t)
    /\ task' = [task EXCEPT ![t] = "open"]
    /\ UNCHANGED <<exec, retries, approved>>

\* claim_task neither enqueues an event nor notifies the worker.
ClaimTask(t) ==
    /\ task[t] = "open" /\ exec[t] \in {"none", "released"}
    /\ task' = [task EXCEPT ![t] = "in_progress"]
    /\ exec' = [exec EXCEPT ![t] = "running"]
    /\ UNCHANGED <<queueVars, lock, pc, wakeVars, owes, retries, approved,
                   failures>>

FailTask(p, t) ==
    /\ exec[t] = "running"
    /\ Commits(p, "judgement", None)
    /\ \/ exec' = [exec EXCEPT ![t] = "failed"] /\ UNCHANGED task
       \/ exec' = [exec EXCEPT ![t] = "released"]
          /\ task' = [task EXCEPT ![t] = "blocked"]
    /\ UNCHANGED <<retries, approved>>

CompleteTask(p, t) ==
    /\ task[t] = "in_progress" /\ exec[t] = "running"
    /\ Commits(p, "judgement", None)
    /\ task' = [task EXCEPT ![t] = "closed"]
    /\ exec' = [exec EXCEPT ![t] = "released"]
    /\ UNCHANGED <<retries, approved>>

\* cancel_task, and reconcile_task of a blocked task.
CloseTask(p, t) ==
    /\ task[t] \notin {"absent", "closed"}
    /\ Commits(p, "routine", None)
    /\ task' = [task EXCEPT ![t] = "closed"]
    /\ exec' = [exec EXCEPT ![t] = IF @ = "none" THEN @ ELSE "released"]
    /\ UNCHANGED <<retries, approved>>

\* decide: a denied task is closed.
DecideTask(p, t) ==
    /\ task[t] = "awaiting"
    /\ Commits(p, "judgement", None)
    /\ \/ /\ task' = [task EXCEPT ![t] = "open"]
          /\ approved' = approved \cup {t}
       \/ task' = [task EXCEPT ![t] = "closed"] /\ UNCHANGED approved
    /\ UNCHANGED <<exec, retries>>

\* Time, outside the queue.
LeaseExpires(t) ==
    /\ exec[t] = "running"
    /\ exec' = [exec EXCEPT ![t] = "expired"]
    /\ UNCHANGED <<queueVars, lock, pc, wakeVars, owes, task, retries, approved,
                   failures>>

Ready(row) == [row EXCEPT !.due = TRUE]
EventDue(s) ==
    /\ s \in Pending /\ ~queue[s].due
    /\ queue' = [queue EXCEPT ![s] = Ready(@)]
    /\ UNCHANGED <<at, outcome, lock, pc, wakeVars, owes, ledgerVars, failures>>

-----------------------------------------------------------------------------
Handler(w) ==
    \/ \E T \in SUBSET Task : Dispatch(w, T)
    \/ Enforce(w) \/ BlockUnclaimed(w) \/ Judge(w) \/ Deliver(w)
    \/ Retry(w) \/ RejectProtocol(w)

Waiting(w) ==
    \/ FirstCheck(w) \/ Open(w) \/ SecondCheck(w) \/ Arm(w)
    \/ WakeUp(w) \/ Timeout(w)

\* Everything a running worker does but claim an event.
Step(w) ==
    \/ RecoverProcessing(w) \/ NothingDue(w) \/ Idle(w)
    \/ Handler(w) \/ End(w) \/ Defer(w) \/ Waiting(w)

WorkerNext ==
    \E w \in Worker :
       Lock(w) \/ Step(w) \/ Crash(w) \/ Raise(w) \/ \E s \in Slot : Claim(w, s)

ProducerNext ==
    \E p \in Producer :
       \/ Notify(p) \/ Forget(p) \/ \E k \in Submitted : Submit(p, k)
       \/ \E t \in Task : \/ CreateTask(p, t) \/ FailTask(p, t)
                          \/ CompleteTask(p, t) \/ CloseTask(p, t)
                          \/ DecideTask(p, t)

EnvironmentNext ==
    \/ \E t \in Task : ClaimTask(t) \/ LeaseExpires(t)
    \/ \E s \in Slot : EventDue(s)

Next == WorkerNext \/ ProducerNext \/ EnvironmentNext

Spec == Init /\ [][Next]_vars

\* A running worker goes on, and a claim takes the oldest of the most urgent
\* events, so no event is passed over for ever by others of its priority.  The
\* service manager restarts worker-run (Restart=on-failure in
\* deploy/agent-company-worker.service) until it finds the lock free.  Backoffs
\* end, and a producer that lives notifies.
FairSpec ==
    /\ Spec
    /\ \A w \in Worker : /\ WF_vars(Step(w))
                         /\ \A s \in Slot : SF_vars(Claim(w, s))
    /\ \A w \in Resident : SF_vars(Lock(w))
    /\ \A p \in Producer : WF_vars(Notify(p))
    /\ \A s \in Slot : WF_vars(EventDue(s))

-----------------------------------------------------------------------------
(* Properties                                                              *)

\* A processing row is due, counted and named; a pending one has no worker.
EventRow ==
    [kind : Kind, task : Task \cup {None}, status : {"pending", "processing"},
     due : BOOLEAN, attempts : 0 .. Patience, worker : Worker \cup {None},
     handled : BOOLEAN]
Event ==
    {row \in EventRow :
        IF row.status = "pending" THEN row.worker = None
        ELSE row.due /\ row.attempts > 0 /\ row.worker # None}

TypeOK ==
    /\ queue \in [Slot -> Event \cup {NoRow}]
    /\ lock \in Worker \cup {None}
    /\ pc \in [Worker -> {"down", "recovering", "claiming", "idle", "handling",
                          "enforcing", "blocking", "closing", "checking",
                          "opening", "opened", "arming", "sleeping"}]
    /\ at \in [Worker -> Slot \cup {None}]
    /\ outcome \in [Worker -> {"none", "ack", "defer", "reject"}]
    /\ fifo \in {"closed", "empty", "readable"}
    /\ armed \in BOOLEAN
    /\ owes \subseteq Producer
    /\ task \in [Task -> TaskState]
    /\ exec \in [Task -> ExecState]
    /\ retries \in [Task -> 0 .. Limit]
    /\ approved \subseteq Task
    /\ failures \in 0 .. MaxFailures

\* Past its recovery step the lock holder handles every event that is marked as
\* processing: a crash or a raised handler strands none (event_engine
\* _recover_processing_events, and the WHERE worker_id of the closing UPDATEs).
NoneStranded ==
    \A s \in Slot : queue[s].status = "processing" =>
        \/ lock = None
        \/ pc[lock] = "recovering"
        \/ at[lock] = s /\ queue[s].worker = lock

\* An accepted event is handled to the end, or rejected after three attempts,
\* before it leaves the queue, whatever fails on the way: the engine implements
\* DurableQueue.
Queue == INSTANCE DurableQueue WITH
    todo <- Live,
    handled <- {s \in Live : queue[s].handled},
    tries <- [s \in Slot |-> queue[s].attempts]
Implements == Queue!Spec

\* Under the fairness above every accepted event leaves the queue.
Drained == Queue!Drained

\* As long as an open task was never claimed, its task.created event is in the
\* queue: it "remains pending until a real executor creates a durable claim,
\* the task becomes explicitly blocked, or it closes" (docs/cadence.md 20-22).
\* A task that a decision reopens was explicitly blocked before.
UnclaimedTracked ==
    \A t \in Task \ approved : task[t] = "open" /\ exec[t] = "none" =>
        \E s \in Live : queue[s].kind = "created" /\ queue[s].task = t

\* A worker that sleeps without a timeout misses no event: whoever added one
\* is about to notify, and the FIFO has a reader to take it (wait_for_wake
\* looks at the queue again after it opened the FIFO, event_engine.py 168-173).
WakeNotLost ==
    \A w \in Worker : pc[w] = "sleeping" /\ ~armed /\ fifo = "empty" =>
        Pending = {} \/ owes # {}

\* A worker that sleeps without a timeout misses no lease but of a task that a
\* recovery or a decision opened once more: the task.created event of any other
\* keeps it awake until the task is claimed (claim_task itself wakes nobody).
FirstLeaseWatched ==
    \A w \in Worker : pc[w] = "sleeping" /\ ~armed /\ fifo = "empty" =>
        \A t \in Task : exec[t] \in {"running", "expired", "failed"} =>
            retries[t] > 0 \/ t \in approved \/ owes # {}

\* It misses no lease at all: "At the nearest lease expiry the worker persists an
\* internal wake and runs recovery" (docs/event-worker-deployment.md 9-10).
LeaseWatched ==
    \A w \in Worker : pc[w] = "sleeping" /\ ~armed /\ fifo = "empty" =>
        \A t \in Task : exec[t] = "expired" => owes # {}

\* An execution of a first lease that is due for recovery is recovered, or its
\* task is closed.
DueRecovered ==
    \A t \in Task :
       exec[t] \in {"expired", "failed"} /\ retries[t] = 0 /\ t \notin approved
          ~> exec[t] \notin {"expired", "failed"}

=============================================================================
