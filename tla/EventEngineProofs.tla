-------------------------- MODULE EventEngineProofs --------------------------
(* Theorems of EventEngine for every value of its constants.               *)
EXTENDS EventEngine, TLAPS

-----------------------------------------------------------------------------
(* The inductive invariant                                                 *)

Rows == Event \cup {NoRow}

\* A worker that is not down holds the lock, so there is only one.
LockHeld == \A w \in Worker : pc[w] # "down" => lock = w

\* A worker has an event exactly while it works on one.
Busy == {"handling", "enforcing", "blocking", "closing"}
Holding ==
    \A w \in Worker :
        /\ pc[w] \in Busy => /\ at[w] \in Slot
                             /\ queue[at[w]].status = "processing"
                             /\ queue[at[w]].worker = w
        /\ pc[w] \notin Busy => at[w] = None

\* Work that may be claimed or recovered once more has an attempt left.
RetriesBelow ==
    \A t \in Task :
        /\ task[t] \in {"absent", "open", "awaiting", "in_progress"}
             => retries[t] < Limit
        /\ exec[t] \in {"running", "expired", "failed", "unknown"}
             => task[t] = "in_progress"

EngineInv == TypeOK /\ LockHeld /\ Holding /\ RetriesBelow

-----------------------------------------------------------------------------
(* Rows                                                                    *)

\* The rows that are inserted are rows, and pending.
LEMMA RowType ==
  ASSUME NEW k \in Kind, NEW t \in Task \cup {None}
  PROVE  /\ Row(k, t) \in Event /\ Row(k, t).status = "pending"
         /\ Row(k, t).kind = k /\ Row(k, t).task = t
         /\ Row(k, t).attempts = 0 /\ Row(k, t).handled = FALSE
BY DEF Row, Event, EventRow, Patience

\* Whatever is inserted is pending.
LEMMA RowPending ==
  ASSUME NEW k, NEW t
  PROVE  Row(k, t).status = "pending"
BY DEF Row

\* A row that goes back to the queue is pending and keeps its history.
LEMMA ReturnedType ==
  ASSUME NEW row \in Event
  PROVE  /\ Returned(row) \in Event
         /\ Deferred(row) \in Event
         /\ Deferred(row).kind = row.kind /\ Deferred(row).task = row.task
         /\ Deferred(row).status = "pending"
         /\ Deferred(row).attempts = row.attempts
         /\ Deferred(row).handled = row.handled
         /\ Returned(row).status = "pending"
         /\ Returned(row).kind = row.kind /\ Returned(row).task = row.task
         /\ Returned(row).attempts = row.attempts
         /\ Returned(row).handled = row.handled
<1>1. row \in EventRow
  BY DEF Event
<1>2. Returned(row) \in EventRow
  BY <1>1 DEF Returned, EventRow
<1>3. /\ Returned(row).status = "pending" /\ Returned(row).worker = None
      /\ Returned(row).kind = row.kind /\ Returned(row).task = row.task
      /\ Returned(row).attempts = row.attempts
      /\ Returned(row).handled = row.handled
  BY <1>1 DEF Returned, EventRow
<1>4. Deferred(row) \in EventRow
  BY <1>2 DEF Deferred, EventRow
<1>5. /\ Deferred(row).status = "pending"
      /\ Deferred(row).worker = None
      /\ Deferred(row).kind = row.kind /\ Deferred(row).task = row.task
      /\ Deferred(row).attempts = row.attempts
      /\ Deferred(row).handled = row.handled
  BY <1>2, <1>3 DEF Deferred, EventRow
<1>6. QED
  BY <1>2, <1>3, <1>4, <1>5 DEF Event

\* A handled row stays where it is.
LEMMA DoneType ==
  ASSUME NEW row \in Event
  PROVE  /\ Done(row) \in Event /\ Done(row).handled
         /\ Done(row).status = row.status /\ Done(row).worker = row.worker
         /\ Done(row).kind = row.kind /\ Done(row).task = row.task
         /\ Done(row).attempts = row.attempts
<1>1. row \in EventRow
  BY DEF Event
<1>2. Done(row) \in EventRow
  BY <1>1 DEF Done, EventRow
<1>3. /\ Done(row).handled
      /\ Done(row).status = row.status /\ Done(row).worker = row.worker
      /\ Done(row).kind = row.kind /\ Done(row).task = row.task
      /\ Done(row).attempts = row.attempts /\ Done(row).due = row.due
  BY <1>1 DEF Done, EventRow
<1>4. QED
  BY <1>2, <1>3 DEF Event

\* A due row that is claimed is processed by the worker that claims it.
LEMMA StartedType ==
  ASSUME NEW w \in Worker, NEW row \in Event, row.due
  PROVE  /\ Started(w, row) \in Event
         /\ Started(w, row).status = "processing"
         /\ Started(w, row).worker = w
         /\ Started(w, row).kind = row.kind /\ Started(w, row).task = row.task
         /\ Started(w, row).handled = row.handled
         /\ Started(w, row).attempts
              = IF row.attempts < Patience THEN row.attempts + 1
                ELSE row.attempts
<1>1. row \in EventRow
  BY DEF Event
<1>2. row.attempts \in 0 .. Patience /\ w # None
  BY <1>1, ConstantsAssumption DEF EventRow
<1>3. PICK n \in 0 .. Patience :
        /\ n > 0
        /\ n = IF row.attempts < Patience THEN row.attempts + 1
               ELSE row.attempts
  BY <1>2 DEF Patience
<1>4. Started(w, row) = [row EXCEPT !.status = "processing", !.worker = w,
                                   !.attempts = n]
  BY <1>1, <1>3 DEF Started, EventRow
<1>5. Started(w, row) \in EventRow
  BY <1>1, <1>4 DEF EventRow
<1>6. /\ Started(w, row).status = "processing" /\ Started(w, row).due
      /\ Started(w, row).worker = w
      /\ Started(w, row).kind = row.kind /\ Started(w, row).task = row.task
      /\ Started(w, row).handled = row.handled
      /\ Started(w, row).attempts = n
  BY <1>1, <1>4 DEF EventRow
<1>7. QED
  BY <1>2, <1>3, <1>5, <1>6 DEF Event

\* A row whose backoff ends.
LEMMA DueType ==
  ASSUME NEW row \in Event
  PROVE  /\ Ready(row) \in Event
         /\ Ready(row).status = row.status
         /\ Ready(row).kind = row.kind
         /\ Ready(row).task = row.task
         /\ Ready(row).attempts = row.attempts
         /\ Ready(row).handled = row.handled
<1>1. row \in EventRow
  BY DEF Event
<1>2. Ready(row) \in EventRow
  BY <1>1 DEF Ready, EventRow
<1>3. /\ Ready(row).status = row.status /\ Ready(row).worker = row.worker /\ Ready(row).due
      /\ Ready(row).kind = row.kind /\ Ready(row).task = row.task
      /\ Ready(row).attempts = row.attempts /\ Ready(row).handled = row.handled
  BY <1>1 DEF Ready, EventRow
<1>4. Ready(row) \in Event
  BY <1>2, <1>3 DEF Event
<1>5. QED
  BY <1>3, <1>4

\* A free slot is one with NoRow in it, and only events are live.
LEMMA LiveRows ==
  ASSUME TypeOK
  PROVE  /\ \A s \in Slot : s \in Live <=> queue[s] \in Event
         /\ \A s \in Slot : queue[s] \in Event \/ queue[s] = NoRow
         /\ \A s \in Slot : queue[s].status \in {"free", "pending", "processing"}
         /\ \A s \in Slot : queue[s].attempts \in 0 .. Patience
BY DEF TypeOK, Live, Event, EventRow, NoRow, Patience

LEMMA InitInv == Init => EngineInv
<1> SUFFICES ASSUME Init PROVE EngineInv
  OBVIOUS
<1>1. TypeOK
  <2>1. /\ queue \in [Slot -> Event \cup {NoRow}]
        /\ at \in [Worker -> Slot \cup {None}]
        /\ outcome \in [Worker -> {"none", "ack", "defer", "reject"}]
    BY DEF Init
  <2>2. /\ task \in [Task -> TaskState] /\ exec \in [Task -> ExecState]
        /\ retries \in [Task -> 0 .. Limit] /\ approved \subseteq Task
    BY ConstantsAssumption DEF Init, TaskState, ExecState
  <2>3. failures \in 0 .. MaxFailures /\ owes \subseteq Producer
    BY ConstantsAssumption DEF Init
  <2>4. QED
    BY <2>1, <2>2, <2>3 DEF Init, TypeOK
<1>2. LockHeld /\ Holding
  BY DEF Init, LockHeld, Holding, Busy
<1>3. RetriesBelow
  BY ConstantsAssumption DEF Init, RetriesBelow
<1>4. QED
  BY <1>1, <1>2, <1>3 DEF EngineInv

-----------------------------------------------------------------------------
(* Types                                                                   *)

\* What a worker does to the queue gives a queue again.
LEMMA WorkerQueueType ==
  ASSUME EngineInv, WorkerNext
  PROVE  queue' \in [Slot -> Rows]
<1> USE DEF Rows
<1>1. queue \in [Slot -> Rows] /\ NoRow \in Rows
  BY DEF EngineInv, TypeOK
<1>2. PICK w \in Worker :
        Lock(w) \/ Step(w) \/ Crash(w) \/ Raise(w) \/ \E s \in Slot : Claim(w, s)
  BY DEF WorkerNext
<1>3. pc[w] \in Busy => at[w] \in Slot /\ queue[at[w]] \in Event
  BY <1>1, NoRow.status = "free" DEF EngineInv, Holding, NoRow
<1>4. RecoveryWake => queue' \in [Slot -> Rows]
  <2>1. Row("recovery", None) \in Event
    BY RowType DEF Kind
  <2>2. QED
    BY <1>1, <2>1 DEF RecoveryWake, Free
<1>5. CASE Lock(w) \/ NothingDue(w) \/ Crash(w)
  BY <1>1, <1>5 DEF Lock, NothingDue, Crash, queueVars
<1>6. CASE RecoverProcessing(w)
  <2>1. \A s \in Interrupted(w) : Returned(queue[s]) \in Event
    BY <1>1, ReturnedType DEF Interrupted, NoRow
  <2>2. QED
    BY <1>1, <1>6, <2>1 DEF RecoverProcessing
<1>7. CASE \E s \in Slot : Claim(w, s)
  <2>1. PICK s \in Slot : Claim(w, s)
    BY <1>7
  <2>2. queue[s] \in Event /\ queue[s].due
    BY <1>1, <2>1 DEF Claim, First, DuePending, Pending, NoRow
  <2>3. Started(w, queue[s]) \in Event
    BY <2>2, StartedType
  <2>4. QED
    BY <1>1, <2>1, <2>3 DEF Claim
<1>8. CASE Idle(w)
  BY <1>4, <1>8 DEF Idle
<1>9. CASE \E T \in SUBSET Task : Dispatch(w, T)
  <2>1. PICK T \in SUBSET Task : Dispatch(w, T)
    BY <1>9
  <2>2. Row("card", None) \in Event /\ Row("judgement", None) \in Event
    BY RowType DEF Kind
  <2>3. queue[at[w]] \in Event /\ Done(queue[at[w]]) \in Event
    BY <1>3, <2>1, DoneType DEF Dispatch, Busy
  <2>4. QED
    BY <1>1, <2>1, <2>2, <2>3 DEF Dispatch
<1>10. CASE Enforce(w) \/ BlockUnclaimed(w) \/ Deliver(w)
  <2>1. queue[at[w]] \in Event /\ Done(queue[at[w]]) \in Event
    BY <1>3, <1>10, DoneType DEF Enforce, BlockUnclaimed, Deliver, Busy
  <2>2. \/ UNCHANGED queue
        \/ queue' = [queue EXCEPT ![at[w]] = Done(queue[at[w]])]
    BY <1>10 DEF Enforce, BlockUnclaimed, Deliver
  <2>3. QED
    BY <1>1, <2>1, <2>2
<1>11. CASE Judge(w)
  <2>1. queue[at[w]] \in Event /\ Done(queue[at[w]]) \in Event
    BY <1>3, <1>11, DoneType DEF Judge, Busy
  <2>2. /\ Row("card", None) \in Event
        /\ \A t \in Task : Row("created", t) \in Event
    BY RowType DEF Kind
  <2>3. QED
    BY <1>1, <1>11, <2>1, <2>2 DEF Judge
<1>12. CASE Retry(w) \/ RejectProtocol(w)
  BY <1>1, <1>12 DEF Retry, RejectProtocol
<1>13. CASE End(w)
  BY <1>1, <1>13 DEF End, Closed
<1>14. CASE Defer(w)
  <2>1. at[w] \in Slot /\ Deferred(queue[at[w]]) \in Event
    BY <1>3, <1>14, ReturnedType DEF Defer, Busy
  <2>2. QED
    BY <1>1, <1>14, <2>1 DEF Defer, Closed
<1>15. CASE Waiting(w)
  BY <1>1, <1>4, <1>15
     DEF Waiting, FirstCheck, Open, SecondCheck, Arm, WakeUp, Timeout, queueVars
<1>16. CASE Raise(w)
  <2>1. Returned(queue[at[w]]) \in Event
    BY <1>3, <1>16, ReturnedType DEF Raise, Busy
  <2>2. QED
    BY <1>1, <1>16, <2>1 DEF Raise
<1>17. QED
  BY <1>2, <1>5, <1>6, <1>7, <1>8, <1>9, <1>10, <1>11, <1>12, <1>13, <1>14,
     <1>15, <1>16 DEF Step, Handler

LEMMA QueueType ==
  ASSUME EngineInv, Next
  PROVE  queue' \in [Slot -> Rows]
<1>1. queue \in [Slot -> Rows]
  BY DEF EngineInv, TypeOK, Rows
<1>2. ASSUME NEW p \in Producer, NEW k \in Kind, NEW t \in Task \cup {None},
             Commits(p, k, t)
      PROVE  queue' \in [Slot -> Rows]
  BY <1>1, <1>2, RowType DEF Commits, Rows
<1>3. CASE WorkerNext
  BY <1>3, WorkerQueueType
<1>4. CASE ProducerNext
  <2>1. PICK p \in Producer :
           \/ Notify(p) \/ Forget(p) \/ \E k \in Submitted : Submit(p, k)
           \/ \E t \in Task : \/ CreateTask(p, t) \/ FailTask(p, t)
                              \/ CompleteTask(p, t) \/ CloseTask(p, t)
                              \/ DecideTask(p, t)
    BY <1>4 DEF ProducerNext
  <2>2. CASE Notify(p) \/ Forget(p)
    BY <1>1, <2>2 DEF Notify, Forget, queueVars
  <2>3. CASE ~(Notify(p) \/ Forget(p))
    <3>1. \E k \in Kind, t \in Task \cup {None} : Commits(p, k, t)
      BY <2>1, <2>3, ConstantsAssumption
         DEF Submit, CreateTask, FailTask, CompleteTask, CloseTask, DecideTask,
             Kind
    <3>2. QED
      BY <1>2, <3>1
  <2>4. QED
    BY <2>2, <2>3
<1>5. CASE EnvironmentNext
  <2>1. ASSUME NEW s \in Slot, EventDue(s)
        PROVE  queue' \in [Slot -> Rows]
    <3>1. queue[s] \in Event
      BY <1>1, <2>1 DEF EventDue, Pending, Rows, NoRow
    <3>2. Ready(queue[s]) \in Event
      BY <3>1, DueType
    <3>3. QED
      BY <1>1, <2>1, <3>2 DEF EventDue, Rows
  <2>2. QED
    BY <1>1, <1>5, <2>1 DEF EnvironmentNext, ClaimTask, LeaseExpires, queueVars
<1>6. QED
  BY <1>3, <1>4, <1>5 DEF Next

\* The variables of the worker and of its wake-up.
LEMMA WorkerTypes ==
  ASSUME EngineInv, Next
  PROVE  /\ lock' \in Worker \cup {None}
         /\ pc' \in [Worker -> {"down", "recovering", "claiming", "idle",
                               "handling", "enforcing", "blocking", "closing",
                               "checking", "opening", "opened", "arming",
                               "sleeping"}]
         /\ at' \in [Worker -> Slot \cup {None}]
         /\ outcome' \in [Worker -> {"none", "ack", "defer", "reject"}]
         /\ fifo' \in {"closed", "empty", "readable"}
         /\ armed' \in BOOLEAN
         /\ owes' \subseteq Producer
         /\ failures' \in 0 .. MaxFailures
<1> USE DEF EngineInv, TypeOK, queueVars, wakeVars, Goto, GoesOn, Handled
<1>1. ASSUME NEW w \in Worker, NEW o \in {"ack", "defer", "reject"},
             Handled(w, o)
      PROVE  /\ outcome' \in [Worker -> {"none", "ack", "defer", "reject"}]
             /\ pc' \in [Worker -> {"down", "recovering", "claiming", "idle",
                               "handling", "enforcing", "blocking", "closing",
                               "checking", "opening", "opened", "arming",
                               "sleeping"}]
  BY <1>1
<1>2. CASE WorkerNext
  <2>1. PICK w \in Worker : Lock(w) \/ Step(w) \/ Crash(w) \/ Raise(w)
                           \/ \E s \in Slot : Claim(w, s)
    BY <1>2 DEF WorkerNext
  <2>2. CASE \/ Lock(w) \/ RecoverProcessing(w) \/ NothingDue(w) \/ Idle(w)
             \/ FirstCheck(w) \/ Open(w) \/ SecondCheck(w) \/ Arm(w)
    BY <2>2 DEF Lock, RecoverProcessing, NothingDue, Idle, FirstCheck, Open,
                SecondCheck, Arm, Deadline
  <2>3. CASE \E s \in Slot : Claim(w, s)
    BY <2>3 DEF Claim
  <2>4. CASE WakeUp(w) \/ Timeout(w)
    BY <2>4 DEF WakeUp, Timeout, Awake
  <2>5. CASE \E T \in SUBSET Task : Dispatch(w, T)
    <3>1. PICK T \in SUBSET Task : Dispatch(w, T)
      BY <2>5
    <3>2. \/ Goto(w, "enforcing") /\ UNCHANGED outcome
          \/ Handled(w, "ack")
      BY <3>1 DEF Dispatch
    <3>3. UNCHANGED <<at, lock, wakeVars, owes, failures>>
      BY <3>1 DEF Dispatch
    <3>4. QED
      BY <1>1, <3>2, <3>3
  <2>6. CASE Enforce(w) \/ BlockUnclaimed(w) \/ Judge(w) \/ Deliver(w)
    <3>1. \/ Goto(w, "blocking") /\ UNCHANGED outcome
          \/ Handled(w, "ack") \/ Handled(w, "defer")
      BY <2>6 DEF Enforce, BlockUnclaimed, Judge, Deliver
    <3>2. UNCHANGED <<at, lock, wakeVars, owes, failures>>
      BY <2>6 DEF Enforce, BlockUnclaimed, Judge, Deliver
    <3>3. QED
      BY <1>1, <3>1, <3>2
  <2>7. CASE Retry(w) \/ RejectProtocol(w)
    <3>1. Handled(w, "defer") \/ Handled(w, "reject")
      BY <2>7 DEF Retry, RejectProtocol, RetryOutcome
    <3>2. failures' \in 0 .. MaxFailures
      BY <2>7, ConstantsAssumption DEF Retry, RejectProtocol
    <3>3. UNCHANGED <<at, lock, wakeVars, owes>>
      BY <2>7 DEF Retry, RejectProtocol
    <3>4. QED
      BY <1>1, <3>1, <3>2, <3>3
  <2>8. CASE End(w) \/ Defer(w)
    BY <2>8 DEF End, Defer
  <2>9. CASE Crash(w) \/ Raise(w)
    <3>1. Gone(w)
      BY <2>9 DEF Crash, Raise
    <3>2. failures' \in 0 .. MaxFailures
      BY <3>1, ConstantsAssumption DEF Gone
    <3>3. QED
      BY <3>1, <3>2 DEF Gone
  <2>10. QED
    BY <2>1, <2>2, <2>3, <2>4, <2>5, <2>6, <2>7, <2>8, <2>9
       DEF Step, Handler, Waiting
<1>3. CASE ProducerNext
  BY <1>3
     DEF ProducerNext, Notify, Forget, Submit, CreateTask, FailTask,
         CompleteTask, CloseTask, DecideTask, Commits
<1>4. CASE EnvironmentNext
  BY <1>4 DEF EnvironmentNext, ClaimTask, LeaseExpires, EventDue
<1>5. QED
  BY <1>2, <1>3, <1>4 DEF Next

-----------------------------------------------------------------------------
(* The ledger                                                              *)

\* Types of the ledger, and the attempts left to work that is not over.
LedgerOK ==
    /\ task \in [Task -> TaskState]
    /\ exec \in [Task -> ExecState]
    /\ retries \in [Task -> 0 .. Limit]
    /\ approved \subseteq Task
    /\ RetriesBelow

LEMMA LedgerStep ==
  ASSUME EngineInv, Next
  PROVE  LedgerOK'
<1> USE DEF LedgerOK, RetriesBelow, TaskState, ExecState, ledgerVars
<1>1. LedgerOK
  BY DEF EngineInv, TypeOK
<1>2. ASSUME UNCHANGED ledgerVars
      PROVE  LedgerOK'
  BY <1>1, <1>2
<1>3. CASE WorkerNext
  <2>1. PICK w \in Worker : Lock(w) \/ Step(w) \/ Crash(w) \/ Raise(w)
                           \/ \E s \in Slot : Claim(w, s)
    BY <1>3 DEF WorkerNext
  <2>2. CASE \E T \in SUBSET Task : Dispatch(w, T)
    <3>1. PICK T \in SUBSET Task : Dispatch(w, T)
      BY <2>2
    <3>2. UNCHANGED approved
      BY <3>1 DEF Dispatch
    <3>3. CASE Recovers(T)
      BY <1>1, <3>2, <3>3, ConstantsAssumption DEF Recovers, DueTasks
    <3>4. CASE Escalates(T)
      BY <1>1, <3>2, <3>4 DEF Escalates, DueTasks
    <3>5. QED
      BY <3>1, <3>3, <3>4 DEF Dispatch
  <2>3. CASE BlockUnclaimed(w)
    BY <1>1, <2>3 DEF BlockUnclaimed
  <2>4. CASE Judge(w)
    BY <1>1, <2>4 DEF Judge
  <2>5. CASE ~(Judge(w) \/ BlockUnclaimed(w) \/ \E T \in SUBSET Task : Dispatch(w, T))
    <3>1. UNCHANGED ledgerVars
      BY <2>1, <2>5
         DEF Lock, Step, Crash, Raise, Gone, Claim, RecoverProcessing,
             NothingDue, Idle, Handler, Enforce, Deliver, Retry,
             RejectProtocol, End, Defer, Waiting, FirstCheck, Open,
             SecondCheck, Arm, WakeUp, Timeout, Awake
    <3>2. QED
      BY <1>2, <3>1
  <2>6. QED
    BY <2>2, <2>3, <2>4, <2>5
<1>4. CASE ProducerNext
  <2>1. PICK p \in Producer :
           \/ Notify(p) \/ Forget(p) \/ \E k \in Submitted : Submit(p, k)
           \/ \E t \in Task : \/ CreateTask(p, t) \/ FailTask(p, t)
                              \/ CompleteTask(p, t) \/ CloseTask(p, t)
                              \/ DecideTask(p, t)
    BY <1>4 DEF ProducerNext
  <2>2. CASE Notify(p) \/ Forget(p) \/ \E k \in Submitted : Submit(p, k)
    BY <1>2, <2>2 DEF Notify, Forget, Submit
  <2>3. ASSUME NEW t \in Task, CreateTask(p, t)
        PROVE  LedgerOK'
    BY <1>1, <2>3 DEF CreateTask
  <2>4. ASSUME NEW t \in Task, FailTask(p, t)
        PROVE  LedgerOK'
    BY <1>1, <2>4 DEF FailTask
  <2>5. ASSUME NEW t \in Task, CompleteTask(p, t)
        PROVE  LedgerOK'
    BY <1>1, <2>5 DEF CompleteTask
  <2>6. ASSUME NEW t \in Task, CloseTask(p, t)
        PROVE  LedgerOK'
    BY <1>1, <2>6 DEF CloseTask
  <2>7. ASSUME NEW t \in Task, DecideTask(p, t)
        PROVE  LedgerOK'
    BY <1>1, <2>7 DEF DecideTask
  <2>8. QED
    BY <2>1, <2>2, <2>3, <2>4, <2>5, <2>6, <2>7
<1>5. CASE EnvironmentNext
  <2>1. ASSUME NEW t \in Task, ClaimTask(t)
        PROVE  LedgerOK'
    BY <1>1, <2>1 DEF ClaimTask
  <2>2. ASSUME NEW t \in Task, LeaseExpires(t)
        PROVE  LedgerOK'
    BY <1>1, <2>2 DEF LeaseExpires
  <2>3. ASSUME NEW s \in Slot, EventDue(s)
        PROVE  LedgerOK'
    BY <1>2, <2>3 DEF EventDue
  <2>4. QED
    BY <1>5, <2>1, <2>2, <2>3 DEF EnvironmentNext
<1>6. QED
  BY <1>3, <1>4, <1>5 DEF Next

-----------------------------------------------------------------------------
(* The lock, and the event in hand                                         *)

\* One worker at a time is up: the others wait for the lock.
LEMMA LockStep ==
  ASSUME EngineInv, Next
  PROVE  LockHeld'
<1> USE DEF EngineInv, TypeOK, LockHeld, queueVars, Goto, GoesOn, Handled
<1>1. CASE WorkerNext
  <2>1. PICK w \in Worker : Lock(w) \/ Step(w) \/ Crash(w) \/ Raise(w)
                           \/ \E s \in Slot : Claim(w, s)
    BY <1>1 DEF WorkerNext
  <2>2. CASE Lock(w)
    BY <2>2, ConstantsAssumption DEF Lock
  <2>3. CASE Crash(w) \/ Raise(w)
    BY <2>3 DEF Crash, Raise, Gone
  <2>4. CASE Idle(w) \/ End(w) \/ Defer(w)
    BY <2>4 DEF Idle, End, Defer
  <2>5. CASE ~(Lock(w) \/ Crash(w) \/ Raise(w) \/ Idle(w) \/ End(w) \/ Defer(w))
    <3>1. /\ pc[w] # "down" /\ UNCHANGED lock
          /\ \A v \in Worker \ {w} : pc'[v] = pc[v]
      BY <2>1, <2>5
         DEF Step, Claim, RecoverProcessing, NothingDue, Handler, Dispatch,
             Enforce, BlockUnclaimed, Judge, Deliver, Retry, RejectProtocol,
             Waiting, FirstCheck, Open, SecondCheck, Arm, WakeUp, Timeout, Awake
    <3>2. QED
      BY <3>1
  <2>6. QED
    BY <2>2, <2>3, <2>4, <2>5
<1>2. CASE ProducerNext
  BY <1>2
     DEF ProducerNext, Notify, Forget, Submit, CreateTask, FailTask,
         CompleteTask, CloseTask, DecideTask, Commits
<1>3. CASE EnvironmentNext
  BY <1>3 DEF EnvironmentNext, ClaimTask, LeaseExpires, EventDue
<1>4. QED
  BY <1>1, <1>2, <1>3 DEF Next

\* Nobody but the worker that holds the lock touches a processing row.
LEMMA OthersLeaveProcessing ==
  ASSUME EngineInv, ProducerNext \/ EnvironmentNext
  PROVE  /\ UNCHANGED <<pc, lock, at, outcome>>
         /\ \A s \in Slot : queue[s].status = "processing"
                              => queue'[s] = queue[s]
         /\ \A s \in Slot : queue'[s].status = "processing"
                              => queue'[s] = queue[s]
<1> USE DEF EngineInv, TypeOK, queueVars
<1>1. ASSUME NEW p \in Producer, NEW k \in Kind, NEW t \in Task \cup {None},
             Commits(p, k, t)
      PROVE  /\ UNCHANGED <<pc, lock, at, outcome>>
             /\ \A s \in Slot : queue[s].status = "processing"
                                  => queue'[s] = queue[s]
             /\ \A s \in Slot : queue'[s].status = "processing"
                                  => queue'[s] = queue[s]
  <2>1. PICK s \in Free : queue' = [queue EXCEPT ![s] = Row(k, t)]
    BY <1>1 DEF Commits
  <2>2. s \in Slot /\ queue[s].status = "free"
    BY <2>1 DEF Free, Live
  <2>3. UNCHANGED <<pc, lock, at, outcome>>
    BY <1>1 DEF Commits
  <2>4. queue'[s] = Row(k, t) /\ \A r \in Slot \ {s} : queue'[r] = queue[r]
    BY <2>1, <2>2
  <2>5. Row(k, t).status = "pending"
    BY RowPending
  <2>6. QED
    BY <2>2, <2>3, <2>4, <2>5
<1>2. CASE ProducerNext
  <2>1. CASE \E p \in Producer : Notify(p) \/ Forget(p)
    BY <2>1 DEF Notify, Forget
  <2>2. CASE ~(\E p \in Producer : Notify(p) \/ Forget(p))
    <3>1. \E p \in Producer, k \in Kind, t \in Task \cup {None} : Commits(p, k, t)
      BY <1>2, <2>2, ConstantsAssumption
         DEF ProducerNext, Submit, CreateTask, FailTask, CompleteTask,
             CloseTask, DecideTask, Kind
    <3>2. QED
      BY <1>1, <3>1
  <2>3. QED
    BY <2>1, <2>2
<1>3. CASE EnvironmentNext
  <2>1. ASSUME NEW s \in Slot, EventDue(s)
        PROVE  /\ UNCHANGED <<pc, lock, at, outcome>>
               /\ \A r \in Slot : r # s => queue'[r] = queue[r]
               /\ queue[s].status = "pending" /\ queue'[s].status = "pending"
    <3>1. queue[s] \in Event
      BY <2>1 DEF EventDue, Pending, NoRow
    <3>2. Ready(queue[s]).status = "pending"
      BY <2>1, <3>1, DueType DEF EventDue, Pending
    <3>3. QED
      BY <2>1, <3>2 DEF EventDue, Pending
  <2>2. QED
    BY <1>3, <2>1 DEF EnvironmentNext, ClaimTask, LeaseExpires
<1>4. QED
  BY <1>2, <1>3

\* A worker has an event exactly while it works on one.
LEMMA HoldingStep ==
  ASSUME EngineInv, Next
  PROVE  Holding'
<1> USE DEF EngineInv, TypeOK, Busy, queueVars, Goto, GoesOn, Handled
<1>1. CASE ProducerNext \/ EnvironmentNext
  BY <1>1, OthersLeaveProcessing DEF Holding
<1>2. CASE WorkerNext
  <2>1. PICK w \in Worker : Lock(w) \/ Step(w) \/ Crash(w) \/ Raise(w)
                           \/ \E s \in Slot : Claim(w, s)
    BY <1>2 DEF WorkerNext
  <2>2. \A v \in Worker \ {w} : pc[v] = "down"
    BY <2>1, ConstantsAssumption
       DEF LockHeld, Lock, Step, Crash, Raise, Claim, RecoverProcessing,
           NothingDue, Idle, Handler, Dispatch, Enforce, BlockUnclaimed, Judge,
           Deliver, Retry, RejectProtocol, End, Defer, Waiting, FirstCheck,
           Open, SecondCheck, Arm, WakeUp, Timeout
  <2>3. ASSUME /\ \A v \in Worker \ {w} : pc'[v] = pc[v] /\ at'[v] = at[v]
               /\ pc'[w] \in Busy => /\ at'[w] \in Slot
                                     /\ queue'[at'[w]].status = "processing"
                                     /\ queue'[at'[w]].worker = w
               /\ pc'[w] \notin Busy => at'[w] = None
        PROVE  Holding'
    BY <2>2, <2>3 DEF Holding
  <2>4. CASE \/ Lock(w) \/ RecoverProcessing(w) \/ NothingDue(w) \/ Idle(w)
             \/ Waiting(w)
    <3>1. /\ pc[w] \notin Busy /\ pc'[w] \notin Busy /\ UNCHANGED at
          /\ \A v \in Worker \ {w} : pc'[v] = pc[v]
      BY <2>4
         DEF Lock, RecoverProcessing, NothingDue, Idle, Waiting, FirstCheck,
             Open, SecondCheck, Arm, WakeUp, Timeout, Awake
    <3>2. QED
      BY <2>3, <3>1 DEF Holding
  <2>5. CASE \E s \in Slot : Claim(w, s)
    <3>1. PICK s \in Slot : Claim(w, s)
      BY <2>5
    <3>2. queue[s] \in Event /\ queue[s].due
      BY <3>1 DEF Claim, First, DuePending, Pending, NoRow
    <3>3. queue'[s] = Started(w, queue[s])
      BY <3>1 DEF Claim
    <3>4. /\ queue'[s].status = "processing" /\ queue'[s].worker = w
          /\ at'[w] = s /\ pc'[w] = "handling"
      BY <3>1, <3>2, <3>3, StartedType DEF Claim
    <3>5. QED
      BY <2>3, <3>1, <3>4 DEF Claim
  <2>6. CASE Handler(w)
    <3>1. /\ pc[w] \in Busy /\ pc'[w] \in Busy /\ UNCHANGED at
          /\ \A v \in Worker \ {w} : pc'[v] = pc[v]
      BY <2>6 DEF Handler, Dispatch, Enforce, BlockUnclaimed, Judge, Deliver,
                  Retry, RejectProtocol
    <3>2. /\ at[w] \in Slot /\ queue[at[w]].status = "processing"
          /\ queue[at[w]].worker = w
      BY <3>1 DEF Holding
    <3>3. /\ queue[at[w]] \in Event /\ at[w] \notin Free
          /\ Done(queue[at[w]]).status = "processing"
          /\ Done(queue[at[w]]).worker = w
      BY <3>2, DoneType DEF NoRow, Free, Live
    <3>4. \/ queue'[at[w]] = queue[at[w]]
          \/ queue'[at[w]] = Done(queue[at[w]])
      <4>1. ASSUME NEW T \in SUBSET Task, Dispatch(w, T)
            PROVE  \/ queue'[at[w]] = queue[at[w]]
                   \/ queue'[at[w]] = Done(queue[at[w]])
        BY <3>2, <3>3, <4>1 DEF Dispatch, Places
      <4>2. QED
        BY <2>6, <3>2, <3>3, <4>1
           DEF Handler, Enforce, BlockUnclaimed, Judge, Deliver, Retry,
               RejectProtocol
    <3>5. QED
      BY <2>3, <3>1, <3>2, <3>3, <3>4
  <2>7. CASE End(w) \/ Defer(w)
    <3>1. /\ pc'[w] \notin Busy /\ at'[w] = None
          /\ \A v \in Worker \ {w} : pc'[v] = pc[v] /\ at'[v] = at[v]
      BY <2>7 DEF End, Defer
    <3>2. QED
      BY <2>3, <3>1
  <2>8. CASE Crash(w) \/ Raise(w)
    <3>1. /\ pc'[w] \notin Busy /\ at'[w] = None
          /\ \A v \in Worker \ {w} : pc'[v] = pc[v] /\ at'[v] = at[v]
      BY <2>8 DEF Crash, Raise, Gone
    <3>2. QED
      BY <2>3, <3>1
  <2>9. QED
    BY <2>1, <2>4, <2>5, <2>6, <2>7, <2>8 DEF Step
<1>3. QED
  BY <1>1, <1>2 DEF Next

-----------------------------------------------------------------------------
LEMMA EngineStep ==
  ASSUME EngineInv, [Next]_vars
  PROVE  EngineInv'
<1>1. CASE Next
  <2>1. TypeOK'
    BY <1>1, QueueType, WorkerTypes, LedgerStep DEF TypeOK, LedgerOK, Rows
  <2>2. RetriesBelow'
    BY <1>1, LedgerStep DEF LedgerOK
  <2>3. QED
    BY <1>1, <2>1, <2>2, LockStep, HoldingStep DEF EngineInv
<1>2. CASE UNCHANGED vars
  BY <1>2
     DEF vars, queueVars, wakeVars, ledgerVars, EngineInv, TypeOK, LockHeld,
         Holding, RetriesBelow
<1>3. QED
  BY <1>1, <1>2

THEOREM EngineInvariant == Spec => []EngineInv
<1>1. QED
  BY InitInv, EngineStep, PTL DEF Spec

\* Every variable keeps its type: attempts are never lost or spent twice, a
\* claimed row always names a worker, and no task is retried beyond its limit.
THEOREM EngineTypeCorrect == Spec => []TypeOK
<1>1. EngineInv => TypeOK
  BY DEF EngineInv
<1>2. QED
  BY <1>1, EngineInvariant, PTL

-----------------------------------------------------------------------------
(* Who may be in the middle of something                                   *)

\* A worker that takes a step is the only one that is up.
LEMMA OnlyOneUp ==
  ASSUME EngineInv, NEW w \in Worker,
         Lock(w) \/ pc[w] # "down"
  PROVE  \A v \in Worker \ {w} : pc[v] = "down"
BY ConstantsAssumption DEF EngineInv, LockHeld, Lock

\* The worker that steps, and what the others do meanwhile: nothing.
LEMMA StepsAlone ==
  ASSUME EngineInv, NEW w \in Worker,
         Lock(w) \/ Step(w) \/ Crash(w) \/ Raise(w) \/ \E s \in Slot : Claim(w, s)
  PROVE  \A v \in Worker \ {w} : pc[v] = "down" /\ pc'[v] = "down"
<1>1. Lock(w) \/ pc[w] # "down"
  BY DEF Step, Crash, Raise, Claim, RecoverProcessing, NothingDue, Idle,
         Handler, Dispatch, Enforce, BlockUnclaimed, Judge, Deliver, Retry,
         RejectProtocol, End, Defer, Waiting, FirstCheck, Open, SecondCheck,
         Arm, WakeUp, Timeout
<1>2. \A v \in Worker \ {w} : pc'[v] = pc[v]
  BY DEF EngineInv, TypeOK, Lock, Step, Crash, Raise, Gone, Claim,
         RecoverProcessing, NothingDue, Idle, Handler, Dispatch, Enforce,
         BlockUnclaimed, Judge, Deliver, Retry, RejectProtocol, End, Defer,
         Waiting, FirstCheck, Open, SecondCheck, Arm, WakeUp, Timeout, Awake,
         Goto, GoesOn, Handled
<1>3. QED
  BY <1>1, <1>2, OnlyOneUp

\* What a handler does to the queue: it may mark its event as handled, and it
\* may fill free slots with new rows.
New(row) == row.status = "pending" /\ row.attempts = 0 /\ row.handled = FALSE
HandlerRows(w) ==
    /\ at[w] \in Slot /\ queue[at[w]] \in Event
    /\ queue'[at[w]] = queue[at[w]] \/ queue'[at[w]] = Done(queue[at[w]])
    /\ \A r \in Slot \ {at[w]} :
          \/ queue'[r] = queue[r]
          \/ queue[r] = NoRow /\ New(queue'[r])

LEMMA HandlerFillsFreeSlots ==
  ASSUME EngineInv, NEW w \in Worker, Handler(w)
  PROVE  /\ HandlerRows(w) /\ UNCHANGED <<lock, at>>
         /\ pc[w] \in Busy \ {"closing"} /\ pc'[w] \in Busy \ {"handling"}
<1>0. TypeOK /\ Holding /\ queue \in [Slot -> Event \cup {NoRow}]
  BY DEF EngineInv, TypeOK
<1>1. /\ pc[w] \in Busy \ {"closing"} /\ pc'[w] \in Busy \ {"handling"}
      /\ UNCHANGED <<lock, at>>
  BY <1>0 DEF TypeOK, Handler, Dispatch, Enforce, BlockUnclaimed, Judge,
              Deliver, Retry, RejectProtocol, Goto, Handled, Busy
<1>2. /\ at[w] \in Slot /\ queue[at[w]].status = "processing"
      /\ queue[at[w]] \in Event
  BY <1>0, <1>1 DEF Holding, NoRow
<1>3. \A r \in Free : r \in Slot /\ r # at[w] /\ queue[r] = NoRow
  BY <1>0, <1>2, LiveRows DEF Free
<1>4. \A k \in Kind, t \in Task \cup {None} : New(Row(k, t))
  BY RowType DEF New
<1>5. ASSUME NEW T \in SUBSET Task, Dispatch(w, T)
      PROVE  HandlerRows(w)
  <2>1. PICK k \in Kind, place \in [T -> Free] :
          queue' = [r \in Slot |->
                      IF \E t \in T : place[t] = r THEN Row(k, None)
                      ELSE IF r = at[w] /\ queue[at[w]].kind # "created"
                           THEN Done(queue[r])
                      ELSE queue[r]]
    BY <1>5 DEF Dispatch, Places, Kind
  <2>2. \A t \in T : place[t] \in Free
    BY <2>1
  <2>3. QED
    BY <1>0, <1>2, <1>3, <1>4, <2>1, <2>2 DEF HandlerRows
<1>6. ASSUME Judge(w)
      PROVE  HandlerRows(w)
  <2> DEFINE judged == [queue EXCEPT ![at[w]] = Done(queue[at[w]])]
  <2>1. /\ judged[at[w]] = Done(queue[at[w]])
        /\ \A r \in Slot \ {at[w]} : judged[r] = queue[r]
        /\ \A r \in Slot : r \in DOMAIN judged
    BY <1>0, <1>2
  <2>2. \/ queue' = judged
        \/ \E r \in Free, k \in Kind, t \in Task \cup {None} :
              queue' = [judged EXCEPT ![r] = Row(k, t)]
    BY <1>6 DEF Judge, Kind
  <2> HIDE DEF judged
  <2>3. CASE queue' = judged
    BY <1>0, <1>2, <2>1, <2>3 DEF HandlerRows
  <2>4. ASSUME NEW r \in Free, NEW k \in Kind, NEW t \in Task \cup {None},
               queue' = [judged EXCEPT ![r] = Row(k, t)]
        PROVE  HandlerRows(w)
    <3>1. /\ queue'[r] = Row(k, t)
          /\ \A q \in Slot \ {r} : queue'[q] = judged[q]
      BY <1>3, <2>1, <2>4
    <3>2. QED
      BY <1>0, <1>2, <1>3, <1>4, <2>1, <3>1 DEF HandlerRows
  <2>5. QED
    BY <2>2, <2>3, <2>4
<1>7. ASSUME ~Judge(w), ~\E T \in SUBSET Task : Dispatch(w, T)
      PROVE  HandlerRows(w)
  <2>1. \/ UNCHANGED queue
        \/ queue' = [queue EXCEPT ![at[w]] = Done(@)]
    BY <1>7 DEF Handler, Enforce, BlockUnclaimed, Deliver, Retry, RejectProtocol
  <2>2. QED
    BY <1>0, <1>2, <2>1 DEF HandlerRows
<1>8. QED
  BY <1>1, <1>5, <1>6, <1>7

-----------------------------------------------------------------------------
(* No processing row is left behind                                        *)

LEMMA NoneStrandedStep ==
  ASSUME EngineInv, NoneStranded, Next
  PROVE  NoneStranded'
<1>1. TypeOK /\ Holding /\ LockHeld /\ queue \in [Slot -> Event \cup {NoRow}]
  BY DEF EngineInv, TypeOK
<1>2. CASE ProducerNext \/ EnvironmentNext
  BY <1>2, OthersLeaveProcessing DEF NoneStranded
<1>3. CASE WorkerNext
  <2>1. PICK w \in Worker : Lock(w) \/ Step(w) \/ Crash(w) \/ Raise(w)
                           \/ \E s \in Slot : Claim(w, s)
    BY <1>3 DEF WorkerNext
  <2>2. pc[w] # "down" => lock = w
    BY <1>1 DEF LockHeld
  <2>3. CASE Lock(w)
    BY <1>1, <2>3 DEF NoneStranded, Lock, Goto, TypeOK
  <2>4. CASE RecoverProcessing(w)
    <3>1. ASSUME NEW s \in Slot
          PROVE  queue'[s].status # "processing"
      <4>1. CASE queue[s].status = "processing"
        <5>1. queue'[s] = Returned(queue[s]) /\ queue[s] \in Event
          BY <1>1, <2>4, <4>1 DEF RecoverProcessing, Interrupted, NoRow
        <5>2. QED
          BY <5>1, ReturnedType
      <4>2. CASE queue[s].status # "processing"
        BY <2>4, <4>2 DEF RecoverProcessing, Interrupted
      <4>3. QED
        BY <4>1, <4>2
    <3>2. QED
      BY <3>1 DEF NoneStranded
  <2>5. CASE \E s \in Slot : Claim(w, s)
    <3>1. PICK s \in Slot : Claim(w, s)
      BY <2>5
    <3>2. /\ queue[s] \in Event /\ queue[s].due
          /\ queue'[s] = Started(w, queue[s])
          /\ \A r \in Slot \ {s} : queue'[r] = queue[r]
      BY <1>1, <3>1 DEF Claim, First, DuePending, Pending, NoRow
    <3>3. lock = w /\ lock' = w /\ at[w] = None /\ at'[w] = s
      BY <1>1, <2>2, <3>1 DEF Claim, Holding, Busy, TypeOK
    <3>4. \A r \in Slot : queue[r].status # "processing"
      BY <1>1, <3>1, <3>3, ConstantsAssumption DEF NoneStranded, Claim
    <3>5. queue'[s].worker = w
      BY <3>2, StartedType
    <3>6. QED
      BY <3>2, <3>3, <3>4, <3>5 DEF NoneStranded
  <2>6. CASE Handler(w)
    <3>1. /\ HandlerRows(w) /\ UNCHANGED <<lock, at>>
          /\ pc[w] \in Busy
      BY <2>6, HandlerFillsFreeSlots DEF EngineInv
    <3>2. lock = w /\ pc[w] # "recovering"
      BY <2>2, <3>1 DEF Busy
    <3>3. /\ at[w] \in Slot /\ queue[at[w]] \in Event
          /\ queue[at[w]].status = "processing" /\ queue[at[w]].worker = w
      BY <1>1, <3>1 DEF HandlerRows, Holding
    <3>4. Done(queue[at[w]]).worker = w
      BY <3>3, DoneType
    <3>5. queue'[at[w]].worker = w
      BY <3>1, <3>3, <3>4 DEF HandlerRows
    <3>6. \A r \in Slot \ {at[w]} : queue'[r].status # "processing"
      BY <3>1, <3>2, ConstantsAssumption DEF HandlerRows, New, NoneStranded
    <3>7. QED
      BY <3>1, <3>2, <3>5, <3>6 DEF NoneStranded
  <2>7. CASE End(w) \/ Defer(w)
    <3>1. /\ pc[w] = "closing" /\ lock = w
          /\ at[w] \in Slot /\ queue[at[w]] \in Event
          /\ queue[at[w]].status = "processing" /\ queue[at[w]].worker = w
      BY <1>1, <2>2, <2>7 DEF End, Defer, Holding, Busy, NoRow
    <3>2. Deferred(queue[at[w]]).status = "pending" /\ NoRow.status = "free"
      BY <3>1, ReturnedType DEF NoRow
    <3>3. queue'[at[w]] = NoRow \/ queue'[at[w]] = Deferred(queue[at[w]])
      BY <1>1, <2>7, <3>1 DEF End, Defer, Closed
    <3>4. \A r \in Slot \ {at[w]} : /\ queue'[r] = queue[r]
                                   /\ queue[r].status # "processing"
      BY <1>1, <2>7, <3>1, ConstantsAssumption
         DEF End, Defer, Closed, NoneStranded
    <3>5. QED
      BY <3>2, <3>3, <3>4 DEF NoneStranded
  <2>8. CASE Crash(w) \/ Raise(w)
    BY <2>8 DEF Crash, Raise, Gone, NoneStranded
  <2>9. CASE NothingDue(w) \/ Idle(w) \/ Waiting(w)
    <3>1. /\ lock = w /\ at[w] = None /\ pc[w] # "recovering"
      BY <1>1, <2>2, <2>9
         DEF NothingDue, Idle, Waiting, FirstCheck, Open, SecondCheck, Arm,
             WakeUp, Timeout, Holding, Busy
    <3>2. \A r \in Slot : queue[r].status # "processing"
      BY <3>1, ConstantsAssumption DEF NoneStranded
    <3>3. UNCHANGED queue \/ RecoveryWake
      BY <2>9 DEF NothingDue, Idle, Waiting, FirstCheck, Open, SecondCheck,
                  Arm, WakeUp, Timeout, queueVars
    <3>4. \A r \in Slot : queue'[r].status # "processing"
      <4>1. Row("recovery", None).status = "pending"
        BY RowType DEF Kind
      <4>2. QED
        BY <1>1, <3>2, <3>3, <4>1 DEF RecoveryWake, Free
    <3>5. QED
      BY <3>4 DEF NoneStranded
  <2>10. QED
    BY <2>1, <2>3, <2>4, <2>5, <2>6, <2>7, <2>8, <2>9 DEF Step
<1>4. QED
  BY <1>2, <1>3 DEF Next

\* Past its recovery step the holder of the lock handles every event that is
\* marked as processing: no crash, exception or restart strands one.
THEOREM NothingStranded == Spec => []NoneStranded
<1>1. Init => NoneStranded
  BY DEF Init, NoneStranded
<1>2. EngineInv /\ NoneStranded /\ [Next]_vars => NoneStranded'
  <2>1. EngineInv /\ NoneStranded /\ UNCHANGED vars => NoneStranded'
    BY DEF vars, queueVars, wakeVars, ledgerVars, NoneStranded
  <2>2. QED
    BY <2>1, NoneStrandedStep
<1>3. QED
  BY <1>1, <1>2, EngineInvariant, PTL DEF Spec

-----------------------------------------------------------------------------
(* Refinement                                                              *)

\* What the end that a worker chose for its event says about the event.
EndsRightly ==
    \A w \in Worker : pc[w] = "closing" =>
        /\ outcome[w] = "ack" => queue[at[w]].handled
        /\ outcome[w] = "reject" => queue[at[w]].attempts = Patience
        /\ outcome[w] # "none"

LEMMA EndsRightlyStep ==
  ASSUME EngineInv, EndsRightly, Next
  PROVE  EndsRightly'
<1>1. /\ TypeOK /\ Holding /\ queue \in [Slot -> Event \cup {NoRow}]
      /\ outcome \in [Worker -> {"none", "ack", "defer", "reject"}]
      /\ pc' \in [Worker -> {"down", "recovering", "claiming", "idle",
                            "handling", "enforcing", "blocking", "closing",
                            "checking", "opening", "opened", "arming",
                            "sleeping"}]
  BY WorkerTypes DEF EngineInv, TypeOK
<1>2. CASE ProducerNext \/ EnvironmentNext
  BY <1>1, <1>2, OthersLeaveProcessing DEF EndsRightly, Holding, Busy
<1>3. CASE WorkerNext
  <2>1. PICK w \in Worker : Lock(w) \/ Step(w) \/ Crash(w) \/ Raise(w)
                           \/ \E s \in Slot : Claim(w, s)
    BY <1>3 DEF WorkerNext
  <2>2. /\ \A v \in Worker \ {w} : pc[v] = "down"
        /\ \A v \in Worker \ {w} : pc'[v] = "down"
    BY <2>1, StepsAlone
  <2>3. CASE ~Handler(w)
    <3>1. pc'[w] # "closing"
      BY <1>1, <2>1, <2>3
         DEF TypeOK, Lock, Step, Crash, Raise, Gone, Claim, RecoverProcessing,
             NothingDue, Idle, End, Defer, Waiting, FirstCheck, Open,
             SecondCheck, Arm, WakeUp, Timeout, Awake, Goto, GoesOn
    <3>2. QED
      BY <2>2, <3>1 DEF EndsRightly
  <2>4. CASE Handler(w)
    <3>1. /\ at[w] \in Slot /\ queue[at[w]] \in Event
          /\ queue[at[w]].attempts \in 0 .. Patience /\ UNCHANGED at
      BY <1>1, <2>4, HandlerFillsFreeSlots, LiveRows DEF HandlerRows
    <3>2. Done(queue[at[w]]).handled
      BY <3>1, DoneType
    <3>3. CASE RejectProtocol(w)
      BY <1>1, <2>2, <3>1, <3>3
         DEF RejectProtocol, Handled, EndsRightly, Patience
    <3>4. CASE Retry(w)
      BY <1>1, <2>2, <3>4 DEF Retry, RetryOutcome, Handled, EndsRightly
    <3>5. CASE Enforce(w) \/ BlockUnclaimed(w) \/ Judge(w) \/ Deliver(w)
               \/ \E T \in SUBSET Task : Dispatch(w, T)
      <4>1. \/ pc'[w] # "closing"
            \/ outcome'[w] = "defer"
            \/ outcome'[w] = "ack" /\ queue'[at[w]] = Done(queue[at[w]])
        <5>1. ASSUME NEW T \in SUBSET Task, Dispatch(w, T)
              PROVE  \/ pc'[w] # "closing"
                     \/ outcome'[w] = "ack" /\ queue'[at[w]] = Done(queue[at[w]])
          <6>1. at[w] \notin Free
            BY <3>1, <1>1, LiveRows DEF Free
          <6>2. QED
            BY <1>1, <3>1, <5>1, <6>1 DEF Dispatch, Places, Handled, Goto, TypeOK
        <5>2. ASSUME Judge(w)
              PROVE  outcome'[w] = "ack" /\ queue'[at[w]] = Done(queue[at[w]])
          <6>1. at[w] \notin Free
            BY <3>1, <1>1, LiveRows DEF Free
          <6>2. QED
            BY <1>1, <3>1, <5>2, <6>1 DEF Judge, Handled, TypeOK
        <5>3. ASSUME Enforce(w) \/ BlockUnclaimed(w) \/ Deliver(w)
              PROVE  \/ pc'[w] # "closing"
                     \/ outcome'[w] = "defer"
                     \/ outcome'[w] = "ack" /\ queue'[at[w]] = Done(queue[at[w]])
          BY <1>1, <3>1, <5>3
             DEF Enforce, BlockUnclaimed, Deliver, Handled, Goto, TypeOK
        <5>4. QED
          BY <3>5, <5>1, <5>2, <5>3
      <4>2. QED
        BY <2>2, <3>1, <3>2, <4>1 DEF EndsRightly
    <3>6. QED
      BY <2>4, <3>3, <3>4, <3>5 DEF Handler
  <2>5. QED
    BY <2>3, <2>4
<1>4. QED
  BY <1>2, <1>3 DEF Next

\* The state of the abstract queue.
todo == Live
done == {s \in Live : queue[s].handled}
tries == [s \in Slot |-> queue[s].attempts]

\* A slot in which nothing changes that the abstract queue could see.
Unseen(s) ==
    /\ (queue'[s].status = "free") = (queue[s].status = "free")
    /\ queue'[s].handled = queue[s].handled
    /\ queue'[s].attempts = queue[s].attempts

LEMMA Stutter ==
  ASSUME \A s \in Slot : Unseen(s)
  PROVE  UNCHANGED Queue!vars
<1>1. todo' = todo
  BY DEF todo, Live, Unseen
<1>2. done' = done
  BY DEF done, Live, Unseen
<1>3. tries' = tries
  BY DEF tries, Unseen
<1>4. QED
  BY <1>1, <1>2, <1>3 DEF Queue!vars, todo, done, tries

\* New rows in free slots are accepted.
LEMMA Accepts ==
  ASSUME TypeOK, NEW S \in SUBSET Slot, S # {},
         \A s \in S : queue[s] = NoRow /\ New(queue'[s]),
         \A s \in Slot \ S : Unseen(s)
  PROVE  Queue!Next
<1>1. todo' = todo \cup S /\ S \cap todo = {}
  BY DEF todo, Live, Unseen, New, NoRow
<1>2. done' = done
  BY DEF done, Live, Unseen, New, NoRow
<1>3. tries' = tries
  BY DEF tries, Unseen, New, NoRow
<1>4. Queue!Accept(S)
  BY <1>1, <1>2, <1>3 DEF Queue!Accept, todo, done, tries
<1>5. QED
  BY <1>4 DEF Queue!Next

\* A handler that ends may bring new events.
LEMMA Handles ==
  ASSUME TypeOK, NEW s \in Slot, NEW S \in SUBSET (Slot \ {s}),
         queue[s] \in Event, queue'[s] = Done(queue[s]),
         \A r \in S : queue[r] = NoRow /\ New(queue'[r]),
         \A r \in Slot \ (S \cup {s}) : Unseen(r)
  PROVE  Queue!Next
<1>1. /\ queue[s].status # "free" /\ queue'[s].status # "free"
      /\ queue'[s].handled /\ queue'[s].attempts = queue[s].attempts
  <2>1. queue[s].status # "free"
    BY DEF Event, EventRow
  <2>2. QED
    BY <2>1, DoneType
<1>2. s \in todo /\ todo' = todo \cup S /\ S \cap todo = {}
  BY <1>1 DEF todo, Live, Unseen, New, NoRow
<1>3. done' = done \cup {s}
  BY <1>1 DEF done, Live, Unseen, New, NoRow
<1>4. tries' = tries
  BY <1>1 DEF tries, Unseen, New, NoRow
<1>5. Queue!Handle(s, S)
  BY <1>2, <1>3, <1>4 DEF Queue!Handle, todo, done, tries
<1>6. QED
  BY <1>5 DEF Queue!Next

\* An event leaves when it was handled, or after the last attempt.
LEMMA Leaves ==
  ASSUME TypeOK, NEW s \in Slot, queue[s] \in Event, queue'[s] = NoRow,
         queue[s].handled \/ queue[s].attempts = Patience,
         \A r \in Slot \ {s} : Unseen(r)
  PROVE  Queue!Next
<1>1. s \in todo /\ todo' = todo \ {s}
  BY DEF todo, Live, Unseen, NoRow, Event, EventRow
<1>2. done' = done \ {s}
  BY DEF done, Live, Unseen, NoRow
<1>3. tries' = [tries EXCEPT ![s] = 0]
  <2>1. queue'[s].attempts = 0
    BY DEF NoRow
  <2>2. \A r \in Slot \ {s} : queue'[r].attempts = queue[r].attempts
    BY DEF Unseen
  <2>3. QED
    BY <2>1, <2>2 DEF tries
<1>4. Queue!Leave(s)
  BY <1>1, <1>2, <1>3 DEF Queue!Leave, todo, done, tries
<1>5. CASE queue[s].handled
  <2>1. s \in done
    BY <1>1, <1>5 DEF done, todo
  <2>2. Queue!Finish(s)
    BY <1>4, <2>1 DEF Queue!Finish, done
  <2>3. QED
    BY <2>2 DEF Queue!Next
<1>6. CASE queue[s].attempts = Patience
  <2>1. tries[s] >= Patience
    BY <1>6 DEF tries, Patience
  <2>2. Queue!Reject(s)
    BY <1>1, <1>4, <2>1 DEF Queue!Reject, todo, tries
  <2>3. QED
    BY <2>2 DEF Queue!Next
<1>7. QED
  BY <1>5, <1>6

LEMMA Starts ==
  ASSUME TypeOK, NEW w \in Worker, NEW s \in Slot,
         queue[s] \in Event, queue[s].due,
         queue' = [queue EXCEPT ![s] = Started(w, queue[s])]
  PROVE  Queue!Next
<1>1. queue'[s] = Started(w, queue[s])
      /\ \A r \in Slot \ {s} : queue'[r] = queue[r]
  BY DEF TypeOK
<1>2. /\ queue[s].status # "free" /\ queue'[s].status # "free"
      /\ queue'[s].handled = queue[s].handled
      /\ queue'[s].attempts = IF queue[s].attempts < Patience
                              THEN queue[s].attempts + 1 ELSE queue[s].attempts
  <2>1. queue[s].status # "free"
    BY DEF Event, EventRow
  <2>2. QED
    BY <1>1, <2>1, StartedType
<1>3. s \in todo /\ todo' = todo /\ done' = done
  BY <1>1, <1>2 DEF todo, done, Live
<1>4. tries' = [tries EXCEPT ![s] = IF @ < Patience THEN @ + 1 ELSE @]
  <2>1. \A r \in Slot \ {s} : queue'[r].attempts = queue[r].attempts
    BY <1>1
  <2>2. tries[s] = queue[s].attempts
    BY DEF tries
  <2>3. queue'[s].attempts = IF tries[s] < Patience THEN tries[s] + 1 ELSE tries[s]
    BY <1>2, <2>2
  <2>4. QED
    BY <2>1, <2>3 DEF tries
<1>5. Queue!Start(s)
  BY <1>3, <1>4 DEF Queue!Start, todo, done, tries
<1>6. QED
  BY <1>5 DEF Queue!Next

LEMMA SameIsUnseen == \A s \in Slot : queue'[s] = queue[s] => Unseen(s)
BY DEF Unseen

\* One row goes into a free slot.
LEMMA InsertAccepts ==
  ASSUME TypeOK, NEW s \in Free, NEW k \in Kind, NEW t \in Task \cup {None},
         queue' = [queue EXCEPT ![s] = Row(k, t)]
  PROVE  Queue!Next
<1>1. s \in Slot /\ queue[s] = NoRow
  BY LiveRows DEF Free
<1>2. queue'[s] = Row(k, t) /\ \A r \in Slot \ {s} : queue'[r] = queue[r]
  BY <1>1 DEF TypeOK
<1>3. New(queue'[s])
  <2>1. New(Row(k, t))
    BY RowType DEF New
  <2>2. QED
    BY <1>2, <2>1
<1>4. \A r \in Slot \ {s} : Unseen(r)
  BY <1>2, SameIsUnseen
<1>5. /\ {s} \in SUBSET Slot /\ {s} # {}
      /\ \A r \in {s} : queue[r] = NoRow /\ New(queue'[r])
  BY <1>1, <1>3
<1>6. QED
  BY <1>4, <1>5, Accepts

\* A row that goes back to the queue, or whose backoff ends, is as it was.
LEMMA BackIsUnseen ==
  ASSUME NEW s \in Slot, queue[s] \in Event,
         \/ queue'[s] = Returned(queue[s])
         \/ queue'[s] = Deferred(queue[s])
         \/ queue'[s] = Ready(queue[s])
  PROVE  Unseen(s)
<1>1. queue[s].status # "free"
  BY DEF Event, EventRow
<1>2. CASE queue'[s] = Returned(queue[s])
  BY <1>1, <1>2, ReturnedType DEF Unseen
<1>3. CASE queue'[s] = Deferred(queue[s])
  BY <1>1, <1>3, ReturnedType DEF Unseen
<1>4. CASE queue'[s] = Ready(queue[s])
  BY <1>1, <1>4, DueType DEF Unseen
<1>5. QED
  BY <1>2, <1>3, <1>4

LEMMA HandlerRefines ==
  ASSUME EngineInv, NEW w \in Worker, Handler(w)
  PROVE  Queue!Next \/ UNCHANGED Queue!vars
<1> DEFINE S == {r \in Slot \ {at[w]} : queue'[r] # queue[r]}
<1>1. TypeOK /\ HandlerRows(w)
  BY HandlerFillsFreeSlots DEF EngineInv
<1>2. /\ S \in SUBSET (Slot \ {at[w]})
      /\ \A r \in S : queue[r] = NoRow /\ New(queue'[r])
      /\ \A r \in Slot \ (S \cup {at[w]}) : Unseen(r)
  BY <1>1, SameIsUnseen DEF HandlerRows
<1> HIDE DEF S
<1>3. at[w] \in Slot /\ queue[at[w]] \in Event
  BY <1>1 DEF HandlerRows
<1>4. CASE queue'[at[w]] = Done(queue[at[w]])
  BY <1>1, <1>2, <1>3, <1>4, Handles
<1>5. CASE queue'[at[w]] = queue[at[w]]
  <2>1. Unseen(at[w])
    BY <1>3, <1>5, SameIsUnseen
  <2>2. \A r \in Slot \ S : Unseen(r)
    BY <1>2, <2>1
  <2>3. CASE S = {}
    BY <2>2, <2>3, Stutter
  <2>4. CASE S # {}
    <3>1. S \in SUBSET Slot
      BY <1>2
    <3>2. QED
      BY <1>1, <1>2, <2>2, <2>4, <3>1, Accepts
  <2>5. QED
    BY <2>3, <2>4
<1>6. QED
  BY <1>1, <1>4, <1>5 DEF HandlerRows

\* A worker ends or defers the event it has, whose row still names it.
LEMMA ClosingRefines ==
  ASSUME EngineInv, EndsRightly, NEW w \in Worker, End(w) \/ Defer(w)
  PROVE  Queue!Next \/ UNCHANGED Queue!vars
<1>1. TypeOK /\ Holding /\ queue \in [Slot -> Event \cup {NoRow}]
  BY DEF EngineInv, TypeOK
<1>2. /\ at[w] \in Slot /\ queue[at[w]].status = "processing"
      /\ queue[at[w]].worker = w /\ pc[w] = "closing"
      /\ queue[at[w]] \in Event
  BY <1>1 DEF End, Defer, Holding, Busy, NoRow
<1>3. \A r \in Slot \ {at[w]} : Unseen(r)
  BY <1>1, <1>2, SameIsUnseen DEF End, Defer, Closed
<1>4. CASE End(w)
  <2>1. queue'[at[w]] = NoRow
    BY <1>1, <1>2, <1>4 DEF End, Closed
  <2>2. queue[at[w]].handled \/ queue[at[w]].attempts = Patience
    BY <1>2, <1>4 DEF End, EndsRightly
  <2>3. QED
    BY <1>1, <1>2, <1>3, <2>1, <2>2, Leaves
<1>5. CASE Defer(w)
  <2>1. queue'[at[w]] = Deferred(queue[at[w]])
    BY <1>1, <1>2, <1>5 DEF Defer, Closed
  <2>2. Unseen(at[w])
    BY <1>2, <2>1, BackIsUnseen
  <2>3. QED
    BY <1>3, <2>2, Stutter
<1>6. QED
  BY <1>4, <1>5

LEMMA WorkerRefines ==
  ASSUME EngineInv, EndsRightly, WorkerNext
  PROVE  Queue!Next \/ UNCHANGED Queue!vars
<1>1. TypeOK /\ Holding /\ queue \in [Slot -> Event \cup {NoRow}]
  BY DEF EngineInv, TypeOK
<1>2. PICK w \in Worker : Lock(w) \/ Step(w) \/ Crash(w) \/ Raise(w)
                         \/ \E s \in Slot : Claim(w, s)
  BY DEF WorkerNext
<1>3. CASE UNCHANGED queue
  BY <1>3, SameIsUnseen, Stutter
<1>4. CASE RecoverProcessing(w)
  <2>1. \A s \in Slot : Unseen(s)
    <3>1. ASSUME NEW s \in Slot, queue[s].status = "processing"
          PROVE  Unseen(s)
      <4>1. queue'[s] = Returned(queue[s]) /\ queue[s] \in Event
        BY <1>1, <1>4, <3>1 DEF RecoverProcessing, Interrupted, NoRow
      <4>2. QED
        BY <4>1, BackIsUnseen
    <3>2. ASSUME NEW s \in Slot, queue[s].status # "processing"
          PROVE  Unseen(s)
      <4>1. queue'[s] = queue[s]
        BY <1>4, <3>2 DEF RecoverProcessing, Interrupted
      <4>2. QED
        BY <4>1, SameIsUnseen
    <3>3. QED
      BY <3>1, <3>2
  <2>2. QED
    BY <2>1, Stutter
<1>5. CASE \E s \in Slot : Claim(w, s)
  <2>1. PICK s \in Slot : Claim(w, s)
    BY <1>5
  <2>2. queue[s] \in Event /\ queue[s].due
    BY <1>1, <2>1 DEF Claim, First, DuePending, Pending, NoRow
  <2>3. queue' = [queue EXCEPT ![s] = Started(w, queue[s])]
    BY <2>1 DEF Claim
  <2>4. QED
    BY <1>1, <2>2, <2>3, Starts
<1>6. CASE RecoveryWake
  <2>1. \/ UNCHANGED queue
        \/ \E s \in Free : queue' = [queue EXCEPT ![s] = Row("recovery", None)]
    BY <1>6 DEF RecoveryWake
  <2>2. "recovery" \in Kind
    BY DEF Kind
  <2>3. QED
    BY <1>1, <1>3, <2>1, <2>2, InsertAccepts
<1>7. CASE Handler(w)
  BY <1>7, HandlerRefines
<1>8. CASE End(w) \/ Defer(w)
  BY <1>8, ClosingRefines
<1>9. CASE Raise(w)
  <2>1. at[w] \in Slot /\ queue[at[w]] \in Event
    BY <1>1, <1>9 DEF Raise, Holding, Busy, NoRow
  <2>2. /\ queue'[at[w]] = Returned(queue[at[w]])
        /\ \A r \in Slot \ {at[w]} : queue'[r] = queue[r]
    BY <1>1, <1>9, <2>1 DEF Raise
  <2>3. \A r \in Slot : Unseen(r)
    BY <2>1, <2>2, BackIsUnseen, SameIsUnseen
  <2>4. QED
    BY <2>3, Stutter
<1>10. QED
  BY <1>2, <1>3, <1>4, <1>5, <1>6, <1>7, <1>8, <1>9
     DEF Lock, Step, Crash, NothingDue, Idle, Waiting, FirstCheck, Open,
         SecondCheck, Arm, WakeUp, Timeout, queueVars

\* Producers insert one row each; time makes rows due.
LEMMA OthersRefine ==
  ASSUME EngineInv, ProducerNext \/ EnvironmentNext
  PROVE  Queue!Next \/ UNCHANGED Queue!vars
<1>1. TypeOK /\ queue \in [Slot -> Event \cup {NoRow}]
  BY DEF EngineInv, TypeOK
<1>2. CASE UNCHANGED queue
  BY <1>2, SameIsUnseen, Stutter
<1>3. CASE \E p \in Producer, k \in Kind, t \in Task \cup {None} : Commits(p, k, t)
  <2>1. PICK k \in Kind, t \in Task \cup {None}, s \in Free :
           queue' = [queue EXCEPT ![s] = Row(k, t)]
    BY <1>3 DEF Commits
  <2>2. QED
    BY <1>1, <2>1, InsertAccepts
<1>4. CASE \E s \in Slot : EventDue(s)
  <2>1. PICK s \in Slot : EventDue(s)
    BY <1>4
  <2>2. /\ queue[s] \in Event
        /\ queue'[s] = Ready(queue[s])
        /\ \A r \in Slot \ {s} : queue'[r] = queue[r]
    BY <1>1, <2>1 DEF EventDue, Pending, NoRow
  <2>3. \A r \in Slot : Unseen(r)
    BY <2>2, BackIsUnseen, SameIsUnseen
  <2>4. QED
    BY <2>3, Stutter
<1>5. CASE ProducerNext
  BY <1>2, <1>3, <1>5, ConstantsAssumption
     DEF ProducerNext, Notify, Forget, Submit, CreateTask, FailTask,
         CompleteTask, CloseTask, DecideTask, Kind, queueVars
<1>6. CASE EnvironmentNext
  BY <1>2, <1>4, <1>6 DEF EnvironmentNext, ClaimTask, LeaseExpires, queueVars
<1>7. QED
  BY <1>5, <1>6

\* An accepted event is handled to the end, or rejected after its last
\* attempt, before it leaves the queue: the engine implements DurableQueue,
\* whatever crashes, raises, is retried or is not announced.
THEOREM EngineImplementsQueue == Spec => Implements
<1>1. Init => Queue!Init
  BY DEF Init, Queue!Init, Live, NoRow
<1>2. EngineInv /\ EndsRightly /\ [Next]_vars => [Queue!Next]_Queue!vars
  <2>1. UNCHANGED vars => UNCHANGED Queue!vars
    BY SameIsUnseen, Stutter DEF vars, queueVars
  <2>2. QED
    BY <2>1, WorkerRefines, OthersRefine DEF Next
<1>3. Init => EndsRightly
  BY DEF Init, EndsRightly
<1>4. EngineInv /\ EndsRightly /\ [Next]_vars => EndsRightly'
  <2>1. EndsRightly /\ UNCHANGED vars => EndsRightly'
    BY DEF vars, queueVars, EndsRightly
  <2>2. QED
    BY <2>1, EndsRightlyStep
<1>5. QED
  BY <1>1, <1>2, <1>3, <1>4, EngineInvariant, PTL
     DEF Spec, Implements, Queue!Spec

=============================================================================
