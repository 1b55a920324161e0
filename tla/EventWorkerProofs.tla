-------------------------- MODULE EventWorkerProofs --------------------------
(* What the worker of EventEngine never misses: an event while it sleeps,  *)
(* an open task that nobody claimed, and the first lease of a task.        *)
EXTENDS EventEngineProofs

-----------------------------------------------------------------------------
(* Sleeping                                                                *)

\* From the moment it opens the FIFO, a worker keeps it open until it is up.
FifoOpen ==
    \A w \in Worker : pc[w] \in {"opened", "arming", "sleeping"}
                        => fifo # "closed"

LEMMA WakeStep ==
  ASSUME LosesNotices = FALSE,
         EngineInv, FifoOpen, WakeNotLost, [Next]_vars
  PROVE  FifoOpen' /\ WakeNotLost'
<1>1. TypeOK /\ pc \in [Worker -> {"down", "recovering", "claiming", "idle",
                               "handling", "enforcing", "blocking", "closing",
                               "checking", "opening", "opened", "arming",
                               "sleeping"}]
  BY DEF EngineInv, TypeOK
<1>2. CASE WorkerNext
  <2>1. PICK w \in Worker : Lock(w) \/ Step(w) \/ Crash(w) \/ Raise(w)
                           \/ \E s \in Slot : Claim(w, s)
    BY <1>2 DEF WorkerNext
  <2>2. \A v \in Worker \ {w} : pc'[v] = "down"
    BY <2>1, StepsAlone
  <2>3. CASE Open(w) \/ SecondCheck(w) \/ Arm(w)
    <3>1. /\ pc'[w] \in {"opened", "arming", "sleeping"} => fifo' # "closed"
          /\ pc'[w] = "sleeping" /\ ~armed' => Pending' = {}
      BY <1>1, <2>3 DEF Open, SecondCheck, Arm, Goto, Deadline, FifoOpen,
                        queueVars, Pending
    <3>2. QED
      BY <2>2, <3>1 DEF FifoOpen, WakeNotLost
  <2>4. CASE ~(Open(w) \/ SecondCheck(w) \/ Arm(w))
    <3>1. pc'[w] \notin {"opened", "arming", "sleeping"}
      BY <1>1, <2>1, <2>4
         DEF Lock, Step, Crash, Raise, Gone, Claim, RecoverProcessing,
             NothingDue, Idle, Handler, Dispatch, Enforce, BlockUnclaimed,
             Judge, Deliver, Retry, RejectProtocol, End, Defer, Waiting,
             FirstCheck, WakeUp, Timeout, Awake, Goto, GoesOn, Handled
    <3>2. QED
      BY <2>2, <3>1 DEF FifoOpen, WakeNotLost
  <2>5. QED
    BY <2>3, <2>4
<1>3. CASE ProducerNext
  <2>1. PICK p \in Producer :
           \/ Notify(p) \/ Forget(p) \/ \E k \in Submitted : Submit(p, k)
           \/ \E t \in Task : \/ CreateTask(p, t) \/ FailTask(p, t)
                              \/ CompleteTask(p, t) \/ CloseTask(p, t)
                              \/ DecideTask(p, t)
    BY <1>3 DEF ProducerNext
  <2>2. CASE Notify(p)
    BY <2>2 DEF Notify, FifoOpen, WakeNotLost
  <2>3. CASE \E k \in Kind, t \in Task \cup {None} : Commits(p, k, t)
    BY <2>3 DEF Commits, FifoOpen, WakeNotLost, wakeVars
  <2>4. ~Forget(p)
    BY DEF Forget
  <2>5. QED
    BY <2>1, <2>2, <2>3, <2>4, ConstantsAssumption
       DEF Submit, CreateTask, FailTask, CompleteTask, CloseTask, DecideTask,
           Kind
<1>4. CASE EnvironmentNext
  BY <1>4 DEF EnvironmentNext, ClaimTask, LeaseExpires, EventDue, queueVars,
              wakeVars, FifoOpen, WakeNotLost, Pending
<1>5. CASE UNCHANGED vars
  BY <1>5 DEF vars, queueVars, wakeVars, FifoOpen, WakeNotLost, Pending
<1>6. QED
  BY <1>2, <1>3, <1>4, <1>5 DEF Next

\* When producers live to notify, a worker that sleeps without a timeout misses
\* no event: the second look at the queue comes after the FIFO was opened.
THEOREM NoLostWake ==
  ASSUME LosesNotices = FALSE
  PROVE  Spec => []WakeNotLost
<1>1. Init => FifoOpen /\ WakeNotLost
  BY DEF Init, FifoOpen, WakeNotLost
<1>2. EngineInv /\ FifoOpen /\ WakeNotLost /\ [Next]_vars
        => FifoOpen' /\ WakeNotLost'
  BY WakeStep
<1>3. QED
  BY <1>1, <1>2, EngineInvariant, PTL DEF Spec

-----------------------------------------------------------------------------
(* Tasks that nobody claimed                                               *)

\* Once created, a task that is claimed, blocked, escalated or closed never
\* again becomes open, unclaimed and undecided.
Settled(t) ==
    task[t] # "absent" /\ ~(task[t] = "open" /\ exec[t] = "none" /\ t \notin approved)

LEMMA StaysSettled ==
  ASSUME EngineInv, Next, NEW t \in Task
  PROVE  /\ task[t] # "absent" => task'[t] # "absent"
         /\ Settled(t) => Settled(t)'
<1> USE DEF Settled, ledgerVars
<1>1. /\ task \in [Task -> TaskState] /\ exec \in [Task -> ExecState]
      /\ exec[t] \in {"expired", "failed"} => task[t] = "in_progress"
  BY DEF EngineInv, TypeOK, RetriesBelow
<1>2. CASE UNCHANGED <<task, exec, approved>>
  BY <1>2
<1>3. CASE WorkerNext
  <2>1. PICK w \in Worker : Lock(w) \/ Step(w) \/ Crash(w) \/ Raise(w)
                           \/ \E s \in Slot : Claim(w, s)
    BY <1>3 DEF WorkerNext
  <2>2. ASSUME NEW T \in SUBSET Task, Dispatch(w, T)
        PROVE  /\ task[t] # "absent" => task'[t] # "absent"
               /\ Settled(t) => Settled(t)'
    <3>1. CASE Recovers(T)
      BY <1>1, <2>2, <3>1 DEF Dispatch, Recovers, DueTasks
    <3>2. CASE Escalates(T)
      BY <1>1, <2>2, <3>2 DEF Dispatch, Escalates
    <3>3. QED
      BY <2>2, <3>1, <3>2 DEF Dispatch
  <2>3. CASE BlockUnclaimed(w)
    BY <1>1, <2>3 DEF BlockUnclaimed
  <2>4. CASE Judge(w)
    BY <1>1, <2>4 DEF Judge
  <2>5. CASE ~(Judge(w) \/ BlockUnclaimed(w) \/ \E T \in SUBSET Task : Dispatch(w, T))
    BY <1>2, <2>1, <2>5
       DEF Lock, Step, Crash, Raise, Gone, Claim, RecoverProcessing,
           NothingDue, Idle, Handler, Enforce, Deliver, Retry, RejectProtocol,
           End, Defer, Waiting, FirstCheck, Open, SecondCheck, Arm, WakeUp,
           Timeout, Awake
  <2>6. QED
    BY <2>2, <2>3, <2>4, <2>5
<1>4. CASE ProducerNext
  BY <1>1, <1>4
     DEF ProducerNext, Notify, Forget, Submit, CreateTask, FailTask,
         CompleteTask, CloseTask, DecideTask
<1>5. CASE EnvironmentNext
  BY <1>1, <1>5 DEF EnvironmentNext, ClaimTask, LeaseExpires, EventDue
<1>6. QED
  BY <1>3, <1>4, <1>5 DEF Next

\* What can happen to a slot: an event stays, an event ends, or one arrives;
\* the task of an arriving task.created is created by the same step.
Stays(s) == /\ queue[s] \in Event /\ queue'[s] \in Event
            /\ queue'[s].kind = queue[s].kind /\ queue'[s].task = queue[s].task
Ends(s) == queue'[s] = NoRow /\ \E w \in Worker : End(w) /\ at[w] = s
Arrives(s) ==
    /\ queue[s] = NoRow
    /\ queue'[s].kind = "created" =>
          /\ queue'[s].task \in Task
          /\ task[queue'[s].task] = "absent" /\ task'[queue'[s].task] = "open"
SlotStep(s) == Stays(s) \/ Ends(s) \/ Arrives(s)

LEMMA SameStays ==
  ASSUME EngineInv, NEW s \in Slot, queue'[s] = queue[s]
  PROVE  SlotStep(s)
<1>1. queue[s] \in Event \/ queue[s] = NoRow
  BY LiveRows DEF EngineInv
<1>2. NoRow.kind # "created"
  BY DEF NoRow
<1>3. QED
  BY <1>1, <1>2 DEF SlotStep, Stays, Arrives

\* One row more.
LEMMA InsertSlots ==
  ASSUME EngineInv, NEW s \in Free, NEW k \in Kind, NEW t \in Task \cup {None},
         queue' = [queue EXCEPT ![s] = Row(k, t)],
         k = "created" => t \in Task /\ task[t] = "absent" /\ task'[t] = "open"
  PROVE  \A r \in Slot : SlotStep(r)
<1>1. TypeOK /\ s \in Slot /\ queue[s] = NoRow
  BY LiveRows DEF Free, EngineInv
<1>2. queue'[s] = Row(k, t) /\ \A r \in Slot \ {s} : queue'[r] = queue[r]
  BY <1>1 DEF TypeOK
<1>3. Row(k, t).kind = k /\ Row(k, t).task = t
  BY RowType
<1>4. Arrives(s)
  BY <1>1, <1>2, <1>3 DEF Arrives
<1>5. QED
  BY <1>2, <1>4, SameStays DEF SlotStep

LEMMA WorkerSlots ==
  ASSUME EngineInv, WorkerNext
  PROVE  \A s \in Slot : SlotStep(s)
<1>1. TypeOK /\ Holding /\ queue \in [Slot -> Event \cup {NoRow}]
  BY DEF EngineInv, TypeOK
<1>2. PICK w \in Worker : Lock(w) \/ Step(w) \/ Crash(w) \/ Raise(w)
                         \/ \E s \in Slot : Claim(w, s)
  BY DEF WorkerNext
<1>3. pc[w] \in Busy => at[w] \in Slot /\ queue[at[w]] \in Event
  BY <1>1 DEF Holding, NoRow
<1>4. CASE UNCHANGED queue
  BY <1>4, SameStays
<1>5. CASE RecoverProcessing(w)
  <2>1. ASSUME NEW s \in Slot, queue[s].status = "processing"
        PROVE  SlotStep(s)
    <3>1. queue'[s] = Returned(queue[s]) /\ queue[s] \in Event
      BY <1>1, <1>5, <2>1 DEF RecoverProcessing, Interrupted, NoRow
    <3>2. QED
      BY <3>1, ReturnedType DEF SlotStep, Stays
  <2>2. ASSUME NEW s \in Slot, queue[s].status # "processing"
        PROVE  SlotStep(s)
    <3>1. queue'[s] = queue[s]
      BY <1>5, <2>2 DEF RecoverProcessing, Interrupted
    <3>2. QED
      BY <3>1, SameStays
  <2>3. QED
    BY <2>1, <2>2
<1>6. CASE \E s \in Slot : Claim(w, s)
  <2>1. PICK s \in Slot : Claim(w, s)
    BY <1>6
  <2>2. /\ queue[s] \in Event /\ queue[s].due
        /\ queue'[s] = Started(w, queue[s])
        /\ \A r \in Slot \ {s} : queue'[r] = queue[r]
    BY <1>1, <2>1 DEF Claim, First, DuePending, Pending, NoRow
  <2>3. Stays(s)
    BY <2>2, StartedType DEF Stays
  <2>4. QED
    BY <2>2, <2>3, SameStays DEF SlotStep
<1>7. CASE RecoveryWake
  <2>1. \/ UNCHANGED queue
        \/ \E s \in Free : queue' = [queue EXCEPT ![s] = Row("recovery", None)]
    BY <1>7 DEF RecoveryWake
  <2>2. "recovery" \in Kind /\ "recovery" # "created"
    BY DEF Kind
  <2>3. QED
    BY <1>4, <2>1, <2>2, InsertSlots
<1>8. ASSUME NEW T \in SUBSET Task, Dispatch(w, T)
      PROVE  \A s \in Slot : SlotStep(s)
  <2>1. PICK k \in {"card", "judgement"}, place \in [T -> Free] :
          queue' = [r \in Slot |->
                      IF \E t \in T : place[t] = r THEN Row(k, None)
                      ELSE IF r = at[w] /\ queue[at[w]].kind # "created"
                           THEN Done(queue[r])
                      ELSE queue[r]]
    BY <1>8 DEF Dispatch, Places
  <2>2. at[w] \in Slot /\ queue[at[w]] \in Event
    BY <1>3, <1>8 DEF Dispatch, Busy
  <2>3. ASSUME NEW s \in Slot, NEW t \in T, place[t] = s
        PROVE  SlotStep(s)
    <3>1. queue[s] = NoRow
      <4>1. s \in Free
        BY <2>1, <2>3
      <4>2. QED
        BY <1>1, <4>1, LiveRows DEF Free
    <3>2. queue'[s] = Row(k, None) /\ k \in Kind /\ k # "created"
      BY <2>1, <2>3 DEF Kind
    <3>3. queue'[s].kind # "created"
      <4>1. Row(k, None).kind = k
        BY <3>2, RowType
      <4>2. QED
        BY <3>2, <4>1
    <3>4. QED
      BY <3>1, <3>3 DEF SlotStep, Arrives
  <2>4. ASSUME NEW s \in Slot, ~\E t \in T : place[t] = s
        PROVE  SlotStep(s)
    <3>1. queue'[s] = queue[s] \/ (s = at[w] /\ queue'[s] = Done(queue[s]))
      BY <2>1, <2>4
    <3>2. CASE queue'[s] = queue[s]
      BY <3>2, SameStays
    <3>3. CASE s = at[w] /\ queue'[s] = Done(queue[s])
      BY <2>2, <3>3, DoneType DEF SlotStep, Stays
    <3>4. QED
      BY <3>1, <3>2, <3>3
  <2>5. QED
    BY <2>3, <2>4
<1>9. CASE \/ Enforce(w) \/ BlockUnclaimed(w) \/ Deliver(w) \/ Retry(w)
           \/ RejectProtocol(w)
  <2>1. \/ UNCHANGED queue
        \/ queue' = [queue EXCEPT ![at[w]] = Done(@)]
    BY <1>9 DEF Enforce, BlockUnclaimed, Deliver, Retry, RejectProtocol
  <2>2. at[w] \in Slot /\ queue[at[w]] \in Event
    BY <1>3, <1>9 DEF Enforce, BlockUnclaimed, Deliver, Retry, RejectProtocol,
                      Busy
  <2>3. CASE queue' = [queue EXCEPT ![at[w]] = Done(@)]
    <3>1. /\ queue'[at[w]] = Done(queue[at[w]])
          /\ \A r \in Slot \ {at[w]} : queue'[r] = queue[r]
      BY <1>1, <2>2, <2>3
    <3>2. Stays(at[w])
      BY <2>2, <3>1, DoneType DEF Stays
    <3>3. QED
      BY <3>1, <3>2, SameStays DEF SlotStep
  <2>4. QED
    BY <1>4, <2>1, <2>3
<1>10. ASSUME Judge(w)
       PROVE  \A s \in Slot : SlotStep(s)
  <2> DEFINE judged == [queue EXCEPT ![at[w]] = Done(queue[at[w]])]
  <2>1. at[w] \in Slot /\ queue[at[w]] \in Event
    BY <1>3, <1>10 DEF Judge, Busy
  <2>2. /\ judged[at[w]] = Done(queue[at[w]])
        /\ \A r \in Slot \ {at[w]} : judged[r] = queue[r]
        /\ DOMAIN judged = Slot
    BY <1>1, <2>1
  <2>3. \/ queue' = judged
        \/ \E r \in Free, k \in Kind, t \in Task \cup {None} :
              /\ queue' = [judged EXCEPT ![r] = Row(k, t)]
              /\ k = "created" => /\ t \in Task /\ task[t] = "absent"
                                 /\ task'[t] = "open"
    BY <1>1, <1>10 DEF Judge, Kind, TypeOK
  <2> HIDE DEF judged
  <2>4. ASSUME queue'[at[w]] = Done(queue[at[w]])
        PROVE  SlotStep(at[w])
    BY <2>1, <2>4, DoneType DEF SlotStep, Stays
  <2>5. CASE queue' = judged
    BY <2>2, <2>4, <2>5, SameStays
  <2>6. ASSUME NEW r \in Free, NEW k \in Kind, NEW t \in Task \cup {None},
               queue' = [judged EXCEPT ![r] = Row(k, t)],
               k = "created" => /\ t \in Task /\ task[t] = "absent"
                                /\ task'[t] = "open"
        PROVE  \A s \in Slot : SlotStep(s)
    <3>1. r \in Slot /\ r # at[w] /\ queue[r] = NoRow
      BY <1>1, <2>1, LiveRows DEF Free
    <3>2. /\ queue'[r] = Row(k, t) /\ queue'[at[w]] = judged[at[w]]
          /\ \A q \in Slot \ {r, at[w]} : queue'[q] = queue[q]
      BY <2>1, <2>2, <2>6, <3>1
    <3>3. Row(k, t).kind = k /\ Row(k, t).task = t
      BY RowType
    <3>4. SlotStep(r)
      BY <2>6, <3>1, <3>2, <3>3 DEF SlotStep, Arrives
    <3>5. QED
      BY <2>2, <2>4, <3>2, <3>4, SameStays
  <2>7. QED
    BY <2>3, <2>5, <2>6
<1>11. CASE End(w) \/ Defer(w)
  <2>1. /\ at[w] \in Slot /\ queue[at[w]].status = "processing"
        /\ queue[at[w]].worker = w /\ queue[at[w]] \in Event
    BY <1>1, <1>11 DEF End, Defer, Holding, Busy, NoRow
  <2>2. \A r \in Slot \ {at[w]} : queue'[r] = queue[r]
    BY <1>1, <1>11, <2>1 DEF End, Defer, Closed
  <2>3. CASE End(w)
    <3>1. Ends(at[w])
      BY <1>1, <2>1, <2>3 DEF End, Closed, Ends
    <3>2. QED
      BY <2>2, <3>1, SameStays DEF SlotStep
  <2>4. CASE Defer(w)
    <3>1. queue'[at[w]] = Deferred(queue[at[w]])
      BY <1>1, <2>1, <2>4 DEF Defer, Closed
    <3>2. Stays(at[w])
      BY <2>1, <3>1, ReturnedType DEF Stays
    <3>3. QED
      BY <2>2, <3>2, SameStays DEF SlotStep
  <2>5. QED
    BY <1>11, <2>3, <2>4
<1>12. CASE Raise(w)
  <2>1. at[w] \in Slot /\ queue[at[w]] \in Event
    BY <1>1, <1>12 DEF Raise, Holding, Busy, NoRow
  <2>2. /\ queue'[at[w]] = Returned(queue[at[w]])
        /\ \A r \in Slot \ {at[w]} : queue'[r] = queue[r]
    BY <1>1, <1>12, <2>1 DEF Raise
  <2>3. Stays(at[w])
    BY <2>1, <2>2, ReturnedType DEF Stays
  <2>4. QED
    BY <2>2, <2>3, SameStays DEF SlotStep
<1>13. QED
  BY <1>2, <1>4, <1>5, <1>6, <1>7, <1>8, <1>9, <1>10, <1>11, <1>12
     DEF Lock, Step, Crash, NothingDue, Idle, Handler, Waiting, FirstCheck,
         Open, SecondCheck, Arm, WakeUp, Timeout, queueVars

LEMMA OtherSlots ==
  ASSUME EngineInv, ProducerNext \/ EnvironmentNext
  PROVE  \A s \in Slot : SlotStep(s)
<1>1. TypeOK /\ queue \in [Slot -> Event \cup {NoRow}]
  BY DEF EngineInv, TypeOK
<1>2. CASE UNCHANGED queue
  BY <1>2, SameStays
<1>3. ASSUME NEW p \in Producer, NEW k \in Kind, NEW t \in Task \cup {None},
             Commits(p, k, t),
             k = "created" => t \in Task /\ task[t] = "absent" /\ task'[t] = "open"
      PROVE  \A s \in Slot : SlotStep(s)
  <2>1. PICK s \in Free : queue' = [queue EXCEPT ![s] = Row(k, t)]
    BY <1>3 DEF Commits
  <2>2. QED
    BY <1>3, <2>1, InsertSlots
<1>4. CASE ProducerNext
  <2>1. \/ UNCHANGED queue
        \/ \E p \in Producer, k \in Kind, t \in Task \cup {None} :
              /\ Commits(p, k, t)
              /\ k = "created" => t \in Task /\ task[t] = "absent" /\ task'[t] = "open"
    BY <1>1, <1>4, ConstantsAssumption
       DEF TypeOK, ProducerNext, Notify, Forget, Submit, CreateTask, FailTask,
           CompleteTask, CloseTask, DecideTask, Kind, queueVars
  <2>2. QED
    BY <1>2, <1>3, <2>1
<1>5. ASSUME NEW s \in Slot, EventDue(s)
      PROVE  \A r \in Slot : SlotStep(r)
  <2>1. /\ queue[s] \in Event
        /\ queue'[s] = Ready(queue[s])
        /\ \A r \in Slot \ {s} : queue'[r] = queue[r]
    BY <1>1, <1>5 DEF EventDue, Pending, NoRow
  <2>2. Stays(s)
    BY <2>1, DueType DEF Stays
  <2>3. QED
    BY <2>1, <2>2, SameStays DEF SlotStep
<1>6. CASE EnvironmentNext
  BY <1>2, <1>5, <1>6 DEF EnvironmentNext, ClaimTask, LeaseExpires, queueVars
<1>7. QED
  BY <1>4, <1>6

\* The task of a task.created event exists, and once the worker has decided to
\* acknowledge the event, somebody has taken care of it.
CreatedEvents ==
    /\ \A s \in Live : queue[s].kind = "created" =>
          queue[s].task \in Task /\ task[queue[s].task] # "absent"
    /\ \A w \in Worker : pc[w] = "closing" /\ queue[at[w]].kind = "created" =>
          \/ outcome[w] = "defer"
          \/ outcome[w] = "ack" /\ Settled(queue[at[w]].task)

LEMMA CreatedStep ==
  ASSUME EngineInv, CreatedEvents, Next
  PROVE  CreatedEvents'
<1>1. /\ TypeOK /\ Holding /\ queue \in [Slot -> Event \cup {NoRow}]
      /\ outcome \in [Worker -> {"none", "ack", "defer", "reject"}]
      /\ \A s \in Slot : SlotStep(s)
  BY WorkerSlots, OtherSlots DEF EngineInv, TypeOK, Next
<1>2. \A s \in Live' : queue'[s].kind = "created" =>
         queue'[s].task \in Task /\ task'[queue'[s].task] # "absent"
  <2>1. ASSUME NEW s \in Slot, queue'[s].status # "free",
               queue'[s].kind = "created"
        PROVE  queue'[s].task \in Task /\ task'[queue'[s].task] # "absent"
    <3>1. CASE Stays(s)
      <4>1. s \in Live /\ queue[s].kind = "created"
        BY <1>1, <2>1, <3>1, LiveRows DEF Stays
      <4>2. queue[s].task \in Task /\ task[queue[s].task] # "absent"
        BY <4>1 DEF CreatedEvents
      <4>3. QED
        BY <3>1, <4>2, StaysSettled DEF Stays
    <3>2. CASE Arrives(s)
      BY <2>1, <3>2 DEF Arrives
    <3>3. ~Ends(s)
      BY <2>1 DEF Ends, NoRow
    <3>4. QED
      BY <1>1, <3>1, <3>2, <3>3 DEF SlotStep
  <2>2. QED
    BY <2>1 DEF Live
<1>3. \A w \in Worker :
        pc'[w] = "closing" /\ queue'[at'[w]].kind = "created" =>
          \/ outcome'[w] = "defer"
          \/ outcome'[w] = "ack" /\ Settled(queue[at[w]].task)'
  <2>1. CASE ProducerNext \/ EnvironmentNext
    <3>1. ASSUME NEW w \in Worker, pc'[w] = "closing",
                 queue'[at'[w]].kind = "created", outcome'[w] # "defer"
          PROVE  outcome'[w] = "ack" /\ Settled(queue[at[w]].task)'
      <4>1. /\ pc[w] = "closing" /\ at'[w] = at[w] /\ outcome'[w] = outcome[w]
            /\ at[w] \in Slot /\ queue'[at[w]] = queue[at[w]]
            /\ queue[at[w]].status = "processing"
        BY <1>1, <2>1, <3>1, OthersLeaveProcessing DEF Holding, Busy
      <4>2. /\ queue[at[w]].kind = "created" /\ at[w] \in Live
            /\ outcome[w] = "ack" /\ Settled(queue[at[w]].task)
        BY <3>1, <4>1 DEF CreatedEvents, Live
      <4>3. PICK t \in Task : t = queue[at[w]].task
        BY <4>2 DEF CreatedEvents
      <4>4. Settled(t)' /\ queue'[at'[w]].task = t
        BY <4>1, <4>2, <4>3, StaysSettled
      <4>5. QED
        BY <4>1, <4>2, <4>4 DEF Settled
    <3>2. QED
      BY <3>1
  <2>2. CASE WorkerNext
    <3>1. PICK w \in Worker : Lock(w) \/ Step(w) \/ Crash(w) \/ Raise(w)
                             \/ \E s \in Slot : Claim(w, s)
      BY <2>2 DEF WorkerNext
    <3>2. \A v \in Worker \ {w} : pc'[v] = "down"
      BY <3>1, StepsAlone
    <3>3. CASE Enforce(w) \/ BlockUnclaimed(w)
      <4>1. /\ at[w] \in Slot /\ queue[at[w]] \in Event /\ at'[w] = at[w]
            /\ at[w] \in Live
        BY <1>1, <3>3, LiveRows
           DEF Enforce, BlockUnclaimed, Holding, Busy, NoRow
      <4>2. queue'[at[w]].task = queue[at[w]].task
            /\ queue'[at[w]].kind = queue[at[w]].kind
        BY <1>1, <3>3, <4>1, DoneType DEF Enforce, BlockUnclaimed
      <4>3. ASSUME NEW t \in Task, t = queue[at[w]].task,
                   task[t] # "absent"
            PROVE  \/ pc'[w] # "closing" \/ outcome'[w] = "defer"
                   \/ outcome'[w] = "ack" /\ Settled(t)'
        <5>2. CASE Enforce(w)
          BY <1>1, <4>3, <5>2
             DEF TypeOK, Enforce, Unclaimed, Settled, Handled, Goto, ledgerVars
        <5>3. CASE BlockUnclaimed(w)
          BY <1>1, <4>3, <5>3 DEF TypeOK, BlockUnclaimed, Settled, Handled
        <5>4. QED
          BY <3>3, <5>2, <5>3
      <4>4. CASE queue[at[w]].kind = "created"
        <5>1. PICK t \in Task : t = queue[at[w]].task /\ task[t] # "absent"
          BY <4>1, <4>4 DEF CreatedEvents
        <5>2. \/ pc'[w] # "closing" \/ outcome'[w] = "defer"
              \/ outcome'[w] = "ack" /\ Settled(t)'
          BY <4>3, <5>1
        <5>3. queue'[at'[w]].task = t
          BY <4>1, <4>2, <5>1
        <5>4. Settled(t)' => Settled(queue[at[w]].task)'
          BY <5>3 DEF Settled
        <5>5. QED
          BY <3>2, <5>2, <5>4
      <4>5. CASE queue[at[w]].kind # "created"
        BY <3>2, <4>1, <4>2, <4>5
      <4>6. QED
        BY <4>4, <4>5
    <3>4. CASE /\ Handler(w)
               /\ ~(Enforce(w) \/ BlockUnclaimed(w))
      <4>1. /\ at[w] \in Slot /\ queue[at[w]] \in Event /\ at'[w] = at[w]
            /\ HandlerRows(w)
        BY <3>4, HandlerFillsFreeSlots DEF HandlerRows
      <4>2. queue'[at[w]].kind = queue[at[w]].kind
        BY <4>1, DoneType DEF HandlerRows
      <4>3. pc'[w] = "closing" => queue[at[w]].kind # "created"
                                  \/ outcome'[w] = "defer"
        BY <1>1, <3>4
           DEF TypeOK, Handler, Dispatch, Judge, Deliver, Retry, RejectProtocol,
               Handled, Goto, RetryOutcome
      <4>4. QED
        BY <3>2, <4>1, <4>2, <4>3
    <3>5. CASE ~Handler(w)
      <4>1. pc'[w] # "closing"
        BY <1>1, <3>1, <3>5
           DEF TypeOK, Lock, Step, Crash, Raise, Gone, Claim,
               RecoverProcessing, NothingDue, Idle, End, Defer, Waiting,
               FirstCheck, Open, SecondCheck, Arm, WakeUp, Timeout, Awake,
               Goto, GoesOn
      <4>2. QED
        BY <3>2, <4>1
    <3>6. QED
      BY <3>3, <3>4, <3>5
  <2>3. QED
    BY <2>1, <2>2 DEF Next
<1>4. QED
  BY <1>2, <1>3 DEF CreatedEvents

LEMMA UnclaimedStep ==
  ASSUME EngineInv, CreatedEvents, UnclaimedTracked, Next
  PROVE  UnclaimedTracked'
<1>1. /\ TypeOK /\ Holding /\ queue \in [Slot -> Event \cup {NoRow}]
      /\ \A s \in Slot : SlotStep(s)
  BY WorkerSlots, OtherSlots DEF EngineInv, TypeOK, Next
<1>2. ASSUME NEW t \in Task, t \notin approved', task'[t] = "open",
             exec'[t] = "none"
      PROVE  \E s \in Live' : queue'[s].kind = "created" /\ queue'[s].task = t
  <2>1. ~Settled(t)'
    BY <1>2 DEF Settled
  <2>2. CASE task[t] # "absent"
    <3>1. task[t] = "open" /\ exec[t] = "none" /\ t \notin approved
      BY <2>1, <2>2, StaysSettled DEF Settled
    <3>2. PICK s \in Live : queue[s].kind = "created" /\ queue[s].task = t
      BY <3>1 DEF UnclaimedTracked
    <3>3. s \in Slot /\ queue[s] # NoRow
      BY <3>2 DEF Live, NoRow
    <3>4. ~Ends(s)
      <4>1. SUFFICES ASSUME NEW w \in Worker, End(w), at[w] = s
                     PROVE  FALSE
        BY DEF Ends
      <4>2. pc[w] = "closing" /\ outcome[w] # "defer"
        BY <4>1 DEF End
      <4>3. Settled(t)
        BY <3>2, <4>1, <4>2 DEF CreatedEvents
      <4>4. QED
        BY <3>1, <4>3 DEF Settled
    <3>5. Stays(s)
      BY <1>1, <3>3, <3>4 DEF SlotStep, Arrives
    <3>6. s \in Live'
      BY <3>3, <3>5 DEF Stays, Live, Event, EventRow
    <3>7. QED
      BY <3>2, <3>5, <3>6 DEF Stays
  <2>3. CASE task[t] = "absent"
    <3>1. \E s \in Slot : queue'[s] = Row("created", t)
      <4>1. CASE WorkerNext
        <5>1. PICK w \in Worker : Lock(w) \/ Step(w) \/ Crash(w) \/ Raise(w)
                                 \/ \E s \in Slot : Claim(w, s)
          BY <4>1 DEF WorkerNext
        <5>2. Judge(w)
          BY <1>1, <1>2, <2>3, <5>1
             DEF TypeOK, Lock, Step, Crash, Raise, Gone, Claim,
                 RecoverProcessing, NothingDue, Idle, Handler, Dispatch,
                 Recovers, Escalates, DueTasks, Enforce, BlockUnclaimed,
                 Deliver, Retry, RejectProtocol, End, Defer, Waiting,
                 FirstCheck, Open, SecondCheck, Arm, WakeUp, Timeout, Awake,
                 ledgerVars
        <5>3. PICK s \in Free : queue' = [[queue EXCEPT ![at[w]] = Done(@)]
                                            EXCEPT ![s] = Row("created", t)]
          BY <1>1, <1>2, <2>3, <5>2 DEF TypeOK, Judge
        <5>4. QED
          BY <1>1, <5>3 DEF Free
      <4>2. CASE ProducerNext
        <5>1. \E p \in Producer : CreateTask(p, t)
          BY <1>1, <1>2, <2>3, <4>2
             DEF TypeOK, ProducerNext, Notify, Forget, Submit, CreateTask,
                 FailTask, CompleteTask, CloseTask, DecideTask, ledgerVars
        <5>2. PICK s \in Free : queue' = [queue EXCEPT ![s] = Row("created", t)]
          BY <5>1 DEF CreateTask, Commits
        <5>3. QED
          BY <1>1, <5>2 DEF Free
      <4>3. CASE EnvironmentNext
        BY <1>1, <1>2, <2>3, <4>3
           DEF TypeOK, EnvironmentNext, ClaimTask, LeaseExpires, EventDue,
               ledgerVars
      <4>4. QED
        BY <4>1, <4>2, <4>3 DEF Next
    <3>2. PICK s \in Slot : queue'[s] = Row("created", t)
      BY <3>1
    <3>3. /\ Row("created", t).kind = "created" /\ Row("created", t).task = t
          /\ Row("created", t).status = "pending"
      <4>1. PICK k \in Kind : k = "created"
        BY DEF Kind
      <4>2. PICK u \in Task \cup {None} : u = t
        OBVIOUS
      <4>3. /\ Row(k, u).kind = k /\ Row(k, u).task = u
            /\ Row(k, u).status = "pending"
        BY RowType
      <4>4. QED
        BY <4>1, <4>2, <4>3
    <3>4. s \in Live'
      BY <3>2, <3>3 DEF Live
    <3>5. QED
      BY <3>2, <3>3, <3>4
  <2>4. QED
    BY <2>2, <2>3
<1>3. QED
  BY <1>2 DEF UnclaimedTracked

\* As long as an open task was never claimed, its task.created event is in the
\* queue, through every crash, retry and interleaving with executors.
THEOREM UnclaimedNeverForgotten == Spec => []UnclaimedTracked
<1>1. Init => CreatedEvents /\ UnclaimedTracked
  BY DEF Init, CreatedEvents, UnclaimedTracked, Live, NoRow
<1>2. EngineInv /\ CreatedEvents /\ UnclaimedTracked /\ [Next]_vars
        => CreatedEvents' /\ UnclaimedTracked'
  <2>1. CreatedEvents /\ UnclaimedTracked /\ UNCHANGED vars
          => CreatedEvents' /\ UnclaimedTracked'
    BY DEF vars, queueVars, ledgerVars, CreatedEvents, UnclaimedTracked, Live,
           Settled
  <2>2. QED
    BY <2>1, CreatedStep, UnclaimedStep
<1>3. QED
  BY <1>1, <1>2, EngineInvariant, PTL DEF Spec

-----------------------------------------------------------------------------
(* Leases                                                                  *)

\* A task that was claimed and is open again was requeued, and only reserved
\* tasks are decided on.
Reopened ==
    /\ \A t \in Task : exec[t] = "released" /\ task[t] \in {"open", "awaiting"}
                         => retries[t] > 0
    /\ \A t \in Task : task[t] = "absent" => exec[t] = "none"
    /\ \A t \in Task : task[t] = "awaiting" => t \in Reserved
    /\ approved \subseteq Reserved

\* Nobody else will wake the worker.
Unwoken(w) == pc[w] = "sleeping" /\ ~armed /\ fifo = "empty" /\ owes = {}

WatchInv ==
    /\ EngineInv /\ NoneStranded /\ FifoOpen /\ WakeNotLost
    /\ CreatedEvents /\ UnclaimedTracked /\ Reopened /\ FirstLeaseWatched

LEMMA ReopenedStep ==
  ASSUME EngineInv, Reopened, Next
  PROVE  Reopened'
<1>1. /\ task \in [Task -> TaskState] /\ exec \in [Task -> ExecState]
      /\ retries \in [Task -> Nat]
      /\ \A t \in Task : exec[t] \in {"running", "expired", "failed", "unknown"}
                           => task[t] = "in_progress"
  <2>1. retries \in [Task -> 0 .. Limit] /\ Limit \in Nat
    BY ConstantsAssumption DEF EngineInv, TypeOK
  <2>2. retries \in [Task -> Nat]
    BY <2>1
  <2>3. QED
    BY <2>2 DEF EngineInv, TypeOK, RetriesBelow
<1>2. CASE UNCHANGED ledgerVars
  BY <1>2 DEF ledgerVars, Reopened
<1>3. CASE WorkerNext
  <2>1. PICK w \in Worker : Lock(w) \/ Step(w) \/ Crash(w) \/ Raise(w)
                           \/ \E s \in Slot : Claim(w, s)
    BY <1>3 DEF WorkerNext
  <2>2. ASSUME NEW T \in SUBSET Task, Dispatch(w, T)
        PROVE  Reopened'
    <3>1. CASE Recovers(T)
      <4>1. approved' = approved
        BY <2>2 DEF Dispatch
      <4>2. \A t \in Task : t \notin T =>
               /\ task'[t] = task[t] /\ retries'[t] = retries[t]
               /\ exec'[t] = "released" => exec[t] = "released"
               /\ exec[t] = "none" => exec'[t] = "none"
        BY <1>1, <3>1 DEF Recovers, DueTasks
      <4>3. \A t \in T : /\ task'[t] \in {"blocked", "open"}
                         /\ retries'[t] = retries[t] + 1
        BY <1>1, <3>1 DEF Recovers
      <4>4. \A t \in T : retries'[t] > 0
        BY <1>1, <4>3
      <4>5. QED
        BY <4>1, <4>2, <4>3, <4>4 DEF Reopened
    <3>2. CASE Escalates(T)
      BY <1>1, <2>2, <3>2 DEF Dispatch, Escalates, Reopened
    <3>3. QED
      BY <2>2, <3>1, <3>2 DEF Dispatch
  <2>3. CASE BlockUnclaimed(w)
    BY <1>1, <2>3 DEF BlockUnclaimed, Reopened
  <2>4. CASE Judge(w)
    <3>1. /\ UNCHANGED <<exec, retries, approved>>
          /\ \A t \in Task : \/ task'[t] = task[t]
                             \/ task'[t] = "open" /\ task[t] = "absent"
      BY <1>1, <2>4 DEF Judge
    <3>2. QED
      BY <3>1 DEF Reopened
  <2>5. CASE ~(Judge(w) \/ BlockUnclaimed(w) \/ \E T \in SUBSET Task : Dispatch(w, T))
    BY <1>2, <2>1, <2>5
       DEF Lock, Step, Crash, Raise, Gone, Claim, RecoverProcessing,
           NothingDue, Idle, Handler, Enforce, Deliver, Retry, RejectProtocol,
           End, Defer, Waiting, FirstCheck, Open, SecondCheck, Arm, WakeUp,
           Timeout, Awake, ledgerVars
  <2>6. QED
    BY <2>2, <2>3, <2>4, <2>5
<1>4. CASE ProducerNext
  <2>1. PICK p \in Producer :
           \/ Notify(p) \/ Forget(p) \/ \E k \in Submitted : Submit(p, k)
           \/ \E t \in Task : \/ CreateTask(p, t) \/ FailTask(p, t)
                              \/ CompleteTask(p, t) \/ CloseTask(p, t)
                              \/ DecideTask(p, t)
    BY <1>4 DEF ProducerNext
  <2>2. ASSUME NEW t \in Task, CreateTask(p, t) \/ FailTask(p, t)
        PROVE  Reopened'
    BY <1>1, <2>2 DEF CreateTask, FailTask, Reopened
  <2>3. ASSUME NEW t \in Task, CompleteTask(p, t) \/ CloseTask(p, t)
        PROVE  Reopened'
    BY <1>1, <2>3 DEF CompleteTask, CloseTask, Reopened
  <2>4. ASSUME NEW t \in Task, DecideTask(p, t)
        PROVE  Reopened'
    BY <1>1, <2>4 DEF DecideTask, Reopened
  <2>5. QED
    BY <1>2, <2>1, <2>2, <2>3, <2>4 DEF Notify, Forget, Submit
<1>5. CASE EnvironmentNext
  <2>1. ASSUME NEW t \in Task, ClaimTask(t) \/ LeaseExpires(t)
        PROVE  Reopened'
    BY <1>1, <2>1 DEF ClaimTask, LeaseExpires, Reopened
  <2>2. QED
    BY <1>2, <1>5, <2>1 DEF EnvironmentNext, EventDue
<1>6. QED
  BY <1>3, <1>4, <1>5 DEF Next

\* While a worker sleeps, every row of the queue is pending.
LEMMA AsleepAllPending ==
  ASSUME EngineInv, NoneStranded, NEW w \in Worker, pc[w] = "sleeping"
  PROVE  Live = Pending
<1>1. lock = w /\ at[w] = None /\ w # None /\ None \notin Slot
  BY ConstantsAssumption DEF EngineInv, LockHeld, Holding, Busy
<1>2. \A s \in Slot : queue[s].status # "processing"
  BY <1>1 DEF NoneStranded
<1>3. \A s \in Slot : queue[s].status \in {"free", "pending", "processing"}
  BY DEF EngineInv, TypeOK, Event, EventRow, NoRow
<1>4. QED
  BY <1>2, <1>3 DEF Live, Pending

LEMMA WatchStep ==
  ASSUME LosesNotices = FALSE, WatchInv, Next
  PROVE  FirstLeaseWatched'
<1> USE DEF WatchInv
<1>1. /\ pc \in [Worker -> {"down", "recovering", "claiming", "idle",
                            "handling", "enforcing", "blocking", "closing",
                            "checking", "opening", "opened", "arming",
                            "sleeping"}]
      /\ task \in [Task -> TaskState] /\ exec \in [Task -> ExecState]
  BY DEF EngineInv, TypeOK
<1>2. CASE WorkerNext
  <2>1. PICK w \in Worker : Lock(w) \/ Step(w) \/ Crash(w) \/ Raise(w)
                           \/ \E s \in Slot : Claim(w, s)
    BY <1>2 DEF WorkerNext
  <2>2. \A v \in Worker \ {w} : pc'[v] = "down"
    BY <2>1, StepsAlone
  <2>3. CASE Arm(w)
    <3>1. ~armed' => \A t \in Task : exec'[t] \notin {"running", "expired", "failed"}
      BY <1>1, <2>3 DEF Arm, Deadline, ledgerVars
    <3>2. QED
      BY <2>2, <3>1 DEF FirstLeaseWatched, Unwoken
  <2>4. CASE ~Arm(w)
    <3>1. pc'[w] # "sleeping"
      BY <1>1, <2>1, <2>4
         DEF Lock, Step, Crash, Raise, Gone, Claim, RecoverProcessing,
             NothingDue, Idle, Handler, Dispatch, Enforce, BlockUnclaimed,
             Judge, Deliver, Retry, RejectProtocol, End, Defer, Waiting,
             FirstCheck, Open, SecondCheck, WakeUp, Timeout, Awake, Goto,
             GoesOn, Handled
    <3>2. QED
      BY <2>2, <3>1 DEF FirstLeaseWatched, Unwoken
  <2>5. QED
    BY <2>3, <2>4
<1>3. CASE ProducerNext
  <2>1. PICK p \in Producer :
           \/ Notify(p) \/ Forget(p) \/ \E k \in Submitted : Submit(p, k)
           \/ \E t \in Task : \/ CreateTask(p, t) \/ FailTask(p, t)
                              \/ CompleteTask(p, t) \/ CloseTask(p, t)
                              \/ DecideTask(p, t)
    BY <1>3 DEF ProducerNext
  <2>2. CASE Notify(p)
    BY <2>2 DEF Notify, FirstLeaseWatched, Unwoken
  <2>3. CASE ~Notify(p)
    <3>1. owes' # {}
      BY <2>1, <2>3 DEF Forget, Submit, CreateTask, FailTask, CompleteTask,
                        CloseTask, DecideTask, Commits
    <3>2. QED
      BY <3>1 DEF FirstLeaseWatched, Unwoken
  <2>4. QED
    BY <2>2, <2>3
<1>4. ASSUME NEW t \in Task, ClaimTask(t)
      PROVE  FirstLeaseWatched'
  <2>1. /\ task[t] = "open" /\ exec[t] \in {"none", "released"}
        /\ UNCHANGED <<pc, armed, fifo, owes, retries, approved>>
        /\ \A u \in Task \ {t} : exec'[u] = exec[u]
    BY <1>1, <1>4 DEF ClaimTask, wakeVars
  <2>2. ASSUME NEW w \in Worker, Unwoken(w)
        PROVE  retries[t] > 0 \/ t \in approved
    <3>1. CASE exec[t] = "released"
      BY <2>1, <3>1 DEF Reopened
    <3>2. CASE exec[t] = "none" /\ t \notin approved
      <4>1. Live # {}
        BY <2>1, <3>2 DEF UnclaimedTracked
      <4>2. Pending # {}
        BY <2>2, <4>1, AsleepAllPending DEF Unwoken
      <4>3. QED
        BY <2>2, <4>2 DEF Unwoken, WakeNotLost
    <3>3. QED
      BY <2>1, <3>1, <3>2
  <2>3. QED
    BY <2>1, <2>2 DEF FirstLeaseWatched, Unwoken
<1>5. ASSUME NEW t \in Task, LeaseExpires(t)
      PROVE  FirstLeaseWatched'
  BY <1>1, <1>5 DEF LeaseExpires, FirstLeaseWatched, Unwoken, wakeVars
<1>6. ASSUME NEW s \in Slot, EventDue(s)
      PROVE  FirstLeaseWatched'
  BY <1>6 DEF EventDue, FirstLeaseWatched, Unwoken, wakeVars, ledgerVars
<1>7. QED
  BY <1>2, <1>3, <1>4, <1>5, <1>6 DEF Next, EnvironmentNext

LEMMA WatchInvariant ==
  ASSUME LosesNotices = FALSE
  PROVE  Spec => []WatchInv
<1>1. Init => CreatedEvents /\ Reopened /\ FirstLeaseWatched
  BY DEF Init, CreatedEvents, Reopened, FirstLeaseWatched, Unwoken, Live, NoRow
<1>2. WatchInv /\ [Next]_vars => CreatedEvents' /\ Reopened' /\ FirstLeaseWatched'
  <2>1. WatchInv /\ Next => CreatedEvents' /\ Reopened' /\ FirstLeaseWatched'
    BY CreatedStep, ReopenedStep, WatchStep DEF WatchInv
  <2>2. WatchInv /\ UNCHANGED vars
          => CreatedEvents' /\ Reopened' /\ FirstLeaseWatched'
    <3>1. CreatedEvents /\ UNCHANGED vars => CreatedEvents'
      BY DEF vars, queueVars, ledgerVars, CreatedEvents, Live, Settled
    <3>2. Reopened /\ FirstLeaseWatched /\ UNCHANGED vars
            => Reopened' /\ FirstLeaseWatched'
      BY DEF vars, ledgerVars, wakeVars, Reopened, FirstLeaseWatched, Unwoken
    <3>3. QED
      BY <3>1, <3>2 DEF WatchInv
  <2>3. QED
    BY <2>1, <2>2
<1>3. Init => FifoOpen
  BY DEF Init, FifoOpen
<1>4. EngineInv /\ FifoOpen /\ WakeNotLost /\ [Next]_vars => FifoOpen'
  BY WakeStep
<1>5. Spec => []WakeNotLost
  BY NoLostWake
<1>6. QED
  BY <1>1, <1>2, <1>3, <1>4, <1>5, EngineInvariant, NothingStranded,
     UnclaimedNeverForgotten, PTL DEF Spec, WatchInv

\* When producers live to notify, a worker that sleeps without a timeout misses
\* no lease of a task that was never requeued and on which the Chairman did not
\* decide, for any limit of attempts and any reserved tasks: the event of such
\* a task keeps the worker awake until it is claimed.  A second claim of a task
\* may be missed: nothing announces a claim to the worker.
THEOREM FirstLeaseNotMissed ==
  ASSUME LosesNotices = FALSE
  PROVE  Spec => []FirstLeaseWatched
<1>1. WatchInv => FirstLeaseWatched
  BY DEF WatchInv
<1>2. Spec => []WatchInv
  BY WatchInvariant
<1>3. QED
  BY <1>1, <1>2, PTL

=============================================================================
