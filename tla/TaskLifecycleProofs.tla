------------------------ MODULE TaskLifecycleProofs ------------------------
(* Theorems of TaskLifecycle for every value of its constants.             *)
EXTENDS TaskLifecycle, TLAPS

-----------------------------------------------------------------------------
(* Types                                                                   *)

\* Setting one field of a row to a value of its type gives a row.
LEMMA RowUpdates ==
  ASSUME NEW row \in Execution
  PROVE  /\ \A b \in BOOLEAN : [row EXCEPT !.lease = b] \in Execution
         /\ \A s \in ExecStatus : [row EXCEPT !.status = s] \in Execution
         /\ \A p \in {"none", "alive", "dead"} : [row EXCEPT !.proc = p] \in Execution
<1>1. ASSUME NEW b \in BOOLEAN PROVE [row EXCEPT !.lease = b] \in Execution
  BY DEF Execution
<1>2. ASSUME NEW s \in ExecStatus PROVE [row EXCEPT !.status = s] \in Execution
  BY DEF Execution
<1>3. ASSUME NEW p \in {"none", "alive", "dead"}
      PROVE  [row EXCEPT !.proc = p] \in Execution
  BY DEF Execution
<1>4. QED
  BY <1>1, <1>2, <1>3

\* What _recover_execution writes is a row again, for any rows read and met.
LEMMA RecoveredTypes ==
  ASSUME NEW row \in Execution, NEW seen \in Execution,
         NEW s \in TaskStatus, NEW r \in SUBSET ApprovalId,
         NEW text \in SUBSET ApprovalId
  PROVE  /\ Outcome(seen) \in {"unknown", "exhausted", "requeued"}
         /\ RecoveredRow(row, seen) \in Execution
         /\ RecoveredStatus(s, seen) \in TaskStatus
         /\ RecoveredReason(r, seen, text) \in SUBSET ApprovalId
<1>1. Outcome(seen) \in {"unknown", "exhausted", "requeued"}
  BY DEF Outcome
<1>2. RecoveredRow(row, seen) \in Execution
  <2>1. CASE Outcome(seen) = "unknown"
    BY <2>1, RowUpdates DEF RecoveredRow, ExecStatus
  <2>2. CASE Outcome(seen) \in {"exhausted", "requeued"}
    <3>1. Outcome(seen) \in ExecStatus /\ seen.attempts + 1 \in Nat
      BY <2>2 DEF Execution, ExecStatus
    <3>2. RecoveredRow(row, seen)
            = [row EXCEPT !.status = Outcome(seen), !.attempts = seen.attempts + 1]
      BY <2>2 DEF RecoveredRow
    <3>3. QED
      BY <3>1, <3>2 DEF Execution
  <2>3. QED
    BY <1>1, <2>1, <2>2
<1>3. RecoveredStatus(s, seen) \in TaskStatus
  BY <1>1 DEF RecoveredStatus, TaskStatus
<1>4. {} \in SUBSET ApprovalId
  OBVIOUS
<1>5. RecoveredReason(r, seen, text) \in {r, text, {}}
  BY DEF RecoveredReason
<1>6. RecoveredReason(r, seen, text) \in SUBSET ApprovalId
  BY <1>4, <1>5
<1>7. QED
  BY <1>1, <1>2, <1>3, <1>6

LEMMA InitType == Init => TypeOK
<1>1. NoExecution \in Execution
  BY DEF NoExecution, Execution, ExecStatus
<1>2. Idle \in Call
  BY <1>1 DEF Idle, Call
<1>3. QED
  BY <1>1, <1>2, ConstantsAssumption
     DEF Init, TypeOK, TaskStatus, Approval, ApprovalId

LEMMA ExecutorTypes ==
  ASSUME TypeOK, ExecutorNext
  PROVE  TypeOK'
<1> USE DEF TypeOK, workVars, approvalVars
<1>1. ASSUME NEW e \in Executor, Register(e)
      PROVE  TypeOK'
  BY <1>1 DEF Register
<1>2. ASSUME NEW t \in Task, NEW e \in Executor, NEW limit \in Limits,
             NEW proc \in {"none", "alive"}, Claim(t, e, limit, proc)
      PROVE  TypeOK'
  <2>1. exec'[t] \in Execution /\ exec' \in [Task -> Execution]
    BY <1>2, ConstantsAssumption DEF Claim, Execution, ExecStatus, NextGeneration
  <2>2. exec[t].generation \in Nat /\ NextGeneration(t) \in 1 .. MaxGeneration
    BY <1>2, ConstantsAssumption DEF Claim, Execution, NextGeneration
  <2>3. claims' \subseteq Task \X (1 .. MaxGeneration) \X Executor
    BY <1>2, <2>2 DEF Claim
  <2>4. launching' \subseteq claims'
    BY <1>2 DEF Claim
  <2>5. QED
    BY <1>2, <2>1, <2>2, <2>3, <2>4 DEF Claim, TaskStatus
<1>3. ASSUME NEW t \in Task, NEW g \in 1 .. MaxGeneration, NEW e \in Executor,
             AttachProcess(t, g, e)
      PROVE  TypeOK'
  BY <1>3 DEF AttachProcess, Execution
<1>4. ASSUME NEW t \in Task, NEW g \in 1 .. MaxGeneration, NEW e \in Executor,
             NEW token \in TokenUse, Heartbeat(t, g, e, token)
      PROVE  TypeOK'
  <2>1. exec[t] \in Execution
    OBVIOUS
  <2>2. exec' \in [Task -> Execution]
    BY <1>4, <2>1, RowUpdates DEF Heartbeat
  <2>3. executor' \in [Executor -> {"absent", "healthy", "quarantined"}]
    BY <1>4 DEF Heartbeat, SetExecutor
  <2>4. author' \in [Task -> Nat] /\ launching' \subseteq claims'
    BY <1>4 DEF Heartbeat, AcceptedFrom
  <2>5. QED
    BY <1>4, <2>2, <2>3, <2>4 DEF Heartbeat, AcceptedFrom
<1>5. ASSUME NEW t \in Task, NEW g \in 1 .. MaxGeneration, NEW e \in Executor,
             NEW token \in TokenUse, Checkpoint(t, g, e, token)
      PROVE  TypeOK'
  <2>1. exec[t] \in Execution
    OBVIOUS
  <2>2. exec' \in [Task -> Execution]
    BY <1>5, <2>1, RowUpdates DEF Checkpoint
  <2>3. author' \in [Task -> Nat] /\ launching' \subseteq claims'
    BY <1>5 DEF Checkpoint, AcceptedFrom
  <2>4. QED
    BY <1>5, <2>2, <2>3 DEF Checkpoint, AcceptedFrom
<1>6. ASSUME NEW t \in Task, NEW g \in 1 .. MaxGeneration, NEW e \in Executor,
             NEW token \in TokenUse, FailRecoverably(t, g, e, token)
      PROVE  TypeOK'
  <2>1. exec[t] \in Execution /\ "failed" \in ExecStatus
    BY DEF ExecStatus
  <2>2. exec' \in [Task -> Execution]
    BY <1>6, <2>1, RowUpdates DEF FailRecoverably
  <2>3. {} \in SUBSET ApprovalId
    OBVIOUS
  <2>4. /\ status' \in [Task -> TaskStatus]
        /\ reason' \in [Task -> SUBSET ApprovalId]
    BY <2>3, <1>6 DEF FailRecoverably, TaskStatus
  <2>5. author' \in [Task -> Nat] /\ launching' \subseteq claims'
    BY <1>6 DEF FailRecoverably, AcceptedFrom
  <2>6. QED
    BY <1>6, <2>2, <2>4, <2>5 DEF FailRecoverably, AcceptedFrom
<1>7. ASSUME NEW t \in Task, NEW g \in 1 .. MaxGeneration, NEW e \in Executor,
             NEW token \in TokenUse, NEW text \in Texts,
             FailPermanently(t, g, e, token, text)
      PROVE  TypeOK'
  <2>1. text \in SUBSET ApprovalId
    BY ConstantsAssumption
  <2>2. exec[t] \in Execution /\ "exhausted" \in ExecStatus
    BY DEF ExecStatus
  <2>3. exec' \in [Task -> Execution]
    BY <1>7, <2>2, RowUpdates DEF FailPermanently
  <2>4. /\ status' \in [Task -> TaskStatus]
        /\ reason' \in [Task -> SUBSET ApprovalId]
    BY <1>7, <2>1 DEF FailPermanently, TaskStatus
  <2>5. author' \in [Task -> Nat] /\ launching' \subseteq claims'
    BY <1>7 DEF FailPermanently, AcceptedFrom
  <2>6. QED
    BY <1>7, <2>3, <2>4, <2>5 DEF FailPermanently, AcceptedFrom
<1>8. ASSUME NEW t \in Task, NEW g \in 1 .. MaxGeneration, NEW e \in Executor,
             NEW token \in TokenUse, Complete(t, g, e, token)
      PROVE  TypeOK'
  <2>1. exec[t] \in Execution /\ "completed" \in ExecStatus
    BY DEF ExecStatus
  <2>2. exec' \in [Task -> Execution]
    BY <1>8, <2>1, RowUpdates DEF Complete
  <2>3. /\ status' \in [Task -> TaskStatus]
        /\ result' \in [Task -> BOOLEAN]
    BY <1>8 DEF Complete, TaskStatus
  <2>4. author' \in [Task -> Nat] /\ launching' \subseteq claims'
    BY <1>8 DEF Complete, AcceptedFrom
  <2>5. QED
    BY <1>8, <2>2, <2>3, <2>4 DEF Complete, AcceptedFrom
<1>9. QED
  BY <1>1, <1>2, <1>3, <1>4, <1>5, <1>6, <1>7, <1>8 DEF ExecutorNext

\* What each of the four read-then-write operations leaves, from any row read.
LEMMA WritesTypes ==
  ASSUME TypeOK, NEW op \in SplitOps, NEW t \in Task, NEW seen \in Execution,
         NEW text \in Texts, Writes(op, t, seen, text)
  PROVE  /\ status' \in [Task -> TaskStatus]
         /\ reason' \in [Task -> SUBSET ApprovalId]
         /\ result' \in [Task -> BOOLEAN]
         /\ exec' \in [Task -> Execution]
         /\ executor' \in [Executor -> {"absent", "healthy", "quarantined"}]
         /\ uncounted' \subseteq Task
         /\ UNCHANGED <<claims, launching, author, approvalVars, reconciliation>>
<1> USE DEF TypeOK
<1>1. {} \in SUBSET ApprovalId /\ text \in SUBSET ApprovalId
  BY ConstantsAssumption
<1>2. exec[t] \in Execution /\ status[t] \in TaskStatus
        /\ reason[t] \in SUBSET ApprovalId
  OBVIOUS
<1>3. CASE op = "create"
  BY <1>3 DEF Writes, CreateTask, TaskStatus, workVars
<1>4. CASE op = "cancel"
  <2>1. CancelTask(t)
    BY <1>4 DEF Writes
  <2>2. exec' \in [Task -> Execution]
    BY <2>1, <1>2, RowUpdates DEF CancelTask, ExecStatus
  <2>3. QED
    BY <2>1, <2>2, <1>1 DEF CancelTask, TaskStatus, workVars
<1>5. CASE op = "recover"
  <2>1. RecoverTask(t, seen, text)
    BY <1>5 DEF Writes
  <2>2. /\ RecoveredRow(exec[t], seen) \in Execution
        /\ RecoveredStatus(status[t], seen) \in TaskStatus
        /\ RecoveredReason(reason[t], seen, text) \in SUBSET ApprovalId
    BY <1>1, <1>2, RecoveredTypes
  <2>3. executor' \in [Executor -> {"absent", "healthy", "quarantined"}]
    BY <2>1 DEF RecoverTask, SetExecutor
  <2>4. QED
    BY <2>1, <2>2, <2>3 DEF RecoverTask
<1>6. CASE op = "block"
  <2>1. BlockUnclaimed(t)
    BY <1>6 DEF Writes
  <2>2. QED
    BY <2>1, <1>1 DEF BlockUnclaimed, TaskStatus, workVars
<1>7. QED
  BY <1>3, <1>4, <1>5, <1>6 DEF SplitOps

LEMMA OperatorTypes ==
  ASSUME TypeOK, OperatorNext
  PROVE  TypeOK'
<1>1. NoExecution \in Execution /\ Idle \in Call
  BY DEF NoExecution, Execution, ExecStatus, Idle, Call
<1>2. ASSUME NEW o \in Operator, NEW op \in SplitOps, NEW t \in Task, Start(o, op, t)
      PROVE  TypeOK'
  <2>1. call' \in [Operator -> Call]
    BY <1>1, <1>2 DEF Start, Reading, Call, TypeOK
  <2>2. QED
    BY <1>2, <2>1 DEF Start, TypeOK, workVars, approvalVars
<1>3. ASSUME NEW o \in Operator, NEW text \in Texts, Finish(o, text)
      PROVE  TypeOK'
  <2>1. call[o] \in Call /\ call' \in [Operator -> Call]
    BY <1>1, <1>3 DEF Finish, TypeOK
  <2>2. Writes(call[o].op, call[o].task, call[o].seen, text)
    BY <1>3 DEF Finish
  <2>3. call[o] \in [op: SplitOps, task: Task, seen: Execution, read: SUBSET Task]
    BY <1>3, <2>1 DEF Finish, Call
  <2>4. call[o].op \in SplitOps /\ call[o].task \in Task /\ call[o].seen \in Execution
    BY <2>3
  <2>5. QED
    BY <2>1, <2>2, <2>4, WritesTypes DEF TypeOK, approvalVars
<1>4. ASSUME NEW o \in Operator, Abandon(o)
      PROVE  TypeOK'
  BY <1>1, <1>4 DEF Abandon, TypeOK, workVars, approvalVars
<1>5. ASSUME RequestApproval
      PROVE  TypeOK'
  BY <1>5, ConstantsAssumption
     DEF RequestApproval, TypeOK, workVars, Approval, ApprovalId
<1>6. ASSUME NEW i \in ApprovalId, NEW d \in {"approved", "denied"}, Decide(i, d)
      PROVE  TypeOK'
  <2>1. /\ status' \in [Task -> TaskStatus]
        /\ reason' \in [Task -> SUBSET ApprovalId]
    BY <1>6 DEF Decide, TypeOK, TaskStatus
  <2>2. approval' \in [ApprovalId -> Approval]
    BY <1>6 DEF Decide, TypeOK, Approval
  <2>3. uncounted' \subseteq Task
    BY <1>6 DEF Decide, DecidedTasks, TypeOK
  <2>4. QED
    BY <1>6, <2>1, <2>2, <2>3 DEF Decide, TypeOK
<1>7. ASSUME NEW t \in Task, Reconcile(t)
      PROVE  TypeOK'
  <2>1. exec[t] \in Execution /\ "reconciled" \in ExecStatus
    BY DEF TypeOK, ExecStatus
  <2>2. exec' \in [Task -> Execution]
    BY <1>7, <2>1, RowUpdates DEF Reconcile, TypeOK
  <2>3. /\ status' \in [Task -> TaskStatus]
        /\ reason' \in [Task -> SUBSET ApprovalId]
    BY <1>7 DEF Reconcile, TypeOK, TaskStatus
  <2>4. QED
    BY <1>7, <2>2, <2>3 DEF Reconcile, TypeOK, workVars, approvalVars
<1>8. QED
  BY <1>2, <1>3, <1>4, <1>5, <1>6, <1>7 DEF OperatorNext

LEMMA CycleTypes ==
  ASSUME TypeOK, RunCycle
  PROVE  TypeOK'
<1>1. {} \in SUBSET ApprovalId
  OBVIOUS
<1>2. CASE CycleRecovers
  <2>1. \A t \in Task : /\ RecoveredRow(exec[t], exec[t]) \in Execution
                        /\ RecoveredStatus(status[t], exec[t]) \in TaskStatus
                        /\ RecoveredReason(reason[t], exec[t], {}) \in SUBSET ApprovalId
    BY <1>1, RecoveredTypes DEF TypeOK
  <2>2. executor' \in [Executor -> {"absent", "healthy", "quarantined"}]
    BY <1>2 DEF CycleRecovers, SetExecutor, TypeOK
  <2>3. QED
    BY <1>2, <2>1, <2>2 DEF CycleRecovers, TypeOK, workVars, approvalVars
<1>3. CASE CycleDispatches
  <2>1. lastApproval \in Nat /\ Escalations \in Nat
    BY ConstantsAssumption DEF TypeOK, Escalations
  <2>2. lastApproval' \in 0 .. MaxApproval
    BY <1>3, <2>1, ConstantsAssumption DEF CycleDispatches
  <2>3. Escalated \subseteq Task
    BY ConstantsAssumption DEF Escalated
  <2>4. ASSUME NEW i \in ApprovalId
        PROVE  approval'[i] \in Approval
    <3>1. CASE \E t \in Escalated : EscalationId(t) = i
      <4>1. PICK u \in Escalated : EscalationId(u) = i
        BY <3>1
      <4>2. (CHOOSE t \in Escalated : EscalationId(t) = i) \in Escalated
        BY <4>1
      <4>3. QED
        BY <1>3, <2>3, <3>1, <4>2 DEF CycleDispatches, Approval
    <3>2. CASE ~ \E t \in Escalated : EscalationId(t) = i
      BY <1>3, <3>2 DEF CycleDispatches, TypeOK
    <3>3. QED
      BY <3>1, <3>2
  <2>5. approval' \in [ApprovalId -> Approval]
    BY <1>3, <2>4 DEF CycleDispatches
  <2>6. \A id : Mentions(id) \in SUBSET ApprovalId
    BY DEF Mentions
  <2>7. /\ status' \in [Task -> TaskStatus]
        /\ reason' \in [Task -> SUBSET ApprovalId]
    BY <1>3, <2>6 DEF CycleDispatches, TypeOK, TaskStatus
  <2>8. QED
    BY <1>3, <2>2, <2>5, <2>7 DEF CycleDispatches, TypeOK, workVars
<1>4. QED
  BY <1>2, <1>3 DEF RunCycle

LEMMA EnvironmentTypes ==
  ASSUME TypeOK, EnvironmentNext
  PROVE  TypeOK'
<1>1. ASSUME NEW t \in Task, LeaseExpires(t)
      PROVE  TypeOK'
  <2>1. exec[t] \in Execution
    BY DEF TypeOK
  <2>2. exec' \in [Task -> Execution]
    BY <1>1, <2>1, RowUpdates DEF LeaseExpires, TypeOK
  <2>3. QED
    BY <1>1, <2>2 DEF LeaseExpires, TypeOK, workVars, approvalVars
<1>2. ASSUME NEW t \in Task, ProcessExits(t)
      PROVE  TypeOK'
  <2>1. exec[t] \in Execution
    BY DEF TypeOK
  <2>2. exec' \in [Task -> Execution]
    BY <1>2, <2>1, RowUpdates DEF ProcessExits, TypeOK
  <2>3. QED
    BY <1>2, <2>2 DEF ProcessExits, TypeOK, workVars, approvalVars
<1>3. QED
  BY <1>1, <1>2 DEF EnvironmentNext

LEMMA StepTypes == TypeOK /\ [Next]_vars => TypeOK'
<1>1. CASE UNCHANGED vars
  BY <1>1 DEF vars, TypeOK
<1>2. QED
  BY <1>1, ExecutorTypes, OperatorTypes, CycleTypes, EnvironmentTypes DEF Next

\* Every row the operations of ops.py write is a row: statuses are ones the
\* tables know, a claim's generation is positive, and an operator that finishes
\* a read-then-write operation has read a row.
THEOREM TypeCorrect == Spec => []TypeOK
<1>1. QED
  BY InitType, StepTypes, PTL DEF Spec

-----------------------------------------------------------------------------
(* A task and its execution row                                            *)

\* An operator that is about to write a recovery has read the row of a task that
\* exists: without this a recovery could turn the row of an absent task unknown.
RecoversTask ==
    \A o \in Operator : call[o].op = "recover" => status[call[o].task] # "absent"

AgreementInv == TypeOK /\ StatusAgreement /\ RecoversTask

\* What a step must do for one task: agree again, and not lose the task.
Kept(t) ==
    /\ Agree(status'[t], exec'[t].status)
    /\ status[t] # "absent" => status'[t] # "absent"

LEMMA ExecutorKeeps ==
  ASSUME AgreementInv, ExecutorNext, NEW u \in Task
  PROVE  Kept(u)
<1>1. Agree(status[u], exec[u].status) /\ TypeOK
  BY DEF AgreementInv, StatusAgreement
<1>2. ASSUME NEW e \in Executor, Register(e)
      PROVE  Kept(u)
  BY <1>1, <1>2 DEF Register, Kept
<1>3. ASSUME NEW t \in Task, NEW e \in Executor, NEW limit \in Limits,
             NEW proc \in {"none", "alive"}, Claim(t, e, limit, proc)
      PROVE  Kept(u)
  BY <1>1, <1>3 DEF Claim, Kept, TypeOK, Agree
<1>4. ASSUME NEW t \in Task, NEW g \in 1 .. MaxGeneration, NEW e \in Executor,
             AttachProcess(t, g, e)
      PROVE  Kept(u)
  BY <1>1, <1>4 DEF AttachProcess, Kept, TypeOK, Execution
<1>5. ASSUME NEW t \in Task, NEW g \in 1 .. MaxGeneration, NEW e \in Executor,
             NEW token \in TokenUse,
             Heartbeat(t, g, e, token) \/ Checkpoint(t, g, e, token)
      PROVE  Kept(u)
  <2>1. exec' = [exec EXCEPT ![t].lease = TRUE] /\ status' = status
    BY <1>5 DEF Heartbeat, Checkpoint
  <2>2. exec'[u].status = exec[u].status
    BY <1>1, <2>1 DEF TypeOK, Execution
  <2>3. QED
    BY <1>1, <2>1, <2>2 DEF Kept
<1>6. ASSUME NEW t \in Task, NEW g \in 1 .. MaxGeneration, NEW e \in Executor,
             NEW token \in TokenUse, FailRecoverably(t, g, e, token)
      PROVE  Kept(u)
  BY <1>1, <1>6 DEF FailRecoverably, Kept, TypeOK, Execution, Agree
<1>7. ASSUME NEW t \in Task, NEW g \in 1 .. MaxGeneration, NEW e \in Executor,
             NEW token \in TokenUse, NEW text \in Texts,
             FailPermanently(t, g, e, token, text)
      PROVE  Kept(u)
  BY <1>1, <1>7 DEF FailPermanently, Kept, TypeOK, Execution, Agree
<1>8. ASSUME NEW t \in Task, NEW g \in 1 .. MaxGeneration, NEW e \in Executor,
             NEW token \in TokenUse, Complete(t, g, e, token)
      PROVE  Kept(u)
  BY <1>1, <1>8 DEF Complete, Kept, TypeOK, Execution, Agree
<1>9. QED
  BY <1>2, <1>3, <1>4, <1>5, <1>6, <1>7, <1>8 DEF ExecutorNext

\* A recovery writes a status and a row that agree, whatever was read and
\* whatever the row is by the time of the write.
LEMMA RecoveredAgrees ==
  ASSUME NEW row \in Execution, NEW seen \in Execution, NEW s \in TaskStatus,
         s # "absent", Agree(s, row.status)
  PROVE  /\ Agree(RecoveredStatus(s, seen), RecoveredRow(row, seen).status)
         /\ RecoveredStatus(s, seen) # "absent"
<1>1. Outcome(seen) \in {"unknown", "exhausted", "requeued"}
  BY DEF Outcome
<1>2. RecoveredRow(row, seen).status = Outcome(seen)
  BY <1>1 DEF RecoveredRow, Execution
<1>3. QED
  BY <1>1, <1>2 DEF RecoveredStatus, Agree

LEMMA WritesKeep ==
  ASSUME AgreementInv, NEW u \in Task,
         NEW op \in SplitOps, NEW t \in Task, NEW seen \in Execution, NEW text,
         op = "recover" => status[t] # "absent",
         Writes(op, t, seen, text)
  PROVE  Kept(u)
<1>1. Agree(status[u], exec[u].status) /\ TypeOK
  BY DEF AgreementInv, StatusAgreement
<1>2. CASE op = "create"
  BY <1>1, <1>2 DEF Writes, CreateTask, Kept, TypeOK, Agree
<1>3. CASE op = "cancel"
  <2>1. CancelTask(t)
    BY <1>3 DEF Writes
  <2>2. QED
    BY <1>1, <2>1 DEF CancelTask, Kept, TypeOK, Execution, Agree
<1>4. CASE op = "recover"
  <2>1. RecoverTask(t, seen, text)
    BY <1>4 DEF Writes
  <2>2. CASE u = t
    <3>1. exec[u] \in Execution /\ status[u] \in TaskStatus /\ status[u] # "absent"
      BY <1>1, <1>4, <2>2 DEF TypeOK
    <3>2. /\ exec'[u] = RecoveredRow(exec[u], seen)
          /\ status'[u] = RecoveredStatus(status[u], seen)
      BY <1>1, <2>1, <2>2 DEF RecoverTask, TypeOK
    <3>3. QED
      BY <1>1, <3>1, <3>2, RecoveredAgrees DEF Kept
  <2>3. CASE u # t
    BY <1>1, <2>1, <2>3 DEF RecoverTask, Kept, TypeOK
  <2>4. QED
    BY <2>2, <2>3
<1>5. CASE op = "block"
  <2>1. BlockUnclaimed(t)
    BY <1>5 DEF Writes
  <2>2. exec' = exec
    BY <2>1 DEF BlockUnclaimed
  <2>3. CASE status[t] = "open"
    BY <1>1, <2>1, <2>2, <2>3 DEF BlockUnclaimed, Kept, TypeOK, Agree
  <2>4. CASE status[t] # "open"
    BY <1>1, <2>1, <2>2, <2>4 DEF BlockUnclaimed, Kept
  <2>5. QED
    BY <2>3, <2>4
<1>6. QED
  BY <1>2, <1>3, <1>4, <1>5 DEF SplitOps

LEMMA OperatorKeeps ==
  ASSUME AgreementInv, OperatorNext, NEW u \in Task
  PROVE  Kept(u)
<1>1. Agree(status[u], exec[u].status) /\ TypeOK
  BY DEF AgreementInv, StatusAgreement
<1>2. ASSUME NEW o \in Operator, NEW op \in SplitOps, NEW t \in Task, Start(o, op, t)
      PROVE  Kept(u)
  BY <1>1, <1>2 DEF Start, Kept
<1>3. ASSUME NEW o \in Operator, NEW text \in Texts, Finish(o, text)
      PROVE  Kept(u)
  <2>1. call[o] \in [op: SplitOps, task: Task, seen: Execution, read: SUBSET Task]
    BY <1>1, <1>3 DEF Finish, TypeOK, Call
  <2>2. call[o].op = "recover" => status[call[o].task] # "absent"
    BY DEF AgreementInv, RecoversTask
  <2>3. Writes(call[o].op, call[o].task, call[o].seen, text)
    BY <1>3 DEF Finish
  <2>4. QED
    BY <2>1, <2>2, <2>3, WritesKeep
<1>4. ASSUME NEW o \in Operator, Abandon(o)
      PROVE  Kept(u)
  BY <1>1, <1>4 DEF Abandon, Kept
<1>5. ASSUME RequestApproval
      PROVE  Kept(u)
  BY <1>1, <1>5 DEF RequestApproval, Kept
<1>6. ASSUME NEW i \in ApprovalId, NEW d \in {"approved", "denied"}, Decide(i, d)
      PROVE  Kept(u)
  <2>1. exec' = exec
    BY <1>6 DEF Decide
  <2>2. CASE u \in DecidedTasks(i)
    <3>1. status[u] = "blocked" /\ status'[u] \in {"open", "done"}
      BY <1>6, <2>2 DEF Decide, DecidedTasks
    <3>2. QED
      BY <1>1, <2>1, <3>1 DEF Kept, Agree
  <2>3. CASE u \notin DecidedTasks(i)
    <3>1. status'[u] = status[u]
      BY <1>6, <2>3 DEF Decide
    <3>2. QED
      BY <1>1, <2>1, <3>1 DEF Kept
  <2>4. QED
    BY <2>2, <2>3
<1>7. ASSUME NEW t \in Task, Reconcile(t)
      PROVE  Kept(u)
  BY <1>1, <1>7 DEF Reconcile, Kept, TypeOK, Execution, Agree
<1>8. QED
  BY <1>2, <1>3, <1>4, <1>5, <1>6, <1>7 DEF OperatorNext

LEMMA CycleKeeps ==
  ASSUME AgreementInv, RunCycle, NEW u \in Task
  PROVE  Kept(u)
<1>1. /\ Agree(status[u], exec[u].status)
      /\ exec[u] \in Execution /\ status[u] \in TaskStatus
  BY DEF AgreementInv, StatusAgreement, TypeOK
<1>2. CASE CycleRecovers
  <2>1. CASE u \in Stale
    <3>1. status[u] # "absent"
      BY <1>1, <2>1 DEF Stale, NeedsRecovery, Agree
    <3>2. /\ exec'[u] = RecoveredRow(exec[u], exec[u])
          /\ status'[u] = RecoveredStatus(status[u], exec[u])
      BY <1>2, <2>1 DEF CycleRecovers
    <3>3. QED
      BY <1>1, <3>1, <3>2, RecoveredAgrees DEF Kept
  <2>2. CASE u \notin Stale
    <3>1. exec'[u] = exec[u] /\ status'[u] = status[u]
      BY <1>2, <2>2 DEF CycleRecovers
    <3>2. QED
      BY <1>1, <3>1 DEF Kept
  <2>3. QED
    BY <2>1, <2>2
<1>3. CASE CycleDispatches
  <2>1. exec' = exec
    BY <1>3 DEF CycleDispatches
  <2>2. CASE u \in Escalated
    <3>1. status[u] = "open" /\ status'[u] = "blocked"
      BY <1>3, <2>2 DEF CycleDispatches, Escalated, FirstOfLane, Candidate
    <3>2. QED
      BY <1>1, <2>1, <3>1 DEF Kept, Agree
  <2>3. CASE u \notin Escalated
    <3>1. status'[u] = status[u]
      BY <1>3, <2>3 DEF CycleDispatches
    <3>2. QED
      BY <1>1, <2>1, <3>1 DEF Kept
  <2>4. QED
    BY <2>2, <2>3
<1>4. QED
  BY <1>2, <1>3 DEF RunCycle

LEMMA StepKeeps ==
  ASSUME AgreementInv, [Next]_vars, NEW u \in Task
  PROVE  Kept(u)
<1>1. Agree(status[u], exec[u].status) /\ exec \in [Task -> Execution]
  BY DEF AgreementInv, StatusAgreement, TypeOK
<1>2. CASE EnvironmentNext
  BY <1>1, <1>2 DEF EnvironmentNext, LeaseExpires, ProcessExits, Kept, Execution
<1>3. CASE UNCHANGED vars
  BY <1>1, <1>3 DEF vars, Kept
<1>4. QED
  BY <1>2, <1>3, ExecutorKeeps, OperatorKeeps, CycleKeeps DEF Next

\* Calls change at Start and end at Finish and Abandon only.
LEMMA CallSteps ==
  ASSUME TypeOK, [Next]_vars, NEW o \in Operator
  PROVE  \/ call'[o] = call[o]
         \/ call'[o] = Idle
         \/ \E op \in SplitOps, t \in Task :
              Start(o, op, t) /\ call'[o] = Reading(op, t)
<1> USE DEF TypeOK
<1>1. CASE UNCHANGED vars
  BY <1>1 DEF vars
<1>2. CASE ExecutorNext
  <2>1. \A e \in Executor : Register(e) => UNCHANGED call
    BY DEF Register
  <2>2. \A t \in Task, e \in Executor, limit \in Limits, proc \in {"none", "alive"} :
          Claim(t, e, limit, proc) => UNCHANGED call
    BY DEF Claim
  <2>3. \A t \in Task, g \in 1 .. MaxGeneration, e \in Executor :
          AttachProcess(t, g, e) => UNCHANGED call
    BY DEF AttachProcess
  <2>4. \A t \in Task, g \in 1 .. MaxGeneration, e \in Executor, token \in TokenUse :
          /\ Heartbeat(t, g, e, token) => UNCHANGED call
          /\ Checkpoint(t, g, e, token) => UNCHANGED call
          /\ FailRecoverably(t, g, e, token) => UNCHANGED call
          /\ Complete(t, g, e, token) => UNCHANGED call
    BY DEF Heartbeat, Checkpoint, FailRecoverably, Complete
  <2>5. \A t \in Task, g \in 1 .. MaxGeneration, e \in Executor, token \in TokenUse,
           text \in Texts : FailPermanently(t, g, e, token, text) => UNCHANGED call
    BY DEF FailPermanently
  <2>6. QED
    BY <1>2, <2>1, <2>2, <2>3, <2>4, <2>5 DEF ExecutorNext
<1>3. CASE RunCycle \/ EnvironmentNext
  BY <1>3 DEF RunCycle, CycleRecovers, CycleDispatches, EnvironmentNext,
              LeaseExpires, ProcessExits
<1>4. CASE OperatorNext
  <2>1. ASSUME NEW p \in Operator, NEW op \in SplitOps, NEW t \in Task, Start(p, op, t)
        PROVE  \/ call'[o] = call[o]
               \/ Start(o, op, t) /\ call'[o] = Reading(op, t)
    <3>1. CASE o = p
      BY <2>1, <3>1 DEF Start
    <3>2. CASE o # p
      BY <2>1, <3>2 DEF Start
    <3>3. QED
      BY <3>1, <3>2
  <2>2. ASSUME NEW p \in Operator, NEW text \in Texts, Finish(p, text) \/ Abandon(p)
        PROVE  call'[o] = call[o] \/ call'[o] = Idle
    BY <2>2 DEF Finish, Abandon
  <2>3. ASSUME NEW p \in Operator, Abandon(p)
        PROVE  call'[o] = call[o] \/ call'[o] = Idle
    BY <2>3 DEF Abandon
  <2>4. QED
    BY <1>4, <2>1, <2>2, <2>3
       DEF OperatorNext, RequestApproval, Decide, Reconcile
<1>5. QED
  BY <1>1, <1>2, <1>3, <1>4 DEF Next

LEMMA AgreementStep == AgreementInv /\ [Next]_vars => AgreementInv'
<1> SUFFICES ASSUME AgreementInv, [Next]_vars PROVE AgreementInv'
  OBVIOUS
<1>1. TypeOK /\ TypeOK'
  BY StepTypes DEF AgreementInv
<1>2. StatusAgreement'
  BY StepKeeps DEF StatusAgreement, Kept
<1>3. ASSUME NEW o \in Operator, call'[o].op = "recover"
      PROVE  status'[call'[o].task] # "absent"
  <2>1. call'[o] # Idle
    BY <1>3 DEF Idle
  <2>2. CASE call'[o] = call[o]
    <3>1. call[o].task \in Task /\ status[call[o].task] # "absent"
      BY <1>1, <1>3, <2>1, <2>2 DEF AgreementInv, RecoversTask, TypeOK, Call
    <3>2. QED
      BY <2>2, <3>1, StepKeeps DEF Kept
  <2>3. ASSUME NEW op \in SplitOps, NEW t \in Task, Start(o, op, t),
               call'[o] = Reading(op, t)
        PROVE  status'[call'[o].task] # "absent"
    <3>1. op = "recover" /\ call'[o].task = t
      BY <1>3, <2>3 DEF Reading
    <3>2. Agree(status[t], exec[t].status) /\ NeedsRecovery(exec[t])
      BY <2>3, <3>1 DEF AgreementInv, StatusAgreement, Start, Reads, CanRecover
    <3>3. status[t] # "absent"
      BY <3>2 DEF Agree, NeedsRecovery
    <3>4. QED
      BY <3>1, <3>3, StepKeeps DEF Kept
  <2>4. QED
    BY <1>1, <1>3, <2>1, <2>2, <2>3, CallSteps
<1>4. QED
  BY <1>1, <1>2, <1>3 DEF AgreementInv, RecoversTask

\* A task and its execution row never contradict each other, for any number of
\* tasks, executors and operators and with every read-then-write operation of
\* ops.py split at its race window.
THEOREM AgreementHolds == Spec => []StatusAgreement
<1>1. Init => AgreementInv
  <2>1. Init => TypeOK
    BY InitType
  <2>2. Init => StatusAgreement
    BY DEF Init, StatusAgreement, Agree, NoExecution
  <2>3. Init => RecoversTask
    BY DEF Init, RecoversTask, Idle
  <2>4. QED
    BY <2>1, <2>2, <2>3 DEF AgreementInv
<1>2. AgreementInv => StatusAgreement
  BY DEF AgreementInv
<1>3. QED
  BY <1>1, <1>2, AgreementStep, PTL DEF Spec

=============================================================================
