--------------------------- MODULE TaskLifecycle ---------------------------
(***************************************************************************)
(* The task ledger of agent_company/ops.py: the rows of `tasks`,           *)
(* `task_executions`, `executors`, `approvals` and `task_reconciliations`, *)
(* and the operations that move them.  Several processes share the SQLite  *)
(* file: executors (runner.py or the CLI), the event worker that runs      *)
(* run_cycle, the CEO's and the Chairman's command lines.                  *)
(*                                                                         *)
(* Methods that open with BEGIN IMMEDIATE, or whose first statement is a   *)
(* write, are one action.  create_task, cancel_task, recover_task and the  *)
(* unclaimed-task block of the event engine read before their transaction  *)
(* exists (sqlite3.connect with its default isolation level, db.py 304-309,*)
(* begins one at the first write): they are a Start and a Finish action,   *)
(* between which any other process may act.                                *)
(***************************************************************************)
EXTENDS Integers, FiniteSets

CONSTANTS
    Task,          \* row ids of tasks
    Executor,      \* executor_id values
    Operator,      \* processes that run the read-then-write operations
    None,          \* SQL NULL
    Lane,          \* Lane[t]: the WIP lane of t's domain (ops.py _wip_lane)
    Title,         \* Title[t]: t's title, what create_task deduplicates on
    Reserved,      \* the tasks classify_reserved_action names an action for
    Rank,          \* the order "priority DESC, id ASC": greater goes first
    Limits,        \* the max_attempts a claim may pass
    Texts,         \* the approval ids a free-text error or reason may mention
    TokenUse,      \* whether executors pass their fencing token: TRUE, FALSE
    PriorApprovals,\* how many approvals the CEO had requested at the start
    PriorPending,  \* the ones among them that are still pending
    MaxGeneration, \* bound: claims of one task
    MaxApproval    \* bound: approvals in total

ProductLanes == {"product", "commercial"}
Lanes == ProductLanes \cup {"platform"}
SplitOps == {"create", "cancel", "recover", "block"}
ApprovalId == 1 .. MaxApproval

ASSUME ConstantsAssumption ==
    /\ Lane \in [Task -> Lanes]
    /\ Rank \in [Task -> Nat] /\ \A t, u \in Task : Rank[t] = Rank[u] => t = u
    /\ Reserved \subseteq Task
    /\ None \notin Task /\ None \notin Executor
    /\ Limits \subseteq Nat \ {0}
    /\ Texts \subseteq SUBSET ApprovalId
    /\ TokenUse \subseteq BOOLEAN
    /\ MaxGeneration \in Nat /\ MaxApproval \in Nat
    /\ PriorApprovals \in 0 .. MaxApproval
    /\ PriorPending \subseteq 1 .. PriorApprovals

VARIABLES
    status,         \* tasks.status, "absent" before the INSERT
    reason,         \* the n with "#n" a substring of tasks.blocked_reason
    result,         \* tasks.result IS NOT NULL
    exec,           \* the task's row of task_executions
    claims,         \* <<task, generation, executor>>: every claim ever granted
    launching,      \* the claims whose runner has not yet attached a process
    author,         \* history: whose generation the last accepted call had
    uncounted,      \* history: tasks whose attempts no longer count their claims
    executor,       \* executors.status, "absent" before the INSERT
    approval,       \* the rows of approvals
    lastApproval,   \* the largest id of approvals
    reconciliation, \* tasks with an immutable row in task_reconciliations
    call            \* the read-then-write operation each operator is inside

vars == <<status, reason, result, exec, claims, launching, author, uncounted,
          executor, approval, lastApproval, reconciliation, call>>
workVars == <<claims, launching, author, uncounted>>
approvalVars == <<approval, lastApproval>>

-----------------------------------------------------------------------------
(* Rows                                                                    *)

TaskStatus == {"absent", "open", "in_progress", "blocked",
               "done", "cancelled", "reconciled"}
ExecStatus == {"none", "running", "failed", "unknown", "requeued",
               "exhausted", "completed", "cancelled", "reconciled"}

\* proc is what _process_status says of the recorded pid: "none" when no
\* process is recorded.  lease says whether lease_expires_at is still ahead.
Execution == [status: ExecStatus, holder: Executor \cup {None},
              proc: {"none", "alive", "dead"}, lease: BOOLEAN,
              attempts: Nat, limit: Nat, generation: Nat]
NoExecution == [status |-> "none", holder |-> None, proc |-> "none",
                lease |-> FALSE, attempts |-> 0, limit |-> 0, generation |-> 0]

Approval == [task: Task \cup {None},
             status: {"none", "pending", "approved", "denied"}]
\* seen is the row a recovery works from; read is history, the tasks that were
\* active when the operation read.
Idle == [op |-> "idle", task |-> None, seen |-> NoExecution, read |-> {}]
Call == {Idle} \cup
        [op: SplitOps, task: Task, seen: Execution, read: SUBSET Task]

Active(t) == status[t] \in {"open", "in_progress", "blocked"}
Terminal == {"done", "cancelled", "reconciled"}

Init ==
    /\ status = [t \in Task |-> "absent"]
    /\ reason = [t \in Task |-> {}]
    /\ result = [t \in Task |-> FALSE]
    /\ exec = [t \in Task |-> NoExecution]
    /\ claims = {}
    /\ launching = {}
    /\ author = [t \in Task |-> 0]
    /\ uncounted = {}
    /\ executor = [e \in Executor |-> "absent"]
    /\ approval = [i \in ApprovalId |->
                     [task |-> None,
                      status |-> IF i > PriorApprovals THEN "none"
                                 ELSE IF i \in PriorPending THEN "pending"
                                 ELSE "denied"]]
    /\ lastApproval = PriorApprovals
    /\ reconciliation = {}
    /\ call = [o \in Operator |-> Idle]

-----------------------------------------------------------------------------
(* Executors: register, claim, and the calls made under a claim            *)

\* register_executor upserts: a quarantined executor is healthy again.
Register(e) ==
    /\ executor' = [executor EXCEPT ![e] = "healthy"]
    /\ UNCHANGED <<status, reason, result, exec, workVars, approvalVars,
                   reconciliation, call>>

\* An absent row is left absent by UPDATE executors ... WHERE executor_id=?.
SetExecutor(e, s) == IF executor[e] = "absent" THEN executor[e] ELSE s

\* The status checks of claim_task and the ON CONFLICT ... WHERE of the upsert.
Claimable(t) ==
    /\ status[t] = "open"
    /\ exec[t].status \in {"none", "requeued", "exhausted"}

\* generation = previous + 1: it makes the fencing token "generation:nonce" new.
\* Mutant: the generation of a reclaimed row is kept.
KeptGeneration(t) == IF exec[t].generation = 0 THEN 1 ELSE exec[t].generation
NextGeneration(t) == exec[t].generation + 1

\* claim_task: attempt_count is kept, everything else of the row is replaced.
Claim(t, e, limit, proc) ==
    /\ Claimable(t)
    /\ exec[t].generation < MaxGeneration
    /\ LET g == NextGeneration(t) IN
        /\ status' = [status EXCEPT ![t] = "in_progress"]
        /\ exec' = [exec EXCEPT ![t] =
                      [status |-> "running", holder |-> e, proc |-> proc,
                       lease |-> TRUE, attempts |-> exec[t].attempts,
                       limit |-> limit, generation |-> g]]
        /\ claims' = claims \cup {<<t, g, e>>}
        /\ launching' = IF proc = "none" THEN launching \cup {<<t, g, e>>}
                        ELSE launching
        /\ author' = [author EXCEPT ![t] = g]
    /\ UNCHANGED <<result, reason, uncounted, executor, approvalVars,
                   reconciliation, call>>

\* runner.py _attach_process matches the executor, not the generation.
AttachProcess(t, g, e) ==
    /\ <<t, g, e>> \in launching
    /\ launching' = launching \ {<<t, g, e>>}
    /\ exec' = [exec EXCEPT ![t].proc =
                  IF exec[t].holder = e THEN "alive" ELSE @]
    /\ UNCHANGED <<status, reason, result, claims, author, uncounted, executor,
                   approvalVars, reconciliation, call>>

\* A passed fencing token must be the row's; a missing one is not looked at.
\* Mutant: no token is ever compared.
TokenIgnored(t, g, token) == TRUE
TokenAccepted(t, g, token) == token => exec[t].generation = g

\* _active_execution: what heartbeat, checkpoint and fail check.
ActiveExecution(t, g, e, token) ==
    /\ <<t, g, e>> \in claims
    /\ exec[t].holder = e
    /\ TokenAccepted(t, g, token)
    /\ exec[t].status = "running"
    /\ exec[t].lease

\* A call under claim <<t, g, e>> is accepted.
AcceptedFrom(t, g, e) ==
    /\ author' = [author EXCEPT ![t] = g]
    /\ launching' = launching \ {<<t, g, e>>}
    /\ UNCHANGED <<claims, uncounted>>

Heartbeat(t, g, e, token) ==
    /\ ActiveExecution(t, g, e, token)
    /\ exec' = [exec EXCEPT ![t].lease = TRUE]
    /\ executor' = [executor EXCEPT ![e] = SetExecutor(e, "healthy")]
    /\ AcceptedFrom(t, g, e)
    /\ UNCHANGED <<status, reason, result, approvalVars, reconciliation,
                   call>>

\* checkpoint_task renews the lease too, but not the executor's row.
Checkpoint(t, g, e, token) ==
    /\ ActiveExecution(t, g, e, token)
    /\ exec' = [exec EXCEPT ![t].lease = TRUE]
    /\ AcceptedFrom(t, g, e)
    /\ UNCHANGED <<status, reason, result, executor, approvalVars,
                   reconciliation, call>>

FailRecoverably(t, g, e, token) ==
    /\ ActiveExecution(t, g, e, token)
    /\ exec' = [exec EXCEPT ![t].status = "failed"]
    /\ status' = [status EXCEPT ![t] = "in_progress"]
    /\ reason' = [reason EXCEPT ![t] = {}]
    /\ AcceptedFrom(t, g, e)
    /\ UNCHANGED <<result, executor, approvalVars, reconciliation, call>>

\* The blocked reason carries the executor's error text.
FailPermanently(t, g, e, token, text) ==
    /\ ActiveExecution(t, g, e, token)
    /\ exec' = [exec EXCEPT ![t].status = "exhausted"]
    /\ status' = [status EXCEPT ![t] = "blocked"]
    /\ reason' = [reason EXCEPT ![t] = text]
    /\ AcceptedFrom(t, g, e)
    /\ UNCHANGED <<result, executor, approvalVars, reconciliation, call>>

\* complete_task names the owner, not the executor: no holder check.
Complete(t, g, e, token) ==
    /\ <<t, g, e>> \in claims
    /\ status[t] = "in_progress"
    /\ exec[t].status = "running"
    /\ TokenAccepted(t, g, token)
    /\ exec[t].lease
    /\ exec' = [exec EXCEPT ![t].status = "completed"]
    /\ status' = [status EXCEPT ![t] = "done"]
    /\ result' = [result EXCEPT ![t] = TRUE]
    /\ AcceptedFrom(t, g, e)
    /\ UNCHANGED <<reason, executor, approvalVars, reconciliation, call>>

\* Time and processes, outside the ledger.
LeaseExpires(t) ==
    /\ exec[t].lease
    /\ exec' = [exec EXCEPT ![t].lease = FALSE]
    /\ UNCHANGED <<status, reason, result, workVars, executor, approvalVars,
                   reconciliation, call>>

ProcessExits(t) ==
    /\ exec[t].proc = "alive"
    /\ exec' = [exec EXCEPT ![t].proc = "dead"]
    /\ UNCHANGED <<status, reason, result, workVars, executor, approvalVars,
                   reconciliation, call>>

-----------------------------------------------------------------------------
(* Recovery of one execution row                                           *)

\* _recover_execution acts on a failed row, or on a running one whose lease
\* has run out; a valid lease is left to its executor.
\* Mutant: the lease is not looked at.
AnyHeld(row) == row.status \in {"failed", "running"}
NeedsRecovery(row) ==
    \/ row.status = "failed"
    \/ row.status = "running" /\ ~row.lease

\* What the row read (seen) leads to.
\* Mutant: attempts are not compared with max_attempts.
RequeueAlways(seen) ==
    IF seen.status = "failed" /\ seen.proc = "alive" THEN "unknown"
    ELSE "requeued"
Outcome(seen) ==
    IF seen.status = "failed" /\ seen.proc = "alive" THEN "unknown"
    ELSE IF seen.attempts + 1 >= seen.limit THEN "exhausted" ELSE "requeued"

\* The UPDATEs name the task only: they overwrite whatever row is there by then.
RecoveredRow(row, seen) ==
    IF Outcome(seen) = "unknown" THEN [row EXCEPT !.status = "unknown"]
    ELSE [row EXCEPT !.status = Outcome(seen), !.attempts = seen.attempts + 1]

\* Mutant: the recovery status is written to the task as well.
CopiedStatus(s, seen) == Outcome(seen)
RecoveredStatus(s, seen) ==
    IF Outcome(seen) = "unknown" THEN s
    ELSE IF Outcome(seen) = "exhausted" THEN "blocked" ELSE "open"

RecoveredReason(r, seen, text) ==
    IF Outcome(seen) = "unknown" THEN r
    ELSE IF Outcome(seen) = "exhausted" THEN text ELSE {}

RecoverTask(t, seen, text) ==
    /\ exec' = [exec EXCEPT ![t] = RecoveredRow(exec[t], seen)]
    /\ status' = [status EXCEPT ![t] = RecoveredStatus(status[t], seen)]
    /\ reason' = [reason EXCEPT ![t] = RecoveredReason(reason[t], seen, text)]
    /\ executor' = [e \in Executor |->
                      IF Outcome(seen) = "unknown" /\ seen.holder = e
                      THEN SetExecutor(e, "quarantined") ELSE executor[e]]
    /\ uncounted' = IF seen.attempts = exec[t].attempts THEN uncounted
                    ELSE uncounted \cup {t}
    /\ UNCHANGED <<result, claims, launching, author, approvalVars,
                   reconciliation>>

-----------------------------------------------------------------------------
(* run_cycle: recover everything recoverable, or else dispatch             *)

Stale == {t \in Task : NeedsRecovery(exec[t])}

CycleRecovers ==
    /\ Stale # {}
    /\ exec' = [t \in Task |-> IF t \in Stale
                               THEN RecoveredRow(exec[t], exec[t]) ELSE exec[t]]
    /\ status' = [t \in Task |-> IF t \in Stale
                                 THEN RecoveredStatus(status[t], exec[t])
                                 ELSE status[t]]
    /\ reason' = [t \in Task |-> IF t \in Stale
                                 THEN RecoveredReason(reason[t], exec[t], {})
                                 ELSE reason[t]]
    /\ executor' = [e \in Executor |->
                      IF \E t \in Stale : /\ Outcome(exec[t]) = "unknown"
                                          /\ exec[t].holder = e
                      THEN SetExecutor(e, "quarantined") ELSE executor[e]]
    /\ UNCHANGED <<result, workVars, approvalVars, reconciliation, call>>

\* The lanes of tasks that are in progress or blocked take no second task.
Occupied ==
    {Lane[t] : t \in {u \in Task : status[u] \in {"in_progress", "blocked"}}}
Candidate(t) == status[t] = "open" /\ Lane[t] \in ProductLanes \ Occupied
\* The first open task of a free lane occupies it, whether escalated or ready.
FirstOfLane(t) ==
    /\ Candidate(t)
    /\ \A u \in Task : Candidate(u) /\ Lane[u] = Lane[t] => Rank[u] <= Rank[t]

\* _has_approved_action
Approved(t) ==
    \E i \in ApprovalId : approval[i] = [task |-> t, status |-> "approved"]

Escalated == {t \in Reserved : FirstOfLane(t) /\ ~Approved(t)}
Escalations ==
    IF Escalated = {} THEN 0
    ELSE IF \E t, u \in Escalated : t # u THEN 2 ELSE 1
EscalationId(t) ==
    lastApproval + (IF \E u \in Escalated : Rank[u] > Rank[t] THEN 2 ELSE 1)

\* "#n" is a substring of "Pending Chairman approval #id": n is a decimal
\* prefix of id.  Three digits are more than MaxApproval needs.
\* Mutant: the reason names the approval before.
PreviousMention(id) == {id - 1} \cap ApprovalId
Mentions(id) == {n \in ApprovalId : \E k \in {1, 10, 100} : id \div k = n}

CycleDispatches ==
    /\ Stale = {}
    /\ lastApproval + Escalations <= MaxApproval
    /\ status' = [t \in Task |-> IF t \in Escalated
                                 THEN "blocked" ELSE status[t]]
    /\ reason' = [t \in Task |-> IF t \in Escalated
                                 THEN Mentions(EscalationId(t)) ELSE reason[t]]
    /\ approval' = [i \in ApprovalId |->
                      IF \E t \in Escalated : EscalationId(t) = i
                      THEN [task |->
                              CHOOSE t \in Escalated : EscalationId(t) = i,
                            status |-> "pending"]
                      ELSE approval[i]]
    /\ lastApproval' = lastApproval + Escalations
    /\ UNCHANGED <<result, exec, workVars, executor, reconciliation, call>>

RunCycle == CycleRecovers \/ CycleDispatches

-----------------------------------------------------------------------------
(* Operations that read first and begin their transaction at the write     *)

\* create_task: the title is new and no task of the lane is active.
TitleFree(t) == \A u \in Task : Title[u] = Title[t] => status[u] = "absent"
CanCreate(t) ==
    /\ status[t] = "absent"
    /\ TitleFree(t)
    /\ \A u \in Task : Active(u) => Lane[u] # Lane[t]

\* What each operation checks in its reading part.
\* Mutant: closed tasks may be cancelled.
AnyCancellable(t) == status[t] # "absent"
CanCancel(t) == Active(t)
CanRecover(t) == NeedsRecovery(exec[t])
\* event_engine _enforce_task_dispatch_outcome, at the third attempt.
CanBlock(t) ==
    /\ status[t] \in {"open", "in_progress", "reconciled"}
    /\ exec[t].status = "none"

CreateTask(t) ==
    /\ status[t] = "absent"
    /\ status' = [status EXCEPT ![t] = "open"]
    /\ UNCHANGED <<result, reason, exec, workVars, executor, approvalVars,
                   reconciliation>>

\* Neither UPDATE of cancel_task repeats the status check.
CancelTask(t) ==
    /\ status' = [status EXCEPT ![t] = "cancelled"]
    /\ result' = [result EXCEPT ![t] = TRUE]
    /\ reason' = [reason EXCEPT ![t] = {}]
    /\ exec' = [exec EXCEPT ![t].status =
                  IF exec[t].status = "none" THEN "none" ELSE "cancelled"]
    /\ UNCHANGED <<workVars, executor, approvalVars, reconciliation>>

\* This UPDATE does repeat it.
\* Mutant: it does not.
BlocksAnyStatus(t) ==
    /\ status' = [status EXCEPT ![t] = "blocked"]
    /\ reason' = [reason EXCEPT ![t] = {}]
    /\ UNCHANGED <<result, exec, workVars, executor, approvalVars,
                   reconciliation>>
BlockUnclaimed(t) ==
    /\ IF status[t] = "open"
       THEN /\ status' = [status EXCEPT ![t] = "blocked"]
            /\ reason' = [reason EXCEPT ![t] = {}]
       ELSE UNCHANGED <<status, reason>>
    /\ UNCHANGED <<result, exec, workVars, executor, approvalVars,
                   reconciliation>>

Reads(op, t) ==
    \/ op = "create" /\ CanCreate(t)
    \/ op = "cancel" /\ CanCancel(t)
    \/ op = "recover" /\ CanRecover(t)
    \/ op = "block" /\ CanBlock(t)

Writes(op, t, seen, text) ==
    \/ op = "create" /\ CreateTask(t)
    \/ op = "cancel" /\ CancelTask(t)
    \/ op = "recover" /\ RecoverTask(t, seen, text)
    \/ op = "block" /\ BlockUnclaimed(t)

\* What the operation keeps of its reading part.
Reading(op, t) ==
    [op |-> op, task |-> t,
     seen |-> IF op = "recover" THEN exec[t] ELSE NoExecution,
     read |-> {u \in Task : Active(u)}]

Start(o, op, t) ==
    /\ call[o] = Idle
    /\ Reads(op, t)
    /\ call' = [call EXCEPT ![o] = Reading(op, t)]
    /\ UNCHANGED <<status, reason, result, exec, workVars, executor,
                   approvalVars, reconciliation>>

Finish(o, text) ==
    /\ call[o] # Idle
    /\ Writes(call[o].op, call[o].task, call[o].seen, text)
    /\ call' = [call EXCEPT ![o] = Idle]

\* The process ends between the read and the write.
Abandon(o) ==
    /\ call[o] # Idle
    /\ call' = [call EXCEPT ![o] = Idle]
    /\ UNCHANGED <<status, reason, result, exec, workVars, executor,
                   approvalVars, reconciliation>>

-----------------------------------------------------------------------------
(* Approvals and reconciliation                                            *)

\* ceo_runtime _apply_actions: a CEO request names no task.
RequestApproval ==
    /\ lastApproval < MaxApproval
    /\ lastApproval' = lastApproval + 1
    /\ approval' = [approval EXCEPT ![lastApproval + 1] =
                      [task |-> None, status |-> "pending"]]
    /\ UNCHANGED <<status, reason, result, exec, workVars, executor,
                   reconciliation, call>>

\* decide: a signed decision is immutable, so the check of its reading part
\* still holds at the write.  Every blocked task whose reason mentions "#i"
\* goes.
DecidedTasks(i) == {t \in Task : status[t] = "blocked" /\ i \in reason[t]}
Decide(i, decision) ==
    /\ approval[i].status = "pending"
    /\ approval' = [approval EXCEPT ![i].status = decision]
    /\ status' = [t \in Task |->
                    IF t \in DecidedTasks(i)
                    THEN IF decision = "approved" THEN "open" ELSE "done"
                    ELSE status[t]]
    /\ reason' = [t \in Task |->
                    IF t \in DecidedTasks(i) THEN {} ELSE reason[t]]
    /\ result' = [t \in Task |-> IF t \in DecidedTasks(i)
                                 THEN decision = "denied" ELSE result[t]]
    /\ uncounted' = uncounted \cup
                    {t \in DecidedTasks(i) : /\ decision = "approved"
                                             /\ exec[t].status = "exhausted"}
    /\ UNCHANGED <<exec, claims, launching, author, executor, lastApproval,
                   reconciliation, call>>

\* reconcile_task accepts an out-of-band delivery of an exhausted task.
Reconcilable(t) ==
    /\ status[t] = "blocked"
    /\ exec[t].status = "exhausted"
    /\ exec[t].attempts >= exec[t].limit
    /\ exec[t].proc # "alive"
    /\ ~result[t]
Reconcile(t) ==
    /\ t \notin reconciliation
    /\ Reconcilable(t)
    /\ status' = [status EXCEPT ![t] = "reconciled"]
    /\ reason' = [reason EXCEPT ![t] = {}]
    /\ exec' = [exec EXCEPT ![t].status = "reconciled"]
    /\ reconciliation' = reconciliation \cup {t}
    /\ UNCHANGED <<result, workVars, executor, approvalVars, call>>

-----------------------------------------------------------------------------
ExecutorNext ==
    \/ \E e \in Executor : Register(e)
    \/ \E t \in Task, e \in Executor, limit \in Limits,
          proc \in {"none", "alive"} :
          Claim(t, e, limit, proc)
    \/ \E t \in Task, g \in 1 .. MaxGeneration, e \in Executor :
          \/ AttachProcess(t, g, e)
          \/ \E token \in TokenUse :
               \/ Heartbeat(t, g, e, token)
               \/ Checkpoint(t, g, e, token)
               \/ FailRecoverably(t, g, e, token)
               \/ \E text \in Texts : FailPermanently(t, g, e, token, text)
               \/ Complete(t, g, e, token)

OperatorNext ==
    \/ \E o \in Operator, op \in SplitOps, t \in Task : Start(o, op, t)
    \/ \E o \in Operator, text \in Texts : Finish(o, text)
    \/ \E o \in Operator : Abandon(o)
    \/ RequestApproval
    \/ \E i \in ApprovalId, d \in {"approved", "denied"} : Decide(i, d)
    \/ \E t \in Task : Reconcile(t)

EnvironmentNext == \E t \in Task : LeaseExpires(t) \/ ProcessExits(t)

Next == ExecutorNext \/ OperatorNext \/ RunCycle \/ EnvironmentNext

Spec == Init /\ [][Next]_vars

-----------------------------------------------------------------------------
(* Properties                                                              *)

TypeOK ==
    /\ status \in [Task -> TaskStatus]
    /\ reason \in [Task -> SUBSET ApprovalId]
    /\ result \in [Task -> BOOLEAN]
    /\ exec \in [Task -> Execution]
    /\ claims \subseteq Task \X (1 .. MaxGeneration) \X Executor
    /\ launching \subseteq claims
    /\ author \in [Task -> Nat]
    /\ uncounted \subseteq Task
    /\ executor \in [Executor -> {"absent", "healthy", "quarantined"}]
    /\ approval \in [ApprovalId -> Approval]
    /\ lastApproval \in 0 .. MaxApproval
    /\ reconciliation \subseteq Task
    /\ call \in [Operator -> Call]

\* The statuses x of an execution row that fit the status s of its task.
Agree(s, x) ==
    /\ s = "in_progress" => x \in {"running", "failed", "unknown"}
    /\ x \in {"running", "failed"} => s = "in_progress"
    /\ x = "completed" => s = "done"
    /\ x = "cancelled" => s = "cancelled"
    /\ x = "reconciled" => s = "reconciled"
    /\ x \in {"requeued", "exhausted"} => s \in {"open", "blocked", "done"}
    /\ s = "absent" => x = "none"

\* A task and its execution row never contradict each other, whatever reads and
\* writes interleave: work that is held or finished on one side is held or
\* finished on the other (the two UPDATEs of every method of ops.py).
StatusAgreement == \A t \in Task : Agree(status[t], exec[t].status)

\* No two executors ever hold a claim of the same generation, and a running row
\* is held under a claim that was granted (the fencing generation of
\* _claim_task_execution, ops.py 1909-1912).
ExclusiveOwnership ==
    /\ \A t \in Task, g \in 1 .. MaxGeneration, d, e \in Executor :
          <<t, g, d>> \in claims /\ <<t, g, e>> \in claims => d = e
    /\ \A t \in Task : exec[t].status = "running" =>
          <<t, exec[t].generation, exec[t].holder>> \in claims

\* With fencing tokens the ledger is a lock with numbered grants: a task is never
\* claimed while its row is running, every claim has a new generation, and a call
\* is accepted only from the latest one, whatever recoveries, cancellations and
\* late writes come in between (claim_task, _active_execution, complete_task).
Fenced == INSTANCE FencedWork
            WITH Work <- Task, Worker <- Executor, Nobody <- None,
                 grants <- claims,
                 latest <- [t \in Task |-> exec[t].generation],
                 holder <- [t \in Task |-> IF exec[t].status = "running"
                                           THEN exec[t].holder ELSE None],
                 wrote <- author
ImplementsFencing == Fenced!Spec

\* The heartbeat, checkpoint, failure or completion accepted last came from the
\* current generation: "A previous executor cannot heartbeat or mutate the task
\* after a new generation is issued" (docs/cadence.md 15-16).
NoStaleWrite == \A t \in Task : author[t] = exec[t].generation

\* At most one task of a WIP lane is open, in progress or blocked (ops.py
\* create_task; docs/event-worker-deployment.md 99).
LaneExclusive ==
    \A t, u \in Task : Active(t) /\ Active(u) /\ Lane[t] = Lane[u] => t = u

\* Operator o ends a call of one of the ops on t in this step.
Ends(o, ops, t) == call[o].op \in ops /\ call[o].task = t /\ call'[o] = Idle

\* Two tasks of one lane become active together in two ways only: a creation is
\* written after the other task became active unread, or a recovery is written on
\* a task that has been closed since it was read (ops.py 562-598, 2027-2077).
LaneSharedByLateWrites ==
    [][\A t, u \in Task :
         /\ t # u /\ Lane[t] = Lane[u]
         /\ ~Active(t) /\ Active(t)' /\ Active(u)'
         => \E o \in Operator :
              \/ Ends(o, {"create"}, t) /\ u \notin call[o].read
              \/ Ends(o, {"recover"}, t) /\ status[t] \in Terminal]_vars

\* Work that is done, cancelled or reconciled changes status only by a cancellation
\* or a recovery that read the task while it was active: no method of ops.py takes
\* up closed work, however its reads and writes interleave (ops.py 1404-1433).
ClosedWorkStays ==
    [][\A t \in Task :
         status[t] \in Terminal /\ status'[t] # status[t] =>
           \E o \in Operator :
              Ends(o, {"cancel", "recover"}, t) /\ t \in call[o].read]_vars

\* Recovery leaves alone what somebody may be working on.  An execution whose lease
\* is valid loses its row or an attempt (README: "valid leases are left alone") only
\* to a recovery that read an earlier claim; one of unknown outcome whose process is
\* alive (docs/cadence.md 17-19) goes only to a recovery that read another row.
RecoveryLeavesLiveWork ==
    [][\A t \in Task :
         /\ exec[t].status = "running" /\ exec[t].lease =>
              \/ /\ exec'[t].status \notin {"requeued", "unknown"}
                 /\ exec'[t].attempts = exec[t].attempts
              \/ \E o \in Operator :
                    /\ Ends(o, {"recover"}, t)
                    /\ call[o].seen.generation < exec[t].generation
         /\ exec[t].status = "unknown" /\ exec[t].proc = "alive" =>
              \/ exec'[t].status \notin {"requeued", "exhausted"}
              \/ \E o \in Operator :
                    Ends(o, {"recover"}, t) /\ call[o].seen # exec[t]]_vars

\* No task is claimed more often than the largest max_attempts a claim may pass.
Capped(t) == exec[t].generation = 0 \/ \E m \in Limits : exec[t].generation <= m

\* Retries are bounded (docs/cadence.md 30): whatever interleaves, a task exceeds
\* max_attempts only after a recovery wrote an attempt_count another recovery had
\* moved since, or after an approval reopened it when it was exhausted.
RetryBound == \A t \in Task \ uncounted : Capped(t)

\* The documents' sentence, without the exceptions: README gives an instance.
RetriesAlwaysCapped == \A t \in Task : Capped(t)

\* Work held for the Chairman is never stranded: while an escalated task is blocked,
\* its reason names an approval requested for it that is still to be decided, even
\* when decide's search for "#id" finds it under the number of another approval
\* (ops.py 1485; docs/event-worker-deployment.md 98).
EscalationAnswerable ==
    \A t \in Task :
       /\ status[t] = "blocked" /\ reason[t] # {}
       /\ exec[t].status \in {"none", "requeued"}
       => \E i \in reason[t] : approval[i] = [task |-> t, status |-> "pending"]

\* A blocked task leaves that state by a decision only when the decided approval
\* is its own (docs/event-worker-deployment.md 98): README gives an instance.
DecisionTouchesOnlyItsTask ==
    [][\A t \in Task :
         status[t] = "blocked" /\ status'[t] \in {"open", "done"} =>
           \E i \in ApprovalId : /\ approval[i].task = t
                                 /\ approval[i].status = "pending"
                                 /\ approval'[i].status # "pending"]_vars

=============================================================================
