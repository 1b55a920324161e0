------------------------ MODULE TaskOwnershipProofs ------------------------
(* Who holds a task: theorems of TaskLifecycle about claims, generations    *)
(* and fencing tokens, and about what the operations that read before they  *)
(* write can do to lanes, closed work, leases, retries and escalations when *)
(* anything comes in between, for every value of its constants.             *)
EXTENDS TaskLifecycleProofs

\* Nothing is granted to u: its row keeps holder and generation, runs only if it
\* did, and under a valid lease only if it had one.
NothingGranted(u) ==
    /\ exec'[u].generation = exec[u].generation
    /\ exec'[u].holder = exec[u].holder
    /\ exec'[u].status = "running" => exec[u].status = "running"
    /\ exec'[u].status = "running" /\ exec'[u].lease => exec[u].lease

LEMMA RecoveredGrants ==
  ASSUME NEW row \in Execution, NEW seen \in Execution
  PROVE  /\ RecoveredRow(row, seen).generation = row.generation
         /\ RecoveredRow(row, seen).holder = row.holder
         /\ RecoveredRow(row, seen).status # "running"
<1>1. Outcome(seen) \in {"unknown", "exhausted", "requeued"}
  BY DEF Outcome
<1>2. QED
  BY <1>1 DEF RecoveredRow, Execution

\* Claim alone grants: it is the only method that writes a running row.
LEMMA OnlyClaimGrants ==
  ASSUME TypeOK, [Next]_vars,
         \A t \in Task, e \in Executor, limit \in Limits, proc \in {"none", "alive"} :
            ~Claim(t, e, limit, proc)
  PROVE  claims' = claims /\ \A u \in Task : NothingGranted(u)
<1>1. exec \in [Task -> Execution]
  BY DEF TypeOK
<1>2. CASE UNCHANGED vars
  BY <1>2 DEF vars, NothingGranted
<1>3. CASE ExecutorNext
  <2>1. ASSUME NEW e \in Executor, Register(e)
        PROVE  claims' = claims /\ \A u \in Task : NothingGranted(u)
    BY <2>1 DEF Register, workVars, NothingGranted
  <2>2. ASSUME NEW t \in Task, NEW g \in 1 .. MaxGeneration, NEW e \in Executor,
               AttachProcess(t, g, e)
        PROVE  claims' = claims /\ \A u \in Task : NothingGranted(u)
    BY <1>1, <2>2 DEF AttachProcess, NothingGranted, Execution
  <2>3. ASSUME NEW t \in Task, NEW g \in 1 .. MaxGeneration, NEW e \in Executor,
               NEW token \in TokenUse, Heartbeat(t, g, e, token)
        PROVE  claims' = claims /\ \A u \in Task : NothingGranted(u)
    BY <1>1, <2>3 DEF Heartbeat, ActiveExecution, AcceptedFrom, NothingGranted, Execution
  <2>4. ASSUME NEW t \in Task, NEW g \in 1 .. MaxGeneration, NEW e \in Executor,
               NEW token \in TokenUse, Checkpoint(t, g, e, token)
        PROVE  claims' = claims /\ \A u \in Task : NothingGranted(u)
    BY <1>1, <2>4 DEF Checkpoint, ActiveExecution, AcceptedFrom, NothingGranted, Execution
  <2>5. ASSUME NEW t \in Task, NEW g \in 1 .. MaxGeneration, NEW e \in Executor,
               NEW token \in TokenUse, FailRecoverably(t, g, e, token)
        PROVE  claims' = claims /\ \A u \in Task : NothingGranted(u)
    BY <1>1, <2>5 DEF FailRecoverably, ActiveExecution, AcceptedFrom, NothingGranted, Execution
  <2>6. ASSUME NEW t \in Task, NEW g \in 1 .. MaxGeneration, NEW e \in Executor,
               NEW token \in TokenUse, NEW text \in Texts,
               FailPermanently(t, g, e, token, text)
        PROVE  claims' = claims /\ \A u \in Task : NothingGranted(u)
    BY <1>1, <2>6 DEF FailPermanently, ActiveExecution, AcceptedFrom, NothingGranted, Execution
  <2>7. ASSUME NEW t \in Task, NEW g \in 1 .. MaxGeneration, NEW e \in Executor,
               NEW token \in TokenUse, Complete(t, g, e, token)
        PROVE  claims' = claims /\ \A u \in Task : NothingGranted(u)
    BY <1>1, <2>7 DEF Complete, ActiveExecution, AcceptedFrom, NothingGranted, Execution
  <2>8. QED
    BY <1>3, <2>1, <2>2, <2>3, <2>4, <2>5, <2>6, <2>7 DEF ExecutorNext
<1>4. ASSUME NEW op \in SplitOps, NEW t \in Task, NEW seen \in Execution, NEW text,
             Writes(op, t, seen, text)
      PROVE  claims' = claims /\ \A u \in Task : NothingGranted(u)
  <2>1. CASE CreateTask(t) \/ BlockUnclaimed(t)
    BY <2>1 DEF CreateTask, BlockUnclaimed, workVars, NothingGranted
  <2>2. CASE CancelTask(t)
    BY <1>1, <2>2 DEF CancelTask, workVars, NothingGranted, Execution
  <2>3. CASE RecoverTask(t, seen, text)
    BY <1>1, <2>3, RecoveredGrants DEF RecoverTask, workVars, NothingGranted
  <2>4. QED
    BY <1>4, <2>1, <2>2, <2>3 DEF Writes
<1>5. CASE OperatorNext
  <2>1. ASSUME NEW o \in Operator, NEW op \in SplitOps, NEW t \in Task,
               Start(o, op, t)
        PROVE  claims' = claims /\ \A u \in Task : NothingGranted(u)
    BY <2>1 DEF Start, workVars, NothingGranted
  <2>2. ASSUME NEW o \in Operator, NEW text \in Texts, Finish(o, text)
        PROVE  claims' = claims /\ \A u \in Task : NothingGranted(u)
    <3>1. call[o] \in [op: SplitOps, task: Task, seen: Execution, read: SUBSET Task]
      BY <2>2 DEF Finish, TypeOK, Call
    <3>2. Writes(call[o].op, call[o].task, call[o].seen, text)
      BY <2>2 DEF Finish
    <3>3. QED
      BY <1>4, <3>1, <3>2
  <2>3. ASSUME RequestApproval \/ \E i \in ApprovalId, d \in {"approved", "denied"} :
                                    Decide(i, d)
        PROVE  claims' = claims /\ \A u \in Task : NothingGranted(u)
    BY <2>3 DEF RequestApproval, Decide, workVars, NothingGranted
  <2>4. ASSUME NEW t \in Task, Reconcile(t)
        PROVE  claims' = claims /\ \A u \in Task : NothingGranted(u)
    BY <1>1, <2>4 DEF Reconcile, workVars, NothingGranted, Execution
  <2>5. ASSUME NEW o \in Operator, Abandon(o)
        PROVE  claims' = claims /\ \A u \in Task : NothingGranted(u)
    BY <2>5 DEF Abandon, workVars, NothingGranted
  <2>6. QED
    BY <1>5, <2>1, <2>2, <2>3, <2>4, <2>5 DEF OperatorNext
<1>6. CASE CycleRecovers
  BY <1>1, <1>6, RecoveredGrants DEF CycleRecovers, workVars, NothingGranted
<1>7. CASE CycleDispatches
  BY <1>7 DEF CycleDispatches, workVars, NothingGranted
<1>8. CASE EnvironmentNext
  BY <1>1, <1>8 DEF EnvironmentNext, LeaseExpires, ProcessExits, workVars,
                    NothingGranted, Execution
<1>9. QED
  BY <1>2, <1>3, <1>5, <1>6, <1>7, <1>8 DEF Next, RunCycle

-----------------------------------------------------------------------------
(* Exclusive ownership                                                     *)

\* A new generation is above every claim granted before: that is what makes a
\* second claim of the same generation impossible.
ClaimsBelow ==
    \A t \in Task, g \in 1 .. MaxGeneration, e \in Executor :
       <<t, g, e>> \in claims => g <= exec[t].generation

OwnershipInv == TypeOK /\ ClaimsBelow /\ ExclusiveOwnership

LEMMA OwnershipStep == OwnershipInv /\ [Next]_vars => OwnershipInv'
<1> SUFFICES ASSUME OwnershipInv, [Next]_vars PROVE OwnershipInv'
  OBVIOUS
<1>1. TypeOK /\ TypeOK'
  BY StepTypes DEF OwnershipInv
<1>2. ASSUME NEW t \in Task, NEW e \in Executor, NEW limit \in Limits,
             NEW proc \in {"none", "alive"}, Claim(t, e, limit, proc)
      PROVE  ClaimsBelow' /\ ExclusiveOwnership'
  <2> DEFINE g == exec[t].generation + 1
  <2>1. exec[t].generation \in Nat /\ g \in 1 .. MaxGeneration
    BY <1>1, <1>2, ConstantsAssumption DEF TypeOK, Execution, Claim
  <2>2. /\ claims' = claims \cup {<<t, g, e>>}
        /\ exec'[t].status = "running" /\ exec'[t].generation = g
        /\ exec'[t].holder = e
        /\ \A u \in Task \ {t} : exec'[u] = exec[u]
    BY <1>1, <1>2 DEF Claim, NextGeneration, TypeOK
  <2>3. ClaimsBelow'
    BY <2>1, <2>2 DEF OwnershipInv, ClaimsBelow
  <2>4. \A d \in Executor : <<t, g, d>> \notin claims
    BY <2>1 DEF OwnershipInv, ClaimsBelow
  <2>5. \A u \in Task, h \in 1 .. MaxGeneration, c, d \in Executor :
           <<u, h, c>> \in claims' /\ <<u, h, d>> \in claims' => c = d
    BY <2>2, <2>4 DEF OwnershipInv, ExclusiveOwnership
  <2>6. \A u \in Task : exec'[u].status = "running" =>
           <<u, exec'[u].generation, exec'[u].holder>> \in claims'
    BY <2>2 DEF OwnershipInv, ExclusiveOwnership
  <2>7. QED
    BY <2>3, <2>5, <2>6 DEF ExclusiveOwnership
<1>3. CASE \A t \in Task, e \in Executor, limit \in Limits, proc \in {"none", "alive"} :
             ~Claim(t, e, limit, proc)
  <2>1. claims' = claims /\ \A u \in Task : NothingGranted(u)
    BY <1>1, <1>3, OnlyClaimGrants
  <2>2. ClaimsBelow'
    BY <2>1 DEF NothingGranted, OwnershipInv, ClaimsBelow
  <2>3. ASSUME NEW u \in Task, exec'[u].status = "running"
        PROVE  <<u, exec'[u].generation, exec'[u].holder>> \in claims'
    <3>1. <<u, exec[u].generation, exec[u].holder>> \in claims
      BY <2>1, <2>3 DEF NothingGranted, OwnershipInv, ExclusiveOwnership
    <3>2. QED
      BY <2>1, <3>1 DEF NothingGranted
  <2>4. QED
    BY <1>1, <2>1, <2>2, <2>3 DEF OwnershipInv, ExclusiveOwnership
<1>4. QED
  BY <1>1, <1>2, <1>3 DEF OwnershipInv

LEMMA OwnershipHolds == Spec => []OwnershipInv
<1>1. Init => OwnershipInv
  <2>1. Init => TypeOK
    BY InitType
  <2>2. Init => ClaimsBelow /\ ExclusiveOwnership
    BY DEF Init, ClaimsBelow, ExclusiveOwnership, NoExecution
  <2>3. QED
    BY <2>1, <2>2 DEF OwnershipInv
<1>2. QED
  BY <1>1, OwnershipStep, PTL DEF Spec

\* No two executors ever hold a claim of the same generation of a task, and every
\* running row is held under a claim that was granted: for any number of tasks,
\* executors and operators, with or without fencing tokens.
THEOREM OwnershipExclusive == Spec => []ExclusiveOwnership
<1>1. OwnershipInv => ExclusiveOwnership
  BY DEF OwnershipInv
<1>2. QED
  BY <1>1, OwnershipHolds, PTL

-----------------------------------------------------------------------------
(* Fencing tokens                                                          *)

\* A call under claim g of t that the ledger accepts: the row is running, and no
\* other row changes.
Called(t, g, token) ==
    /\ TokenAccepted(t, g, token) /\ exec[t].status = "running"
    /\ author' = [author EXCEPT ![t] = g]
    /\ \A u \in Task \ {t} : exec'[u] = exec[u]

\* The author of a task changes by a claim, or by a call whose token the row
\* accepted.
LEMMA AuthorSteps ==
  ASSUME TypeOK, [Next]_vars
  PROVE  \/ \E t \in Task, e \in Executor, limit \in Limits, proc \in {"none", "alive"} :
              Claim(t, e, limit, proc)
         \/ UNCHANGED author
         \/ \E t \in Task, g \in 1 .. MaxGeneration, token \in TokenUse :
              Called(t, g, token)
<1>1. CASE UNCHANGED vars
  BY <1>1 DEF vars
<1>2. CASE ExecutorNext
  <2>1. \A e \in Executor : Register(e) => UNCHANGED author
    BY DEF Register, workVars
  <2>2. \A t \in Task, g \in 1 .. MaxGeneration, e \in Executor :
          AttachProcess(t, g, e) => UNCHANGED author
    BY DEF AttachProcess
  <2>3. ASSUME NEW t \in Task, NEW g \in 1 .. MaxGeneration, NEW e \in Executor,
               NEW token \in TokenUse,
               \/ Heartbeat(t, g, e, token)
               \/ Checkpoint(t, g, e, token)
               \/ FailRecoverably(t, g, e, token)
               \/ \E text \in Texts : FailPermanently(t, g, e, token, text)
               \/ Complete(t, g, e, token)
        PROVE  Called(t, g, token)
    <3>1. /\ TokenAccepted(t, g, token) /\ exec[t].status = "running"
          /\ author' = [author EXCEPT ![t] = g]
      BY <2>3 DEF Heartbeat, Checkpoint, FailRecoverably, FailPermanently, Complete,
                  ActiveExecution, AcceptedFrom
    <3>2. \A u \in Task \ {t} : exec'[u] = exec[u]
      BY <2>3 DEF Heartbeat, Checkpoint, FailRecoverably, FailPermanently, Complete,
                  TypeOK
    <3>3. QED
      BY <3>1, <3>2 DEF Called
  <2>4. QED
    BY <1>2, <2>1, <2>2, <2>3 DEF ExecutorNext
<1>3. CASE OperatorNext
  <2>1. \A op, t, seen, text : Writes(op, t, seen, text) => UNCHANGED author
    BY DEF Writes, CreateTask, CancelTask, RecoverTask, BlockUnclaimed, workVars
  <2>2. QED
    BY <1>3, <2>1
       DEF OperatorNext, Start, Finish, Abandon, RequestApproval, Decide,
           Reconcile, workVars
<1>4. CASE RunCycle \/ EnvironmentNext
  BY <1>4 DEF RunCycle, CycleRecovers, CycleDispatches, EnvironmentNext,
              LeaseExpires, ProcessExits, workVars
<1>5. QED
  BY <1>1, <1>2, <1>3, <1>4 DEF Next

\* When every executor passes its fencing token, the call accepted last on a task
\* always came from the task's current generation.
THEOREM NoStaleWriteWithTokens ==
  ASSUME TokenUse = {TRUE}
  PROVE  Spec => []NoStaleWrite
<1>1. Init => TypeOK /\ NoStaleWrite
  <2>1. Init => NoStaleWrite
    BY DEF Init, NoStaleWrite, NoExecution
  <2>2. QED
    BY <2>1, InitType
<1>2. TypeOK /\ NoStaleWrite /\ [Next]_vars => (TypeOK /\ NoStaleWrite)'
  <2> SUFFICES ASSUME TypeOK, NoStaleWrite, [Next]_vars
               PROVE  TypeOK' /\ NoStaleWrite'
    OBVIOUS
  <2>1. ASSUME NEW t \in Task, NEW e \in Executor, NEW limit \in Limits,
               NEW proc \in {"none", "alive"}, Claim(t, e, limit, proc)
        PROVE  NoStaleWrite'
    <3>1. /\ exec'[t].generation = NextGeneration(t)
          /\ author'[t] = NextGeneration(t)
          /\ \A u \in Task \ {t} : exec'[u] = exec[u] /\ author'[u] = author[u]
      BY <2>1 DEF Claim, TypeOK
    <3>2. QED
      BY <3>1 DEF NoStaleWrite
  <2>2. CASE \A t \in Task, e \in Executor, limit \in Limits, proc \in {"none", "alive"} :
               ~Claim(t, e, limit, proc)
    <3>1. \A u \in Task : exec'[u].generation = exec[u].generation
      BY <2>2, OnlyClaimGrants DEF NothingGranted
    <3>2. \A u \in Task : author'[u] = author[u] \/ author'[u] = exec[u].generation
      BY <2>2, AuthorSteps DEF Called, TokenAccepted, TypeOK
    <3>3. QED
      BY <3>1, <3>2, StepTypes DEF NoStaleWrite
  <2>3. QED
    BY <2>1, <2>2, StepTypes
<1>3. QED
  BY <1>1, <1>2, PTL DEF Spec

-----------------------------------------------------------------------------
(* The ledger is a lock with numbered grants                               *)

\* What FencedWork sees of a step that grants nothing and is no call: work that
\* was running may not be any more.
LEMMA WithdrawStep ==
  ASSUME TypeOK, claims' = claims, author' = author, \A u \in Task : NothingGranted(u)
  PROVE  Fenced!Next
<1>1. [u \in Task |-> exec'[u].generation] = [u \in Task |-> exec[u].generation]
  BY DEF NothingGranted
<1>2. PICK gone \in SUBSET Task :
        gone = {u \in Task : exec[u].status = "running" /\ exec'[u].status # "running"}
  OBVIOUS
<1>3. [u \in Task |-> IF exec'[u].status = "running" THEN exec'[u].holder ELSE None]
      = [u \in Task |-> IF u \in gone THEN None
                        ELSE IF exec[u].status = "running" THEN exec[u].holder
                        ELSE None]
  BY <1>2 DEF NothingGranted
<1>4. Fenced!Withdraw(gone)
  BY <1>1, <1>3 DEF Fenced!Withdraw
<1>5. QED
  BY <1>4 DEF Fenced!Next

LEMMA AcceptStep ==
  ASSUME TypeOK, OwnershipInv, claims' = claims, \A u \in Task : NothingGranted(u),
         NEW t \in Task, NEW g \in 1 .. MaxGeneration, Called(t, g, TRUE)
  PROVE  Fenced!Next
<1> DEFINE has == [u \in Task |-> IF exec[u].status = "running" THEN exec[u].holder
                                  ELSE None]
           hasAfter == [u \in Task |-> IF exec'[u].status = "running"
                                       THEN exec'[u].holder ELSE None]
<1>1. [u \in Task |-> exec'[u].generation] = [u \in Task |-> exec[u].generation]
  BY DEF NothingGranted
<1>2. has[t] # None
  <2>1. <<t, exec[t].generation, exec[t].holder>> \in claims
    BY DEF Called, OwnershipInv, ExclusiveOwnership
  <2>2. exec[t].holder \in Executor
    BY <2>1 DEF TypeOK
  <2>3. QED
    BY <2>2, ConstantsAssumption DEF Called
<1>3. author' = [author EXCEPT ![t] = [u \in Task |-> exec[u].generation][t]]
  BY DEF Called, TokenAccepted
<1>4. hasAfter \in {has, [has EXCEPT ![t] = None]}
  <2>1. \A u \in Task \ {t} : hasAfter[u] = has[u]
    BY DEF Called
  <2>2. hasAfter[t] \in {has[t], None}
    BY DEF Called, NothingGranted
  <2>3. QED
    BY <2>1, <2>2
<1>5. Fenced!Accept(t)
  BY <1>1, <1>2, <1>3, <1>4 DEF Fenced!Accept
<1>6. QED
  BY <1>5 DEF Fenced!Next

LEMMA GrantStep ==
  ASSUME TypeOK, NEW t \in Task, NEW e \in Executor, NEW limit, NEW proc,
         Claim(t, e, limit, proc)
  PROVE  Fenced!Next
<1>1. exec \in [Task -> Execution]
  BY DEF TypeOK
<1>2. exec[t].status # "running"
  BY DEF Claim, Claimable
<1>3. /\ claims' = claims \cup {<<t, exec[t].generation + 1, e>>}
      /\ author' = [author EXCEPT ![t] = exec[t].generation + 1]
      /\ exec'[t].generation = exec[t].generation + 1
      /\ exec'[t].status = "running" /\ exec'[t].holder = e
      /\ \A u \in Task \ {t} : exec'[u] = exec[u]
  BY <1>1 DEF Claim, NextGeneration
<1>4. [u \in Task |-> exec'[u].generation]
      = [[u \in Task |-> exec[u].generation] EXCEPT ![t] = exec[t].generation + 1]
  BY <1>3
<1>5. [u \in Task |-> IF exec'[u].status = "running" THEN exec'[u].holder ELSE None]
      = [[u \in Task |-> IF exec[u].status = "running" THEN exec[u].holder ELSE None]
           EXCEPT ![t] = e]
  BY <1>3
<1>6. Fenced!Grant(t, e)
  BY <1>2, <1>3, <1>4, <1>5 DEF Fenced!Grant
<1>7. QED
  BY <1>6 DEF Fenced!Next

\* With fencing tokens TaskLifecycle implements FencedWork: no interleaving of
\* recoveries, cancellations and late writes with claims and calls lets a task be
\* worked on under two grants, or a superseded executor write.
THEOREM LedgerFencesWork ==
  ASSUME TokenUse = {TRUE}
  PROVE  Spec => ImplementsFencing
<1>1. Init => Fenced!Init
  BY DEF Init, Fenced!Init, NoExecution
<1>2. OwnershipInv /\ [Next]_vars => [Fenced!Next]_(Fenced!vars)
  <2> SUFFICES ASSUME OwnershipInv, [Next]_vars
               PROVE  [Fenced!Next]_(Fenced!vars)
    OBVIOUS
  <2>1. TypeOK
    BY DEF OwnershipInv
  <2>2. CASE \E t \in Task, e \in Executor, limit \in Limits, proc \in {"none", "alive"} :
               Claim(t, e, limit, proc)
    BY <2>1, <2>2, GrantStep
  <2>3. CASE \A t \in Task, e \in Executor, limit \in Limits, proc \in {"none", "alive"} :
               ~Claim(t, e, limit, proc)
    <3>1. claims' = claims /\ \A u \in Task : NothingGranted(u)
      BY <2>1, <2>3, OnlyClaimGrants
    <3>2. CASE UNCHANGED author
      BY <2>1, <3>1, <3>2, WithdrawStep
    <3>3. CASE \E t \in Task, g \in 1 .. MaxGeneration : Called(t, g, TRUE)
      BY <2>1, <3>1, <3>3, AcceptStep
    <3>4. QED
      BY <2>1, <2>3, <3>2, <3>3, AuthorSteps
  <2>4. QED
    BY <2>2, <2>3
<1>3. Spec => []OwnershipInv
  BY OwnershipHolds
<1>4. QED
  BY <1>1, <1>2, <1>3, PTL DEF Spec, ImplementsFencing, Fenced!Spec

-----------------------------------------------------------------------------
(* What the readers of a divided operation know by the time they write      *)

\* A recovery works from a row it had reason to recover.  No row of that claim can
\* have got a valid lease since: what holds one now was claimed later.
StaleRead(c) ==
    /\ NeedsRecovery(c.seen)
    /\ c.seen.generation <= exec[c.task].generation
    /\ c.seen.generation = exec[c.task].generation =>
         ~(exec[c.task].status = "running" /\ exec[c.task].lease)

\* What was active at the read: the task of a cancellation and of a recovery, and
\* no task of the lane of a creation.
ReadBefore(c) ==
    /\ c.op \in {"cancel", "recover"} => c.task \in c.read
    /\ c.op = "create" => \A u \in c.read : Lane[u] # Lane[c.task]
    /\ c.op = "recover" => StaleRead(c)

ReadsInv == AgreementInv /\ \A o \in Operator : ReadBefore(call[o])

LEMMA ReadsStep == ReadsInv /\ [Next]_vars => ReadsInv'
<1> SUFFICES ASSUME ReadsInv, [Next]_vars PROVE ReadsInv'
  OBVIOUS
<1>1. AgreementInv /\ TypeOK /\ AgreementInv' /\ TypeOK'
  BY AgreementStep DEF ReadsInv, AgreementInv
<1>2. ASSUME NEW u \in Task
      PROVE  /\ exec[u].generation \in Nat /\ exec'[u].generation \in Nat
             /\ exec'[u].generation >= exec[u].generation
             /\ exec'[u].generation = exec[u].generation =>
                  \/ ~(exec'[u].status = "running" /\ exec'[u].lease)
                  \/ exec[u].status = "running" /\ exec[u].lease
  <2>1. exec[u].generation \in Nat /\ exec'[u].generation \in Nat
    BY <1>1 DEF TypeOK, Execution
  <2>2. ASSUME NEW t \in Task, NEW e \in Executor, NEW limit \in Limits,
               NEW proc \in {"none", "alive"}, Claim(t, e, limit, proc)
        PROVE  exec'[u] = exec[u] \/ exec'[u].generation = exec[u].generation + 1
    BY <1>1, <2>2 DEF Claim, NextGeneration, TypeOK
  <2>3. CASE \A t \in Task, e \in Executor, limit \in Limits, proc \in {"none", "alive"} :
               ~Claim(t, e, limit, proc)
    <3>1. NothingGranted(u)
      BY <1>1, <2>3, OnlyClaimGrants
    <3>2. exec'[u].generation = exec[u].generation
      BY <3>1 DEF NothingGranted
    <3>3. exec'[u].status = "running" /\ exec'[u].lease =>
            exec[u].status = "running" /\ exec[u].lease
      BY <3>1 DEF NothingGranted
    <3>4. QED
      BY <2>1, <3>2, <3>3
  <2>4. CASE exec'[u] = exec[u]
    <3>1. exec'[u].generation = exec[u].generation
      BY <2>4
    <3>2. exec'[u].generation >= exec[u].generation
      BY <2>1, <3>1
    <3>3. QED
      BY <2>1, <2>4, <3>2
  <2>5. CASE exec'[u].generation = exec[u].generation + 1
    <3>1. /\ exec'[u].generation >= exec[u].generation
          /\ exec'[u].generation # exec[u].generation
      BY <2>1, <2>5
    <3>2. QED
      BY <2>1, <3>1
  <2>6. QED
    BY <2>2, <2>3, <2>4, <2>5
<1>3. ASSUME NEW o \in Operator
      PROVE  ReadBefore(call[o])'
  <2>1. CASE call'[o] = Idle
    BY <2>1 DEF ReadBefore, Idle
  <2>2. CASE call'[o] = call[o] /\ call[o].op = "recover"
    <3>1. call[o] # Idle /\ call[o] \in Call
      BY <1>1, <2>2 DEF Idle, TypeOK
    <3>2. call[o].task \in Task /\ call[o].seen.generation \in Nat
      BY <3>1 DEF Call, Execution
    <3>3. ReadBefore(call[o]) /\ StaleRead(call[o])
      BY <2>2 DEF ReadsInv, ReadBefore
    <3>4. call[o].seen.generation <= exec'[call[o].task].generation
      BY <1>2, <3>2, <3>3 DEF StaleRead
    <3>5. ASSUME call[o].seen.generation = exec'[call[o].task].generation
          PROVE  ~(exec'[call[o].task].status = "running" /\ exec'[call[o].task].lease)
      <4>1. /\ call[o].seen.generation = exec[call[o].task].generation
            /\ exec'[call[o].task].generation = exec[call[o].task].generation
        BY <1>2, <3>2, <3>3, <3>5 DEF StaleRead
      <4>2. QED
        BY <1>2, <3>2, <3>3, <4>1, Zenon DEF StaleRead
    <3>6. QED
      BY <2>2, <3>3, <3>4, <3>5, Zenon DEF ReadBefore, StaleRead
  <2>3. CASE call'[o] = call[o] /\ call[o].op # "recover"
    BY <2>3 DEF ReadsInv, ReadBefore
  <2>4. ASSUME NEW op \in SplitOps, NEW t \in Task, Start(o, op, t),
               call'[o] = Reading(op, t)
        PROVE  ReadBefore(call[o])'
    <3>1. Reads(op, t) /\ exec' = exec /\ Agree(status[t], exec[t].status)
      BY <1>1, <2>4 DEF Start, AgreementInv, StatusAgreement
    <3>2. /\ call'[o].op = op /\ call'[o].task = t
          /\ call'[o].read = {u \in Task : Active(u)}
          /\ op = "recover" => call'[o].seen = exec[t]
      BY <2>4 DEF Reading
    <3>3. op \in {"cancel", "recover"} => t \in call'[o].read
      BY <3>1, <3>2 DEF Reads, CanCancel, CanRecover, NeedsRecovery, Agree, Active
    <3>4. op = "create" => \A u \in call'[o].read : Lane[u] # Lane[t]
      BY <3>1, <3>2 DEF Reads, CanCreate
    <3>5. ASSUME op = "recover"
          PROVE  StaleRead(call[o])'
      <4>1. NeedsRecovery(exec[t]) /\ exec[t].generation \in Nat
        BY <1>1, <3>1, <3>5 DEF Reads, CanRecover, TypeOK, Execution
      <4>2. ~(exec[t].status = "running" /\ exec[t].lease)
        BY <4>1 DEF NeedsRecovery
      <4>3. exec'[t].generation = exec[t].generation
            /\ exec[t].generation <= exec[t].generation
        BY <3>1, <4>1
      <4>4. QED
        BY <3>1, <3>2, <3>5, <4>1, <4>2, <4>3 DEF StaleRead, NeedsRecovery
    <3>6. QED
      BY <3>2, <3>3, <3>4, <3>5 DEF ReadBefore
  <2>5. QED
    BY <1>1, <2>1, <2>2, <2>3, <2>4, CallSteps
<1>4. QED
  BY <1>1, <1>3 DEF ReadsInv

LEMMA ReadsInit == Init => ReadsInv
<1>1. Init => TypeOK
  BY InitType
<1>2. Init => StatusAgreement
  BY DEF Init, StatusAgreement, Agree, NoExecution
<1>3. Init => RecoversTask /\ \A o \in Operator : ReadBefore(call[o])
  BY DEF Init, RecoversTask, ReadBefore, Idle
<1>4. QED
  BY <1>1, <1>2, <1>3 DEF ReadsInv, AgreementInv

-----------------------------------------------------------------------------
(* What one step does to one task: a renewal, a creation, a block, a        *)
(* decision, a claim, a recovery, a failure or an end; and which of these   *)
(* may be written late.                                                     *)

CountsKept(u) ==
    /\ exec'[u].attempts = exec[u].attempts /\ exec'[u].limit = exec[u].limit
    /\ exec'[u].generation = exec[u].generation

Renewed(u) ==
    /\ CountsKept(u) /\ exec'[u].status = exec[u].status
    /\ status'[u] = status[u] /\ reason'[u] = reason[u]
Opened(u) ==
    /\ exec'[u] = exec[u] /\ reason'[u] = reason[u]
    /\ status[u] = "absent" /\ status'[u] = "open"
    /\ \E o \in Operator : Ends(o, {"create"}, u)
HeldUp(u) ==
    /\ exec'[u] = exec[u] /\ status[u] = "open" /\ status'[u] = "blocked"
    /\ \/ reason'[u] = {}
       \/ CycleDispatches /\ u \in Escalated
Decided(u) ==
    /\ exec'[u] = exec[u] /\ reason'[u] = {}
    /\ status[u] = "blocked" /\ status'[u] \in {"open", "done"}
    /\ exec[u].status = "exhausted" /\ status'[u] = "open" => u \in uncounted'
Claimed(u) ==
    /\ Claimable(u) /\ status'[u] = "in_progress" /\ reason'[u] = reason[u]
    /\ exec'[u].status = "running" /\ exec'[u].limit \in Limits
    /\ exec'[u].attempts = exec[u].attempts
    /\ exec'[u].generation = exec[u].generation + 1
RecoveredFrom(u, seen, text) ==
    /\ exec'[u] = RecoveredRow(exec[u], seen)
    /\ status'[u] = RecoveredStatus(status[u], seen)
    /\ reason'[u] = RecoveredReason(reason[u], seen, text)
Recovered(u) ==
    \E seen \in Execution, text \in Texts \cup {{}} :
       /\ NeedsRecovery(seen)
       /\ RecoveredFrom(u, seen, text)
       /\ \/ seen = exec[u]
          \/ \E o \in Operator : Ends(o, {"recover"}, u) /\ call[o].seen = seen
       /\ seen.attempts # exec[u].attempts => u \in uncounted'
GaveUp(u) ==
    /\ CountsKept(u) /\ exec[u].status = "running"
    /\ reason'[u] \in Texts \cup {{}}
    /\ \/ exec'[u].status = "failed" /\ status'[u] = "in_progress"
       \/ exec'[u].status = "exhausted" /\ status'[u] = "blocked"
Ended(u) ==
    /\ CountsKept(u) /\ status'[u] \in Terminal /\ reason'[u] \in {reason[u], {}}
    /\ Active(u) \/ \E o \in Operator : Ends(o, {"cancel"}, u)
    /\ \/ exec'[u].status \in {"completed", "cancelled", "reconciled"}
       \/ exec'[u].status = "none" /\ exec[u].status = "none"

RowStep(u) ==
    \/ Renewed(u) \/ Opened(u) \/ HeldUp(u) \/ Decided(u)
    \/ Claimed(u) \/ Recovered(u) \/ GaveUp(u) \/ Ended(u)

LEMMA ExecutorRows ==
  ASSUME ReadsInv, ExecutorNext, NEW u \in Task
  PROVE  RowStep(u)
<1>1. exec \in [Task -> Execution] /\ status \in [Task -> TaskStatus]
      /\ reason \in [Task -> SUBSET ApprovalId]
  BY DEF ReadsInv, AgreementInv, TypeOK
<1>2. ASSUME UNCHANGED <<exec, status, reason>>
      PROVE  RowStep(u)
  BY <1>2 DEF RowStep, Renewed, CountsKept
<1>3. ASSUME NEW e \in Executor, Register(e)
      PROVE  RowStep(u)
  BY <1>2, <1>3 DEF Register
<1>4. ASSUME NEW t \in Task, NEW e \in Executor, NEW limit \in Limits,
             NEW proc \in {"none", "alive"}, Claim(t, e, limit, proc)
      PROVE  RowStep(u)
  <2>1. CASE u = t
    BY <1>1, <1>4, <2>1 DEF Claim, NextGeneration, RowStep, Claimed, Execution
  <2>2. CASE u # t
    BY <1>1, <1>4, <2>2 DEF Claim, RowStep, Renewed, CountsKept
  <2>3. QED
    BY <2>1, <2>2
<1>5. ASSUME NEW t \in Task, NEW g \in 1 .. MaxGeneration, NEW e \in Executor,
             AttachProcess(t, g, e)
      PROVE  RowStep(u)
  BY <1>1, <1>5 DEF AttachProcess, RowStep, Renewed, CountsKept, Execution
<1>6. ASSUME NEW t \in Task, NEW g \in 1 .. MaxGeneration, NEW e \in Executor,
             NEW token \in TokenUse
      PROVE  /\ Heartbeat(t, g, e, token) \/ Checkpoint(t, g, e, token) => RowStep(u)
             /\ FailRecoverably(t, g, e, token) => RowStep(u)
             /\ \A text \in Texts : FailPermanently(t, g, e, token, text) => RowStep(u)
             /\ Complete(t, g, e, token) => RowStep(u)
  <2>1. Heartbeat(t, g, e, token) \/ Checkpoint(t, g, e, token) => RowStep(u)
    BY <1>1 DEF Heartbeat, Checkpoint, RowStep, Renewed, CountsKept, Execution
  <2>2. FailRecoverably(t, g, e, token) => RowStep(u)
    BY <1>1 DEF FailRecoverably, ActiveExecution, RowStep, Renewed, GaveUp, CountsKept,
       Execution
  <2>3. \A text \in Texts : FailPermanently(t, g, e, token, text) => RowStep(u)
    BY <1>1 DEF FailPermanently, ActiveExecution, RowStep, Renewed, GaveUp, CountsKept,
       Execution
  <2>4. Complete(t, g, e, token) => RowStep(u)
    BY <1>1 DEF Complete, RowStep, Renewed, Ended, Active, Terminal, CountsKept, Execution
  <2>5. QED
    BY <2>1, <2>2, <2>3, <2>4
<1>7. QED
  BY <1>3, <1>4, <1>5, <1>6 DEF ExecutorNext

LEMMA CycleRows ==
  ASSUME ReadsInv, RunCycle, NEW u \in Task
  PROVE  RowStep(u)
<1>1. CASE CycleRecovers
  <2>1. CASE u \in Stale
    <3>1. exec[u] \in Execution /\ NeedsRecovery(exec[u])
      BY <2>1 DEF ReadsInv, AgreementInv, TypeOK, Stale
    <3>2. RecoveredFrom(u, exec[u], {})
      BY <1>1, <2>1 DEF CycleRecovers, RecoveredFrom
    <3>3. Recovered(u)
      BY <3>1, <3>2 DEF Recovered
    <3>4. QED
      BY <3>3 DEF RowStep
  <2>2. CASE u \notin Stale
    BY <1>1, <2>2 DEF CycleRecovers, RowStep, Renewed, CountsKept
  <2>3. QED
    BY <2>1, <2>2
<1>2. CASE CycleDispatches
  <2>1. CASE u \in Escalated
    <3>1. status[u] = "open"
      BY <2>1 DEF Escalated, FirstOfLane, Candidate
    <3>2. QED
      BY <1>2, <2>1, <3>1 DEF CycleDispatches, RowStep, HeldUp
  <2>2. CASE u \notin Escalated
    BY <1>2, <2>2 DEF CycleDispatches, RowStep, Renewed, CountsKept
  <2>3. QED
    BY <2>1, <2>2
<1>3. QED
  BY <1>1, <1>2 DEF RunCycle

LEMMA FinishRows ==
  ASSUME ReadsInv, NEW o \in Operator, NEW text \in Texts, Finish(o, text),
         NEW u \in Task
  PROVE  RowStep(u)
<1>1. /\ exec \in [Task -> Execution] /\ status \in [Task -> TaskStatus]
      /\ reason \in [Task -> SUBSET ApprovalId]
  BY DEF ReadsInv, AgreementInv, TypeOK
<1>2. PICK t \in Task, seen \in Execution :
         call[o].op \in SplitOps /\ call[o].task = t /\ call[o].seen = seen
  <2>1. call[o] \in Call /\ call[o] # Idle
    BY DEF Finish, ReadsInv, AgreementInv, TypeOK
  <2>2. QED
    BY <2>1 DEF Call
<1>3. Writes(call[o].op, t, seen, text) /\ call'[o] = Idle
  BY <1>2 DEF Finish, ReadsInv, AgreementInv, TypeOK
<1>4. CASE call[o].op = "create"
  <2>1. CreateTask(t)
    BY <1>3, <1>4 DEF Writes
  <2>2. CASE u = t
    <3>1. Ends(o, {"create"}, u)
      BY <1>2, <1>3, <1>4, <2>2 DEF Ends
    <3>2. Opened(u)
      BY <1>1, <2>1, <2>2, <3>1 DEF CreateTask, Opened
    <3>3. QED
      BY <3>2 DEF RowStep
  <2>3. CASE u # t
    BY <1>1, <2>1, <2>3 DEF CreateTask, RowStep, Renewed, CountsKept
  <2>4. QED
    BY <2>2, <2>3
<1>5. CASE call[o].op = "cancel"
  <2>1. CancelTask(t)
    BY <1>3, <1>5 DEF Writes
  <2>2. CASE u = t
    <3>1. /\ status'[u] = "cancelled" /\ reason'[u] = {} /\ CountsKept(u)
          /\ exec'[u].status = IF exec[u].status = "none" THEN "none" ELSE "cancelled"
      BY <1>1, <2>1, <2>2 DEF CancelTask, CountsKept, Execution
    <3>2. Ends(o, {"cancel"}, u)
      BY <1>2, <1>3, <1>5, <2>2 DEF Ends
    <3>3. Ended(u)
      BY <3>1, <3>2 DEF Ended, Terminal
    <3>4. QED
      BY <3>3 DEF RowStep
  <2>3. CASE u # t
    BY <1>1, <2>1, <2>3 DEF CancelTask, RowStep, Renewed, CountsKept
  <2>4. QED
    BY <2>2, <2>3
<1>6. CASE call[o].op = "recover"
  <2>1. RecoverTask(t, seen, text)
    BY <1>3, <1>6 DEF Writes
  <2>2. CASE u = t
    <3>1. NeedsRecovery(seen)
      BY <1>2, <1>6 DEF ReadsInv, ReadBefore, StaleRead
    <3>2. RecoveredFrom(u, seen, text)
      BY <1>1, <2>1, <2>2 DEF RecoverTask, RecoveredFrom
    <3>3. Ends(o, {"recover"}, u) /\ call[o].seen = seen
      BY <1>2, <1>3, <1>6, <2>2 DEF Ends
    <3>4. seen.attempts # exec[u].attempts => u \in uncounted'
      BY <2>1, <2>2 DEF RecoverTask
    <3>5. Recovered(u)
      BY <3>1, <3>2, <3>3, <3>4 DEF Recovered
    <3>6. QED
      BY <3>5 DEF RowStep
  <2>3. CASE u # t
    BY <1>1, <2>1, <2>3 DEF RecoverTask, RowStep, Renewed, CountsKept
  <2>4. QED
    BY <2>2, <2>3
<1>7. CASE call[o].op = "block"
  <2>1. BlockUnclaimed(t)
    BY <1>3, <1>7 DEF Writes
  <2>2. CASE u = t /\ status[t] = "open"
    <3>1. /\ exec' = exec /\ status' = [status EXCEPT ![t] = "blocked"]
          /\ reason' = [reason EXCEPT ![t] = {}]
      BY <2>1, <2>2 DEF BlockUnclaimed
    <3>2. /\ exec'[u] = exec[u] /\ reason'[u] = {}
          /\ status[u] = "open" /\ status'[u] = "blocked"
      BY <1>1, <2>2, <3>1
    <3>3. HeldUp(u)
      BY <3>2 DEF HeldUp
    <3>4. QED
      BY <3>3 DEF RowStep
  <2>3. CASE u # t \/ status[t] # "open"
    BY <1>1, <2>1, <2>3 DEF BlockUnclaimed, RowStep, Renewed, CountsKept
  <2>4. QED
    BY <2>2, <2>3
<1>8. QED
  BY <1>2, <1>4, <1>5, <1>6, <1>7 DEF SplitOps

LEMMA StepRows ==
  ASSUME ReadsInv, [Next]_vars, NEW u \in Task
  PROVE  RowStep(u)
<1>1. /\ exec \in [Task -> Execution] /\ status \in [Task -> TaskStatus]
      /\ reason \in [Task -> SUBSET ApprovalId]
  BY DEF ReadsInv, AgreementInv, TypeOK
<1>2. ASSUME UNCHANGED <<exec, status, reason>>
      PROVE  RowStep(u)
  BY <1>2 DEF RowStep, Renewed, CountsKept
<1>3. ASSUME NEW i \in ApprovalId, NEW d \in {"approved", "denied"}, Decide(i, d)
      PROVE  RowStep(u)
  <2>1. CASE u \in DecidedTasks(i)
    <3>1. /\ exec'[u] = exec[u] /\ reason'[u] = {} /\ status[u] = "blocked"
          /\ status'[u] = IF d = "approved" THEN "open" ELSE "done"
      BY <1>3, <2>1 DEF Decide, DecidedTasks
    <3>2. exec[u].status = "exhausted" /\ d = "approved" => u \in uncounted'
      BY <1>3, <2>1 DEF Decide
    <3>3. Decided(u)
      BY <1>3, <3>1, <3>2 DEF Decided
    <3>4. QED
      BY <3>3 DEF RowStep
  <2>2. CASE u \notin DecidedTasks(i)
    BY <1>3, <2>2 DEF Decide, RowStep, Renewed, CountsKept
  <2>3. QED
    BY <2>1, <2>2
<1>4. ASSUME NEW t \in Task, Reconcile(t)
      PROVE  RowStep(u)
  BY <1>1, <1>4 DEF Reconcile, Reconcilable, RowStep, Ended, Active, Terminal, Renewed,
     CountsKept, Execution
<1>5. CASE OperatorNext
  <2>1. \A o \in Operator, op \in SplitOps, t \in Task : Start(o, op, t) => RowStep(u)
    BY <1>2 DEF Start
  <2>2. \A o \in Operator : Abandon(o) => RowStep(u)
    BY <1>2 DEF Abandon
  <2>3. RequestApproval => RowStep(u)
    BY <1>2 DEF RequestApproval
  <2>4. QED
    BY <1>3, <1>4, <1>5, <2>1, <2>2, <2>3, FinishRows DEF OperatorNext
<1>6. CASE EnvironmentNext
  BY <1>1, <1>6 DEF EnvironmentNext, LeaseExpires, ProcessExits, RowStep, Renewed,
     CountsKept, Execution
<1>7. QED
  BY <1>2, <1>5, <1>6, ExecutorRows, CycleRows DEF Next, vars

-----------------------------------------------------------------------------
(* Lanes, closed work, leases                                              *)

\* Two tasks of a lane become active together only by a creation that did not read
\* the other one, or by a recovery of a task closed since its read: with any number
\* of operators between the reads of create_task and recover_task and their writes.
THEOREM LaneSharing == Spec => LaneSharedByLateWrites
<1>1. ReadsInv /\ [Next]_vars
        => [\A t, u \in Task :
              /\ t # u /\ Lane[t] = Lane[u]
              /\ ~Active(t) /\ Active(t)' /\ Active(u)'
              => \E o \in Operator :
                   \/ Ends(o, {"create"}, t) /\ u \notin call[o].read
                   \/ Ends(o, {"recover"}, t) /\ status[t] \in Terminal]_vars
  <2> SUFFICES ASSUME ReadsInv, [Next]_vars, NEW t \in Task, NEW u \in Task,
                      Lane[t] = Lane[u], ~Active(t), Active(t)'
               PROVE  \E o \in Operator :
                        \/ Ends(o, {"create"}, t) /\ u \notin call[o].read
                        \/ Ends(o, {"recover"}, t) /\ status[t] \in Terminal
    OBVIOUS
  <2>1. RowStep(t) /\ Agree(status[t], exec[t].status) /\ status[t] \in TaskStatus
    BY StepRows DEF ReadsInv, AgreementInv, TypeOK, StatusAgreement
  <2>2. CASE Opened(t)
    <3>1. PICK o \in Operator : Ends(o, {"create"}, t)
      BY <2>2 DEF Opened
    <3>2. \A v \in call[o].read : Lane[v] # Lane[t]
      BY <3>1 DEF Ends, ReadsInv, ReadBefore
    <3>3. QED
      BY <3>1, <3>2
  <2>3. CASE Recovered(t)
    <3>1. ~NeedsRecovery(exec[t])
      BY <2>1 DEF NeedsRecovery, Agree, Active
    <3>2. PICK o \in Operator : Ends(o, {"recover"}, t)
      BY <2>3, <3>1 DEF Recovered
    <3>3. status[t] # "absent"
      BY <3>2 DEF Ends, ReadsInv, AgreementInv, RecoversTask
    <3>4. QED
      BY <2>1, <3>2, <3>3 DEF Active, Terminal, TaskStatus
  <2>4. ~Renewed(t) /\ ~HeldUp(t) /\ ~Decided(t) /\ ~Claimed(t)
    BY DEF Renewed, HeldUp, Decided, Claimed, Claimable, Active
  <2>5. ~GaveUp(t) /\ ~Ended(t)
    BY <2>1 DEF GaveUp, Ended, Agree, Active, Terminal
  <2>6. QED
    BY <2>1, <2>2, <2>3, <2>4, <2>5 DEF RowStep
<1>2. QED
  BY <1>1, ReadsInit, ReadsStep, PTL DEF Spec, LaneSharedByLateWrites

\* Closed work changes status only by a cancellation or a recovery that read the
\* task while it was active, whatever comes between their reads and writes.
THEOREM ClosedWorkKept == Spec => ClosedWorkStays
<1>1. ReadsInv /\ [Next]_vars
        => [\A t \in Task :
              status[t] \in Terminal /\ status'[t] # status[t] =>
                \E o \in Operator :
                   Ends(o, {"cancel", "recover"}, t) /\ t \in call[o].read]_vars
  <2> SUFFICES ASSUME ReadsInv, [Next]_vars, NEW t \in Task,
                      status[t] \in Terminal, status'[t] # status[t]
               PROVE  \E o \in Operator :
                        Ends(o, {"cancel", "recover"}, t) /\ t \in call[o].read
    OBVIOUS
  <2>1. RowStep(t) /\ Agree(status[t], exec[t].status)
    BY StepRows DEF ReadsInv, AgreementInv, StatusAgreement
  <2>2. ~NeedsRecovery(exec[t]) /\ ~Active(t)
    BY <2>1 DEF NeedsRecovery, Agree, Active, Terminal
  <2>3. ~Renewed(t) /\ ~Opened(t) /\ ~HeldUp(t) /\ ~Decided(t) /\ ~Claimed(t)
    BY DEF Renewed, Opened, HeldUp, Decided, Claimed, Claimable, Terminal
  <2>4. ~GaveUp(t)
    BY <2>1 DEF GaveUp, Agree, Terminal
  <2>5. Recovered(t) \/ Ended(t)
    BY <2>1, <2>3, <2>4 DEF RowStep
  <2>6. PICK o \in Operator : Ends(o, {"cancel", "recover"}, t)
    BY <2>2, <2>5 DEF Recovered, Ended, Ends
  <2>7. t \in call[o].read
    BY <2>6 DEF Ends, ReadsInv, ReadBefore
  <2>8. QED
    BY <2>6, <2>7
<1>2. QED
  BY <1>1, ReadsInit, ReadsStep, PTL DEF Spec, ClosedWorkStays

\* A valid lease is taken, or charged an attempt, only by a recovery that read an
\* earlier claim; unknown work whose process lives is requeued only by a recovery
\* that read another row: recover_task may write as late as it likes.
THEOREM LiveWorkLeftAlone == Spec => RecoveryLeavesLiveWork
<1>1. ReadsInv /\ [Next]_vars
        => [\A t \in Task :
              /\ exec[t].status = "running" /\ exec[t].lease =>
                   \/ /\ exec'[t].status \notin {"requeued", "unknown"}
                      /\ exec'[t].attempts = exec[t].attempts
                   \/ \E o \in Operator :
                         /\ Ends(o, {"recover"}, t)
                         /\ call[o].seen.generation < exec[t].generation
              /\ exec[t].status = "unknown" /\ exec[t].proc = "alive" =>
                   \/ exec'[t].status \notin {"requeued", "exhausted"}
                   \/ \E o \in Operator :
                         Ends(o, {"recover"}, t) /\ call[o].seen # exec[t]]_vars
  <2> SUFFICES ASSUME ReadsInv, [Next]_vars, NEW t \in Task
               PROVE  /\ exec[t].status = "running" /\ exec[t].lease =>
                           \/ /\ exec'[t].status \notin {"requeued", "unknown"}
                              /\ exec'[t].attempts = exec[t].attempts
                           \/ \E o \in Operator :
                                 /\ Ends(o, {"recover"}, t)
                                 /\ call[o].seen.generation < exec[t].generation
                      /\ exec[t].status = "unknown" =>
                           \/ exec'[t].status \notin {"requeued", "exhausted"}
                           \/ \E o \in Operator :
                                 Ends(o, {"recover"}, t) /\ call[o].seen # exec[t]
    OBVIOUS
  <2>1. RowStep(t)
    BY StepRows
  <2>2. CASE Recovered(t)
    <3>1. CASE NeedsRecovery(exec[t])
      BY <3>1 DEF NeedsRecovery
    <3>2. CASE ~NeedsRecovery(exec[t])
      <4>1. PICK o \in Operator :
               Ends(o, {"recover"}, t) /\ NeedsRecovery(call[o].seen)
        BY <2>2, <3>2 DEF Recovered
      <4>2. call[o].seen # exec[t]
        BY <3>2, <4>1
      <4>3. ASSUME exec[t].status = "running", exec[t].lease
            PROVE  call[o].seen.generation < exec[t].generation
        <5>1. StaleRead(call[o]) /\ call[o].task = t
          BY <4>1 DEF Ends, ReadsInv, ReadBefore
        <5>2. call[o].seen.generation # exec[t].generation
          BY <4>3, <5>1, Zenon DEF StaleRead
        <5>3. call[o] # Idle /\ call[o] \in Call
          BY <4>1 DEF Ends, Idle, ReadsInv, AgreementInv, TypeOK
        <5>4. call[o].seen.generation \in Nat /\ exec[t].generation \in Nat
          BY <5>3 DEF Call, Execution, ReadsInv, AgreementInv, TypeOK
        <5>5. call[o].seen.generation <= exec[t].generation
          BY <5>1 DEF StaleRead
        <5>6. QED
          BY <5>2, <5>4, <5>5
      <4>4. QED
        BY <4>1, <4>2, <4>3
    <3>3. QED
      BY <3>1, <3>2
  <2>3. CASE ~Recovered(t)
    BY <2>1, <2>3 DEF RowStep, Renewed, Opened, HeldUp, Decided, Claimed, Claimable,
       GaveUp, Ended, CountsKept
  <2>4. QED
    BY <2>2, <2>3
<1>2. QED
  BY <1>1, ReadsInit, ReadsStep, PTL DEF Spec, RecoveryLeavesLiveWork

-----------------------------------------------------------------------------
(* Retries                                                                 *)

\* How often a task was claimed, by the attempts counted against it.
Counted(u) ==
    /\ exec[u].generation <= exec[u].attempts + 1
    /\ exec[u].status = "none" => exec[u].generation = 0
    /\ exec[u].status = "requeued" =>
         /\ exec[u].generation <= exec[u].attempts
         /\ \E m \in Limits : exec[u].attempts < m
    /\ exec[u].status \in {"running", "failed"} => exec[u].limit \in Limits
    /\ exec[u].status = "exhausted" => status[u] # "open"
    /\ Capped(u)
LimitsRead(u) ==
    \A o \in Operator : call[o].op = "recover" /\ call[o].task = u =>
                          call[o].seen.limit \in Limits
RetryInv == \A u \in Task : u \notin uncounted => Counted(u) /\ LimitsRead(u)

LEMMA CountedStep ==
  ASSUME ReadsInv, NEW u \in Task, Counted(u), LimitsRead(u), RowStep(u),
         u \notin uncounted'
  PROVE  Counted(u)'
<1>1. /\ Agree(status[u], exec[u].status) /\ exec[u] \in Execution
      /\ exec[u].attempts \in Nat /\ exec[u].generation \in Nat
      /\ Limits \subseteq Nat \ {0}
  BY ConstantsAssumption DEF ReadsInv, AgreementInv, StatusAgreement, TypeOK, Execution
<1>2. CASE Renewed(u)
  BY <1>2 DEF Renewed, CountsKept, Counted, Capped
<1>3. CASE Opened(u) \/ HeldUp(u) \/ Decided(u)
  <2>1. exec'[u] = exec[u]
    BY <1>3 DEF Opened, HeldUp, Decided
  <2>2. exec[u].status = "exhausted" => status'[u] # "open"
    BY <1>1, <1>3 DEF Opened, HeldUp, Decided, Agree
  <2>3. QED
    BY <2>1, <2>2 DEF Counted, Capped
<1>4. CASE Claimed(u)
  <2>1. exec[u].status \in {"none", "requeued"}
    BY <1>4 DEF Claimed, Claimable, Counted
  <2>2. exec[u].generation <= exec[u].attempts
    BY <1>1, <2>1 DEF Counted
  <2>3. \E m \in Limits : exec[u].generation + 1 <= m
    <3>1. CASE exec[u].status = "none"
      <4>1. exec[u].generation = 0
        BY <3>1 DEF Counted
      <4>2. exec'[u].limit \in Limits /\ exec'[u].limit \in Nat \ {0}
        BY <1>1, <1>4 DEF Claimed
      <4>3. exec[u].generation + 1 <= exec'[u].limit
        BY <4>1, <4>2
      <4>4. QED
        BY <4>2, <4>3
    <3>2. CASE exec[u].status = "requeued"
      <4>1. PICK m \in Limits : exec[u].attempts < m
        BY <3>2 DEF Counted
      <4>2. exec[u].generation + 1 <= m
        BY <1>1, <2>2, <4>1
      <4>3. QED
        BY <4>2
    <3>3. QED
      BY <2>1, <3>1, <3>2
  <2>4. exec'[u].generation <= exec'[u].attempts + 1
    BY <1>1, <1>4, <2>2 DEF Claimed
  <2>5. Capped(u)'
    BY <1>4, <2>3 DEF Claimed, Capped
  <2>6. QED
    BY <1>4, <2>4, <2>5 DEF Claimed, Counted
<1>5. CASE Recovered(u)
  <2>1. PICK seen \in Execution, text \in Texts \cup {{}} :
          /\ NeedsRecovery(seen)
          /\ RecoveredFrom(u, seen, text)
          /\ \/ seen = exec[u]
             \/ \E o \in Operator : Ends(o, {"recover"}, u) /\ call[o].seen = seen
          /\ seen.attempts # exec[u].attempts => u \in uncounted'
    BY <1>5 DEF Recovered
  <2>2. seen.attempts = exec[u].attempts
    BY <2>1
  <2>3. seen.limit \in Limits
    BY <2>1 DEF NeedsRecovery, Counted, Ends, LimitsRead
  <2>4. exec'[u].generation = exec[u].generation
    BY <1>1, <2>1 DEF RecoveredFrom, RecoveredRow, Execution
  <2>5. Capped(u)'
    BY <2>4 DEF Counted, Capped
  <2>6. CASE Outcome(seen) = "unknown"
    <3>1. exec'[u].status = "unknown" /\ exec'[u].attempts = exec[u].attempts
      BY <1>1, <2>1, <2>6 DEF RecoveredFrom, RecoveredRow, Execution
    <3>2. QED
      BY <2>4, <2>5, <3>1 DEF Counted
  <2>7. CASE Outcome(seen) \in {"exhausted", "requeued"}
    <3>1. /\ exec'[u].status = Outcome(seen)
          /\ exec'[u].attempts = exec[u].attempts + 1
      BY <1>1, <2>1, <2>2, <2>7 DEF RecoveredFrom, RecoveredRow, Execution
    <3>2. /\ exec'[u].generation <= exec'[u].attempts
          /\ exec'[u].generation <= exec'[u].attempts + 1
      BY <1>1, <2>4, <3>1 DEF Counted
    <3>3. Outcome(seen) = "exhausted" => status'[u] # "open"
      BY <2>1 DEF RecoveredFrom, RecoveredStatus
    <3>4. ASSUME Outcome(seen) = "requeued"
          PROVE  exec'[u].attempts < seen.limit
      <4>1. seen.limit \in Nat /\ seen.attempts + 1 \in Nat
        BY DEF Execution
      <4>2. ~(seen.attempts + 1 >= seen.limit)
        BY <3>4, Zenon DEF Outcome
      <4>3. QED
        BY <2>2, <3>1, <4>1, <4>2
    <3>5. QED
      BY <2>3, <2>5, <2>7, <3>1, <3>2, <3>3, <3>4 DEF Counted
  <2>8. QED
    BY <2>6, <2>7 DEF Outcome
<1>6. CASE GaveUp(u)
  BY <1>6 DEF GaveUp, CountsKept, Counted, Capped
<1>7. CASE Ended(u)
  BY <1>7 DEF Ended, CountsKept, Counted, Capped, Terminal
<1>8. QED
  BY <1>2, <1>3, <1>4, <1>5, <1>6, <1>7 DEF RowStep

\* A recovery reads a row that a claim wrote, so its limit is one a claim passed.
LEMMA LimitsStep ==
  ASSUME ReadsInv, [Next]_vars, NEW u \in Task, Counted(u), LimitsRead(u)
  PROVE  LimitsRead(u)'
<1> SUFFICES ASSUME NEW o \in Operator, call'[o].op = "recover", call'[o].task = u
             PROVE  call'[o].seen.limit \in Limits
  BY DEF LimitsRead
<1>1. call'[o] # Idle
  BY DEF Idle
<1>2. CASE call'[o] = call[o]
  BY <1>2 DEF LimitsRead
<1>3. ASSUME NEW op \in SplitOps, NEW t \in Task, Start(o, op, t),
             call'[o] = Reading(op, t)
      PROVE  call'[o].seen.limit \in Limits
  <2>1. op = "recover" /\ t = u /\ call'[o].seen = exec[u]
    BY <1>3 DEF Reading
  <2>2. NeedsRecovery(exec[u])
    BY <1>3, <2>1 DEF Start, Reads, CanRecover
  <2>3. QED
    BY <2>1, <2>2 DEF NeedsRecovery, Counted
<1>4. QED
  BY <1>1, <1>2, <1>3, CallSteps DEF ReadsInv, AgreementInv

\* Executors request no approval, and count every claim.
LEMMA ExecutorsLeave ==
  ASSUME ExecutorNext
  PROVE  UNCHANGED approvalVars /\ uncounted' = uncounted
<1>1. \A e : Register(e) => UNCHANGED approvalVars /\ uncounted' = uncounted
  BY DEF Register, workVars
<1>2. \A t, e, limit, proc :
         Claim(t, e, limit, proc) => UNCHANGED approvalVars /\ uncounted' = uncounted
  BY DEF Claim
<1>3. \A t, g, e : AttachProcess(t, g, e) => UNCHANGED approvalVars /\ uncounted' = uncounted
  BY DEF AttachProcess
<1>4. \A t, g, e, token :
         \/ Heartbeat(t, g, e, token) \/ Checkpoint(t, g, e, token)
         \/ FailRecoverably(t, g, e, token) \/ Complete(t, g, e, token)
         => UNCHANGED approvalVars /\ uncounted' = uncounted
  BY DEF Heartbeat, Checkpoint, FailRecoverably, Complete, AcceptedFrom
<1>5. \A t, g, e, token, text :
         FailPermanently(t, g, e, token, text)
         => UNCHANGED approvalVars /\ uncounted' = uncounted
  BY DEF FailPermanently, AcceptedFrom
<1>6. QED
  BY <1>1, <1>2, <1>3, <1>4, <1>5 DEF ExecutorNext

LEMMA UncountedGrows ==
  ASSUME [Next]_vars
  PROVE  uncounted \subseteq uncounted'
<1>1. UNCHANGED vars \/ RunCycle \/ EnvironmentNext => uncounted' = uncounted
  BY DEF vars, RunCycle, CycleRecovers, CycleDispatches, EnvironmentNext,
         LeaseExpires, ProcessExits, workVars
<1>2. ExecutorNext => uncounted' = uncounted
  BY ExecutorsLeave DEF workVars
<1>3. \A op, t, seen, text : Writes(op, t, seen, text) => uncounted \subseteq uncounted'
  BY DEF Writes, CreateTask, CancelTask, RecoverTask, BlockUnclaimed, workVars
<1>4. OperatorNext => uncounted \subseteq uncounted'
  BY <1>3 DEF OperatorNext, Start, Finish, Abandon, RequestApproval, Decide,
              Reconcile, workVars
<1>5. QED
  BY <1>1, <1>2, <1>4 DEF Next

\* No task is claimed more often than the largest max_attempts a claim may pass, with
\* any number of operators and executors interleaved, unless a recovery wrote its
\* attempts from a row another recovery had moved, or an approval reopened it exhausted.
THEOREM RetriesBounded == Spec => []RetryBound
<1>1. Init => ReadsInv /\ RetryInv
  <2>1. ASSUME Init, NEW u \in Task
        PROVE  Counted(u) /\ LimitsRead(u)
    BY <2>1 DEF Init, NoExecution, Counted, Capped, LimitsRead, Idle
  <2>2. QED
    BY <2>1, ReadsInit DEF RetryInv
<1>2. ReadsInv /\ RetryInv /\ [Next]_vars => (ReadsInv /\ RetryInv)'
  <2> SUFFICES ASSUME ReadsInv, RetryInv, [Next]_vars, NEW u \in Task,
                      u \notin uncounted'
               PROVE  Counted(u)' /\ LimitsRead(u)'
    BY ReadsStep DEF RetryInv
  <2>1. Counted(u) /\ LimitsRead(u)
    BY UncountedGrows DEF RetryInv
  <2>2. QED
    BY <2>1, StepRows, CountedStep, LimitsStep
<1>3. RetryInv => RetryBound
  BY DEF RetryInv, RetryBound, Counted
<1>4. QED
  BY <1>1, <1>2, <1>3, PTL DEF Spec

-----------------------------------------------------------------------------
(* Escalations                                                             *)

\* Two escalations of one cycle are in the two product lanes.
LEMMA TwoEscalations ==
  ASSUME NEW t \in Escalated, NEW u \in Escalated, t # u, NEW v \in Escalated
  PROVE  v = t \/ v = u
<1>1. /\ t \in Task /\ u \in Task /\ v \in Task
      /\ FirstOfLane(t) /\ FirstOfLane(u) /\ FirstOfLane(v)
  BY ConstantsAssumption DEF Escalated
<1>2. \A x, y \in {t, u, v} : Lane[x] = Lane[y] => x = y
  <2> SUFFICES ASSUME NEW x \in {t, u, v}, NEW y \in {t, u, v}, Lane[x] = Lane[y]
               PROVE  x = y
    OBVIOUS
  <2>1. Rank[x] <= Rank[y] /\ Rank[y] <= Rank[x]
    BY <1>1 DEF FirstOfLane
  <2>2. Rank[x] \in Nat /\ Rank[y] \in Nat
    BY <1>1, ConstantsAssumption
  <2>3. Rank[x] = Rank[y]
    BY <2>1, <2>2
  <2>4. QED
    BY <1>1, <2>3, ConstantsAssumption
<1>3. Lane[t] \in ProductLanes /\ Lane[u] \in ProductLanes /\ Lane[v] \in ProductLanes
  BY <1>1 DEF FirstOfLane, Candidate
<1>4. QED
  BY <1>2, <1>3 DEF ProductLanes

LEMMA EscalationIds ==
  ASSUME TypeOK, NEW t \in Escalated
  PROVE  /\ EscalationId(t) > lastApproval
         /\ EscalationId(t) <= lastApproval + Escalations
         /\ \A u \in Escalated : EscalationId(u) = EscalationId(t) => u = t
<1>1. lastApproval \in Nat /\ t \in Task /\ Escalated \subseteq Task
  BY ConstantsAssumption DEF TypeOK, Escalated
<1>2. \A u \in Task : Rank[u] \in Nat
  BY ConstantsAssumption
<1>3. EscalationId(t) \in {lastApproval + 1, lastApproval + 2}
  BY DEF EscalationId
<1>4. EscalationId(t) <= lastApproval + Escalations
  <2>1. CASE \E u \in Escalated : Rank[u] > Rank[t]
    <3>1. \E u, v \in Escalated : u # v
      BY <1>1, <1>2, <2>1
    <3>2. Escalations = 2
      BY <3>1 DEF Escalations
    <3>3. QED
      BY <1>1, <1>3, <3>2
  <2>2. CASE ~\E u \in Escalated : Rank[u] > Rank[t]
    <3>1. EscalationId(t) = lastApproval + 1
      BY <2>2 DEF EscalationId
    <3>2. Escalations \in {1, 2}
      BY DEF Escalations
    <3>3. QED
      BY <1>1, <3>1, <3>2
  <2>3. QED
    BY <2>1, <2>2
<1>5. ASSUME NEW u \in Escalated, NEW v \in Escalated, Rank[v] > Rank[u]
      PROVE  EscalationId(u) # EscalationId(v)
  <2>1. u # v
    BY <1>1, <1>2, <1>5
  <2>2. ~\E w \in Escalated : Rank[w] > Rank[v]
    BY <1>1, <1>2, <1>5, <2>1, TwoEscalations
  <2>3. EscalationId(u) = lastApproval + 2 /\ EscalationId(v) = lastApproval + 1
    BY <1>5, <2>2 DEF EscalationId
  <2>4. QED
    BY <1>1, <2>3
<1>6. \A u \in Escalated : EscalationId(u) = EscalationId(t) => u = t
  <2> SUFFICES ASSUME NEW u \in Escalated, u # t
               PROVE  EscalationId(u) # EscalationId(t)
    OBVIOUS
  <2>1. Rank[u] > Rank[t] \/ Rank[t] > Rank[u]
    BY <1>1, <1>2, ConstantsAssumption
  <2>2. QED
    BY <1>5, <2>1
<1>7. QED
  BY <1>1, <1>3, <1>4, <1>6

\* The approval an undecided row of approvals waits for is requested once and
\* stays until it is decided; ids above the last are free.
ApprovalsBelow ==
    \A i \in ApprovalId : i > lastApproval => approval[i].status = "none"

LEMMA ApprovalSteps ==
  ASSUME ReadsInv, ApprovalsBelow, [Next]_vars
  PROVE  /\ ApprovalsBelow'
         /\ \A i \in ApprovalId : approval[i].status = "pending" =>
              \/ approval'[i] = approval[i]
              \/ \E d \in {"approved", "denied"} : Decide(i, d)
<1>1. /\ lastApproval \in Nat /\ approval \in [ApprovalId -> Approval] /\ TypeOK
      /\ \A i \in ApprovalId : i \in Nat
  BY ConstantsAssumption DEF ReadsInv, AgreementInv, TypeOK, ApprovalId
<1>2. CASE CycleDispatches
  <2>1. lastApproval' = lastApproval + Escalations /\ Escalations \in {0, 1, 2}
    BY <1>2 DEF CycleDispatches, Escalations
  <2>2. ASSUME NEW i \in ApprovalId, ~\E t \in Escalated : EscalationId(t) = i
        PROVE  approval'[i] = approval[i]
    BY <1>2, <2>2 DEF CycleDispatches
  <2>3. ASSUME NEW i \in ApprovalId, NEW t \in Escalated, EscalationId(t) = i
        PROVE  i > lastApproval /\ i <= lastApproval'
    BY <1>1, <2>1, <2>3, EscalationIds
  <2>4. ASSUME NEW i \in ApprovalId, i > lastApproval'
        PROVE  approval'[i].status = "none"
    <3>1. ~\E t \in Escalated : EscalationId(t) = i
      BY <1>1, <2>1, <2>3, <2>4
    <3>2. i > lastApproval
      BY <1>1, <2>1, <2>4
    <3>3. QED
      BY <2>2, <3>1, <3>2 DEF ApprovalsBelow
  <2>5. ASSUME NEW i \in ApprovalId, approval[i].status = "pending"
        PROVE  approval'[i] = approval[i]
    <3>1. ~(i > lastApproval)
      BY <2>5 DEF ApprovalsBelow
    <3>2. QED
      BY <2>2, <2>3, <3>1
  <2>6. QED
    BY <2>4, <2>5 DEF ApprovalsBelow
<1>3. CASE RequestApproval
  <2>1. /\ lastApproval' = lastApproval + 1
        /\ \A i \in ApprovalId : i # lastApproval + 1 => approval'[i] = approval[i]
    BY <1>1, <1>3 DEF RequestApproval
  <2>2. \A i \in ApprovalId : i > lastApproval' =>
           i > lastApproval /\ i # lastApproval + 1
    BY <1>1, <2>1
  <2>3. ApprovalsBelow'
    BY <2>1, <2>2 DEF ApprovalsBelow
  <2>4. \A i \in ApprovalId : approval[i].status = "pending" => i # lastApproval + 1
    <3>1. lastApproval + 1 > lastApproval
      BY <1>1
    <3>2. QED
      BY <3>1 DEF ApprovalsBelow
  <2>5. QED
    BY <2>1, <2>3, <2>4
<1>4. ASSUME NEW j \in ApprovalId, NEW d \in {"approved", "denied"}, Decide(j, d)
      PROVE  /\ ApprovalsBelow'
             /\ \A i \in ApprovalId : approval[i].status = "pending" =>
                  approval'[i] = approval[i] \/ Decide(i, d)
  <2>1. /\ lastApproval' = lastApproval /\ approval[j].status = "pending"
        /\ \A i \in ApprovalId : i # j => approval'[i] = approval[i]
    BY <1>1, <1>4 DEF Decide
  <2>2. ~(j > lastApproval)
    BY <2>1 DEF ApprovalsBelow
  <2>3. ApprovalsBelow'
    BY <2>1, <2>2 DEF ApprovalsBelow
  <2>4. QED
    BY <1>4, <2>1, <2>3
<1>5. CASE UNCHANGED approvalVars
  BY <1>5 DEF approvalVars, ApprovalsBelow
<1>6. QED
  <2>1. ExecutorNext => UNCHANGED approvalVars
    BY ExecutorsLeave
  <2>2. EnvironmentNext \/ CycleRecovers \/ UNCHANGED vars => UNCHANGED approvalVars
    BY DEF EnvironmentNext, LeaseExpires, ProcessExits, CycleRecovers, vars, approvalVars
  <2>3. \A op, t, seen, text : Writes(op, t, seen, text) => UNCHANGED approvalVars
    BY DEF Writes, CreateTask, CancelTask, RecoverTask, BlockUnclaimed
  <2>4. \/ UNCHANGED approvalVars \/ RequestApproval
        \/ \E j \in ApprovalId, d \in {"approved", "denied"} : Decide(j, d)
        \/ ~OperatorNext
    BY <2>3 DEF OperatorNext, Start, Finish, Abandon, Reconcile
  <2>5. QED
    BY <1>2, <1>3, <1>4, <1>5, <2>1, <2>2, <2>4 DEF Next, RunCycle

\* What EscalationAnswerable says of one task.
Answerable(u) ==
    /\ status[u] = "blocked" /\ reason[u] # {}
    /\ exec[u].status \in {"none", "requeued"}
    => \E i \in reason[u] : approval[i] = [task |-> u, status |-> "pending"]

LEMMA AnswerableStep ==
  ASSUME ReadsInv, ApprovalsBelow, [Next]_vars, NEW u \in Task, Answerable(u)
  PROVE  Answerable(u)'
<1>1. /\ RowStep(u) /\ TypeOK /\ reason[u] \subseteq ApprovalId
      /\ Agree(status[u], exec[u].status) /\ exec[u] \in Execution
  BY StepRows DEF ReadsInv, AgreementInv, TypeOK, StatusAgreement
<1>2. CASE Renewed(u)
  <2> SUFFICES ASSUME status'[u] = "blocked", reason'[u] # {},
                      exec'[u].status \in {"none", "requeued"}
               PROVE  \E i \in reason'[u] :
                         approval'[i] = [task |-> u, status |-> "pending"]
    BY DEF Answerable
  <2>1. PICK i \in reason[u] : approval[i] = [task |-> u, status |-> "pending"]
    BY <1>2 DEF Renewed, Answerable
  <2>2. ASSUME NEW d \in {"approved", "denied"}, Decide(i, d)
        PROVE  FALSE
    <3>1. u \in DecidedTasks(i)
      BY <1>2, <2>1 DEF Renewed, DecidedTasks
    <3>2. status'[u] # "blocked"
      BY <2>2, <3>1 DEF Decide
    <3>3. QED
      BY <3>2
  <2>3. approval'[i] = approval[i]
    BY <1>1, <2>1, <2>2, ApprovalSteps
  <2>4. QED
    BY <1>2, <2>1, <2>3 DEF Renewed
<1>3. CASE CycleDispatches /\ u \in Escalated
  <2>1. PICK id \in ApprovalId : id = EscalationId(u)
    <3>1. lastApproval \in Nat /\ Escalations \in Nat
      BY <1>1, ConstantsAssumption DEF TypeOK, Escalations
    <3>2. EscalationId(u) \in Nat
      BY <3>1 DEF EscalationId
    <3>3. EscalationId(u) \in 1 .. MaxApproval
      BY <1>1, <1>3, <3>1, <3>2, EscalationIds, ConstantsAssumption DEF CycleDispatches
    <3>4. QED
      BY <3>3 DEF ApprovalId
  <2>2. (CHOOSE t \in Escalated : EscalationId(t) = id) = u
    BY <1>1, <1>3, <2>1, EscalationIds
  <2>3. approval'[id] = [task |-> u, status |-> "pending"]
    BY <1>3, <2>1, <2>2 DEF CycleDispatches
  <2>4. id \div 1 = id
    BY <2>1 DEF ApprovalId
  <2>5. id \in Mentions(EscalationId(u))
    BY <2>1, <2>4 DEF Mentions
  <2>6. reason'[u] = Mentions(EscalationId(u))
    BY <1>3 DEF CycleDispatches, Escalated
  <2>7. QED
    BY <2>3, <2>5, <2>6 DEF Answerable
<1>4. CASE Recovered(u)
  <2>1. PICK seen \in Execution, text \in Texts \cup {{}} : RecoveredFrom(u, seen, text)
    BY <1>4 DEF Recovered
  <2>2. exec'[u].status = Outcome(seen) /\ Outcome(seen) \in {"unknown", "exhausted", "requeued"}
    BY <1>1, <2>1 DEF RecoveredFrom, RecoveredRow, Outcome, Execution
  <2>3. Outcome(seen) = "requeued" => status'[u] = "open"
    BY <2>1 DEF RecoveredFrom, RecoveredStatus
  <2>4. QED
    BY <2>2, <2>3 DEF Answerable
<1>5. CASE HeldUp(u) /\ reason'[u] = {}
  BY <1>5 DEF Answerable
<1>6. CASE Opened(u) \/ Decided(u) \/ Claimed(u) \/ Ended(u)
  BY <1>6 DEF Opened, Decided, Claimed, Ended, Terminal, Answerable
<1>7. CASE GaveUp(u)
  BY <1>7 DEF GaveUp, Answerable
<1>8. QED
  BY <1>1, <1>2, <1>3, <1>4, <1>5, <1>6, <1>7 DEF RowStep, HeldUp

\* An escalated task always has a pending approval that will release it, even if
\* error texts and other approvals' numbers make decide find it too early, and for
\* any number of approvals.
THEOREM EscalationsAnswerable == Spec => []EscalationAnswerable
<1>1. Init => ReadsInv /\ ApprovalsBelow /\ \A u \in Task : Answerable(u)
  <2>1. Init => ApprovalsBelow /\ \A u \in Task : Answerable(u)
    BY ConstantsAssumption DEF Init, ApprovalsBelow, Answerable
  <2>2. QED
    BY <2>1, ReadsInit
<1>2. ReadsInv /\ ApprovalsBelow /\ (\A u \in Task : Answerable(u)) /\ [Next]_vars
        => (ReadsInv /\ ApprovalsBelow /\ \A u \in Task : Answerable(u))'
  <2> SUFFICES ASSUME ReadsInv, ApprovalsBelow, \A u \in Task : Answerable(u),
                      [Next]_vars
               PROVE  ReadsInv' /\ ApprovalsBelow' /\ \A u \in Task : Answerable(u)'
    OBVIOUS
  <2>1. ReadsInv' /\ ApprovalsBelow'
    BY ReadsStep, ApprovalSteps
  <2>2. \A u \in Task : Answerable(u)'
    BY AnswerableStep
  <2>3. QED
    BY <2>1, <2>2
<1>3. (\A u \in Task : Answerable(u)) => EscalationAnswerable
  BY DEF Answerable, EscalationAnswerable
<1>4. QED
  BY <1>1, <1>2, <1>3, PTL DEF Spec

=============================================================================
