# Agent Company OS: a verification development

This directory holds TLA+ specifications of the operating core of Agent Company
OS (`src/agent_company`), the TLC configurations that model-check them, and
theorems about them that the TLA+ proof system (TLAPS) checks.

`PROJECT.json` is the index: components, runs, mutants, findings, hazards,
theorems, and, for every definition that models code, the lines it models.

    tlc -workers 2 -config MCTaskLifecycle_races.cfg MCTaskLifecycle
    tlapm TaskLifecycleProofs.tla

## 1. Inventory

The program is a set of processes around one SQLite file. The event worker
(`worker-run`) sleeps until an event is due, dispatches or asks the CEO's
reasoning provider, and acknowledges the event. Executors (`runner.py`, or a
person at the command line) claim tasks, keep a lease alive, and complete or fail
them. The CEO and the Chairman create, cancel, recover and decide from the command
line. Every process opens its own connections; the only coordination is SQLite's
transactions, one advisory file lock for the worker, and one FIFO to wake it.

| Component | Code | State | Operations | What makes it correct |
|---|---|---|---|---|
| Task ledger | `ops.py` | `tasks`, `task_executions`, `executors`, `task_reconciliations` | create, claim, heartbeat, checkpoint, fail, complete, cancel, recover, requeue, reconcile, run_cycle | one owner per task; a stale claim changes nothing; rows agree; retries bounded; closed work is not taken up again; live work is left alone |
| Approvals | `ops.py`, `ceo_runtime.py` | `approvals` | escalate, request, decide | a decision moves only its task; reserved work starts after approval |
| Event queue and worker | `event_engine.py`, `db.py` | `execution_events`, worker lock, FIFO, `event_worker_state` | enqueue, notify, lock, recover, claim, handle, defer, dead-letter, wait | at-least-once handling; no lost wake-up; leases watched; the queue drains |
| Executor runner | `runner.py` | the Codex child process | run_once, attach process | uses the ledger under its token |
| CEO runtime | `ceo_runtime.py` | `ceo_state_versions`, `ceo_runs`, `chairman_directives`, `approval_deliveries` | ingest directive, reason, apply, deliver card | no judgement on stale state is applied; versions are linear; cards delivered |
| Pilot gate | `pilot_gate.py` | task bindings, kill switch, claim history, execution and completion bindings | bind, kill switch, dispatch decision, claim / runtime / completion fences | a pilot task is completed only for the artifact set, the generation and the authority it was started under |
| Assurance lifecycle | `assurance*.py` | initiatives, artifacts with approvals and links, gate decisions, blocks, principals | register, approve, supersede, record a gate, transition, block, resume | what was withdrawn stays withdrawn, with all that depends on it; outdated decisions open nothing; no release over a negative review that was examined |
| Trusted evaluator | `trusted_evaluator.py` | contracts, runs, the credential chain, quarantine | create a contract, record a run, quarantine | every run under a credential of the chain; rotation locks nobody out |
| Completion verifier | `completion_verifier.py` | none | judge the evidence of a completion | grants a certificate only for the set, the run and the review it names |
| Context compiler, knowledge | `context_*.py` | bundles on disk, `task_contexts`, continuity records | compile, materialize, ingest | a bundle is bound to one generation |
| Integrity | `integrity.py` | recovery ledger file, keys | sign, verify, read, append | the ledger and SQLite differ only by what died or overlapped; then nobody enters |
| Phase D harness | `phase_d_*.py` | experiment slots on disk | prepare, run, score | offline |
| Dashboard, CLI, config, governance, registry | rest | none or read-only | | |

Hard behaviour in this code, in short (the full list, with lines, is `hazards` in
`PROJECT.json`):

* *Read, then write.* `sqlite3.connect` with its default isolation level opens a
  transaction at the first INSERT or UPDATE, not at the first SELECT. Methods that
  do not start with `BEGIN IMMEDIATE` check in one state and write in another:
  `create_task`, `cancel_task`, `recover_task`, the block of an unclaimed task.
* *Two rows per task.* Each method moves `tasks.status` and
  `task_executions.recovery_status` with separate UPDATEs, some guarded.
* *Leases and generations.* A late executor races recovery and a new claim.
* *Crash between commit and acknowledgement* of an event; worker restarts.
* *Judging on a snapshot.* The CEO reasons for minutes with nothing locked, on two
  reads that no transaction holds together.
* *Sending, then recording.* A card goes out before its delivery is on record.
* *Commit, then notify*: the FIFO keeps nothing without a reader.
* *Commit, then append*: a governed requeue writes SQLite and afterwards a file; a
  failure of the file is compensated in a second transaction.
* *Decisions that outlive what they decided on*: gate decisions, task bindings,
  context bundles and certificates are made at different times and compared later.
* *Authenticate, then write*: a credential may be rotated in between.
* *Deadlines computed before sleeping* may be older than the lease they miss.

## 2. Modules

| Module | What it is |
|---|---|
| `FencedWork` | abstract: a lock with numbered grants |
| `TaskLifecycle` | the task ledger, approvals, the runner's calls; implements `FencedWork` |
| `TaskLifecycleProofs` | types, and agreement of the two rows of a task |
| `TaskOwnershipProofs` | ownership, fencing, the refinement; what late writes can do to lanes, closed and live work, retries and escalations |
| `DurableQueue` | abstract: an at-least-once queue |
| `EventEngine` | the event queue, the worker and the wake-up protocol; implements `DurableQueue` |
| `EventEngineProofs` | types, the lock and the event in hand; nothing stranded; the refinement |
| `EventWorkerProofs` | no lost wake-up; unclaimed tasks are not forgotten; leases are watched |
| `CeoRuntime` | directives, judgements, decision cards and strategic reviews |
| `CeoProofs` | its types, current judgements, tracked cards, strategic reviews |
| `Assurance` | artifacts, gates, the lifecycle of one initiative, and the trusted evaluator |
| `AssuranceProofs` | its types, what is withdrawn or outdated for good and how far a withdrawal reaches, credentials, what a release rests on |
| `Certification` | abstract: what the pilot gate promises about one task |
| `PilotGate` | the pilot gate, the completion verifier and context bundles over `Assurance`; implements `Certification` |
| `PilotProofs` | its types, what a finished task is certified for, late compilers, the refinement |
| `Requeue` | the governed requeue with its external ledger and its compensation |
| `RequeueProofs` | its types, one requeue per exhaustion, how rows and lines come to differ |
| `MCTaskLifecycle`, `MCEventEngine`, `MCCeoRuntime`, `MCAssurance`, `MCPilotGate`, `MCRequeue` | instances for TLC |

`TaskLifecycle` implements `FencedWork`, `EventEngine` implements `DurableQueue`, `PilotGate` extends `Assurance` (it composes
the gate with the lifecycle it reads) and implements `Certification`. The ledger
appears in `EventEngine`, `PilotGate` and `Requeue` as far as each of them sees it.

### TaskLifecycle

`status[t]` is `tasks.status`, `exec[t]` the task's only row of
`task_executions` (status, holder, whether the recorded process lives, whether the
lease is ahead, attempts, limit, generation), `reason[t]` the approval ids whose
`#id` occurs in `blocked_reason`, `result[t]` whether `tasks.result` is set,
`approval` and `reconciliation` the rows of those tables. `claims` is the history
of granted claims, which is what an executor knows: it calls with a task, a
generation and its id. `author[t]` is history too, the generation of the last
accepted call.

One action per method: `Register`, `Claim`, `AttachProcess`, `Heartbeat`,
`Checkpoint`, `FailRecoverably` and `FailPermanently`, `Complete`, `Reconcile`,
`Decide`, `RequestApproval`, and `RunCycle`, which is `CycleRecovers` or, with
nothing to recover, `CycleDispatches`. Create, cancel, recover and block are read
by `Start` and written by `Finish`; `Abandon` is a process that dies in between
and rolls back. `LeaseExpires` and `ProcessExits` are the environment.

Abstractions. Time is one bit per lease. The several SELECTs of one reading part
are one step; the writes that follow are one transaction. The fencing token
`generation:nonce` is its generation. The verdicts of the pilot gate, of the
completion verifier and of the signature checks are left open: a call they refuse
changes nothing. `run_cycle`'s reading of the ledger happens after its first
INSERT and is therefore part of its transaction. Evidence, summaries, audit rows
and metrics are left out. `requeue_exhausted_task`, which reopens two tasks named in
the code, is in `Requeue`; here an exhausted task is reopened only by a decision that
mentions it.

Parameters worth a word. `TokenUse` is the set of choices executors have about
passing their token: the runner always passes it, the command line makes it
optional. `PriorApprovals` lets the history start after that many requests, so that
ids of two digits come into reach. No operation is assumed to run alone: the
properties about closed work, live work, lanes and retries hold with everything
interleaved, and name the late writes that are the only way past them. Two fields
of history make that possible: `call[o].read`, what an operation saw active, and
`uncounted`, the tasks whose attempt count a late recovery overwrote, or which an
approval reopened when they were exhausted.

`FencedWork` is the promise about ownership: work is granted while nobody has it, each
grant has the next number, and a call is accepted only from the latest grant, while it
lasts. The mapping takes `claims` for the grants, the generation for the number, the
holder of a running row for who has the work, and `author` for the grant that wrote last.
It needs fencing tokens and no assumption about overlaps. It says more than
`ExclusiveOwnership` (one holder per generation, a running row held under a granted
claim) and `NoStaleWrite` together: those are states, this is how they follow each other.

### EventEngine and DurableQueue

`queue[s]` is a row of `execution_events`; a finished row is never read again, so
its slot is reused. `pc[w]` follows `run()` and `step()`: *recovering*
(`_recover_processing_events`), *claiming* (`_claim_one`), *idle*
(`_enqueue_recovery_wake_if_due`), *handling* (`process_event`, `run_cycle`),
*enforcing* and *blocking* (`_enforce_task_dispatch_outcome`), *closing* (the
UPDATE that ends, defers or rejects), and *checking*, *opening*, *opened*,
*arming*, *sleeping* for `wait_for_wake`. `fifo` is the pipe and `armed` says
whether `select` was given a timeout. `owes` holds the producers that have
committed but not yet notified.

`Crash` can happen anywhere, releases the lock (`flock` goes with the process) and
closes the FIFO. `Raise` is an exception of a handler: the row is pending at once,
and `run()` ends. `Retry` stands for every status `_process_one` defers on.

The ledger appears as `task`, `exec`, `retries` and `approved`, with the coarse
operations that commit an event or need the engine's attention.

Abstractions. Among rows of one priority the order is left open (the code orders
by `available_at`, `id`). `attempts` is counted up to three, the only number it is
compared with. Renewed leases make a timeout come early, so `Timeout` may come at
any time once armed; a timeout that is armed but too late for a newer lease is
not told apart from a punctual one. Which lanes are free for escalation is left
open. Strategic reviews, and card delivery switched off (a card then retries for
ever by design), are left to `CeoRuntime`.

`DurableQueue` is the promise: accepted, started, handled, finished or, after three
attempts, rejected. The mapping takes the occupied slots for what is to do and
`attempts` for the number of starts.

### CeoRuntime

`head` is the latest row of `ceo_state_versions`; its strategy, assumptions and
critical path are one content. `directives` holds `chairman_directives` by version,
`queue[e]` the row of the event `e`, named by its type and entity. `read` is the
snapshot in the worker's hands: `ReadState` and `ReadDirectives` are its two
SELECTs, which no transaction holds together. `answer` is a valid answer of the
reasoner. `pc` follows `_process_one`: *reading*, *listing*, *reasoning*, *applying*,
*following* for a judgement (`_reason_about`, then `_schedule_followup_review`);
*preparing*, *sending*, *marking* for a card (`_deliver_approval`); *closing* for the
UPDATE that ends the event. The rest of the worker is coarse, because
`EventEngine` has it: `Start`, `Claim`, `Idle`, `Wake`.

`Apply` is one transaction: the version, the task, the approval with its trigger's
event, and the answer. `Supersede` is its other branch. `Unavailable`, `BadAnswer`
and `Raise` are the three ways reasoning fails (deferred; deferred or, at the third
attempt, given up; due at once, with the end of `run()`). `SendFails` covers a
timeout after which the card did go out. `Crash` can happen anywhere. `Ingest`,
`Decide`, `EndTask` and `Visit` (any command that initializes the store and so looks
for missing work) happen at any time.

Abstractions. An answer has a content, at most one task and at most one request
(the code allows five actions, which it applies one after the other by the same
rules). A task is absent, active or closed; the `task.created` events of the CEO's
tasks and everything that moves a task are subjects of the other modules. Row ids of
approvals are a fixed set, so at some point no more can be requested; a review can
still be answered with a task. The backfill of approval events at start
(`db.py` 1451) inserts a row only for a pending approval with neither a live card
event nor a delivery, of which `CardTracked` says there is none. Priorities are
kept, and the order within a priority is left open. A finished event is forgotten,
with its attempts.

### Assurance

One initiative. `status` is its lifecycle state, `resume` the row of
`assurance_blocks`. An artifact version is a `Ref`: `artifact[r]` is its status,
`trail[r]` its rows of `assurance_artifact_lifecycle`, `approver[r]` the row that the
primary key of `assurance_artifact_approvals` allows once, `links` the edges that
registered design manifests declare. `gates[g]` is the latest decision on a gate with the
artifact set it was made on and whether its expiry is ahead or over. `contract`, `runs`,
`quarantined` and `chain` are the evaluator's tables, `evaluator` its row of
`assurance_principals`.

The kernel reads with a connection in autocommit mode and opens its transaction at the
first write, so every operation is a `Check` (`CheckApprove`, `CheckGate`, ...), which
records in `call[s]` what it found, and a `Commit` (`CommitApprove`, ...), which trusts it
or, where the schema or the code repeats a condition, asks again. `Abandon` is the
rollback or the death in between. `record_run` and `create_contract` authenticate first
and then hold `BEGIN IMMEDIATE`: their check is the authentication, and
`StillAuthenticated` is the repetition of it inside the transaction. No
operation is assumed to run alone. `record_gate` checks its references and the reviews and
computes the digest later, all before its first write: `CheckGate` records the set it
checked, `CommitGate` binds the set that is approved by then, and `examined` in a gate's
row is history, the set of the check.

`Dependents` is what the queue of `supersede_artifact` visits, stated as the least set of
ids that the links do not lead out of rather than as the loop, so that it can be reasoned
about without an induction over the links.

Abstractions. The content of a version never changes, so a set of versions stands for
its SHA-256, and an attempt number for the hash of its result. `IntegrityFields` and
`G5Fields` are the values a run's signature is computed from when it is recorded and
when G5 recomputes it: that difference is data with consequences for control. Findings,
profiles and paths are left out; a review is affirmative or it is not. The verdicts
*return* and *blocked* act as *reject*. `Does`, `Changing`, `GateUse`, `Targets`,
`BlockedIn` and `Budgets` are bounds on what the sessions are seen to call.

### PilotGate and Certification

`PilotGate` extends `Assurance` with one task: `task` (status and recovery status as far
as the gate reads them), `generation`, the row `binding`, the kill switch `killed`,
`claimed[g]` (the row of `assurance_pilot_claim_history` of a generation), `context[g]`
and `bound[g]` (the row of `task_contexts` and the snapshot of
`assurance_execution_bindings`), `compiling[g]` (what a compiler has read and not yet
written), `completion` and `issue[p]` (credentials issued to a principal).

`Bind`, `SetKillSwitch`, `Claim` (`claim_task` with `record_claim_binding`), `Complete`
(`complete_task` with the runtime fence, `completion_assurance` and
`record_completion`), `Fail`, `Recover` and `Cancel` hold `BEGIN IMMEDIATE` and are one
action each. `compile` reads in one connection and writes in another: `CompileRead`,
`CompileWrite`, `CompileLost`, with compilers of several generations in between, and
with compilers that pass no token, for which the code looks at no execution row
(`Unfenced` bounds the generations they name). The gate's actions may come between a
session's check and its commit.
`ClaimFence`, `RuntimeFence`, `DispatchAllowed`, `Assured`, `LedgerValid` and `Exact` are
the decision functions. A snapshot is the record of the set, the policy and the
credentials that the code hashes. A claim of the task has one fencing token per
generation, so the token is the generation.

`Certification` has four variables: what is approved, what was withdrawn, the set the
work in hand was started for, and the set the finished work is certified for. The
mapping reads them off `artifact`, `claimed`, `task` and `completion`; a step of any
component of the gate is one of its four actions or a stutter.

Abstractions. Signatures, hashes and files are in order. Of several exact reviews the
code names the last one registered; here any of them. Tables are created, and earlier
claims signed on an upgrade, before the history starts.

### Requeue

`state[t]` is the status of the task and of its execution together, `generation`,
`holder` and `dead` columns of the row, `anchors` the rows of
`task_recovery_provenance` (with the record, audit entry and event each names),
`ledger` the lines of the file, `requeue[c]` where a caller is. `Commit` is the SQLite
transaction; `ReadLedger`, `WriteLine` and `Synced` are the parts of
`append_recovery_ledger`; `AppendFails` is an exception in any of them (`Faults`), and
`Compensate` the transaction that takes the requeue back. `Crash` may come at the
points of `DiesAt`. Two variables are history: `interrupted` holds the rows whose requeue
died before its line was written or before the compensation ended, or whose line could not
be synced; `overlapped` says that one requeue committed while another was under way.
`Enter` is any command that initializes the system: `init_assurance`
lets it in only while `Agree` holds. A process that entered before goes on with `Claim`,
`Complete` or `Exhaust`. A line names its predecessor by its record instead of by a hash.

## 3. Runs

| Run | Question | Result |
|---|---|---|
| `races` | do a task and its row agree, is the ledger a lock with numbered grants, and what can late writes do to closed work, live work, retries and escalations? | holds |
| `lanes` | two overlapping creations in one lane | violated |
| `queue` | at-least-once refinement, stranded rows, tracking of unclaimed tasks, with crashes and lost notices | holds |
| `drain` | can the worker sleep over an event or a first lease; does every event leave and every due execution get recovered? | holds, the latter two under fairness |
| `reclaim` | the lease of a second claim | violated |
| `ceo` | are judgements applied only to what they were made on; are cards tracked, and not resent once recorded; do reviews neither pile up nor are all missing; with one failure anywhere | holds |
| `heard` | is every directive acted on or given up, and every card delivered? | holds, under fairness |
| `assurance` | do overlapping approvals, withdrawals, gate decisions, rotations and expiries leave anything approved, open or usable that should not be? | holds |
| `anchor` | can G5 accept a run that the evaluator recorded? | violated |
| `pilot` | is a pilot task done only with a certificate for what it was claimed for, through kill switch, rebinding, recovery and late compilers? | holds |
| `requeue` | is a task requeued once per exhaustion, and by what can SQLite and the ledger differ, with two callers that fail and die anywhere? | holds |
| `lockout` | an append that fails after the line was written | violated |

The violations are statements of the repository's documents and comments that the code
does not keep; `findings` quotes them. Each is the smallest instance that shows it.
Every property of a passing run has a mutant: a change of one definition, such as a
dropped guard, that the run then reports.

**Bounds.** `races` has one task: its properties relate the rows of one task, and
two tasks meet only in lanes and titles (`lanes`, and the instance `overlap` below, which
checks the properties about late writes with two tasks and two operators). The task is reserved, so that it
may be escalated; the next approval is number 10 while number 1 is pending, and error
texts may mention #1, so that a decision can release what it was not asked about. Two
executors and three generations are enough for a claim to be lost, taken over and lost
again; a limit of two attempts lets a retry happen and be exhausted, and a late
recovery undo the count. The executors are told apart by nothing, which
`SYMMETRY` uses. `lanes` has two creations of one lane with different titles.

`queue` has three slots, three failures and two workers: enough for a row to be claimed,
dropped by a crash, found by the other worker, retried to its third attempt and
rejected. `Spare` keeps producers from filling the slots that the worker's own
insertions need; with it `drain` shows that the worker never waits for a slot. `drain` has
one attempt per task, because a second claim is what `reclaim` shows to be unwatched, and
liveness under fairness leaves room for little else; the safety part of it is checked for a
reserved task with two attempts by the instance `lease` below and proved for all.

`ceo` and `heard` have two directives, of which the later may be the less urgent, and a
snapshot that shows one, so that what is in force changes, or does not, under a
judgement; two contents; one task and one approval. `Patches` is the last version a
judgement changes, `Places` the rows a type of review may have (two, so that one too
many would show), `MaxFailures` the crashes, bad answers, timeouts and unsent cards in
all. `heard` allows two failures and sets `PhaseActive` to FALSE: with a phase that never
gets work, reviews follow each other for ever, and although they rank below directives
and cards they add nothing to the question.

`assurance` starts where the six bootstrap artifacts and a release decision are approved
and G0 to G4 passed; two reviews, one of them negative, are still to be registered.
Session `s1` keeps artifacts, gates and the lifecycle, `s2` evaluates, and both approve, so that two approvals, an
approval and a supersession, an approval and a gate decision, and an authentication and
a rotation may overlap. One rotation and a budget of two runs let a run
precede and follow it. `Upgraded` lets the history start with a run of the schema
before: because of `anchor`, only that one leads through G5 to a release. A block may
come at `release_approved_conditional`; what a second one does is the instance `block`
below.

`pilot` has one task, two generations, one withdrawal (the manifest) and one reissued
credential, so that each of the things a certificate is compared with may change once
between binding, claim, compilation and completion. Compilers without a token name the
first generation, which is past when the second runs. The initiative may be blocked at
`approved_for_build`. G4 is passed beforehand and not
decided again; transitions, quarantine and a second contract are not called, so the
gate is seen in the state in which it can let work through.

`requeue` has both tasks of the allowlist, two callers, two executors and up to three
requeues; a task may be exhausted and requeued again. The append may fail on opening the
file or in the sync after the line was written, and a caller may die before it reads the
ledger, before it writes, before it syncs and before it compensates. `lockout` is one
caller and the failed sync.

`CHECK_DEADLOCK FALSE` is set where the system may come to rest: a worker asleep with
nothing left to do (`queue`, `drain`, `heard`), and instances whose bounds are used up
(`assurance`, `pilot`, `requeue`).

**Fairness.** `FairSpec` of `EventEngine`: a worker that runs goes on; the service manager
restarts `worker-run` after a failure; backoffs end; a producer that lives notifies; an
event is not passed over for ever by others of its priority, because the code takes the
oldest. Nothing is assumed of executors, operators and leases. `drain` has no urgent
requests: an endless stream of directives does starve ordinary events, by the order of
`_claim_one`. It also has no single-stepping worker and its failures are bounded.

`FairSpec` of `CeoRuntime`: the worker goes on and is restarted (`Restart=on-failure`),
and backoffs end; the reasoner and the sender may fail `MaxFailures` times. That newer
directives supersede a judgement only so often follows from there being finitely many
messages; with an endless stream of them no judgement need ever be applied.

`Requeue` states no fairness: a caller that died between its commit and its line leaves the
system closed, and no scheduling prevents that.

### Disagreements without a run

These were met while modelling, too. The first nine have a configuration that shows
them (`tlc -config <cfg> <module>` reports the violation); they are instances of the
runs above with the constants named here.

| Configuration | Property | What differs | What it disagrees with |
|---|---|---|---|
| `MCTaskLifecycle_tokenless` | `NoStaleWrite` | `TokenUse = {TRUE, FALSE}`: the command line makes the token optional, and a stale executor writes without it | docs/cadence.md:15-16 |
| `MCTaskLifecycle_mention` | `DecisionTouchesOnlyItsTask` | `PriorApprovals = 9`, `PriorPending = {1}`, `MaxApproval = 10`: deciding approval 1 releases a task that waits for #10, of which #1 is a substring | docs/event-worker-deployment.md:98 |
| `MCTaskLifecycle_retries` | `RetriesAlwaysCapped` | no exception for `uncounted`: recovery writes an attempt count it read before a cycle counted another | docs/cadence.md:30 |
| `MCCeoRuntime_immediate` | `ReviewImmediate` | two titles: the last work ends while the stall review of an earlier review is in the queue, and no strategic review is persisted; the next look comes in up to 24 hours | docs/cadence.md:7-8 |
| `MCCeoRuntime_review` | `ReviewAdvances` | two titles: a review whose only task is refused when it is applied ends as applied | docs/cadence.md:8-9 |
| `MCAssurance_digest` | `DecisionsBindReviewed` | the constants of `assurance`, and a block that may be repeated: an approval between the checks of `record_gate` and its digest is bound unexamined, and with it a negative review | docs/development-assurance-system-design.md:939 |
| `MCAssurance_block` | `BlockKeepsState` | `Does <- Blocks`: blocking what is blocked overwrites the state to resume | docs/development-assurance-system-design.md:77 |
| `MCPilotGate_decay` | `CertificateStands` | a certificate is judged again from the present state, after which the initiative may have moved on | tests/test_completion_assurance_gate.py:1129 |
| `MCPilotGate_remedy` | `ReviewsKeepG4` | `Does <- Remedies`: G4 decided after a review binds a set with the review in it, which dispatch never matches | tests/test_completion_assurance_gate.py:1032 |

Two more follow from the definitions without an instance. `claim_task` does not ask whether
a reserved task was approved, which only `run_cycle` looks at (README.md:5): `Claim` of
`TaskLifecycle` has the case. A cycle that finds a live stall review in the queue schedules
no successor for it.

Two further configurations pass and widen what the runs check:

| Configuration | Properties | What it adds |
|---|---|---|
| `MCTaskLifecycle_overlap` | `LaneSharedByLateWrites`, `ClosedWorkStays`, `RecoveryLeavesLiveWork`, `RetryBound`, `EscalationAnswerable` | two tasks of one lane and two operators |
| `MCEventEngine_lease` | `FirstLeaseWatched` | a reserved task with two attempts, a second worker |

Other behaviour that a reader of the code may want to know of and that the models keep:
`transition` and `block` update the initiative without repeating the status they read, so
that of two that overlap the later wins; a cancellation that read a task while it was
active overwrites its completion, in both rows; a bundle that a late compiler of a task
outside the pilot writes supersedes the current one; the compensation of a requeue writes
the previous row back even if the task was claimed meanwhile, and the next claim has a new
generation; two callers that append to the ledger at once may break its chain, and the
system stays closed.

## 4. Theorems

All are proved for every value of the constants under the ASSUME of their module. A
condition in the right column is a hypothesis of the theorem. No theorem assumes that an
operation of several steps runs alone.

| Theorem | Says |
|---|---|
| `TypeCorrect` | `TypeOK` is invariant |
| `AgreementHolds` | a task and its execution row never contradict each other, whatever interleaves |
| `LedgerFencesWork` | `TaskLifecycle` implements `FencedWork`, with tokens always passed, whatever interleaves |
| `OwnershipExclusive` | one holder per generation; a running row is held under a granted claim |
| `NoStaleWriteWithTokens` | with tokens always passed, only the current generation changes a task |
| `LaneSharing` | two tasks of a lane become active together only by a late creation or a late recovery (`LaneSharedByLateWrites`) |
| `ClosedWorkKept` | closed work changes status only by a cancellation or recovery that read it while it was active |
| `LiveWorkLeftAlone` | only a recovery that read an earlier claim takes work from a valid lease, and only one that read another row requeues what a living process may be doing |
| `RetriesBounded` | a task exceeds `max_attempts` only after a late recovery overwrote its count or an approval reopened it when exhausted |
| `EscalationsAnswerable` | a task blocked for the Chairman names a pending approval of its own |
| `EngineTypeCorrect` | `EventEngine`'s `TypeOK` is invariant |
| `NothingStranded` | a recovered worker handles every processing row |
| `EngineImplementsQueue` | `EventEngine` implements `DurableQueue` |
| `NoLostWake` | no event is slept over, if `LosesNotices = FALSE` |
| `UnclaimedNeverForgotten` | an open unclaimed task keeps its event |
| `FirstLeaseNotMissed` | no worker sleeps without a timeout past the first lease of a task that was not requeued or decided on, if `LosesNotices = FALSE` |
| `CeoTypeCorrect` | `CeoRuntime`'s `TypeOK` is invariant |
| `JudgementsCurrent` | a judgement is applied only to the state and directives it was made on |
| `CardsTracked` | a requested decision is delivered or its card's event is in the queue |
| `CardsDeliveredOnce` | a recorded delivery stays, and its card is not sent again |
| `ReviewsScheduled` | one review of each kind at most; over a phase without work the worker sleeps only with a review in the queue, which may be a stall review due in a day |
| `ReviewsFollowed` | a strategic review ends with its stall review in the queue |
| `AssuranceTypeCorrect` | `Assurance`'s `TypeOK` is invariant, whatever overlaps |
| `CredentialsStayAccounted` | the evaluator is never refused for an unrecorded rotation; runs follow the chain |
| `WithdrawnStaysWithdrawn` | a superseded or stale version is never approved again |
| `WithdrawalReachesAll` | no link leads from a withdrawn version to an approved one, of another artifact than the one superseded |
| `OutdatedStaysOutdated` | a decision that lost an artifact never opens its gate again |
| `ReleasesRestOnReviews` | a release opens over a negative review only if that was approved between the checks and the commit of the gate's decision, if gates passed before the history rest on affirmative reviews (`EarlierReviews`) |
| `PilotTypeCorrect` | `PilotTypeOK` is invariant, over every behaviour of the lifecycle |
| `DoneIsCertified` | a task once claimed as a pilot is done only with the certificate of its generation and set |
| `LateCompilersBindNothing` | a compiler of a past generation binds nothing |
| `SameAuthority` | a pilot completes under the credentials its context was compiled under |
| `GateImplementsCertification` | `PilotGate` implements `Certification` |
| `RequeueTypeOK` | `Requeue`'s `TypeOK` is invariant: no id, line or generation out of range |
| `RequeuedOnce` | at most one requeue per exhaustion, for any callers, faults and crashes |
| `LedgerDifferencesExplained` | between requeues, rows and lines differ only by requeues that died, failed to sync or overlapped |

The argument. *Agreement* is not inductive alone: the late write of `recover_task`
overwrites the row with an outcome of the row it read, and is harmless only because
it also overwrites the task's status with the matching one, and because an operator
inside a recovery saw a row that needed recovering. `AgreementInv` adds that fact
about `call` (`RecoversTask`) to the types; the other late writers are harmless
because cancel writes both rows and block repeats its guard. *Ownership* needs, in
addition, that every granted claim has a generation no larger than the row's
(`ClaimsBelow`): then the next generation is new. *NoStaleWrite* follows because an
accepted call with a token has the row's generation. For the *refinement* a step is a
`Grant` if it claims; otherwise nothing is granted (`NothingGranted`), and it is an
`Accept` if a call is accepted (`Called`: the row is running and no other row changes)
and a `Withdraw` of whatever stops running if not. The late writes of recovery and
cancellation are withdrawals, too: they never write *running*. `StepRows`
says what one step may do to one task, late writes included (`RowStep`: a renewal, a
creation, a block, a decision, a claim, a recovery, a failure or an end), and the theorems
about late writes are read off it. They need `ReadsInv`, what is known of an operation
inside its call: a cancellation or recovery read its task while it was active, a creation
read no active task of its lane, and a recovery read a row that needed it, of the present
generation or an earlier one; if of the present one, no lease is valid since
(`StaleRead`), because only a claim makes one valid again. *RetriesBounded* needs
`RetryInv`, how the generation of a row follows from its attempts in each status: a
task leaves it only when its count is overwritten or an approval reopens it, and
those are `uncounted`. *EscalationsAnswerable* needs `ApprovalsBelow`, that ids not yet
given have no row, and that a decision takes every task whose reason has its number, so
that none stays blocked while the approval it names is decided (`Answerable`); that two
escalations of one cycle get different ids is `EscalationIds`.

For the *engine*, types are not inductive without knowing which worker is up
(`LockHeld`), which event it has in hand (`Holding`: its row is processing and
names it), and that a task that can run again has an attempt left
(`RetriesBelow`). Together they are `EngineInv`. The *refinement* needs one fact
more, `EndsRightly`: a worker acknowledges only an event whose handler ran to the
end and rejects only after the last attempt. Then each step is one of the abstract
queue's, or changes nothing that it sees: `HandlerRows` says what any handler may
do to the rows. *NoLostWake* rests on `FifoOpen`, the FIFO staying open from before
the second look at the queue to the end of the sleep. *UnclaimedNeverForgotten*
rests on `StaysSettled`: once somebody took care of a task, it never again is
open, unclaimed and undecided, so the worker's look is not stale when it
acknowledges. *FirstLeaseNotMissed* joins these: a task that may be claimed for the first
time has its event (`CreatedEvents`), an event keeps the worker from sleeping without a
timeout, and a task that is open again after a claim was requeued (`Reopened`); with the
invariants above that is `WatchInv`. A second claim is left out because there
is nothing to prove: no event announces it, the worker that acknowledged the task's event
may be asleep, and `reclaim` shows it.

For the *CEO*, types need to know that the delivery handler runs on cards (`OnCards`)
and that what is applied is an answer (`Valid`). *JudgementsCurrent* rests on
`SnapshotFresh`: as long as the version is the one that was read, so are the content
and, once they are read, the directives in force, because every change of either adds
a version (`HeadStep`). That is why two reads outside a transaction are enough.
*CardsTracked* is not inductive alone: the event of a card is dropped by `Close`, and
`Recorded` says that the handler ends without deferring only after the delivery is on
record, and that what is recorded was sent. `QueueStep` says that no other step takes
an event out of the queue. *CardsDeliveredOnce* reads off `Recorded` that what is being
sent is not recorded as delivered. *ReviewsScheduled* and *ReviewsFollowed* share
`ReviewInv`: a row of a kind is put in only where there is none (`OneReview`); whatever
ends the last task, or makes the worker fall asleep, leaves a review in the queue or an
event due (`NotAsleepOverIt`); and between the scheduling of the stall review and the end
of the strategic one nothing takes the new row away (`FollowedFirst`), because only the
event in hand leaves the queue and it is of another kind (`AtLive`).

For *assurance*, types need to know of what kind a session's finding is (`CallOK`). What
makes withdrawal final is `ApprovalsOnRecord`: whatever is or was approved has its row
in `assurance_artifact_approvals`, also what a supersession under way has in hand and
what any gate decision was made on. As nothing deletes such a row and `CommitApprove`
needs it missing (`ApprovedOnce`), *WithdrawnStaysWithdrawn* and *OutdatedStaysOutdated*
follow, although the checks of two sessions overlap. *WithdrawalReachesAll* needs one
lemma about `Dependents`, `LinksLeadOn`: a link from the superseded artifact or one of its
dependents ends in a dependent, or in that artifact again, the only one `seen` keeps the
queue from. *CredentialsStayAccounted* needs
that no run is from a credential still to come (`RunsPast`). *ReleasesRestOnReviews*
rests on `SeenAffirmative`: the reviews that `CheckGate` examined for G5 to G7, and those a
passing decision was made on, are affirmative, if those approved before the history were
where such a gate had passed (`EarlierReviews`). The set a decision binds is the approved
one when its gate opens, so that a negative review approved by then is in what was bound
and not in what was examined.

For the *pilot gate*, every step is a step of `Assurance` or leaves it alone
(`LifecycleStep`), so that `AssuranceInv` carries over and is cited, not repeated.
`PilotInv` adds that no claim is ahead of the generation (`ClaimsPast`), that only a
finished task has a certificate (`CertifiedDone`), and *DoneIsCertified* itself, which is
inductive with them: a compiler can change a snapshot only of a running task (`Spared`),
and a completion passes a fence that compares the certificate with the claim and the
snapshot of its generation (`Fenced`). For the *refinement* each step of the gate is
`Begins`, `Stops`, `Certifies` or `Stutters` on the task, and what a step of the lifecycle
does to the artifacts is `ArtifactsMove`.

For the *requeue*, `RequeueInv` adds to the types that a requeue under way has a row of its
own (`RowsHeld`), that no id is given twice (`RowsOld`), and the count from which
*RequeuedOnce* is read off: a task has a row for each claim but the one that exhausted it
last, and the row of its present requeue waits for the next claim (`RoomLeft`). The
compensation of a failed append keeps it, because it takes back the row and the state
together. *LedgerDifferencesExplained* is
unconditional. `LinesPlaced` says that the line of a requeue under way is in the file
exactly when the caller is past its write, `GapsExplained` that any other difference
between rows and lines is on record as interrupted, and `ChainKept` that as long as no
two requeues overlapped the file is a chain in the order of the rows, the row under way
being the last. `lockout` is the failure that the comment in the code denies.

Left to TLC: liveness, which needs ENABLED and fairness (`Drained`, `DueRecovered`,
`DirectiveAnswered`, `CardDelivered`), and what the violated runs refute. Every
other property of the passing runs is stated by a theorem.

## 5. Not modelled

* The Phase D harness (`phase_d_*.py`): an offline experiment with slots on disk that
  takes no part in operation.
* The dashboard, `status` commands and reports: they read.
* Command line, configuration, governance keywords, registry and workspaces: they decide
  nothing over time; what they pass on appears as constants (`TokenUse`, `Reserved`).
* Of the assurance lifecycle: creation of the initiative, credential files, profiles, the
  bootstrap, which ends in the state `Assurance` starts from. Of the evaluator: manifests
  and the storage of contents. Of the context compiler: what goes into a bundle, its
  files, and continuity records.
* Signatures, hashes and keys: what was signed is taken to be unaltered, and where two
  places sign different values the models name the values.
* Creation and migration of tables, seeding, the provider adapters behind the reasoner,
  the Codex child process, and the maintenance scripts.

What a next step would take up: quarantine and a second G4 decision under the pilot; supersessions that overlap.
