----------------------------- MODULE PilotGate -----------------------------
(***************************************************************************)
(* The gate of the pilot initiative on one task: pilot_gate.py, with the   *)
(* context bundles of context_compiler.py and the completion verifier of   *)
(* completion_verifier.py, over the lifecycle of Assurance.                *)
(*                                                                         *)
(* claim_task, complete_task and bind hold BEGIN IMMEDIATE and are single  *)
(* actions; compile reads with one connection and writes with another, so  *)
(* the two halves are two actions and several compilers may be between     *)
(* them.  A bundle is named by its generation.  The claims of one task     *)
(* have one fencing token per generation: a token is its generation.       *)
(***************************************************************************)
EXTENDS Assurance

CONSTANTS
    TaskOwner,     \* the principal of the task's owner
    Accountable,   \* assurance_initiatives.owner_principal
    Standing,      \* the principals with a standing role in the snapshot
    BindsSet,      \* BindsSet[r]: the artifact set in a review's evidence_refs
    MaxGeneration, \* bound: claims of the task
    Unfenced,      \* bound: the generations a compiler without a token names
    Reissued       \* bound: the principals who are issued a new credential, once

ASSUME PilotAssumption ==
    /\ TaskOwner \in Principal /\ Accountable \in Principal
    /\ Standing \subseteq Principal /\ Reissued \subseteq Principal
    /\ BindsSet \in [Ref -> SUBSET Ref]
    /\ MaxGeneration \in Nat
    /\ \A S \in SUBSET Ref : S # None
    /\ None \notin [generation: Nat, set: SUBSET Ref, attempt: Nat, review: Ref]

Generation == 1 .. MaxGeneration

VARIABLES
    task,       \* tasks.status, with the recovery_status of its execution
    generation, \* task_executions.generation, 0 without a row
    binding,    \* assurance_task_bindings: pilot and artifact_set_sha256
    killed,     \* assurance_pilot_config: the kill switch
    claimed,    \* assurance_pilot_claim_history: the set by generation
    context,    \* task_contexts.status by generation
    bound,      \* assurance_execution_bindings: the snapshot by generation
    compiling,  \* what a compiler of the generation read and has yet to write
    completion, \* assurance_completion_bindings
    issue       \* how often a principal was issued a new credential

taskVars == <<task, generation>>
gateVars == <<binding, killed, claimed, completion>>
contextVars == <<context, bound, compiling>>
pilotVars == <<taskVars, gateVars, contextVars, issue>>

TaskState == {"open", "running", "failed", "done", "cancelled"}

\* A missing row, or one with pilot = 0: nothing asks which.
NotPilot == [pilot |-> FALSE, set |-> None]
Unread == [pilot |-> FALSE, snapshot |-> None]

PilotInit ==
    /\ Init
    /\ task = "open" /\ generation = 0
    /\ binding = NotPilot /\ killed = FALSE
    /\ claimed = [g \in Generation |-> None]
    /\ completion = None
    /\ context = [g \in Generation |-> "none"]
    /\ bound = [g \in Generation |-> None]
    /\ compiling = [g \in Generation |-> None]
    /\ issue = [p \in Principal |-> 0]

Undisturbed == UNCHANGED vars

-----------------------------------------------------------------------------
(* What an execution is bound to                                           *)

\* The approved artifacts that are no review decisions.
BuildSet == {r \in Approved : Kind[r] # "review_decision"}

G4 == gates["G4"]

\* expires_at is in the hash as it was written, over or not.
Policy == [status |-> status, verdict |-> G4.verdict, set |-> G4.set,
           timed |-> G4.term # "none"]

\* Mutant: who decided and who approved is left out.
OwnersOnly == {Accountable} \cup Standing
              \cup {Owner[r] : r \in {x \in Ref : artifact[x] # "absent"}}
\* Who owns the initiative or an artifact, decided G4 or approved an artifact.
Involved == {Accountable, G4.by} \cup Standing
            \cup {Owner[r] : r \in {x \in Ref : artifact[x] # "absent"}}
            \cup {approver[r] : r \in {x \in Ref : approver[x] # None}}

\* The evaluator's row counts while its actor is the evaluator's, or once a run
\* names its principal.
EvaluatorSeen ==
    IF \/ evaluator.role = "evaluator"
       \/ \E i \in DOMAIN runs : "provenance" \in runs[i].signed
    THEN evaluator.credential ELSE None

Snapshot ==
    [set |-> BuildSet, policy |-> Policy,
     principals |-> {<<p, issue[p]>> : p \in Involved}, evaluator |-> EvaluatorSeen]

Decided == G4.verdict # "none"

-----------------------------------------------------------------------------
(* The decisions                                                           *)

PilotHistory == {g \in Generation : claimed[g] # None}

\* _claim_fence_decision: the execution is the one that was claimed, for the
\* binding it was claimed for.
ClaimFence ==
    \/ generation = 0
    \/ /\ generation \notin PilotHistory
       /\ PilotHistory = {} /\ ~binding.pilot
    \/ /\ generation \in PilotHistory
       /\ binding = [pilot |-> TRUE, set |-> claimed[generation]]

Executable == {"approved_for_build", "implementation", "independent_evaluation"}

\* What has to hold of a pilot's execution binding.
StillBound(b) ==
    /\ b # None /\ context[generation] = "active"
    /\ b.set = binding.set
    /\ Decided /\ BuildSet = b.set
    /\ status \in Executable
    /\ Policy = b.policy /\ G4.term # "over"
    /\ Snapshot.principals = b.principals /\ EvaluatorSeen = b.evaluator

\* _runtime_fence_decision
RuntimeFence ==
    /\ ClaimFence
    /\ IF binding.pilot THEN generation > 0 /\ StillBound(bound[generation])
       ELSE \A g \in Generation : bound[g] = None

\* _dispatch_decision; the kill switch asks for no gate.
G4Dispatches ==
    /\ status = "approved_for_build" /\ G4.verdict = "pass"
    /\ \A r \in Ref : artifact[r] = "stale" => Kind[r] = "review_decision"
    /\ BuildSet = G4.set /\ G4.term # "over"
DispatchAllowed ==
    binding.pilot /\ ~killed => G4Dispatches /\ binding.set = G4.set

-----------------------------------------------------------------------------
(* The completion verifier                                                 *)

\* The attempt ledger: within its contract, every run verifiable and made
\* under a credential of the evaluator's chain, the last one completed.
LedgerValid ==
    /\ contract # 0 /\ runs # <<>> /\ Len(runs) <= contract
    /\ \A i \in DOMAIN runs :
          Verifiable(i) /\ \E k \in DOMAIN chain : chain[k] = runs[i].credential
    /\ evaluator.role = "evaluator" /\ chain[Len(chain)] = evaluator.credential
    /\ runs[Len(runs)].status = "completed"

\* By a reviewer who neither built nor did the work, approved by another.
Independent(r) ==
    /\ Owner[r] \in Reviewers /\ Owner[r] # TaskOwner
    /\ \A b \in BuildSet : Owner[b] # Owner[r]
    /\ approver[r] \in (Deciders \cup Reviewers) \ {Owner[r]}

\* Of the latest result and of the set of the binding, and positive.
Exact(r) ==
    /\ Len(runs) \in Binds[r] /\ BindsSet[r] = binding.set
    /\ r \in Affirmative

\* completion_assurance
Assured ==
    /\ status \in Executable
    /\ TrailIntact /\ \A r \in Approved : approver[r] # None
    /\ G4.verdict \in Passing /\ G4.term # "over"
    /\ binding.set = BuildSet /\ binding.set = G4.set
    /\ ~quarantined /\ LedgerValid
    /\ Reviews # {} /\ \A r \in Reviews : Independent(r) /\ Exact(r)

\* Mutant: the certificate does not say which execution earned it.
Anonymous(r) == [set |-> binding.set, attempt |-> Len(runs), review |-> r]
\* The exact review is the last one registered; the order is not modelled.
Certificate(r) == [generation |-> generation, set |-> binding.set,
                   attempt |-> Len(runs), review |-> r]

-----------------------------------------------------------------------------
(* Binding and kill switch                                                 *)

\* Only an open task; a trigger keeps the row of a task that was ever claimed
\* as a pilot.
Bind(pilot, set) ==
    /\ Undisturbed
    /\ Deciders # {} /\ task = "open" /\ PilotHistory = {}
    /\ pilot \/ set = None
    /\ binding' = [pilot |-> pilot, set |-> set]
    /\ UNCHANGED <<taskVars, killed, claimed, completion, contextVars, issue>>

SetKillSwitch(on) ==
    /\ Undisturbed
    /\ Deciders # {} /\ killed' = on
    /\ UNCHANGED <<taskVars, binding, claimed, completion, contextVars, issue>>

-----------------------------------------------------------------------------
(* The task, as far as the gate sees it                                    *)

\* record_claim_binding: the set is the approved one, kill switch or not.
\* Mutant: the claim is recorded for whatever set the binding names.
Unanchored == TRUE
Anchored == binding.pilot => binding.set = BuildSet

\* claim_task, with record_claim_binding for a pilot.
Claim ==
    /\ Undisturbed
    /\ task = "open" /\ DispatchAllowed
    /\ generation < MaxGeneration
    /\ Anchored
    /\ task' = "running" /\ generation' = generation + 1
    /\ claimed' = [claimed EXCEPT ![generation + 1] =
                     IF binding.pilot THEN binding.set ELSE None]
    /\ UNCHANGED <<binding, killed, completion, contextVars, issue>>

\* fail_task of a recoverable failure: no fence is asked.
Fail ==
    /\ Undisturbed
    /\ task = "running" /\ task' = "failed"
    /\ UNCHANGED <<generation, gateVars, contextVars, issue>>

\* recover_task of an execution with attempts left.
Recover ==
    /\ Undisturbed
    /\ task \in {"running", "failed"} /\ task' = "open"
    /\ UNCHANGED <<generation, gateVars, contextVars, issue>>

Cancel ==
    /\ Undisturbed
    /\ task \in {"open", "running", "failed"} /\ task' = "cancelled"
    /\ UNCHANGED <<generation, gateVars, contextVars, issue>>

\* _completion_decision lets every other task through.
\* Mutant: the kill switch lets a pilot through as well.
GatedUnlessKilled == binding.pilot /\ ~killed
Gated == binding.pilot

\* complete_task; record_completion only for a pilot.
Complete ==
    /\ Undisturbed
    /\ task = "running" /\ RuntimeFence
    /\ task' = "done"
    /\ \/ ~Gated /\ UNCHANGED completion
       \/ /\ Gated /\ Assured
          /\ \E r \in Reviews : completion' = Certificate(r)
    /\ UNCHANGED <<generation, binding, killed, claimed, contextVars, issue>>

-----------------------------------------------------------------------------
(* Context bundles                                                         *)

\* The first connection of compile: of the running execution, or of a task that
\* has no execution row, for whatever generation the caller names and without a
\* token; a pilot's bundle without a token is refused when it is written.
CompileRead(g) ==
    /\ Undisturbed
    /\ \/ task = "running" /\ g = generation
       \/ generation = 0 /\ ~binding.pilot /\ g \in Unfenced
    /\ compiling[g] = None
    /\ ClaimFence
    /\ binding.pilot => Decided /\ binding.set = BuildSet
    /\ compiling' = [compiling EXCEPT ![g] =
                       IF binding.pilot THEN [pilot |-> TRUE, snapshot |-> Snapshot]
                       ELSE Unread]
    /\ UNCHANGED <<taskVars, gateVars, context, bound, issue>>

\* record_execution_binding checks again what the bundle was made from.
\* Mutant: it does not ask which generation is running.
UncheckedRow(g) ==
    /\ binding.pilot /\ ClaimFence
    /\ compiling[g].snapshot.set = binding.set
Recordable(g) ==
    /\ binding.pilot /\ ClaimFence
    /\ g = generation /\ task = "running"
    /\ compiling[g].snapshot = Snapshot /\ BuildSet = binding.set

\* The second connection, of one transaction: the newest bundle is the active
\* one, and there is one of each generation.
CompileWrite(g) ==
    /\ Undisturbed
    /\ compiling[g] # None /\ context[g] = "none"
    /\ compiling[g].pilot => Recordable(g)
    /\ context' = [x \in Generation |->
                     IF x = g THEN "active"
                     ELSE IF context[x] = "active" THEN "superseded" ELSE context[x]]
    /\ bound' = [bound EXCEPT ![g] = IF compiling[g].pilot
                                     THEN compiling[g].snapshot ELSE @]
    /\ compiling' = [compiling EXCEPT ![g] = None]
    /\ UNCHANGED <<taskVars, gateVars, issue>>

\* The second connection is rolled back, or the compiler dies.
CompileLost(g) ==
    /\ Undisturbed
    /\ compiling[g] # None
    /\ compiling' = [compiling EXCEPT ![g] = None]
    /\ UNCHANGED <<taskVars, gateVars, context, bound, issue>>

-----------------------------------------------------------------------------
\* register_principal of somebody who is registered: a new credential.
Reissue(p) ==
    /\ Undisturbed
    /\ p \in Reissued /\ issue[p] = 0
    /\ issue' = [issue EXCEPT ![p] = 1]
    /\ UNCHANGED <<taskVars, gateVars, contextVars>>

TaskNext == Claim \/ Fail \/ Recover \/ Cancel \/ Complete

GatekeeperNext ==
    \/ Bind(TRUE, BuildSet) \/ Bind(FALSE, None)
    \/ \E on \in BOOLEAN : SetKillSwitch(on)

ContextNext ==
    \E g \in Generation : CompileRead(g) \/ CompileWrite(g) \/ CompileLost(g)

PilotNext ==
    \/ Next /\ UNCHANGED pilotVars
    \/ TaskNext \/ GatekeeperNext \/ ContextNext
    \/ \E p \in Principal : Reissue(p)

PilotSpec == PilotInit /\ [][PilotNext]_<<vars, pilotVars>>

-----------------------------------------------------------------------------
(* Properties                                                              *)

PolicyRow == [status: Status, verdict: Verdict \cup {"none"}, set: SUBSET Ref,
              timed: BOOLEAN]
SnapshotRow == [set: SUBSET Ref, policy: PolicyRow,
                principals: SUBSET (Principal \X {0, 1}), evaluator: Nat \cup {None}]

PilotTypeOK ==
    /\ task \in TaskState /\ generation \in 0 .. MaxGeneration
    /\ binding \in [pilot: BOOLEAN, set: (SUBSET Ref) \cup {None}]
    /\ killed \in BOOLEAN
    /\ claimed \in [Generation -> (SUBSET Ref) \cup {None}]
    /\ context \in [Generation -> {"none", "active", "superseded"}]
    /\ bound \in [Generation -> SnapshotRow \cup {None}]
    /\ compiling \in [Generation ->
         [pilot: BOOLEAN, snapshot: SnapshotRow \cup {None}] \cup {None}]
    /\ completion \in [generation: Generation, set: SUBSET Ref, attempt: Nat,
                       review: Ref] \cup {None}
    /\ issue \in [Principal -> {0, 1}]

\* A task that was ever claimed as a pilot is done only with a certificate of
\* its running generation, for the set it was claimed and its context compiled
\* for; however it was bound, killed, failed, recovered and claimed again.
DoneMeansCertified ==
    task = "done" /\ PilotHistory # {} =>
      /\ completion # None /\ completion.generation = generation
      /\ completion.set = claimed[generation]
      /\ bound[generation] # None /\ completion.set = bound[generation].set

\* A bundle compiled for a generation that is over is never bound, however late
\* its compiler writes: what earlier generations were bound to stays as it was.
PastGenerationsBindNothing ==
    [][\A g \in Generation : g < generation => bound'[g] = bound[g]]_<<vars, pilotVars>>

\* When a pilot is completed, whoever owns or approved a part of its build or
\* its review holds the credential of the time the context was compiled.
SameAuthorityAtCompletion ==
    [][completion' # completion =>
         \A r \in completion'.set \cup {completion'.review} :
           {<<Owner[r], issue[Owner[r]]>>, <<approver[r], issue[approver[r]]>>}
             \subseteq bound[generation].principals]_<<vars, pilotVars>>

Certified == INSTANCE Certification WITH
    Part <- {r \in Ref : Kind[r] # "review_decision"},
    build <- BuildSet,
    lost <- {r \in Ref : artifact[r] \in {"superseded", "stale"}
                         /\ Kind[r] # "review_decision"},
    work <- IF task = "running" THEN claimed[generation] ELSE None,
    certified <- IF completion = None THEN None ELSE completion.set

\* The gate certifies a set only for the work that was started for it, while
\* it is still approved and nothing of it is withdrawn: it implements
\* Certification.
ImplementsCertification == Certified!Spec

\* tests/test_completion_assurance_gate.py, 1032: a review that follows the
\* build does not make G4 stale: a G4 decision that is open for the lifecycle
\* is one the pilot can be dispatched under.
ReviewsKeepG4 ==
    GateOpen("G4") /\ G4.verdict = "pass" /\ status = "approved_for_build"
      => G4.set = BuildSet

\* tests/test_completion_assurance_gate.py, 1129: a completed pilot validates;
\* a certificate that was granted stays valid.
CertificateStands == completion # None => Assured
=============================================================================
