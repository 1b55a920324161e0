----------------------------- MODULE Assurance -----------------------------
(***************************************************************************)
(* The assurance lifecycle of one initiative: assurance.py (the kernel)    *)
(* and trusted_evaluator.py (the ledger of evaluation runs).               *)
(*                                                                         *)
(* The kernel's methods read with one connection in autocommit mode and    *)
(* begin their transaction at the first write (db.py 304-309), so what a   *)
(* method checked may have changed when it writes: an operation is a       *)
(* Check and a Commit action of a session.  record_run and create_contract *)
(* authenticate first and then hold BEGIN IMMEDIATE: their Check is the    *)
(* authentication.                                                         *)
(*                                                                         *)
(* An artifact version is a Ref; its content never changes once it is      *)
(* registered and its hash stands for it, so the sha256 of an artifact set *)
(* is the set itself and a run's result hash is its attempt number.        *)
(***************************************************************************)
EXTENDS Integers, Sequences, FiniteSets

CONSTANTS
    Session,       \* processes that call the kernel or the evaluator
    Principal,     \* assurance_principals with kernel authority
    Deciders,      \* the ones whose authority is executive or chairman
    Reviewers,     \* the ones whose authority is reviewer
    None,          \* SQL NULL
    Ref,           \* artifact versions, "<artifact_id>:v<version>"
    ArtifactId,    \* artifact ids
    Id,            \* Id[r]: r's artifact id
    Kind,          \* Kind[r]: r's artifact kind
    Owner,         \* Owner[r]: the principal that registers r
    Covers,        \* Covers[r]: the refs a design manifest r declares
    Edges,         \* Edges[r]: the <<from, to>> ids of r's edges
    Affirmative,   \* reviews and releases with a positive decision, no finding
    Binds,         \* Binds[r]: the attempts in a review's evidence_refs
    Provisioned,   \* the refs approved when the history starts
    ProvisionedBy, \* the principal that approved them
    Start,         \* the initiative's status when the history starts
    Passed,        \* the gates already passed on the provisioned refs
    Upgraded,      \* the database may hold a run of the schema before
    Does,          \* bound: Does[s]: the operations session s is seen to call
    Changing,      \* bound: the refs somebody may supersede
    GateUse,       \* bound: the gates that may be recorded
    Targets,       \* bound: the targets a transition may ask for
    BlockedIn,     \* bound: the statuses somebody may block the initiative in
    Budgets,       \* bound: the max_attempts a caller may pass
    MaxCredential  \* bound: credentials issued to the evaluator

Gate == {"G0", "G1", "G2", "G3", "G4", "G5", "G6", "G7"}
Ops == {"register", "approve", "supersede", "gate", "transition", "block",
        "resume", "evaluate", "contract", "quarantine"}

-----------------------------------------------------------------------------
(* The tables of assurance.py                                              *)

LifecycleTransitions ==
  [discovery |-> {"goal_review", "cancelled"},
   goal_review |-> {"design_draft", "discovery", "cancelled"},
   design_draft |-> {"design_review", "discovery", "cancelled"},
   design_review |-> {"spec_ready", "design_draft", "cancelled"},
   spec_ready |-> {"eval_contract_approved", "design_draft", "cancelled"},
   eval_contract_approved |-> {"baseline_recorded", "design_draft", "cancelled"},
   baseline_recorded |-> {"approved_for_build", "design_draft", "cancelled"},
   approved_for_build |-> {"implementation", "cancelled"},
   implementation |-> {"independent_evaluation", "cancelled"},
   independent_evaluation |-> {"implementation", "design_draft",
                               "evaluation_rejected", "release_candidate"},
   release_candidate |-> {"release_decision", "incident_declared"},
   release_decision |-> {"release_rejected", "release_approved",
                         "release_approved_conditional"},
   release_approved |-> {"enabled_or_deployed"},
   release_approved_conditional |-> {"conditions_verified", "release_expired"},
   conditions_verified |-> {"enabled_or_deployed"},
   enabled_or_deployed |-> {"outcome_observation", "incident_declared"},
   outcome_observation |-> {"closed", "incident_declared", "reopened"},
   incident_declared |-> {"rollback_in_progress"},
   rollback_in_progress |-> {"rolled_back", "disabled", "incident_resolved"},
   incident_resolved |-> {"enabled_or_deployed", "outcome_observation",
                          "closed", "reopened"},
   reopened |-> {"discovery", "design_draft"}]

GateForTarget ==
  [goal_review |-> "G0", design_review |-> "G1",
   eval_contract_approved |-> "G2", baseline_recorded |-> "G3",
   approved_for_build |-> "G4", release_candidate |-> "G5",
   release_approved |-> "G6", release_approved_conditional |-> "G6",
   closed |-> "G7"]

RequiredManifestKinds == {"goal_contract", "design_record", "behavior_spec",
                          "eval_contract", "baseline_report"}

GateRequiredKinds ==
  [G0 |-> {"goal_contract"},
   G1 |-> {"goal_contract", "design_record"},
   G2 |-> {"goal_contract", "design_record", "behavior_spec", "eval_contract"},
   G3 |-> {"baseline_report", "eval_contract"},
   G4 |-> RequiredManifestKinds \cup {"design_manifest"},
   G5 |-> {"review_decision", "eval_contract"},
   G6 |-> {"review_decision", "release_decision"},
   G7 |-> {"review_decision"}]

\* The states whose entry re-reads the latest evaluation.
ReleaseTargets == {"release_candidate", "release_decision", "release_approved",
                   "release_approved_conditional", "conditions_verified",
                   "enabled_or_deployed"}

Status == DOMAIN LifecycleTransitions \cup {"blocked"}
          \cup UNION {LifecycleTransitions[x] : x \in DOMAIN LifecycleTransitions}

ASSUME AssuranceAssumption ==
    /\ Deciders \subseteq Principal /\ Reviewers \subseteq Principal
    /\ Id \in [Ref -> ArtifactId]
    /\ Owner \in [Ref -> Principal]
    /\ Binds \in [Ref -> SUBSET Nat]
    /\ Edges \in [Ref -> SUBSET (ArtifactId \X ArtifactId)]
    /\ Provisioned \subseteq Ref /\ ProvisionedBy \in Principal
    /\ None \notin Principal /\ None \notin Status
    /\ Upgraded \in BOOLEAN /\ Start \in Status /\ Passed \subseteq Gate
    /\ GateUse \subseteq Gate
    /\ Does \in [Session -> SUBSET Ops]
    /\ Changing \subseteq Ref /\ Affirmative \subseteq Ref
    /\ Targets \subseteq Status /\ Budgets \subseteq 1 .. 3
    /\ MaxCredential \in Nat

VARIABLES
    status,      \* assurance_initiatives.status
    resume,      \* assurance_blocks.resume_state, None without a row
    artifact,    \* assurance_artifacts.status, "absent" before the INSERT
    trail,       \* assurance_artifact_lifecycle: <<from, to>> in sequence
    approver,    \* the row of assurance_artifact_approvals, None without
    links,       \* assurance_links
    gates,       \* the latest row of assurance_gate_decisions per gate
    contract,    \* trusted_eval_contracts.max_attempts, 0 without a row
    runs,        \* trusted_eval_runs by attempt
    quarantined, \* a row in trusted_eval_quarantines
    evaluator,   \* the evaluator's row of assurance_principals
    chain,       \* trusted_eval_evaluator_credentials by sequence
    call         \* what each session checked and has not yet committed

lifecycleVars == <<status, resume>>
artifactVars == <<artifact, trail, approver, links>>
evalVars == <<contract, runs, quarantined>>
principalVars == <<evaluator, chain>>
vars == <<lifecycleVars, artifactVars, gates, evalVars, principalVars, call>>

-----------------------------------------------------------------------------
(* Rows                                                                    *)

ArtifactStatus == {"absent", "draft", "approved", "superseded", "stale"}
Verdict == {"pass", "pass_with_conditions", "reject"} \* return, blocked: as reject
Passing == {"pass", "pass_with_conditions"}

\* term says whether expires_at is NULL, still ahead, or over; examined is
\* history, the artifacts approved when the decision's checks were made.
GateRow == [verdict: Verdict \cup {"none"}, set: SUBSET Ref, examined: SUBSET Ref,
            term: {"none", "running", "over"}, by: Principal \cup {None}]
NoGate == [verdict |-> "none", set |-> {}, examined |-> {}, term |-> "none",
           by |-> None]

\* The values a run's integrity_signature is computed from: the result and its
\* principal and time, and (RUN_PROVENANCE_KEYS) who was entitled to run it.
\* A run of the schema before those columns is signed without them.
RunField == {"result", "provenance"}
RunRow == [status: {"completed", "failed", "abandoned"},
           signed: SUBSET RunField, credential: Nat]
EarlierRun == [status |-> "completed", signed |-> {"result"}, credential |-> 0]

\* actor and authority as one word: "evaluator" or anything else.
EvaluatorRow == [role: {"evaluator", "other"}, credential: Nat]

Idle == [op |-> "idle", what |-> None, by |-> None, seen |-> {}, token |-> 0]
Call == [op: Ops \cup {"idle"}, what: Ref \cup Gate \cup Status \cup {None},
         by: Principal \cup {None}, seen: SUBSET Ref, token: Nat]

ProvisionedTrail == <<<<"absent", "draft">>, <<"draft", "approved">>>>

\* An upgraded database may hold a run of the schema before, and no provenance.
Init ==
    /\ status = Start /\ resume = None
    /\ artifact = [r \in Ref |-> IF r \in Provisioned THEN "approved" ELSE "absent"]
    /\ trail = [r \in Ref |-> IF r \in Provisioned THEN ProvisionedTrail ELSE <<>>]
    /\ approver = [r \in Ref |-> IF r \in Provisioned THEN ProvisionedBy ELSE None]
    /\ links = UNION {Edges[r] : r \in Provisioned}
    /\ gates = [g \in Gate |->
                  IF g \in Passed
                  THEN [verdict |-> "pass", set |-> Provisioned,
                        examined |-> Provisioned, term |-> "none",
                        by |-> ProvisionedBy]
                  ELSE NoGate]
    /\ contract = 0 /\ quarantined = FALSE
    /\ evaluator = [role |-> "evaluator", credential |-> 1]
    /\ \/ runs = <<>> /\ chain = <<1>>
       \/ Upgraded /\ runs = <<EarlierRun>> /\ chain = <<>>
    /\ call = [s \in Session |-> Idle]

-----------------------------------------------------------------------------
(* Sessions: an operation checks, and then commits                         *)

Check(s, op, what, by, seen, token) ==
    /\ call[s].op = "idle" /\ op \in Does[s]
    /\ call' = [call EXCEPT ![s] = [op |-> op, what |-> what, by |-> by,
                                    seen |-> seen, token |-> token]]
    /\ UNCHANGED <<lifecycleVars, artifactVars, gates, evalVars, principalVars>>

Commit(s, op) ==
    /\ call[s].op = op
    /\ call' = [call EXCEPT ![s] = Idle]

\* A later check or a UNIQUE constraint raises and the transaction is rolled
\* back, or the process dies between its reads and its writes.
Abandon(s) ==
    /\ call[s].op # "idle"
    /\ call' = [call EXCEPT ![s] = Idle]
    /\ UNCHANGED <<lifecycleVars, artifactVars, gates, evalVars, principalVars>>

-----------------------------------------------------------------------------
(* Artifacts                                                               *)

Approved == {r \in Ref : artifact[r] = "approved"}
OfKind(k) == {r \in Approved : Kind[r] = k}
Reviews == OfKind("review_decision")

\* _artifact_lifecycle_valid: the log of every version links each entry to the
\* one before and ends in the version's status.
TrailIntact ==
    \A r \in Ref : artifact[r] # "absent" =>
      /\ Len(trail[r]) > 0 /\ trail[r][1][1] = "absent"
      /\ \A i \in 1 .. Len(trail[r]) - 1 : trail[r][i + 1][1] = trail[r][i][2]
      /\ trail[r][Len(trail[r])][2] = artifact[r]

\* _validate_manifest: one approved ref of each required kind.
ManifestValid(r) ==
    /\ Covers[r] \subseteq Approved
    /\ \A k \in RequiredManifestKinds :
          Cardinality({x \in Covers[r] : Kind[x] = k}) = 1

\* A review can only quote the hash of a result that has been recorded.
CheckRegister(s, r) ==
    /\ artifact[r] = "absent"
    /\ Kind[r] = "design_manifest" => ManifestValid(r)
    /\ Binds[r] \subseteq DOMAIN runs
    /\ Check(s, "register", r, Owner[r], {}, 0)

CommitRegister(s) ==
    LET r == call[s].what IN
    /\ Commit(s, "register")
    /\ artifact[r] = "absent"
    /\ artifact' = [artifact EXCEPT ![r] = "draft"]
    /\ trail' = [trail EXCEPT ![r] = Append(@, <<"absent", "draft">>)]
    /\ links' = IF Kind[r] = "design_manifest" THEN links \cup Edges[r] ELSE links
    /\ UNCHANGED <<lifecycleVars, approver, gates, evalVars, principalVars>>

CheckApprove(s, r, p) ==
    /\ p \in Deciders \cup Reviewers /\ p # Owner[r]
    /\ artifact[r] = "draft"
    /\ Check(s, "approve", r, p, {}, 0)

\* The INSERT into assurance_artifact_approvals fails on a second approval.
\* Mutant: no primary key on assurance_artifact_approvals.
Unkeyed(r) == TRUE
ApprovalFree(r) == approver[r] = None

CommitApprove(s) ==
    LET r == call[s].what IN
    /\ Commit(s, "approve")
    /\ ApprovalFree(r)
    /\ artifact' = [artifact EXCEPT ![r] = "approved"]
    /\ trail' = [trail EXCEPT ![r] = Append(@, <<"draft", "approved">>)]
    /\ approver' = [approver EXCEPT ![r] = call[s].by]
    /\ UNCHANGED <<lifecycleVars, links, gates, evalVars, principalVars>>

\* The queue of supersede_artifact, as what it reaches along assurance_links:
\* the ids in every set that the links do not lead out of, neither from the set
\* nor from a.
\* Mutant: only the direct dependents are visited.
DirectDependents(a) == {l[2] : l \in {e \in links : e[1] = a}} \ {a}
Dependents(a) ==
    LET linked == {l[2] : l \in links}
        Closed(S) == \A l \in links : l[1] \in S \cup {a} => l[2] \in S
        closed == {S \in SUBSET linked : Closed(S)}
    IN  {b \in linked : \A S \in closed : b \in S} \ {a}

CheckSupersede(s, r) ==
    /\ Deciders # {} /\ r \in Changing
    /\ artifact[r] = "approved"
    /\ Check(s, "supersede", r, None, {}, 0)

\* The version itself is superseded, the approved versions of its dependents
\* go stale.
AfterSupersede(r) ==
    LET dependents == Dependents(Id[r])
        outdated == {x \in Approved : Id[x] \in dependents}
    IN  [x \in Ref |-> IF x = r THEN "superseded"
                       ELSE IF x \in outdated THEN "stale" ELSE artifact[x]]

CommitSupersede(s) ==
    LET r == call[s].what IN
    /\ Commit(s, "supersede")
    /\ artifact' = AfterSupersede(r)
    /\ trail' = [x \in Ref |-> IF x = r \/ artifact'[x] # artifact[x]
                               THEN Append(trail[x], <<"approved", artifact'[x]>>)
                               ELSE trail[x]]
    /\ UNCHANGED <<lifecycleVars, approver, links, gates, evalVars, principalVars>>

-----------------------------------------------------------------------------
(* Gate decisions                                                          *)

Completed == {i \in DOMAIN runs : runs[i].status = "completed"}
IsLatest(i) == i \in Completed /\ \A j \in Completed : j <= i
Bound == UNION {Binds[r] : r \in Reviews}

\* _validate_trusted_g5 recomputes a run's signature over these values.
G5Fields == {"result"}
ValidTrustedG5(i) == i \in Completed /\ ~quarantined /\ runs[i].signed = G5Fields

\* verify_integrity and the completion verifier recompute it over these.
IntegrityFields == {"result", "provenance"}
Verifiable(i) == runs[i].signed = IntegrityFields

\* The gates that read the reviews' decisions.
ReviewGates == {"G5", "G6", "G7"}
ReviewsAffirmative(g) == g \in ReviewGates => Reviews \subseteq Affirmative
Evaluated(g) ==
    g \in {"G5", "G6"} =>
      \E i \in Completed :
        /\ IsLatest(i) /\ ValidTrustedG5(i)
        /\ g = "G5" => \A r \in Reviews : i \in Binds[r]
ReleaseAffirmative(g) == g = "G6" => OfKind("release_decision") \subseteq Affirmative

\* record_gate runs the same checks for a pass as for a rejection.  The caller
\* names the complete approved set and owns none of it.
CheckGate(s, g, p) ==
    /\ p \in Deciders \cup Reviewers /\ g \in GateUse
    /\ Approved # {} /\ \A r \in Approved : Owner[r] # p
    /\ GateRequiredKinds[g] \subseteq {Kind[r] : r \in Approved}
    /\ ReviewsAffirmative(g) /\ Evaluated(g) /\ ReleaseAffirmative(g)
    /\ Check(s, "gate", g, p, Approved, 0)

\* The digest is of the set that is approved now, not of the set checked; a
\* conditional pass needs an expiry, the other decisions are given none here.
CommitGate(s, verdict) ==
    /\ Commit(s, "gate")
    /\ gates' = [gates EXCEPT ![call[s].what] =
                   [verdict |-> verdict, set |-> Approved,
                    examined |-> call[s].seen,
                    term |-> IF verdict = "pass_with_conditions" THEN "running"
                             ELSE "none",
                    by |-> call[s].by]]
    /\ UNCHANGED <<lifecycleVars, artifactVars, evalVars, principalVars>>

\* expires_at is reached.
Expire(g) ==
    /\ gates[g].term = "running"
    /\ gates' = [gates EXCEPT ![g].term = "over"]
    /\ UNCHANGED <<lifecycleVars, artifactVars, evalVars, principalVars, call>>

-----------------------------------------------------------------------------
(* The lifecycle                                                           *)

\* Mutant: the gate's artifact set is not compared with the approved one.
GateUnexpired(g) == gates[g].verdict \in Passing /\ gates[g].term # "over"
GateOpen(g) ==
    /\ gates[g].verdict \in Passing /\ gates[g].term # "over"
    /\ gates[g].set = Approved

\* The oldest completed run some approved review binds.
BoundValid ==
    \E i \in Completed \cap Bound :
      ValidTrustedG5(i) /\ \A j \in Completed \cap Bound : i <= j
LatestBound == \E i \in Completed \cap Bound : IsLatest(i) /\ ValidTrustedG5(i)

CheckTransition(s, target) ==
    /\ status \in DOMAIN LifecycleTransitions /\ target \in Targets
    /\ target \in LifecycleTransitions[status]
    /\ target \in DOMAIN GateForTarget =>
         /\ GateOpen(GateForTarget[target])
         /\ GateForTarget[target] \in {"G5", "G6"} => BoundValid
    /\ target \in ReleaseTargets => LatestBound
    /\ Check(s, "transition", target, None, {}, 0)

\* The UPDATE names the initiative and not the status that was read.
CommitTransition(s) ==
    /\ Commit(s, "transition")
    /\ status' = call[s].what
    /\ UNCHANGED <<resume, artifactVars, gates, evalVars, principalVars>>

\* block wants the caller's resume_state to be the status, whatever it is.
CheckBlock(s) == status \in BlockedIn /\ Check(s, "block", status, None, {}, 0)

CommitBlock(s) ==
    /\ Commit(s, "block")
    /\ resume' = call[s].what
    /\ status' = "blocked"
    /\ UNCHANGED <<artifactVars, gates, evalVars, principalVars>>

CheckResume(s) ==
    /\ status = "blocked" /\ resume # None
    /\ Check(s, "resume", resume, None, {}, 0)

CommitResume(s) ==
    /\ Commit(s, "resume")
    /\ status' = call[s].what
    /\ resume' = None
    /\ UNCHANGED <<artifactVars, gates, evalVars, principalVars>>

-----------------------------------------------------------------------------
(* The trusted evaluator                                                   *)

\* register_principal: an upsert that always issues a new credential, and
\* chains it when the row becomes the evaluator's.
\* Mutant: only the first registration of a principal is chained.
ChainFirstOnly(role, c) ==
    IF role = "evaluator" /\ chain = <<>> THEN <<c>> ELSE chain
ChainAfter(role, c) == IF role = "evaluator" THEN Append(chain, c) ELSE chain

RegisterPrincipal(role) ==
    LET c == evaluator.credential + 1 IN
    /\ c <= MaxCredential
    /\ evaluator' = [role |-> role, credential |-> c]
    /\ chain' = ChainAfter(role, c)
    /\ UNCHANGED <<lifecycleVars, artifactVars, gates, evalVars, call>>

\* _evaluator: the caller holds the credential of the active evaluator.
Authenticated == evaluator.role = "evaluator"

\* _transaction_evaluator: nothing changed since the caller authenticated.
StillAuthenticated(s) ==
    evaluator = [role |-> "evaluator", credential |-> call[s].token]

\* _ensure_evaluator_provenance: the chain ends in the current credential, or
\* is begun with it.
Provenance ==
    /\ chain # <<>> => chain[Len(chain)] = evaluator.credential
    /\ chain' = IF chain = <<>> THEN <<evaluator.credential>> ELSE chain
    /\ UNCHANGED evaluator

\* Mutant: a contract that is asked for again adds to the budget.
TopsUp(n) == contract' = contract + n
\* _create_contract: the budget is set once.
ContractFor(n) == contract \in {0, n} /\ contract' = n

CheckContract(s) ==
    Authenticated /\ Check(s, "contract", None, None, {}, evaluator.credential)

CommitContract(s, n) ==
    /\ Commit(s, "contract")
    /\ StillAuthenticated(s) /\ Provenance /\ ContractFor(n)
    /\ UNCHANGED <<lifecycleVars, artifactVars, gates, runs, quarantined>>

CheckRun(s) ==
    Authenticated /\ Check(s, "evaluate", None, None, {}, evaluator.credential)

\* record_run, of which the manifests, contents and evidence are in order.
CommitRun(s, n, outcome) ==
    /\ Commit(s, "evaluate")
    /\ StillAuthenticated(s) /\ Provenance /\ ContractFor(n)
    /\ ~quarantined /\ Len(runs) + 1 <= n
    /\ runs' = Append(runs, [status |-> outcome, signed |-> IntegrityFields,
                             credential |-> evaluator.credential])
    /\ UNCHANGED <<lifecycleVars, artifactVars, gates, quarantined>>

\* One statement in a transaction of its own.
Quarantine(s) ==
    /\ Authenticated /\ "quarantine" \in Does[s]
    /\ quarantined' = TRUE
    /\ UNCHANGED <<lifecycleVars, artifactVars, gates, contract, runs,
                   principalVars, call>>

-----------------------------------------------------------------------------
(* classify_change, a pure function of the indicators                      *)

Reserved == {"authorization", "sensitive_data", "production",
             "irreversible_migration", "public_competitive_claim"}
Shared == {"public_contract", "persistent_schema", "cross_role"}
Indicator == Reserved \cup Shared \cup {"editorial_only", "local_behavior"}

\* The class C0 .. C3 as a number.
RiskClass(given) ==
    IF given \cap Reserved # {} THEN 3
    ELSE IF given \cap Shared # {} THEN 2
    ELSE IF given = {"editorial_only"} THEN 0 ELSE 1

-----------------------------------------------------------------------------
ArtifactNext(s) ==
    \/ \E r \in Ref : CheckRegister(s, r) \/ CheckSupersede(s, r)
    \/ \E r \in Ref, p \in Principal : CheckApprove(s, r, p)
    \/ CommitRegister(s) \/ CommitApprove(s) \/ CommitSupersede(s)

GateNext(s) ==
    \/ \E g \in Gate, p \in Principal : CheckGate(s, g, p)
    \/ \E v \in Verdict : CommitGate(s, v)

LifecycleNext(s) ==
    \/ \E t \in Status : CheckTransition(s, t)
    \/ CheckBlock(s) \/ CheckResume(s)
    \/ CommitTransition(s) \/ CommitBlock(s) \/ CommitResume(s)

EvaluatorNext(s) ==
    \/ CheckContract(s) \/ CheckRun(s)
    \/ \E n \in Budgets : CommitContract(s, n)
    \/ \E n \in Budgets, o \in {"completed", "failed"} : CommitRun(s, n, o)
    \/ Quarantine(s)

SessionNext(s) ==
    ArtifactNext(s) \/ GateNext(s) \/ LifecycleNext(s) \/ EvaluatorNext(s) \/ Abandon(s)

Next ==
    \/ \E s \in Session : SessionNext(s)
    \/ \E g \in Gate : Expire(g)
    \/ \E role \in {"evaluator", "other"} : RegisterPrincipal(role)

Spec == Init /\ [][Next]_vars

-----------------------------------------------------------------------------
(* Properties                                                              *)

TypeOK ==
    /\ status \in Status /\ resume \in Status \cup {None}
    /\ artifact \in [Ref -> ArtifactStatus]
    /\ trail \in [Ref -> Seq(ArtifactStatus \X ArtifactStatus)]
    /\ approver \in [Ref -> Principal \cup {None}]
    /\ links \subseteq ArtifactId \X ArtifactId
    /\ gates \in [Gate -> GateRow]
    /\ contract \in 0 .. 3 /\ runs \in Seq(RunRow) /\ quarantined \in BOOLEAN
    /\ evaluator \in EvaluatorRow /\ chain \in Seq(Nat)
    /\ call \in [Session -> Call]

\* The credential chain accounts for every credential that counts.  However its
\* principal was registered, taken away and registered again, the evaluator is
\* never refused for an unrecorded rotation; and every run of the current schema
\* was issued under a credential of the chain, later runs under later ones.
CredentialsAccounted ==
    /\ evaluator.role = "evaluator" /\ chain # <<>> =>
         chain[Len(chain)] = evaluator.credential
    /\ \A i \in DOMAIN runs : "provenance" \in runs[i].signed =>
         /\ \E k \in DOMAIN chain : chain[k] = runs[i].credential
         /\ \A j \in DOMAIN runs : i <= j => runs[i].credential <= runs[j].credential

\* A version that was superseded, or went stale with what it depends on, is
\* never approved again: not even by an approval that was checked before.
WithdrawnForGood ==
    [][\A r \in Ref : artifact[r] \in {"superseded", "stale"}
                        => artifact'[r] # "approved"]_vars

\* A decision that lost one of the artifacts it reviewed opens its gate never
\* again: only a new decision can.
OutdatedForGood ==
    [][\A g \in Gate : gates'[g] = gates[g] /\ GateOpen(g)'
                         => gates[g].set \subseteq Approved]_vars

\* Nothing that depends, directly or through others, on what an operation
\* withdraws is still approved when it has: the operation leaves no link from
\* a version it withdrew to an approved version of another artifact than the
\* one it was asked to supersede.
WithdrawalSpreads ==
    [][\A r \in Approved : artifact'[r] \in {"superseded", "stale"} =>
       \A x \in Ref :
         /\ <<Id[r], Id[x]>> \in links
         /\ \A s \in Session : call[s].op = "supersede" /\ call'[s].op = "idle"
                                 => Id[call[s].what] # Id[x]
         => artifact'[x] # "approved"]_vars

\* A release or closing gate opens over a negative review in one way only: the
\* review was approved while the gate's decision was being recorded, between its
\* checks (assurance.py 886-896) and the digest it stores (932).
ReleasedOnExaminedReviews ==
    [][\A s \in Session, target \in DOMAIN GateForTarget :
         /\ call[s].op = "idle" /\ call'[s].op = "transition"
         /\ call'[s].what = target /\ GateForTarget[target] \in ReviewGates
         => Reviews \ Affirmative \subseteq gates[GateForTarget[target]].set
                                            \ gates[GateForTarget[target]].examined]_vars

\* design document, 939: a gate decision commits only with the exact artifact set
\* it reviewed.  README gives an instance.
DecisionsBindReviewed == \A g \in Gate : gates[g].set = gates[g].examined

\* A completed run that the evaluator recorded, and integrity verification
\* accepts, is one that gate G5 can accept while nothing is quarantined.
RecordedRunsUsable ==
    \A i \in Completed : Verifiable(i) /\ ~quarantined => ValidTrustedG5(i)

\* design document, 76: blocked is not a dead end; whoever is blocked has a
\* recorded state to resume, which is another one.
BlockKeepsState == status = "blocked" => resume \notin {None, "blocked"}
=============================================================================
