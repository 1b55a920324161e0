---------------------------- MODULE PilotProofs ----------------------------
(* PilotGate: its types, what a finished pilot task is certified for, late   *)
(* compilers, and the refinement of Certification; for every value of its   *)
(* constants.                                                               *)
EXTENDS PilotGate, AssuranceProofs

-----------------------------------------------------------------------------
(* The gate only reads the lifecycle                                       *)

\* Every behaviour of the gate is one of the lifecycle.
LEMMA LifecycleStep == [PilotNext]_<<vars, pilotVars>> => [Next]_vars
BY DEF PilotNext, TaskNext, GatekeeperNext, ContextNext, Undisturbed, Bind,
   SetKillSwitch, Claim, Fail, Recover, Cancel, Complete, CompileRead, CompileWrite,
   CompileLost, Reissue

LEMMA LifecycleInv == PilotSpec => []AssuranceInv
<1>1. PilotInit => AssuranceInv
  BY InitInv DEF PilotInit
<1>2. AssuranceInv /\ [PilotNext]_<<vars, pilotVars>> => AssuranceInv'
  BY LifecycleStep, StepInv
<1>3. QED
  BY <1>1, <1>2, PTL DEF PilotSpec

-----------------------------------------------------------------------------
(* The invariant                                                           *)

\* Whoever decided a gate is on record.
DecidedBy == \A g \in Gate : gates[g].verdict # "none" => gates[g].by \in Principal

\* Claims are of the past, and only a finished task has a certificate.
ClaimsPast == \A g \in Generation : claimed[g] # None => g <= generation
CertifiedDone == completion # None => task = "done"

PilotInv ==
    PilotTypeOK /\ DecidedBy /\ ClaimsPast /\ CertifiedDone /\ DoneMeansCertified

LEMMA PilotInitInv == PilotInit => PilotInv
<1> SUFFICES ASSUME PilotInit PROVE PilotInv
  OBVIOUS
<1>1. PilotTypeOK
  <2>1. binding \in [pilot: BOOLEAN, set: (SUBSET Ref) \cup {None}]
    BY DEF PilotInit, NotPilot
  <2>2. task \in TaskState /\ generation \in 0 .. MaxGeneration
    BY PilotAssumption DEF PilotInit, TaskState
  <2>3. killed \in BOOLEAN
    BY Zenon DEF PilotInit
  <2>4. QED
    BY <2>1, <2>2, <2>3 DEF PilotInit, PilotTypeOK
<1>2. DecidedBy
  BY AssuranceAssumption DEF PilotInit, Init, DecidedBy, NoGate
<1>3. ClaimsPast /\ CertifiedDone /\ DoneMeansCertified
  BY DEF PilotInit, ClaimsPast, CertifiedDone, DoneMeansCertified, PilotHistory
<1>4. QED
  BY <1>1, <1>2, <1>3 DEF PilotInv

\* What is compiled under a decided G4 is a snapshot.
LEMMA SnapshotTyped ==
  ASSUME AssuranceInv, PilotInv, Decided
  PROVE  Snapshot \in SnapshotRow
<1>1. BuildSet \in SUBSET Ref
  BY DEF BuildSet, Approved
<1>2. /\ status \in Status /\ G4 \in GateRow /\ G4.by \in Principal
      /\ approver \in [Ref -> Principal \cup {None}]
      /\ evaluator.credential \in Nat
  BY DEF AssuranceInv, TypeOK, PilotInv, DecidedBy, Decided, G4, Gate, EvaluatorRow
<1>3. Policy \in PolicyRow
  BY <1>2 DEF Policy, PolicyRow, GateRow
<1>4. {<<p, issue[p]>> : p \in Involved} \in SUBSET (Principal \X {0, 1})
  <2>1. Involved \subseteq Principal
    BY <1>2, AssuranceAssumption, PilotAssumption DEF Involved
  <2>2. issue \in [Principal -> {0, 1}]
    BY DEF PilotInv, PilotTypeOK
  <2>3. QED
    BY <2>1, <2>2
<1>5. EvaluatorSeen \in Nat \cup {None}
  BY <1>2 DEF EvaluatorSeen
<1>6. QED
  BY <1>1, <1>3, <1>4, <1>5 DEF Snapshot, SnapshotRow

-----------------------------------------------------------------------------
(* Steps                                                                   *)

\* A step that leaves the task, its claims and its certificate alone, and of
\* the snapshots at most the one of a running task.
Spared ==
    /\ UNCHANGED <<task, generation, claimed, completion>>
    /\ \A g \in Generation : bound'[g] = bound[g] \/ task # "done"

LEMMA SparedInv ==
  ASSUME PilotInv, Spared
  PROVE  ClaimsPast' /\ CertifiedDone' /\ DoneMeansCertified'
<1>1. ClaimsPast' /\ CertifiedDone'
  BY DEF PilotInv, Spared, ClaimsPast, CertifiedDone
<1>2. DoneMeansCertified'
  <2> SUFFICES ASSUME task' = "done", PilotHistory' # {}
               PROVE  /\ completion' # None /\ completion'.generation = generation'
                      /\ completion'.set = claimed'[generation']
                      /\ bound'[generation'] # None
                      /\ completion'.set = bound'[generation'].set
    BY DEF DoneMeansCertified
  <2>1. task = "done" /\ PilotHistory # {}
    BY DEF Spared, PilotHistory
  <2>2. /\ completion # None /\ completion.generation = generation
        /\ completion.set = claimed[generation]
        /\ bound[generation] # None /\ completion.set = bound[generation].set
    BY <2>1 DEF PilotInv, DoneMeansCertified
  <2>3. completion.generation \in Generation
    BY <2>2 DEF PilotInv, PilotTypeOK
  <2>4. bound'[generation] = bound[generation]
    BY <2>1, <2>2, <2>3 DEF Spared
  <2>5. QED
    BY <2>2, <2>4 DEF Spared
<1>3. QED
  BY <1>1, <1>2

LEMMA LifecycleSpares ==
  ASSUME AssuranceInv, PilotInv, [Next]_vars, UNCHANGED pilotVars
  PROVE  PilotInv'
<1>1. PilotTypeOK' /\ Spared
  BY DEF PilotInv, PilotTypeOK, Spared, pilotVars, taskVars, gateVars, contextVars
<1>2. DecidedBy'
  <2>1. gates \in [Gate -> GateRow] /\ CallOK
    BY DEF AssuranceInv, TypeOK
  <2>2. CASE \E s \in Session, v \in Verdict : CommitGate(s, v)
    <3>1. PICK s \in Session, v \in Verdict : CommitGate(s, v)
      BY <2>2
    <3>2. call[s].by \in Principal
      BY <2>1, <3>1 DEF CommitGate, Commit, CallOK
    <3> DEFINE row == [verdict |-> v, set |-> Approved, examined |-> call[s].seen,
                       term |-> IF v = "pass_with_conditions" THEN "running"
                                ELSE "none",
                       by |-> call[s].by]
    <3>3. gates' = [gates EXCEPT ![call[s].what] = row] /\ row.by \in Principal
      BY <3>1, <3>2 DEF CommitGate
    <3> HIDE DEF row
    <3>4. QED
      BY <2>1, <3>3 DEF PilotInv, DecidedBy
  <2>3. CASE \E g \in Gate : Expire(g)
    <3>1. PICK g \in Gate : gates' = [gates EXCEPT ![g].term = "over"]
      BY <2>3 DEF Expire
    <3>2. \A h \in Gate : gates'[h].verdict = gates[h].verdict
                          /\ gates'[h].by = gates[h].by
      BY <2>1, <3>1 DEF GateRow
    <3>3. QED
      BY <3>2 DEF PilotInv, DecidedBy
  <2>4. CASE UNCHANGED gates
    BY <2>4 DEF PilotInv, DecidedBy
  <2>5. QED
    BY <2>2, <2>3, <2>4 DEF Next, SessionNext, ArtifactNext, GateNext, LifecycleNext,
       EvaluatorNext, RegisterPrincipal, Abandon, CheckRegister, CheckApprove,
       CheckSupersede, CheckGate, CheckTransition, CheckBlock, CheckResume,
       CheckContract, CheckRun, Check, CommitRegister, CommitApprove, CommitSupersede,
       CommitTransition, CommitBlock, CommitResume, CommitContract, CommitRun,
       Quarantine, vars
<1>3. QED
  BY <1>1, <1>2, SparedInv DEF PilotInv

\* The gate decides nothing about gates.
LEMMA DecidedBySame ==
  ASSUME PilotInv, UNCHANGED vars
  PROVE  DecidedBy'
BY DEF PilotInv, DecidedBy, vars

LEMMA GatekeeperInv ==
  ASSUME AssuranceInv, PilotInv, GatekeeperNext \/ \E p \in Principal : Reissue(p)
  PROVE  PilotInv'
<1>1. UNCHANGED vars /\ Spared
  BY DEF GatekeeperNext, Bind, SetKillSwitch, Reissue, Undisturbed, Spared, taskVars,
     contextVars, gateVars
<1>2. /\ UNCHANGED <<task, generation, claimed, completion, context, bound, compiling>>
  BY DEF GatekeeperNext, Bind, SetKillSwitch, Reissue, taskVars, contextVars, gateVars
<1>3. binding' \in [pilot: BOOLEAN, set: (SUBSET Ref) \cup {None}]
  <2>1. BuildSet \in SUBSET Ref
    BY DEF BuildSet, Approved
  <2>2. ASSUME NEW pilot \in BOOLEAN, NEW set \in (SUBSET Ref) \cup {None}, Bind(pilot, set)
        PROVE  binding' \in [pilot: BOOLEAN, set: (SUBSET Ref) \cup {None}]
    BY <2>2 DEF Bind
  <2>3. CASE Bind(TRUE, BuildSet) \/ Bind(FALSE, None)
    BY <2>1, <2>2, <2>3
  <2>4. CASE UNCHANGED binding
    BY <2>4 DEF PilotInv, PilotTypeOK
  <2>5. QED
    BY <2>3, <2>4 DEF GatekeeperNext, SetKillSwitch, Reissue, gateVars
<1>4. killed' \in BOOLEAN
  <2>1. CASE \E on \in BOOLEAN : SetKillSwitch(on)
    BY <2>1, Zenon DEF SetKillSwitch
  <2>2. CASE UNCHANGED killed
    BY <2>2, Zenon DEF PilotInv, PilotTypeOK
  <2>3. QED
    BY <2>1, <2>2 DEF GatekeeperNext, Bind, Reissue, gateVars
<1>5. issue' \in [Principal -> {0, 1}]
  BY DEF GatekeeperNext, Bind, SetKillSwitch, Reissue, PilotInv, PilotTypeOK
<1>6. PilotTypeOK'
  BY <1>2, <1>3, <1>4, <1>5 DEF PilotInv, PilotTypeOK
<1>7. QED
  BY <1>1, <1>6, SparedInv, DecidedBySame DEF PilotInv

LEMMA ClaimInv ==
  ASSUME AssuranceInv, PilotInv, Claim
  PROVE  PilotInv'
<1>1. /\ UNCHANGED vars /\ task = "open" /\ task' = "running"
      /\ generation' = generation + 1 /\ generation < MaxGeneration
      /\ UNCHANGED <<binding, killed, completion, context, bound, compiling, issue>>
      /\ claimed' = [claimed EXCEPT ![generation + 1] =
                       IF binding.pilot THEN binding.set ELSE None]
  BY DEF Claim, Undisturbed, contextVars
<1>2. generation \in 0 .. MaxGeneration /\ generation + 1 \in Generation
  BY <1>1, PilotAssumption DEF PilotInv, PilotTypeOK, Generation
<1>3. PilotTypeOK'
  <2>1. task' \in TaskState /\ generation' \in 0 .. MaxGeneration
    BY <1>1, <1>2, PilotAssumption DEF TaskState, Generation
  <2>2. (IF binding.pilot THEN binding.set ELSE None) \in (SUBSET Ref) \cup {None}
    BY DEF PilotInv, PilotTypeOK
  <2>3. claimed' \in [Generation -> (SUBSET Ref) \cup {None}]
    BY <1>1, <2>2 DEF PilotInv, PilotTypeOK
  <2>4. QED
    BY <1>1, <2>1, <2>3 DEF PilotInv, PilotTypeOK
<1>4. ClaimsPast'
  BY <1>1, <1>2 DEF PilotInv, PilotTypeOK, ClaimsPast, Generation
<1>5. CertifiedDone' /\ DoneMeansCertified'
  BY <1>1 DEF PilotInv, CertifiedDone, DoneMeansCertified
<1>6. QED
  BY <1>1, <1>3, <1>4, <1>5, DecidedBySame DEF PilotInv

LEMMA EndInv ==
  ASSUME AssuranceInv, PilotInv, Fail \/ Recover \/ Cancel
  PROVE  PilotInv'
<1>1. /\ UNCHANGED vars /\ task # "done" /\ task' # "done" /\ task' \in TaskState
      /\ UNCHANGED <<generation, binding, killed, claimed, completion>>
      /\ UNCHANGED <<context, bound, compiling, issue>>
  BY DEF Fail, Recover, Cancel, Undisturbed, gateVars, contextVars, TaskState
<1>2. PilotTypeOK'
  BY <1>1 DEF PilotInv, PilotTypeOK
<1>3. ClaimsPast' /\ CertifiedDone' /\ DoneMeansCertified'
  BY <1>1 DEF PilotInv, ClaimsPast, CertifiedDone, DoneMeansCertified
<1>4. QED
  BY <1>1, <1>2, <1>3, DecidedBySame DEF PilotInv

\* The runtime fence lets a task through only in the generation it was claimed
\* in, with a context compiled for the set of its binding.
LEMMA Fenced ==
  ASSUME PilotInv, RuntimeFence
  PROVE  /\ binding.pilot => /\ generation \in Generation
                             /\ claimed[generation] = binding.set
                             /\ bound[generation] # None
                             /\ bound[generation].set = binding.set
         /\ PilotHistory # {} => binding.pilot
<1>1. generation \in 0 .. MaxGeneration /\ ClaimsPast /\ ClaimFence
  BY DEF PilotInv, PilotTypeOK, RuntimeFence
<1>2. ASSUME binding.pilot
      PROVE  /\ generation \in Generation
             /\ claimed[generation] = binding.set
             /\ bound[generation] # None
             /\ bound[generation].set = binding.set
  <2>1. generation > 0 /\ StillBound(bound[generation])
    BY <1>2 DEF RuntimeFence
  <2>2. generation \in Generation
    BY <1>1, <2>1, PilotAssumption DEF Generation
  <2>3. claimed[generation] = binding.set
    BY <1>1, <1>2, <2>1 DEF ClaimFence
  <2>4. QED
    BY <2>1, <2>2, <2>3 DEF StillBound
<1>3. ASSUME PilotHistory # {} PROVE binding.pilot
  <2>1. PICK g \in Generation : g <= generation
    BY <1>1, <1>3 DEF PilotHistory, ClaimsPast
  <2>2. generation # 0
    BY <1>1, <2>1, PilotAssumption DEF Generation
  <2>3. QED
    BY <1>1, <1>3, <2>2 DEF ClaimFence
<1>4. QED
  BY <1>2, <1>3

\* What complete_task does to a pilot, and to another task.
LEMMA Completes ==
  ASSUME AssuranceInv, PilotInv, Complete
  PROVE  /\ task = "running" /\ task' = "done" /\ RuntimeFence
         /\ UNCHANGED vars
         /\ UNCHANGED <<generation, binding, killed, claimed, context, bound>>
         /\ UNCHANGED <<compiling, issue>>
         /\ \/ ~binding.pilot /\ UNCHANGED completion
            \/ /\ binding.pilot /\ binding.set = BuildSet /\ Assured
               /\ completion' \in [generation: Generation, set: SUBSET Ref,
                                   attempt: Nat, review: Ref]
               /\ completion'.generation = generation
               /\ completion'.set = binding.set
               /\ completion'.review \in Reviews
<1>1. /\ task = "running" /\ task' = "done" /\ RuntimeFence
      /\ UNCHANGED vars
      /\ UNCHANGED <<generation, binding, killed, claimed, context, bound>>
      /\ UNCHANGED <<compiling, issue>>
  BY DEF Complete, Undisturbed, contextVars
<1>2. CASE ~Gated /\ UNCHANGED completion
  BY <1>1, <1>2 DEF Gated
<1>3. CASE Gated /\ Assured /\ \E r \in Reviews : completion' = Certificate(r)
  <2>1. PICK r \in Reviews : completion' = Certificate(r)
    BY <1>3
  <2>2. binding.pilot /\ binding.set = BuildSet /\ generation \in Generation
    BY <1>1, <1>3, Fenced DEF Gated, Assured
  <2>3. r \in Ref /\ BuildSet \in SUBSET Ref
    BY DEF Reviews, OfKind, Approved, BuildSet
  <2>4. Len(runs) \in Nat
    BY DEF AssuranceInv, TypeOK
  <2>5. completion' \in [generation: Generation, set: SUBSET Ref,
                         attempt: Nat, review: Ref]
    BY <2>1, <2>2, <2>3, <2>4 DEF Certificate
  <2>6. QED
    BY <1>1, <1>3, <2>1, <2>2, <2>5 DEF Certificate
<1>4. QED
  BY <1>2, <1>3 DEF Complete

LEMMA CompleteInv ==
  ASSUME AssuranceInv, PilotInv, Complete
  PROVE  PilotInv'
<1>1. PilotTypeOK'
  BY Completes DEF PilotInv, PilotTypeOK, TaskState
<1>2. ClaimsPast' /\ CertifiedDone'
  BY Completes DEF PilotInv, ClaimsPast, CertifiedDone
<1>3. DoneMeansCertified'
  <2> SUFFICES ASSUME PilotHistory' # {}
               PROVE  /\ completion' # None /\ completion'.generation = generation'
                      /\ completion'.set = claimed'[generation']
                      /\ bound'[generation'] # None
                      /\ completion'.set = bound'[generation'].set
    BY DEF DoneMeansCertified
  <2>1. PilotHistory # {}
    BY Completes DEF PilotHistory
  <2>2. binding.pilot
    BY <2>1, Completes, Fenced
  <2>3. /\ completion' \in [generation: Nat, set: SUBSET Ref, attempt: Nat,
                            review: Ref]
        /\ completion'.generation = generation /\ completion'.set = binding.set
    BY <2>2, Completes DEF Generation
  <2>4. completion' # None
    BY <2>3, PilotAssumption
  <2>5. QED
    BY <2>2, <2>3, <2>4, Completes, Fenced
<1>4. QED
  BY <1>1, <1>2, <1>3, Completes, DecidedBySame DEF PilotInv

LEMMA CompileReadInv ==
  ASSUME AssuranceInv, PilotInv, NEW g \in Generation, CompileRead(g)
  PROVE  PilotInv'
<1> DEFINE Read == [pilot: BOOLEAN, snapshot: SnapshotRow \cup {None}]
           read == IF binding.pilot THEN [pilot |-> TRUE, snapshot |-> Snapshot]
                   ELSE Unread
<1>1. /\ UNCHANGED vars
      /\ UNCHANGED <<task, generation, binding, killed, claimed, completion>>
      /\ UNCHANGED <<context, bound, issue>>
      /\ binding.pilot => Decided
      /\ compiling' = [compiling EXCEPT ![g] = read]
  BY DEF CompileRead, Undisturbed, taskVars, gateVars
<1>2. read \in Read
  <2>1. binding.pilot => Snapshot \in SnapshotRow
    BY <1>1, SnapshotTyped
  <2>2. QED
    BY <2>1 DEF Unread
<1>3. compiling' \in [Generation -> Read \cup {None}]
  <2> HIDE DEF read
  <2>1. QED
    BY <1>1, <1>2 DEF PilotInv, PilotTypeOK
<1>4. PilotTypeOK' /\ Spared
  BY <1>1, <1>3 DEF PilotInv, PilotTypeOK, Spared
<1>5. QED
  BY <1>1, <1>4, SparedInv, DecidedBySame DEF PilotInv

\* A compiler that writes binds at most the generation that is running.
LEMMA Compiled ==
  ASSUME PilotInv, NEW g \in Generation, CompileWrite(g) \/ CompileLost(g)
  PROVE  /\ UNCHANGED vars
         /\ UNCHANGED <<task, generation, binding, killed, claimed, completion, issue>>
         /\ compiling' = [compiling EXCEPT ![g] = None]
         /\ \A x \in Generation :
              \/ bound'[x] = bound[x]
              \/ x = generation /\ task = "running"
         /\ bound' \in [Generation -> SnapshotRow \cup {None}]
         /\ context' \in [Generation -> {"none", "active", "superseded"}]
<1>1. /\ bound \in [Generation -> SnapshotRow \cup {None}]
      /\ context \in [Generation -> {"none", "active", "superseded"}]
      /\ compiling \in [Generation ->
           [pilot: BOOLEAN, snapshot: SnapshotRow \cup {None}] \cup {None}]
  BY DEF PilotInv, PilotTypeOK
<1>2. CASE CompileLost(g)
  BY <1>1, <1>2 DEF CompileLost, Undisturbed, taskVars, gateVars
<1>3. CASE CompileWrite(g)
  <2>1. /\ UNCHANGED vars
        /\ UNCHANGED <<task, generation, binding, killed, claimed, completion, issue>>
        /\ compiling' = [compiling EXCEPT ![g] = None]
        /\ compiling[g] # None
        /\ compiling[g].pilot => Recordable(g)
        /\ bound' = [bound EXCEPT ![g] = IF compiling[g].pilot
                                         THEN compiling[g].snapshot ELSE bound[g]]
    BY <1>3 DEF CompileWrite, Undisturbed, taskVars, gateVars
  <2>2. compiling[g].snapshot \in SnapshotRow \cup {None}
    BY <1>1, <2>1
  <2>3. context' \in [Generation -> {"none", "active", "superseded"}]
    BY <1>1, <1>3 DEF CompileWrite
  <2>4. bound' \in [Generation -> SnapshotRow \cup {None}]
    BY <1>1, <2>1, <2>2
  <2>5. CASE compiling[g].pilot
    BY <1>1, <2>1, <2>3, <2>4, <2>5 DEF Recordable
  <2>6. CASE ~compiling[g].pilot
    BY <1>1, <2>1, <2>3, <2>4, <2>6
  <2>7. QED
    BY <2>5, <2>6
<1>4. QED
  BY <1>2, <1>3

LEMMA CompileInv ==
  ASSUME PilotInv, NEW g \in Generation, CompileWrite(g) \/ CompileLost(g)
  PROVE  PilotInv'
<1>1. PilotTypeOK' /\ Spared
  BY Compiled DEF PilotInv, PilotTypeOK, Spared
<1>2. QED
  BY <1>1, Compiled, SparedInv, DecidedBySame DEF PilotInv

LEMMA PilotStepInv ==
  ASSUME AssuranceInv, PilotInv, [PilotNext]_<<vars, pilotVars>>
  PROVE  PilotInv'
<1>1. CASE Next /\ UNCHANGED pilotVars
  BY <1>1, LifecycleSpares
<1>2. CASE UNCHANGED <<vars, pilotVars>>
  BY <1>2, LifecycleSpares
<1>3. CASE TaskNext
  BY <1>3, ClaimInv, EndInv, CompleteInv DEF TaskNext
<1>4. CASE GatekeeperNext \/ \E p \in Principal : Reissue(p)
  BY <1>4, GatekeeperInv
<1>5. CASE ContextNext
  BY <1>5, CompileReadInv, CompileInv DEF ContextNext
<1>6. QED
  BY <1>1, <1>2, <1>3, <1>4, <1>5 DEF PilotNext

LEMMA PilotInvHolds == PilotSpec => [](AssuranceInv /\ PilotInv)
<1>1. PilotInit => PilotInv
  BY PilotInitInv
<1>2. AssuranceInv /\ PilotInv /\ [PilotNext]_<<vars, pilotVars>> => PilotInv'
  BY PilotStepInv
<1>3. QED
  BY <1>1, <1>2, LifecycleInv, PTL DEF PilotSpec

\* The tables of the pilot gate hold rows of their types.
THEOREM PilotTypeCorrect == PilotSpec => []PilotTypeOK
<1>1. PilotInv => PilotTypeOK
  BY DEF PilotInv
<1>2. QED
  BY <1>1, PilotInvHolds, PTL

\* A task that was ever claimed as a pilot (record_claim_binding) is done only
\* with a certificate of the generation that did the work, for the set it was
\* claimed and its context compiled for.
THEOREM DoneIsCertified == PilotSpec => []DoneMeansCertified
<1>1. PilotInv => DoneMeansCertified
  BY DEF PilotInv
<1>2. QED
  BY <1>1, PilotInvHolds, PTL

-----------------------------------------------------------------------------
(* What no step may do                                                     *)

\* Only complete_task writes a certificate.
LEMMA OnlyCompletes ==
  ASSUME [PilotNext]_<<vars, pilotVars>>, completion' # completion
  PROVE  Complete
BY DEF PilotNext, TaskNext, GatekeeperNext, ContextNext, Bind, SetKillSwitch, Claim,
   Fail, Recover, Cancel, CompileRead, CompileWrite, CompileLost, Reissue, pilotVars,
   gateVars

\* However late a compiler writes (context_compiler.py, compile), it binds no
\* generation that is over.
THEOREM LateCompilersBindNothing == PilotSpec => PastGenerationsBindNothing
<1>1. PilotInv /\ [PilotNext]_<<vars, pilotVars>>
      => [\A g \in Generation : g < generation => bound'[g] = bound[g]]_<<vars, pilotVars>>
  <2> SUFFICES ASSUME PilotInv, [PilotNext]_<<vars, pilotVars>>,
                      NEW g \in Generation, g < generation, bound'[g] # bound[g]
               PROVE  FALSE
    OBVIOUS
  <2>1. PICK x \in Generation : CompileWrite(x)
    BY DEF PilotNext, TaskNext, GatekeeperNext, ContextNext, Bind, SetKillSwitch, Claim,
       Fail, Recover, Cancel, Complete, CompileRead, CompileLost, Reissue, pilotVars,
       contextVars
  <2>2. g = generation
    BY <2>1, Compiled
  <2>3. QED
    BY <2>2 DEF Generation
<1>2. QED
  BY <1>1, PilotInvHolds, PTL DEF PilotSpec, PastGenerationsBindNothing

\* At the completion of a pilot, whoever owns or approved a part of its build or
\* its review holds the credential that the context was compiled under.
THEOREM SameAuthority == PilotSpec => SameAuthorityAtCompletion
<1>1. AssuranceInv /\ PilotInv /\ [PilotNext]_<<vars, pilotVars>>
      => [completion' # completion =>
            \A r \in completion'.set \cup {completion'.review} :
              {<<Owner[r], issue[Owner[r]]>>, <<approver[r], issue[approver[r]]>>}
                \subseteq bound[generation].principals]_<<vars, pilotVars>>
  <2> SUFFICES ASSUME AssuranceInv, PilotInv, [PilotNext]_<<vars, pilotVars>>,
                      completion' # completion,
                      NEW r \in completion'.set \cup {completion'.review}
               PROVE  {<<Owner[r], issue[Owner[r]]>>, <<approver[r], issue[approver[r]]>>}
                        \subseteq bound[generation].principals
    OBVIOUS
  <2>1. Complete
    BY OnlyCompletes
  <2>2. /\ binding.pilot /\ binding.set = BuildSet /\ RuntimeFence
        /\ completion'.set = binding.set /\ completion'.review \in Reviews
    BY <2>1, Completes
  <2>3. r \in Ref /\ artifact[r] = "approved"
    BY <2>2 DEF BuildSet, Reviews, OfKind, Approved
  <2>4. approver[r] # None
    BY <2>3 DEF AssuranceInv, ApprovalsOnRecord
  <2>5. Owner[r] \in Involved /\ approver[r] \in Involved
    BY <2>3, <2>4 DEF Involved
  <2>6. bound[generation].principals = {<<p, issue[p]>> : p \in Involved}
    BY <2>2 DEF RuntimeFence, StillBound, Snapshot
  <2>7. QED
    BY <2>5, <2>6
<1>2. QED
  BY <1>1, PilotInvHolds, PTL DEF PilotSpec, SameAuthorityAtCompletion

-----------------------------------------------------------------------------
(* PilotGate implements Certification                                      *)

Built == {r \in Ref : Kind[r] # "review_decision"}
Lost == {r \in Ref : artifact[r] \in {"superseded", "stale"}
                     /\ Kind[r] # "review_decision"}
Work == IF task = "running" THEN claimed[generation] ELSE None
Granted == IF completion = None THEN None ELSE completion.set

\* An approved version leaves only by being withdrawn, and what is withdrawn
\* stays so.
LEMMA ArtifactsMove ==
  ASSUME AssuranceInv, [Next]_vars, NEW r \in Ref
  PROVE  /\ artifact[r] = "approved"
              => artifact'[r] \in {"approved", "superseded", "stale"}
         /\ artifact[r] \in {"superseded", "stale"}
              => artifact'[r] \in {"superseded", "stale"}
<1>1. artifact \in [Ref -> ArtifactStatus] /\ ApprovalsOnRecord
  BY DEF AssuranceInv, TypeOK
<1>2. ASSUME NEW s \in Session, CommitRegister(s)
      PROVE  artifact'[r] = artifact[r] \/ artifact[r] = "absent"
  BY <1>1, <1>2 DEF CommitRegister
<1>3. ASSUME NEW s \in Session, CommitApprove(s)
      PROVE  artifact'[r] = artifact[r] \/ approver[r] = None
  BY <1>1, <1>3 DEF CommitApprove, ApprovalFree
<1>4. ASSUME NEW s \in Session, CommitSupersede(s)
      PROVE  artifact'[r] = artifact[r] \/ artifact'[r] \in {"superseded", "stale"}
  BY <1>1, <1>4 DEF CommitSupersede, AfterSupersede
<1>5. CASE UNCHANGED artifact
  BY <1>5
<1>6. CASE \E s \in Session : CommitRegister(s) \/ CommitApprove(s) \/ CommitSupersede(s)
  BY <1>1, <1>2, <1>3, <1>4, <1>6 DEF ApprovalsOnRecord
<1>7. QED
  BY <1>5, <1>6 DEF Next, SessionNext, ArtifactNext, GateNext, LifecycleNext,
     EvaluatorNext, Expire, RegisterPrincipal, Abandon, CheckRegister, CheckApprove,
     CheckSupersede, CheckGate, CheckTransition, CheckBlock, CheckResume, CheckContract,
     CheckRun, Check, CommitGate, CommitTransition, CommitBlock, CommitResume,
     CommitContract, CommitRun, Quarantine, vars, artifactVars

LEMMA ChangeRefines ==
  ASSUME AssuranceInv, [Next]_vars
  PROVE  /\ BuildSet' \subseteq Built \ Lost'
         /\ Lost \subseteq Lost' /\ BuildSet \ BuildSet' \subseteq Lost'
<1>1. BuildSet' \subseteq Built \ Lost'
  BY DEF BuildSet, Approved, Built, Lost
<1>2. Lost \subseteq Lost' /\ BuildSet \ BuildSet' \subseteq Lost'
  BY ArtifactsMove DEF BuildSet, Approved, Lost
<1>3. QED
  BY <1>1, <1>2

\* What the operations of the gate do to what Certification sees.
Stutters == UNCHANGED <<BuildSet, Lost, Work, Granted>>
Begins ==
    /\ Work = None /\ Granted = None /\ Work' = BuildSet
    /\ UNCHANGED <<BuildSet, Lost, Granted>>
Stops == Work' = None /\ UNCHANGED <<BuildSet, Lost, Granted>>
Certifies ==
    /\ Work = BuildSet /\ Granted = None /\ Granted' = Work /\ Work' = None
    /\ UNCHANGED <<BuildSet, Lost>>

\* The sets of artifacts move with the artifacts alone.
LEMMA SameSets ==
  ASSUME UNCHANGED vars
  PROVE  UNCHANGED <<BuildSet, Lost>>
BY DEF vars, artifactVars, BuildSet, Approved, Lost

LEMMA ClaimRefines ==
  ASSUME PilotInv, Claim
  PROVE  Begins \/ Stutters
<1>1. /\ UNCHANGED vars /\ task = "open" /\ task' = "running"
      /\ generation' = generation + 1 /\ generation < MaxGeneration
      /\ UNCHANGED completion /\ Anchored
      /\ claimed' = [claimed EXCEPT ![generation + 1] =
                       IF binding.pilot THEN binding.set ELSE None]
  BY DEF Claim, Undisturbed
<1>2. generation + 1 \in Generation /\ claimed \in [Generation -> (SUBSET Ref) \cup {None}]
  BY <1>1, PilotAssumption DEF PilotInv, PilotTypeOK, Generation
<1>3. Work = None /\ Granted = None /\ Granted' = None
  BY <1>1 DEF Work, Granted, PilotInv, CertifiedDone
<1>4. Work' = IF binding.pilot THEN binding.set ELSE None
  BY <1>1, <1>2 DEF Work
<1>5. UNCHANGED <<BuildSet, Lost>>
  BY <1>1, SameSets
<1>6. CASE binding.pilot
  BY <1>1, <1>3, <1>4, <1>5, <1>6 DEF Begins, Anchored
<1>7. CASE ~binding.pilot
  BY <1>3, <1>4, <1>5, <1>7 DEF Stutters
<1>8. QED
  BY <1>6, <1>7

LEMMA CompleteRefines ==
  ASSUME AssuranceInv, PilotInv, Complete
  PROVE  Certifies \/ Stops
<1>1. /\ task = "running" /\ task' = "done" /\ RuntimeFence
      /\ UNCHANGED vars /\ UNCHANGED generation
  BY Completes
<1>2. Work' = None /\ Granted = None
  BY <1>1 DEF Work, Granted, PilotInv, CertifiedDone
<1>3. UNCHANGED <<BuildSet, Lost>>
  BY <1>1, SameSets
<1>4. CASE UNCHANGED completion
  BY <1>2, <1>3, <1>4 DEF Stops, Granted
<1>5. CASE ~ UNCHANGED completion
  <2>1. /\ binding.pilot /\ binding.set = BuildSet
        /\ completion' \in [generation: Nat, set: SUBSET Ref, attempt: Nat,
                            review: Ref]
        /\ completion'.set = binding.set
    BY <1>5, Completes DEF Generation
  <2>2. completion' # None
    BY <2>1, PilotAssumption
  <2>3. Granted' = BuildSet
    BY <2>1, <2>2 DEF Granted
  <2>4. Work = BuildSet
    BY <1>1, <2>1, Fenced DEF Work
  <2>5. QED
    BY <1>2, <1>3, <2>3, <2>4 DEF Certifies
<1>6. QED
  BY <1>4, <1>5

LEMMA OthersRefine ==
  ASSUME PilotInv,
         \/ Fail \/ Recover \/ Cancel \/ GatekeeperNext \/ ContextNext
         \/ \E p \in Principal : Reissue(p)
  PROVE  Stops \/ Stutters
<1>1. UNCHANGED vars /\ UNCHANGED <<claimed, completion>>
  BY DEF Fail, Recover, Cancel, GatekeeperNext, ContextNext, Reissue, Bind,
     SetKillSwitch, CompileRead, CompileWrite, CompileLost, Undisturbed, gateVars
<1>2. UNCHANGED <<BuildSet, Lost>> /\ UNCHANGED Granted
  BY <1>1, SameSets DEF Granted
<1>3. CASE Fail \/ Recover \/ Cancel
  BY <1>2, <1>3 DEF Fail, Recover, Cancel, Stops, Work
<1>4. CASE GatekeeperNext \/ ContextNext \/ \E p \in Principal : Reissue(p)
  <2>1. UNCHANGED <<task, generation>>
    BY <1>4 DEF GatekeeperNext, ContextNext, Reissue, Bind, SetKillSwitch, CompileRead,
       CompileWrite, CompileLost, taskVars
  <2>2. QED
    BY <1>1, <1>2, <2>1 DEF Stutters, Work
<1>5. QED
  BY <1>3, <1>4

\* The pilot gate certifies a set only for the work that was started for it,
\* while it is still approved and nothing of it is withdrawn.
THEOREM GateImplementsCertification == PilotSpec => ImplementsCertification
<1>1. PilotInit => Certified!Init
  BY DEF PilotInit, Init, BuildSet, Approved, Certified!Init
<1>2. AssuranceInv /\ PilotInv /\ [PilotNext]_<<vars, pilotVars>>
      => [Certified!Next]_(Certified!vars)
  <2> SUFFICES ASSUME AssuranceInv, PilotInv, [PilotNext]_<<vars, pilotVars>>
               PROVE  [Certified!Next]_(Certified!vars)
    OBVIOUS
  <2>1. CASE (Next /\ UNCHANGED pilotVars) \/ UNCHANGED <<vars, pilotVars>>
    <3>1. UNCHANGED <<Work, Granted>>
      BY <2>1 DEF pilotVars, taskVars, gateVars, Work, Granted
    <3>2. Certified!Change
      BY <2>1, <3>1, ChangeRefines DEF Certified!Change, Built, Lost, Work, Granted
    <3>3. QED
      BY <3>2 DEF Certified!Next
  <2>2. CASE Begins
    BY <2>2 DEF Begins, Certified!Next, Certified!Begin, Lost, Work, Granted
  <2>3. CASE Stops
    BY <2>3 DEF Stops, Certified!Next, Certified!Stop, Lost, Work, Granted
  <2>4. CASE Certifies
    BY <2>4 DEF Certifies, Certified!Next, Certified!Certify, Lost, Work, Granted
  <2>5. CASE Stutters
    BY <2>5 DEF Stutters, Certified!vars, Lost, Work, Granted
  <2>6. QED
    BY <2>1, <2>2, <2>3, <2>4, <2>5, ClaimRefines, CompleteRefines, OthersRefine
       DEF PilotNext, TaskNext
<1>3. QED
  BY <1>1, <1>2, PilotInvHolds, PTL DEF PilotSpec, ImplementsCertification, Certified!Spec

=============================================================================
