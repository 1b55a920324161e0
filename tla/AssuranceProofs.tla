--------------------------- MODULE AssuranceProofs ---------------------------
(* Assurance: its types, what a withdrawn artifact and an outdated decision *)
(* can never do again, the evaluator's credentials, and which reviews a     *)
(* release rests on; however the operations overlap.                        *)
EXTENDS Assurance, TLAPS

-----------------------------------------------------------------------------
(* The invariant                                                           *)

\* What a session has checked is of the kind its operation writes.
CallOK ==
    \A s \in Session :
      /\ call[s].op \in {"register", "approve", "supersede"} => call[s].what \in Ref
      /\ call[s].op \in {"approve", "gate"} => call[s].by \in Principal
      /\ call[s].op \in {"transition", "block", "resume"} => call[s].what \in Status

\* Whatever was approved, or is about to be superseded, has its approval on
\* record, and so has everything a gate decision was made on.
ApprovalsOnRecord ==
    /\ \A r \in Ref : artifact[r] \in {"approved", "superseded", "stale"}
                        => approver[r] # None
    /\ \A s \in Session : call[s].op = "supersede" => approver[call[s].what] # None
    /\ \A g \in Gate : \A r \in gates[g].set : approver[r] # None

\* No run was issued under a credential that is still to come.
RunsPast == \A i \in DOMAIN runs : runs[i].credential <= evaluator.credential

AssuranceInv ==
    TypeOK /\ CallOK /\ ApprovalsOnRecord /\ RunsPast /\ CredentialsAccounted

LEMMA Idles == Idle \in Call /\ Idle.op = "idle"
BY DEF Idle, Call

LEMMA InitInv == Init => AssuranceInv
<1> SUFFICES ASSUME Init PROVE AssuranceInv
  OBVIOUS
<1>1. TypeOK
  <2>1. ProvisionedTrail \in Seq(ArtifactStatus \X ArtifactStatus)
    BY DEF ProvisionedTrail, ArtifactStatus
  <2>2. trail \in [Ref -> Seq(ArtifactStatus \X ArtifactStatus)]
    BY <2>1 DEF Init
  <2>3. links \subseteq ArtifactId \X ArtifactId
    BY AssuranceAssumption DEF Init
  <2>4. gates \in [Gate -> GateRow]
    <3>1. NoGate \in GateRow
      BY DEF NoGate, GateRow
    <3>2. [verdict |-> "pass", set |-> Provisioned, examined |-> Provisioned,
           term |-> "none", by |-> ProvisionedBy] \in GateRow
      BY AssuranceAssumption DEF GateRow, Verdict
    <3>3. QED
      BY <3>1, <3>2 DEF Init
  <2>5. runs \in Seq(RunRow) /\ chain \in Seq(Nat)
    <3>1. EarlierRun \in RunRow
      BY DEF EarlierRun, RunRow, RunField
    <3>2. <<>> \in Seq(RunRow) /\ <<EarlierRun>> \in Seq(RunRow)
      BY <3>1
    <3>3. <<>> \in Seq(Nat) /\ <<1>> \in Seq(Nat)
      OBVIOUS
    <3>4. \/ runs = <<>> /\ chain = <<1>>
          \/ runs = <<EarlierRun>> /\ chain = <<>>
      BY Zenon DEF Init
    <3>5. QED
      BY <3>2, <3>3, <3>4
  <2>6. evaluator \in EvaluatorRow
    BY DEF Init, EvaluatorRow
  <2>7. call \in [Session -> Call]
    BY Idles DEF Init
  <2>8. status \in Status /\ resume \in Status \cup {None}
    BY AssuranceAssumption DEF Init
  <2>9. /\ artifact \in [Ref -> ArtifactStatus]
        /\ approver \in [Ref -> Principal \cup {None}]
    BY AssuranceAssumption DEF Init, ArtifactStatus
  <2>10. contract \in 0 .. 3 /\ quarantined \in BOOLEAN
    <3>1. contract = 0
      BY Zenon DEF Init
    <3>2. quarantined \in BOOLEAN
      BY Zenon DEF Init
    <3>3. QED
      BY <3>1, <3>2
  <2>11. QED
    BY <2>2, <2>3, <2>4, <2>5, <2>6, <2>7, <2>8, <2>9, <2>10 DEF TypeOK
<1>2. CallOK
  BY Idles DEF Init, CallOK
<1>3. ApprovalsOnRecord
  BY AssuranceAssumption, Idles DEF Init, ApprovalsOnRecord, NoGate
<1>4. RunsPast
  BY DEF Init, RunsPast, EarlierRun
<1>5. CredentialsAccounted
  BY DEF Init, CredentialsAccounted, EarlierRun
<1>6. QED
  BY <1>1, <1>2, <1>3, <1>4, <1>5 DEF AssuranceInv

-----------------------------------------------------------------------------
(* What a session has checked                                              *)

LEMMA CheckInv ==
  ASSUME AssuranceInv, NEW s \in Session, NEW op \in Ops,
         NEW what \in Ref \cup Gate \cup Status \cup {None},
         NEW by \in Principal \cup {None}, NEW seen \in SUBSET Ref,
         NEW token \in Nat, Check(s, op, what, by, seen, token),
         op \in {"register", "approve", "supersede"} => what \in Ref,
         op \in {"approve", "gate"} => by \in Principal,
         op \in {"transition", "block", "resume"} => what \in Status,
         op = "supersede" => approver[what] # None
  PROVE  AssuranceInv'
<1> DEFINE made == [op |-> op, what |-> what, by |-> by, seen |-> seen,
                    token |-> token]
<1>1. made \in Call
  BY DEF Call
<1>2. call' = [call EXCEPT ![s] = made] /\ call \in [Session -> Call]
  BY DEF Check, AssuranceInv, TypeOK
<1>3. UNCHANGED <<lifecycleVars, artifactVars, gates, evalVars, principalVars>>
  BY DEF Check
<1>4. TypeOK'
  BY <1>1, <1>2, <1>3
     DEF AssuranceInv, TypeOK, lifecycleVars, artifactVars, evalVars, principalVars
<1>5. CallOK'
  BY <1>2 DEF AssuranceInv, CallOK
<1>6. ApprovalsOnRecord'
  BY <1>2, <1>3 DEF AssuranceInv, ApprovalsOnRecord, artifactVars
<1>7. RunsPast' /\ CredentialsAccounted'
  BY <1>3 DEF AssuranceInv, RunsPast, CredentialsAccounted, evalVars, principalVars
<1>8. QED
  BY <1>4, <1>5, <1>6, <1>7 DEF AssuranceInv

\* The checks of a session, together.
Checks(s) ==
    \/ \E r \in Ref : CheckRegister(s, r) \/ CheckSupersede(s, r)
    \/ \E r \in Ref, p \in Principal : CheckApprove(s, r, p)
    \/ \E g \in Gate, p \in Principal : CheckGate(s, g, p)
    \/ \E t \in Status : CheckTransition(s, t)
    \/ CheckBlock(s) \/ CheckResume(s) \/ CheckContract(s) \/ CheckRun(s)

LEMMA ChecksInv ==
  ASSUME AssuranceInv, NEW s \in Session, Checks(s)
  PROVE  AssuranceInv'
<1> USE DEF Ops
<1>1. CASE \E r \in Ref : CheckRegister(s, r) \/ CheckSupersede(s, r)
  <2>1. PICK r \in Ref : CheckRegister(s, r) \/ CheckSupersede(s, r)
    BY <1>1
  <2>2. CASE CheckRegister(s, r)
    <3>1. Check(s, "register", r, Owner[r], {}, 0) /\ Owner[r] \in Principal
      BY <2>2, AssuranceAssumption DEF CheckRegister
    <3>2. QED
      BY <3>1, CheckInv
  <2>3. CASE CheckSupersede(s, r)
    <3>1. Check(s, "supersede", r, None, {}, 0) /\ approver[r] # None
      BY <2>3 DEF CheckSupersede, AssuranceInv, ApprovalsOnRecord
    <3>2. QED
      BY <3>1, CheckInv
  <2>4. QED
    BY <2>1, <2>2, <2>3
<1>2. CASE \E r \in Ref, p \in Principal : CheckApprove(s, r, p)
  <2>1. PICK r \in Ref, p \in Principal : Check(s, "approve", r, p, {}, 0)
    BY <1>2 DEF CheckApprove
  <2>2. QED
    BY <2>1, CheckInv
<1>3. CASE \E g \in Gate, p \in Principal : CheckGate(s, g, p)
  <2>1. PICK g \in Gate, p \in Principal : Check(s, "gate", g, p, Approved, 0)
    BY <1>3 DEF CheckGate
  <2>2. Approved \in SUBSET Ref
    BY DEF Approved
  <2>3. QED
    BY <2>1, <2>2, CheckInv
<1>4. CASE \E t \in Status : CheckTransition(s, t)
  <2>1. PICK t \in Status : Check(s, "transition", t, None, {}, 0)
    BY <1>4 DEF CheckTransition
  <2>2. QED
    BY <2>1, CheckInv
<1>5. CASE CheckBlock(s) \/ CheckResume(s)
  <2>1. PICK op \in {"block", "resume"}, x \in Status :
          Check(s, op, x, None, {}, 0)
    BY <1>5 DEF CheckBlock, CheckResume, AssuranceInv, TypeOK
  <2>2. QED
    BY <2>1, CheckInv
<1>6. CASE CheckContract(s) \/ CheckRun(s)
  <2>1. PICK op \in {"contract", "evaluate"} :
          Check(s, op, None, None, {}, evaluator.credential)
    BY <1>6 DEF CheckContract, CheckRun
  <2>2. evaluator.credential \in Nat
    BY DEF AssuranceInv, TypeOK, EvaluatorRow
  <2>3. QED
    BY <2>1, <2>2, CheckInv
<1>7. QED
  BY <1>1, <1>2, <1>3, <1>4, <1>5, <1>6 DEF Checks

\* Ending an operation leaves the others where they are.
Ended ==
    /\ call' \in [Session -> Call]
    /\ CallOK'
    /\ \A o \in Session : call'[o].op = "supersede" => call'[o] = call[o]

LEMMA EndedBy ==
  ASSUME AssuranceInv,
         \/ \E s \in Session : call' = [call EXCEPT ![s] = Idle]
         \/ UNCHANGED call
  PROVE  Ended
<1>1. call \in [Session -> Call] /\ CallOK
  BY DEF AssuranceInv, TypeOK
<1>2. CASE \E s \in Session : call' = [call EXCEPT ![s] = Idle]
  BY <1>1, <1>2, Idles DEF Ended, CallOK
<1>3. CASE UNCHANGED call
  BY <1>1, <1>3 DEF Ended, CallOK
<1>4. QED
  BY <1>2, <1>3

-----------------------------------------------------------------------------
(* Operations that commit                                                  *)

LEMMA LifecycleCommits ==
  ASSUME AssuranceInv, NEW s \in Session,
         \/ CommitTransition(s) \/ CommitBlock(s) \/ CommitResume(s) \/ Abandon(s)
  PROVE  AssuranceInv'
<1>1. /\ call' = [call EXCEPT ![s] = Idle]
      /\ UNCHANGED <<artifactVars, gates, evalVars, principalVars>>
  BY DEF CommitTransition, CommitBlock, CommitResume, Abandon, Commit
<1>2. Ended
  BY <1>1, EndedBy
<1>3. status' \in Status /\ resume' \in Status \cup {None}
  <2>1. status \in Status /\ resume \in Status \cup {None} /\ CallOK
    BY DEF AssuranceInv, TypeOK
  <2>2. "blocked" \in Status
    BY DEF Status
  <2>3. QED
    BY <2>1, <2>2 DEF CommitTransition, CommitBlock, CommitResume, Abandon,
       Commit, CallOK, lifecycleVars
<1>4. TypeOK'
  BY <1>1, <1>2, <1>3
     DEF Ended, AssuranceInv, TypeOK, artifactVars, evalVars, principalVars
<1>5. ApprovalsOnRecord'
  BY <1>1, <1>2 DEF Ended, AssuranceInv, ApprovalsOnRecord, artifactVars
<1>6. RunsPast' /\ CredentialsAccounted'
  BY <1>1 DEF AssuranceInv, RunsPast, CredentialsAccounted, evalVars, principalVars
<1>7. QED
  BY <1>2, <1>4, <1>5, <1>6 DEF AssuranceInv, Ended

\* A longer log is a log.
LEMMA Logged ==
  ASSUME NEW log \in Seq(ArtifactStatus \X ArtifactStatus),
         NEW from \in ArtifactStatus, NEW to \in ArtifactStatus
  PROVE  Append(log, <<from, to>>) \in Seq(ArtifactStatus \X ArtifactStatus)
<1>1. <<from, to>> \in ArtifactStatus \X ArtifactStatus
  OBVIOUS
<1>2. QED
  BY <1>1

LEMMA RegisterInv ==
  ASSUME AssuranceInv, NEW s \in Session, CommitRegister(s)
  PROVE  AssuranceInv'
<1> DEFINE r == call[s].what
<1>1. call[s].op = "register" /\ call' = [call EXCEPT ![s] = Idle] /\ r \in Ref
  BY DEF CommitRegister, Commit, AssuranceInv, CallOK
<1>2. Ended
  BY <1>1, EndedBy
<1>3. /\ artifact[r] = "absent"
      /\ artifact' = [artifact EXCEPT ![r] = "draft"]
      /\ UNCHANGED <<lifecycleVars, approver, gates, evalVars, principalVars>>
  BY DEF CommitRegister
<1>4. TypeOK'
  <2>1. trail' \in [Ref -> Seq(ArtifactStatus \X ArtifactStatus)]
    <3>1. trail \in [Ref -> Seq(ArtifactStatus \X ArtifactStatus)]
      BY DEF AssuranceInv, TypeOK
    <3>2. trail' = [trail EXCEPT ![r] = Append(trail[r], <<"absent", "draft">>)]
      BY DEF CommitRegister
    <3>3. Append(trail[r], <<"absent", "draft">>)
            \in Seq(ArtifactStatus \X ArtifactStatus)
      BY <1>1, <3>1, Logged DEF ArtifactStatus
    <3>4. QED
      BY <1>1, <3>1, <3>2, <3>3
  <2>2. links' \subseteq ArtifactId \X ArtifactId
    BY <1>1, AssuranceAssumption DEF CommitRegister, AssuranceInv, TypeOK
  <2>3. artifact' \in [Ref -> ArtifactStatus]
    BY <1>1, <1>3 DEF AssuranceInv, TypeOK, ArtifactStatus
  <2>4. QED
    BY <1>2, <1>3, <2>1, <2>2, <2>3
       DEF Ended, AssuranceInv, TypeOK, lifecycleVars, evalVars, principalVars
<1>5. ApprovalsOnRecord'
  BY <1>1, <1>2, <1>3 DEF Ended, AssuranceInv, TypeOK, ApprovalsOnRecord
<1>6. RunsPast' /\ CredentialsAccounted'
  BY <1>3 DEF AssuranceInv, RunsPast, CredentialsAccounted, evalVars, principalVars
<1>7. QED
  BY <1>2, <1>4, <1>5, <1>6 DEF AssuranceInv, Ended

LEMMA ApproveInv ==
  ASSUME AssuranceInv, NEW s \in Session, CommitApprove(s)
  PROVE  AssuranceInv'
<1> DEFINE r == call[s].what
<1>1. /\ call[s].op = "approve" /\ call' = [call EXCEPT ![s] = Idle]
      /\ r \in Ref /\ call[s].by \in Principal
  BY DEF CommitApprove, Commit, AssuranceInv, CallOK
<1>2. Ended
  BY <1>1, EndedBy
<1>3. /\ artifact' = [artifact EXCEPT ![r] = "approved"]
      /\ approver' = [approver EXCEPT ![r] = call[s].by]
      /\ UNCHANGED <<lifecycleVars, links, gates, evalVars, principalVars>>
  BY DEF CommitApprove
<1>4. TypeOK'
  <2>1. trail' \in [Ref -> Seq(ArtifactStatus \X ArtifactStatus)]
    <3>1. trail \in [Ref -> Seq(ArtifactStatus \X ArtifactStatus)]
      BY DEF AssuranceInv, TypeOK
    <3>2. trail' = [trail EXCEPT ![r] = Append(trail[r], <<"draft", "approved">>)]
      BY DEF CommitApprove
    <3>3. Append(trail[r], <<"draft", "approved">>)
            \in Seq(ArtifactStatus \X ArtifactStatus)
      BY <1>1, <3>1, Logged DEF ArtifactStatus
    <3>4. QED
      BY <1>1, <3>1, <3>2, <3>3
  <2>2. artifact' \in [Ref -> ArtifactStatus]
    BY <1>1, <1>3 DEF AssuranceInv, TypeOK, ArtifactStatus
  <2>3. approver' \in [Ref -> Principal \cup {None}]
    BY <1>1, <1>3 DEF AssuranceInv, TypeOK
  <2>4. QED
    BY <1>2, <1>3, <2>1, <2>2, <2>3
       DEF Ended, AssuranceInv, TypeOK, lifecycleVars, evalVars, principalVars
<1>5. ApprovalsOnRecord'
  <2>1. \A x \in Ref : approver[x] # None \/ x = r => approver'[x] # None
    BY <1>1, <1>3, AssuranceAssumption DEF AssuranceInv, TypeOK
  <2>2. \A x \in Ref : x # r => artifact'[x] = artifact[x]
    BY <1>3 DEF AssuranceInv, TypeOK
  <2>3. \A g \in Gate : gates[g].set \subseteq Ref
    BY DEF AssuranceInv, TypeOK, GateRow
  <2>4. \A o \in Session : call[o].op = "supersede" => call[o].what \in Ref
    BY DEF AssuranceInv, CallOK
  <2>5. QED
    BY <1>2, <1>3, <2>1, <2>2, <2>3, <2>4 DEF Ended, AssuranceInv, ApprovalsOnRecord
<1>6. RunsPast' /\ CredentialsAccounted'
  BY <1>3 DEF AssuranceInv, RunsPast, CredentialsAccounted, evalVars, principalVars
<1>7. QED
  BY <1>2, <1>4, <1>5, <1>6 DEF AssuranceInv, Ended

\* What supersede_artifact withdraws was approved, apart from the version it
\* was asked for, and every link leads on to more of it.
LEMMA Outdated ==
  ASSUME NEW r \in Ref
  PROVE  AfterSupersede(r) =
           [x \in Ref |-> IF x = r THEN "superseded"
                          ELSE IF x \in Approved /\ Id[x] \in Dependents(Id[r])
                          THEN "stale" ELSE artifact[x]]
BY DEF AfterSupersede

LEMMA LinksLeadOn ==
  ASSUME NEW a, NEW l \in links, l[1] = a \/ l[1] \in Dependents(a), l[2] # a
  PROVE  l[2] \in Dependents(a)
<1> DEFINE linked == {e[2] : e \in links}
           Closed(S) == \A e \in links : e[1] \in S \cup {a} => e[2] \in S
<1>1. Dependents(a) = {b \in linked : \A S \in SUBSET linked : Closed(S) => b \in S} \ {a}
  BY DEF Dependents
<1>2. ASSUME NEW S \in SUBSET linked, Closed(S) PROVE l[2] \in S
  <2>1. l[1] \in S \cup {a}
    BY <1>1, <1>2
  <2>2. QED
    BY <1>2, <2>1
<1>3. l[2] \in linked
  OBVIOUS
<1>4. QED
  BY <1>1, <1>2, <1>3

LEMMA SupersedeInv ==
  ASSUME AssuranceInv, NEW s \in Session, CommitSupersede(s)
  PROVE  AssuranceInv'
<1> DEFINE r == call[s].what
<1>1. call[s].op = "supersede" /\ call' = [call EXCEPT ![s] = Idle] /\ r \in Ref
  BY DEF CommitSupersede, Commit, AssuranceInv, CallOK
<1>2. Ended
  BY <1>1, EndedBy
<1>3. /\ artifact' = [x \in Ref |-> IF x = r THEN "superseded"
                        ELSE IF x \in Approved /\ Id[x] \in Dependents(Id[r])
                        THEN "stale" ELSE artifact[x]]
      /\ UNCHANGED <<lifecycleVars, approver, links, gates, evalVars, principalVars>>
  BY <1>1, Outdated DEF CommitSupersede
<1>4. TypeOK'
  <2>1. artifact' \in [Ref -> ArtifactStatus]
    BY <1>3 DEF AssuranceInv, TypeOK, ArtifactStatus
  <2>2. trail' \in [Ref -> Seq(ArtifactStatus \X ArtifactStatus)]
    <3>1. trail \in [Ref -> Seq(ArtifactStatus \X ArtifactStatus)]
      BY DEF AssuranceInv, TypeOK
    <3>2. trail' = [x \in Ref |-> IF x = r \/ artifact'[x] # artifact[x]
                                  THEN Append(trail[x], <<"approved", artifact'[x]>>)
                                  ELSE trail[x]]
      BY DEF CommitSupersede
    <3>3. ASSUME NEW x \in Ref
          PROVE  Append(trail[x], <<"approved", artifact'[x]>>)
                   \in Seq(ArtifactStatus \X ArtifactStatus)
      <4>1. "approved" \in ArtifactStatus /\ artifact'[x] \in ArtifactStatus
        BY <2>1 DEF ArtifactStatus
      <4>2. QED
        BY <3>1, <4>1, Logged
    <3>4. QED
      BY <3>1, <3>2, <3>3
  <2>3. QED
    BY <1>2, <1>3, <2>1, <2>2
       DEF Ended, AssuranceInv, TypeOK, lifecycleVars, evalVars, principalVars
<1>5. ApprovalsOnRecord'
  <2>1. approver[r] # None
    BY <1>1 DEF AssuranceInv, ApprovalsOnRecord
  <2>2. \A x \in Approved : approver[x] # None
    BY DEF AssuranceInv, ApprovalsOnRecord, Approved
  <2> HIDE DEF r
  <2>3. \A x \in Ref : artifact'[x] \in {"approved", "superseded", "stale"}
                         => approver[x] # None
    BY <1>3, <2>1, <2>2 DEF AssuranceInv, ApprovalsOnRecord
  <2>4. QED
    BY <1>2, <1>3, <2>3 DEF Ended, AssuranceInv, ApprovalsOnRecord
<1>6. RunsPast' /\ CredentialsAccounted'
  BY <1>3 DEF AssuranceInv, RunsPast, CredentialsAccounted, evalVars, principalVars
<1>7. QED
  BY <1>2, <1>4, <1>5, <1>6 DEF AssuranceInv, Ended

\* A gate decision is made on what is approved as it is written, so on
\* versions whose approval is on record.
LEMMA GateInv ==
  ASSUME AssuranceInv,
         \/ \E s \in Session, v \in Verdict : CommitGate(s, v)
         \/ \E g \in Gate : Expire(g)
  PROVE  AssuranceInv'
<1>1. /\ UNCHANGED <<lifecycleVars, artifactVars, evalVars, principalVars>>
      /\ \/ \E s \in Session : call' = [call EXCEPT ![s] = Idle]
         \/ UNCHANGED call
  BY DEF CommitGate, Commit, Expire
<1>2. Ended
  BY <1>1, EndedBy
<1>3. /\ gates' \in [Gate -> GateRow]
      /\ \A g \in Gate : gates'[g].set = gates[g].set \/ gates'[g].set = Approved
  <2>1. gates \in [Gate -> GateRow]
    BY DEF AssuranceInv, TypeOK
  <2>2. CASE \E s \in Session, v \in Verdict : CommitGate(s, v)
    <3>1. PICK s \in Session, v \in Verdict : CommitGate(s, v)
      BY <2>2
    <3> DEFINE row == [verdict |-> v, set |-> Approved,
                       examined |-> call[s].seen,
                       term |-> IF v = "pass_with_conditions" THEN "running"
                                ELSE "none",
                       by |-> call[s].by]
    <3>2. gates' = [gates EXCEPT ![call[s].what] = row]
      BY <3>1 DEF CommitGate
    <3>3. row \in GateRow
      BY <3>1 DEF GateRow, Approved, CommitGate, Commit, AssuranceInv, TypeOK, Call
    <3>4. QED
      BY <2>1, <3>2, <3>3
  <2>3. CASE \E g \in Gate : Expire(g)
    <3>1. PICK g \in Gate : gates' = [gates EXCEPT ![g].term = "over"]
      BY <2>3 DEF Expire
    <3>2. QED
      BY <2>1, <3>1 DEF GateRow
  <2>4. QED
    BY <2>2, <2>3
<1>4. TypeOK'
  BY <1>1, <1>2, <1>3
     DEF Ended, AssuranceInv, TypeOK, lifecycleVars, artifactVars, evalVars, principalVars
<1>5. ApprovalsOnRecord'
  BY <1>1, <1>2, <1>3
     DEF Ended, AssuranceInv, ApprovalsOnRecord, Approved, artifactVars
<1>6. RunsPast' /\ CredentialsAccounted'
  BY <1>1 DEF AssuranceInv, RunsPast, CredentialsAccounted, evalVars, principalVars
<1>7. QED
  BY <1>2, <1>4, <1>5, <1>6 DEF AssuranceInv, Ended

LEMMA RegisterPrincipalInv ==
  ASSUME AssuranceInv, NEW role \in {"evaluator", "other"}, RegisterPrincipal(role)
  PROVE  AssuranceInv'
<1> DEFINE c == evaluator.credential + 1
<1>1. /\ evaluator' = [role |-> role, credential |-> c]
      /\ chain' = IF role = "evaluator" THEN Append(chain, c) ELSE chain
      /\ UNCHANGED <<lifecycleVars, artifactVars, gates, evalVars, call>>
  BY DEF RegisterPrincipal, ChainAfter
<1>2. evaluator.credential \in Nat /\ chain \in Seq(Nat) /\ runs \in Seq(RunRow)
  BY DEF AssuranceInv, TypeOK, EvaluatorRow
<1>3. TypeOK'
  BY <1>1, <1>2
     DEF AssuranceInv, TypeOK, EvaluatorRow, lifecycleVars, artifactVars, evalVars
<1>4. CallOK' /\ ApprovalsOnRecord'
  BY <1>1 DEF AssuranceInv, CallOK, ApprovalsOnRecord, artifactVars
<1>5. RunsPast'
  <2>1. \A i \in DOMAIN runs : runs[i] \in RunRow
    BY <1>2
  <2>2. \A i \in DOMAIN runs : runs[i].credential \in Nat
    BY <2>1 DEF RunRow
  <2>3. runs' = runs
    BY <1>1 DEF evalVars
  <2>4. QED
    BY <1>1, <1>2, <2>2, <2>3 DEF AssuranceInv, RunsPast
<1>6. CredentialsAccounted'
  <2>1. runs' = runs
    BY <1>1 DEF evalVars
  <2>2. \A k \in DOMAIN chain : k \in DOMAIN chain' /\ chain'[k] = chain[k]
    BY <1>1, <1>2
  <2>3. role = "evaluator" => chain'[Len(chain')] = evaluator'.credential
    BY <1>1, <1>2
  <2>4. QED
    BY <1>1, <2>1, <2>2, <2>3 DEF AssuranceInv, CredentialsAccounted
<1>7. QED
  BY <1>3, <1>4, <1>5, <1>6 DEF AssuranceInv

\* Whoever writes under the current credential finds it at the end of the chain,
\* or begins the chain with it.
LEMMA Provenanced ==
  ASSUME AssuranceInv, Provenance
  PROVE  /\ UNCHANGED evaluator
         /\ chain' \in Seq(Nat) /\ chain' # <<>>
         /\ chain'[Len(chain')] = evaluator.credential
         /\ \A k \in DOMAIN chain : k \in DOMAIN chain' /\ chain'[k] = chain[k]
<1>1. evaluator.credential \in Nat /\ chain \in Seq(Nat)
  BY DEF AssuranceInv, TypeOK, EvaluatorRow
<1>2. QED
  BY <1>1 DEF Provenance

LEMMA ContractInv ==
  ASSUME AssuranceInv, NEW s \in Session, NEW n \in Budgets, CommitContract(s, n)
  PROVE  AssuranceInv'
<1>1. /\ call' = [call EXCEPT ![s] = Idle] /\ Provenance /\ contract' = n
      /\ UNCHANGED <<lifecycleVars, artifactVars, gates, runs, quarantined>>
  BY DEF CommitContract, Commit, ContractFor
<1>2. Ended /\ n \in 0 .. 3
  <2>1. Ended
    BY <1>1, EndedBy
  <2>2. n \in 0 .. 3
    BY AssuranceAssumption
  <2>3. QED
    BY <2>1, <2>2
<1>3. TypeOK'
  BY <1>1, <1>2, Provenanced
     DEF Ended, AssuranceInv, TypeOK, lifecycleVars, artifactVars
<1>4. ApprovalsOnRecord'
  BY <1>1, <1>2 DEF Ended, AssuranceInv, ApprovalsOnRecord, artifactVars
<1>5. RunsPast'
  BY <1>1, Provenanced DEF AssuranceInv, RunsPast
<1>6. CredentialsAccounted'
  BY <1>1, Provenanced DEF AssuranceInv, CredentialsAccounted
<1>7. QED
  BY <1>2, <1>3, <1>4, <1>5, <1>6 DEF AssuranceInv, Ended

LEMMA RunInv ==
  ASSUME AssuranceInv, NEW s \in Session, NEW n \in Budgets,
         NEW o \in {"completed", "failed"}, CommitRun(s, n, o)
  PROVE  AssuranceInv'
<1> DEFINE run == [status |-> o, signed |-> IntegrityFields,
                   credential |-> evaluator.credential]
<1>1. /\ call' = [call EXCEPT ![s] = Idle] /\ Provenance /\ contract' = n
      /\ runs' = Append(runs, run)
      /\ UNCHANGED <<lifecycleVars, artifactVars, gates, quarantined>>
  BY DEF CommitRun, Commit, ContractFor
<1>2. Ended /\ n \in 0 .. 3
  <2>1. Ended
    BY <1>1, EndedBy
  <2>2. n \in 0 .. 3
    BY AssuranceAssumption
  <2>3. QED
    BY <2>1, <2>2
<1>3. run \in RunRow /\ runs \in Seq(RunRow) /\ evaluator.credential \in Nat
  BY DEF RunRow, RunField, IntegrityFields, AssuranceInv, TypeOK, EvaluatorRow
<1>4. /\ runs' \in Seq(RunRow)
      /\ DOMAIN runs' = DOMAIN runs \cup {Len(runs) + 1}
      /\ \A i \in DOMAIN runs : runs'[i] = runs[i] /\ i \in Nat /\ i <= Len(runs)
      /\ runs'[Len(runs) + 1] = run /\ Len(runs) \in Nat
  <2> HIDE DEF run
  <2>1. QED
    BY <1>1, <1>3
<1>5. TypeOK'
  BY <1>1, <1>2, <1>4, Provenanced
     DEF Ended, AssuranceInv, TypeOK, lifecycleVars, artifactVars
<1>6. ApprovalsOnRecord'
  BY <1>1, <1>2 DEF Ended, AssuranceInv, ApprovalsOnRecord, artifactVars
<1>7. RunsPast'
  <2>1. \A i \in DOMAIN runs : runs[i].credential <= evaluator.credential
    BY DEF AssuranceInv, RunsPast
  <2>2. QED
    BY <1>1, <1>3, <1>4, <2>1, Provenanced DEF RunsPast
<1>8. CredentialsAccounted'
  <2>1. Len(chain') \in DOMAIN chain' /\ chain'[Len(chain')] = run.credential
    BY <1>1, Provenanced
  <2>2. \A i \in DOMAIN runs : runs[i].credential <= run.credential
    BY DEF AssuranceInv, RunsPast
  <2>3. evaluator'.role = "evaluator" /\ chain' # <<>> =>
          chain'[Len(chain')] = evaluator'.credential
    BY <1>1, Provenanced
  <2>4. ASSUME NEW i \in DOMAIN runs', "provenance" \in runs'[i].signed
        PROVE  \E k \in DOMAIN chain' : chain'[k] = runs'[i].credential
    BY <1>1, <1>4, <2>1, <2>4, Provenanced DEF AssuranceInv, CredentialsAccounted
  <2>5. ASSUME NEW i \in DOMAIN runs', NEW j \in DOMAIN runs',
               "provenance" \in runs'[i].signed, i <= j
        PROVE  runs'[i].credential <= runs'[j].credential
    <3>1. CASE j \in DOMAIN runs
      BY <1>4, <2>5, <3>1 DEF AssuranceInv, CredentialsAccounted
    <3>2. CASE j = Len(runs) + 1
      BY <1>3, <1>4, <2>2, <3>2
    <3>3. QED
      BY <1>4, <3>1, <3>2
  <2>6. QED
    BY <2>3, <2>4, <2>5 DEF CredentialsAccounted
<1>9. QED
  BY <1>2, <1>5, <1>6, <1>7, <1>8 DEF AssuranceInv, Ended

LEMMA QuarantineInv ==
  ASSUME AssuranceInv, NEW s \in Session, Quarantine(s)
  PROVE  AssuranceInv'
<1>1. UNCHANGED <<lifecycleVars, artifactVars, gates, contract, runs,
                  principalVars, call>>
  BY DEF Quarantine
<1>2. quarantined' \in BOOLEAN
  BY Zenon DEF Quarantine
<1>3. TypeOK'
  BY <1>1, <1>2 DEF AssuranceInv, TypeOK, lifecycleVars, artifactVars, principalVars
<1>4. CallOK' /\ ApprovalsOnRecord'
  BY <1>1 DEF AssuranceInv, CallOK, ApprovalsOnRecord, artifactVars
<1>5. RunsPast' /\ CredentialsAccounted'
  BY <1>1 DEF AssuranceInv, RunsPast, CredentialsAccounted, principalVars
<1>6. QED
  BY <1>3, <1>4, <1>5 DEF AssuranceInv

-----------------------------------------------------------------------------
(* Every step                                                              *)

LEMMA StepInv == AssuranceInv /\ [Next]_vars => AssuranceInv'
<1> SUFFICES ASSUME AssuranceInv, [Next]_vars PROVE AssuranceInv'
  OBVIOUS
<1>1. ASSUME NEW s \in Session, ArtifactNext(s) PROVE AssuranceInv'
  BY <1>1, ChecksInv, RegisterInv, ApproveInv, SupersedeInv DEF ArtifactNext, Checks
<1>2. ASSUME NEW s \in Session, GateNext(s) PROVE AssuranceInv'
  BY <1>2, ChecksInv, GateInv DEF GateNext, Checks
<1>3. ASSUME NEW s \in Session, LifecycleNext(s) PROVE AssuranceInv'
  BY <1>3, ChecksInv, LifecycleCommits DEF LifecycleNext, Checks
<1>4. ASSUME NEW s \in Session, EvaluatorNext(s) PROVE AssuranceInv'
  BY <1>4, ChecksInv, ContractInv, RunInv, QuarantineInv DEF EvaluatorNext, Checks
<1>5. ASSUME NEW s \in Session, Abandon(s) PROVE AssuranceInv'
  BY <1>5, LifecycleCommits
<1>6. ASSUME NEW g \in Gate, Expire(g) PROVE AssuranceInv'
  BY <1>6, GateInv
<1>7. ASSUME NEW role \in {"evaluator", "other"}, RegisterPrincipal(role)
      PROVE  AssuranceInv'
  BY <1>7, RegisterPrincipalInv
<1>8. CASE UNCHANGED vars
  <2>1. UNCHANGED <<lifecycleVars, artifactVars, gates, evalVars, principalVars>>
        /\ UNCHANGED call
    BY <1>8 DEF vars
  <2>2. TypeOK'
    <3>1. /\ UNCHANGED <<status, resume, artifact, trail, approver, links>>
          /\ UNCHANGED <<contract, runs, quarantined, evaluator, chain, gates, call>>
      BY <2>1 DEF lifecycleVars, artifactVars, evalVars, principalVars
    <3>2. QED
      BY <3>1 DEF AssuranceInv, TypeOK
  <2>3. CallOK' /\ ApprovalsOnRecord'
    BY <2>1 DEF AssuranceInv, CallOK, ApprovalsOnRecord, artifactVars
  <2>4. RunsPast' /\ CredentialsAccounted'
    BY <2>1 DEF AssuranceInv, RunsPast, CredentialsAccounted, evalVars, principalVars
  <2>5. QED
    BY <2>2, <2>3, <2>4 DEF AssuranceInv
<1>9. QED
  BY <1>1, <1>2, <1>3, <1>4, <1>5, <1>6, <1>7, <1>8 DEF Next, SessionNext

LEMMA InvHolds == Spec => []AssuranceInv
<1>1. Init => AssuranceInv
  BY InitInv
<1>2. AssuranceInv /\ [Next]_vars => AssuranceInv'
  BY StepInv
<1>3. QED
  BY <1>1, <1>2, PTL DEF Spec

\* The tables of the assurance schema hold rows of their types, whatever
\* operations of assurance.py and trusted_evaluator.py overlap.
THEOREM AssuranceTypeCorrect == Spec => []TypeOK
<1>1. AssuranceInv => TypeOK
  BY DEF AssuranceInv
<1>2. QED
  BY <1>1, InvHolds, PTL

\* However the evaluator's principal is registered, taken away and registered
\* again (assurance.py, register_principal), it is never refused for a rotation
\* that is not on record, and every run was issued under a credential of the
\* chain, later runs under later ones.
THEOREM CredentialsStayAccounted == Spec => []CredentialsAccounted
<1>1. AssuranceInv => CredentialsAccounted
  BY DEF AssuranceInv
<1>2. QED
  BY <1>1, InvHolds, PTL

-----------------------------------------------------------------------------
(* An artifact is approved once                                            *)

\* Only register_artifact, approve_artifact and supersede_artifact write a status.
LEMMA StatusWritten ==
  ASSUME [Next]_vars, artifact' # artifact
  PROVE  \E s \in Session : CommitRegister(s) \/ CommitApprove(s) \/ CommitSupersede(s)
BY DEF Next, SessionNext, ArtifactNext, GateNext, LifecycleNext, EvaluatorNext,
   Expire, RegisterPrincipal, Abandon, CheckRegister, CheckApprove, CheckSupersede,
   CheckGate, CheckTransition, CheckBlock, CheckResume, CheckContract, CheckRun,
   Check, CommitGate, CommitTransition, CommitBlock, CommitResume, CommitContract,
   CommitRun, Quarantine, vars, artifactVars

\* The primary key of assurance_artifact_approvals: what becomes approved had
\* no approval on record, and an approval stays on record.
LEMMA ApprovedOnce ==
  ASSUME AssuranceInv, [Next]_vars, NEW r \in Ref,
         artifact[r] # "approved", artifact'[r] = "approved"
  PROVE  approver[r] = None
<1>1. PICK s \in Session : CommitRegister(s) \/ CommitApprove(s) \/ CommitSupersede(s)
  BY StatusWritten
<1>2. artifact \in [Ref -> ArtifactStatus]
  BY DEF AssuranceInv, TypeOK
<1>3. ~ CommitRegister(s)
  BY <1>2 DEF CommitRegister
<1>4. ~ CommitSupersede(s)
  <2>1. SUFFICES ASSUME CommitSupersede(s) PROVE FALSE
    OBVIOUS
  <2>2. call[s].what \in Ref
    BY <2>1 DEF CommitSupersede, Commit, AssuranceInv, CallOK
  <2>3. QED
    BY <1>2, <2>1, <2>2, Outdated DEF CommitSupersede
<1>5. CASE CommitApprove(s)
  BY <1>2, <1>5 DEF CommitApprove, ApprovalFree
<1>6. QED
  BY <1>1, <1>3, <1>4, <1>5

\* A version that was superseded or went stale is never approved again, not even
\* by an approve_artifact that had checked it while it was a draft.
THEOREM WithdrawnStaysWithdrawn == Spec => WithdrawnForGood
<1>1. AssuranceInv /\ [Next]_vars
      => [\A r \in Ref : artifact[r] \in {"superseded", "stale"}
                           => artifact'[r] # "approved"]_vars
  <2> SUFFICES ASSUME AssuranceInv, [Next]_vars, NEW r \in Ref,
                      artifact[r] \in {"superseded", "stale"},
                      artifact'[r] = "approved"
               PROVE  FALSE
    OBVIOUS
  <2>1. approver[r] # None
    BY DEF AssuranceInv, ApprovalsOnRecord
  <2>2. QED
    BY <2>1, ApprovedOnce
<1>2. QED
  BY <1>1, InvHolds, PTL DEF Spec, WithdrawnForGood

\* A gate decision that lost an artifact it reviewed never opens its gate again:
\* the digest that _gate_passed compares can only be matched by a new decision.
THEOREM OutdatedStaysOutdated == Spec => OutdatedForGood
<1>1. AssuranceInv /\ [Next]_vars
      => [\A g \in Gate : gates'[g] = gates[g] /\ GateOpen(g)'
                            => gates[g].set \subseteq Approved]_vars
  <2> SUFFICES ASSUME AssuranceInv, [Next]_vars, NEW g \in Gate,
                      gates'[g] = gates[g], GateOpen(g)',
                      ~ gates[g].set \subseteq Approved
               PROVE  FALSE
    OBVIOUS
  <2>1. gates[g].set \subseteq Ref
    BY DEF AssuranceInv, TypeOK, GateRow
  <2>2. PICK r \in Ref : r \in gates[g].set /\ artifact[r] # "approved"
    BY <2>1 DEF Approved
  <2>3. approver[r] # None
    BY <2>2 DEF AssuranceInv, ApprovalsOnRecord
  <2>4. artifact'[r] = "approved"
    BY <2>2 DEF GateOpen, Approved
  <2>5. QED
    BY <2>2, <2>3, <2>4, ApprovedOnce
<1>2. QED
  BY <1>1, InvHolds, PTL DEF Spec, OutdatedForGood

\* supersede_artifact walks assurance_links to the end: whatever it withdraws, no
\* link leads on from there to a version that is still approved, however its
\* check and its commit are overtaken.  Only another version of the artifact it
\* was asked for is passed over.
THEOREM WithdrawalReachesAll == Spec => WithdrawalSpreads
<1>1. AssuranceInv /\ [Next]_vars
      => [\A r \in Approved : artifact'[r] \in {"superseded", "stale"} =>
          \A x \in Ref :
            /\ <<Id[r], Id[x]>> \in links
            /\ \A s \in Session : call[s].op = "supersede" /\ call'[s].op = "idle"
                                    => Id[call[s].what] # Id[x]
            => artifact'[x] # "approved"]_vars
  <2> SUFFICES ASSUME AssuranceInv, [Next]_vars, NEW r \in Approved, NEW x \in Ref,
                      artifact'[r] \in {"superseded", "stale"},
                      <<Id[r], Id[x]>> \in links,
                      \A s \in Session :
                        call[s].op = "supersede" /\ call'[s].op = "idle"
                          => Id[call[s].what] # Id[x],
                      artifact'[x] = "approved"
               PROVE  FALSE
    OBVIOUS
  <2>1. /\ artifact \in [Ref -> ArtifactStatus] /\ call \in [Session -> Call]
        /\ r \in Ref /\ artifact[r] = "approved"
    BY DEF AssuranceInv, TypeOK, Approved
  <2>2. PICK s \in Session : CommitRegister(s) \/ CommitApprove(s) \/ CommitSupersede(s)
    BY <2>1, StatusWritten
  <2>3. CommitSupersede(s)
    BY <2>1, <2>2 DEF CommitRegister, CommitApprove
  <2>4. PICK root \in Ref : root = call[s].what
    BY <2>3 DEF CommitSupersede, Commit, AssuranceInv, CallOK
  <2>5. artifact' = [y \in Ref |-> IF y = root THEN "superseded"
                       ELSE IF y \in Approved /\ Id[y] \in Dependents(Id[root])
                       THEN "stale" ELSE artifact[y]]
    BY <2>3, <2>4, Outdated DEF CommitSupersede
  <2>6. Id[root] # Id[x]
    <3>1. call[s].op = "supersede" /\ call'[s].op = "idle"
      BY <2>1, <2>3, Idles DEF CommitSupersede, Commit
    <3>2. QED
      BY <2>4, <3>1
  <2>7. Id[r] = Id[root] \/ Id[r] \in Dependents(Id[root])
    BY <2>1, <2>5
  <2>8. Id[x] \in Dependents(Id[root])
    BY <2>6, <2>7, LinksLeadOn
  <2>9. QED
    BY <2>5, <2>6, <2>8 DEF Approved
<1>2. QED
  BY <1>1, InvHolds, PTL DEF Spec, WithdrawalSpreads

-----------------------------------------------------------------------------
(* The reviews a release rests on                                          *)
(*                                                                         *)
(* The gates passed before the history starts saw affirmative reviews.      *)

ReviewsIn(S) == {r \in S : Kind[r] = "review_decision"}
EarlierReviews ==
    Passed \cap ReviewGates # {} => ReviewsIn(Provisioned) \subseteq Affirmative

\* What the checks of record_gate saw was affirmative; so was what a decision
\* that passes was checked on, whatever was approved before it was written.
SeenAffirmative ==
    /\ \A g \in ReviewGates : gates[g].verdict \in Passing
                                => ReviewsIn(gates[g].examined) \subseteq Affirmative
    /\ \A s \in Session : call[s].op = "gate" /\ call[s].what \in ReviewGates
                            => ReviewsIn(call[s].seen) \subseteq Affirmative

LEMMA ReviewsInApproved == Reviews = ReviewsIn(Approved)
BY DEF Reviews, OfKind, ReviewsIn

LEMMA SeenInit == EarlierReviews /\ Init => SeenAffirmative
<1> SUFFICES ASSUME EarlierReviews, Init PROVE SeenAffirmative
  OBVIOUS
<1>1. ASSUME NEW g \in ReviewGates, gates[g].verdict \in Passing
      PROVE  ReviewsIn(gates[g].examined) \subseteq Affirmative
  <2>1. g \in Gate
    BY DEF ReviewGates, Gate
  <2>2. g \in Passed /\ gates[g].examined = Provisioned
    BY <1>1, <2>1 DEF Init, NoGate, Passing
  <2>3. QED
    BY <2>2 DEF EarlierReviews
<1>2. \A s \in Session : call[s].op = "idle"
  BY Idles DEF Init
<1>3. QED
  BY <1>1, <1>2 DEF SeenAffirmative

\* A call of a session that is new was begun by that session's check.
LEMMA Began ==
  ASSUME AssuranceInv, [Next]_vars, NEW s \in Session,
         call'[s].op \in {"gate", "transition"}, call'[s] # call[s]
  PROVE  /\ UNCHANGED <<artifact, gates>>
         /\ call'[s].op = "gate" =>
              \E g \in Gate, p \in Principal :
                CheckGate(s, g, p) /\ call'[s].what = g /\ call'[s].seen = Approved
         /\ call'[s].op = "transition" =>
              \E t \in Status : CheckTransition(s, t) /\ call'[s].what = t
<1>1. call \in [Session -> Call]
  BY DEF AssuranceInv, TypeOK
<1>2. ASSUME NEW o \in Session, call' = [call EXCEPT ![o] = Idle] PROVE FALSE
  BY <1>1, <1>2, Idles
<1>3. PICK o \in Session : Checks(o)
  <2>1. ASSUME NEW o \in Session,
             \/ CommitRegister(o) \/ CommitApprove(o) \/ CommitSupersede(o)
             \/ CommitBlock(o) \/ CommitResume(o) \/ CommitTransition(o)
             \/ \E v \in Verdict : CommitGate(o, v)
             \/ \E n \in Budgets : CommitContract(o, n)
             \/ \E n \in Budgets, x \in {"completed", "failed"} : CommitRun(o, n, x)
             \/ Abandon(o)
        PROVE FALSE
    BY <1>2, <2>1 DEF CommitRegister, CommitApprove, CommitSupersede, CommitBlock,
       CommitResume, CommitTransition, CommitGate, CommitContract, CommitRun, Commit,
       Abandon
  <2>2. call' # call
    OBVIOUS
  <2>3. /\ \A g \in Gate : ~ Expire(g)
        /\ \A role \in {"evaluator", "other"} : ~ RegisterPrincipal(role)
        /\ \A o \in Session : ~ Quarantine(o)
    BY <2>2 DEF Expire, RegisterPrincipal, Quarantine
  <2>4. QED
    BY <2>1, <2>2, <2>3 DEF Next, SessionNext, ArtifactNext, GateNext, LifecycleNext,
       EvaluatorNext, Checks, vars
<1>4. /\ UNCHANGED <<artifact, gates>>
      /\ o = s
  BY <1>1, <1>3 DEF Checks, CheckRegister, CheckApprove, CheckSupersede, CheckGate,
     CheckTransition, CheckBlock, CheckResume, CheckContract, CheckRun, Check,
     artifactVars
<1>5. \/ \E g \in Gate, p \in Principal : CheckGate(s, g, p) /\ call'[s].what = g
                                          /\ call'[s].seen = Approved
                                          /\ call'[s].op = "gate"
      \/ \E t \in Status : CheckTransition(s, t) /\ call'[s].what = t
                           /\ call'[s].op = "transition"
      \/ call'[s].op \notin {"gate", "transition"}
  BY <1>1, <1>3, <1>4 DEF Checks, CheckRegister, CheckApprove, CheckSupersede,
     CheckGate, CheckTransition, CheckBlock, CheckResume, CheckContract, CheckRun, Check
<1>6. QED
  BY <1>4, <1>5

LEMMA SeenStep ==
  ASSUME AssuranceInv, SeenAffirmative, [Next]_vars
  PROVE  SeenAffirmative'
<1>1. ASSUME NEW g \in ReviewGates, gates'[g].verdict \in Passing
      PROVE  ReviewsIn(gates'[g].examined) \subseteq Affirmative
  <2>1. gates \in [Gate -> GateRow] /\ g \in Gate
    BY DEF AssuranceInv, TypeOK, ReviewGates, Gate
  <2>2. CASE \E s \in Session, v \in Verdict : CommitGate(s, v)
    <3>1. PICK s \in Session, v \in Verdict : CommitGate(s, v)
      BY <2>2
    <3>2. call[s].op = "gate"
      BY <3>1 DEF CommitGate, Commit
    <3>3. CASE g = call[s].what
      <4>1. gates'[g].examined = call[s].seen
        BY <2>1, <3>1, <3>3 DEF CommitGate
      <4>2. QED
        BY <3>2, <3>3, <4>1 DEF SeenAffirmative
    <3>4. CASE g # call[s].what
      <4>1. gates'[g] = gates[g]
        BY <2>1, <3>1, <3>4 DEF CommitGate
      <4>2. QED
        BY <1>1, <4>1 DEF SeenAffirmative
    <3>5. QED
      BY <3>3, <3>4
  <2>3. CASE \E h \in Gate : Expire(h)
    <3>1. PICK h \in Gate : gates' = [gates EXCEPT ![h].term = "over"]
      BY <2>3 DEF Expire
    <3>2. gates'[g].verdict = gates[g].verdict /\ gates'[g].examined = gates[g].examined
      BY <2>1, <3>1 DEF GateRow
    <3>3. QED
      BY <1>1, <3>2 DEF SeenAffirmative
  <2>4. CASE UNCHANGED gates
    BY <1>1, <2>4 DEF SeenAffirmative
  <2>5. QED
    BY <2>2, <2>3, <2>4 DEF Next, SessionNext, ArtifactNext, GateNext, LifecycleNext,
       EvaluatorNext, RegisterPrincipal, Abandon, CheckRegister, CheckApprove,
       CheckSupersede, CheckGate, CheckTransition, CheckBlock, CheckResume,
       CheckContract, CheckRun, Check, CommitRegister, CommitApprove, CommitSupersede,
       CommitTransition, CommitBlock, CommitResume, CommitContract, CommitRun,
       Quarantine, vars
<1>2. ASSUME NEW s \in Session,
             call'[s].op = "gate", call'[s].what \in ReviewGates
      PROVE  ReviewsIn(call'[s].seen) \subseteq Affirmative
  <2>1. CASE call'[s] = call[s]
    BY <1>2, <2>1 DEF SeenAffirmative
  <2>2. CASE call'[s] # call[s]
    <3>1. PICK g \in Gate, p \in Principal :
            CheckGate(s, g, p) /\ call'[s].what = g /\ call'[s].seen = Approved
      BY <1>2, <2>2, Began
    <3>2. Reviews \subseteq Affirmative
      BY <1>2, <3>1 DEF CheckGate, ReviewsAffirmative
    <3>3. QED
      BY <3>1, <3>2, ReviewsInApproved
  <2>3. QED
    BY <2>1, <2>2
<1>3. QED
  BY <1>1, <1>2 DEF SeenAffirmative

\* However the operations overlap, transition finds a release or closing gate
\* open over a negative review only if the review was approved while the gate's
\* decision was being recorded: between the checks of record_gate and the digest
\* it stores.
THEOREM ReleasesRestOnReviews ==
  ASSUME EarlierReviews
  PROVE  Spec => ReleasedOnExaminedReviews
<1>1. AssuranceInv /\ SeenAffirmative /\ [Next]_vars => SeenAffirmative'
  BY SeenStep
<1>2. AssuranceInv /\ SeenAffirmative /\ [Next]_vars
      => [\A s \in Session, target \in DOMAIN GateForTarget :
            /\ call[s].op = "idle" /\ call'[s].op = "transition"
            /\ call'[s].what = target /\ GateForTarget[target] \in ReviewGates
            => Reviews \ Affirmative
                 \subseteq gates[GateForTarget[target]].set
                           \ gates[GateForTarget[target]].examined]_vars
  <2> SUFFICES ASSUME AssuranceInv, SeenAffirmative, [Next]_vars, NEW s \in Session,
                      NEW target \in DOMAIN GateForTarget,
                      call[s].op = "idle", call'[s].op = "transition",
                      call'[s].what = target, GateForTarget[target] \in ReviewGates
               PROVE  Reviews \ Affirmative
                        \subseteq gates[GateForTarget[target]].set
                                  \ gates[GateForTarget[target]].examined
    OBVIOUS
  <2>1. CheckTransition(s, target)
    BY Began
  <2>2. PICK g \in ReviewGates : g = GateForTarget[target]
    OBVIOUS
  <2>3. gates[g].verdict \in Passing /\ gates[g].set = Approved
    BY <2>1, <2>2 DEF CheckTransition, GateOpen
  <2>4. ReviewsIn(gates[g].examined) \subseteq Affirmative
    BY <2>3 DEF SeenAffirmative
  <2>5. Reviews \ Affirmative \subseteq gates[g].set \ gates[g].examined
    BY <2>3, <2>4, ReviewsInApproved DEF ReviewsIn
  <2>6. QED
    BY <2>2, <2>5
<1>3. Init => SeenAffirmative
  BY SeenInit
<1>4. QED
  BY <1>1, <1>2, <1>3, InvHolds, PTL DEF Spec, ReleasedOnExaminedReviews

=============================================================================
