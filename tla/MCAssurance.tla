---------------------------- MODULE MCAssurance ----------------------------
(* A small instance of Assurance for TLC: the six artifacts of the         *)
(* bootstrap initiative, a release decision and two reviews to come.       *)
EXTENDS Assurance, TLC

CONSTANTS s1, s2

Refs == {"goal", "design", "spec", "eval", "baseline", "manifest",
         "praise", "blame", "release"}
Id1 == [r \in Refs |-> r]
Kinds == [goal |-> "goal_contract", design |-> "design_record",
          spec |-> "behavior_spec", eval |-> "eval_contract",
          baseline |-> "baseline_report", manifest |-> "design_manifest",
          praise |-> "review_decision", blame |-> "review_decision",
          release |-> "release_decision"]
Owners == [r \in Refs |-> IF r \in {"praise", "blame"} THEN "reader" ELSE "author"]
Legacy == {"goal", "design", "spec", "eval", "baseline", "manifest"}
Covered == [r \in Refs |-> IF r = "manifest" THEN Legacy \ {r} ELSE {}]
Approvals == Legacy \cup {"release"}
\* The links of the bootstrap manifest.
Governs == [r \in Refs |-> IF r # "manifest" THEN {} ELSE
              {<<"goal", "design">>, <<"design", "spec">>, <<"spec", "eval">>,
               <<"eval", "baseline">>}]
BindsFirst == [r \in Refs |-> IF r = "praise" THEN {1} ELSE {}]
FirstGates == {"G0", "G1", "G2", "G3", "G4"}
\* From the evaluation to a conditional release, without the ways back.
ReleasePath == {"release_candidate", "release_decision",
                "release_approved_conditional"}
\* One session keeps the artifacts and the lifecycle, the other evaluates;
\* both approve.
Shares == s1 :> {"register", "approve", "supersede", "gate", "transition",
                 "block", "resume"}
          @@ s2 :> {"approve", "evaluate", "contract", "quarantine"}
\* An operator who blocks and resumes.
Blocks == s1 :> {"block", "resume"} @@ s2 :> {}
=============================================================================
