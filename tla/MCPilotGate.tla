---------------------------- MODULE MCPilotGate ----------------------------
(* A small instance of PilotGate for TLC: a build of six artifacts and one *)
(* review of the first evaluation.                                         *)
EXTENDS PilotGate, TLC

CONSTANTS s1

Refs == {"goal", "design", "spec", "eval", "baseline", "manifest", "praise"}
Id1 == [r \in Refs |-> r]
Kinds == [goal |-> "goal_contract", design |-> "design_record",
          spec |-> "behavior_spec", eval |-> "eval_contract",
          baseline |-> "baseline_report", manifest |-> "design_manifest",
          praise |-> "review_decision"]
Owners == [r \in Refs |-> IF r = "praise" THEN "reader" ELSE "author"]
Built == Refs \ {"praise"}
Covered == [r \in Refs |-> IF r = "manifest" THEN Built \ {r} ELSE {}]
\* The links of the bootstrap manifest.
Governs == [r \in Refs |-> IF r # "manifest" THEN {} ELSE
              {<<"goal", "design">>, <<"design", "spec">>, <<"spec", "eval">>,
               <<"eval", "baseline">>}]
BindsFirst == [r \in Refs |-> IF r = "praise" THEN {1} ELSE {}]
BindsBuild == [r \in Refs |-> IF r = "praise" THEN Built ELSE {}]
BuildGates == {"G0", "G1", "G2", "G3", "G4"}
Shares == s1 :> {"register", "approve", "supersede", "evaluate", "block", "resume"}

\* A gate decision may follow the review.
Remedies == s1 :> {"register", "approve", "evaluate", "gate"}
=============================================================================
