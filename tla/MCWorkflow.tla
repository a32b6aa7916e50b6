------------------------------ MODULE MCWorkflow ------------------------------
(* Instances of Workflow for TLC. *)
EXTENDS Workflow, TLC

CONSTANTS a, b

TwoScenarios == (a :> "scenario") @@ (b :> "scenario")
BothLanes    == (a :> "scenario") @@ (b :> "flat")

Same   == {<<w, w>> : w \in Work}
\* "lead-1" is found in the inbox line of "lead-12"
Prefix == Same \cup {<<a, b>>}

NoPast == <<>>
\* main has a test(red) already
EarlierRed == <<[work |-> None, kind |-> "red", named |-> FALSE]>>
GreenOnly == {<<>>, <<"green">>}
TestFirst == {<<"red", "green">>}
=============================================================================
