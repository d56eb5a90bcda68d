--------------------------- MODULE MCBuildNumbers ---------------------------
(* The integration tests, dispatched on their own, called by a             *)
(* distribution build, or called by a workflow that has no lane.           *)
EXTENDS BuildNumbers

MCJobs == {"integ-test"}
OwnTests == "integ-test-opensearch.yml"
Caller == "distribution-build-opensearch.yml"
MCWorkflowFiles == {OwnTests, Caller, "without-lane.yml"}

MCJobWorkflows == [j \in MCJobs |-> OwnTests]
MCCallerLanes == [w \in {Caller} |-> 1]
=============================================================================
