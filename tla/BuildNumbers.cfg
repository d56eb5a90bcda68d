\* A test run that a distribution build called, then one that was dispatched.
SPECIFICATION NumbersSpec
CHECK_DEADLOCK FALSE
CONSTANTS
  WorkflowFiles <- MCWorkflowFiles
  Jobs <- MCJobs
  JobWorkflows <- MCJobWorkflows
  CallerLanes <- MCCallerLanes
  Legs = {"tar"}
  RunsSoFar = {0}
  MaxCiRuns = 2
  MaxRunAttempts = 1
INVARIANTS
  LatestRunIsRead
