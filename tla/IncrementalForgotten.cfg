\* A fixed version, and the build after one with a tolerated failure.
CONSTANTS
  N = 3
  DependsOn <- Chain
  Required = {1}
  ContinueOnError = TRUE
  Dashboards = FALSE
  MaxCommit = 1
  MaxVersion = 0
SPECIFICATION Spec
INVARIANTS
  ReportedManifestIsFresh
