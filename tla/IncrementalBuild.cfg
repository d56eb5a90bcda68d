\* The core engine and three plugins, the last two on top of one another; a
\* failure of the third component is tolerated, and the version of the input
\* manifest moves.
CONSTANTS
  N = 4
  DependsOn <- Chain
  Required = {1, 2, 4}
  ContinueOnError = TRUE
  Dashboards = FALSE
  MaxCommit = 1
  MaxVersion = 1
SPECIFICATION Spec
INVARIANTS
  ReportedInputIsBuilt
  StaleOnlyByFailure
PROPERTIES
  UnmodifiedComponentsStay
  UnchangedVersionIsSkipped
