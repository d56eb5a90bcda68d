\* Incremental builds after the version of the input manifest was incremented.
CONSTANTS
  N = 2
  DependsOn <- Chain
  Required = {1, 2}
  ContinueOnError = FALSE
  Dashboards = FALSE
  MaxCommit = 0
  MaxVersion = 1
SPECIFICATION Spec
PROPERTIES
  UnchangedInputIsSkipped
