\* Three components, two workers, the second component required.
CONSTANTS
  N = 3
  MaxWorkers = 2
  Required = {2}
  DependsOn <- AnyManifest
SPECIFICATION FairSpec
PROPERTIES
  AlwaysEnds
CHECK_DEADLOCK FALSE
