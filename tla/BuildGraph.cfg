\* Four components, two workers; every manifest over them, with and without
\* --continue-on-error. The second component is a required one.
CONSTANTS
  N = 4
  MaxWorkers = 2
  Required = {2}
  DependsOn <- AnyManifest
SPECIFICATION FairSpec
INVARIANTS
  TypeOK
  DependenciesBuiltFirst
  ReturnedListIsSound
  Consistent
  TakenInDependencyOrder
PROPERTIES
  ImplementsDependencyBuild
  EndsUnlessOrphaned
\* The call may really stop: a finished call, or the orphaned worker.
CHECK_DEADLOCK FALSE
