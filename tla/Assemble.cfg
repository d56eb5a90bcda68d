\* Three components, two workers, two artifacts per build.
CONSTANTS
  N = 3
  MaxWorkers = 2
  Required = {2}
  Artifacts = 2
  DependsOn <- AnyManifest
  Archive <- ArchiveIndex
SPECIFICATION AssembleSpec
INVARIANTS
  ManifestInDependencyOrder
  WrittenManifestIsComplete
  InstallOrderSuffices
  NothingSilentlyMissing
\* A run ends, or stops in an orphaned worker.
CHECK_DEADLOCK FALSE
