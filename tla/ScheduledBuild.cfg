\* Two states of the branches, and one failure of a build or a check.
CONSTANTS
  MaxHead = 1
  MaxFaults = 1
SPECIFICATION FairSpec
INVARIANTS
  RecordedWasBuilt
  RebuiltOnlyUnrecorded
  Consistent
PROPERTIES
  NewestIsRecorded
