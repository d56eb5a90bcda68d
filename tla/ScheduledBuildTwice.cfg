\* One state of the branches and one check that dies.
CONSTANTS
  MaxHead = 0
  MaxFaults = 1
SPECIFICATION Spec
INVARIANTS
  QueuedRunFindsOrRetries
