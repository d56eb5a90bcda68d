SPECIFICATION RunSpec
CONSTANTS
  N = 4
  Layouts <- MCLayouts
  Plans <- MCPlans
INVARIANTS ReadyWhenYielded CleanAfterSuccess LeaksAreExplained VerdictCoversThePlan
PROPERTY FreshMachine
CHECK_DEADLOCK FALSE
