INIT WorkflowsInit
NEXT WorkflowsNext
CHECK_DEADLOCK FALSE
CONSTANTS
  Components <- MCComponents
  RepositoryOf <- MCRepositoryOf
  ProductOf <- MCProductOf
  Unbundled = {}
  Unlocked = {"ftosd"}
  MaxCommit = 1
  MaxSurprises = 2
  MaxDispatches = 2
  RepoTypes = {"yum"}
  Distributions = {"zip"}
  MaxAttempts = 3
  PromotionRuns = {1, 2}
  PromotionInputs <- MCPromotionInputs
  ChoreComponents <- MCChoreComponents
  Maintainers = {"m1"}
  NoIssue = {"core"}
  MaxBuilds = 3
  MaxNotes = 2
  MaxChores = 2
  Listed = {"c1"}
  CiGroups = {"g"}
  Cells = {"tar"}
  QuerySize = 1
  MaxTestRuns = 2
  MaxNotifications = 2
  MaxMishaps = 1
  Families <- MCFamilies
  Branches <- MCBranches
  MinorOf <- MCMinorOf
  FirstVersion <- MCFirstVersion
  LastVersion <- MCLastVersion
  MaxRuns = 2
  MaxEdits = 2
  BenchRequests <- MCBenchRequests
  MaxBenchAttempts = 2
  ValidationRequests <- MCValidationRequests
  MaxValidations = 2
  SignRequests <- MCSignRequests
  TypeOf <- MCTypeOf
  MaxSignings = 3
  MaxRebuilds = 1
  NotesComponents <- MCNotesComponents
  NotesRepo <- MCNotesRepo
  HasChangelog = {"core"}
  CoreComponents = {"core", "notiCore"}
  CommitsOf <- MCCommitsOf
  PushedTo <- MCPushedTo
  MessageOf <- MCMessageOf
  PullsOf <- MCPullsOf
  PullRequests = {"1", "2"}
  FilteredPRs = {"1"}
  PageSize = 2
  Workers = 2
  MaxRetries = 1
  WorkflowFiles <- MCWorkflowFiles
  Jobs <- MCJobs
  JobWorkflows <- MCJobWorkflows
  CallerLanes <- MCCallerLanes
  Legs = {"tar"}
  RunsSoFar = {0, 899998}
  MaxCiRuns = 2
  MaxRunAttempts = 2
INVARIANTS
  NumbersAreOwn
  TaggedAsPlanned
  LockedTagsExist
  ImagesFollowPackages
  EveryoneIsTold
  CandidatesFollowSuccess
  NotesArrive
  FailuresAreReported
  VersionsAreScheduledOnce
  StacksAreExplained
  PassesAreTrue
  SignedAsAsked
  NotesAreExact
PROPERTIES
  RefsNeverMove
  MavenIsLast
  ClosedOnlyWhenPassed
