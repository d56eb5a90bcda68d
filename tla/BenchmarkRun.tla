---------------------------- MODULE BenchmarkRun ----------------------------
(***************************************************************************)
(* A benchmark run: the rows of benchmark_test.py expand(), the job of     *)
(* each row (_benchmark-run.yml) and the CloudFormation stacks its         *)
(* `test.sh benchmark-test` creates, tests and destroys                    *)
(* (test_workflow/benchmark_test), with failures at every step, jobs that  *)
(* are cancelled, and runs that are started again.  `test.sh` is also run  *)
(* by hand, with a suffix for its stacks or without one.                   *)
(***************************************************************************)
EXTENDS Naturals, Sequences, FiniteSets, SequencesExt

CONSTANTS
  BenchRequests,     \* what a run may ask for: see BenchRequest
  MaxBenchAttempts   \* bound: attempts of one run

(* suffix: the stacks get a suffix; the workflow has one for each row and  *)
(* attempt, by hand it may be left out.  bundle: a bundle manifest names   *)
(* what is tested (and security, whether it holds the security plugin);    *)
(* endpoint: the cluster exists already; ccr: two clusters that replicate, *)
(* which only `test.sh` offers.                                            *)
BenchRequest == [suffix : BOOLEAN, bundle : BOOLEAN, security : BOOLEAN,
                 preserve : BOOLEAN, endpoint : BOOLEAN, ccr : BOOLEAN]

ASSUME BenchmarkAssumption ==
  BenchRequests \subseteq BenchRequest /\ MaxBenchAttempts \in Nat

VARIABLES
  request,  \* what was asked for: <<>> or one request
  attempt,  \* the attempt of the run
  jobs,     \* the jobs of the rows: see NewJob
  stacks,   \* the CloudFormation stacks there are
  kept,     \* those left on purpose
  leaked    \* those that could not be deleted

benchVars == <<request, attempt, jobs, stacks, kept, leaked>>

Asked == request[1]

(* The runs that are not the workflow's.                                   *)
ByTestSh == Asked.ccr \/ ~Asked.suffix

(* level: the cluster contexts entered; executions: of the benchmark, and  *)
(* whether the last one passed.                                            *)
NewJob(a) ==
  [attempt |-> a, phase |-> "setup", level |-> 0, executions |-> 0, passed |-> FALSE,
   ok |-> TRUE]

(* expand(): a bundle with security is tested with it and without.         *)
MatrixRows(q) == {"insecure"} \cup (IF q.bundle /\ q.security THEN {"secure"} ELSE {})

BenchInit ==
  /\ request = <<>> /\ attempt = 0
  /\ jobs = [r \in {} |-> NewJob(0)]
  /\ stacks = {} /\ kept = {} /\ leaked = {}

ResolveRun(q) ==
  /\ request = <<>>
  /\ request' = <<q>> /\ attempt' = 1
  /\ jobs' = [r \in MatrixRows(q) |-> NewJob(1)]
  /\ UNCHANGED <<stacks, kept, leaked>>

JobOver(r) == jobs[r].phase = "over"

(* Starting the whole run again resolves it again, with other suffixes;    *)
(* starting a failed job again keeps its suffix.                           *)
RerunAll ==
  /\ request # <<>> /\ \A r \in DOMAIN jobs : JobOver(r)
  /\ attempt < MaxBenchAttempts /\ attempt' = attempt + 1
  /\ jobs' = [r \in DOMAIN jobs |-> NewJob(attempt')]
  /\ UNCHANGED <<request, stacks, kept, leaked>>

RerunBenchJob(r) ==
  /\ JobOver(r) /\ ~jobs[r].ok
  /\ attempt < MaxBenchAttempts /\ attempt' = attempt + 1
  /\ jobs' = [jobs EXCEPT ![r] = NewJob(@.attempt)]
  /\ UNCHANGED <<request, stacks, kept, leaked>>

-----------------------------------------------------------------------------
(* What follows the name of the cdk app's stack: the suffix the job was    *)
(* given, or the word None.                                                *)
Suffix(r) ==
  IF Asked.suffix THEN [attempt |-> jobs[r].attempt, row |-> r]
  ELSE [attempt |-> 0, row |-> "None"]

NoSuffix == [attempt |-> 0, row |-> ""]

(* BenchmarkCreateCluster.stack_name: the suffix, the role of the cluster, *)
(* and the build if there is a manifest; of the app's stacks, the cluster. *)
StackName(r, role) ==
  [suffix |-> Suffix(r), role |-> role, build |-> Asked.bundle, part |-> "infra"]

Roles == IF Asked.ccr THEN <<"leader", "follower">> ELSE <<"only">>

StacksOf(r) == {StackName(r, Roles[i]) : i \in 1 .. jobs[r].level}

(* setup_cdk_params(): what cdk is told.  Nothing stands for a suffix that *)
(* was not given; with a role after it, the word None is a suffix.         *)
DeployedName(r, role) ==
  IF Asked.suffix \/ role # "only" THEN StackName(r, role)
  ELSE [StackName(r, role) EXCEPT !.suffix = NoSuffix]

(* cdk deploy "*": the cluster, and what else the app has.                 *)
AppStacks(r, role) ==
  {[DeployedName(r, role) EXCEPT !.part = p] : p \in {"infra", "other"}}

(* form_command(): the clusters the benchmark addresses; the others are    *)
(* not created by the job.                                                 *)
TargetHosts(r) ==
  IF Asked.endpoint THEN {} ELSE {DeployedName(r, Roles[i]) : i \in DOMAIN Roles}

Goto(r, phase) == jobs' = [jobs EXCEPT ![r].phase = phase]
Unwind(r) == jobs' = [jobs EXCEPT ![r].phase = "destroy", ![r].ok = FALSE]

(* A request to a cluster, which is tried three times.                     *)
Request(r, phase) ==
  /\ Goto(r, phase) \/ Unwind(r)
  /\ UNCHANGED <<request, attempt, stacks, kept, leaked>>

(* Up to the clone of opensearch-cluster-cdk.                              *)
SetUpJob(r) ==
  /\ jobs[r].phase = "setup"
  /\ \/ Goto(r, IF Asked.endpoint THEN "ask" ELSE "deploy")
     \/ Unwind(r)
  /\ UNCHANGED <<request, attempt, stacks, kept, leaked>>

(* A given cluster is asked for its version.                               *)
AskCluster(r) == jobs[r].phase = "ask" /\ Request(r, "health")

(* When the deployment fails, its stacks may be there.                     *)
DeployStack(r) ==
  LET role  == Roles[jobs[r].level + 1]
      stack == DeployedName(r, role) IN
  /\ jobs[r].phase = "deploy"
  /\ \E ok \in BOOLEAN :
       /\ jobs' = [jobs EXCEPT ![r].level = @ + 1, ![r].ok = ok,
                               ![r].phase = IF ok THEN "endpoint" ELSE "destroy"]
       /\ \E made \in SUBSET AppStacks(r, role) :
            (ok => made = AppStacks(r, role)) /\ stacks' = stacks \cup made
  /\ leaked' = leaked \ {stack} /\ kept' = kept \ {stack}
  /\ UNCHANGED <<request, attempt>>

(* The outputs are looked up by the name of the stack.                     *)
CreateEndpoint(r) ==
  LET role == Roles[jobs[r].level] IN
  /\ jobs[r].phase = "endpoint"
  /\ \/ StackName(r, role) = DeployedName(r, role) /\ Goto(r, "health")
     \/ Unwind(r)
  /\ UNCHANGED <<request, attempt, stacks, kept, leaked>>

(* wait_for_processing(): any answer will do.                              *)
AwaitCluster(r) ==
  jobs[r].phase = "health" /\
    Request(r, IF Asked.ccr /\ ~Asked.endpoint THEN "seed" ELSE "test")

FetchSeedNode(r) == jobs[r].phase = "seed" /\ Request(r, "settings")

(* The leader's settings are applied before there is a follower, those     *)
(* that refer to the other cluster's seed node once both are up.           *)
ApplyLeaderSettings(r) ==
  /\ jobs[r].phase = "settings" /\ jobs[r].level < Len(Roles)
  /\ Goto(r, "deploy")
  /\ UNCHANGED <<request, attempt, stacks, kept, leaked>>

ApplyFollowerSettings(r) ==
  jobs[r].phase = "settings" /\ jobs[r].level = Len(Roles) /\ Request(r, "reverse")

ApplyReverseSettings(r) == jobs[r].phase = "reverse" /\ Request(r, "test")

(* execute(), three times at most: the run, the copy of its results when   *)
(* no bundle is tested, and the removal of the container in any case.      *)
RunBenchmark(r) ==
  /\ jobs[r].phase = "test"
  /\ \E passed \in BOOLEAN :
       jobs' = [jobs EXCEPT ![r].executions = @ + 1, ![r].passed = passed,
                            ![r].phase = IF passed /\ ~Asked.bundle THEN "convert" ELSE "remove"]
  /\ UNCHANGED <<request, attempt, stacks, kept, leaked>>

Convert(r) ==
  /\ jobs[r].phase = "convert"
  /\ \E passed \in BOOLEAN :
       jobs' = [jobs EXCEPT ![r].passed = passed, ![r].phase = "remove"]
  /\ UNCHANGED <<request, attempt, stacks, kept, leaked>>

RemoveContainer(r) ==
  /\ jobs[r].phase = "remove"
  /\ \E removed \in BOOLEAN :
       \/ jobs[r].passed /\ removed /\ Goto(r, "destroy")
       \/ ~(jobs[r].passed /\ removed) /\
            IF jobs[r].executions < 3 THEN Goto(r, "test") ELSE Unwind(r)
  /\ UNCHANGED <<request, attempt, stacks, kept, leaked>>

(* The contexts are left from the inside out, whatever fails in them.      *)
LeaveContext(r) ==
  LET stack == StackName(r, Roles[jobs[r].level]) IN
  /\ jobs[r].phase = "destroy" /\ jobs[r].level > 0
  /\ \/ /\ Asked.preserve
        /\ kept' = kept \cup {stack}
        /\ jobs' = [jobs EXCEPT ![r].level = @ - 1]
        /\ UNCHANGED <<stacks, leaked>>
     \/ /\ ~Asked.preserve
        /\ stacks' = stacks \ {stack}
        /\ jobs' = [jobs EXCEPT ![r].level = @ - 1]
        /\ UNCHANGED <<kept, leaked>>
     \/ /\ ~Asked.preserve
        /\ leaked' = leaked \cup {stack}
        /\ jobs' = [jobs EXCEPT ![r].level = @ - 1, ![r].ok = FALSE]
        /\ UNCHANGED <<stacks, kept>>
  /\ UNCHANGED <<request, attempt>>

EndBenchJob(r) ==
  /\ jobs[r].phase = "destroy" /\ jobs[r].level = 0
  /\ Goto(r, "over")
  /\ UNCHANGED <<request, attempt, stacks, kept, leaked>>

-----------------------------------------------------------------------------
(* A job of the workflow that is cancelled is killed, and its last step    *)
(* deletes the stack; `test.sh` by hand unwinds.                           *)
CancelJob(r) ==
  /\ jobs[r].phase \notin {"cleanup", "over"}
  /\ IF ByTestSh THEN jobs[r].phase # "destroy" /\ Unwind(r)
     ELSE jobs' = [jobs EXCEPT ![r].phase = "cleanup", ![r].ok = FALSE]
  /\ UNCHANGED <<request, attempt, stacks, kept, leaked>>

(* Fault: the stack of a bundle is looked for without its build.           *)
StackNamesOfSuffix(r) == {[StackName(r, "only") EXCEPT !.build = FALSE]}

(* stack_names()                                                           *)
StackNames(r) == {StackName(r, "only")}

DeleteStacks(r) ==
  /\ jobs[r].phase = "cleanup"
  /\ \/ UNCHANGED leaked
        /\ stacks' = IF Asked.endpoint THEN stacks ELSE stacks \ StackNames(r)
     \/ /\ ~Asked.endpoint
        /\ leaked' = leaked \cup StackNames(r)
        /\ UNCHANGED stacks
  /\ jobs' = [jobs EXCEPT ![r].phase = "over", ![r].level = 0]
  /\ UNCHANGED <<request, attempt, kept>>

BenchNext ==
  \/ \E q \in BenchRequests : ResolveRun(q)
  \/ RerunAll
  \/ \E r \in DOMAIN jobs :
       \/ RerunBenchJob(r) \/ SetUpJob(r) \/ AskCluster(r) \/ DeployStack(r)
       \/ CreateEndpoint(r) \/ AwaitCluster(r) \/ FetchSeedNode(r)
       \/ ApplyLeaderSettings(r) \/ ApplyFollowerSettings(r) \/ ApplyReverseSettings(r)
       \/ RunBenchmark(r) \/ Convert(r) \/ RemoveContainer(r)
       \/ LeaveContext(r) \/ EndBenchJob(r)
       \/ CancelJob(r) \/ DeleteStacks(r)

BenchSpec == BenchInit /\ [][BenchNext]_benchVars

-----------------------------------------------------------------------------
(* Whatever fails, is cancelled or is started again: a cluster's stack     *)
(* outlives its job only when it was asked to be preserved, its deletion   *)
(* failed, or no suffix was given, as the clean-up then names another      *)
(* stack; the other stacks of the app no clean-up names.  With a suffix,   *)
(* no job loses the clusters it works on to another job's clean-up.        *)
StacksAreExplained ==
  /\ \A s \in stacks :
       \/ s \in kept \cup leaked \cup UNION {StacksOf(r) : r \in DOMAIN jobs}
       \/ s.suffix = NoSuffix /\ ~Asked.suffix
       \/ s.part = "other"
  /\ \A r \in DOMAIN jobs :
       jobs[r].phase = "test" /\ Asked.suffix => TargetHosts(r) \subseteq stacks

=============================================================================
