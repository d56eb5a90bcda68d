# A TLA+ verification of opensearch-build

`opensearch-build` builds, assembles, tests, signs and releases the OpenSearch
and OpenSearch Dashboards distributions. This directory models the parts of it
where the order of events, failures or concurrency decide whether the result
is right. All paths below are relative to the repository.

## 1. The system

| component | code | state it keeps | operations | interacts with |
|---|---|---|---|---|
| Parallel build scheduler | `src/build_workflow/build_graph.py` | dependency sets, `failed`, `completed_event`, `lock`, the thread pool's queue | `add_component`, `execute_parallel` | called by the build run, calls `build_fn` from worker threads |
| Build run and recorder | `src/run_build.py`, `build_recorder.py`, `builder_from_source.py` | `components_hash`, artifacts on disk, `failed_plugins` | core build, component builds, `record_component`, `record_artifact`, `write_manifest` | shares one recorder between threads; writes the build manifest |
| Incremental builds | `build_incremental.py`, `run_build.py` | the previous build manifest | `commits_diff`, `rebuild_plugins`, build with the previous manifest | upstream repositories, which move |
| Assembly | `src/run_assemble.py`, `src/assemble_workflow` | unpacked distribution, bundle manifest | `install_min`, `install_components`, `package` | reads the build manifest, calls the plugin CLI |
| Local test clusters | `src/test_workflow/test_cluster.py`, `integ_test/service.py`, `topology.py`, `src/system/process.py` | processes, installed distributions, the clusters a context manager knows | `create`, `create_cluster`, `start`, `wait_for_service`, `terminate`, `destroy` | service processes; the test runner |
| Scheduled builds | `.github/workflows/_scheduled-build.yml`, `actions/manifest-sha`, `dispatch_and_watch.sh`, `scheduled_builds.py` | recorded manifest SHAs, the concurrency group | lock, look-up, dispatch, watch, record | the dispatched build workflow, GitHub |
| Integration test runner | `src/run_integ_test.py`, `integ_test/integ_test_runner.py`, `integ_test_suite*.py`, `test_recorder` | results, yml reports, the exit status | the loop over components and configurations | `TestCluster`, the component repositories, the metrics |
| Release refs and manifest lock | `src/release_git_workflow`, `run_release_*.py`, `release-branch.yml`, `release-tag.yml`, `release-manifest-commit-lock.yml` | branches and tags of the component repositories, saved plans, the lock pull request | plan, approve, apply, rerun, lock, merge | GitHub, maintainers, builds |
| Release promotion | `.github/scripts/release_promotion*.py`, `release-promotion.yml` | results of the jobs, production buckets and repositories, image tags | validate, promote, publish, copy images, invalidate, dispatch to Maven | S3, registries, CloudFront, Maven Central |
| Release chores | `.github/scripts/release_chores.py` | release issues, candidate builds, notes pull requests | owners, notify, build-rc, rc-details, release notes | the metrics index, GitHub |
| Test results and failure issues | `report_workflow`, `metrics_records.py`, `integ_test_failures.py`, `notify_failure.py`, `gradle_check_flaky_tests.py` | indexed results, AUTOCUT issues | publish, query, plan, find, edit, reopen, create, close | the metrics index, GitHub issues |
| Manifest updates | `src/run_manifests.py`, `src/manifests_workflow`, `manifests-update.yml` | input manifests, schedules, the update branch | update, propose, merge | the branches of both products |
| Benchmark tests | `benchmark_test.py`, `_benchmark-run.yml`, `src/test_workflow/benchmark_test` | CloudFormation stacks | expand, deploy, test, destroy, cancel, rerun | AWS |
| Signing | `src/run_sign.py`, `src/sign_workflow` | artifacts and signature files | sign, convert, verify | the signing client |
| Artifact validation | `src/run_validation.py`, `src/validation_workflow` | processes, containers and packages of one host | download, install, start, test, clean up | docker, package managers, systemd |
| Release notes | `src/run_releasenotes_check.py`, `release_notes_workflow`, `git_commit_processor.py`, `llms` | notes files, a cache of pull requests | generate, compile | GitHub's API, a language model |
| Build numbers | `.github/scripts/build_number.py`, `integ_test_failures.py` | the run counters of GitHub, keys and records | derive, publish, run again, read the latest | every workflow that builds or tests |
| Release schedule, CI checks, checkout, other tests, packaging | other `src/run_*.py` | none, or one file | sequential scripts | |

What is hard in this code, and what makes each part correct:

* **Scheduler.** Workers block inside the pool; failures travel through a shared
  list and events; a failure makes the main thread cancel a queue that the
  workers still read. Correct means: build only on what was built, return or
  raise according to the failures that were allowed, and end.
* **Build run, recorder, assembly.** The insertion order of a dictionary shared by
  threads becomes the installation order of plugins. Correct means: that order
  respects the dependencies, and a failure never goes missing between the
  recorder, the manifest and the distribution.
* **Incremental builds.** State survives from run to run in one file, while the
  repositories move under a running build. Correct means: what the manifest lists
  side by side was built on each other.
* **Test clusters.** Every step may raise, termination included, and termination
  runs twice on some paths. Correct means: tests see a complete cluster, and
  what is left behind is only what a failure explains.
* **Scheduled builds.** Lock, build, and record are separate, the build resolves
  the branches again, and its watcher may die. Correct means: a SHA is recorded
  only when it was built, and the newest one always is, in the end.
* **Integration test runner.** Configurations follow each other on fixed ports of one
  machine, and any step may raise. Correct means: no configuration meets what another
  one left, and the exit status covers every configuration.
* **Release refs.** A plan waits for an approval while repositories move; a job stops
  between two refs, or loses GitHub's answer, and is started again with its old plan.
  Correct means: no ref is ever moved, and what the lock names exists.
* **Promotion.** Jobs that are skipped, fail, are cancelled or rerun alone, with
  conditions of their own, in runs that nothing keeps apart. Correct means: what cannot be
  undone comes last in its run.
* **Chores.** Sequences of small writes, decided on an index that lags behind, next to
  people who merge and close. Correct means: success is said only when all was done.
* **Failure issues.** Several notifications for one build at once, each with two
  queries at two moments. Correct means: what fails has an open issue, and only what
  passed is closed.
* **Manifest updates.** A night's update on a checkout, a force-pushed proposal, bumps,
  and people who edit manifests and schedules one by one. Correct means: each version is
  scheduled once, unless people took it out, and what they took out stays out.
* **Build numbers.** Several counters number the runs of one job, and a run is run again
  in whole or in part. Correct means: a number never has two meanings, and the latest is
  the latest.
* **Benchmarks, signing, validation, notes.** State outside the process, stacks,
  signature files, services on a host, pages of an API, outlives a run that stopped
  half-way. Correct means: the next run is not deceived by it, and nothing is left
  behind without a reason.

## 2. Modules

| module | models | kind |
|---|---|---|
| `DependencyBuild` | what `execute_parallel()` promises | abstract specification |
| `BuildGraph` | `execute_parallel()` with its threads | implements `DependencyBuild` |
| `BuildGraphProofs` | theorems about `BuildGraph` | proofs |
| `ParallelBuild` | `run_build.py --parallel` and the recorder; EXTENDS `BuildGraph` | composition |
| `Assemble` | `run_assemble.py` on the manifest of `ParallelBuild`, which it EXTENDS | composition |
| `AssembleProofs` | theorems about `ParallelBuild` and `Assemble`; EXTENDS `BuildGraphProofs` | proofs |
| `IncrementalBuild` | series of sequential full and incremental builds | state machine |
| `IncrementalBuildProofs` | theorems about `IncrementalBuild` | proofs |
| `TestCluster` | one test configuration | state machine |
| `IntegTestRun` | a run over components and configurations; EXTENDS `TestCluster` | composition |
| `IntegTestRunProofs` | theorems about `TestCluster` and `IntegTestRun` | proofs |
| `ScheduledBuild` | the check job, the builds it dispatches, the SHA stores | state machine |
| `ScheduledBuildProofs` | theorems about `ScheduledBuild` | proofs |
| `ReleaseRefs` | release branches, tags and the manifest lock | state machine |
| `ReleasePromotion` | the jobs of a promotion | state machine |
| `ReleaseChores` | the chores, their targets and the people beside them | state machine |
| `ResultIssues` | from test results to issues | state machine |
| `ManifestUpdates` | the nightly update and its proposal | state machine |
| `BenchmarkRun` | rows, jobs and stacks | state machine |
| `ValidationRun` | validations on one host | state machine |
| `SignRun` | signing runs over one tree | state machine |
| `ReleaseNotes` | generate and compile | state machine |
| `ReleaseProofs` | theorems about `ReleaseRefs`, `ReleaseNotes`, `ReleaseChores` and `ManifestUpdates` | proofs |
| `WorkflowProofs` | theorems about `SignRun`, `BenchmarkRun`, `ReleasePromotion`, `ResultIssues` and `ValidationRun` | proofs |
| `BuildNumbers` | the numbers of builds and test runs | state machine |
| `BuildNumbersProofs` | theorems about `BuildNumbers` | proofs |
| `MCWorkflows` | the release and maintenance modules, from `ReleaseRefs` to `BuildNumbers`, one per behaviour | composition for TLC |
| `MC...` | values of the constants for TLC | |

Definitions introduced by a comment "Fault:" are deliberately wrong variants of
the definition after them. No specification uses them; substituting one shows
that a property notices the mistake.

### BuildGraph

A component is its position in `self.components`; `next .. submitted` is the
executor's FIFO queue, of which everything below `next` has been taken or
cancelled. `pc[c]` is where `run_component(c)` stands, `checked[c]` how far
`wait_for_deps(c)` has come. The two statements of each `with lock:` section,
`failed.append(name)` and `completed_event[name].set()`, are two actions
(`RecordFailure`, `Announce`) with the lock held between them, because another
thread runs in between; a successful build sets its event without the lock
(`BuildSucceeds`). `AwaitDependency` is one iteration of `wait_for_deps`: the
event is set, the lock free, and the list looked at; the order in which Python
iterates the dependency set is arbitrary. On the main thread, `Submit`,
`ObserveRaise` (the first future whose `result()` raises), `CancelNext` (what
`shutdown(cancel_futures=True)` does with one queued item, while `Take` competes for
it), `QueueDrained` and `JoinAndRaise` (the implicit join when the `with` block is
left) are separate steps. `add_component()` is the operator `AddComponents`,
applied to every possible manifest in `Init`; it drops what is listed later.

### ParallelBuild and Assemble

`ParallelBuild` adds the core engine, built by the main thread before the graph,
and the recorder: a build is `RecordComponent` followed by one `RecordArtifact`
per file, and may fail before, between and after them. `GraphOver` is the return
from `execute_parallel()` with the check of `required_component_failures`.
`Assemble` continues with the written manifest: the minimal distribution is the
first entry with a `dist` artifact, the other entries are installed or only
recorded in the order of the manifest. The plugin CLI is external; it refuses a
plugin that extends one which is not there. `depends_on` stands for "extends"
wherever both components ship a plugin archive.

### IncrementalBuild

`published` is `manifest.yml` of the output directory. A build starts by comparing
(`StartIncremental`), works off the set `todo` in the order of the input manifest
(`BuildSucceeds`, `BuildFails`) and replaces the manifest in the end (`Finish`).
Commits are pushed at any moment (`PushCommit`); the input manifest is edited between
builds. Each entry also carries what no file records, the commits of what
it was built on (`base`), and each manifest the components whose
failure was tolerated (`suspects`); both are history only, no guard reads them.

### TestCluster

A configuration starts services in a fixed order, grouped into clusters (one
`TestCluster`) and groups (one `TopologyTestCluster`). `known` are the services
the context manager terminates on the way out: all of them for
`TestCluster.create()`, the completed groups for `Topology.create()`. `terminate()` is
one action per service, for the cleanup by `start()` and for the `finally`; each
can break off in three ways (`KillFails`, `UninstallFails`, `TerminateNotStarted`).

`IntegTestRun` runs such configurations one after the other: `NextConfig` and `NextSuite`
give the next one fresh objects, `Abort` is the exception that nobody catches. Starting a
service is followed through its steps (`Download`, `Install`, `ConfigureOpenSearch` or
`ConfigureDashboards`, `StartProcess`), each of which may raise (`StartFails`).

### ScheduledBuild

A SHA is a number that grows with every push to any component; `Push`, the
dispatched builds and the check job interleave freely. `queued` is the one pending
run GitHub keeps for a concurrency group. `DispatchFails` covers a refused
dispatch and an accepted one whose answer was lost; `CheckDies` a failing step, a
failing poll and the 300 minutes. Locking is one step: that
`build.sh --lock` resolves the components one after the other gives one more lock
between two heads, which the next check sees as new again. Entries of the Actions
cache that GitHub evicts, and the separate group of pull requests, are left out.

### ReleaseRefs

`ref` holds, for each repository, what its release branch and tag point at; several
components may share a repository. `plan[k]` is the saved plan of the branch or the tag
workflow, a function on the positions of the built components, and `written[k]` how far
this attempt of the create job has come in it (`IsNext`, `CreateRef`). `CreateRefFails` is a
request that failed before or after GitHub created the ref. `RerunFailedJob` starts the
saved plan from its beginning. `PushSource`, `PushRelease`, `CreateByHand` and `BuildAgain`
are what others do in between. `Lock` is the dispatched manifest lock with its four actions,
`LockToTags` the last job of `release-tag`; both overwrite the one lock pull request.

### ReleasePromotion

Every job of `release-promotion.yml` waits, runs and ends (`StartJob`, `Condition`), with
GitHub's implicit `success()` where a job states no condition. The branches of the
promotion jobs write object after object (`Upload`), images are copied one by one
(`CopyImage`). `RerunFailed` resets the failed jobs and what depends on them.

The workflow has no concurrency group, so the runs (`PromotionRuns`, any number) go on side by
side: another one is dispatched (`Dispatch`), cancelled or rerun whatever the others are at,
each with jobs of its own, all writing to the same buckets and registries. `stale` is the set of
runs that wrote to a repository since the last invalidation. The invalidated paths are the
repositories of both products (`release_promotion.py:126`), so one run's invalidation clears
what others wrote as well, except what they wrote while it was under way
(`InvalidateCloudfront`). `MavenIsLast` therefore speaks of what a run itself wrote: a second
run may upload after the first one's invalidation, and the first then validates production and
goes on to Maven with caches the second has made stale. No statement in the repository says that
this cannot happen.

### ReleaseChores

A chore is a list of components to work off, with one action for each request it sends.
`ChoreFails` is a request or a lookup that raises. Builds start, succeed and fail, the index
follows owners, and people merge or close the notes pull request between any two steps
(`ChoreWorld`, `MergePR`, `ClosePR`). A pull request that was found open
(`release_chores.py:736`) and is closed before the edit (`:738`) is still edited, and the chore
succeeds although no open pull request has the notes. `declined` is history: the notes that a
pull request held when somebody closed it during the last notes chore. `NotesArrive` excepts
exactly these: somebody has seen them and declined.

### ResultIssues

`documents` are the indexed results of one build. A notifier asks for the passed
components, then for the failed ones, then for the rows of each (`QueryPassed`,
`QueryFailed`, `QueryRows`), plans, and works through its plan with one lookup and one
write at a time. `alone` is history: the notifier during whose writes nobody else wrote,
about which `FailuresAreReported` speaks; two that overlap may open two issues.

### ManifestUpdates

`trunk` is what `main` says: current and legacy manifests, the two schedules and the
version-increment workflow. A run takes a checkout, scans the branches of each product and
writes the new versions, the lowest first (`Scan`, `AddVersion`), each with the branch it was
found on (`pending`); `OpenPullRequest` force-pushes one branch. Versions are numbers whose
last digit is the patch, so that the minor version is a quotient.

People edit `main` in changes of their own (`PeopleEdit`), and none of these implies
another: they write a manifest without scheduling it (`WriteByHand`), take a nightly build, a
snapshot build or a version increment out (`StopNightly`, as
`.github/ISSUE_TEMPLATE/release_template.md:93` asks for at the release candidate lock,
`StopSnapshots`, `StopIncrements`), or move a manifest to `legacy-manifests/` and leave its
entries where they are (`RetireVersion`). So there are manifests without an entry, of which the
repository has several (`manifests/3.10.0`), and entries without a current manifest. `dropped`
is history: the entries people took out or left out, and the only ones that may be missing.
What people stop or retire is taken to be months old (`OldEnough`): the update that is running
and the open pull request were started when `main` already had it. Without that, a pull request
that was opened before the manifest was written could add again what was removed in between,
which git would report as a conflict or not depending on the lines around it. The schedules are
those of the Jenkins files, which `input_manifests.py` edits. `.github/schedules/*.yml` are
written by hand and compared with the manifests by
`tests/tests_github_scripts/test_scheduled_builds.py`; they are not modelled.

### BenchmarkRun, ValidationRun, SignRun, ReleaseNotes

`BenchmarkRun` follows each row's job from its set-up to the `with` statement's end
(`LeaveContext`), and the clean-up of a cancelled job (`DeleteStacks`), which finds stacks by
name. `DeployedName` is the name `setup_cdk_params()` makes cdk deploy under
(`benchmark_create_cluster.py:244-252`), `StackName` the one that the class looks up and destroys
(`:95-97`). With `--suffix`, which the workflow always passes, they agree. Without it they do
not, unless a role follows: `stack_name` then contains the word None. The deployment succeeds,
the look-up of its outputs raises (`CreateEndpoint`), and the clean-up destroys a name that is
not there, so the stack stays, and so do runs by hand that share it. `cdk deploy "*"` also makes
the other stacks of the app (`AppStacks`, whose second stack is external), which `cdk destroy`
of one name leaves. Both are exceptions that `StacksAreExplained` states. A run by hand that is
interrupted unwinds (`CancelJob`); one that is killed outright is not modelled.

`ValidationRun` runs the six kinds of validation on one host, whose `services` and
`packages` remember the run they come from. `SignRun` signs file after file; a signature
remembers the content it was made of.

`ReleaseNotes` fetches pages from a branch that moves and processes commits on a pool of
workers with one shared cache of pull requests. A commit has a message (`MessageOf`), of which
`FirstNamed` takes the first number of a merge, in parentheses, or at all, in this order
(`git_commit_processor.py:95-112`). A message without a number makes the code ask GitHub for
the commit's pull requests (`SearchAnswer`), of which it takes the first; a search that fails
counts as none. So a commit goes by a number (`NumberOf`) that need not be its own: "Fix X
(#100) (#105)" is filtered by the labels of 100, although the docstring at line 151 speaks of
the labels "from its associated PR". `NotesAreExact` is about the labels of the number a commit
goes by, and says no more. The number of an issue answers like a failed request. Labels do not
change during a run. In `compile`, an address may be passed over (an error, or a file without
headings) or end the run (an exception).

### BuildNumbers

`runNumber` are the counters of GitHub, one for each workflow file, `ciRun` the runs in the
order they started, `records` what they published under their numbers. `DeriveNumber` is the
setup job of a run, which fails outside the ranges of `Numbered` and for a caller without a
lane. A call without `--job` gets lane 0 in the code; the workflows always pass it, so `Lane` leaves
the case out. `AttemptAll` derives again with the next attempt; `AttemptFailed` keeps the output of a
setup that succeeded and repeats the legs that failed. The constants of the layout are the
code's own; the jobs, the workflows and the lanes are parameters.

## 3. What is checked

| run | instance | shows |
|---|---|---|
| `graph` | 4 components, 2 workers, all dependency graphs, both values of `--continue-on-error`, one required component | `DependenciesBuiltFirst`, `ReturnedListIsSound`, `TakenInDependencyOrder`, the inductive invariant `Consistent`, the refinement of `DependencyBuild`, and `EndsUnlessOrphaned` |
| `graph_hang` | 3 components, 2 workers | `AlwaysEnds` is violated (see Findings) |
| `assemble` | 3 components and the core, 2 workers, 2 artifacts | `ManifestInDependencyOrder`, `WrittenManifestIsComplete`, `InstallOrderSuffices`, `NothingSilentlyMissing` |
| `incremental` | 4 components in a chain, 1 further commit each, a version increment, tolerated failures of the third | `ReportedInputIsBuilt`, `StaleOnlyByFailure`, `UnmodifiedComponentsStay`, `UnchangedVersionIsSkipped` |
| `incremental_forgotten`, `incremental_version` | 3 and 2 components | two findings |
| `cluster` | 2 components with up to 2 configurations, 4 services: a Dashboards cluster, all groupings of a topology | `ReadyWhenYielded`, `CleanAfterSuccess`, `LeaksAreExplained`, `FreshMachine`, `VerdictCoversThePlan` |
| `cluster_masked` | Dashboards and OpenSearch | a finding |
| `scheduled` | 2 states of the branches, 1 fault | `RecordedWasBuilt`, `RebuiltOnlyUnrecorded`, the inductive invariant `Consistent`, and `NewestIsRecorded` |
| `scheduled_twice` | 1 state of the branches, 1 fault | a finding |
| `workflows` | one of ten systems per behaviour, see below | sixteen properties, see below |
| `latest_outranked` | 2 runs of one job, 1 cell | a finding |

`workflows` starts in any of the ten systems of `MCWorkflows` (the failure issues once per
kind of issue). They share no variable and no step: `active` never changes, so the run is
the sum of the single instances.

| system | instance | properties |
|---|---|---|
| `ReleaseRefs` | a repository with one component and one with a component of each product, 2 dispatches, 2 surprises | `TaggedAsPlanned`, `RefsNeverMove`, `LockedTagsExist` |
| `ReleasePromotion` | both products, each alone, a dry run, a wrong parameter; 2 runs, 3 attempts in all, side by side when both promote OpenSearch | `ImagesFollowPackages`, `MavenIsLast` |
| `ReleaseChores` | 2 components, 1 maintainer, one component without an issue, 3 candidates, 2 chores, 2 notes | `EveryoneIsTold`, `CandidatesFollowSuccess`, `NotesArrive` |
| `ResultIssues` | 1 cell, a component and a ci-group, 2 test runs, 2 notifiers, a query that returns 1 | `FailuresAreReported`, `ClosedOnlyWhenPassed` |
| `ManifestUpdates` | 2 products, `main` and a minor branch, 2 runs, 2 edits by people | `VersionsAreScheduledOnce` |
| `BenchmarkRun` | a bundle, a preserved stack, an endpoint, two replicating clusters; by hand and without a suffix, a bundle on one and on replicating clusters; 2 attempts | `StacksAreExplained` |
| `ValidationRun` | all six distributions, 2 runs in a row | `PassesAreTrue` |
| `SignRun` | two artifacts, 5 kinds of run, 3 runs, 1 rebuild | `SignedAsAsked` |
| `ReleaseNotes` | 3 components, 2 of one repository, pages of 2 commits, 2 workers, 1 retry; a commit that names two numbers, one that names none, one that names an issue | `NotesAreExact` |
| `BuildNumbers` | one job with its own workflow, a caller, and a caller without a lane; counters at 0 and just below the limit; 2 runs of 2 attempts | `NumbersAreOwn` |

What each property says in words stands above it in its module. The run has about 0.9 million
states and takes two to three minutes. Restrictions in `MCWorkflows` keep it there, which the
modules and the proofs do not have:

* Two promotions overlap only when both promote OpenSearch without `latest` (`MCSideBySide`), and
  only the second may fail or be cancelled (`MCOneFails`); nothing else tells the two apart.
* Of two edits by people, both to OpenSearch, the second retires a version, and a branch of
  Dashboards is bumped after that of OpenSearch (`MCEdited`).
* Of two benchmark jobs only one repeats its benchmark (`MCOneRepeats`), and a cluster's stack is
  there only after the other stacks of its app (`MCClusterLast`).
* At most two requests for the labels of one component's commits fail (`MCTwoFail`).

**Bounds.** Four components give every shape of dependency graph up to a diamond and
a chain of four, including graphs with more ready components than workers, and a
cancellation with a waiter and a queue behind it. Three components suffice for the
assembly, whose properties relate pairs and whose interleavings come from two
workers. In a chain of four with the core, "direct" and "transitive" dependents
differ. One commit per repository is enough to be changed before, during or after
any build. Four services allow a group of two between two others. In the
release and maintenance workflows every hazard needs two actors or two runs: a plan and a
push, a run and its rerun, two notifiers, two signing runs of different kinds, a host with
the leftovers of one run before. The instances have two of each and one fault more than
that where a fault and a repair are needed; three components put two in one repository and
one beside it; a page of two is full, cut and moved by one more commit. The bounds
`MaxCommit`, `MaxVersion`, `MaxHead`, `MaxFaults`, `MaxSurprises`, `MaxMishaps`,
`MaxDispatches`, `MaxEdits` and the numbers of runs, chores, builds, attempts and rebuilds only limit the environment;
the number of dispatched builds is not bounded by the model but by
`RebuiltOnlyUnrecorded` itself.

**Fairness.** `BuildGraph`: every worker thread and the main thread go on, and a build
function ends in some way; an idle pool takes work. A partly busy pool is not
required to: `ThreadPoolExecutor` spawns no new thread when it believes one to be idle.
`ScheduledBuild`: the check and the builds go on (both have a time limit); the
schedule keeps ticking while the group is free, and its run is not displaced by
manual runs forever. Nothing else assumes fairness: the release and maintenance workflows are started by people,
who may stop at any point.

**Deadlock.** It is checked for `scheduled` and the incremental runs, which never
stop. The other systems end, and their cfg says so.

## 4. What is proved

`BuildGraphProofs` proves, for any number of components, any number of workers, any
required set and any set of dependency graphs that satisfies `GraphAssumption`
(positions are natural numbers, at least one worker, no component depends on itself):

| theorem | states |
|---|---|
| `Invariance` | `Consistent` is invariant |
| `TypeCorrect` | `TypeOK` |
| `BuildsOnBuilt` | `DependenciesBuiltFirst` |
| `QueueOrder` | `TakenInDependencyOrder` |
| `SoundResult` | `ReturnedListIsSound` |
| `Refinement` | `ImplementsDependencyBuild` |

`DependenciesBuiltFirst` is not inductive: that a dependency looked at was built has
to stay true while other threads fail. `Consistent` says why. The queue is exactly
what was not taken (`QueueInv`). An event is set only for a finished component, and a
name enters `failed` only before its event is set and by the holder of the lock
(`LockInv`), so that what is in `checked[c]` can never fail later (`DependencyInv`). A
worker raises only for a failure of its own that is not allowed, and a tolerated
or inherited failure is one or the other (`FailureInv`). Once the main thread drains,
somebody has raised; once it joins, the queue is empty (`MainInv`). The step is proved
per action, each part of the invariant on its own; the safety theorems follow from
the invariant, and the refinement maps a component to `failed` from the moment its
name is on the list and to `built` from the moment its event is set.

`ScheduledBuildProofs` proves, for any number of commits and faults (natural numbers,
`ScheduleAssumption`) and so for any number of checks and builds:

| theorem | states |
|---|---|
| `Accounted` | `Consistent` is invariant |
| `TypeCorrect` | `TypeOK` |
| `RecordsAreSound` | `RecordedWasBuilt` |
| `NothingBuiltTwice` | `RebuiltOnlyUnrecorded` |

`RecordedWasBuilt` rests on two facts about time: the build takes its commits after the
lock of the check, so it has them or later ones (`OrderInv`), and what the check
watches is the build of its own SHA (`WatchInv`). `RebuiltOnlyUnrecorded` is not
inductive either: a build that is neither failed nor abandoned must be recorded or
still watched (`RecordInv`), and since the group runs one check at a time nothing is
recorded between a look-up and its dispatch (`DispatchInv`); so an earlier build of
the SHA that `Dispatch` adds can only have failed or lost its watcher. Steps fall into
those that leave builds and stores alone, dispatches, steps of a build, a record, and
a check that dies; each has its lemma.

`AssembleProofs` proves, for any number of components, workers and artifacts, any
dependencies and any choice of archives (`ArchiveAssumption`: the core engine has one):

| theorem | states |
|---|---|
| `BuildConsistent`, `AssemblyConsistent` | the inductive invariants `BuildInv` and `AssembleInv` |
| `BuildsAreScheduled` | the build run behaves like `BuildGraph`, so it too implements `DependencyBuild` |
| `ManifestsAreOrdered` | `ManifestInDependencyOrder` |
| `ManifestsAreComplete` | `WrittenManifestIsComplete` |
| `PluginsInstallInOrder` | `InstallOrderSuffices` |
| `DistributionsAreComplete` | `NothingSilentlyMissing` |

The scheduler's `Consistent` is used as it is, since every step of the build run is one of
the scheduler's or leaves the scheduler alone. `RecordedInv` ties the two together: what is recorded is
being built, on built dependencies, and what is built is complete in the recorder, so an
entry appended to the hash stands after its dependencies. `CoreInv` and `EndInv` say the
same of the core engine and of the end. `AssemblyInv` says that what is installed and what
the bundle lists is exactly the part of the manifest the assembly has worked off
(`Passed`); with the order of the manifest this gives the order of installation.

`IncrementalBuildProofs` proves, for any number of components and any acyclic dependencies
(`IncrementalAssumption`), commits, versions and number of builds:

| theorem | states |
|---|---|
| `IncrementalConsistent` | the inductive invariant `IncrementalInv` |
| `ReportsAreTrue` | `ReportedInputIsBuilt` |
| `OnlyFailuresAreStale` | `StaleOnlyByFailure`, for OpenSearch |
| `TheRestIsKept` | `UnmodifiedComponentsStay` |
| `NothingIsRebuiltTwice` | `UnchangedVersionIsSkipped` |

Nothing in a manifest is newer than the branches (`PastInv`). `RunningInv` says of a running
build that what it has not come to (`todo`) is all that may be out of date, and that `todo`
is closed under dependents: what depends on something to be rebuilt is still to be rebuilt
itself. `OnlyFailuresAreStale` has the hypothesis `~Dashboards`: `rebuild_plugins` puts the
OpenSearch core on the list only when it changed, but the Dashboards core always, without
what depends on it, so there `todo` is not closed and the invariant does not hold; see the
hazard at `build_incremental.py:66`.

`IntegTestRunProofs` proves, for any layouts of clusters and groups (`ClusterAssumption`) and
any plan of suites and configurations (`PlansAssumption`):

| theorem | states |
|---|---|
| `ClusterConsistent`, `RunConsistent` | the inductive invariants `ClusterInv` of one configuration and `RunInv` of a run |
| `TestsFindTheirServices` | `ReadyWhenYielded` |
| `SuccessIsClean` | `CleanAfterSuccess` |
| `LeaksHaveACause` | `LeaksAreExplained` |
| `TheVerdictIsTrue` | `VerdictCoversThePlan` |
| `MachinesAreFresh` | `FreshMachine` |

`ClusterInv` follows a service through start, cleanup and destruction: which services have a
process or an installation at each stage (`StartInv`), which the context manager knows
(`KnownInv`), and what each of the two passes of termination has left behind it
(`CleanupInv`, `DestroyInv`). `RunInv` adds the checkout (`RepoInv`), and that the results
recorded so far are those of the suites and configurations the run has come past
(`OutcomeInv`, `JudgedInv`, `WrittenInv`). The groups of a layout are found by the least and the greatest
service of each, which exist because the numbers are well-founded (`Extremes`).

`ReleaseProofs` proves the following, component by component.

About `ReleaseRefs`, for any components, repositories and products, any bounds and any number
of runs, reruns and surprises (`ReleaseRefsAssumption`: the manifest is a sequence
of components with a repository and a product each):

| theorem | states |
|---|---|
| `RefsTypeCorrect` | `RefsTypeOK` |
| `RefsStay` | `RefsNeverMove` |
| `TagsAsPlanned` | `TaggedAsPlanned` |
| `LockedTagsAreThere` | `LockedTagsExist` |

`RefsNeverMove` follows from the types and a case for each action: the second disjunct of
`CreateRef` leaves a ref alone that is elsewhere, the first writes only what is there already
or where nothing was. `TaggedAsPlanned` is not inductive, since it says nothing until the
run is done. `TagsFollowPlan` says how it gets there: what the plan found, and what the
attempt has come past, is at the planned commit. Its step uses that a tag never moves
again, and that `CreateRef` takes the first change left, so that everything before it was
found or created (`FollowedByCreate`). When nothing is left, every tag of the plan is
there (`AllTagged`), which gives both remaining theorems.

About `ReleaseNotes`, for any repositories, commits that are pushed, messages, pull requests, page
size, number of workers and retries (`NotesAssumption`: no commit is pushed twice, each has a
message, and each component has a repository):

| theorem | states |
|---|---|
| `NotesConsistent` | the inductive invariant `NotesInv` |
| `NotesCoverTheBranch` | `NotesAreExact` |

The branch is a function of how much was pushed (`BranchAt`), and commits are only added in
front. So the pages a run fetched, one after the other, cover the branch as it was when the
first was asked for, with a commit seen twice where a push moved the pages (`PagesInv`,
`FetchedInv`). A commit is dropped only for the labels of the number it goes by, and one with such
labels is kept only where its own request failed (`LabelsInv`); only requests that had an answer
are remembered (`CacheInv`), so a failure does not spread to the commits of the same number.

About `ReleaseChores`, for any components, maintainers and numbers of builds, notes and chores
(`ChoresAssumption`):

| theorem | states |
|---|---|
| `ChoresConsistent` | the inductive invariant `ChoreInv` |
| `EveryoneInTheReportIsTold` | `EveryoneIsTold` |
| `NumbersHaveNoGap` | `CandidatesFollowSuccess` |
| `NotesReachTheBranch` | `NotesArrive` |

A running chore has a prefix of its steps behind it (`WorkInv`); what a notifying chore
has commented, and whom the comments name, follows from the steps it has left
(`NotifyInv`, `PeopleInv`), and for the notes chore whether the notes have arrived or were
declined (`NotesChoreInv`). That what is committed is never newer than what is pushed, and that no newer
than what was generated (`PullInv`), was missing at first: without it a merge could take the
notes back.

About `ManifestUpdates`, for any products, branches and versions (`ManifestUpdatesAssumption`:
OpenSearch is one of the products, and a branch that is bound to a minor version starts with a
version of it):

| theorem | states |
|---|---|
| `ManifestsConsistent` | the inductive invariant `ManifestInv` |
| `EveryVersionIsScheduledOnce` | `VersionsAreScheduledOnce` |

What the property says of `main` is said of every content there is (`SoundContent`): of
`main`, of the commit an update was checked out from, of its checkout and of the pull request.
A merge brings the additions of one content to another. It stays sound because an update
only adds, in front of what is there or after it (`Updated`), because what was retired since was
known to the update (`Since`) and so is not among its additions, and because what is still to be
written is not known (`UpdateInv`). `Scheduled` relates `main` to the history of what people
took out: an entry of a version `main` names is missing exactly when it is in `dropped`. This is
not inductive without `OldEnough`, which gives `Since` for retirements.

`WorkflowProofs` proves, for the requests and inputs the code accepts (the assumptions of the
modules name them) and any number of runs and attempts:

| module | theorems | state |
|---|---|---|
| `SignRun` | `SigningConsistent`, `SignaturesAreCurrent` | `SignInv`, `SignedAsAsked` |
| `BenchmarkRun` | `BenchmarkConsistent`, `NoStackIsForgotten` | `BenchInv`, `StacksAreExplained` |
| `ReleasePromotion` | `PromotionConsistent`, `ImagesComeAfterPackages`, `MavenComesLast` | `PromoInv`, `ImagesFollowPackages`, `MavenIsLast` |
| `ResultIssues` | `IssuesConsistent`, `FailuresGetIssues`, `OnlyPassedIsClosed` | `IssuesInv`, `FailuresAreReported`, `ClosedOnlyWhenPassed` |
| `ValidationRun` | `ValidationConsistent`, `PassesAreBelievable` | `ValidInv`, `PassesAreTrue` |

* Signing: `SignedAsAsked` speaks of a run that is over. `PassedInv` says it of every file a
  running one has come past, and that the steps on one file do not disturb another.
* Benchmarks: how far a job has come says which stacks it has made (`LevelFits`), and each
  cluster belongs to a job of this run, is kept or leaked, or has a name that no clean-up uses
  (`BenchInv`, `Unclaimed`). With a suffix, jobs in one run never share a name, so that what a job
  made stays until it leaves.
* Promotion: of each of any number of runs (`PromotionRunInv`), a job that ran, or was skipped, has
  found the jobs before it as its condition asks (`JobInv`); what a stage of the run has not left to
  write is written, by whichever run (`UploadInv`), the image copies made are the beginning of the
  plan (`CopiesInv`, `PlanInOrder`), and after its invalidation the run is not `stale` (`Left`). A step
  of one run leaves the others as they are, and what is in production or tagged only grows
  (`RunStays`, `StoresGrow`), so each run keeps its invariant under the steps of the others.
* Failure issues: a notifier plans to open nothing that it plans to close, and to close only what
  the rows it has seen allow (`NotifierInv`); while nobody else writes, what it has handled stays
  as its plan wants it (`AloneInv`). `ResultIssuesAssumption` asks for finitely many components, since the queries
  count rows.
* Validation: whatever runs or is installed on the host belongs to a run that did not pass, or
  has not yet (`HostOk`); a run that installs packages has replaced, or cleaned up, what it has
  come past (`StepOk`); and what answered the tests was its own or such a leftover
  (`TestedOk`).

TLC agrees with the inductive invariants of all these modules on the instances of section 3,
but for types it cannot enumerate.

`BuildNumbersProofs` proves, for any jobs, workflow files, counters and lanes in which no two
callers share one (`BuildNumbersAssumption`), and any number of runs and attempts:

| theorem | states |
|---|---|
| `NumbersNeverReused` | `NumbersAreOwn` |

Lane and run come apart from a number again, because a run number stays below the size of a
lane and a lane below the stride of an attempt (`NumberComesApart`); so equal numbers of a
job come from the same workflow, run and attempt (`NumbersDiffer`). The invariant
`NumbersInv` says that a workflow never counts two runs alike, and that the number of a run
and of every record was derived from what its run is, which no action changes
(`OneRunMoves`). Before that the two cannot be compared: `NumbersAreOwn` alone says nothing
of runs that have not published yet.

**What the proofs assume.** Nothing but the named assumptions on the constants, which TLC
evaluates in the runs. The numbers of runs, builds, faults and commits are constants without
an upper bound, so the theorems hold for any number of them.

**Only model-checked.** Liveness (`EndsUnlessOrphaned`, `NewestIsRecorded`), since TLAPS does
not reason about fairness and `ENABLED` here. Every other invariant and action property of
section 3 is a theorem, `StaleOnlyByFailure` for OpenSearch: for Dashboards builds it is neither
proved nor checked, since the code does not keep it. The findings are counterexamples of TLC.

The proofs left their mark on the models: where a library operator sorts or filters by
recursion, what it computes cannot be derived, so the lists of `ReleaseChores`,
`ManifestUpdates` and `IncrementalBuild` are described by the places of their members
(`Place`, `Kept`, `BranchOf`) or by sets worked off in order.

## 5. Findings

* `graph_hang`: the cancellation in `execute_parallel()` can leave a worker waiting for a
  component that was cancelled, and the failure that caused it is never raised.
* `incremental_forgotten`: a tolerated failure is forgotten by the next incremental build.
* `incremental_version`: after a version increment every incremental build rebuilds everything.
* `cluster_masked`: `ClusterCreationException` is replaced by an `AttributeError`.
* `scheduled_twice`: a lost watcher makes the next check build the same SHA beside it.
* `latest_outranked`: test runs of one build are ranked by numbers of different counters, so
  the result of an earlier run can stay the latest, and a new failure unreported.

Without a run: `local_test_cluster_opensearch_dashboards.py:27` says that OpenSearch runs
first, but `start()` puts the Dashboards service first in `all_services`.

Also without a run, met while modelling: `run_validation.py:33` keeps the verdict of the last
docker source only; `validation_rpm.py:34` ignores the status of `rpm -ivh`; the job
`publish-to-maven-plan` (`release-promotion.yml:355`) never runs, because a dry run skips
`invalidate-cloudfront` and its implicit `success()` is false; a `ci-group` name never opens an
issue (`notify_failure.py:182`); `input_manifests.py:212` raises for every later update when a
schedule already names a version that has no manifest; `benchmark_create_cluster.py:95` names another
stack than the one cdk deploys when no suffix is given, so that a benchmark by hand ends with a
`KeyError` and leaves its stack; `git_commit_processor.py:101` takes the labels of another pull request
when a message names it first; `release_chores.py:738` reports success on a pull request that was closed
in between; and a promotion reaches Maven Central with the repositories another run has just changed
still cached. The models have all of the last four, and the properties state them as their exceptions.

## 6. Not modelled

* The release schedule: parsing and formatting, covered by tests.
* CI checks, checkout, backwards compatibility, smoke and performance tests: sequential loops
  around an external script; nothing outlives a component but its output. The exception
  is the cluster of the smoke tests, whose process is left behind when the first ping of its
  readiness check is refused (`smoke_test_cluster_opensearch.py`).
* rpm and deb packaging, package repository metadata: external tools around file moves.
* Jenkins pipelines, images, Terraform: superseded or external.
* In the modelled parts: the content of artifacts, notes, prompts and issue texts; what
  external tools do beyond success and failure; the platforms of a scheduled build; `--parallel`
  together with `--incremental`; the numbers a benchmark measures.

## 7. Plan

1. Refinements beside `DependencyBuild`: what a release run promises its caller, implemented by
   `ReleaseRefs`, and what a notification promises, implemented by `ResultIssues`.
2. `IncrementalBuild` with components removed from the input manifest, and composed
   with `Assemble`, for the order of appended components.
3. The platforms of a scheduled build, whose SHA store does not tell them apart.
4. The smoke tests' cluster, with its readiness check.
