---------------------------- MODULE ReleaseRefs ----------------------------
(***************************************************************************)
(* The release branches and release tags of the component repositories and *)
(* the lock of the input manifests (release_git_workflow, run_release_*.py *)
(* and their workflows).  A run plans from what the remotes answer, waits  *)
(* for an approval, and creates one ref after the other; meanwhile the     *)
(* repositories move, people create refs of their own, and a job that      *)
(* failed is started again with the plan it had saved.                     *)
(***************************************************************************)
EXTENDS Integers, Sequences

CONSTANTS
  Components,    \* the components of both products, in manifest order
  RepositoryOf,  \* a repository may hold several components
  ProductOf,     \* the product whose manifests list a component
  Unbundled,     \* components of the input manifests that were not built
  Unlocked,      \* UNLOCKED_COMPONENTS
  MaxCommit,     \* bound on the commits of a repository
  MaxDispatches, \* bound on the workflow runs
  MaxSurprises   \* bound on pushes, builds, refs by hand and failed requests

ReleaseComponent == {Components[i] : i \in DOMAIN Components}
Repository == {RepositoryOf[c] : c \in ReleaseComponent}
Product == {ProductOf[c] : c \in ReleaseComponent}
NoCommit == -1
RefCommit == 0 .. MaxCommit
RefKind == {"branch", "tag"}
LockAction == {"MATCH_BUILD_MANIFEST", "UPDATE_TO_RECENT_COMMITS",
               "UPDATE_TO_TAGS", "UPDATE_TO_RELEASE_BRANCH"}

ASSUME ReleaseRefsAssumption ==
  /\ Components \in Seq(ReleaseComponent)
  /\ DOMAIN RepositoryOf = ReleaseComponent
  /\ DOMAIN ProductOf = ReleaseComponent
  /\ MaxCommit \in Nat /\ MaxDispatches \in Nat /\ MaxSurprises \in Nat

VARIABLES
  newest,     \* the newest commit of each repository, on any branch
  source,     \* the head of its source branch
  ref,        \* per repository, what its release branch and tag point at
  candidate,  \* the commit_id of each component in the built manifests
  refJob,     \* per workflow: idle, approval, create, failed, done
  plan,       \* per workflow: the saved plan, a change for each built component
  dryRun,     \* the input of the release-tag run
  written,    \* per workflow: how far in the plan this attempt has come
  manifest,   \* the ref of each component in the input manifests on main
  lockPR,     \* the open manifest-lock pull request
  dispatches,
  surprises

remotes  == <<newest, source, ref>>
refRuns  == <<refJob, plan, dryRun, written>>
locks    == <<manifest, lockPR>>
bounds   == <<dispatches, surprises>>
refsVars == <<remotes, candidate, refRuns, locks, bounds>>

(* A ref of an input manifest: a branch, the release tag or a commit.      *)
Named(kind) == [kind |-> kind, commit |-> NoCommit]
AtCommit(n) == [kind |-> "commit", commit |-> n]
NoPR == [refs |-> <<>>, by |-> "nobody"]

RefsInit ==
  /\ newest = [r \in Repository |-> 0]
  /\ source = [r \in Repository |-> 0]
  /\ ref = [r \in Repository |-> [k \in RefKind |-> NoCommit]]
  /\ candidate = [c \in ReleaseComponent |-> 0]
  /\ refJob = [k \in RefKind |-> "idle"]
  /\ plan = [k \in RefKind |-> <<>>]
  /\ dryRun = FALSE
  /\ written = [k \in RefKind |-> 0]
  /\ manifest = [c \in ReleaseComponent |-> Named("main")]
  /\ lockPR = NoPR
  /\ dispatches = 0
  /\ surprises = 0

-----------------------------------------------------------------------------
(* The world around the runs: commits on the source branch, on the release *)
(* branch once it exists, refs created by hand, and another candidate.     *)

Surprise ==
  /\ surprises < MaxSurprises
  /\ surprises' = surprises + 1
  /\ UNCHANGED dispatches

PushSource(r) ==
  /\ newest[r] < MaxCommit
  /\ newest' = [newest EXCEPT ![r] = @ + 1]
  /\ source' = [source EXCEPT ![r] = newest[r] + 1]
  /\ Surprise
  /\ UNCHANGED <<ref, candidate, refRuns, locks>>

PushRelease(r) ==
  /\ ref[r]["branch"] # NoCommit
  /\ newest[r] < MaxCommit
  /\ newest' = [newest EXCEPT ![r] = @ + 1]
  /\ ref' = [ref EXCEPT ![r]["branch"] = newest[r] + 1]
  /\ Surprise
  /\ UNCHANGED <<source, candidate, refRuns, locks>>

CreateByHand(r, k) ==
  /\ ref[r][k] = NoCommit
  /\ ref' = [ref EXCEPT ![r][k] = source[r]]
  /\ Surprise
  /\ UNCHANGED <<newest, source, candidate, refRuns, locks>>

(* A build checks every component out by itself, so two components of one  *)
(* repository can carry different commits.                                 *)
BuildAgain(c) ==
  /\ candidate[c] # source[RepositoryOf[c]]
  /\ candidate' = [candidate EXCEPT ![c] = source[RepositoryOf[c]]]
  /\ Surprise
  /\ UNCHANGED <<remotes, refRuns, locks>>

-----------------------------------------------------------------------------
(* Planning.                                                               *)

Change(c, commit, action) ==
  [component |-> c, commit |-> commit, action |-> action]
Position(c) == CHOOSE i \in DOMAIN Components : Components[i] = c

(* The places of the built components; a plan is a function of them.       *)
Built == {i \in DOMAIN Components : Components[i] \notin Unbundled}

(* The first component of the same repository: plan_release_branches       *)
(* branches a repository once, for the component that names it first.      *)
FirstOf(c) ==
  CHOOSE d \in ReleaseComponent :
    /\ RepositoryOf[d] = RepositoryOf[c]
    /\ \A e \in ReleaseComponent :
         RepositoryOf[e] = RepositoryOf[c] => Position(d) <= Position(e)

(* What plan_release_branches() says of one component, from the build      *)
(* manifests of the products in B and the input manifests of the others.   *)
BranchChange(c, B) ==
  LET r == RepositoryOf[c]
      Requested(d) == IF ProductOf[d] \in B THEN candidate[d] ELSE NoCommit
      commit == IF ProductOf[c] \in B THEN candidate[c] ELSE source[r]
  IN  IF FirstOf(c) # c
      THEN IF /\ Requested(c) # NoCommit
              /\ Requested(FirstOf(c)) \notin {NoCommit, Requested(c)}
           THEN Change(c, Requested(c), "conflict")
           ELSE Change(c, NoCommit, "skipped")
      ELSE IF ref[r]["branch"] # NoCommit
           THEN Change(c, ref[r]["branch"], "exists")
           ELSE Change(c, commit, "create")

(* plan_release_tags(): one tag for each component of the built manifests. *)
TagChange(c) ==
  LET existing == ref[RepositoryOf[c]]["tag"]
  IN  Change(c, candidate[c],
             CASE existing = NoCommit     -> "create"
               [] existing = candidate[c] -> "exists"
               [] OTHER                   -> "conflict")

ToCreate(p) == {i \in DOMAIN p : p[i].action = "create"}

(* The plan job fails on a conflict; a plan without a ref to create, and a *)
(* dry run, skip the create job.                                           *)
AfterPlan(p, dry) ==
  IF \E i \in DOMAIN p : p[i].action = "conflict" THEN "idle"
  ELSE IF dry \/ ToCreate(p) = {} THEN "done" ELSE "approval"

Dispatched ==
  /\ dispatches < MaxDispatches
  /\ dispatches' = dispatches + 1
  /\ UNCHANGED surprises

Planned(k, p, dry) ==
  /\ refJob[k] \in {"idle", "failed"}
  /\ plan' = [plan EXCEPT ![k] = p]
  /\ refJob' = [refJob EXCEPT ![k] = AfterPlan(p, dry)]
  /\ written' = [written EXCEPT ![k] = 0]
  /\ Dispatched
  /\ UNCHANGED <<remotes, candidate, locks>>

PlanBranches(B) ==
  /\ Planned("branch", [i \in Built |-> BranchChange(Components[i], B)], FALSE)
  /\ UNCHANGED dryRun

PlanTags(dry) ==
  /\ Planned("tag", [i \in Built |-> TagChange(Components[i])], dry)
  /\ dryRun' = dry

-----------------------------------------------------------------------------
(* apply_plan() and GitHubRefs.create_ref().                               *)

Job(k, state) ==
  /\ refJob' = [refJob EXCEPT ![k] = state]
  /\ UNCHANGED <<newest, source, candidate, plan, dryRun, locks, dispatches>>

Approve(k) ==
  /\ refJob[k] = "approval"
  /\ Job(k, "create")
  /\ UNCHANGED <<ref, written, surprises>>

NotApproved(k) ==
  /\ refJob[k] = "approval"
  /\ Job(k, "idle")
  /\ UNCHANGED <<ref, written, surprises>>

(* "Re-run failed jobs" applies the saved plan again, from its first ref.  *)
RerunFailedJob(k) ==
  /\ refJob[k] = "failed"
  /\ Job(k, "approval")
  /\ written' = [written EXCEPT ![k] = 0]
  /\ UNCHANGED <<ref, surprises>>

(* The next change is the first one left to create.                        *)
Left(k) == {i \in ToCreate(plan[k]) : i > written[k]}
IsNext(k, i) == i \in Left(k) /\ \A j \in Left(k) : i <= j

(* Faults: the POST moves a ref that exists; or any 422 counts as done.    *)
CreateOrMove(k, i) ==
  LET x == plan[k][i]
  IN  /\ refJob[k] = "create" /\ IsNext(k, i)
      /\ ref' = [ref EXCEPT ![RepositoryOf[x.component]][k] = x.commit]
      /\ written' = [written EXCEPT ![k] = i]
      /\ Job(k, "create")
      /\ UNCHANGED surprises
CreateUnlessThere(k, i) ==
  LET x == plan[k][i]
      r == RepositoryOf[x.component]
  IN  /\ refJob[k] = "create" /\ IsNext(k, i)
      /\ ref' = [ref EXCEPT ![r][k] = IF @ = NoCommit THEN x.commit ELSE @]
      /\ written' = [written EXCEPT ![k] = i]
      /\ Job(k, "create")
      /\ UNCHANGED surprises

(* A ref that exists is left alone when it is at the planned commit and    *)
(* ends the job with an error when it is not.                              *)
CreateRef(k, i) ==
  LET x == plan[k][i]
      r == RepositoryOf[x.component]
  IN  /\ refJob[k] = "create" /\ IsNext(k, i)
      /\ \/ /\ ref[r][k] \in {NoCommit, x.commit}
            /\ ref' = [ref EXCEPT ![r][k] = x.commit]
            /\ written' = [written EXCEPT ![k] = i]
            /\ Job(k, "create")
         \/ /\ ref[r][k] \notin {NoCommit, x.commit}
            /\ Job(k, "failed")
            /\ UNCHANGED <<ref, written>>
      /\ UNCHANGED surprises

(* A request fails: before GitHub created the ref, or after it did and the *)
(* answer was lost.  The runner may also die here.                         *)
CreateRefFails(k, i) ==
  LET x == plan[k][i]
      r == RepositoryOf[x.component]
  IN  /\ refJob[k] = "create" /\ IsNext(k, i)
      /\ surprises < MaxSurprises
      /\ surprises' = surprises + 1
      /\ Job(k, "failed")
      /\ ref' \in {ref, [ref EXCEPT ![r][k] = IF @ = NoCommit THEN x.commit ELSE @]}
      /\ UNCHANGED written

CreateDone(k) ==
  /\ refJob[k] = "create"
  /\ Left(k) = {}
  /\ Job(k, "done")
  /\ UNCHANGED <<ref, written, surprises>>

BranchRunEnds ==
  /\ refJob["branch"] = "done"
  /\ Job("branch", "idle")
  /\ UNCHANGED <<ref, written, surprises>>

-----------------------------------------------------------------------------
(* release-manifest-commit-lock: the refs of the selected components of    *)
(* the input manifests on main, rewritten.                                 *)

NewRef(c, action) ==
  CASE action = "MATCH_BUILD_MANIFEST" ->
         IF c \in Unlocked \cup Unbundled THEN manifest[c] ELSE AtCommit(candidate[c])
    [] action = "UPDATE_TO_RECENT_COMMITS" ->
         IF c \in Unlocked \/ ref[RepositoryOf[c]]["branch"] = NoCommit
         THEN manifest[c] ELSE AtCommit(ref[RepositoryOf[c]]["branch"])
    [] action = "UPDATE_TO_TAGS" -> Named("tag")
    [] OTHER -> Named("branch")

Locked(action, selected) ==
  [c \in ReleaseComponent |->
     IF c \in selected THEN NewRef(c, action) ELSE manifest[c]]

(* Without a difference nothing is pushed; else the one branch of the lock *)
(* pull request is overwritten, whatever an open pull request held.        *)
OpenOrUpdate(locked, by) ==
  lockPR' = IF locked = manifest THEN lockPR ELSE [refs |-> locked, by |-> by]

(* A lock dispatched by hand, dry runs left out: they write nothing.       *)
Lock(action, selected) ==
  /\ OpenOrUpdate(Locked(action, selected), "dispatch")
  /\ Dispatched
  /\ UNCHANGED <<remotes, candidate, refRuns, manifest>>

(* Fault: the lock runs whenever the plan succeeded.                       *)
LockAfterPlan ==
  /\ refJob["tag"] \in {"failed", "done"}
  /\ refJob' = [refJob EXCEPT !["tag"] = "idle"]
  /\ IF dryRun THEN UNCHANGED lockPR
     ELSE OpenOrUpdate(Locked("UPDATE_TO_TAGS", ReleaseComponent), "release-tag")
  /\ UNCHANGED <<remotes, candidate, plan, dryRun, written, manifest, bounds>>

(* The last job of release-tag: after the create job succeeded, or was     *)
(* skipped in a run whose plan succeeded.                                  *)
LockToTags ==
  /\ refJob["tag"] = "done"
  /\ refJob' = [refJob EXCEPT !["tag"] = "idle"]
  /\ IF dryRun THEN UNCHANGED lockPR
     ELSE OpenOrUpdate(Locked("UPDATE_TO_TAGS", ReleaseComponent), "release-tag")
  /\ UNCHANGED <<remotes, candidate, plan, dryRun, written, manifest, bounds>>

MergeLock ==
  /\ lockPR # NoPR
  /\ manifest' = lockPR.refs
  /\ lockPR' = NoPR
  /\ UNCHANGED <<remotes, candidate, refRuns, bounds>>

-----------------------------------------------------------------------------
World ==
  \/ \E r \in Repository : PushSource(r) \/ PushRelease(r)
  \/ \E r \in Repository, k \in RefKind : CreateByHand(r, k)
  \/ \E c \in ReleaseComponent : BuildAgain(c)
  \/ MergeLock

RefsNext ==
  \/ World
  \/ \E B \in SUBSET Product : PlanBranches(B)
  \/ \E dry \in BOOLEAN : PlanTags(dry)
  \/ \E k \in RefKind :
       \/ Approve(k) \/ NotApproved(k) \/ RerunFailedJob(k)
       \/ \E i \in DOMAIN plan[k] : CreateRef(k, i) \/ CreateRefFails(k, i)
       \/ CreateDone(k)
  \/ BranchRunEnds
  \/ \E action \in LockAction, c \in ReleaseComponent :
       Lock(action, {c}) \/ Lock(action, ReleaseComponent)
  \/ LockToTags

RefsSpec == RefsInit /\ [][RefsNext]_refsVars

-----------------------------------------------------------------------------
(* Properties.                                                             *)

PlanChange ==
  [component : ReleaseComponent, commit : RefCommit \cup {NoCommit},
   action : {"create", "exists", "skipped", "conflict"}]
RefName ==
  [kind : {"main", "branch", "tag", "commit"}, commit : RefCommit \cup {NoCommit}]

(* Every variable keeps its type; a plan covers the built components.      *)
RefsTypeOK ==
  /\ newest \in [Repository -> RefCommit]
  /\ source \in [Repository -> RefCommit]
  /\ ref \in [Repository -> [RefKind -> RefCommit \cup {NoCommit}]]
  /\ candidate \in [ReleaseComponent -> RefCommit]
  /\ refJob \in [RefKind -> {"idle", "approval", "create", "failed", "done"}]
  /\ plan \in [RefKind -> {<<>>} \cup [Built -> PlanChange]]
  /\ dryRun \in BOOLEAN
  /\ written \in [RefKind -> Nat]
  /\ manifest \in [ReleaseComponent -> RefName]
  /\ lockPR \in {NoPR} \cup
       [refs : [ReleaseComponent -> RefName], by : {"dispatch", "release-tag"}]

(* No run and no rerun moves a ref that exists: only a push to the release *)
(* branch does.  create_ref() can meet a ref that was created since the    *)
(* plan ran, by hand, by a lost request or by the other component of its   *)
(* repository.                                                             *)
RefsNeverMove ==
  [][\A r \in Repository, k \in RefKind :
       ref[r][k] # NoCommit /\ ref'[r][k] # ref[r][k]
         => k = "branch" /\ newest'[r] = newest[r] + 1]_refsVars

(* What makes it so: from its plan on, a release-tag run has every tag it  *)
(* found and every tag it has come past at the planned commit, and what it *)
(* does not come past is left to create.                                   *)
TagsFollowPlan ==
  refJob["tag"] # "idle" =>
    /\ DOMAIN plan["tag"] = Built
    /\ \A i \in Built :
         LET x == plan["tag"][i] IN
         /\ x.component = Components[i]
         /\ x.action \in {"create", "exists"} /\ x.commit # NoCommit
         /\ x.action = "exists" \/ i <= written["tag"]
              => ref[RepositoryOf[Components[i]]]["tag"] = x.commit
    /\ refJob["tag"] = "done" /\ ~dryRun => Left("tag") = {}

(* A release-tag run that reaches its manifest lock has every tag of its   *)
(* plan at the planned commit, however many attempts it took and whoever   *)
(* else created tags in between.                                           *)
TaggedAsPlanned ==
  refJob["tag"] = "done" /\ ~dryRun
    => \A i \in DOMAIN plan["tag"] :
         ref[RepositoryOf[plan["tag"][i].component]]["tag"] = plan["tag"][i].commit

(* The pull request of a release-tag run names no tag that a checkout      *)
(* would not find, for the components that were built.                     *)
LockedTagsExist ==
  lockPR.by = "release-tag"
    => \A i \in Built : ref[RepositoryOf[Components[i]]]["tag"] # NoCommit
=============================================================================
