--------------------------- MODULE ReleaseProofs ----------------------------
(***************************************************************************)
(* Proofs about what a release keeps in the repositories, for any          *)
(* components, products and versions and without the bounds of the checked *)
(* instances: its branches and tags, its release notes, its chores and the *)
(* input manifests it is built from.                                       *)
(***************************************************************************)
EXTENDS ReleaseRefs, ReleaseNotes, ReleaseChores, ManifestUpdates,
        FiniteSetTheorems, SequenceTheorems, WellFoundedInduction, TLAPS

-----------------------------------------------------------------------------
(* ReleaseRefs.                                                            *)

(* The places of the components are positive numbers, and a component has  *)
(* its repository.                                                         *)
LEMMA Places ==
  /\ DOMAIN Components \subseteq Nat \ {0}
  /\ Built \subseteq DOMAIN Components
  /\ \A i \in DOMAIN Components : Components[i] \in ReleaseComponent
  /\ \A c \in ReleaseComponent : RepositoryOf[c] \in Repository
  <1>1. Components \in Seq(ReleaseComponent)
    BY ReleaseRefsAssumption DEF ReleaseRefsAssumption
  <1>2. DOMAIN Components = 1 .. Len(Components) /\ Len(Components) \in Nat
    BY <1>1
  <1> QED  BY <1>2 DEF Built, ReleaseComponent, Repository

(* A commit is a number, and the absence of one is none.                   *)
LEMMA Commits ==
  /\ NoCommit \notin RefCommit
  /\ RefCommit \subseteq Int
  /\ 0 \in RefCommit
  /\ \A n \in RefCommit : n < MaxCommit => n + 1 \in RefCommit
  BY ReleaseRefsAssumption DEF ReleaseRefsAssumption, NoCommit, RefCommit

(* What an entry of a plan of branches or tags may be.                     *)
LEMMA BranchChangeTyped ==
  ASSUME RefsTypeOK, NEW c \in ReleaseComponent, NEW B
  PROVE  BranchChange(c, B) \in PlanChange
  <1>1. RepositoryOf[c] \in Repository
    BY Places
  <1>2. /\ candidate[c] \in RefCommit
        /\ source[RepositoryOf[c]] \in RefCommit
        /\ ref[RepositoryOf[c]]["branch"] \in RefCommit \cup {NoCommit}
    BY <1>1 DEF RefsTypeOK, RefKind
  <1> QED  BY <1>2 DEF BranchChange, Change, PlanChange

(* The change a plan asks of a tag is of the form its table has.           *)
LEMMA TagChangeTyped ==
  ASSUME RefsTypeOK, NEW c \in ReleaseComponent
  PROVE  /\ TagChange(c) \in PlanChange
         /\ TagChange(c).component = c
         /\ TagChange(c).commit = candidate[c]
         /\ TagChange(c).commit \in RefCommit
         /\ TagChange(c).action \in {"create", "exists", "conflict"}
         /\ TagChange(c).action = "exists" => ref[RepositoryOf[c]]["tag"] = candidate[c]
  <1>1. candidate[c] \in RefCommit
    BY DEF RefsTypeOK
  <1>2. CASE ref[RepositoryOf[c]]["tag"] = NoCommit
    BY <1>1, <1>2 DEF TagChange, Change, PlanChange
  <1>3. CASE ref[RepositoryOf[c]]["tag"] # NoCommit /\ ref[RepositoryOf[c]]["tag"] = candidate[c]
    BY <1>1, <1>3 DEF TagChange, Change, PlanChange
  <1>4. CASE ref[RepositoryOf[c]]["tag"] # NoCommit /\ ref[RepositoryOf[c]]["tag"] # candidate[c]
    BY <1>1, <1>4 DEF TagChange, Change, PlanChange
  <1> QED  BY <1>2, <1>3, <1>4

(* A change that is left belongs to the plan, and has a place.             *)
LEMMA ChangeTyped ==
  ASSUME RefsTypeOK, NEW k \in RefKind, NEW i, IsNext(k, i)
  PROVE  /\ i \in Nat
         /\ plan[k] \in [Built -> PlanChange] /\ i \in Built
         /\ plan[k][i] \in PlanChange
         /\ RepositoryOf[plan[k][i].component] \in Repository
  <1>1. i \in DOMAIN plan[k]
    BY DEF IsNext, Left, ToCreate
  <1>2. plan[k] \in {<<>>} \cup [Built -> PlanChange]
    BY DEF RefsTypeOK
  <1>3. plan[k] # <<>>
    BY <1>1
  <1>4. plan[k] \in [Built -> PlanChange] /\ i \in Built
    BY <1>1, <1>2, <1>3
  <1>5. plan[k][i] \in PlanChange
    BY <1>4
  <1> QED  BY <1>4, <1>5, Places DEF PlanChange

(* A new ref of an input manifest.                                         *)
LEMMA LockedTyped ==
  ASSUME RefsTypeOK, NEW action, NEW selected
  PROVE  Locked(action, selected) \in [ReleaseComponent -> RefName]
  <1>1. ASSUME NEW c \in ReleaseComponent PROVE NewRef(c, action) \in RefName
    <2>1. RepositoryOf[c] \in Repository
      BY Places
    <2>2. /\ candidate[c] \in RefCommit
          /\ ref[RepositoryOf[c]]["branch"] \in RefCommit \cup {NoCommit}
          /\ manifest[c] \in RefName
      BY <2>1 DEF RefsTypeOK, RefKind
    <2>3. \A n \in RefCommit \cup {NoCommit} : AtCommit(n) \in RefName
      BY DEF AtCommit, RefName
    <2>4. Named("tag") \in RefName /\ Named("branch") \in RefName
      BY DEF Named, RefName
    <2> QED  BY <2>2, <2>3, <2>4 DEF NewRef
  <1> QED  BY <1>1 DEF Locked, RefsTypeOK

(* The manifest lock's pull request names a ref for each component.        *)
LEMMA LockTyped ==
  ASSUME RefsTypeOK, NEW locked \in [ReleaseComponent -> RefName],
         NEW by \in {"dispatch", "release-tag"}, OpenOrUpdate(locked, by)
  PROVE  lockPR' \in {NoPR} \cup
           [refs : [ReleaseComponent -> RefName], by : {"dispatch", "release-tag"}]
  BY DEF OpenOrUpdate, RefsTypeOK

-----------------------------------------------------------------------------
(* Type correctness.                                                       *)

(* The first state is typed.                                               *)
LEMMA InitTyped == RefsInit => RefsTypeOK
  <1> SUFFICES ASSUME RefsInit PROVE RefsTypeOK
    OBVIOUS
  <1>1. Named("main") \in RefName
    BY DEF Named, RefName
  <1> QED  BY <1>1, Commits DEF RefsInit, RefsTypeOK

(* Planning keeps the types.                                               *)
LEMMA PlanTyped ==
  ASSUME RefsTypeOK, NEW k \in RefKind, NEW p \in [Built -> PlanChange], NEW dry,
         Planned(k, p, dry), dryRun' \in BOOLEAN
  PROVE  RefsTypeOK'
  <1>1. AfterPlan(p, dry) \in {"idle", "done", "approval"}
    BY DEF AfterPlan
  <1>2. /\ plan' \in [RefKind -> {<<>>} \cup [Built -> PlanChange]]
        /\ refJob' \in [RefKind -> {"idle", "approval", "create", "failed", "done"}]
        /\ written' \in [RefKind -> Nat]
    BY <1>1 DEF Planned, RefsTypeOK
  <1> QED  BY <1>2 DEF Planned, RefsTypeOK, remotes, locks, Built

(* Creating a ref, or failing to, keeps the types.                         *)
LEMMA CreateTyped ==
  ASSUME RefsTypeOK, NEW k \in RefKind, NEW i, CreateRef(k, i) \/ CreateRefFails(k, i)
  PROVE  RefsTypeOK'
  <1>1. IsNext(k, i)
    BY DEF CreateRef, CreateRefFails
  <1> DEFINE x == plan[k][i]
             r == RepositoryOf[x.component]
  <1>2. i \in Nat /\ r \in Repository /\ x.commit \in RefCommit \cup {NoCommit}
    BY <1>1, ChangeTyped DEF PlanChange
  <1>3. \/ ref' = ref
        \/ \E v \in RefCommit \cup {NoCommit} : ref' = [ref EXCEPT ![r][k] = v]
    <2>1. ref[r][k] \in RefCommit \cup {NoCommit}
      BY <1>2 DEF RefsTypeOK
    <2>2. CASE CreateRef(k, i)
      BY <1>2, <2>2 DEF CreateRef
    <2>3. CASE CreateRefFails(k, i)
      <3> DEFINE v == IF ref[r][k] = NoCommit THEN x.commit ELSE ref[r][k]
      <3>1. ref' = ref \/ ref' = [ref EXCEPT ![r][k] = v]
        BY <2>3 DEF CreateRefFails
      <3>2. v \in RefCommit \cup {NoCommit}
        BY <1>2, <2>1
      <3> HIDE DEF v, r, x
      <3> QED  BY <3>1, <3>2
    <2> QED  BY <2>2, <2>3
  <1>4. ref' \in [Repository -> [RefKind -> RefCommit \cup {NoCommit}]]
    <2> HIDE DEF r, x
    <2>1. r \in Repository
      BY <1>2
    <2>2. ref \in [Repository -> [RefKind -> RefCommit \cup {NoCommit}]]
      BY DEF RefsTypeOK
    <2>3. ASSUME NEW v \in RefCommit \cup {NoCommit}, ref' = [ref EXCEPT ![r][k] = v]
          PROVE  ref' \in [Repository -> [RefKind -> RefCommit \cup {NoCommit}]]
      BY <2>1, <2>2, <2>3
    <2> QED  BY <1>3, <2>2, <2>3
  <1>5. written' \in [RefKind -> Nat]
    BY <1>2 DEF CreateRef, CreateRefFails, RefsTypeOK
  <1>6. Job(k, "create") \/ Job(k, "failed")
    BY DEF CreateRef, CreateRefFails
  <1> QED  BY <1>4, <1>5, <1>6 DEF Job, RefsTypeOK, locks, Built

(* Every step keeps the types.                                             *)
LEMMA StepTyped == RefsTypeOK /\ [RefsNext]_refsVars => RefsTypeOK'
  <1> SUFFICES ASSUME RefsTypeOK, [RefsNext]_refsVars PROVE RefsTypeOK'
    OBVIOUS
  <1> USE Commits DEF remotes, refRuns, locks, bounds
  <1>1. ASSUME NEW r \in Repository, PushSource(r) PROVE RefsTypeOK'
    BY <1>1 DEF PushSource, RefsTypeOK
  <1>2. ASSUME NEW r \in Repository, PushRelease(r) PROVE RefsTypeOK'
    BY <1>2 DEF PushRelease, RefsTypeOK, RefKind
  <1>3. ASSUME NEW r \in Repository, NEW k \in RefKind, CreateByHand(r, k)
        PROVE  RefsTypeOK'
    BY <1>3 DEF CreateByHand, RefsTypeOK
  <1>4. ASSUME NEW c \in ReleaseComponent, BuildAgain(c) PROVE RefsTypeOK'
    BY <1>4, Places DEF BuildAgain, RefsTypeOK
  <1>5. CASE MergeLock
    BY <1>5 DEF MergeLock, RefsTypeOK
  <1>6. ASSUME NEW B, PlanBranches(B) PROVE RefsTypeOK'
    <2>1. [i \in Built |-> BranchChange(Components[i], B)] \in [Built -> PlanChange]
      BY Places, BranchChangeTyped
    <2> QED  BY <1>6, <2>1, PlanTyped DEF PlanBranches, RefKind, RefsTypeOK
  <1>7. ASSUME NEW dry \in BOOLEAN, PlanTags(dry) PROVE RefsTypeOK'
    <2>1. [i \in Built |-> TagChange(Components[i])] \in [Built -> PlanChange]
      BY Places, TagChangeTyped
    <2> QED  BY <1>7, <2>1, PlanTyped DEF PlanTags, RefKind, RefsTypeOK
  <1>8. ASSUME NEW k \in RefKind,
               Approve(k) \/ NotApproved(k) \/ RerunFailedJob(k) \/ CreateDone(k)
        PROVE  RefsTypeOK'
    <2>1. written' \in [RefKind -> Nat] /\ ref' = ref
      BY <1>8 DEF Approve, NotApproved, RerunFailedJob, CreateDone, RefsTypeOK
    <2>2. Job(k, "create") \/ Job(k, "idle") \/ Job(k, "approval") \/ Job(k, "done")
      BY <1>8 DEF Approve, NotApproved, RerunFailedJob, CreateDone
    <2>3. refJob' \in [RefKind -> {"idle", "approval", "create", "failed", "done"}]
      BY <2>2 DEF Job, RefsTypeOK
    <2>4. UNCHANGED <<newest, source, candidate, plan, dryRun, manifest, lockPR>>
      BY <2>2 DEF Job
    <2> QED  BY <2>1, <2>3, <2>4 DEF RefsTypeOK
  <1>9. ASSUME NEW k \in RefKind, NEW i, CreateRef(k, i) \/ CreateRefFails(k, i)
        PROVE  RefsTypeOK'
    BY <1>9, CreateTyped
  <1>10. CASE BranchRunEnds
    BY <1>10 DEF BranchRunEnds, Job, RefsTypeOK, RefKind
  <1>11. ASSUME NEW action, NEW selected, Lock(action, selected) PROVE RefsTypeOK'
    <2>1. lockPR' \in {NoPR} \cup
           [refs : [ReleaseComponent -> RefName], by : {"dispatch", "release-tag"}]
      BY <1>11, LockedTyped, LockTyped DEF Lock
    <2> QED  BY <1>11, <2>1 DEF Lock, RefsTypeOK
  <1>12. CASE LockToTags
    <2>1. lockPR' \in {NoPR} \cup
           [refs : [ReleaseComponent -> RefName], by : {"dispatch", "release-tag"}]
      BY <1>12, LockedTyped, LockTyped DEF LockToTags, RefsTypeOK
    <2> QED  BY <1>12, <2>1 DEF LockToTags, RefsTypeOK, RefKind
  <1>13. CASE UNCHANGED refsVars
    BY <1>13 DEF refsVars, RefsTypeOK
  <1> QED  BY <1>1, <1>2, <1>3, <1>4, <1>5, <1>6, <1>7, <1>8, <1>9, <1>10, <1>11,
              <1>12, <1>13 DEF RefsNext, World

(* Every variable of the release runs keeps its type.                      *)
THEOREM RefsTypeCorrect == RefsSpec => []RefsTypeOK
  BY InitTyped, StepTyped, PTL DEF RefsSpec

-----------------------------------------------------------------------------
(* No run moves a ref.                                                     *)

(* What the steps of a create job do to a ref that exists: nothing.        *)
LEMMA CreateKeeps ==
  ASSUME RefsTypeOK, NEW k0 \in RefKind, NEW i,
         CreateRef(k0, i) \/ CreateRefFails(k0, i),
         NEW r \in Repository, NEW k \in RefKind, ref[r][k] # NoCommit
  PROVE  ref'[r][k] = ref[r][k]
  <1> DEFINE x == plan[k0][i]
             r0 == RepositoryOf[x.component]
  <1>1. r0 \in Repository
    BY ChangeTyped DEF CreateRef, CreateRefFails
  <1>2. ref \in [Repository -> [RefKind -> RefCommit \cup {NoCommit}]]
    BY DEF RefsTypeOK
  <1>3. \/ ref' = ref
        \/ ref[r0][k0] = NoCommit /\ ref' = [ref EXCEPT ![r0][k0] = x.commit]
    <2> HIDE DEF r0, x
    <2>1. ref[r0][k0] = x.commit /\ ref' = [ref EXCEPT ![r0][k0] = x.commit] => ref' = ref
      BY <1>1, <1>2
    <2>2. [ref EXCEPT ![r0][k0] = ref[r0][k0]] = ref
      BY <1>1, <1>2
    <2> QED  BY <1>1, <1>2, <2>1, <2>2 DEF CreateRef, CreateRefFails, r0, x
  <1> HIDE DEF r0, x
  <1> QED  BY <1>1, <1>2, <1>3

(* The only ref a step may move is a branch, by one pushed commit.         *)
LEMMA StepKeepsRefs ==
  ASSUME RefsTypeOK, [RefsNext]_refsVars,
         NEW r \in Repository, NEW k \in RefKind,
         ref[r][k] # NoCommit, ref'[r][k] # ref[r][k]
  PROVE  k = "branch" /\ newest'[r] = newest[r] + 1
  <1> USE DEF remotes
  <1>1. ref \in [Repository -> [RefKind -> RefCommit \cup {NoCommit}]]
        /\ newest \in [Repository -> RefCommit]
    BY DEF RefsTypeOK
  <1>2. ASSUME NEW r0 \in Repository, PushRelease(r0)
        PROVE  k = "branch" /\ newest'[r] = newest[r] + 1
    BY <1>1, <1>2 DEF PushRelease, RefKind
  <1>3. ASSUME NEW r0 \in Repository, NEW k0 \in RefKind, CreateByHand(r0, k0)
        PROVE  FALSE
    BY <1>1, <1>3 DEF CreateByHand
  <1>4. ASSUME NEW k0 \in RefKind, NEW i, CreateRef(k0, i) \/ CreateRefFails(k0, i)
        PROVE  FALSE
    BY <1>4, CreateKeeps
  <1>5. ref' # ref
    OBVIOUS
  <1>6. ASSUME NEW r0 \in Repository, PushSource(r0) PROVE FALSE
    BY <1>5, <1>6 DEF PushSource
  <1>7. ASSUME NEW c, BuildAgain(c) PROVE FALSE
    BY <1>5, <1>7 DEF BuildAgain
  <1>8. ~MergeLock /\ ~LockToTags /\ ~BranchRunEnds
    BY <1>5 DEF MergeLock, LockToTags, BranchRunEnds
  <1>9. ASSUME NEW B, PlanBranches(B) PROVE FALSE
    BY <1>5, <1>9 DEF PlanBranches, Planned
  <1>10. ASSUME NEW dry, PlanTags(dry) PROVE FALSE
    BY <1>5, <1>10 DEF PlanTags, Planned
  <1>11. ASSUME NEW k0, Approve(k0) \/ NotApproved(k0) \/ RerunFailedJob(k0) \/ CreateDone(k0)
         PROVE  FALSE
    BY <1>5, <1>11 DEF Approve, NotApproved, RerunFailedJob, CreateDone
  <1>12. ASSUME NEW action, NEW selected, Lock(action, selected) PROVE FALSE
    BY <1>5, <1>12 DEF Lock
  <1>13. ~UNCHANGED refsVars
    BY <1>5 DEF refsVars
  <1> QED  BY <1>2, <1>3, <1>4, <1>6, <1>7, <1>8, <1>9, <1>10, <1>11, <1>12, <1>13
           DEF RefsNext, World

(* No run and no rerun moves a ref that exists; only a push moves a        *)
(* release branch, and nothing moves a tag.                                *)
THEOREM RefsStay == RefsSpec => RefsNeverMove
  <1> DEFINE Moves == \A r \in Repository, k \in RefKind :
                        ref[r][k] # NoCommit /\ ref'[r][k] # ref[r][k]
                          => k = "branch" /\ newest'[r] = newest[r] + 1
  <1>1. RefsTypeOK /\ [RefsNext]_refsVars => Moves
    BY StepKeepsRefs
  <1>2. RefsTypeOK /\ [RefsNext]_refsVars => [Moves]_refsVars
    BY <1>1
  <1>3. RefsSpec => [][Moves]_refsVars
    BY <1>2, RefsTypeCorrect, PTL DEF RefsSpec
  <1> QED  BY <1>3 DEF RefsNeverMove

-----------------------------------------------------------------------------
(* A release-tag run follows its plan.                                     *)

(* A tag that is there stays where it is.                                  *)
LEMMA TagStays ==
  ASSUME RefsTypeOK, [RefsNext]_refsVars, NEW i \in Built,
         NEW commit \in RefCommit, ref[RepositoryOf[Components[i]]]["tag"] = commit
  PROVE  ref'[RepositoryOf[Components[i]]]["tag"] = commit
  <1>1. RepositoryOf[Components[i]] \in Repository
    BY Places
  <1>2. commit # NoCommit
    BY Commits
  <1> QED  BY <1>1, <1>2, StepKeepsRefs DEF RefKind

(* A tag job that runs has a commit planned for each built component.      *)
LEMMA PlannedCommits ==
  ASSUME RefsTypeOK, TagsFollowPlan, refJob["tag"] # "idle", NEW i \in Built
  PROVE  plan["tag"][i].commit \in RefCommit /\ i \in Nat
  <1>1. plan["tag"] \in {<<>>} \cup [Built -> PlanChange]
    BY DEF RefsTypeOK, RefKind
  <1>2. DOMAIN plan["tag"] = Built /\ plan["tag"][i].commit # NoCommit
    BY DEF TagsFollowPlan
  <1>3. plan["tag"] \in [Built -> PlanChange]
    BY <1>1, <1>2
  <1>4. plan["tag"][i] \in PlanChange
    BY <1>3
  <1> QED  BY <1>2, <1>4, Places DEF PlanChange

(* A step that leaves the plan alone, comes no further in it, and ends the *)
(* run only when nothing is left.                                          *)
LEMMA FollowedStill ==
  ASSUME RefsTypeOK, TagsFollowPlan, [RefsNext]_refsVars,
         refJob'["tag"] # "idle" => refJob["tag"] # "idle",
         plan'["tag"] = plan["tag"], dryRun' = dryRun,
         written'["tag"] \in {0, written["tag"]},
         refJob'["tag"] = "done" /\ ~dryRun => Left("tag") = {} /\ written'["tag"] = written["tag"]
  PROVE  TagsFollowPlan'
  <1> SUFFICES ASSUME refJob'["tag"] # "idle" PROVE TagsFollowPlan'
    BY DEF TagsFollowPlan
  <1>1. DOMAIN plan'["tag"] = Built
    BY DEF TagsFollowPlan
  <1>2. written["tag"] \in Nat
    BY DEF RefsTypeOK, RefKind
  <1>3. ASSUME NEW i \in Built
        PROVE  LET x == plan'["tag"][i] IN
               /\ x.component = Components[i]
               /\ x.action \in {"create", "exists"} /\ x.commit # NoCommit
               /\ x.action = "exists" \/ i <= written'["tag"]
                    => ref'[RepositoryOf[Components[i]]]["tag"] = x.commit
    <2> DEFINE x == plan["tag"][i]
    <2>1. x.commit \in RefCommit /\ i \in Nat /\ i # 0
      BY PlannedCommits, Places
    <2>2. /\ x.component = Components[i]
          /\ x.action \in {"create", "exists"} /\ x.commit # NoCommit
          /\ x.action = "exists" \/ i <= written["tag"]
               => ref[RepositoryOf[Components[i]]]["tag"] = x.commit
      BY DEF TagsFollowPlan
    <2>3. i <= written'["tag"] => i <= written["tag"]
      BY <1>2, <2>1
    <2>4. x.action = "exists" \/ i <= written'["tag"]
            => ref'[RepositoryOf[Components[i]]]["tag"] = x.commit
      BY <2>1, <2>2, <2>3, TagStays
    <2> QED  BY <2>2, <2>4
  <1>4. refJob'["tag"] = "done" /\ ~dryRun' => Left("tag")' = {}
    BY DEF Left, ToCreate
  <1> QED  BY <1>1, <1>3, <1>4 DEF TagsFollowPlan, Built

(* A fresh plan without a conflict.                                        *)
LEMMA FollowedFromPlan ==
  ASSUME RefsTypeOK, NEW dry \in BOOLEAN, PlanTags(dry)
  PROVE  TagsFollowPlan'
  <1> DEFINE p == [i \in Built |-> TagChange(Components[i])]
  <1> SUFFICES ASSUME refJob'["tag"] # "idle" PROVE TagsFollowPlan'
    BY DEF TagsFollowPlan
  <1>1. /\ plan'["tag"] = p /\ written'["tag"] = 0 /\ ref' = ref
        /\ refJob'["tag"] = AfterPlan(p, dry) /\ dryRun' = dry
    BY DEF PlanTags, Planned, RefsTypeOK, RefKind, remotes
  <1>2. \A i \in Built : p[i].action # "conflict"
    BY <1>1 DEF AfterPlan
  <1>3. ASSUME NEW i \in Built
        PROVE  LET x == plan'["tag"][i] IN
               /\ x.component = Components[i]
               /\ x.action \in {"create", "exists"} /\ x.commit # NoCommit
               /\ x.action = "exists" \/ i <= written'["tag"]
                    => ref'[RepositoryOf[Components[i]]]["tag"] = x.commit
    <2>1. Components[i] \in ReleaseComponent /\ i \in Nat /\ i # 0
      BY Places
    <2>2. plan'["tag"][i] = TagChange(Components[i]) /\ p[i] = TagChange(Components[i])
      BY <1>1
    <2>3. ~(i <= written'["tag"])
      BY <1>1, <2>1
    <2> QED  BY <1>1, <1>2, <2>1, <2>2, <2>3, TagChangeTyped, Commits
  <1>4. refJob'["tag"] = "done" /\ ~dryRun' => Left("tag")' = {}
    <2>1. refJob'["tag"] = "done" /\ ~dry => ToCreate(p) = {}
      BY <1>1 DEF AfterPlan
    <2> QED  BY <1>1, <2>1 DEF Left, ToCreate
  <1> QED  BY <1>1, <1>3, <1>4 DEF TagsFollowPlan, Built

(* A tag that is created, or found at the planned commit: what the run     *)
(* comes past before it was there from the plan on.                        *)
LEMMA FollowedByCreate ==
  ASSUME RefsTypeOK, TagsFollowPlan, [RefsNext]_refsVars, NEW i, CreateRef("tag", i)
  PROVE  TagsFollowPlan'
  <1>1. CASE Job("tag", "failed") /\ UNCHANGED <<ref, written>>
    BY <1>1, FollowedStill DEF CreateRef, Job, RefsTypeOK, RefKind
  <1>2. CASE /\ ref' = [ref EXCEPT ![RepositoryOf[plan["tag"][i].component]]["tag"]
                                      = plan["tag"][i].commit]
             /\ written' = [written EXCEPT !["tag"] = i]
             /\ Job("tag", "create")
    <2>1. IsNext("tag", i) /\ refJob["tag"] = "create"
      BY DEF CreateRef
    <2>2. i \in Nat /\ i \in Built
      BY <2>1, ChangeTyped DEF RefKind
    <2>3. /\ plan' = plan /\ refJob'["tag"] = "create" /\ written'["tag"] = i
          /\ written["tag"] \in Nat
      BY <1>2 DEF Job, RefsTypeOK, RefKind
    <2>4. DOMAIN plan["tag"] = Built
      BY <2>1 DEF TagsFollowPlan
    <2>5. ASSUME NEW j \in Built
          PROVE  LET x == plan["tag"][j] IN
                 /\ x.component = Components[j]
                 /\ x.action \in {"create", "exists"} /\ x.commit # NoCommit
                 /\ x.action = "exists" \/ j <= i
                      => ref'[RepositoryOf[Components[j]]]["tag"] = x.commit
      <3> DEFINE x == plan["tag"][j]
      <3>1. x.commit \in RefCommit /\ j \in Nat
        BY <2>1, PlannedCommits
      <3>2. /\ x.component = Components[j]
            /\ x.action \in {"create", "exists"} /\ x.commit # NoCommit
            /\ x.action = "exists" \/ j <= written["tag"]
                 => ref[RepositoryOf[Components[j]]]["tag"] = x.commit
        BY <2>1 DEF TagsFollowPlan
      <3>3. CASE x.action = "exists" \/ j <= written["tag"]
        BY <3>1, <3>2, <3>3, TagStays
      <3>4. CASE j = i
        <4>1. RepositoryOf[Components[j]] \in Repository
          BY Places
        <4>2. ref \in [Repository -> [RefKind -> RefCommit \cup {NoCommit}]]
          BY DEF RefsTypeOK
        <4>3. ref' = [ref EXCEPT ![RepositoryOf[Components[j]]]["tag"] = x.commit]
          BY <1>2, <3>2, <3>4
        <4>4. ref'[RepositoryOf[Components[j]]]["tag"] = x.commit
          BY <4>1, <4>2, <4>3 DEF RefKind
        <4> QED  BY <3>2, <4>4
      <3>5. CASE x.action = "create" /\ ~(j <= written["tag"]) /\ j # i
        <4>1. j \in Left("tag")
          BY <2>3, <2>4, <3>1, <3>5 DEF Left, ToCreate
        <4>2. ~(j <= i)
          BY <2>1, <2>2, <3>1, <3>5, <4>1 DEF IsNext
        <4> QED  BY <3>2, <3>5, <4>2
      <3> QED  BY <3>2, <3>3, <3>4, <3>5
    <2> QED  BY <2>3, <2>4, <2>5 DEF TagsFollowPlan, Built
  <1> QED  BY <1>1, <1>2 DEF CreateRef

(* Every step keeps the tags to the plan.                                  *)
LEMMA StepFollows ==
  RefsTypeOK /\ TagsFollowPlan /\ [RefsNext]_refsVars => TagsFollowPlan'
  <1> SUFFICES ASSUME RefsTypeOK, TagsFollowPlan, [RefsNext]_refsVars
               PROVE  TagsFollowPlan'
    OBVIOUS
  <1> DEFINE Rests == UNCHANGED <<refJob["tag"], plan["tag"], written["tag"], dryRun>>
  <1> USE DEF remotes, refRuns, locks, RefKind
  <1>1. ASSUME Rests PROVE TagsFollowPlan'
    <2>1. refJob["tag"] = "done" /\ ~dryRun => Left("tag") = {}
      BY DEF TagsFollowPlan
    <2> QED  BY <1>1, <2>1, FollowedStill
  <1>2. ASSUME World PROVE Rests
    BY <1>2 DEF World, PushSource, PushRelease, CreateByHand, BuildAgain, MergeLock
  <1>3. ASSUME NEW B, PlanBranches(B) PROVE Rests
    BY <1>3 DEF PlanBranches, Planned, RefsTypeOK
  <1>4. ASSUME NEW dry \in BOOLEAN, PlanTags(dry) PROVE TagsFollowPlan'
    BY <1>4, FollowedFromPlan
  <1>5. ASSUME \/ Approve("branch") \/ NotApproved("branch") \/ RerunFailedJob("branch")
               \/ CreateDone("branch") \/ BranchRunEnds
        PROVE  Rests
    BY <1>5 DEF Approve, NotApproved, RerunFailedJob, CreateDone, BranchRunEnds, Job, RefsTypeOK
  <1>6. ASSUME NEW i, CreateRef("branch", i) \/ CreateRefFails("branch", i) PROVE Rests
    BY <1>6 DEF CreateRef, CreateRefFails, Job, RefsTypeOK
  <1>7. ASSUME Approve("tag") \/ NotApproved("tag") \/ RerunFailedJob("tag")
        PROVE  TagsFollowPlan'
    <2>1. /\ refJob["tag"] # "idle" /\ refJob'["tag"] \in {"create", "idle", "approval"}
          /\ plan' = plan /\ dryRun' = dryRun /\ written'["tag"] \in {0, written["tag"]}
      BY <1>7 DEF Approve, NotApproved, RerunFailedJob, Job, RefsTypeOK
    <2> QED  BY <2>1, FollowedStill
  <1>8. ASSUME CreateDone("tag") PROVE TagsFollowPlan'
    BY <1>8, FollowedStill DEF CreateDone, Job
  <1>9. ASSUME NEW i, CreateRef("tag", i) PROVE TagsFollowPlan'
    BY <1>9, FollowedByCreate
  <1>10. ASSUME NEW i, CreateRefFails("tag", i) PROVE TagsFollowPlan'
    <2>1. /\ refJob["tag"] = "create" /\ refJob'["tag"] = "failed"
          /\ plan' = plan /\ dryRun' = dryRun /\ written' = written
      BY <1>10 DEF CreateRefFails, Job, RefsTypeOK
    <2> QED  BY <2>1, FollowedStill
  <1>11. ASSUME NEW action, NEW selected, Lock(action, selected) PROVE Rests
    BY <1>11 DEF Lock
  <1>12. ASSUME LockToTags PROVE TagsFollowPlan'
    BY <1>12 DEF LockToTags, TagsFollowPlan, RefsTypeOK
  <1>13. ASSUME UNCHANGED refsVars PROVE Rests
    BY <1>13 DEF refsVars
  <1> HIDE DEF Rests
  <1> QED  BY <1>1, <1>2, <1>3, <1>4, <1>5, <1>6, <1>7, <1>8, <1>9, <1>10, <1>11, <1>12,
              <1>13 DEF RefsNext

(* A tag job has made exactly the tags of its plan it has passed.          *)
LEMMA TagsFollow == RefsSpec => []TagsFollowPlan
  <1>1. RefsInit => TagsFollowPlan
    BY DEF RefsInit, TagsFollowPlan, RefKind
  <1> QED  BY <1>1, StepFollows, RefsTypeCorrect, PTL DEF RefsSpec

(* The tags of the plan when nothing of it is left.                        *)
LEMMA AllTagged ==
  ASSUME RefsTypeOK, TagsFollowPlan, refJob["tag"] = "done", ~dryRun, NEW i \in Built
  PROVE  /\ plan["tag"][i].component = Components[i]
         /\ ref[RepositoryOf[Components[i]]]["tag"] = plan["tag"][i].commit
         /\ plan["tag"][i].commit # NoCommit
  <1>1. Left("tag") = {} /\ DOMAIN plan["tag"] = Built
    BY DEF TagsFollowPlan
  <1>2. i \in Nat /\ written["tag"] \in Nat
    BY PlannedCommits DEF RefsTypeOK, RefKind
  <1>3. plan["tag"][i].action = "create" => i <= written["tag"]
    BY <1>1, <1>2 DEF Left, ToCreate
  <1> QED  BY <1>3 DEF TagsFollowPlan

(* A release-tag run that reaches its lock has every tag it planned,       *)
(* through failed requests, reruns and refs created by others.             *)
THEOREM TagsAsPlanned == RefsSpec => []TaggedAsPlanned
  <1>1. RefsTypeOK /\ TagsFollowPlan => TaggedAsPlanned
    <2> SUFFICES ASSUME RefsTypeOK, TagsFollowPlan, refJob["tag"] = "done", ~dryRun,
                        NEW i \in DOMAIN plan["tag"]
                 PROVE  ref[RepositoryOf[plan["tag"][i].component]]["tag"]
                          = plan["tag"][i].commit
      BY DEF TaggedAsPlanned
    <2>1. i \in Built
      BY DEF TagsFollowPlan
    <2> QED  BY <2>1, AllTagged
  <1> QED  BY <1>1, TagsFollow, RefsTypeCorrect, PTL

(* Every step keeps the tags a lock names.                                 *)
LEMMA StepLocks ==
  RefsTypeOK /\ TagsFollowPlan /\ LockedTagsExist /\ [RefsNext]_refsVars => LockedTagsExist'
  <1> SUFFICES ASSUME RefsTypeOK, TagsFollowPlan, LockedTagsExist, [RefsNext]_refsVars,
                      lockPR'.by = "release-tag", NEW i \in Built
               PROVE  ref'[RepositoryOf[Components[i]]]["tag"] # NoCommit
    BY DEF LockedTagsExist, Built
  <1> DEFINE Tagged == ref[RepositoryOf[Components[i]]]["tag"] # NoCommit
  <1> USE DEF remotes, refRuns, locks, RefKind
  <1>1. ASSUME Tagged PROVE ref'[RepositoryOf[Components[i]]]["tag"] # NoCommit
    <2>1. RepositoryOf[Components[i]] \in Repository
      BY Places
    <2> QED  BY <1>1, <2>1, StepKeepsRefs
  <1>2. ASSUME lockPR' = lockPR PROVE Tagged
    BY <1>2 DEF LockedTagsExist
  <1>3. ASSUME World PROVE lockPR' = lockPR
    <2>1. ~MergeLock
      BY DEF MergeLock, NoPR
    <2> QED  BY <1>3, <2>1 DEF World, PushSource, PushRelease, CreateByHand, BuildAgain
  <1>4. ASSUME NEW k, NEW p, NEW dry, Planned(k, p, dry) PROVE lockPR' = lockPR
    BY <1>4 DEF Planned
  <1>5. ASSUME NEW k, NEW j,
               \/ Approve(k) \/ NotApproved(k) \/ RerunFailedJob(k)
               \/ CreateRef(k, j) \/ CreateRefFails(k, j)
               \/ CreateDone(k) \/ BranchRunEnds
        PROVE  lockPR' = lockPR
    BY <1>5 DEF Approve, NotApproved, RerunFailedJob, CreateRef, CreateRefFails,
                CreateDone, BranchRunEnds, Job
  <1>6. ASSUME NEW action, NEW selected, Lock(action, selected) PROVE lockPR' = lockPR
    BY <1>6 DEF Lock, OpenOrUpdate
  <1>7. ASSUME LockToTags PROVE Tagged
    <2>1. CASE dryRun
      BY <1>2, <1>7, <2>1 DEF LockToTags
    <2>2. CASE ~dryRun
      BY <1>7, <2>2, AllTagged DEF LockToTags
    <2> QED  BY <2>1, <2>2
  <1>8. ASSUME UNCHANGED refsVars PROVE lockPR' = lockPR
    BY <1>8 DEF refsVars
  <1> HIDE DEF Tagged
  <1> QED  BY <1>1, <1>2, <1>3, <1>4, <1>5, <1>6, <1>7, <1>8 DEF RefsNext, PlanBranches, PlanTags

(* The lock of a release-tag run names no tag that is not there.           *)
THEOREM LockedTagsAreThere == RefsSpec => []LockedTagsExist
  <1>1. RefsInit => LockedTagsExist
    BY DEF RefsInit, LockedTagsExist, NoPR
  <1> QED  BY <1>1, StepLocks, TagsFollow, RefsTypeCorrect, PTL DEF RefsSpec

-----------------------------------------------------------------------------
(* ReleaseNotes.                                                           *)

Commit == DOMAIN MessageOf

(* The branch of a repository after m pushes, and how many there were.     *)
BranchAt(r, m) ==
  [i \in 1 .. m + Len(CommitsOf[r]) |->
     IF i <= m THEN PushedTo[r][m + 1 - i] ELSE CommitsOf[r][i - m]]
Pushes(r, commits) == Len(commits) - Len(CommitsOf[r])

RepoOfNotes == NotesRepo[Component]
Began == Pushes(RepoOfNotes, generation.before)
Moved == Pushes(RepoOfNotes, branch[RepoOfNotes])

(* The commits of the branch, as the pages before page p show them, are    *)
(* those of the start as far as they have not been moved to a later page.  *)
BeforePage(p) == (p - 1) * PageSize
PagesInv ==
  /\ \A i \in DOMAIN generation.before :
       i + (Moved - Began) <= BeforePage(generation.page)
         => \E j \in DOMAIN generation.fetched : generation.fetched[j] = generation.before[i]
  /\ Moved = Began =>
       /\ Len(generation.fetched) = BeforePage(generation.page)
       /\ \A j \in DOMAIN generation.fetched :
            j \in DOMAIN generation.before /\ generation.fetched[j] = generation.before[j]

(* Once the pages end, nothing of the start is missing unless one failed.  *)
FetchedInv ==
  /\ generation.cut \/
       \A i \in DOMAIN generation.before :
         \E j \in DOMAIN generation.fetched : generation.fetched[j] = generation.before[i]
  /\ Moved = Began =>
       \A j \in DOMAIN generation.fetched :
         j \in DOMAIN generation.before /\ generation.fetched[j] = generation.before[j]

(* What is known of a commit by the labels of the number it goes by.       *)
LabelsInv ==
  /\ DOMAIN tasks = DOMAIN generation.fetched
  /\ \A i \in DOMAIN tasks :
       /\ tasks[i] \in {"queued", "searching", "asked", "kept", "filtered"}
       /\ generation.phase = "model" => tasks[i] \in {"kept", "filtered"}
       /\ tasks[i] = "searching" => FirstNamed(CommitAt(i)) = "none"
       /\ tasks[i] = "kept" /\ NumberAt(i) \in FilteredPRs => i \in failed
       /\ tasks[i] = "filtered" => NumberAt(i) \in FilteredPRs

(* Only what was found is remembered.                                      *)
CacheInv == \A n \in DOMAIN prCache : prCache[n] = TRUE

(* The notes of one file are as NotesAreExact wants them.                  *)
FileIsExact(n) ==
  n.of \notin HasChangelog =>
    /\ \A i \in DOMAIN n.before :
         \/ NumberOf(n.before[i]) \in FilteredPRs \/ n.cut
         \/ n.before[i] \in {n.fetched[j] : j \in n.entries}
    /\ \A i \in n.entries : NumberOf(n.fetched[i]) \in FilteredPRs => i \in n.failed
    /\ (\E i, j \in n.entries : i # j /\ n.fetched[i] = n.fetched[j]) => n.after # n.before
FilesAreExact == \A f \in DOMAIN noteFiles : FileIsExact(noteFiles[f])

NotesInv ==
  /\ branch \in [DOMAIN CommitsOf -> Seq(Commit)]
  /\ \A r \in DOMAIN CommitsOf :
       /\ Pushes(r, branch[r]) \in 0 .. Len(PushedTo[r])
       /\ branch[r] = BranchAt(r, Pushes(r, branch[r]))
  /\ generation \in [phase : {"idle", "pages", "labels", "model", "exit"},
                     todo : Seq(ToSet(NotesComponents)), page : Nat \ {0},
                     before : Seq(Commit), fetched : Seq(Commit), cut : BOOLEAN, attempt : Nat]
  /\ CacheInv
  /\ generation.phase = "idle" => generation.page = 1 /\ generation.fetched = <<>>
  /\ generation.phase \in {"pages", "labels", "model"} =>
       /\ generation.todo # <<>>
       /\ Began \in 0 .. Moved /\ generation.before = BranchAt(RepoOfNotes, Began)
       /\ generation.phase # "model" => Component \notin HasChangelog
       /\ generation.phase = "pages" => PagesInv
       /\ generation.phase # "pages" /\ Component \notin HasChangelog => FetchedInv /\ LabelsInv
  /\ FilesAreExact

(* The parts of a list.                                                     *)
LEMMA HeadAndTail ==
  ASSUME NEW S, NEW s \in Seq(S), s # <<>>
  PROVE  /\ Head(s) \in S /\ Tail(s) \in Seq(S)
         /\ ToSet(s) = {Head(s)} \cup ToSet(Tail(s))
  <1>1. /\ Len(s) \in Nat /\ Len(s) >= 1 /\ Head(s) = s[1] /\ DOMAIN s = 1 .. Len(s)
        /\ Tail(s) \in Seq(S) /\ Len(Tail(s)) = Len(s) - 1
        /\ DOMAIN Tail(s) = 1 .. Len(s) - 1
        /\ \A i \in 1 .. Len(s) - 1 : Tail(s)[i] = s[i + 1]
    OBVIOUS
  <1>2. ASSUME NEW x \in ToSet(s)
        PROVE  x = Head(s) \/ x \in ToSet(Tail(s))
    <2>1. PICK i \in 1 .. Len(s) : x = s[i]
      BY <1>1 DEF ToSet
    <2>2. CASE i # 1
      <3>1. i - 1 \in 1 .. Len(s) - 1 /\ (i - 1) + 1 = i
        BY <2>2, <1>1
      <3>2. x = Tail(s)[i - 1]
        BY <3>1, <1>1, <2>1
      <3> QED  BY <3>1, <3>2, <1>1 DEF ToSet
    <2> QED  BY <2>1, <2>2, <1>1
  <1>3. ASSUME NEW x \in ToSet(Tail(s))
        PROVE  x \in ToSet(s)
    <2>1. PICK i \in 1 .. Len(s) - 1 : x = s[i + 1]
      BY <1>1 DEF ToSet
    <2>2. i + 1 \in DOMAIN s
      BY <1>1
    <2> QED  BY <2>1, <2>2 DEF ToSet
  <1>4. Head(s) \in ToSet(s) /\ Head(s) \in S
    BY <1>1 DEF ToSet
  <1> QED  BY <1>1, <1>2, <1>3, <1>4

(* The pages follow one another.                                           *)
LEMMA PagesFollow ==
  ASSUME NEW p \in Nat \ {0}
  PROVE  /\ BeforePage(p) \in Nat /\ BeforePage(p + 1) = BeforePage(p) + PageSize
         /\ p * PageSize = BeforePage(p) + PageSize /\ PageSize \in Nat \ {0}
         /\ BeforePage(1) = 0
  <1>1. PageSize \in Nat \ {0}
    BY NotesAssumption
  <1>2. (p - 1) * PageSize \in Nat
    BY <1>1
  <1>3. (p + 1 - 1) * PageSize = (p - 1) * PageSize + PageSize
    BY <1>1
  <1>4. p * PageSize = (p - 1) * PageSize + PageSize
    BY <1>1
  <1>5. (1 - 1) * PageSize = 0
    BY <1>1
  <1> QED  BY <1>1, <1>2, <1>3, <1>4, <1>5 DEF BeforePage

(* A page shows the commits that follow those of the pages before.         *)
LEMMA PageShows ==
  ASSUME NEW S, NEW s \in Seq(S), NEW p \in Nat \ {0}
  PROVE  LET d == PageOf(s, p)
             m == BeforePage(p)
         IN  /\ d \in Seq(S) /\ Len(d) \in 0 .. PageSize
             /\ \A i \in 1 .. Len(d) : m + i \in 1 .. Len(s) /\ d[i] = s[m + i]
             /\ \A k \in 1 .. Len(s) : k > m /\ k <= m + PageSize => k - m \in 1 .. Len(d)
             /\ Len(d) < PageSize => Len(s) <= m + Len(d) \/ Len(s) <= m
  <1> DEFINE d == PageOf(s, p)
             m == BeforePage(p)
             n == Min({p * PageSize, Len(s)})
  <1>1. m \in Nat /\ PageSize \in Nat \ {0} /\ p * PageSize = m + PageSize /\ Len(s) \in Nat
    <2>1. Len(s) \in Nat
      OBVIOUS
    <2>2. BeforePage(p) \in Nat /\ PageSize \in Nat \ {0} /\ p * PageSize = BeforePage(p) + PageSize
      BY PagesFollow
    <2> QED  BY <2>1, <2>2
  <1>2. n = IF m + PageSize <= Len(s) THEN m + PageSize ELSE Len(s)
    <2> DEFINE v == IF m + PageSize <= Len(s) THEN m + PageSize ELSE Len(s)
    <2>0. m + PageSize \in Nat
      BY <1>1
    <2> HIDE DEF m
    <2>1. v \in {m + PageSize, Len(s)} /\ \A y \in {m + PageSize, Len(s)} : v <= y
      BY <1>1, <2>0
    <2>2. \A x \in {m + PageSize, Len(s)} :
            (\A y \in {m + PageSize, Len(s)} : x <= y) => x = v
      BY <1>1, <2>0
    <2>3. Min({m + PageSize, Len(s)}) = v
      <3> HIDE DEF v
      <3> QED  BY <2>1, <2>2 DEF Min
    <2> QED  BY <1>1, <2>3
  <1>3. d = SubSeq(s, m + 1, n)
    BY DEF PageOf, BeforePage
  <1> HIDE DEF m, n, d
  <1>4. n \in Nat /\ n <= Len(s) /\ m + 1 \in Int
    BY <1>1, <1>2
  <1>5. \A i \in m + 1 .. n : s[i] \in S
    BY <1>1, <1>4
  <1>6. /\ d \in Seq(S) /\ Len(d) = (IF m + 1 <= n THEN n - (m + 1) + 1 ELSE 0)
        /\ \A i \in 1 .. n - (m + 1) + 1 : d[i] = s[(m + 1) + i - 1]
    BY <1>3, <1>4, <1>5, SubSeqProperties
  <1>7. Len(d) = IF m < n THEN n - m ELSE 0
    BY <1>1, <1>4, <1>6
  <1>8. \A i \in 1 .. Len(d) : d[i] = s[m + i]
    BY <1>1, <1>4, <1>6, <1>7
  <1>9. Len(d) \in 0 .. PageSize /\ \A i \in 1 .. Len(d) : m + i \in 1 .. Len(s)
    BY <1>1, <1>2, <1>4, <1>7
  <1>10. \A k \in 1 .. Len(s) : k > m /\ k <= m + PageSize => k - m \in 1 .. Len(d)
    BY <1>1, <1>2, <1>4, <1>7
  <1>11. Len(d) < PageSize => Len(s) <= m + Len(d) \/ Len(s) <= m
    BY <1>1, <1>2, <1>4, <1>7
  <1> QED  BY <1>6, <1>8, <1>9, <1>10, <1>11 DEF m, d

(* A branch moves by one commit at its front, and never has one twice.     *)
LEMMA BranchesArePushed ==
  ASSUME NEW r \in DOMAIN CommitsOf, NEW m \in 0 .. Len(PushedTo[r])
  PROVE  /\ BranchAt(r, m) \in Seq(Commit) /\ Pushes(r, BranchAt(r, m)) = m
         /\ Len(BranchAt(r, m)) = m + Len(CommitsOf[r])
         /\ IsInjective(BranchAt(r, m))
         /\ \A b \in 0 .. m : \A i \in DOMAIN BranchAt(r, b) :
              /\ i + (m - b) \in DOMAIN BranchAt(r, m)
              /\ BranchAt(r, m)[i + (m - b)] = BranchAt(r, b)[i]
         /\ m < Len(PushedTo[r]) => <<PushedTo[r][m + 1]>> \o BranchAt(r, m) = BranchAt(r, m + 1)
  <1> DEFINE c == Len(CommitsOf[r])
             Old == CommitsOf[r]
             New == PushedTo[r]
  <1>1. /\ Old \in Seq(Commit) /\ New \in Seq(Commit) /\ c \in Nat /\ Len(New) \in Nat
        /\ m \in Nat /\ m <= Len(New)
    <2>1. Old \in Seq(Commit) /\ New \in Seq(Commit)
      BY NotesAssumption DEF Commit
    <2> QED  BY <2>1
  <1>2. \A i \in 1 .. c : Old[i] \in Commit /\ Old[i] \in ToSet(Old)
    BY <1>1 DEF ToSet
  <1>3. \A i \in 1 .. Len(New) : New[i] \in Commit /\ New[i] \in ToSet(New)
    BY <1>1 DEF ToSet
  <1>4. /\ \A i, j \in 1 .. c : Old[i] = Old[j] => i = j
        /\ \A i, j \in 1 .. Len(New) : New[i] = New[j] => i = j
        /\ \A i \in 1 .. c, j \in 1 .. Len(New) : Old[i] # New[j]
    <2>1. IsInjective(Old) /\ IsInjective(New) /\ ToSet(Old) \cap ToSet(New) = {}
      BY NotesAssumption
    <2>2. DOMAIN Old = 1 .. c /\ DOMAIN New = 1 .. Len(New)
      BY <1>1
    <2> QED  BY <2>1, <2>2, <1>2, <1>3 DEF IsInjective
  <1> HIDE DEF Old, New, c
  <1>5. ASSUME NEW b \in Nat, b <= Len(New)
        PROVE  /\ DOMAIN BranchAt(r, b) = 1 .. b + c /\ BranchAt(r, b) \in Seq(Commit)
               /\ Len(BranchAt(r, b)) = b + c
               /\ \A i \in 1 .. b :
                    BranchAt(r, b)[i] = New[b + 1 - i] /\ b + 1 - i \in 1 .. Len(New)
               /\ \A i \in b + 1 .. b + c : BranchAt(r, b)[i] = Old[i - b] /\ i - b \in 1 .. c
    <2>1. BranchAt(r, b) = [i \in 1 .. b + c |-> IF i <= b THEN New[b + 1 - i] ELSE Old[i - b]]
      BY DEF BranchAt, c, New, Old
    <2>2. /\ \A i \in 1 .. b : b + 1 - i \in 1 .. Len(New)
          /\ \A i \in b + 1 .. b + c : i - b \in 1 .. c
      BY <1>1, <1>5
    <2>3. /\ \A i \in 1 .. b : i \in 1 .. b + c /\ i <= b
          /\ \A i \in b + 1 .. b + c : i \in 1 .. b + c /\ ~(i <= b)
          /\ \A i \in 1 .. b + c : i \in 1 .. b \/ i \in b + 1 .. b + c
          /\ b + c \in Nat
      BY <1>1
    <2>4. /\ \A i \in 1 .. b : BranchAt(r, b)[i] = New[b + 1 - i]
          /\ \A i \in b + 1 .. b + c : BranchAt(r, b)[i] = Old[i - b]
      BY <2>1, <2>3
    <2>5. \A i \in 1 .. b + c : BranchAt(r, b)[i] \in Commit
      BY <1>2, <1>3, <2>2, <2>3, <2>4
    <2>6. BranchAt(r, b) \in [1 .. b + c -> Commit]
      BY <2>1, <2>5
    <2>7. BranchAt(r, b) \in Seq(Commit) /\ DOMAIN BranchAt(r, b) = 1 .. b + c
      BY <2>3, <2>6
    <2>8. Len(BranchAt(r, b)) = b + c
      BY <2>3, <2>7
    <2> QED  BY <2>2, <2>4, <2>7, <2>8
  <1>6. /\ DOMAIN BranchAt(r, m) = 1 .. m + c /\ BranchAt(r, m) \in Seq(Commit)
        /\ Len(BranchAt(r, m)) = m + c
    BY <1>1, <1>5
  <1>7. Pushes(r, BranchAt(r, m)) = m
    BY <1>1, <1>6 DEF Pushes, c
  <1>8. IsInjective(BranchAt(r, m))
    <2> SUFFICES ASSUME NEW i \in 1 .. m + c, NEW j \in 1 .. m + c,
                        BranchAt(r, m)[i] = BranchAt(r, m)[j]
                 PROVE  i = j
      BY <1>6 DEF IsInjective
    <2>0. /\ \A h \in 1 .. m + c : h <= m => h \in 1 .. m
          /\ \A h \in 1 .. m + c : h > m => h \in m + 1 .. m + c
      BY <1>1
    <2>5. /\ \A h \in 1 .. m :
                BranchAt(r, m)[h] = New[m + 1 - h] /\ m + 1 - h \in 1 .. Len(New)
          /\ \A h \in m + 1 .. m + c : BranchAt(r, m)[h] = Old[h - m] /\ h - m \in 1 .. c
      BY <1>1, <1>5
    <2>1. CASE i <= m /\ j <= m
      <3>1. New[m + 1 - i] = New[m + 1 - j] /\ m + 1 - i \in 1 .. Len(New)
            /\ m + 1 - j \in 1 .. Len(New)
        BY <2>0, <2>5, <2>1
      <3>2. m + 1 - i = m + 1 - j
        BY <1>4, <3>1
      <3> QED  BY <1>1, <3>2
    <2>2. CASE i > m /\ j > m
      <3>1. Old[i - m] = Old[j - m] /\ i - m \in 1 .. c /\ j - m \in 1 .. c
        BY <2>0, <2>5, <2>2
      <3>2. i - m = j - m
        BY <1>4, <3>1
      <3> QED  BY <1>1, <3>2
    <2>3. CASE i <= m /\ j > m
      <3>1. New[m + 1 - i] = Old[j - m] /\ m + 1 - i \in 1 .. Len(New) /\ j - m \in 1 .. c
        BY <2>0, <2>5, <2>3
      <3> QED  BY <1>4, <3>1
    <2>4. CASE i > m /\ j <= m
      <3>1. Old[i - m] = New[m + 1 - j] /\ m + 1 - j \in 1 .. Len(New) /\ i - m \in 1 .. c
        BY <2>0, <2>5, <2>4
      <3> QED  BY <1>4, <3>1
    <2> QED  BY <1>1, <2>1, <2>2, <2>3, <2>4
  <1>9. ASSUME NEW b \in 0 .. m, NEW i \in DOMAIN BranchAt(r, b)
        PROVE  /\ i + (m - b) \in DOMAIN BranchAt(r, m)
               /\ BranchAt(r, m)[i + (m - b)] = BranchAt(r, b)[i]
    <2>1. b \in Nat /\ b <= Len(New) /\ i \in 1 .. b + c
      BY <1>1, <1>5
    <2>2. i + (m - b) \in 1 .. m + c
      BY <1>1, <2>1
    <2>3. CASE i <= b
      <3>1. i \in 1 .. b /\ i + (m - b) \in 1 .. m /\ m + 1 - (i + (m - b)) = b + 1 - i
        BY <1>1, <2>1, <2>3
      <3>2. BranchAt(r, b)[i] = New[b + 1 - i]
        BY <1>5, <2>1, <3>1
      <3>3. BranchAt(r, m)[i + (m - b)] = New[m + 1 - (i + (m - b))]
        BY <1>1, <1>5, <3>1
      <3> QED  BY <1>6, <2>2, <3>1, <3>2, <3>3
    <2>4. CASE i > b
      <3>1. /\ i \in b + 1 .. b + c /\ i + (m - b) \in m + 1 .. m + c
            /\ i + (m - b) - m = i - b
        BY <1>1, <2>1, <2>4
      <3> QED  BY <1>1, <1>5, <1>6, <2>1, <2>2, <3>1
    <2> QED  BY <2>1, <2>3, <2>4
  <1>10. ASSUME m < Len(New) PROVE <<New[m + 1]>> \o BranchAt(r, m) = BranchAt(r, m + 1)
    <2> DEFINE one == <<New[m + 1]>>
               s == one \o BranchAt(r, m)
               t == BranchAt(r, m + 1)
    <2>1. m + 1 \in Nat /\ m + 1 <= Len(New) /\ m + 1 \in 1 .. Len(New)
      BY <1>1, <1>10
    <2>2. one \in Seq(Commit) /\ Len(one) = 1 /\ one[1] = New[m + 1]
      BY <1>3, <2>1
    <2>3. /\ t \in Seq(Commit) /\ Len(t) = m + 1 + c
          /\ \A i \in 1 .. m + 1 : t[i] = New[m + 1 + 1 - i]
          /\ \A i \in m + 1 + 1 .. m + 1 + c : t[i] = Old[i - (m + 1)]
      BY <1>5, <2>1
    <2> HIDE DEF one, t
    <2>4. /\ s \in Seq(Commit) /\ Len(s) = 1 + (m + c)
          /\ \A i \in 1 .. 1 : s[i] = one[i]
          /\ \A i \in 1 .. m + c : s[1 + i] = BranchAt(r, m)[i]
      <3> DEFINE u == BranchAt(r, m)
      <3>1. u \in Seq(Commit) /\ Len(u) = m + c
        BY <1>6
      <3> HIDE DEF u
      <3>2. /\ one \o u \in Seq(Commit) /\ Len(one \o u) = Len(one) + Len(u)
            /\ \A i \in 1 .. Len(one) + Len(u) :
                 (one \o u)[i] = IF i <= Len(one) THEN one[i] ELSE u[i - Len(one)]
        BY <2>2, <3>1, ConcatProperties
      <3>3. \A i \in 1 .. m + c : 1 + i \in 1 .. 1 + (m + c) /\ ~(1 + i <= 1) /\ 1 + i - 1 = i
        BY <1>1
      <3>4. 1 \in 1 .. 1 + (m + c)
        BY <1>1
      <3> QED  BY <2>2, <3>1, <3>2, <3>3, <3>4 DEF u
    <2> HIDE DEF s
    <2>5. ASSUME NEW i \in 1 .. Len(s) PROVE s[i] = t[i]
      <3>0. i \in 1 .. 1 + (m + c)
        BY <2>4
      <3>1. CASE i = 1
        <4>1. 1 \in 1 .. m + 1 /\ m + 1 + 1 - 1 = m + 1
          BY <1>1
        <4> QED  BY <2>2, <2>3, <2>4, <3>1, <4>1
      <3>2. CASE i > 1 /\ i <= m + 1
        <4>1. i - 1 \in 1 .. m /\ i - 1 \in 1 .. m + c /\ 1 + (i - 1) = i /\ i \in 1 .. m + 1
              /\ m + 1 - (i - 1) = m + 1 + 1 - i
          BY <1>1, <3>0, <3>2
        <4>2. s[i] = BranchAt(r, m)[i - 1]
          BY <2>4, <4>1
        <4>3. BranchAt(r, m)[i - 1] = New[m + 1 - (i - 1)]
          BY <1>1, <1>5, <4>1
        <4> QED  BY <2>3, <4>1, <4>2, <4>3
      <3>3. CASE i > m + 1
        <4>1. /\ i - 1 \in m + 1 .. m + c /\ i - 1 \in 1 .. m + c /\ 1 + (i - 1) = i
              /\ i \in m + 1 + 1 .. m + 1 + c /\ (i - 1) - m = i - (m + 1)
          BY <1>1, <3>0, <3>3
        <4>2. s[i] = BranchAt(r, m)[i - 1]
          BY <2>4, <4>1
        <4>3. BranchAt(r, m)[i - 1] = Old[(i - 1) - m]
          BY <1>1, <1>5, <4>1
        <4> QED  BY <2>3, <4>1, <4>2, <4>3
      <3> QED  BY <1>1, <3>0, <3>1, <3>2, <3>3
    <2>6. Len(s) = Len(t)
      BY <1>1, <2>3, <2>4
    <2>7. s = t
      BY <2>3, <2>4, <2>5, <2>6, SeqEqual
    <2> QED  BY <2>7 DEF s, t, one
  <1> QED  BY <1>6, <1>7, <1>8, <1>9, <1>10 DEF c, New

(* A component that is worked on has a repository.                         *)
LEMMA ComponentHasRepo ==
  ASSUME NotesInv, generation.todo # <<>>
  PROVE  /\ Component \in ToSet(NotesComponents) /\ RepoOfNotes \in DOMAIN CommitsOf
         /\ Tail(generation.todo) \in Seq(ToSet(NotesComponents))
         /\ Moved \in 0 .. Len(PushedTo[RepoOfNotes])
         /\ branch[RepoOfNotes] = BranchAt(RepoOfNotes, Moved)
         /\ branch[RepoOfNotes] \in Seq(Commit)
  <1>1. generation.todo \in Seq(ToSet(NotesComponents))
    BY DEF NotesInv
  <1>2. /\ Head(generation.todo) \in ToSet(NotesComponents)
        /\ Tail(generation.todo) \in Seq(ToSet(NotesComponents))
    BY <1>1, HeadTailProperties
  <1>3. RepoOfNotes \in DOMAIN CommitsOf
    BY <1>2, NotesAssumption DEF RepoOfNotes, Component
  <1> QED  BY <1>2, <1>3 DEF NotesInv, Moved, Component

(* What a step leaves alone when it works on neither branches nor notes.   *)
LEMMA NotesUntouched ==
  ASSUME NotesInv, UNCHANGED <<branch, generation, tasks, prCache, failed, noteFiles>>
  PROVE  NotesInv'
  <1>1. NotesInv
    OBVIOUS
  <1> QED  BY <1>1 DEF NotesInv, Pushes, Moved, Began, RepoOfNotes, PagesInv, FetchedInv,
              LabelsInv, CacheInv, FilesAreExact, NumberAt, CommitAt, BeforePage, Component

(* Between two components nothing is fetched.                              *)
LEMMA BetweenComponents ==
  ASSUME NotesInv, NEW phase \in {"idle", "exit"}, NEW todo \in Seq(ToSet(NotesComponents)),
         generation' = Generate(phase, todo), branch' = branch,
         CacheInv', FilesAreExact'
  PROVE  NotesInv'
  <1>1. generation' \in [phase : {"idle", "pages", "labels", "model", "exit"},
                     todo : Seq(ToSet(NotesComponents)), page : Nat \ {0},
                     before : Seq(Commit), fetched : Seq(Commit), cut : BOOLEAN, attempt : Nat]
    <2>1. <<>> \in Seq(Commit)
      OBVIOUS
    <2> QED  BY <2>1 DEF Generate
  <1>2. generation'.phase = phase /\ generation'.page = 1 /\ generation'.fetched = <<>>
    BY DEF Generate
  <1>3. /\ branch' \in [DOMAIN CommitsOf -> Seq(Commit)]
        /\ \A r \in DOMAIN CommitsOf :
             /\ Pushes(r, branch'[r]) \in 0 .. Len(PushedTo[r])
             /\ branch'[r] = BranchAt(r, Pushes(r, branch'[r]))
    BY DEF NotesInv
  <1> QED  BY <1>1, <1>2, <1>3 DEF NotesInv

(* Every branch begins as it was found.                                    *)
LEMMA NotesStart ==
  ASSUME NotesInit
  PROVE  NotesInv
  <1>1. ASSUME NEW r \in DOMAIN CommitsOf
        PROVE  /\ CommitsOf[r] \in Seq(Commit) /\ Len(PushedTo[r]) \in Nat
               /\ CommitsOf[r] = BranchAt(r, 0) /\ Pushes(r, CommitsOf[r]) = 0
    <2>1. CommitsOf[r] \in Seq(Commit) /\ PushedTo[r] \in Seq(Commit)
      BY NotesAssumption DEF Commit
    <2>2. Len(PushedTo[r]) \in Nat /\ Len(CommitsOf[r]) \in Nat
      BY <2>1
    <2>3. \A i \in 1 .. Len(CommitsOf[r]) : ~(i <= 0) /\ i - 0 = i
      BY <2>2
    <2>4. 0 + Len(CommitsOf[r]) = Len(CommitsOf[r])
      BY <2>2
    <2>5. BranchAt(r, 0) = [i \in 1 .. Len(CommitsOf[r]) |-> CommitsOf[r][i]]
      BY <2>3, <2>4 DEF BranchAt
    <2>6. CommitsOf[r] = BranchAt(r, 0)
      BY <2>1, <2>5
    <2> QED  BY <2>1, <2>2, <2>6 DEF Pushes
  <1>2. CommitsOf \in [DOMAIN CommitsOf -> Seq(Commit)]
    <2>1. CommitsOf = [r \in DOMAIN CommitsOf |-> CommitsOf[r]]
      BY NotesAssumption
    <2> QED  BY <1>1, <2>1
  <1>3. /\ branch \in [DOMAIN CommitsOf -> Seq(Commit)]
        /\ \A r \in DOMAIN CommitsOf :
             /\ Pushes(r, branch[r]) \in 0 .. Len(PushedTo[r])
             /\ branch[r] = BranchAt(r, Pushes(r, branch[r]))
    BY <1>1, <1>2 DEF NotesInit
  <1>4. NotesComponents \in Seq(ToSet(NotesComponents)) /\ <<>> \in Seq(Commit)
    BY NotesAssumption
  <1>5. generation \in [phase : {"idle", "pages", "labels", "model", "exit"},
                     todo : Seq(ToSet(NotesComponents)), page : Nat \ {0},
                     before : Seq(Commit), fetched : Seq(Commit), cut : BOOLEAN, attempt : Nat]
    BY <1>4 DEF NotesInit, Generate
  <1>6. /\ generation.phase = "idle" /\ generation.page = 1 /\ generation.fetched = <<>>
        /\ CacheInv /\ DOMAIN noteFiles = {}
    BY DEF NotesInit, Generate, EmptyCache, CacheInv
  <1> QED  BY <1>3, <1>5, <1>6 DEF NotesInv, FilesAreExact

(* A commit pushed while pages are fetched moves the others to the back.   *)
LEMMA CommitPushed ==
  ASSUME NotesInv, NEW r \in DOMAIN branch, PushCommit(r)
  PROVE  NotesInv'
  <1> DEFINE m == Pushes(r, branch[r])
  <1>1. /\ r \in DOMAIN CommitsOf /\ m \in 0 .. Len(PushedTo[r])
        /\ branch[r] = BranchAt(r, m) /\ branch[r] \in Seq(Commit)
    BY DEF NotesInv
  <1>2. /\ Len(branch[r]) \in Nat /\ Len(CommitsOf[r]) \in Nat /\ Len(PushedTo[r]) \in Nat
        /\ m < Len(PushedTo[r]) /\ m \in Nat
    <2>1. CommitsOf[r] \in Seq(Commit) /\ PushedTo[r] \in Seq(Commit)
      BY <1>1, NotesAssumption DEF Commit
    <2> QED  BY <1>1, <2>1 DEF PushCommit, Pushes
  <1>3. branch' = [branch EXCEPT ![r] = BranchAt(r, m + 1)]
    <2>1. branch' = [branch EXCEPT ![r] = <<PushedTo[r][m + 1]>> \o branch[r]]
      BY DEF PushCommit, Pushes
    <2> QED  BY <1>1, <1>2, <2>1, BranchesArePushed
  <1>4. m + 1 \in 0 .. Len(PushedTo[r])
    BY <1>2
  <1>5. BranchAt(r, m + 1) \in Seq(Commit) /\ Pushes(r, BranchAt(r, m + 1)) = m + 1
    BY <1>1, <1>4, BranchesArePushed
  <1> HIDE DEF m
  <1>6. /\ branch' \in [DOMAIN CommitsOf -> Seq(Commit)]
        /\ branch'[r] = BranchAt(r, m + 1)
        /\ \A q \in DOMAIN CommitsOf : q # r => branch'[q] = branch[q]
    BY <1>1, <1>3, <1>5 DEF NotesInv
  <1>7. \A q \in DOMAIN CommitsOf :
          /\ Pushes(q, branch'[q]) \in 0 .. Len(PushedTo[q])
          /\ branch'[q] = BranchAt(q, Pushes(q, branch'[q]))
    BY <1>4, <1>5, <1>6 DEF NotesInv
  <1>8. UNCHANGED <<generation, tasks, prCache, failed, noteFiles>> /\ generation.todo # <<>>
    BY DEF PushCommit
  <1>9. RepoOfNotes \in DOMAIN CommitsOf /\ Moved \in Nat /\ Moved' \in Nat /\ Moved <= Moved'
        /\ Began' = Began
    <2>1. RepoOfNotes \in DOMAIN CommitsOf /\ Moved \in Nat
      <3>1. RepoOfNotes \in DOMAIN CommitsOf /\ Moved \in 0 .. Len(PushedTo[RepoOfNotes])
        BY <1>8, ComponentHasRepo
      <3> QED  BY <3>1
    <2>2. Moved' = Pushes(RepoOfNotes, branch'[RepoOfNotes])
      BY <1>8 DEF Moved, RepoOfNotes, Component
    <2>3. ASSUME RepoOfNotes = r PROVE Moved' = m + 1 /\ Moved = m
      BY <1>5, <1>6, <2>2, <2>3 DEF Moved, m
    <2>4. ASSUME RepoOfNotes # r PROVE Moved' = Moved
      BY <1>6, <2>1, <2>2, <2>4 DEF Moved
    <2>5. Moved' \in Nat /\ Moved <= Moved'
      BY <1>2, <2>1, <2>3, <2>4
    <2>6. Began' = Began
      BY <1>8 DEF Began, RepoOfNotes, Component
    <2> QED  BY <2>1, <2>5, <2>6
  <1>10. ASSUME generation.phase \in {"pages", "labels", "model"}
         PROVE  /\ Began \in 0 .. Moved' /\ (PagesInv => PagesInv') /\ (FetchedInv => FetchedInv')
    <2>1. Began \in 0 .. Moved
      BY <1>10 DEF NotesInv
    <2>2. Began \in Nat /\ Began <= Moved
      BY <1>9, <2>1
    <2>3. Moved' = Began => Moved = Began
      BY <1>9, <2>2
    <2>4. DOMAIN generation.before \subseteq Nat
      BY DEF NotesInv
    <2>5. BeforePage(generation.page) \in Nat
      BY PagesFollow DEF NotesInv
    <2>6. \A i \in DOMAIN generation.before :
            i + (Moved' - Began) <= BeforePage(generation.page)
              => i + (Moved - Began) <= BeforePage(generation.page)
      BY <1>9, <2>2, <2>4, <2>5
    <2>7. PagesInv => PagesInv'
      BY <1>8, <1>9, <2>3, <2>6 DEF PagesInv, BeforePage
    <2>8. FetchedInv => FetchedInv'
      BY <1>8, <1>9, <2>3 DEF FetchedInv
    <2> QED  BY <1>9, <2>2, <2>7, <2>8
  <1>11. LabelsInv => LabelsInv'
    BY <1>8 DEF LabelsInv, NumberAt, CommitAt
  <1>12. Component' = Component /\ RepoOfNotes' = RepoOfNotes
    BY <1>8 DEF Component, RepoOfNotes
  <1>13. FilesAreExact' /\ CacheInv'
    <2>1. FilesAreExact /\ CacheInv
      BY DEF NotesInv
    <2> QED  BY <1>8, <2>1 DEF FilesAreExact, CacheInv
  <1>14. generation.phase \in {"pages", "labels", "model"} =>
           /\ Began \in 0 .. Moved' /\ generation.before = BranchAt(RepoOfNotes, Began)
           /\ generation.phase # "model" => Component \notin HasChangelog
           /\ generation.phase = "pages" => PagesInv'
           /\ generation.phase # "pages" /\ Component \notin HasChangelog
                => FetchedInv' /\ LabelsInv'
    BY <1>10, <1>11 DEF NotesInv
  <1> QED  BY <1>6, <1>7, <1>8, <1>9, <1>12, <1>13, <1>14 DEF NotesInv

(* The notes of a component begin: what the branch is then is remembered.  *)
LEMMA ComponentStarted ==
  ASSUME NotesInv, StartComponent
  PROVE  NotesInv'
  <1> DEFINE before == branch[RepoOfNotes]
             phase == IF Component \in HasChangelog THEN "model" ELSE "pages"
  <1>1. /\ generation.phase = "idle" /\ generation.todo # <<>>
        /\ UNCHANGED <<branch, tasks, prCache, failed, noteFiles>>
    BY DEF StartComponent, OnlyGeneration, InPhase
  <1>2. FilesAreExact'
    <2>1. FilesAreExact
      BY DEF NotesInv
    <2> QED  BY <1>1, <2>1 DEF FilesAreExact
  <1>3. CASE generation' = Generate("exit", generation.todo)
    <2>1. generation.todo \in Seq(ToSet(NotesComponents))
      BY DEF NotesInv
    <2>2. CacheInv'
      BY <1>1 DEF NotesInv, CacheInv
    <2> QED  BY <1>1, <1>2, <1>3, <2>1, <2>2, BetweenComponents
  <1>4. CASE generation' = [generation EXCEPT !.phase = phase, !.before = before]
    <2>1. /\ Component \in ToSet(NotesComponents) /\ RepoOfNotes \in DOMAIN CommitsOf
          /\ Moved \in 0 .. Len(PushedTo[RepoOfNotes])
          /\ before = BranchAt(RepoOfNotes, Moved) /\ before \in Seq(Commit)
      BY <1>1, ComponentHasRepo
    <2>2. /\ generation'.phase = phase /\ generation'.before = before
          /\ generation'.todo = generation.todo /\ generation'.page = 1
          /\ generation'.fetched = <<>>
          /\ generation' \in [phase : {"idle", "pages", "labels", "model", "exit"},
                     todo : Seq(ToSet(NotesComponents)), page : Nat \ {0},
                     before : Seq(Commit), fetched : Seq(Commit), cut : BOOLEAN, attempt : Nat]
      BY <1>1, <1>4, <2>1 DEF NotesInv
    <2> HIDE DEF phase
    <2>3. /\ Component' = Component /\ RepoOfNotes' = RepoOfNotes /\ Moved' = Moved
          /\ Began' = Moved
      BY <1>1, <2>2 DEF Component, RepoOfNotes, Moved, Began
    <2>4. Moved \in Nat /\ Began' \in 0 .. Moved'
      BY <2>1, <2>3
    <2>5. PagesInv'
      <3>1. BeforePage(1) = 0
        <4>1. 1 \in Nat \ {0}
          OBVIOUS
        <4> QED  BY <4>1, PagesFollow
      <3>2. DOMAIN before = 1 .. Len(before) /\ Len(before) \in Nat
        BY <2>1
      <3>3. ASSUME NEW i \in DOMAIN before PROVE ~(i + (Moved - Moved) <= 0)
        BY <2>4, <3>2
      <3>4. Len(<<>>) = 0 /\ DOMAIN <<>> = {}
        OBVIOUS
      <3>5. BeforePage(generation'.page) = 0
        BY <2>2, <3>1
      <3>6. \A i \in DOMAIN generation'.before :
              ~(i + (Moved' - Began') <= BeforePage(generation'.page))
        BY <2>2, <2>3, <3>3, <3>5
      <3>7. BeforePage(generation.page)' = BeforePage(generation'.page)
        BY DEF BeforePage
      <3> QED  BY <2>2, <3>4, <3>5, <3>6, <3>7 DEF PagesInv
    <2>6. phase # "pages" => Component \in HasChangelog
      BY DEF phase
    <2>7. phase \in {"pages", "model"} /\ (phase # "model" => Component \notin HasChangelog)
      BY DEF phase
    <2>8. /\ branch' \in [DOMAIN CommitsOf -> Seq(Commit)]
          /\ \A r \in DOMAIN CommitsOf :
               /\ Pushes(r, branch'[r]) \in 0 .. Len(PushedTo[r])
               /\ branch'[r] = BranchAt(r, Pushes(r, branch'[r]))
          /\ CacheInv'
      BY <1>1 DEF NotesInv, CacheInv
    <2>9. generation'.before = BranchAt(RepoOfNotes', Began') /\ generation'.todo # <<>>
      BY <1>1, <2>1, <2>2, <2>3
    <2> QED  BY <1>2, <2>2, <2>3, <2>4, <2>5, <2>6, <2>7, <2>8, <2>9 DEF NotesInv
  <1> QED  BY <1>3, <1>4 DEF StartComponent, RepoOfNotes

(* One more page: what the branch has on it by now, and nothing of the     *)
(* start is passed over.                                                   *)
LEMMA PageFetched ==
  ASSUME NotesInv, generation.phase = "pages"
  PROVE  LET data == PageOf(branch[RepoOfNotes], generation.page)
             all == generation.fetched \o data
         IN  /\ all \in Seq(Commit) /\ data \in Seq(Commit) /\ Len(data) \in Nat
             /\ \A i \in DOMAIN generation.before :
                  i + (Moved - Began) <= BeforePage(generation.page + 1)
                    => \E j \in DOMAIN all : all[j] = generation.before[i]
             /\ Len(data) < PageSize =>
                  \A i \in DOMAIN generation.before :
                    i + (Moved - Began) <= BeforePage(generation.page + 1)
             /\ Moved = Began =>
                  /\ \A j \in DOMAIN all : j \in DOMAIN generation.before
                                          /\ all[j] = generation.before[j]
                  /\ ~(Len(data) < PageSize) => Len(all) = BeforePage(generation.page + 1)
  <1> DEFINE s == branch[RepoOfNotes]
             p == generation.page
             data == PageOf(s, p)
             old == generation.fetched
             all == old \o data
             before == generation.before
             m == BeforePage(p)
             shift == Moved - Began
  <1>1. /\ generation.todo # <<>> /\ p \in Nat \ {0} /\ old \in Seq(Commit) /\ PagesInv
        /\ Began \in 0 .. Moved /\ before = BranchAt(RepoOfNotes, Began) /\ before \in Seq(Commit)
    BY DEF NotesInv
  <1>2. /\ RepoOfNotes \in DOMAIN CommitsOf /\ Moved \in 0 .. Len(PushedTo[RepoOfNotes])
        /\ s = BranchAt(RepoOfNotes, Moved) /\ s \in Seq(Commit)
    BY <1>1, ComponentHasRepo
  <1>3. Moved \in Nat /\ Began \in Nat /\ Began <= Moved /\ shift \in Nat
    BY <1>1, <1>2
  <1>4. /\ m \in Nat /\ PageSize \in Nat \ {0} /\ BeforePage(p + 1) = m + PageSize
    BY <1>1, PagesFollow
  <1>5. /\ data \in Seq(Commit) /\ Len(data) \in 0 .. PageSize
        /\ \A i \in 1 .. Len(data) : m + i \in 1 .. Len(s) /\ data[i] = s[m + i]
        /\ \A k \in 1 .. Len(s) : k > m /\ k <= m + PageSize => k - m \in 1 .. Len(data)
        /\ Len(data) < PageSize => Len(s) <= m + Len(data) \/ Len(s) <= m
    BY <1>1, <1>2, PageShows
  <1>6. \A i \in DOMAIN before : i + shift \in DOMAIN s /\ s[i + shift] = before[i]
    <2>1. \A b \in 0 .. Moved : \A i \in DOMAIN BranchAt(RepoOfNotes, b) :
            /\ i + (Moved - b) \in DOMAIN BranchAt(RepoOfNotes, Moved)
            /\ BranchAt(RepoOfNotes, Moved)[i + (Moved - b)] = BranchAt(RepoOfNotes, b)[i]
      BY <1>2, BranchesArePushed
    <2>2. \A i \in DOMAIN BranchAt(RepoOfNotes, Began) :
            /\ i + (Moved - Began) \in DOMAIN BranchAt(RepoOfNotes, Moved)
            /\ BranchAt(RepoOfNotes, Moved)[i + (Moved - Began)] = BranchAt(RepoOfNotes, Began)[i]
      BY <1>1, <2>1
    <2> QED  BY <1>1, <1>2, <2>2
  <1>7. /\ DOMAIN s = 1 .. Len(s) /\ Len(s) \in Nat /\ DOMAIN before = 1 .. Len(before)
        /\ Len(before) \in Nat /\ DOMAIN old = 1 .. Len(old) /\ Len(old) \in Nat
        /\ Len(data) \in Nat
    BY <1>1, <1>2, <1>5
  <1> HIDE DEF data
  <1>8. /\ all \in Seq(Commit) /\ Len(all) = Len(old) + Len(data)
        /\ \A i \in 1 .. Len(old) + Len(data) :
             all[i] = IF i <= Len(old) THEN old[i] ELSE data[i - Len(old)]
    BY <1>1, <1>5, ConcatProperties
  <1>9. DOMAIN all = 1 .. Len(old) + Len(data)
    BY <1>8
  <1>10. PagesInv
    BY <1>1
  <1> HIDE DEF all, shift, s, p, before, old, m
  <1>11. \A j \in 1 .. Len(old) : j \in DOMAIN all /\ all[j] = old[j]
    <2>1. \A j \in 1 .. Len(old) : j \in 1 .. Len(old) + Len(data) /\ j <= Len(old)
      BY <1>7
    <2> QED  BY <1>8, <1>9, <2>1
  <1>12. \A j \in 1 .. Len(data) : Len(old) + j \in DOMAIN all /\ all[Len(old) + j] = data[j]
    <2>1. \A j \in 1 .. Len(data) : /\ Len(old) + j \in 1 .. Len(old) + Len(data)
                                    /\ ~(Len(old) + j <= Len(old)) /\ Len(old) + j - Len(old) = j
      BY <1>7
    <2> QED  BY <1>8, <1>9, <2>1
  <1>13. ASSUME NEW i \in DOMAIN before, i + shift <= m + PageSize
         PROVE  \E j \in DOMAIN all : all[j] = before[i]
    <2>1. CASE i + shift <= m
      <3>1. \E j \in DOMAIN old : old[j] = before[i]
        BY <1>10, <2>1 DEF PagesInv, old, before, shift, m, p
      <3> QED  BY <1>7, <1>11, <3>1
    <2>2. CASE ~(i + shift <= m)
      <3>1. i + shift \in 1 .. Len(s) /\ s[i + shift] = before[i]
        BY <1>6, <1>7
      <3>2. i + shift > m
        BY <1>3, <1>4, <1>7, <2>2
      <3>3. (i + shift) - m \in 1 .. Len(data)
        <4> DEFINE k == i + shift
        <4>1. k \in 1 .. Len(s) /\ k > m /\ k <= m + PageSize
          BY <1>13, <3>1, <3>2
        <4> HIDE DEF k
        <4>2. k - m \in 1 .. Len(data)
          BY <1>5, <4>1
        <4> QED  BY <4>2 DEF k
      <3>4. m + ((i + shift) - m) = i + shift
        BY <1>3, <1>4, <1>7, <3>1
      <3>5. data[(i + shift) - m] = before[i]
        BY <1>5, <3>1, <3>3, <3>4
      <3> QED  BY <1>12, <3>3, <3>5
    <2> QED  BY <2>1, <2>2
  <1>14. ASSUME Len(data) < PageSize, NEW i \in DOMAIN before
         PROVE  i + shift <= m + PageSize
    <2>1. i + shift \in 1 .. Len(s)
      BY <1>6, <1>7
    <2>2. Len(s) <= m + Len(data) \/ Len(s) <= m
      BY <1>5, <1>14
    <2> QED  BY <1>4, <1>7, <1>14, <2>1, <2>2
  <1>15. ASSUME Moved = Began
         PROVE  /\ \A j \in DOMAIN all : j \in DOMAIN before /\ all[j] = before[j]
                /\ ~(Len(data) < PageSize) => Len(all) = m + PageSize
    <2>1. /\ s = before /\ Len(old) = m
          /\ \A j \in DOMAIN old : j \in DOMAIN before /\ old[j] = before[j]
      BY <1>1, <1>2, <1>10, <1>15 DEF PagesInv, s, before, old, m, p
    <2>2. ASSUME NEW j \in DOMAIN all PROVE j \in DOMAIN before /\ all[j] = before[j]
      <3>1. j \in 1 .. m + Len(data)
        BY <1>9, <2>1
      <3>2. CASE j <= m
        <4>1. j \in 1 .. Len(old)
          BY <1>4, <2>1, <3>1, <3>2
        <4> QED  BY <1>7, <1>11, <2>1, <4>1
      <3>3. CASE ~(j <= m)
        <4>1. j - m \in 1 .. Len(data) /\ m + (j - m) = j
          BY <1>4, <1>7, <3>1, <3>3
        <4>2. all[j] = data[j - m]
          BY <1>12, <2>1, <4>1
        <4>3. j \in 1 .. Len(s) /\ data[j - m] = s[j]
          BY <1>5, <4>1
        <4> QED  BY <1>7, <2>1, <4>2, <4>3
      <3> QED  BY <3>2, <3>3
    <2>3. ~(Len(data) < PageSize) => Len(all) = m + PageSize
      <3>1. Len(data) \in 0 .. PageSize /\ Len(all) = m + Len(data)
        BY <1>5, <1>8, <2>1
      <3>2. ~(Len(data) < PageSize) => Len(data) = PageSize
        BY <1>4, <3>1
      <3> QED  BY <3>1, <3>2
    <2> QED  BY <2>2, <2>3
  <1> QED  BY <1>4, <1>5, <1>7, <1>8, <1>13, <1>14, <1>15 DEF all, shift, s, p, before, old, m, data

(* Until the branch has no more to show, or a request fails.               *)
LEMMA PageStep ==
  ASSUME NotesInv, FetchPage
  PROVE  NotesInv'
  <1> DEFINE data == PageOf(branch[RepoOfNotes], generation.page)
             all == generation.fetched \o data
             phase == IF Len(data) < PageSize THEN "labels" ELSE "pages"
             more == [generation EXCEPT !.fetched = all, !.page = @ + 1, !.phase = phase]
             cut == [generation EXCEPT !.phase = "labels", !.cut = TRUE]
  <1>1. /\ generation.phase = "pages" /\ UNCHANGED <<branch, prCache, failed, noteFiles>>
        /\ generation' = more \/ generation' = cut
        /\ tasks' = IF generation'.phase = "labels"
                     THEN [i \in DOMAIN generation'.fetched |-> "queued"] ELSE tasks
    BY DEF FetchPage, InPhase, RepoOfNotes
  <1>2. /\ generation.todo # <<>> /\ generation.page \in Nat \ {0} /\ PagesInv
        /\ Began \in 0 .. Moved /\ generation.before = BranchAt(RepoOfNotes, Began)
        /\ generation.fetched \in Seq(Commit) /\ Component \notin HasChangelog
        /\ generation \in [phase : {"idle", "pages", "labels", "model", "exit"},
                     todo : Seq(ToSet(NotesComponents)), page : Nat \ {0},
                     before : Seq(Commit), fetched : Seq(Commit), cut : BOOLEAN, attempt : Nat]
    BY <1>1 DEF NotesInv
  <1>3. /\ all \in Seq(Commit) /\ data \in Seq(Commit) /\ Len(data) \in Nat
        /\ \A i \in DOMAIN generation.before :
             i + (Moved - Began) <= BeforePage(generation.page + 1)
               => \E j \in DOMAIN all : all[j] = generation.before[i]
        /\ Len(data) < PageSize =>
             \A i \in DOMAIN generation.before :
               i + (Moved - Began) <= BeforePage(generation.page + 1)
        /\ Moved = Began =>
             /\ \A j \in DOMAIN all : j \in DOMAIN generation.before
                                     /\ all[j] = generation.before[j]
             /\ ~(Len(data) < PageSize) => Len(all) = BeforePage(generation.page + 1)
    BY <1>1, PageFetched
  <1> HIDE DEF data
  <1>4. phase \in {"labels", "pages"} /\ (phase = "labels" <=> Len(data) < PageSize)
    OBVIOUS
  <1>5. generation.page + 1 \in Nat \ {0}
    BY <1>2
  <1> HIDE DEF all, phase
  <1>6. /\ more.before = generation.before /\ more.todo = generation.todo /\ more.fetched = all
        /\ more.phase = phase /\ more.page = generation.page + 1
        /\ more \in [phase : {"idle", "pages", "labels", "model", "exit"},
                     todo : Seq(ToSet(NotesComponents)), page : Nat \ {0},
                     before : Seq(Commit), fetched : Seq(Commit), cut : BOOLEAN, attempt : Nat]
    BY <1>2, <1>3, <1>4, <1>5
  <1>7. /\ cut.before = generation.before /\ cut.todo = generation.todo
        /\ cut.fetched = generation.fetched /\ cut.phase = "labels" /\ cut.cut = TRUE
        /\ cut \in [phase : {"idle", "pages", "labels", "model", "exit"},
                     todo : Seq(ToSet(NotesComponents)), page : Nat \ {0},
                     before : Seq(Commit), fetched : Seq(Commit), cut : BOOLEAN, attempt : Nat]
    BY <1>2
  <1> HIDE DEF more, cut
  <1>8. /\ generation'.before = generation.before /\ generation'.todo = generation.todo
        /\ generation'.phase \in {"labels", "pages"}
        /\ generation' \in [phase : {"idle", "pages", "labels", "model", "exit"},
                     todo : Seq(ToSet(NotesComponents)), page : Nat \ {0},
                     before : Seq(Commit), fetched : Seq(Commit), cut : BOOLEAN, attempt : Nat]
    BY <1>1, <1>4, <1>6, <1>7
  <1>9. Component' = Component /\ RepoOfNotes' = RepoOfNotes /\ Moved' = Moved /\ Began' = Began
    BY <1>1, <1>8 DEF Component, RepoOfNotes, Moved, Began
  <1>10. ASSUME generation'.phase = "pages" PROVE PagesInv'
    <2>1. generation' = more /\ phase = "pages" /\ ~(Len(data) < PageSize)
      BY <1>1, <1>4, <1>6, <1>7, <1>10
    <2>2. BeforePage(generation.page)' = BeforePage(generation.page + 1)
      BY <1>6, <2>1 DEF BeforePage
    <2> QED  BY <1>3, <1>6, <1>9, <2>1, <2>2 DEF PagesInv
  <1>11. ASSUME generation'.phase = "labels" PROVE FetchedInv'
    <2>1. CASE generation' = more
      <3>1. Len(data) < PageSize
        BY <1>4, <1>6, <1>11, <2>1
      <3> QED  BY <1>3, <1>6, <1>9, <2>1, <3>1 DEF FetchedInv
    <2>2. CASE generation' = cut
      BY <1>2, <1>7, <1>9, <2>2 DEF FetchedInv, PagesInv
    <2> QED  BY <1>1, <2>1, <2>2
  <1>12. ASSUME generation'.phase = "labels" PROVE LabelsInv'
    BY <1>1, <1>12 DEF LabelsInv
  <1>13. FilesAreExact'
    <2>1. FilesAreExact
      BY DEF NotesInv
    <2> QED  BY <1>1, <2>1 DEF FilesAreExact
  <1>14. /\ branch' \in [DOMAIN CommitsOf -> Seq(Commit)]
         /\ \A r \in DOMAIN CommitsOf :
              /\ Pushes(r, branch'[r]) \in 0 .. Len(PushedTo[r])
              /\ branch'[r] = BranchAt(r, Pushes(r, branch'[r]))
         /\ CacheInv'
    BY <1>1 DEF NotesInv, CacheInv
  <1> QED  BY <1>2, <1>8, <1>9, <1>10, <1>11, <1>12, <1>13, <1>14 DEF NotesInv

(* While labels are looked up the rest is left as it is.                   *)
LEMMA LabelsTouched ==
  ASSUME NotesInv, generation.phase = "labels", UNCHANGED <<branch, generation, noteFiles>>,
         CacheInv', LabelsInv'
  PROVE  NotesInv'
  <1>1. /\ generation.todo # <<>> /\ Component \notin HasChangelog /\ FetchedInv
        /\ Began \in 0 .. Moved /\ generation.before = BranchAt(RepoOfNotes, Began)
    BY DEF NotesInv
  <1>2. /\ Component' = Component /\ RepoOfNotes' = RepoOfNotes /\ Moved' = Moved
        /\ Began' = Began
    BY DEF Component, RepoOfNotes, Moved, Began
  <1>3. FetchedInv'
    BY <1>1, <1>2 DEF FetchedInv
  <1>4. FilesAreExact'
    <2>1. FilesAreExact
      BY DEF NotesInv
    <2> QED  BY <2>1 DEF FilesAreExact
  <1>5. /\ branch' \in [DOMAIN CommitsOf -> Seq(Commit)]
        /\ \A r \in DOMAIN CommitsOf :
             /\ Pushes(r, branch'[r]) \in 0 .. Len(PushedTo[r])
             /\ branch'[r] = BranchAt(r, Pushes(r, branch'[r]))
        /\ generation' \in [phase : {"idle", "pages", "labels", "model", "exit"},
                     todo : Seq(ToSet(NotesComponents)), page : Nat \ {0},
                     before : Seq(Commit), fetched : Seq(Commit), cut : BOOLEAN, attempt : Nat]
    BY DEF NotesInv
  <1> QED  BY <1>1, <1>2, <1>3, <1>4, <1>5 DEF NotesInv

(* The cache tells, or the number is asked for.                            *)
LEMMA NumberLookedUp ==
  ASSUME NotesInv, generation.phase = "labels", NEW i \in DOMAIN tasks, tasks' = LookUp(i)
  PROVE  /\ DOMAIN tasks' = DOMAIN tasks /\ \A k \in DOMAIN tasks : k # i => tasks'[k] = tasks[k]
         /\ \/ tasks'[i] = "asked"
            \/ tasks'[i] = "filtered" /\ NumberAt(i) \in FilteredPRs
            \/ tasks'[i] = "kept" /\ NumberAt(i) \notin FilteredPRs
  <1>1. CASE NumberAt(i) \in DOMAIN prCache
    <2>1. prCache[NumberAt(i)] = TRUE
      BY <1>1 DEF NotesInv, CacheInv
    <2>2. tasks' = Labelled(i, TRUE)
      BY <1>1, <2>1 DEF LookUp
    <2> QED  BY <2>2 DEF Labelled
  <1>2. CASE NumberAt(i) \notin DOMAIN prCache
    <2>1. tasks' = [tasks EXCEPT ![i] = "asked"]
      BY <1>2 DEF LookUp
    <2> QED  BY <2>1
  <1> QED  BY <1>1, <1>2

(* A step of one thread leaves the other commits as they are.              *)
LEMMA OneLabel ==
  ASSUME NotesInv, generation.phase = "labels", generation' = generation,
         NEW i \in DOMAIN tasks,
         DOMAIN tasks' = DOMAIN tasks, \A k \in DOMAIN tasks : k # i => tasks'[k] = tasks[k],
         failed \subseteq failed',
         \/ tasks'[i] = "asked"
         \/ tasks'[i] = "searching" /\ FirstNamed(CommitAt(i)) = "none"
         \/ tasks'[i] = "filtered" /\ NumberAt(i) \in FilteredPRs
         \/ tasks'[i] = "kept" /\ (NumberAt(i) \notin FilteredPRs \/ i \in failed')
  PROVE  LabelsInv'
  <1>1. LabelsInv
    BY DEF NotesInv
  <1>2. \A k \in DOMAIN tasks : CommitAt(k)' = CommitAt(k) /\ NumberAt(k)' = NumberAt(k)
    BY DEF NumberAt, CommitAt
  <1> QED  BY <1>1, <1>2 DEF LabelsInv

(* A thread takes a commit: its message has a number, or it is searched    *)
(* for.                                                                    *)
LEMMA CommitTaken ==
  ASSUME NotesInv, NEW i \in DOMAIN tasks, ProcessCommit(i)
  PROVE  NotesInv'
  <1>1. /\ generation.phase = "labels"
        /\ UNCHANGED <<branch, generation, prCache, failed, noteFiles>>
        /\ tasks' = IF FirstNamed(CommitAt(i)) = "none" THEN [tasks EXCEPT ![i] = "searching"]
                    ELSE LookUp(i)
    BY DEF ProcessCommit, InPhase
  <1>2. LabelsInv'
    <2>1. CASE FirstNamed(CommitAt(i)) = "none"
      <3>1. tasks' = [tasks EXCEPT ![i] = "searching"]
        BY <1>1, <2>1
      <3> QED  BY <1>1, <2>1, <3>1, OneLabel
    <2>2. CASE FirstNamed(CommitAt(i)) # "none"
      BY <1>1, <2>2, NumberLookedUp, OneLabel
    <2> QED  BY <2>1, <2>2
  <1>3. CacheInv'
    BY <1>1 DEF NotesInv, CacheInv
  <1> QED  BY <1>1, <1>2, <1>3, LabelsTouched

(* A search that finds none leaves a commit without a number.              *)
LEMMA CommitSearched ==
  ASSUME NotesInv, NEW i \in DOMAIN tasks, SearchAnswer(i)
  PROVE  NotesInv'
  <1>1. /\ generation.phase = "labels" /\ tasks[i] = "searching"
        /\ UNCHANGED <<branch, generation, prCache, noteFiles>>
    BY DEF SearchAnswer, InPhase
  <1>2. FirstNamed(CommitAt(i)) = "none"
    BY <1>1 DEF NotesInv, LabelsInv
  <1>3. LabelsInv'
    <2>1. CASE UNCHANGED failed /\ FirstPull(CommitAt(i)) = "none" /\ tasks' = Labelled(i, FALSE)
      <3>1. NumberAt(i) = "none"
        BY <1>2, <2>1 DEF NumberAt, NumberOf
      <3>2. NumberAt(i) \notin FilteredPRs
        BY <3>1, NotesAssumption
      <3> QED  BY <1>1, <2>1, <3>2, OneLabel DEF Labelled
    <2>2. CASE UNCHANGED failed /\ tasks' = LookUp(i)
      BY <1>1, <2>2, NumberLookedUp, OneLabel
    <2>3. CASE failed' = failed \cup {i} /\ tasks' = Labelled(i, FALSE)
      BY <1>1, <2>3, OneLabel DEF Labelled
    <2> QED  BY <2>1, <2>2, <2>3 DEF SearchAnswer
  <1>4. CacheInv'
    BY <1>1 DEF NotesInv, CacheInv
  <1> QED  BY <1>1, <1>3, <1>4, LabelsTouched

(* The answer tells its labels; without one the commit is kept, and known  *)
(* as one whose request failed.                                            *)
LEMMA PullRequestAnswered ==
  ASSUME NotesInv, NEW i \in DOMAIN tasks, PullRequestAnswer(i)
  PROVE  NotesInv'
  <1>1. generation.phase = "labels" /\ UNCHANGED <<branch, generation, noteFiles>>
    BY DEF PullRequestAnswer, InPhase
  <1>2. PICK found \in BOOLEAN :
          /\ tasks' = Labelled(i, found) /\ prCache' = Remember(NumberAt(i), found)
          /\ failed' = IF found THEN failed ELSE failed \cup {i}
    BY DEF PullRequestAnswer
  <1>3. CacheInv'
    <2>1. CacheInv
      BY DEF NotesInv
    <2>2. CASE found = TRUE
      <3>1. prCache' = [m \in DOMAIN prCache \cup {NumberAt(i)} |->
                          IF m = NumberAt(i) THEN TRUE ELSE prCache[m]]
        BY <1>2, <2>2 DEF Remember
      <3> QED  BY <2>1, <3>1 DEF CacheInv
    <2>3. CASE found = FALSE
      <3>1. prCache' = prCache
        BY <1>2, <2>3 DEF Remember
      <3> QED  BY <2>1, <3>1 DEF CacheInv
    <2> QED  BY <2>2, <2>3
  <1>4. /\ DOMAIN tasks' = DOMAIN tasks /\ \A k \in DOMAIN tasks : k # i => tasks'[k] = tasks[k]
        /\ failed \subseteq failed'
        /\ \/ tasks'[i] = "filtered" /\ NumberAt(i) \in FilteredPRs
           \/ tasks'[i] = "kept" /\ (NumberAt(i) \notin FilteredPRs \/ i \in failed')
    BY <1>2 DEF Labelled
  <1>5. LabelsInv'
    BY <1>1, <1>4, OneLabel
  <1> QED  BY <1>1, <1>3, <1>5, LabelsTouched

(* When a component is left the cache is emptied.                          *)
LEMMA ComponentLeft ==
  ASSUME NotesInv, NEW phase \in {"idle", "exit"}, NEW todo \in Seq(ToSet(NotesComponents)),
         LeaveComponent(phase, todo), branch' = branch, FilesAreExact'
  PROVE  NotesInv'
  <1>1. CacheInv'
    BY DEF LeaveComponent, EmptyCache, CacheInv
  <1> QED  BY <1>1, BetweenComponents DEF LeaveComponent

(* Every commit has been looked up.                                        *)
LEMMA LabelsKnown ==
  ASSUME NotesInv, CommitsProcessed
  PROVE  NotesInv'
  <1>1. /\ generation.phase = "labels" /\ UNCHANGED <<branch, noteFiles>>
        /\ \A i \in DOMAIN tasks : tasks[i] \in {"kept", "filtered"}
    BY DEF CommitsProcessed, InPhase
  <1>2. FilesAreExact'
    <2>1. FilesAreExact
      BY DEF NotesInv
    <2> QED  BY <1>1, <2>1 DEF FilesAreExact
  <1>3. /\ generation.todo # <<>> /\ Component \notin HasChangelog /\ FetchedInv /\ LabelsInv
        /\ Began \in 0 .. Moved /\ generation.before = BranchAt(RepoOfNotes, Began)
    BY <1>1 DEF NotesInv
  <1>4. CASE tasks = <<>>
    <2>1. Tail(generation.todo) \in Seq(ToSet(NotesComponents))
      BY <1>3, ComponentHasRepo
    <2> QED  BY <1>1, <1>2, <1>4, <2>1, ComponentLeft DEF CommitsProcessed
  <1>5. CASE tasks # <<>>
    <2>1. /\ generation' = [generation EXCEPT !.phase = "model"]
          /\ UNCHANGED <<tasks, prCache, failed>>
      BY <1>5 DEF CommitsProcessed
    <2>2. /\ generation' \in [phase : {"idle", "pages", "labels", "model", "exit"},
                     todo : Seq(ToSet(NotesComponents)), page : Nat \ {0},
                     before : Seq(Commit), fetched : Seq(Commit), cut : BOOLEAN, attempt : Nat]
          /\ generation'.phase = "model" /\ generation'.todo = generation.todo
          /\ generation'.before = generation.before /\ generation'.fetched = generation.fetched
          /\ generation'.cut = generation.cut
      BY <2>1 DEF NotesInv
    <2>3. /\ Component' = Component /\ RepoOfNotes' = RepoOfNotes /\ Moved' = Moved
          /\ Began' = Began
      BY <1>1, <2>2 DEF Component, RepoOfNotes, Moved, Began
    <2>4. FetchedInv'
      BY <1>3, <2>2, <2>3 DEF FetchedInv
    <2>5. LabelsInv'
      BY <1>1, <1>3, <2>1, <2>2 DEF LabelsInv, NumberAt, CommitAt
    <2>6. /\ branch' \in [DOMAIN CommitsOf -> Seq(Commit)]
          /\ \A r \in DOMAIN CommitsOf :
               /\ Pushes(r, branch'[r]) \in 0 .. Len(PushedTo[r])
               /\ branch'[r] = BranchAt(r, Pushes(r, branch'[r]))
          /\ CacheInv'
      BY <1>1, <2>1 DEF NotesInv, CacheInv
    <2> QED  BY <1>2, <1>3, <2>2, <2>3, <2>4, <2>5, <2>6 DEF NotesInv
  <1> QED  BY <1>4, <1>5

(* What the model is given to write is.                                    *)
LEMMA WrittenIsExact ==
  ASSUME NotesInv, generation.phase = "model"
  PROVE  FileIsExact(NotesWritten)
  <1> DEFINE n == NotesWritten
             keptOnes == {i \in DOMAIN tasks : tasks[i] = "kept"}
  <1>1. /\ n.of = Component /\ n.before = generation.before /\ n.fetched = generation.fetched
        /\ n.entries = keptOnes /\ n.failed = failed /\ n.cut = generation.cut
        /\ n.after = branch[RepoOfNotes]
    BY DEF NotesWritten, RepoOfNotes
  <1> HIDE DEF n
  <1> SUFFICES ASSUME Component \notin HasChangelog PROVE FileIsExact(n)
    BY <1>1 DEF FileIsExact, n
  <1>2. /\ generation.todo # <<>> /\ FetchedInv /\ LabelsInv
        /\ Began \in 0 .. Moved /\ generation.before = BranchAt(RepoOfNotes, Began)
        /\ generation.before \in Seq(Commit) /\ generation.fetched \in Seq(Commit)
    BY DEF NotesInv
  <1>3. ASSUME NEW i \in DOMAIN n.before
        PROVE  \/ NumberOf(n.before[i]) \in FilteredPRs \/ n.cut
               \/ n.before[i] \in {n.fetched[j] : j \in n.entries}
    <2> SUFFICES ASSUME ~generation.cut
                 PROVE  \/ NumberOf(n.before[i]) \in FilteredPRs
                        \/ n.before[i] \in {n.fetched[j] : j \in n.entries}
      BY <1>1
    <2>1. PICK j \in DOMAIN generation.fetched : generation.fetched[j] = generation.before[i]
      BY <1>1, <1>2 DEF FetchedInv
    <2>2. j \in DOMAIN tasks /\ tasks[j] \in {"kept", "filtered"}
      BY <1>2, <2>1 DEF LabelsInv
    <2>3. CASE tasks[j] = "kept"
      <3>1. j \in n.entries /\ n.fetched[j] = n.before[i]
        BY <1>1, <2>1, <2>2, <2>3
      <3> QED  BY <3>1
    <2>4. CASE tasks[j] = "filtered"
      BY <1>1, <1>2, <2>1, <2>2, <2>4 DEF LabelsInv, NumberAt, CommitAt
    <2> QED  BY <2>2, <2>3, <2>4
  <1>4. ASSUME NEW i \in n.entries, NumberOf(n.fetched[i]) \in FilteredPRs
        PROVE  i \in n.failed
    BY <1>1, <1>2, <1>4 DEF LabelsInv, NumberAt, CommitAt
  <1>5. ASSUME NEW i \in n.entries, NEW j \in n.entries, i # j, n.fetched[i] = n.fetched[j],
               n.after = n.before
        PROVE  FALSE
    <2>1. Moved = Began
      BY <1>1, <1>5 DEF Moved, Began
    <2>2. i \in DOMAIN generation.fetched /\ j \in DOMAIN generation.fetched
      BY <1>1, <1>2 DEF LabelsInv
    <2>3. /\ i \in DOMAIN generation.before /\ j \in DOMAIN generation.before
          /\ generation.before[i] = generation.before[j]
      BY <1>1, <1>2, <1>5, <2>1, <2>2 DEF FetchedInv
    <2>4. IsInjective(generation.before)
      <3>1. RepoOfNotes \in DOMAIN CommitsOf /\ Moved \in 0 .. Len(PushedTo[RepoOfNotes])
        BY <1>2, ComponentHasRepo
      <3> QED  BY <1>2, <2>1, <3>1, BranchesArePushed
    <2> QED  BY <1>5, <2>3, <2>4 DEF IsInjective
  <1> QED  BY <1>3, <1>4, <1>5 DEF FileIsExact

(* The model answers with a text, with none, not yet, or not at all.       *)
LEMMA ModelCalled ==
  ASSUME NotesInv, CallModel
  PROVE  NotesInv'
  <1>1. generation.phase = "model" /\ UNCHANGED branch
    BY DEF CallModel, InPhase
  <1>2. /\ generation.todo # <<>> /\ Began \in 0 .. Moved
        /\ generation.before = BranchAt(RepoOfNotes, Began)
        /\ Component \notin HasChangelog => FetchedInv /\ LabelsInv
        /\ generation.todo \in Seq(ToSet(NotesComponents))
    BY <1>1 DEF NotesInv
  <1>3. Tail(generation.todo) \in Seq(ToSet(NotesComponents))
    BY <1>2, ComponentHasRepo
  <1>4. FilesAreExact <=> \A f \in DOMAIN noteFiles : FileIsExact(noteFiles[f])
    BY DEF FilesAreExact
  <1>5. FilesAreExact' <=> \A f \in DOMAIN noteFiles' : FileIsExact(noteFiles'[f])
    BY DEF FilesAreExact, FileIsExact
  <1>6. ASSUME UNCHANGED noteFiles PROVE FilesAreExact'
    BY <1>4, <1>5, <1>6 DEF NotesInv
  <1>7. CASE LeaveComponent("idle", Tail(generation.todo)) /\ UNCHANGED noteFiles
    BY <1>1, <1>3, <1>6, <1>7, ComponentLeft
  <1>8. CASE /\ LeaveComponent("idle", Tail(generation.todo))
             /\ noteFiles' = [f \in DOMAIN noteFiles \cup {NotesRepo[Component]} |->
                  IF f = NotesRepo[Component] THEN NotesWritten ELSE noteFiles[f]]
    <2>1. FileIsExact(NotesWritten)
      BY <1>1, WrittenIsExact
    <2>2. \A f \in DOMAIN noteFiles' : \/ noteFiles'[f] = NotesWritten
                                       \/ f \in DOMAIN noteFiles /\ noteFiles'[f] = noteFiles[f]
      BY <1>8
    <2>3. FilesAreExact'
      BY <1>4, <1>5, <2>1, <2>2 DEF NotesInv
    <2> QED  BY <1>1, <1>3, <1>8, <2>3, ComponentLeft
  <1>9. CASE /\ generation' = [generation EXCEPT !.attempt = @ + 1]
             /\ UNCHANGED <<tasks, prCache, failed, noteFiles>>
    <2>1. /\ generation' \in [phase : {"idle", "pages", "labels", "model", "exit"},
                     todo : Seq(ToSet(NotesComponents)), page : Nat \ {0},
                     before : Seq(Commit), fetched : Seq(Commit), cut : BOOLEAN, attempt : Nat]
          /\ generation'.phase = "model" /\ generation'.todo = generation.todo
          /\ generation'.before = generation.before /\ generation'.fetched = generation.fetched
          /\ generation'.cut = generation.cut
      <3>1. /\ generation \in [phase : {"idle", "pages", "labels", "model", "exit"},
                     todo : Seq(ToSet(NotesComponents)), page : Nat \ {0},
                     before : Seq(Commit), fetched : Seq(Commit), cut : BOOLEAN, attempt : Nat]
        BY DEF NotesInv
      <3>2. generation.attempt + 1 \in Nat
        BY <3>1
      <3> QED  BY <1>1, <1>9, <3>1, <3>2
    <2>2. /\ Component' = Component /\ RepoOfNotes' = RepoOfNotes /\ Moved' = Moved
          /\ Began' = Began
      BY <1>1, <2>1 DEF Component, RepoOfNotes, Moved, Began
    <2>3. (FetchedInv => FetchedInv') /\ (LabelsInv => LabelsInv')
      BY <1>1, <1>9, <2>1, <2>2 DEF FetchedInv, LabelsInv, NumberAt, CommitAt
    <2>4. /\ branch' \in [DOMAIN CommitsOf -> Seq(Commit)]
          /\ \A r \in DOMAIN CommitsOf :
               /\ Pushes(r, branch'[r]) \in 0 .. Len(PushedTo[r])
               /\ branch'[r] = BranchAt(r, Pushes(r, branch'[r]))
          /\ CacheInv'
      BY <1>1, <1>9 DEF NotesInv, CacheInv
    <2>5. FilesAreExact'
      BY <1>6, <1>9
    <2> QED  BY <1>2, <2>1, <2>2, <2>3, <2>4, <2>5 DEF NotesInv
  <1>10. CASE LeaveComponent("exit", generation.todo) /\ UNCHANGED noteFiles
    BY <1>1, <1>2, <1>6, <1>10, ComponentLeft
  <1> QED  BY <1>7, <1>8, <1>9, <1>10 DEF CallModel

(* One step per action.                                                    *)
LEMMA NotesStep ==
  ASSUME NotesInv, [NotesNext]_notesVars
  PROVE  NotesInv'
  <1>1. ASSUME UNCHANGED notesVars PROVE NotesInv'
    BY <1>1, NotesUntouched DEF notesVars
  <1>2. ASSUME NEW f, PublishNotes(f) PROVE NotesInv'
    BY <1>2, NotesUntouched DEF PublishNotes
  <1>3. ASSUME StartCompile \/ CheckComponent \/ WriteCompiled PROVE NotesInv'
    BY <1>3, NotesUntouched DEF StartCompile, CheckComponent, WriteCompiled, OnlyCompilation
  <1>4. ASSUME NEW f, FetchNotes(f) PROVE NotesInv'
    BY <1>4, NotesUntouched DEF FetchNotes, OnlyCompilation
  <1> QED  BY <1>1, <1>2, <1>3, <1>4, CommitPushed, ComponentStarted, PageStep, LabelsKnown,
              ModelCalled, CommitTaken, CommitSearched, PullRequestAnswered DEF NotesNext

(* What `compile` had to take in is among what is left to look at, to ask  *)
(* for, or done.                                                           *)
CompileInv ==
  /\ compilation \in [phase : {"idle", "table", "over", "failed"},
                      todo : Seq(ToSet(NotesComponents)), urls : SUBSET published,
                      sections : SUBSET published, missed : SUBSET published,
                      before : SUBSET published]
  /\ compilation.phase = "over" => compilation.todo = <<>> /\ compilation.urls = {}
  /\ compilation.phase \in {"table", "over"} =>
       \A c \in ToSet(NotesComponents) \ CoreComponents :
         NotesRepo[c] \in compilation.before =>
           \/ c \in ToSet(compilation.todo)
           \/ NotesRepo[c] \in compilation.urls \cup compilation.sections \cup compilation.missed

(* The steps of `compile` keep it so, and what is published stays.         *)
LEMMA CompileStep ==
  ASSUME CompileInv, [NotesNext]_notesVars
  PROVE  CompileInv'
  <1> DEFINE u == compilation
             Shape(p) == [phase : {"idle", "table", "over", "failed"},
                          todo : Seq(ToSet(NotesComponents)), urls : SUBSET p,
                          sections : SUBSET p, missed : SUBSET p, before : SUBSET p]
  <1>0. u \in Shape(published)
    BY DEF CompileInv
  <1>1. ASSUME UNCHANGED <<published, compilation>> PROVE CompileInv'
    BY <1>1 DEF CompileInv
  <1>2. ASSUME NEW f, PublishNotes(f) PROVE CompileInv'
    <2>1. UNCHANGED compilation /\ published \subseteq published'
      BY <1>2 DEF PublishNotes
    <2>2. u \in Shape(published')
      BY <1>0, <2>1
    <2> QED  BY <2>1, <2>2 DEF CompileInv
  <1>3. ASSUME StartCompile PROVE CompileInv'
    <2>1. /\ u' = [u EXCEPT !.phase = "table", !.todo = NotesComponents, !.before = published]
          /\ published' = published
      BY <1>3 DEF StartCompile, OnlyCompilation
    <2>2. NotesComponents \in Seq(ToSet(NotesComponents))
      BY NotesAssumption
    <2>3. u' \in Shape(published') /\ u'.phase = "table" /\ u'.todo = NotesComponents
      BY <1>0, <2>1, <2>2
    <2> QED  BY <2>3 DEF CompileInv
  <1>4. ASSUME CheckComponent PROVE CompileInv'
    <2> DEFINE c == Head(u.todo)
               found == IF c \notin CoreComponents /\ NotesExist(c) THEN u.urls \cup {NotesRepo[c]}
                        ELSE u.urls
    <2>1. u.phase = "table" /\ u.todo # <<>> /\ published' = published
      BY <1>4 DEF CheckComponent, OnlyCompilation
    <2>2. u.todo \in Seq(ToSet(NotesComponents))
      BY <1>0
    <2>3. /\ Tail(u.todo) \in Seq(ToSet(NotesComponents))
          /\ ToSet(u.todo) = {c} \cup ToSet(Tail(u.todo))
      BY <2>1, <2>2, HeadAndTail
    <2>4. /\ found \in SUBSET published /\ u.urls \subseteq found
          /\ c \notin CoreComponents /\ NotesRepo[c] \in published => NotesRepo[c] \in found
      BY <1>0 DEF NotesExist
    <2> HIDE DEF c, found
    <2>5. CASE u' = [u EXCEPT !.todo = Tail(@), !.urls = found]
      <3>1. /\ u'.phase = "table" /\ u'.todo = Tail(u.todo) /\ u'.urls = found
            /\ u'.sections = u.sections /\ u'.missed = u.missed /\ u'.before = u.before
            /\ u' \in Shape(published')
        BY <1>0, <2>1, <2>3, <2>4, <2>5
      <3>2. u.before \subseteq published
        BY <1>0
      <3> QED  BY <2>1, <2>3, <2>4, <3>1, <3>2 DEF CompileInv
    <2>6. CASE u' = [u EXCEPT !.phase = "failed"]
      <3>1. u' \in Shape(published') /\ u'.phase = "failed"
        BY <1>0, <2>1, <2>6
      <3> QED  BY <3>1 DEF CompileInv
    <2> QED  BY <1>4, <2>5, <2>6 DEF CheckComponent, c, found
  <1>5. ASSUME NEW f, FetchNotes(f) PROVE CompileInv'
    <2>1. u.phase = "table" /\ f \in u.urls /\ published' = published
      BY <1>5 DEF FetchNotes, OnlyCompilation
    <2>2. f \in published
      BY <1>0, <2>1
    <2>3. CASE \/ u' = [u EXCEPT !.urls = @ \ {f}, !.sections = @ \cup {f}]
               \/ u' = [u EXCEPT !.urls = @ \ {f}, !.missed = @ \cup {f}]
      <3>1. /\ u'.phase = "table" /\ u'.todo = u.todo /\ u'.before = u.before
            /\ u'.urls = u.urls \ {f}
            /\ \/ u'.sections = u.sections \cup {f} /\ u'.missed = u.missed
               \/ u'.sections = u.sections /\ u'.missed = u.missed \cup {f}
        BY <1>0, <2>1, <2>3
      <3>2. u.urls \cup u.sections \cup u.missed \subseteq u'.urls \cup u'.sections \cup u'.missed
        BY <3>1
      <3>3. u' \in Shape(published')
        <4>1. /\ u.urls \ {f} \in SUBSET published
              /\ u.sections \cup {f} \in SUBSET published
              /\ u.missed \cup {f} \in SUBSET published
          BY <1>0, <2>2
        <4>2. CASE u' = [u EXCEPT !.urls = @ \ {f}, !.sections = @ \cup {f}]
          BY <1>0, <2>1, <4>1, <4>2
        <4>3. CASE u' = [u EXCEPT !.urls = @ \ {f}, !.missed = @ \cup {f}]
          BY <1>0, <2>1, <4>1, <4>3
        <4> QED  BY <2>3, <4>2, <4>3
      <3>4. \A c \in ToSet(NotesComponents) \ CoreComponents :
              NotesRepo[c] \in u.before =>
                c \in ToSet(u.todo) \/ NotesRepo[c] \in u.urls \cup u.sections \cup u.missed
        BY <2>1 DEF CompileInv
      <3> QED  BY <3>1, <3>2, <3>3, <3>4 DEF CompileInv
    <2>4. CASE u' = [u EXCEPT !.phase = "failed"]
      <3>1. u' \in Shape(published') /\ u'.phase = "failed"
        BY <1>0, <2>1, <2>4
      <3> QED  BY <3>1 DEF CompileInv
    <2> QED  BY <1>5, <2>3, <2>4 DEF FetchNotes
  <1>6. ASSUME WriteCompiled PROVE CompileInv'
    <2>1. /\ u.phase = "table" /\ u.todo = <<>> /\ u.urls = {} /\ published' = published
          /\ u' = [u EXCEPT !.phase = "over"]
      BY <1>6 DEF WriteCompiled, OnlyCompilation
    <2>2. /\ u'.phase = "over" /\ u'.todo = u.todo /\ u'.urls = u.urls
          /\ u'.sections = u.sections /\ u'.missed = u.missed /\ u'.before = u.before
          /\ u' \in Shape(published')
      BY <1>0, <2>1
    <2> QED  BY <2>1, <2>2 DEF CompileInv
  <1> QED  BY <1>1, <1>2, <1>3, <1>4, <1>5, <1>6
           DEF NotesNext, notesVars, PushCommit, StartComponent, OnlyGeneration, FetchPage,
               CommitsProcessed, CallModel, ProcessCommit, SearchAnswer, PullRequestAnswer

(* The branches only grow at their front; what was fetched of one holds    *)
(* all it had at the start as far as the pages got; every commit is kept,  *)
(* or filtered for the labels of the number it goes by, or kept because    *)
(* its own request failed; and `compile` loses no published notes.         *)
THEOREM NotesConsistent == NotesSpec => [](NotesInv /\ CompileInv)
  <1>1. NotesInit => NotesInv
    BY NotesStart
  <1>2. NotesInv /\ [NotesNext]_notesVars => NotesInv'
    BY NotesStep
  <1>3. NotesInit => CompileInv
    <2>1. <<>> \in Seq(ToSet(NotesComponents))
      OBVIOUS
    <2> QED  BY <2>1 DEF NotesInit, CompileInv
  <1>4. CompileInv /\ [NotesNext]_notesVars => CompileInv'
    BY CompileStep
  <1> QED  BY <1>1, <1>2, <1>3, <1>4, PTL DEF NotesSpec

(* Notes made from commits miss none and repeat none without a reason, and *)
(* show one whose number has a label to filter only when its own request   *)
(* failed; the compiled notes miss no component without a reason.          *)
THEOREM NotesCoverTheBranch == NotesSpec => []NotesAreExact
  <1>1. NotesInv => \A f \in DOMAIN noteFiles : FileIsExact(noteFiles[f])
    BY DEF NotesInv, FilesAreExact
  <1>2. CompileInv /\ compilation.phase = "over" =>
          \A c \in ToSet(NotesComponents) \ CoreComponents :
            NotesRepo[c] \in compilation.before =>
              NotesRepo[c] \in compilation.sections \cup compilation.missed
    <2> SUFFICES ASSUME CompileInv, compilation.phase = "over",
                        NEW c \in ToSet(NotesComponents) \ CoreComponents,
                        NotesRepo[c] \in compilation.before
                 PROVE  NotesRepo[c] \in compilation.sections \cup compilation.missed
      OBVIOUS
    <2>1. c \notin ToSet(<<>>)
      BY DEF ToSet
    <2> QED  BY <2>1 DEF CompileInv
  <1>3. NotesInv /\ CompileInv => NotesAreExact
    BY <1>1, <1>2 DEF NotesAreExact, FileIsExact
  <1> QED  BY <1>3, NotesConsistent, PTL

-----------------------------------------------------------------------------
(* ReleaseChores.                                                          *)

NotesWhat == {"push", "pr", "edit", "create"}
ReportStep == ChoreComponent \X {"owner", "tell", "notify"}
PullStep == Noted \X NotesWhat
ReleaseStep ==
  (ChoreProduct \cup {""}) \X {"dispatch", "numbers", "read", "build", "announce"}
BuildStep == (Nat \ {0}) \X ChoreProduct
AssignStep == {<<c, "assign", m>> : c \in ChoreComponent, m \in Maintainers}
ChoreStep == ReportStep \cup PullStep \cup ReleaseStep \cup BuildStep \cup AssignStep
Candidate ==
  [product : ChoreProduct, rc : Nat \ {0}, result : {"running", "SUCCESS", "FAILURE"}]
ChoreName ==
  {"none", "release-owners", "doc-issues", "doc-prs", "code-coverage", "release-notes",
   "release-issues", "integ-overview", "rc-details", "build-rc", "notes-pr"}
ChoreAction ==
  {"", "check", "request", "assign", "notify", "create", "add", "both"} \cup ChoreProduct
ChoreRecord ==
  [name : ChoreName, action : ChoreAction, todo : Seq(ChoreStep),
   state : {"success", "running", "failure"}, flagged : Seq(ChoreStep)]

(* An owner is assigned after a comment told it, and the number of a       *)
(* candidate follows one that succeeded.                                   *)
StepFits(x) ==
  /\ x[2] = "assign" => x[3] \in told[x[1]]
  /\ x[2] \in ChoreProduct => x[1] = 1 \/ x[1] - 1 \in Numbers(x[2], {"SUCCESS"})

(* While a chore notifies, whoever it has not told yet is still to come.   *)
NotifyInv ==
  chore.action = "notify" =>
    /\ \A x \in ToSet(chore.todo) : x[2] = "notify"
    /\ \A x \in ToSet(chore.flagged) : x[1] \in commented \/ x \in ToSet(chore.todo)

(* What the notes chore knows of the branch and its pull request before    *)
(* each of its steps.                                                      *)
Arrived(c) ==
  \/ committed[c] = generated[c]
  \/ openPR[c] /\ pushed[c] = generated[c]
  \/ declined[c] = generated[c]
NotesStepOf(c) ==
  \/ chore.todo = <<<<c, "push">>, <<c, "pr">>>>
  \/ chore.todo = <<<<c, "pr">>>> /\ pushed[c] = generated[c]
  \/ chore.todo = <<<<c, "edit">>>> /\ Arrived(c)
  \/ chore.todo = <<<<c, "create">>>> /\ pushed[c] = generated[c]
  \/ chore.todo = <<>> /\ Arrived(c)
NotesChoreInv ==
  IF chore.name = "notes-pr"
  THEN chore.state # "failure" =>
         \/ chore.flagged = <<>> /\ chore.todo = <<>>
         \/ \E c \in Noted : /\ chore.flagged = <<<<c, "push">>, <<c, "pr">>>>
                             /\ NotesStepOf(c)
  ELSE \A x \in ToSet(chore.todo) : x[2] \notin NotesWhat

WorkInv ==
  /\ chore \in ChoreRecord
  /\ chore.state = "success" => chore.todo = <<>>
  /\ \A x \in ToSet(chore.todo) : StepFits(x)
  /\ NotifyInv /\ NotesChoreInv
PeopleInv ==
  /\ assignees \in [ChoreComponent -> SUBSET Maintainers]
  /\ told \in [ChoreComponent -> SUBSET Maintainers]
  /\ \A c \in ChoreComponent : assignees[c] \subseteq told[c]
CandidatesInv == builds \in Seq(Candidate) /\ CandidatesFollowSuccess
PullInv ==
  /\ generated \in [Noted -> Nat] /\ committed \in [Noted -> Nat]
  /\ pushed \in [Noted -> Nat] /\ openPR \in [Noted -> BOOLEAN]
  /\ declined \in [Noted -> Nat]
  /\ \A c \in Noted : /\ committed[c] <= pushed[c] /\ pushed[c] <= generated[c]
                      /\ declined[c] <= pushed[c]
ChoreInv == WorkInv /\ PeopleInv /\ CandidatesInv /\ PullInv

(* Of the numbers in a set there is a smallest and, below a bound, a       *)
(* largest.                                                                *)
LEMMA SmallestAndLargest ==
  ASSUME NEW P \in SUBSET Nat, P # {}
  PROVE  /\ \E i \in P : \A j \in P : i <= j
         /\ \A n \in Nat : (\A j \in P : j <= n) => \E i \in P : \A j \in P : j <= i
  <1> DEFINE Less == OpToRel(<, Nat)
  <1>1. IsWellFoundedOn(Less, Nat)
    BY NatLessThanWellFounded
  <1>2. \A x, y \in Nat : <<y, x>> \in Less <=> y < x
    BY DEF OpToRel
  <1> HIDE DEF Less
  <1>3. ASSUME NEW Q \in SUBSET Nat, Q # {} PROVE \E i \in Q : \A j \in Q : i <= j
    <2>1. PICK i \in Q : \A j \in Q : <<j, i>> \notin Less
      BY <1>1, <1>3, WFMin
    <2>2. \A j \in Q : ~ j < i
      BY <1>2, <2>1
    <2> QED  BY <2>2
  <1>4. ASSUME NEW n \in Nat, \A j \in P : j <= n
        PROVE  \E i \in P : \A j \in P : j <= i
    <2> DEFINE Back == {m \in Nat : n - m \in P}
    <2>1. \A j \in P : n - j \in Back
      BY <1>4
    <2>2. Back \subseteq Nat /\ Back # {}
      BY <2>1
    <2>3. PICK m \in Back : \A k \in Back : m <= k
      BY <1>3, <2>2
    <2>4. n - m \in P /\ \A j \in P : m <= n - j
      BY <2>1, <2>3
    <2>5. \A j \in P : j <= n - m
      BY <1>4, <2>2, <2>4
    <2> QED  BY <2>4, <2>5
  <1> QED  BY <1>3, <1>4

(* Of the places in a list, there is a k-th.                               *)
LEMMA PlacesInOrder ==
  ASSUME NEW n \in Nat, NEW P \in SUBSET (1 .. n)
  PROVE  /\ IsFiniteSet(P) /\ Cardinality(P) \in Nat
         /\ \A k \in 1 .. Cardinality(P) : \E i \in P : Cardinality({j \in P : j <= i}) = k
  <1> DEFINE Upto(m) == {j \in P : j <= m}
  <1>0. \A j \in P : j \in Nat /\ 1 <= j /\ j <= n
    OBVIOUS
  <1>1. IsFiniteSet(P) /\ Cardinality(P) \in Nat
    <2>1. IsFiniteSet(1 .. n)
      BY FS_Interval
    <2> QED  BY <2>1, FS_Subset, FS_CardinalityType
  <1>2. ASSUME NEW m PROVE IsFiniteSet(Upto(m)) /\ Cardinality(Upto(m)) \in Nat
    <2>1. Upto(m) \in SUBSET P
      OBVIOUS
    <2> QED  BY <1>1, <2>1, FS_Subset, FS_CardinalityType
  <1> SUFFICES ASSUME NEW k \in 1 .. Cardinality(P)
               PROVE  \E i \in P : Cardinality(Upto(i)) = k
    BY <1>1
  <1> DEFINE Reached == {m \in Nat : Cardinality(Upto(m)) >= k}
  <1>3. k \in Nat /\ k > 0 /\ k <= Cardinality(P)
    BY <1>1
  <1>4. n \in Reached
    <2>1. Upto(n) = P
      BY <1>0
    <2> QED  BY <1>1, <1>3, <2>1
  <1>5. PICK i \in Reached : \A j \in Reached : i <= j
    <2> HIDE DEF Reached
    <2>1. Reached \in SUBSET Nat /\ Reached # {}
      BY <1>4 DEF Reached
    <2> QED  BY <2>1, SmallestAndLargest
  <1>6. i \in Nat /\ Cardinality(Upto(i)) >= k
    BY <1>5
  <1>7. i # 0
    <2>0. \A j \in P : ~(j <= 0)
      BY <1>0
    <2>1. Upto(0) = {}
      BY <2>0
    <2>2. Cardinality(Upto(0)) = 0
      BY <2>1, FS_EmptySet
    <2> QED  BY <1>3, <1>6, <2>2
  <1>8. i - 1 \in Nat /\ ~(Cardinality(Upto(i - 1)) >= k)
    <2>1. i - 1 \in Nat /\ ~(i <= i - 1)
      BY <1>6, <1>7
    <2>2. i - 1 \notin Reached
      BY <1>5, <2>1
    <2> QED  BY <2>1, <2>2
  <1>9. i \in P
    <2> SUFFICES ASSUME i \notin P PROVE FALSE
      OBVIOUS
    <2>1. \A j \in P : j <= i <=> j <= i - 1
      BY <1>0, <1>6
    <2>2. Upto(i) = Upto(i - 1)
      BY <2>1
    <2> QED  BY <1>6, <1>8, <2>2
  <1>10. Cardinality(Upto(i)) = Cardinality(Upto(i - 1)) + 1
    <2>0. (\A j \in P : j <= i <=> j <= i - 1 \/ j = i) /\ ~(i <= i - 1)
      BY <1>0, <1>6
    <2>1. Upto(i) = Upto(i - 1) \cup {i} /\ i \notin Upto(i - 1)
      BY <1>9, <2>0
    <2>2. IsFiniteSet(Upto(i - 1))
      BY <1>2
    <2> HIDE DEF Upto
    <2>3. Cardinality(Upto(i - 1) \cup {i}) = Cardinality(Upto(i - 1)) + 1
      BY <2>1, <2>2, FS_AddElement
    <2> QED  BY <2>1, <2>3
  <1>11. Cardinality(Upto(i)) = k
    <2>1. Cardinality(Upto(i)) \in Nat /\ Cardinality(Upto(i - 1)) \in Nat
      BY <1>2
    <2> HIDE DEF Upto
    <2> QED  BY <1>3, <1>6, <1>8, <1>10, <2>1
  <1> QED  BY <1>9, <1>11

(* The steps for the members of a report are for components of it.         *)
LEMMA StepsOfReport ==
  ASSUME NEW S, NEW what \in {"owner", "notify"}
  PROVE  /\ Steps(S, what) \in Seq(ChoreStep)
         /\ \A x \in ToSet(Steps(S, what)) : \E c \in ChoreComponent \cap S : x = <<c, what>>
  <1> DEFINE places == {i \in DOMAIN ChoreComponents : ChoreComponents[i] \in S}
             Place(k) == CHOOSE i \in places : Cardinality({j \in places : j <= i}) = k
             n == Len(ChoreComponents)
  <1>1. /\ DOMAIN ChoreComponents = 1 .. n /\ n \in Nat
        /\ \A i \in DOMAIN ChoreComponents : ChoreComponents[i] \in ChoreComponent
    BY ChoresAssumption DEF ChoreComponent
  <1>2. places \in SUBSET (1 .. n)
    BY <1>1
  <1>3. /\ Cardinality(places) \in Nat
        /\ \A k \in 1 .. Cardinality(places) :
             \E i \in places : Cardinality({j \in places : j <= i}) = k
    <2> HIDE DEF places
    <2> QED  BY <1>1, <1>2, PlacesInOrder
  <1>4. \A k \in 1 .. Cardinality(places) : Place(k) \in places
    <2> HIDE DEF places
    <2> QED  BY <1>3
  <1>5. Steps(S, what) = [k \in 1 .. Cardinality(places) |-> <<ChoreComponents[Place(k)], what>>]
    BY DEF Steps
  <1>6. \A k \in 1 .. Cardinality(places) : ChoreComponents[Place(k)] \in ChoreComponent \cap S
    BY <1>1, <1>4
  <1> HIDE DEF places, Place
  <1> DEFINE s == Steps(S, what)
  <1>7. DOMAIN s = 1 .. Cardinality(places) /\ s = [k \in 1 .. Cardinality(places) |-> s[k]]
    BY <1>5
  <1>8. \A k \in 1 .. Cardinality(places) : \E c \in ChoreComponent \cap S : s[k] = <<c, what>>
    BY <1>5, <1>6
  <1> HIDE DEF s
  <1>9. \A c \in ChoreComponent : <<c, what>> \in ChoreStep
    BY DEF ChoreStep, ReportStep
  <1>10. \A k \in 1 .. Cardinality(places) : s[k] \in ChoreStep
    BY <1>8, <1>9
  <1>11. s \in Seq(ChoreStep)
    BY <1>3, <1>7, <1>10
  <1>12. \A x \in ToSet(s) : \E c \in ChoreComponent \cap S : x = <<c, what>>
    BY <1>7, <1>8 DEF ToSet
  <1> QED  BY <1>11, <1>12 DEF s

(* The number that is read is that of a build that succeeded.              *)
LEMMA LatestSucceeded ==
  ASSUME builds \in Seq(Candidate), NEW p
  PROVE  /\ LatestRC(p) \in Nat
         /\ LatestRC(p) # 0 => LatestRC(p) \in Numbers(p, {"SUCCESS"})
  <1> DEFINE ended == {i \in DOMAIN builds : builds[i].product = p /\ builds[i].result = "SUCCESS"}
             last == CHOOSE i \in ended : \A j \in ended : j <= i
  <1>1. LatestRC(p) = IF ended = {} THEN 0 ELSE builds[last].rc
    BY DEF LatestRC
  <1>2. /\ DOMAIN builds = 1 .. Len(builds) /\ Len(builds) \in Nat
        /\ \A i \in DOMAIN builds : builds[i] \in Candidate
    OBVIOUS
  <1>3. ended \in SUBSET Nat /\ \A i \in ended : i <= Len(builds)
    BY <1>2
  <1>4. CASE ended = {}
    BY <1>1, <1>4
  <1>5. CASE ended # {}
    <2>1. last \in ended
      <3> HIDE DEF ended
      <3>1. \E i \in ended : \A j \in ended : j <= i
        BY <1>2, <1>3, <1>5, SmallestAndLargest
      <3> QED  BY <3>1
    <2> HIDE DEF last
    <2>2. last \in DOMAIN builds /\ builds[last].product = p /\ builds[last].result \in {"SUCCESS"}
      BY <2>1
    <2>3. builds[last].rc \in Nat
      BY <1>2, <2>2 DEF Candidate
    <2>4. builds[last].rc \in Numbers(p, {"SUCCESS"})
      BY <2>2 DEF Numbers
    <2> QED  BY <1>1, <1>5, <2>3, <2>4
  <1> QED  BY <1>4, <1>5

(* The kinds of steps tell whom they are about.                            *)
LEMMA StepKinds ==
  ASSUME NEW x \in ChoreStep
  PROVE  /\ x[2] \in {"owner", "tell", "notify"} => x[1] \in ChoreComponent
         /\ x[2] \in NotesWhat => x[1] \in Noted
         /\ x[2] \in ChoreProduct => x[1] \in Nat \ {0}
         /\ x[2] = "assign" => x[1] \in ChoreComponent /\ x[3] \in Maintainers
  <1>1. CASE x \in ReportStep
    BY <1>1 DEF ReportStep, NotesWhat, ChoreProduct
  <1>2. CASE x \in PullStep
    BY <1>2 DEF PullStep, NotesWhat, ChoreProduct
  <1>3. CASE x \in ReleaseStep
    BY <1>3 DEF ReleaseStep, NotesWhat, ChoreProduct
  <1>4. CASE x \in BuildStep
    BY <1>4 DEF BuildStep, NotesWhat, ChoreProduct
  <1>5. CASE x \in AssignStep
    BY <1>5 DEF AssignStep, NotesWhat, ChoreProduct
  <1> QED  BY <1>1, <1>2, <1>3, <1>4, <1>5 DEF ChoreStep

(* A step is put in front of the others, or is not.                        *)
LEMMA StepInFront ==
  ASSUME NEW x \in ChoreStep, NEW rest \in Seq(ChoreStep),
         NEW ahead \in {rest, <<x>> \o rest}
  PROVE  /\ ahead \in Seq(ChoreStep)
         /\ \A y \in ToSet(ahead) : y \in ToSet(rest) \/ y = x
  <1>1. <<x>> \in Seq(ChoreStep) /\ Len(<<x>>) = 1 /\ <<x>>[1] = x
    OBVIOUS
  <1> DEFINE s == <<x>> \o rest
  <1>2. /\ s \in Seq(ChoreStep) /\ Len(s) = 1 + Len(rest) /\ Len(rest) \in Nat
        /\ \A i \in 1 .. 1 + Len(rest) : s[i] = IF i <= 1 THEN <<x>>[i] ELSE rest[i - 1]
    BY <1>1, ConcatProperties
  <1>3. ASSUME NEW i \in 1 .. 1 + Len(rest) PROVE s[i] \in ToSet(rest) \/ s[i] = x
    <2>1. CASE i <= 1
      BY <1>1, <1>2, <2>1
    <2>2. CASE ~(i <= 1)
      <3>1. i - 1 \in 1 .. Len(rest) /\ s[i] = rest[i - 1]
        BY <1>2, <2>2
      <3> QED  BY <3>1 DEF ToSet
    <2> QED  BY <2>1, <2>2
  <1> HIDE DEF s
  <1>4. \A y \in ToSet(s) : y \in ToSet(rest) \/ y = x
    BY <1>2, <1>3 DEF ToSet
  <1>5. s \in Seq(ChoreStep) /\ ahead \in {rest, s}
    BY <1>2 DEF s
  <1>6. CASE ahead = rest
    BY <1>6
  <1>7. CASE ahead = s
    BY <1>4, <1>5, <1>7
  <1> QED  BY <1>5, <1>6, <1>7

(* What is known of the step a chore takes next.                           *)
LEMMA NextStep ==
  ASSUME ChoreInv, NEW what, Step(what)
  PROVE  LET x == Head(chore.todo) IN
         /\ chore.state = "running" /\ chore.todo # <<>>
         /\ x \in ChoreStep /\ x[2] = what /\ x \in ToSet(chore.todo) /\ StepFits(x)
         /\ Tail(chore.todo) \in Seq(ChoreStep)
         /\ \A y : y \in ToSet(chore.todo) <=> y = x \/ y \in ToSet(Tail(chore.todo))
         /\ chore.action = "notify" => what = "notify"
         /\ chore.name = "notes-pr" <=> what \in NotesWhat
  <1> DEFINE x == Head(chore.todo)
  <1>1. /\ chore.state = "running" /\ chore.todo # <<>> /\ x[2] = what
        /\ chore.todo \in Seq(ChoreStep)
    BY DEF Step, ChoreInv, WorkInv, ChoreRecord
  <1>2. /\ x \in ChoreStep /\ Tail(chore.todo) \in Seq(ChoreStep)
        /\ \A y : y \in ToSet(chore.todo) <=> y = x \/ y \in ToSet(Tail(chore.todo))
    BY <1>1, HeadAndTail
  <1>3. StepFits(x) /\ (chore.action = "notify" => what = "notify")
    BY <1>1, <1>2 DEF ChoreInv, WorkInv, NotifyInv
  <1>4. ASSUME chore.name = "notes-pr" PROVE what \in NotesWhat
    <2>1. PICK c \in Noted : NotesStepOf(c)
      BY <1>1, <1>4 DEF ChoreInv, WorkInv, NotesChoreInv
    <2> QED  BY <1>1, <2>1 DEF NotesStepOf, NotesWhat
  <1>5. ASSUME chore.name # "notes-pr" PROVE what \notin NotesWhat
    BY <1>1, <1>2, <1>5 DEF ChoreInv, WorkInv, NotesChoreInv
  <1> QED  BY <1>1, <1>2, <1>3, <1>4, <1>5

(* A step that fits does so as more owners are told and builds succeed.    *)
LEMMA StepsKeepFitting ==
  ASSUME \A c : told[c] \subseteq told'[c],
         \A p : Numbers(p, {"SUCCESS"}) \subseteq Numbers(p, {"SUCCESS"})',
         NEW x, StepFits(x)
  PROVE  StepFits(x)'
  BY DEF StepFits

(* What the parts of the invariant keep while their variables stay.        *)
LEMMA ChorePartsStay ==
  ASSUME ChoreInv
  PROVE  /\ UNCHANGED <<assignees, told>> => PeopleInv'
         /\ UNCHANGED builds =>
              CandidatesInv' /\ \A p : Numbers(p, {"SUCCESS"})' = Numbers(p, {"SUCCESS"})
         /\ UNCHANGED notes => PullInv'
  <1>1. UNCHANGED <<assignees, told>> => PeopleInv'
    BY DEF ChoreInv, PeopleInv
  <1>2. ASSUME UNCHANGED builds
        PROVE  CandidatesInv' /\ \A p : Numbers(p, {"SUCCESS"})' = Numbers(p, {"SUCCESS"})
    BY <1>2 DEF ChoreInv, CandidatesInv, CandidatesFollowSuccess, Numbers
  <1>3. UNCHANGED notes => PullInv'
    BY DEF ChoreInv, PullInv, notes
  <1> QED  BY <1>1, <1>2, <1>3

(* A chore begins with steps that fit.                                     *)
LEMMA ChoreBegins ==
  ASSUME ChoreInv, NEW name \in ChoreName, NEW action \in ChoreAction, NEW todo \in Seq(ChoreStep),
         Begin(name, action, todo), name # "notes-pr",
         \A x \in ToSet(todo) : StepFits(x)' /\ x[2] \notin NotesWhat,
         action = "notify" => \A x \in ToSet(todo) : x[2] = "notify"
  PROVE  WorkInv'
  <1>1. /\ chore' \in ChoreRecord /\ chore'.state = "running" /\ chore'.name = name
        /\ chore'.todo = todo /\ chore'.flagged = todo /\ chore'.action = action
    BY DEF Begin, ChoreRecord
  <1>2. NotifyInv'
    BY <1>1 DEF NotifyInv
  <1>3. NotesChoreInv'
    BY <1>1 DEF NotesChoreInv
  <1>4. \A x \in ToSet(chore'.todo) : StepFits(x)'
    BY <1>1
  <1> QED  BY <1>1, <1>2, <1>3, <1>4 DEF WorkInv

(* A step of a chore that neither notifies nor handles notes.              *)
LEMMA ChoreStepTaken ==
  ASSUME ChoreInv, NEW what, Step(what), what \notin NotesWhat \cup {"notify"},
         NEW ahead \in Seq(ChoreStep), chore' = [chore EXCEPT !.todo = ahead],
         \A x \in ToSet(ahead) :
           x \in ToSet(Tail(chore.todo)) \/ (StepFits(x)' /\ x[2] \notin NotesWhat),
         \A c : told[c] \subseteq told'[c],
         \A p : Numbers(p, {"SUCCESS"}) \subseteq Numbers(p, {"SUCCESS"})'
  PROVE  WorkInv'
  <1>1. chore.state = "running" /\ chore.action # "notify" /\ chore.name # "notes-pr"
    BY NextStep
  <1>2. chore \in ChoreRecord /\ \A x \in ToSet(chore.todo) : StepFits(x)
    BY DEF ChoreInv, WorkInv
  <1>3. /\ chore' \in ChoreRecord /\ chore'.state = "running" /\ chore'.todo = ahead
        /\ chore'.action # "notify" /\ chore'.name # "notes-pr"
    BY <1>1, <1>2 DEF ChoreRecord
  <1>4. \A x \in ToSet(Tail(chore.todo)) : StepFits(x) /\ x[2] \notin NotesWhat
    BY <1>1, <1>2, NextStep DEF ChoreInv, WorkInv, NotesChoreInv
  <1>5. \A x \in ToSet(chore'.todo) : StepFits(x)' /\ x[2] \notin NotesWhat
    BY <1>3, <1>4, StepsKeepFitting
  <1> QED  BY <1>3, <1>5 DEF WorkInv, NotifyInv, NotesChoreInv

(* A chore that fails asks nothing of what it leaves behind.               *)
LEMMA ChoreGivesUp ==
  ASSUME ChoreInv, NEW what, Step(what), Fails, UNCHANGED <<told, builds, commented>>
  PROVE  WorkInv'
  <1>1. /\ chore' \in ChoreRecord /\ chore'.state = "failure" /\ chore'.todo = chore.todo
        /\ chore'.action = chore.action /\ chore'.flagged = chore.flagged
        /\ chore'.name = chore.name
    BY DEF ChoreInv, WorkInv, Fails, ChoreRecord
  <1>2. NotifyInv'
    BY <1>1 DEF ChoreInv, WorkInv, NotifyInv
  <1>3. \A x \in ToSet(chore'.todo) : StepFits(x)'
    BY <1>1 DEF ChoreInv, WorkInv, StepFits, Numbers
  <1>4. NotesChoreInv'
    BY <1>1 DEF ChoreInv, WorkInv, NotesChoreInv
  <1> QED  BY <1>1, <1>2, <1>3, <1>4 DEF WorkInv

(* The chores of the report of a release: IndexOwners, the owners and the  *)
(* comments.                                                               *)
LEMMA OwnersBegin ==
  ASSUME ChoreInv, NEW action \in {"check", "request", "assign"}, BeginOwners(action)
  PROVE  ChoreInv'
  <1>1. PeopleInv' /\ CandidatesInv' /\ PullInv'
    BY ChorePartsStay DEF BeginOwners, people
  <1> DEFINE todo == Steps(ChoreComponent, "owner")
  <1>2. todo \in Seq(ChoreStep) /\ \A x \in ToSet(todo) : \E c : x = <<c, "owner">>
    BY StepsOfReport
  <1> HIDE DEF todo
  <1>3. \A x \in ToSet(todo) : StepFits(x)' /\ x[2] \notin NotesWhat
    BY <1>2 DEF StepFits, ChoreProduct, NotesWhat
  <1>4. Begin("release-owners", action, todo)
    BY DEF BeginOwners, todo
  <1>5. /\ action \in ChoreAction /\ action # "notify"
        /\ "release-owners" \in ChoreName /\ "release-owners" # "notes-pr"
    BY DEF ChoreAction, ChoreName
  <1>6. WorkInv'
    BY <1>2, <1>3, <1>4, <1>5, ChoreBegins
  <1> QED  BY <1>1, <1>6 DEF ChoreInv

(* A notifying chore begins: nobody is told yet.                           *)
LEMMA NotifyBegins ==
  ASSUME ChoreInv, NEW name \in {"doc-issues", "code-coverage", "release-notes"},
         NEW action \in {"check", "notify"}, NEW S, BeginNotify(name, action, S)
  PROVE  ChoreInv'
  <1>1. PeopleInv' /\ CandidatesInv' /\ PullInv'
    BY ChorePartsStay DEF BeginNotify
  <1> DEFINE todo == IF action = "notify" THEN Steps(S, "notify") ELSE <<>>
  <1>2. /\ Steps(S, "notify") \in Seq(ChoreStep)
        /\ \A x \in ToSet(Steps(S, "notify")) : \E c : x = <<c, "notify">>
    BY StepsOfReport
  <1>3. ToSet(<<>>) = {}
    BY DEF ToSet
  <1>4. todo \in Seq(ChoreStep) /\ \A x \in ToSet(todo) : \E c : x = <<c, "notify">>
    BY <1>2, <1>3
  <1>5. Begin(name, action, todo)
    BY DEF BeginNotify
  <1> HIDE DEF todo
  <1>6. \A x \in ToSet(todo) : x[2] = "notify" /\ StepFits(x)' /\ x[2] \notin NotesWhat
    BY <1>4 DEF StepFits, ChoreProduct, NotesWhat
  <1>7. action \in ChoreAction /\ name \in ChoreName /\ name # "notes-pr"
    BY DEF ChoreAction, ChoreName
  <1>8. WorkInv'
    BY <1>4, <1>5, <1>6, <1>7, ChoreBegins
  <1> QED  BY <1>1, <1>8 DEF ChoreInv

(* Reading and announcing change nothing the invariant speaks of.          *)
LEMMA ChoreReads ==
  ASSUME ChoreInv, ReadNumbers \/ ReadBuild \/ ReadResults \/ Announce
  PROVE  ChoreInv'
  <1>1. UNCHANGED <<people, builds, notes>>
    BY DEF ReadNumbers, ReadBuild, ReadResults, Announce
  <1>2. PeopleInv' /\ CandidatesInv' /\ PullInv' /\ UNCHANGED <<told, builds, commented>>
    BY <1>1, ChorePartsStay DEF people
  <1>3. PICK what \in {"numbers", "build", "read", "announce", "dispatch"} :
          Step(what) /\ (Done \/ Fails)
    BY DEF ReadNumbers, ReadBuild, ReadResults, Announce
  <1>4. CASE Fails
    BY <1>2, <1>3, <1>4, ChoreGivesUp DEF ChoreInv
  <1>5. CASE Done
    <2>1. /\ Tail(chore.todo) \in Seq(ChoreStep)
          /\ chore' = [chore EXCEPT !.todo = Tail(chore.todo)]
      BY <1>3, <1>5, NextStep DEF Done
    <2>2. \A p : Numbers(p, {"SUCCESS"}) \subseteq Numbers(p, {"SUCCESS"})'
      BY <1>2, ChorePartsStay
    <2>3. what \notin NotesWhat \cup {"notify"}
      BY <1>3 DEF NotesWhat
    <2>4. WorkInv'
      BY <1>2, <1>3, <2>1, <2>2, <2>3, ChoreStepTaken
    <2> QED  BY <1>2, <2>4 DEF ChoreInv
  <1> QED  BY <1>3, <1>4, <1>5

(* A component without owners is announced before it is assigned.          *)
LEMMA OwnersRead ==
  ASSUME ChoreInv, ReadOwner
  PROVE  ChoreInv'
  <1>1. PeopleInv' /\ CandidatesInv' /\ PullInv' /\ UNCHANGED told
    BY ChorePartsStay DEF ReadOwner, people
  <1>2. /\ Step("owner") /\ Tail(chore.todo) \in Seq(ChoreStep)
        /\ Head(chore.todo) \in ChoreStep /\ Head(chore.todo)[2] = "owner"
    BY NextStep DEF ReadOwner
  <1>3. PICK c : c = Head(chore.todo)[1]
    OBVIOUS
  <1>4. /\ c \in ChoreComponent /\ <<c, "tell">> \in ChoreStep
    <2>1. c \in ChoreComponent
      BY <1>2, <1>3, StepKinds
    <2> QED  BY <2>1 DEF ChoreStep, ReportStep
  <1>5. PICK ahead \in {Tail(chore.todo), <<<<c, "tell">>>> \o Tail(chore.todo)} :
          chore' = [chore EXCEPT !.todo = ahead]
    BY <1>3 DEF ReadOwner
  <1>6. StepFits(<<c, "tell">>)' /\ "tell" \notin NotesWhat
        /\ "owner" \notin NotesWhat \cup {"notify"}
    BY DEF StepFits, ChoreProduct, NotesWhat
  <1> DEFINE x == <<c, "tell">>
             rest == Tail(chore.todo)
  <1>7. /\ ahead \in Seq(ChoreStep)
        /\ \A y \in ToSet(ahead) : y \in ToSet(rest) \/ y = x
    <2>1. x \in ChoreStep /\ rest \in Seq(ChoreStep) /\ ahead \in {rest, <<x>> \o rest}
      BY <1>2, <1>4
    <2> HIDE DEF x, rest
    <2> QED  BY <2>1, StepInFront
  <1>8. \A y \in ToSet(ahead) :
          y \in ToSet(rest) \/ (StepFits(y)' /\ y[2] \notin NotesWhat)
    BY <1>6, <1>7
  <1>9. \A p : Numbers(p, {"SUCCESS"}) \subseteq Numbers(p, {"SUCCESS"})'
    BY ChorePartsStay DEF ReadOwner
  <1>10. WorkInv'
    BY <1>1, <1>2, <1>5, <1>6, <1>7, <1>8, <1>9, ChoreStepTaken
  <1> QED  BY <1>1, <1>10 DEF ChoreInv

(* A comment names an owner before that owner is assigned.                 *)
LEMMA OwnerTold ==
  ASSUME ChoreInv, TellOwner
  PROVE  ChoreInv'
  <1>1. CandidatesInv' /\ PullInv' /\ UNCHANGED <<assignees, builds, commented>>
    BY ChorePartsStay DEF TellOwner
  <1>2. Step("tell") /\ Tail(chore.todo) \in Seq(ChoreStep)
    BY NextStep DEF TellOwner
  <1>0. PICK c : c = Head(chore.todo)[1]
    OBVIOUS
  <1>3. /\ \A p : Numbers(p, {"SUCCESS"}) \subseteq Numbers(p, {"SUCCESS"})'
        /\ "tell" \notin NotesWhat \cup {"notify"} /\ "assign" \notin NotesWhat
    BY <1>1, ChorePartsStay DEF NotesWhat
  <1>4. CASE UNCHANGED told /\ Fails
    <2>1. WorkInv'
      BY <1>1, <1>2, <1>4, ChoreGivesUp
    <2>2. PeopleInv'
      BY <1>1, <1>4, ChorePartsStay
    <2> QED  BY <1>1, <2>1, <2>2 DEF ChoreInv
  <1>5. CASE UNCHANGED told /\ Done
    <2>1. chore' = [chore EXCEPT !.todo = Tail(chore.todo)]
      BY <1>5 DEF Done
    <2>2. \A d : told[d] \subseteq told'[d]
      BY <1>5
    <2>3. WorkInv'
      BY <1>2, <1>3, <2>1, <2>2, ChoreStepTaken
    <2>4. PeopleInv'
      BY <1>1, <1>5, ChorePartsStay
    <2> QED  BY <1>1, <2>3, <2>4 DEF ChoreInv
  <1>6. ASSUME NEW m \in Maintainers, told' = [told EXCEPT ![c] = @ \cup {m}],
               NEW ahead \in {Tail(chore.todo), <<<<c, "assign", m>>>> \o Tail(chore.todo)},
               chore' = [chore EXCEPT !.todo = ahead]
        PROVE  ChoreInv'
    <2>1. told \in [ChoreComponent -> SUBSET Maintainers]
      BY DEF ChoreInv, PeopleInv
    <2>2. \A d : told[d] \subseteq told'[d]
      BY <1>6, <2>1
    <2>3. PeopleInv'
      BY <1>1, <1>6, <2>1, <2>2 DEF ChoreInv, PeopleInv
    <2> DEFINE x == <<c, "assign", m>>
               rest == Tail(chore.todo)
    <2>4. c \in ChoreComponent
      BY <1>0, <1>2, NextStep, StepKinds
    <2>5. x \in ChoreStep
      BY <1>6, <2>4 DEF ChoreStep, AssignStep
    <2>6. /\ ahead \in Seq(ChoreStep)
          /\ \A y \in ToSet(ahead) : y \in ToSet(rest) \/ y = x
      <3>1. rest \in Seq(ChoreStep) /\ ahead \in {rest, <<x>> \o rest}
        BY <1>2, <1>6
      <3> HIDE DEF x, rest
      <3> QED  BY <2>5, <3>1, StepInFront
    <2>7. m \in told'[c]
      BY <1>6, <2>1, <2>4
    <2>8. StepFits(x)' /\ x[2] \notin NotesWhat
      BY <1>3, <2>7 DEF StepFits, ChoreProduct
    <2> HIDE DEF x
    <2>9. \A y \in ToSet(ahead) :
            y \in ToSet(rest) \/ (StepFits(y)' /\ y[2] \notin NotesWhat)
      BY <1>3, <2>6, <2>8
    <2>10. WorkInv'
      BY <1>2, <1>3, <1>6, <2>2, <2>6, <2>9, ChoreStepTaken
    <2> QED  BY <1>1, <2>3, <2>10 DEF ChoreInv
  <1>7. \/ UNCHANGED told /\ Fails
        \/ UNCHANGED told /\ Done
        \/ \E m \in Maintainers :
             \E ahead \in {Tail(chore.todo), <<<<c, "assign", m>>>> \o Tail(chore.todo)} :
             /\ told' = [told EXCEPT ![c] = @ \cup {m}]
             /\ chore' = [chore EXCEPT !.todo = ahead]
    BY <1>0 DEF TellOwner, MaintainersRead
  <1> QED  BY <1>4, <1>5, <1>6, <1>7
(* Whoever is assigned has been told.                                      *)
LEMMA OwnerAssigned ==
  ASSUME ChoreInv, AssignOwner
  PROVE  ChoreInv'
  <1>1. CandidatesInv' /\ PullInv' /\ UNCHANGED <<told, builds, commented>>
    BY ChorePartsStay DEF AssignOwner
  <1>2. Step("assign") /\ chore' = [chore EXCEPT !.todo = Tail(chore.todo)]
    BY DEF AssignOwner, Done
  <1> DEFINE x == Head(chore.todo)
  <1>3. /\ x \in ChoreStep /\ x[2] = "assign" /\ StepFits(x)
        /\ Tail(chore.todo) \in Seq(ChoreStep)
    BY <1>2, NextStep
  <1>4. x[1] \in ChoreComponent /\ x[3] \in Maintainers /\ x[3] \in told[x[1]]
    BY <1>3, StepKinds DEF StepFits
  <1>5. assignees' = [assignees EXCEPT ![x[1]] = @ \cup {x[3]}]
    BY DEF AssignOwner
  <1> HIDE DEF x
  <1>6. PeopleInv'
    BY <1>1, <1>4, <1>5 DEF ChoreInv, PeopleInv
  <1>7. /\ \A p : Numbers(p, {"SUCCESS"}) \subseteq Numbers(p, {"SUCCESS"})'
        /\ "assign" \notin NotesWhat \cup {"notify"}
    BY <1>1, ChorePartsStay DEF NotesWhat
  <1>8. WorkInv'
    BY <1>1, <1>2, <1>3, <1>7, ChoreStepTaken
  <1> QED  BY <1>1, <1>6, <1>8 DEF ChoreInv

(* A component is told, or the chore ends where it is.                     *)
LEMMA ComponentTold ==
  ASSUME ChoreInv, Notify
  PROVE  ChoreInv'
  <1>1. /\ PeopleInv' /\ CandidatesInv' /\ PullInv' /\ UNCHANGED <<told, builds>>
        /\ \A p : Numbers(p, {"SUCCESS"})' = Numbers(p, {"SUCCESS"})
    BY ChorePartsStay DEF Notify
  <1> DEFINE x == Head(chore.todo)
             rest == Tail(chore.todo)
  <1>2. /\ Step("notify") /\ chore.state = "running" /\ rest \in Seq(ChoreStep)
        /\ chore.name # "notes-pr"
        /\ \A y : y \in ToSet(chore.todo) <=> y = x \/ y \in ToSet(rest)
    BY NextStep DEF Notify, NotesWhat
  <1>3. \/ Fails /\ UNCHANGED commented
        \/ Done /\ commented' = commented \cup {x[1]}
    BY DEF Notify
  <1>4. CASE Fails /\ UNCHANGED commented
    BY <1>1, <1>2, <1>4, ChoreGivesUp DEF ChoreInv
  <1>5. CASE Done /\ commented' = commented \cup {x[1]}
    <2>1. chore \in ChoreRecord
      BY DEF ChoreInv, WorkInv
    <2>2. /\ chore' \in ChoreRecord /\ chore'.todo = rest /\ chore'.state = "running"
          /\ chore'.name # "notes-pr" /\ chore'.action = chore.action
          /\ chore'.flagged = chore.flagged
      BY <1>2, <1>5, <2>1 DEF Done, ChoreRecord
    <2> HIDE DEF x, rest
    <2>3. NotifyInv'
      BY <1>2, <1>5, <2>2 DEF ChoreInv, WorkInv, NotifyInv
    <2>4. \A y \in ToSet(chore'.todo) : StepFits(y)
      BY <1>2, <2>2 DEF ChoreInv, WorkInv
    <2>5. \A y \in ToSet(chore'.todo) : StepFits(y)'
      BY <1>1, <2>4, StepsKeepFitting
    <2>6. \A y \in ToSet(chore'.todo) : y[2] \notin NotesWhat
      BY <1>2, <2>2 DEF ChoreInv, WorkInv, NotesChoreInv
    <2>7. WorkInv'
      BY <2>2, <2>3, <2>5, <2>6 DEF WorkInv, NotesChoreInv
    <2> QED  BY <1>1, <2>7 DEF ChoreInv
  <1> QED  BY <1>3, <1>4, <1>5

(* A build that ends leaves no candidate without its predecessor.          *)
LEMMA CandidateEnds ==
  ASSUME ChoreInv, NEW i, BuildEnds(i)
  PROVE  ChoreInv'
  <1>1. PeopleInv' /\ PullInv' /\ UNCHANGED <<chore, told, commented>>
    BY ChorePartsStay DEF BuildEnds, people
  <1>2. PICK r \in {"SUCCESS", "FAILURE"} : builds' = [builds EXCEPT ![i].result = r]
    BY DEF BuildEnds
  <1>3. i \in DOMAIN builds /\ builds[i].result = "running"
    BY DEF BuildEnds
  <1>4. builds \in Seq(Candidate) /\ CandidatesFollowSuccess
    BY DEF ChoreInv, CandidatesInv
  <1>5. [builds[i] EXCEPT !.result = r] \in Candidate
    <2>1. builds[i] \in Candidate
      BY <1>3, <1>4
    <2>2. r \in {"running", "SUCCESS", "FAILURE"}
      BY <1>2
    <2> QED  BY <2>1, <2>2 DEF Candidate
  <1>6. /\ builds' \in Seq(Candidate) /\ DOMAIN builds' = DOMAIN builds
        /\ \A j \in DOMAIN builds : j # i => builds'[j] = builds[j]
        /\ builds'[i].product = builds[i].product /\ builds'[i].rc = builds[i].rc
    BY <1>2, <1>3, <1>4, <1>5, ExceptSeq DEF Candidate
  <1>7. ASSUME NEW p PROVE Numbers(p, {"SUCCESS"}) \subseteq Numbers(p, {"SUCCESS"})'
    BY <1>3, <1>6 DEF Numbers
  <1>8. CandidatesInv'
    <2>1. \A j \in DOMAIN builds : builds'[j].product = builds[j].product
                                   /\ builds'[j].rc = builds[j].rc
      BY <1>6
    <2>2. CandidatesFollowSuccess'
      BY <1>4, <1>6, <1>7, <2>1 DEF CandidatesFollowSuccess
    <2> QED  BY <1>6, <2>2 DEF CandidatesInv
  <1>9. WorkInv'
    <2>1. \A y \in ToSet(chore.todo) : StepFits(y)'
      BY <1>1, <1>7, StepsKeepFitting DEF ChoreInv, WorkInv
    <2>2. NotifyInv' /\ NotesChoreInv'
      BY <1>1 DEF ChoreInv, WorkInv, NotifyInv, NotesChoreInv, NotesStepOf, Arrived,
                  BuildEnds, notes
    <2> QED  BY <1>1, <2>1, <2>2 DEF ChoreInv, WorkInv
  <1> QED  BY <1>1, <1>8, <1>9 DEF ChoreInv

(* A candidate is built with a number that follows one that succeeded.     *)
LEMMA CandidateTriggered ==
  ASSUME ChoreInv, TriggerBuild
  PROVE  ChoreInv'
  <1>1. PeopleInv' /\ PullInv' /\ UNCHANGED <<told, commented>>
    BY ChorePartsStay DEF TriggerBuild, people
  <1>2. PICK p \in ChoreProduct : Step(p)
    BY DEF TriggerBuild
  <1> DEFINE x == Head(chore.todo)
             b == [product |-> x[2], rc |-> x[1], result |-> "running"]
             n == Len(builds)
  <1>3. /\ x \in ChoreStep /\ x[2] = p /\ StepFits(x) /\ Tail(chore.todo) \in Seq(ChoreStep)
    BY <1>2, NextStep
  <1>4. x[1] \in Nat \ {0} /\ (x[1] = 1 \/ x[1] - 1 \in Numbers(p, {"SUCCESS"}))
    BY <1>2, <1>3, StepKinds DEF StepFits
  <1>5. builds \in Seq(Candidate) /\ CandidatesFollowSuccess
    BY DEF ChoreInv, CandidatesInv
  <1>6. b \in Candidate /\ b.product = p /\ b.rc = x[1]
    BY <1>2, <1>3, <1>4 DEF Candidate
  <1>7. builds' = Append(builds, b)
    BY DEF TriggerBuild
  <1> HIDE DEF b
  <1>8. /\ builds' \in Seq(Candidate) /\ n \in Nat /\ DOMAIN builds = 1 .. n
        /\ DOMAIN builds' = 1 .. n + 1 /\ builds'[n + 1] = b
        /\ \A j \in 1 .. n : builds'[j] = builds[j]
    BY <1>5, <1>6, <1>7, AppendProperties
  <1>9. \A q : Numbers(q, {"SUCCESS"}) \subseteq Numbers(q, {"SUCCESS"})'
    BY <1>8 DEF Numbers
  <1>10. CandidatesInv'
    <2>1. ASSUME NEW j \in 1 .. n + 1, NEW q, q = builds'[j].product, builds'[j].rc > 1
          PROVE  builds'[j].rc - 1 \in Numbers(q, {"SUCCESS"})'
      <3>1. CASE j = n + 1
        <4>1. builds'[j].rc = x[1] /\ q = p
          BY <1>6, <1>8, <2>1, <3>1
        <4>2. x[1] - 1 \in Numbers(p, {"SUCCESS"})
          BY <1>4, <2>1, <4>1
        <4> HIDE DEF x
        <4> QED  BY <1>9, <4>1, <4>2
      <3>2. CASE j \in 1 .. n
        <4>1. builds'[j] = builds[j] /\ j \in DOMAIN builds
          BY <1>8, <3>2
        <4>2. builds[j].rc - 1 \in Numbers(q, {"SUCCESS"})
          BY <1>5, <2>1, <4>1 DEF CandidatesFollowSuccess
        <4> QED  BY <1>9, <4>1, <4>2
      <3> QED  BY <1>8, <3>1, <3>2
    <2>2. CandidatesFollowSuccess'
      BY <1>8, <2>1 DEF CandidatesFollowSuccess
    <2> QED  BY <1>8, <2>2 DEF CandidatesInv
  <1>11. WorkInv'
    <2>1. chore' = [chore EXCEPT !.todo = Tail(chore.todo)] /\ \A c : told[c] \subseteq told'[c]
      BY <1>1 DEF TriggerBuild, Done
    <2>2. p \notin NotesWhat \cup {"notify"}
      BY <1>2 DEF ChoreProduct, NotesWhat
    <2> HIDE DEF x
    <2> QED  BY <1>2, <1>3, <1>9, <2>1, <2>2, ChoreStepTaken
  <1> QED  BY <1>1, <1>10, <1>11 DEF ChoreInv

(* The steps of the notes chore.                                           *)
LEMMA NotesStepsFit ==
  ASSUME NEW c \in Noted, NEW todo,
         \/ todo = <<<<c, "push">>, <<c, "pr">>>>
         \/ \E what \in NotesWhat : todo = <<<<c, what>>>>
         \/ todo = <<>>
  PROVE  todo \in Seq(ChoreStep) /\ \A x \in ToSet(todo) : StepFits(x)'
  <1>1. \A what \in NotesWhat : <<c, what>> \in ChoreStep
    BY DEF ChoreStep, PullStep
  <1>2. todo \in Seq(ChoreStep) /\ \A x \in ToSet(todo) : x[2] \in NotesWhat
    <2>1. CASE todo = <<<<c, "push">>, <<c, "pr">>>>
      <3>1. <<c, "push">> \in ChoreStep /\ <<c, "pr">> \in ChoreStep
        BY <1>1 DEF NotesWhat
      <3> QED  BY <2>1, <3>1 DEF ToSet, NotesWhat
    <2>2. CASE \E what \in NotesWhat : todo = <<<<c, what>>>>
      <3>1. PICK what \in NotesWhat : todo = <<<<c, what>>>>
        BY <2>2
      <3>2. <<c, what>> \in ChoreStep
        BY <1>1
      <3> QED  BY <3>1, <3>2 DEF ToSet
    <2>3. CASE todo = <<>>
      BY <2>3 DEF ToSet
    <2> QED  BY <2>1, <2>2, <2>3
  <1> QED  BY <1>2 DEF StepFits, ChoreProduct, NotesWhat

(* What the notes chore is about, and which step it is at.                 *)
LEMMA NotesStepKnown ==
  ASSUME ChoreInv, NEW what \in NotesWhat, Step(what)
  PROVE  /\ chore.name = "notes-pr" /\ chore.action # "notify" /\ chore.state = "running"
         /\ \E c \in Noted :
              /\ Head(chore.todo)[1] = c /\ chore.flagged = <<<<c, "push">>, <<c, "pr">>>>
              /\ what = "push" => Tail(chore.todo) = <<<<c, "pr">>>>
              /\ what # "push" => Tail(chore.todo) = <<>>
              /\ what \in {"pr", "create"} => pushed[c] = generated[c]
              /\ what = "edit" => Arrived(c)
  <1>1. /\ chore.name = "notes-pr" /\ chore.action # "notify" /\ chore.state = "running"
        /\ chore.todo # <<>> /\ Head(chore.todo)[2] = what
    BY NextStep DEF NotesWhat, Step
  <1>2. PICK c \in Noted : chore.flagged = <<<<c, "push">>, <<c, "pr">>>> /\ NotesStepOf(c)
    BY <1>1 DEF ChoreInv, WorkInv, NotesChoreInv
  <1>3. /\ Head(<<<<c, "push">>, <<c, "pr">>>>) = <<c, "push">>
        /\ Tail(<<<<c, "push">>, <<c, "pr">>>>) = <<<<c, "pr">>>>
        /\ \A w : Head(<<<<c, w>>>>) = <<c, w>> /\ Tail(<<<<c, w>>>>) = <<>>
    OBVIOUS
  <1>4. CASE chore.todo = <<<<c, "push">>, <<c, "pr">>>>
    BY <1>1, <1>2, <1>3, <1>4
  <1>5. CASE chore.todo = <<<<c, "pr">>>> /\ pushed[c] = generated[c]
    BY <1>1, <1>2, <1>3, <1>5
  <1>6. CASE chore.todo = <<<<c, "edit">>>> /\ Arrived(c)
    BY <1>1, <1>2, <1>3, <1>6
  <1>7. CASE chore.todo = <<<<c, "create">>>> /\ pushed[c] = generated[c]
    BY <1>1, <1>2, <1>3, <1>7
  <1> QED  BY <1>1, <1>2, <1>4, <1>5, <1>6, <1>7 DEF NotesStepOf

(* The notes chore goes on as far as the pull request lets it.             *)
LEMMA NotesStepTaken ==
  ASSUME ChoreInv, chore.name = "notes-pr", chore.action # "notify", chore.state = "running",
         NEW c \in Noted, chore.flagged = <<<<c, "push">>, <<c, "pr">>>>,
         NEW ahead, chore' = [chore EXCEPT !.todo = ahead],
         ahead = <<>> \/ \E what \in NotesWhat : ahead = <<<<c, what>>>>,
         NotesStepOf(c)'
  PROVE  WorkInv'
  <1>1. ahead \in Seq(ChoreStep) /\ \A x \in ToSet(ahead) : StepFits(x)'
    BY NotesStepsFit
  <1>2. /\ chore' \in ChoreRecord /\ chore'.state = "running" /\ chore'.todo = ahead
        /\ chore'.action # "notify" /\ chore'.flagged = chore.flagged
        /\ chore'.name = "notes-pr"
    BY <1>1 DEF ChoreInv, WorkInv, ChoreRecord
  <1>3. NotesChoreInv' /\ NotifyInv'
    BY <1>2 DEF NotesChoreInv, NotifyInv
  <1> QED  BY <1>1, <1>2, <1>3 DEF WorkInv

(* The push brings the newest notes to the branch of the pull request.     *)
LEMMA NotesArePushed ==
  ASSUME ChoreInv, PushNotes
  PROVE  ChoreInv'
  <1>1. PeopleInv' /\ CandidatesInv'
    BY ChorePartsStay DEF PushNotes, people
  <1>2. /\ Step("push") /\ "push" \in NotesWhat
        /\ chore' = [chore EXCEPT !.todo = Tail(chore.todo)]
    BY DEF PushNotes, Done, NotesWhat
  <1>3. PICK c \in Noted :
          /\ Head(chore.todo)[1] = c /\ chore.flagged = <<<<c, "push">>, <<c, "pr">>>>
          /\ Tail(chore.todo) = <<<<c, "pr">>>>
    BY <1>2, NotesStepKnown
  <1>4. /\ pushed' = [pushed EXCEPT ![c] = generated[c]]
        /\ UNCHANGED <<generated, committed, openPR, declined>>
    BY <1>3 DEF PushNotes
  <1>5. PullInv' /\ pushed'[c] = generated'[c]
    BY <1>4 DEF ChoreInv, PullInv
  <1>6. chore \in ChoreRecord
    BY DEF ChoreInv, WorkInv
  <1>7. NotesStepOf(c)'
    BY <1>2, <1>3, <1>5, <1>6 DEF NotesStepOf, ChoreRecord
  <1>8. \E what \in NotesWhat : Tail(chore.todo) = <<<<c, what>>>>
    BY <1>3 DEF NotesWhat
  <1>9. WorkInv'
    BY <1>2, <1>3, <1>7, <1>8, NotesStepKnown, NotesStepTaken
  <1> QED  BY <1>1, <1>5, <1>9 DEF ChoreInv

(* The lookup tells whether an open pull request shows them already.       *)
LEMMA NotesAreLookedUp ==
  ASSUME ChoreInv, LookUpPR
  PROVE  ChoreInv'
  <1>1. PeopleInv' /\ CandidatesInv' /\ PullInv' /\ UNCHANGED notes
    BY ChorePartsStay DEF LookUpPR, people
  <1>2. Step("pr") /\ "pr" \in NotesWhat
    BY DEF LookUpPR, NotesWhat
  <1>3. PICK c \in Noted :
          /\ Head(chore.todo)[1] = c /\ chore.flagged = <<<<c, "push">>, <<c, "pr">>>>
          /\ Tail(chore.todo) = <<>> /\ pushed[c] = generated[c]
    BY <1>2, NotesStepKnown
  <1> DEFINE ahead == <<<<c, IF openPR[c] THEN "edit" ELSE "create">>>>
  <1>4. chore' = [chore EXCEPT !.todo = ahead]
    <2>1. chore' = [chore EXCEPT !.todo = ahead \o <<>>]
      BY <1>3 DEF LookUpPR
    <2>2. ahead \o <<>> = ahead
      OBVIOUS
    <2> QED  BY <2>1, <2>2
  <1>5. \E what \in NotesWhat : ahead = <<<<c, what>>>>
    BY DEF NotesWhat
  <1>6. /\ openPR[c] => ahead = <<<<c, "edit">>>>
        /\ ~openPR[c] => ahead = <<<<c, "create">>>>
    OBVIOUS
  <1> HIDE DEF ahead
  <1>7. chore \in ChoreRecord
    BY DEF ChoreInv, WorkInv
  <1>8. NotesStepOf(c)'
    <2>1. chore'.todo = ahead
      BY <1>4, <1>7 DEF ChoreRecord
    <2> QED  BY <1>1, <1>3, <1>6, <2>1 DEF NotesStepOf, Arrived, notes
  <1>9. WorkInv'
    BY <1>2, <1>3, <1>4, <1>5, <1>8, NotesStepKnown, NotesStepTaken
  <1> QED  BY <1>1, <1>9 DEF ChoreInv

(* The notes have arrived when the pull request was edited or opened; one  *)
(* that cannot be opened ends the chore.                                   *)
LEMMA NotesArePublished ==
  ASSUME ChoreInv, EditPR \/ CreatePR
  PROVE  ChoreInv'
  <1>1. /\ PeopleInv' /\ CandidatesInv' /\ UNCHANGED <<told, builds, commented>>
        /\ UNCHANGED <<generated, committed, pushed, declined>>
    BY ChorePartsStay DEF EditPR, CreatePR, people, notes
  <1>2. PICK what \in {"edit", "create"} :
          /\ Step(what)
          /\ what = "edit" => Done /\ UNCHANGED openPR
          /\ what = "create" => \/ Fails /\ UNCHANGED openPR
                                \/ Done /\ openPR' = [openPR EXCEPT ![Head(chore.todo)[1]] = TRUE]
    BY DEF EditPR, CreatePR, notes
  <1>3. what \in NotesWhat
    BY DEF NotesWhat
  <1>4. PICK c \in Noted :
          /\ Head(chore.todo)[1] = c /\ chore.flagged = <<<<c, "push">>, <<c, "pr">>>>
          /\ Tail(chore.todo) = <<>> /\ (what = "create" => pushed[c] = generated[c])
          /\ what = "edit" => Arrived(c)
    BY <1>2, <1>3, NotesStepKnown
  <1>5. PullInv
    BY DEF ChoreInv
  <1>6. PullInv'
    BY <1>1, <1>2, <1>4, <1>5 DEF PullInv
  <1>7. CASE Fails
    BY <1>1, <1>2, <1>6, <1>7, ChoreGivesUp DEF ChoreInv
  <1>8. CASE Done
    <2>1. chore' = [chore EXCEPT !.todo = <<>>]
      BY <1>4, <1>8 DEF Done
    <2>2. chore \in ChoreRecord
      BY DEF ChoreInv, WorkInv
    <2>3. chore'.todo = <<>> /\ ~Fails
      BY <1>2, <1>3, <2>1, <2>2, NextStep DEF ChoreRecord, Fails
    <2>4. Arrived(c)'
      <3>1. CASE what = "edit"
        BY <1>1, <1>2, <1>4, <3>1 DEF Arrived
      <3>2. CASE what = "create"
        BY <1>1, <1>2, <1>4, <1>5, <2>3, <3>2 DEF Arrived, PullInv
      <3> QED  BY <3>1, <3>2
    <2>5. WorkInv'
      BY <1>2, <1>3, <1>4, <2>1, <2>3, <2>4, NotesStepKnown, NotesStepTaken DEF NotesStepOf
    <2> QED  BY <1>1, <1>6, <2>5 DEF ChoreInv
  <1> QED  BY <1>2, <1>7, <1>8

(* A notes chore begins with what is to be done, or with nothing.          *)
LEMMA NotesChoreBegins ==
  ASSUME ChoreInv, NEW c \in Noted, BeginNotes(c)
  PROVE  ChoreInv'
  <1>1. PeopleInv' /\ CandidatesInv' /\ PullInv'
    <2>1. PeopleInv' /\ CandidatesInv'
      BY ChorePartsStay DEF BeginNotes, people
    <2>2. /\ UNCHANGED <<generated, committed, pushed, openPR>>
          /\ declined' = [declined EXCEPT ![c] = 0]
      BY DEF BeginNotes
    <2>3. PullInv
      BY DEF ChoreInv
    <2>4. \A d \in Noted : declined'[d] = declined[d] \/ declined'[d] = 0
      BY <2>2, <2>3 DEF PullInv
    <2>5. PullInv'
      BY <2>2, <2>3, <2>4 DEF PullInv
    <2> QED  BY <2>1, <2>5
  <1>2. \/ NotesSteps(c) = <<>>
        \/ NotesSteps(c) = <<<<c, "push">>, <<c, "pr">>>>
    BY DEF NotesSteps
  <1>3. NotesSteps(c) \in Seq(ChoreStep) /\ \A x \in ToSet(NotesSteps(c)) : StepFits(x)'
    <2> DEFINE todo == NotesSteps(c)
    <2> HIDE DEF todo
    <2>1. PICK s : s = todo
      OBVIOUS
    <2>2. s \in Seq(ChoreStep) /\ \A x \in ToSet(s) : StepFits(x)'
      BY <1>2, <2>1, NotesStepsFit DEF todo
    <2> QED  BY <2>1, <2>2 DEF todo
  <1>4. PICK todo : todo = NotesSteps(c)
    OBVIOUS
  <1>5. /\ chore' \in ChoreRecord /\ chore'.state = "running" /\ chore'.name = "notes-pr"
        /\ chore'.todo = todo /\ chore'.flagged = todo /\ chore'.action = ""
    BY <1>3, <1>4 DEF BeginNotes, Begin, ChoreRecord, ChoreName, ChoreAction
  <1>6. NotesChoreInv' /\ NotifyInv'
    BY <1>2, <1>4, <1>5 DEF NotesChoreInv, NotesStepOf, NotifyInv
  <1>7. WorkInv'
    BY <1>3, <1>4, <1>5, <1>6 DEF WorkInv
  <1> QED  BY <1>1, <1>7 DEF ChoreInv

(* The other chores begin.                                                 *)
LEMMA ReleaseChoreBegins ==
  ASSUME ChoreInv, NEW name \in ChoreName \ {"notes-pr"},
         NEW action \in ChoreAction \ {"notify"}, NEW todo \in Seq(ReleaseStep),
         Begin(name, action, todo), UNCHANGED <<people, builds, notes>>
  PROVE  ChoreInv'
  <1>1. PeopleInv' /\ CandidatesInv' /\ PullInv'
    BY ChorePartsStay DEF people
  <1>2. todo \in Seq(ChoreStep)
    BY DEF ChoreStep
  <1>3. \A x \in ToSet(todo) : x \in ReleaseStep
    BY DEF ToSet
  <1>4. \A x \in ToSet(todo) : StepFits(x)' /\ x[2] \notin NotesWhat
    BY <1>3 DEF ReleaseStep, StepFits, ChoreProduct, NotesWhat
  <1>5. WorkInv'
    BY <1>2, <1>4, ChoreBegins
  <1> QED  BY <1>1, <1>5 DEF ChoreInv

(* Which are the documentation, the issues, the overview and the details   *)
(* of the candidates.                                                      *)
LEMMA OtherChoresBegin ==
  ASSUME ChoreInv,
         \/ DocPRs \/ IntegOverview \/ RCDetails(TRUE) \/ RCDetails(FALSE)
         \/ \E action \in {"check", "create"} : ReleaseIssues(action)
  PROVE  ChoreInv'
  <1>1. /\ <<"", "numbers">> \in ReleaseStep /\ <<"", "read">> \in ReleaseStep
        /\ <<"", "announce">> \in ReleaseStep
    BY DEF ReleaseStep
  <1>2. <<"opensearch", "build">> \in ReleaseStep /\ <<"opensearch", "dispatch">> \in ReleaseStep
    BY DEF ReleaseStep, ChoreProduct
  <1>3. /\ <<"opensearch-dashboards", "build">> \in ReleaseStep
        /\ <<"opensearch-dashboards", "dispatch">> \in ReleaseStep
    BY DEF ReleaseStep, ChoreProduct
  <1>4. /\ "doc-prs" \in ChoreName /\ "integ-overview" \in ChoreName
        /\ "rc-details" \in ChoreName /\ "release-issues" \in ChoreName
        /\ "check" \in ChoreAction /\ "create" \in ChoreAction /\ "add" \in ChoreAction
    BY DEF ChoreName, ChoreAction
  <1>5. CASE DocPRs
    <2>1. Begin("doc-prs", "check", <<>>) /\ <<>> \in Seq(ReleaseStep)
      BY <1>5 DEF DocPRs
    <2> QED  BY <1>4, <1>5, <2>1, ReleaseChoreBegins DEF DocPRs
  <1>6. CASE IntegOverview
    <2> DEFINE todo == <<<<"", "numbers">>, <<"", "read">>>>
    <2>1. todo \in Seq(ReleaseStep)
      <3>1. \A x, y \in ReleaseStep : <<x, y>> \in Seq(ReleaseStep)
        OBVIOUS
      <3> QED  BY <1>1, <3>1, Zenon
    <2>2. Begin("integ-overview", "check", todo) /\ UNCHANGED <<people, builds, notes>>
      BY <1>6 DEF IntegOverview
    <2> HIDE DEF todo
    <2> QED  BY <1>4, <2>1, <2>2, ReleaseChoreBegins
  <1>7. ASSUME NEW given \in BOOLEAN, RCDetails(given) PROVE ChoreInv'
    <2> DEFINE first == IF given THEN <<>> ELSE <<<<"", "numbers">>>>
               last == <<<<"opensearch", "build">>, <<"opensearch-dashboards", "build">>,
                         <<"", "announce">>>>
               todo == first \o last
    <2>1. first \in Seq(ReleaseStep) /\ last \in Seq(ReleaseStep)
      <3>1. \A x, y, z \in ReleaseStep :
              <<>> \in Seq(ReleaseStep) /\ <<x>> \in Seq(ReleaseStep)
              /\ <<x, y, z>> \in Seq(ReleaseStep)
        OBVIOUS
      <3> QED  BY <1>1, <1>2, <1>3, <3>1, Zenon
    <2>2. Begin("rc-details", "add", todo) /\ UNCHANGED <<people, builds, notes>>
      BY <1>7 DEF RCDetails
    <2> HIDE DEF first, last
    <2>3. todo \in Seq(ReleaseStep)
      BY <2>1
    <2> HIDE DEF todo
    <2> QED  BY <1>4, <2>2, <2>3, ReleaseChoreBegins
  <1>8. ASSUME NEW action \in {"check", "create"}, ReleaseIssues(action) PROVE ChoreInv'
    <2> DEFINE both == <<<<"opensearch", "dispatch">>, <<"opensearch-dashboards", "dispatch">>>>
    <2>1. both \in Seq(ReleaseStep) /\ <<>> \in Seq(ReleaseStep)
      BY <1>2, <1>3
    <2>2. /\ Begin("release-issues", action, both) \/ Begin("release-issues", action, <<>>)
          /\ UNCHANGED <<people, builds, notes>>
      BY <1>8 DEF ReleaseIssues
    <2> HIDE DEF both
    <2> QED  BY <1>4, <1>8, <2>1, <2>2, ReleaseChoreBegins
  <1> QED  BY <1>5, <1>6, <1>7, <1>8

(* The builds of candidates are dispatched with the numbers after the ones *)
(* that were read.                                                         *)
LEMMA CandidatesBegin ==
  ASSUME ChoreInv, NEW action \in ChoreProduct \cup {"both"}, BeginBuildRC(action)
  PROVE  ChoreInv'
  <1>1. PeopleInv' /\ CandidatesInv' /\ PullInv' /\ UNCHANGED builds
    BY ChorePartsStay DEF BeginBuildRC, people
  <1>2. PICK products \in Seq(ChoreProduct) :
          Begin("build-rc", action, [i \in DOMAIN products |->
                                      <<LatestRC(products[i]) + 1, products[i]>>])
    <2>1. <<"opensearch", "opensearch-dashboards">> \in Seq(ChoreProduct)
      BY DEF ChoreProduct
    <2>2. action # "both" => <<action>> \in Seq(ChoreProduct)
      OBVIOUS
    <2> QED  BY <2>1, <2>2 DEF BeginBuildRC
  <1>3. builds \in Seq(Candidate)
    BY DEF ChoreInv, CandidatesInv
  <1>4. PICK todo : todo = [i \in DOMAIN products |-> <<LatestRC(products[i]) + 1, products[i]>>]
    OBVIOUS
  <1>5. DOMAIN products = 1 .. Len(products) /\ Len(products) \in Nat
        /\ \A i \in DOMAIN products : products[i] \in ChoreProduct
    OBVIOUS
  <1>6. ASSUME NEW p \in ChoreProduct, NEW n, n = LatestRC(p)
        PROVE  /\ n \in Nat /\ <<n + 1, p>> \in BuildStep
               /\ n # 0 => n \in Numbers(p, {"SUCCESS"})
    BY <1>3, <1>6, LatestSucceeded DEF BuildStep
  <1>7. \A i \in DOMAIN products :
          \E p \in ChoreProduct, n \in Nat :
            todo[i] = <<n + 1, p>> /\ todo[i] \in BuildStep
            /\ (n # 0 => n \in Numbers(p, {"SUCCESS"}))
    BY <1>4, <1>5, <1>6
  <1>8. todo \in Seq(ChoreStep)
    <2>1. \A i \in 1 .. Len(products) : todo[i] \in ChoreStep
      BY <1>5, <1>7 DEF ChoreStep
    <2>2. todo = [i \in 1 .. Len(products) |-> todo[i]]
      BY <1>4, <1>5
    <2> QED  BY <1>5, <2>1, <2>2
  <1>9. \A x \in ToSet(todo) : \E p \in ChoreProduct, n \in Nat :
          x = <<n + 1, p>> /\ (n # 0 => n \in Numbers(p, {"SUCCESS"}))
    BY <1>4, <1>7 DEF ToSet
  <1>10. \A x \in ToSet(todo) : StepFits(x)
    <2> SUFFICES ASSUME NEW p \in ChoreProduct, NEW n \in Nat,
                        n # 0 => n \in Numbers(p, {"SUCCESS"})
                 PROVE  StepFits(<<n + 1, p>>)
      BY <1>9
    <2>1. p # "assign" /\ n + 1 - 1 = n /\ (n = 0 => n + 1 = 1)
      BY DEF ChoreProduct
    <2> QED  BY <2>1 DEF StepFits
  <1>11. \A x \in ToSet(todo) : x[2] \notin NotesWhat
    BY <1>9 DEF ChoreProduct, NotesWhat
  <1>12. \A x \in ToSet(todo) : StepFits(x)'
    <2>1. (\A c : told[c] \subseteq told'[c])
      BY DEF BeginBuildRC, people
    <2> QED  BY <1>1, <1>10, <2>1, ChorePartsStay, StepsKeepFitting
  <1>13. "build-rc" \in ChoreName /\ action \in ChoreAction /\ action # "notify"
    BY DEF ChoreName, ChoreAction, ChoreProduct
  <1>14. WorkInv'
    BY <1>2, <1>4, <1>8, <1>11, <1>12, <1>13, ChoreBegins
  <1> QED  BY <1>1, <1>14 DEF ChoreInv

(* The world around the chores.                                            *)
LEMMA ChoreWorldKept ==
  ASSUME ChoreInv, ChoreWorld
  PROVE  ChoreInv'
  <1>1. ASSUME NEW c \in ChoreComponent, IndexOwners(c) PROVE ChoreInv'
    <2>1. PeopleInv' /\ CandidatesInv' /\ PullInv'
      BY <1>1, ChorePartsStay DEF IndexOwners
    <2>2. WorkInv'
      BY <1>1 DEF IndexOwners, notes, ChoreInv, WorkInv, StepFits, Numbers, NotifyInv,
                  NotesChoreInv, NotesStepOf, Arrived
    <2> QED  BY <2>1, <2>2 DEF ChoreInv
  <1>2. ASSUME NEW c \in Noted, GenerateNotes(c) PROVE ChoreInv'
    <2>1. PeopleInv' /\ CandidatesInv'
      BY <1>2, ChorePartsStay DEF GenerateNotes, people
    <2>2. PullInv'
      BY <1>2 DEF GenerateNotes, ChoreInv, PullInv
    <2>3. chore' = Idle /\ ToSet(<<>>) = {}
      BY <1>2 DEF GenerateNotes, ToSet
    <2>4. Idle \in ChoreRecord
      BY DEF Idle, ChoreRecord, ChoreName, ChoreAction
    <2>5. WorkInv'
      BY <2>3, <2>4 DEF WorkInv, Idle, NotifyInv, NotesChoreInv
    <2> QED  BY <2>1, <2>2, <2>5 DEF ChoreInv
  <1>3. ASSUME NEW c \in Noted, MergePR(c) PROVE ChoreInv'
    <2>1. PeopleInv' /\ CandidatesInv' /\ PullInv
      BY <1>3, ChorePartsStay DEF MergePR, people, ChoreInv
    <2>2. PullInv'
      BY <1>3, <2>1 DEF MergePR, PullInv
    <2>3. ASSUME NEW d \in Noted, Arrived(d) PROVE Arrived(d)'
      <3>1. /\ openPR[c] /\ UNCHANGED <<generated, pushed, declined>>
            /\ committed' = [committed EXCEPT ![c] = pushed[c]]
            /\ openPR' = [openPR EXCEPT ![c] = FALSE]
        BY <1>3 DEF MergePR
      <3>2. /\ d # c => committed'[d] = committed[d] /\ openPR'[d] = openPR[d]
            /\ d = c => committed'[d] = pushed[d]
        BY <2>1, <3>1 DEF PullInv
      <3>3. CASE d = c
        <4>1. pushed[c] = generated[c]
          BY <2>1, <2>3, <3>3 DEF Arrived, PullInv
        <4> QED  BY <3>1, <3>2, <3>3, <4>1 DEF Arrived
      <3>4. CASE d # c
        BY <2>3, <3>1, <3>2, <3>4 DEF Arrived
      <3> QED  BY <3>3, <3>4
    <2>4. \A d \in Noted : NotesStepOf(d) => NotesStepOf(d)'
      BY <1>3, <2>3 DEF MergePR, NotesStepOf
    <2>5. NotesChoreInv'
      BY <1>3, <2>4 DEF MergePR, ChoreInv, WorkInv, NotesChoreInv
    <2>6. WorkInv'
      BY <1>3, <2>5 DEF MergePR, people, ChoreInv, WorkInv, StepFits, Numbers, NotifyInv
    <2> QED  BY <2>1, <2>2, <2>6 DEF ChoreInv
  <1>4. ASSUME NEW c \in Noted, ClosePR(c) PROVE ChoreInv'
    <2>1. PeopleInv' /\ CandidatesInv' /\ PullInv
      BY <1>4, ChorePartsStay DEF ClosePR, people, ChoreInv
    <2>2. PullInv'
      BY <1>4, <2>1 DEF ClosePR, PullInv
    <2>3. ASSUME NEW d \in Noted, Arrived(d) PROVE Arrived(d)'
      <3>1. /\ openPR[c] /\ UNCHANGED <<generated, committed, pushed>>
            /\ declined' = [declined EXCEPT ![c] = pushed[c]]
            /\ openPR' = [openPR EXCEPT ![c] = FALSE]
        BY <1>4 DEF ClosePR
      <3>2. /\ d # c => declined'[d] = declined[d] /\ openPR'[d] = openPR[d]
            /\ d = c => declined'[d] = pushed[d]
        BY <2>1, <3>1 DEF PullInv
      <3>3. declined[d] = generated[d] => pushed[d] = generated[d]
        BY <2>1 DEF PullInv
      <3> QED  BY <2>3, <3>1, <3>2, <3>3 DEF Arrived
    <2>4. \A d \in Noted : NotesStepOf(d) => NotesStepOf(d)'
      BY <1>4, <2>3 DEF ClosePR, NotesStepOf
    <2>5. NotesChoreInv'
      BY <1>4, <2>4 DEF ClosePR, ChoreInv, WorkInv, NotesChoreInv
    <2>6. WorkInv'
      BY <1>4, <2>5 DEF ClosePR, people, ChoreInv, WorkInv, StepFits, Numbers, NotifyInv
    <2> QED  BY <2>1, <2>2, <2>6 DEF ChoreInv
  <1> QED  BY <1>1, <1>2, <1>3, <1>4, CandidateEnds DEF ChoreWorld

(* A chore stops, done or not.                                             *)
LEMMA ChoreStops ==
  ASSUME ChoreInv, ChoreFails \/ ChoreEnds
  PROVE  ChoreInv'
  <1>1. PeopleInv' /\ CandidatesInv' /\ PullInv'
    BY ChorePartsStay DEF ChoreFails, ChoreEnds, people
  <1>2. /\ chore \in ChoreRecord /\ chore.state = "running"
        /\ UNCHANGED <<told, builds, commented, generated, committed, pushed, openPR, declined>>
    BY DEF ChoreInv, WorkInv, ChoreFails, ChoreEnds, people, notes
  <1>3. PICK s \in {"failure", "success"} :
          chore' = [chore EXCEPT !.state = s] /\ (s = "success" => chore.todo = <<>>)
    BY DEF ChoreFails, ChoreEnds, Fails
  <1>4. /\ chore' \in ChoreRecord /\ chore'.todo = chore.todo /\ chore'.name = chore.name
        /\ chore'.action = chore.action /\ chore'.flagged = chore.flagged
        /\ chore'.state = s
    BY <1>2, <1>3 DEF ChoreRecord
  <1>5. \A x \in ToSet(chore'.todo) : StepFits(x)'
    BY <1>2, <1>4 DEF ChoreInv, WorkInv, StepFits, Numbers
  <1>6. NotifyInv'
    BY <1>2, <1>4 DEF ChoreInv, WorkInv, NotifyInv
  <1>7. NotesChoreInv'
    BY <1>2, <1>4 DEF ChoreInv, WorkInv, NotesChoreInv, NotesStepOf, Arrived
  <1>8. WorkInv'
    BY <1>3, <1>4, <1>5, <1>6, <1>7 DEF WorkInv
  <1> QED  BY <1>1, <1>8 DEF ChoreInv

(* What the chores can be asked to do.                                     *)
LEMMA ActionsKnown ==
  /\ ActionsOf("release-owners") = {"check", "request", "assign"}
  /\ ActionsOf("doc-issues") = {"check", "notify"}
  /\ ActionsOf("code-coverage") = {"check", "notify"}
  /\ ActionsOf("release-notes") = {"check", "notify"}
  /\ ActionsOf("release-issues") = {"check", "create"}
  /\ ActionsOf("build-rc") = ChoreProduct \cup {"both"}
  BY DEF ActionsOf

(* Every step of the chores and of the world keeps the invariant.          *)
LEMMA ChoreStepKept ==
  ASSUME ChoreInv, [ChoreNext]_choreVars
  PROVE  ChoreInv'
  <1>1. CASE ChoreWorld
    BY <1>1, ChoreWorldKept
  <1>2. ASSUME NEW action \in ActionsOf("release-owners"), BeginOwners(action)
        PROVE  ChoreInv'
    BY <1>2, ActionsKnown, OwnersBegin
  <1>3. ASSUME NEW action \in ActionsOf("doc-issues"), NEW S, DocIssues(action, S)
        PROVE  ChoreInv'
    BY <1>3, ActionsKnown, NotifyBegins DEF DocIssues
  <1>4. ASSUME NEW action \in ActionsOf("code-coverage"), CodeCoverage(action)
        PROVE  ChoreInv'
    <2>1. PICK S : BeginNotify("code-coverage", action, S)
      BY <1>4 DEF CodeCoverage
    <2> QED  BY <1>4, <2>1, ActionsKnown, NotifyBegins
  <1>5. ASSUME NEW action \in ActionsOf("release-notes"), CheckNotes(action)
        PROVE  ChoreInv'
    <2>1. PICK S : BeginNotify("release-notes", action, S)
      BY <1>5 DEF CheckNotes
    <2> QED  BY <1>5, <2>1, ActionsKnown, NotifyBegins
  <1>6. ASSUME NEW action \in ActionsOf("release-issues"), ReleaseIssues(action)
        PROVE  ChoreInv'
    BY <1>6, ActionsKnown, OtherChoresBegin
  <1>7. ASSUME NEW action \in ActionsOf("build-rc"), BeginBuildRC(action)
        PROVE  ChoreInv'
    BY <1>7, ActionsKnown, CandidatesBegin
  <1>8. CASE DocPRs \/ IntegOverview \/ RCDetails(TRUE) \/ RCDetails(FALSE)
    BY <1>8, OtherChoresBegin
  <1>9. ASSUME NEW c \in NotesMatrix, BeginNotes(c) PROVE ChoreInv'
    BY <1>9, NotesChoreBegins DEF Noted
  <1>10. CASE BeginCompiled
    BY <1>10, NotesChoreBegins DEF BeginCompiled, Noted
  <1>11. CASE ReadOwner \/ TellOwner \/ AssignOwner \/ Notify \/ TriggerBuild
    BY <1>11, OwnersRead, OwnerTold, OwnerAssigned, ComponentTold, CandidateTriggered
  <1>12. CASE ReadNumbers \/ ReadBuild \/ ReadResults \/ Announce
    BY <1>12, ChoreReads
  <1>13. CASE PushNotes \/ LookUpPR \/ EditPR \/ CreatePR
    BY <1>13, NotesArePushed, NotesAreLookedUp, NotesArePublished
  <1>14. CASE ChoreFails \/ ChoreEnds
    BY <1>14, ChoreStops
  <1>15. CASE UNCHANGED choreVars
    BY <1>15 DEF choreVars, people, notes, ChoreInv, WorkInv, StepFits, NotifyInv,
                 NotesChoreInv, NotesStepOf, Arrived, PeopleInv, CandidatesInv,
                 CandidatesFollowSuccess, Numbers, PullInv
  <1> QED
    BY <1>1, <1>2, <1>3, <1>4, <1>5, <1>6, <1>7, <1>8, <1>9, <1>10, <1>11, <1>12, <1>13,
       <1>14, <1>15 DEF ChoreNext

(* The work of a chore fits what has been announced, has succeeded and has *)
(* been pushed (release_chores.py).                                        *)
THEOREM ChoresConsistent == ChoreSpec => []ChoreInv
  <1>1. ASSUME ChoreInit PROVE ChoreInv
    <2>1. ToSet(<<>>) = {}
      BY DEF ToSet
    <2>2. Idle \in ChoreRecord /\ Idle.todo = <<>>
      BY DEF Idle, ChoreRecord, ChoreName, ChoreAction
    <2>3. WorkInv
      BY <1>1, <2>1, <2>2 DEF ChoreInit, WorkInv, Idle, NotifyInv, NotesChoreInv
    <2>4. PeopleInv
      BY <1>1 DEF ChoreInit, PeopleInv
    <2>5. CandidatesInv
      BY <1>1 DEF ChoreInit, CandidatesInv, CandidatesFollowSuccess
    <2>6. PullInv
      BY <1>1 DEF ChoreInit, PullInv
    <2> QED  BY <2>3, <2>4, <2>5, <2>6 DEF ChoreInv
  <1>2. ChoreInv /\ [ChoreNext]_choreVars => ChoreInv'
    BY ChoreStepKept
  <1> QED  BY <1>1, <1>2, PTL DEF ChoreSpec

(* EveryoneIsTold: a notify chore that reports success has commented for   *)
(* every component of its report, and no owner is assigned who was not     *)
(* named on the issue before.                                              *)
THEOREM EveryoneInTheReportIsTold == ChoreSpec => []EveryoneIsTold
  <1>1. ASSUME ChoreInv PROVE EveryoneIsTold
    <2>1. \A c \in ChoreComponent : assignees[c] \subseteq told[c]
      BY <1>1 DEF ChoreInv, PeopleInv
    <2>2. ASSUME chore.action = "notify", chore.state = "success", NEW i \in DOMAIN chore.flagged
          PROVE  chore.flagged[i][1] \in commented
      <3>1. chore.todo = <<>> /\ NotifyInv
        BY <1>1, <2>2 DEF ChoreInv, WorkInv
      <3>2. \A x : x \notin ToSet(chore.todo)
        BY <3>1 DEF ToSet
      <3>3. chore.flagged[i] \in ToSet(chore.flagged)
        BY <2>2 DEF ToSet
      <3> QED  BY <2>2, <3>1, <3>2, <3>3 DEF NotifyInv
    <2> QED  BY <2>1, <2>2 DEF EveryoneIsTold
  <1> QED  BY <1>1, ChoresConsistent, PTL

(* CandidatesFollowSuccess: the numbers of the release candidates have no  *)
(* gap, whatever still ran or had failed when the number was read.         *)
THEOREM NumbersHaveNoGap == ChoreSpec => []CandidatesFollowSuccess
  <1>1. ChoreInv => CandidatesFollowSuccess
    BY DEF ChoreInv, CandidatesInv
  <1> QED  BY <1>1, ChoresConsistent, PTL

(* NotesArrive: a notes chore that succeeds leaves the notes on the branch *)
(* or in an open pull request, unless somebody closed the one they were in.*)
THEOREM NotesReachTheBranch == ChoreSpec => []NotesArrive
  <1>1. ASSUME ChoreInv PROVE NotesArrive
    <2> SUFFICES ASSUME chore.name = "notes-pr", chore.state = "success", chore.flagged # <<>>
                 PROVE  Arrived(chore.flagged[1][1])
      BY DEF NotesArrive, Arrived
    <2>1. chore.todo = <<>>
      BY <1>1 DEF ChoreInv, WorkInv
    <2>2. PICK c \in Noted : chore.flagged = <<<<c, "push">>, <<c, "pr">>>> /\ NotesStepOf(c)
      BY <1>1 DEF ChoreInv, WorkInv, NotesChoreInv
    <2>3. Arrived(c) /\ chore.flagged[1][1] = c
      BY <2>1, <2>2 DEF NotesStepOf
    <2> QED  BY <2>3
  <1> QED  BY <1>1, ChoresConsistent, PTL

-----------------------------------------------------------------------------
(* ManifestUpdates.                                                        *)

AllFamilies == ToSet(Families)
Entry == [family : AllFamilies, version : Nat]
Versions(c, f) == DOMAIN c.current[f]
VersionsOf(c, f) == Versions(c, f) \cup c.legacy[f]

(* What is true of every content of main, and of what is derived from one: *)
(* only manifests are scheduled, each once, and none is also retired.      *)
SoundContent(c) ==
  /\ c = Content([f \in AllFamilies |-> c.current[f]], [f \in AllFamilies |-> c.legacy[f]],
                 c.cron, c.snapshots, c.increments)
  /\ \A f \in AllFamilies : VersionsOf(c, f) \subseteq Nat /\ Versions(c, f) \cap c.legacy[f] = {}
  /\ c.cron \in Seq(Entry) /\ c.snapshots \in Seq(Nat) /\ c.increments \in Seq(Nat)
  /\ IsInjective(c.cron) /\ IsInjective(c.snapshots) /\ IsInjective(c.increments)
  /\ \A e \in ToSet(c.cron) : e.version \in VersionsOf(c, e.family)
  /\ ToSet(c.snapshots) \subseteq VersionsOf(c, "opensearch")

(* An update only adds: versions with their entries, in front of the old   *)
(* ones or after them.                                                     *)
EndsWith(s, t) ==
  /\ Len(t) <= Len(s)
  /\ \A i \in 1 .. Len(t) : s[Len(s) - Len(t) + i] = t[i]
BeginsWith(s, t) == Len(t) <= Len(s) /\ \A i \in 1 .. Len(t) : s[i] = t[i]
New(new, base, f) == Versions(new, f) \ Versions(base, f)
Updated(new, base) ==
  /\ \A f \in AllFamilies : Versions(base, f) \subseteq Versions(new, f)
                        /\ new.legacy[f] = base.legacy[f]
  /\ EndsWith(new.cron, base.cron) /\ EndsWith(new.snapshots, base.snapshots)
  /\ BeginsWith(new.increments, base.increments)
  /\ \A f \in AllFamilies : \A v \in New(new, base, f) :
       CronEntry(f, v) \in ToSet(new.cron) /\ Minor(v) \in ToSet(new.increments)
  /\ New(new, base, "opensearch") \subseteq ToSet(new.snapshots)
  /\ \A e \in ToSet(new.cron) : e \in ToSet(base.cron) \/ e.version \in New(new, base, e.family)
  /\ ToSet(new.snapshots) \subseteq ToSet(base.snapshots) \cup New(new, base, "opensearch")

(* Since a commit of main, what was retired had been named in it, and the  *)
(* minor versions that are gone were taken out.                            *)
Since(base, c, gone) ==
  /\ \A f \in AllFamilies : c.legacy[f] \subseteq VersionsOf(base, f)
  /\ ToSet(base.increments) \subseteq ToSet(c.increments) \cup gone.increments

(* What main names is scheduled, or people decided otherwise.              *)
Scheduled(c, gone) ==
  /\ gone = [cron |-> gone.cron, snapshots |-> gone.snapshots, increments |-> gone.increments]
  /\ gone.cron \subseteq Entry
  /\ \A e \in gone.cron : e.version \in VersionsOf(c, e.family)
  /\ gone.snapshots \subseteq VersionsOf(c, "opensearch")
  /\ \A f \in AllFamilies : \A v \in VersionsOf(c, f) :
       CronEntry(f, v) \in ToSet(c.cron) <=> CronEntry(f, v) \notin gone.cron
  /\ \A v \in VersionsOf(c, "opensearch") : v \in ToSet(c.snapshots) <=> v \notin gone.snapshots
  /\ \A f \in AllFamilies : \A v \in Versions(c, f) :
       Minor(v) \in ToSet(c.increments) \cup gone.increments

UpdateInv ==
  /\ SoundContent(basis) /\ SoundContent(checkout) /\ Updated(checkout, basis)
  /\ family \in 0 .. Len(Families) /\ scanned \in BOOLEAN
  /\ ~scanned => DOMAIN pending = {}
  /\ family = 0 => ~scanned
  /\ family > 0 => Since(basis, trunk, dropped)
  /\ family > 0 => DOMAIN pending \subseteq Nat \ Known(Family)
ProposalInv ==
  proposal # <<>> =>
    LET p == proposal[1] IN
    /\ proposal = <<p>>
    /\ SoundContent(p.base) /\ SoundContent(p.content) /\ Updated(p.content, p.base)
    /\ Since(p.base, trunk, dropped)
ManifestInv ==
  /\ heads \in [AllFamilies -> [ToSet(Branches) -> Nat]]
  /\ SoundContent(trunk) /\ Scheduled(trunk, dropped) /\ UpdateInv /\ ProposalInv

(* No two places are the same k-th.                                        *)
LEMMA RanksDiffer ==
  ASSUME NEW n \in Nat, NEW P \in SUBSET (1 .. n)
  PROVE  \A i, j \in P : Cardinality({m \in P : m <= i}) = Cardinality({m \in P : m <= j})
                           => i = j
  <1> DEFINE Upto(i) == {m \in P : m <= i}
  <1>1. ASSUME NEW i \in P, NEW j \in P, i < j PROVE Cardinality(Upto(i)) # Cardinality(Upto(j))
    <2>1. \A m \in P : m \in Nat
      OBVIOUS
    <2>0. \A m \in P : m <= i => m <= j
      BY <1>1, <2>1
    <2>2. Upto(i) \in SUBSET Upto(j) /\ Upto(j) \in SUBSET P
      BY <2>0
    <2>3. j \in Upto(j) /\ j \notin Upto(i)
      BY <1>1, <2>1
    <2>4. IsFiniteSet(P)
      BY PlacesInOrder
    <2> HIDE DEF Upto
    <2>5. IsFiniteSet(Upto(j))
      BY <2>2, <2>4, FS_Subset
    <2>6. Cardinality(Upto(j)) = Cardinality(Upto(i)) => Upto(j) = Upto(i)
      BY <2>2, <2>5, FS_Subset
    <2> QED  BY <2>3, <2>6
  <1>2. \A i, j \in P : i < j \/ j < i \/ i = j
    OBVIOUS
  <1> QED  BY <1>1, <1>2

(* And each is one of them.                                                *)
LEMMA RanksInRange ==
  ASSUME NEW n \in Nat, NEW P \in SUBSET (1 .. n), NEW i \in P
  PROVE  Cardinality({m \in P : m <= i}) \in 1 .. Cardinality(P)
  <1> DEFINE U == {m \in P : m <= i}
  <1>1. U \in SUBSET P /\ i \in U
    OBVIOUS
  <1>2. IsFiniteSet(P) /\ Cardinality(P) \in Nat
    BY PlacesInOrder
  <1> HIDE DEF U
  <1>3. IsFiniteSet(U) /\ Cardinality(U) \in Nat /\ Cardinality(U) <= Cardinality(P)
    BY <1>1, <1>2, FS_Subset, FS_CardinalityType
  <1>4. Cardinality(U) # 0
    BY <1>1, <1>3, FS_EmptySet
  <1>5. Cardinality(U) \in 1 .. Cardinality(P)
    BY <1>2, <1>3, <1>4
  <1> QED  BY <1>5 DEF U

(* The entries that are kept are those of the set, none of them twice.     *)
LEMMA KeptEntries ==
  ASSUME NEW S, NEW s \in Seq(S), NEW K
  PROVE  /\ Kept(s, K) \in Seq(S) /\ ToSet(Kept(s, K)) = ToSet(s) \cap K
         /\ IsInjective(s) => IsInjective(Kept(s, K))
  <1> DEFINE places == {i \in DOMAIN s : s[i] \in K}
             Rank(i) == Cardinality({j \in places : j <= i})
             n == Cardinality(places)
             Place(k) == CHOOSE i \in places : Rank(i) = k
             t == Kept(s, K)
  <1>1. t = [k \in 1 .. n |-> s[Place(k)]]
    BY DEF Kept
  <1>2. DOMAIN s = 1 .. Len(s) /\ Len(s) \in Nat /\ \A i \in DOMAIN s : s[i] \in S
    OBVIOUS
  <1>3. places \in SUBSET (1 .. Len(s)) /\ \A i \in places : i \in DOMAIN s /\ s[i] \in K
    BY <1>2
  <1>4. \A i \in DOMAIN s : s[i] \in K => i \in places
    OBVIOUS
  <1> HIDE DEF places, t
  <1>5. n \in Nat /\ \A k \in 1 .. n : \E i \in places : Rank(i) = k
    BY <1>2, <1>3, PlacesInOrder
  <1>6. \A i, j \in places : Rank(i) = Rank(j) => i = j
    BY <1>2, <1>3, RanksDiffer
  <1>7. \A i \in places : Rank(i) \in 1 .. n
    BY <1>2, <1>3, RanksInRange
  <1> HIDE DEF Rank, n
  <1>8. \A k \in 1 .. n : Place(k) \in places /\ Rank(Place(k)) = k
    BY <1>5
  <1>9. \A i \in places : Place(Rank(i)) = i
    BY <1>6, <1>7, <1>8
  <1> HIDE DEF Place
  <1>10. /\ DOMAIN t = 1 .. n /\ \A k \in 1 .. n : t[k] = s[Place(k)] /\ t[k] \in S /\ t[k] \in K
    BY <1>1, <1>2, <1>3, <1>8
  <1>11. t \in Seq(S)
    BY <1>1, <1>5, <1>10
  <1>12. ToSet(t) = ToSet(s) \cap K
    <2>1. \A k \in 1 .. n : t[k] \in ToSet(s) \cap K
      BY <1>3, <1>8, <1>10 DEF ToSet
    <2>2. ASSUME NEW i \in DOMAIN s, s[i] \in K PROVE s[i] \in ToSet(t)
      <3>1. i \in places
        BY <1>4, <2>2
      <3>2. Rank(i) \in 1 .. n /\ t[Rank(i)] = s[i]
        BY <1>7, <1>9, <1>10, <3>1
      <3> QED  BY <1>10, <3>2 DEF ToSet
    <2> QED  BY <1>10, <2>1, <2>2 DEF ToSet
  <1>13. ASSUME IsInjective(s) PROVE IsInjective(t)
    <2> SUFFICES ASSUME NEW k \in 1 .. n, NEW l \in 1 .. n, t[k] = t[l] PROVE k = l
      BY <1>10 DEF IsInjective
    <2>1. Place(k) = Place(l)
      BY <1>3, <1>8, <1>10, <1>13 DEF IsInjective
    <2> QED  BY <1>8, <2>1
  <1> QED  BY <1>11, <1>12, <1>13 DEF t

(* Taking one entry out takes out just that.                               *)
LEMMA OneTakenOut ==
  ASSUME NEW S, NEW s \in Seq(S), NEW x, IsInjective(s)
  PROVE  /\ Without(s, x) \in Seq(S) /\ IsInjective(Without(s, x))
         /\ ToSet(Without(s, x)) = ToSet(s) \ {x}
  <1> DEFINE K == ToSet(s) \ {x}
  <1>1. Without(s, x) = Kept(s, K)
    BY DEF Without
  <1> HIDE DEF K
  <1>2. /\ Kept(s, K) \in Seq(S) /\ ToSet(Kept(s, K)) = ToSet(s) \cap K
        /\ IsInjective(Kept(s, K))
    BY KeptEntries
  <1> QED  BY <1>1, <1>2 DEF K

(* One entry more in front, or at the end.                                 *)
LEMMA EntryAdded ==
  ASSUME NEW S, NEW s \in Seq(S), NEW x \in S
  PROVE  /\ <<x>> \o s \in Seq(S) /\ ToSet(<<x>> \o s) = {x} \cup ToSet(s)
         /\ IsInjective(s) /\ x \notin ToSet(s) => IsInjective(<<x>> \o s)
         /\ Append(s, x) \in Seq(S) /\ ToSet(Append(s, x)) = {x} \cup ToSet(s)
         /\ IsInjective(s) /\ x \notin ToSet(s) => IsInjective(Append(s, x))
         /\ \A t \in Seq(S) : EndsWith(s, t) => EndsWith(<<x>> \o s, t)
         /\ \A t \in Seq(S) : BeginsWith(s, t) => BeginsWith(Append(s, x), t)
  <1> DEFINE n == Len(s)
             a == <<x>> \o s
             b == Append(s, x)
  <1>1. <<x>> \in Seq(S) /\ Len(<<x>>) = 1 /\ <<x>>[1] = x
    OBVIOUS
  <1>2. n \in Nat /\ DOMAIN s = 1 .. n
    OBVIOUS
  <1>3. /\ a \in Seq(S) /\ Len(a) = 1 + n
        /\ \A i \in 1 .. 1 + n : a[i] = IF i <= 1 THEN <<x>>[i] ELSE s[i - 1]
    BY <1>1, <1>2, ConcatProperties
  <1>4. /\ b \in Seq(S) /\ Len(b) = n + 1 /\ DOMAIN b = 1 .. n + 1 /\ b[n + 1] = x
        /\ \A i \in 1 .. n : b[i] = s[i]
    BY <1>2, AppendProperties
  <1>5. DOMAIN a = 1 .. n + 1
    BY <1>2, <1>3
  <1> HIDE DEF a, b, n
  <1>6. a[1] = x /\ \A i \in 1 .. n : a[i + 1] = s[i]
    BY <1>1, <1>2, <1>3
  <1>7. \A i \in 1 .. n + 1 : i = 1 \/ \E j \in 1 .. n : i = j + 1
    BY <1>2
  <1>8. ToSet(a) = {x} \cup ToSet(s)
    <2>1. 1 \in 1 .. n + 1 /\ \A i \in 1 .. n : i + 1 \in 1 .. n + 1
      BY <1>2
    <2>2. \A i \in 1 .. n + 1 : a[i] = x \/ \E j \in 1 .. n : a[i] = s[j]
      BY <1>6, <1>7
    <2>3. ToSet(a) \subseteq {x} \cup ToSet(s)
      BY <1>2, <1>5, <2>2 DEF ToSet
    <2>4. x \in ToSet(a)
      BY <1>5, <1>6, <2>1 DEF ToSet
    <2>5. \A i \in 1 .. n : s[i] \in ToSet(a)
      BY <1>5, <1>6, <2>1 DEF ToSet
    <2>6. ToSet(s) \subseteq ToSet(a)
      BY <1>2, <2>5 DEF ToSet
    <2> QED  BY <2>3, <2>4, <2>6
  <1>9. ToSet(b) = {x} \cup ToSet(s)
    <2>1. n + 1 \in 1 .. n + 1 /\ \A i \in 1 .. n + 1 : i = n + 1 \/ i \in 1 .. n
      BY <1>2
    <2>2. \A i \in 1 .. n : i \in 1 .. n + 1
      BY <1>2
    <2> QED  BY <1>2, <1>4, <2>1, <2>2 DEF ToSet
  <1>10. ASSUME IsInjective(s), x \notin ToSet(s) PROVE IsInjective(a) /\ IsInjective(b)
    <2>1. \A i \in 1 .. n : s[i] # x
      BY <1>2, <1>10 DEF ToSet
    <2>2. \A i, j \in 1 .. n : s[i] = s[j] => i = j
      BY <1>2, <1>10 DEF IsInjective
    <2>3. ASSUME NEW i \in 1 .. n + 1, NEW j \in 1 .. n + 1, a[i] = a[j] PROVE i = j
      BY <1>6, <1>7, <2>1, <2>2, <2>3
    <2>4. ASSUME NEW i \in 1 .. n + 1, NEW j \in 1 .. n + 1, b[i] = b[j] PROVE i = j
      <3>1. (i = n + 1 \/ i \in 1 .. n) /\ (j = n + 1 \/ j \in 1 .. n)
        BY <1>2
      <3> QED  BY <1>4, <2>1, <2>2, <2>4, <3>1
    <2> QED  BY <1>4, <1>5, <2>3, <2>4 DEF IsInjective
  <1>11. ASSUME NEW t \in Seq(S), EndsWith(s, t) PROVE EndsWith(a, t)
    <2>1. Len(t) \in Nat /\ Len(t) <= n
      BY <1>11 DEF EndsWith, n
    <2>2. ASSUME NEW i \in 1 .. Len(t) PROVE a[Len(a) - Len(t) + i] = t[i]
      <3>1. n - Len(t) + i \in 1 .. n /\ Len(a) - Len(t) + i = (n - Len(t) + i) + 1
        BY <1>2, <1>3, <2>1
      <3>2. s[n - Len(t) + i] = t[i]
        BY <1>11 DEF EndsWith, n
      <3>3. a[(n - Len(t) + i) + 1] = s[n - Len(t) + i]
        BY <1>6, <3>1
      <3> QED  BY <3>1, <3>2, <3>3
    <2>3. Len(t) <= Len(a)
      BY <1>2, <1>3, <2>1
    <2> QED  BY <2>2, <2>3 DEF EndsWith
  <1>12. ASSUME NEW t \in Seq(S), BeginsWith(s, t) PROVE BeginsWith(b, t)
    <2>1. Len(t) \in Nat /\ Len(t) <= n /\ \A i \in 1 .. Len(t) : s[i] = t[i]
      BY <1>12 DEF BeginsWith, n
    <2>2. Len(t) <= Len(b) /\ \A i \in 1 .. Len(t) : i \in 1 .. n
      BY <1>2, <1>4, <2>1
    <2> QED  BY <1>4, <2>1, <2>2 DEF BeginsWith
  <1> QED  BY <1>3, <1>4, <1>8, <1>9, <1>10, <1>11, <1>12 DEF a, b

(* What was added in front of a list, or after it, is what the list has    *)
(* not.                                                                    *)
LEMMA AddedInFront ==
  ASSUME NEW S, NEW s \in Seq(S), NEW t \in Seq(S), EndsWith(s, t), IsInjective(s)
  PROVE  /\ Added(s, t) \in Seq(S) /\ IsInjective(Added(s, t))
         /\ ToSet(Added(s, t)) = ToSet(s) \ ToSet(t)
  <1> DEFINE k == Len(s) - Len(t)
             a == Added(s, t)
  <1>1. /\ Len(s) \in Nat /\ Len(t) \in Nat /\ k \in Nat /\ k <= Len(s)
        /\ DOMAIN s = 1 .. Len(s) /\ DOMAIN t = 1 .. Len(t)
    BY DEF EndsWith
  <1>2. a \in Seq(S) /\ Len(a) = k /\ \A i \in 1 .. k : a[i] = s[i]
    <2>1. a = SubSeq(s, 1, k)
      BY DEF Added
    <2>2. \A i \in 1 .. k : s[i] \in S
      BY <1>1
    <2> HIDE DEF k, a
    <2> QED  BY <1>1, <2>1, <2>2, SubSeqProperties
  <1>3. DOMAIN a = 1 .. k
    BY <1>2
  <1>4. \A j \in 1 .. Len(t) : k + j \in 1 .. Len(s) /\ s[k + j] = t[j]
    BY <1>1 DEF EndsWith
  <1>5. \A i \in 1 .. Len(s) : i \in 1 .. k \/ \E j \in 1 .. Len(t) : i = k + j
    <2> SUFFICES ASSUME NEW i \in 1 .. Len(s), i \notin 1 .. k
                 PROVE  i - k \in 1 .. Len(t) /\ i = k + (i - k)
      OBVIOUS
    <2> QED  BY <1>1
  <1>6. \A i \in 1 .. k : i \in 1 .. Len(s) /\ \A j \in 1 .. Len(t) : i # k + j
    BY <1>1
  <1>7. \A i, j \in 1 .. Len(s) : s[i] = s[j] => i = j
    BY <1>1 DEF IsInjective
  <1> HIDE DEF k, a
  <1>8. IsInjective(a)
    BY <1>2, <1>3, <1>6, <1>7 DEF IsInjective
  <1>9. \A i \in 1 .. k : a[i] \in ToSet(s) /\ a[i] \notin ToSet(t)
    <2>1. \A i \in 1 .. k, j \in 1 .. Len(t) : s[i] # t[j]
      BY <1>4, <1>6, <1>7
    <2> QED  BY <1>1, <1>2, <1>6, <2>1 DEF ToSet
  <1>10. ASSUME NEW x \in ToSet(s), x \notin ToSet(t) PROVE x \in ToSet(a)
    <2>1. PICK i \in 1 .. Len(s) : x = s[i]
      BY <1>1 DEF ToSet
    <2>2. i \in 1 .. k
      BY <1>1, <1>4, <1>5, <1>10, <2>1 DEF ToSet
    <2> QED  BY <1>2, <1>3, <2>1, <2>2 DEF ToSet
  <1>11. ToSet(a) = ToSet(s) \ ToSet(t)
    <2>1. \A x \in ToSet(a) : \E i \in 1 .. k : x = a[i]
      BY <1>3 DEF ToSet
    <2> QED  BY <1>9, <1>10, <2>1
  <1> QED  BY <1>2, <1>8, <1>11 DEF a

LEMMA AddedAfter ==
  ASSUME NEW S, NEW s \in Seq(S), NEW t \in Seq(S), BeginsWith(s, t), IsInjective(s)
  PROVE  /\ Appended(s, t) \in Seq(S) /\ IsInjective(Appended(s, t))
         /\ ToSet(Appended(s, t)) = ToSet(s) \ ToSet(t)
  <1> DEFINE m == Len(t)
             k == Len(s) - m
             a == Appended(s, t)
  <1>1. /\ Len(s) \in Nat /\ m \in Nat /\ k \in Nat /\ Len(s) = m + k
        /\ DOMAIN s = 1 .. Len(s) /\ DOMAIN t = 1 .. m
    BY DEF BeginsWith
  <1>2. a \in Seq(S) /\ Len(a) = k /\ \A i \in 1 .. k : a[i] = s[m + i]
    <2>1. a = SubSeq(s, m + 1, Len(s))
      BY DEF Appended
    <2>2. \A i \in m + 1 .. Len(s) : s[i] \in S
      BY <1>1
    <2>3. /\ m + 1 \in Int /\ Len(s) \in Int
          /\ m + 1 <= Len(s) + 1 /\ Len(s) - (m + 1) + 1 = k
          /\ \A i \in 1 .. k : m + 1 + i - 1 = m + i
      BY <1>1
    <2> HIDE DEF k, a, m
    <2>4. /\ a \in Seq(S)
          /\ Len(a) = IF m + 1 <= Len(s) THEN Len(s) - (m + 1) + 1 ELSE 0
          /\ \A i \in 1 .. Len(s) - (m + 1) + 1 : a[i] = s[m + 1 + i - 1]
      BY <2>1, <2>2, <2>3, SubSeqProperties
    <2>5. Len(a) = k
      BY <1>1, <2>3, <2>4
    <2> QED  BY <2>3, <2>4, <2>5
  <1>3. DOMAIN a = 1 .. k
    BY <1>2
  <1>4. \A j \in 1 .. m : j \in 1 .. Len(s) /\ s[j] = t[j]
    BY <1>1 DEF BeginsWith
  <1>5. \A i \in 1 .. Len(s) : i \in 1 .. m \/ \E j \in 1 .. k : i = m + j
    <2> SUFFICES ASSUME NEW i \in 1 .. Len(s), i \notin 1 .. m
                 PROVE  i - m \in 1 .. k /\ i = m + (i - m)
      OBVIOUS
    <2> QED  BY <1>1
  <1>6. \A i \in 1 .. k : m + i \in 1 .. Len(s) /\ \A j \in 1 .. m : m + i # j
    BY <1>1
  <1>7. \A i, j \in 1 .. Len(s) : s[i] = s[j] => i = j
    BY <1>1 DEF IsInjective
  <1>8. \A i, j \in 1 .. k : m + i = m + j => i = j
    BY <1>1
  <1> HIDE DEF k, a, m
  <1>9. IsInjective(a)
    BY <1>2, <1>3, <1>6, <1>7, <1>8 DEF IsInjective
  <1>10. \A i \in 1 .. k : a[i] \in ToSet(s) /\ a[i] \notin ToSet(t)
    <2>1. \A i \in 1 .. k, j \in 1 .. m : s[m + i] # t[j]
      BY <1>4, <1>6, <1>7
    <2> QED  BY <1>1, <1>2, <1>6, <2>1 DEF ToSet
  <1>11. ASSUME NEW x \in ToSet(s), x \notin ToSet(t) PROVE x \in ToSet(a)
    <2>1. PICK i \in 1 .. Len(s) : x = s[i]
      BY <1>1 DEF ToSet
    <2>2. PICK j \in 1 .. k : i = m + j
      BY <1>1, <1>4, <1>5, <1>11, <2>1 DEF ToSet
    <2> QED  BY <1>2, <1>3, <2>1, <2>2 DEF ToSet
  <1>12. ToSet(a) = ToSet(s) \ ToSet(t)
    <2>1. \A x \in ToSet(a) : \E i \in 1 .. k : x = a[i]
      BY <1>3 DEF ToSet
    <2> QED  BY <1>10, <1>11, <2>1
  <1> QED  BY <1>2, <1>9, <1>12 DEF a

(* Two lists that share nothing.                                           *)
LEMMA ListsJoined ==
  ASSUME NEW S, NEW a \in Seq(S), NEW r \in Seq(S), IsInjective(a), IsInjective(r),
         ToSet(a) \cap ToSet(r) = {}
  PROVE  a \o r \in Seq(S) /\ IsInjective(a \o r) /\ ToSet(a \o r) = ToSet(a) \cup ToSet(r)
  <1> DEFINE m == a \o r
             k == Len(a)
             l == Len(r)
  <1>1. k \in Nat /\ l \in Nat /\ DOMAIN a = 1 .. k /\ DOMAIN r = 1 .. l
    OBVIOUS
  <1>2. /\ m \in Seq(S) /\ Len(m) = k + l
        /\ \A i \in 1 .. k + l : m[i] = IF i <= k THEN a[i] ELSE r[i - k]
    BY ConcatProperties
  <1>3. DOMAIN m = 1 .. k + l
    BY <1>2
  <1> HIDE DEF m
  <1>4. /\ \A i \in 1 .. k : i \in 1 .. k + l /\ m[i] = a[i]
        /\ \A i \in 1 .. l : k + i \in 1 .. k + l /\ m[k + i] = r[i]
    <2>1. \A i \in 1 .. k : i \in 1 .. k + l /\ i <= k
      BY <1>1
    <2>2. \A i \in 1 .. l : k + i \in 1 .. k + l /\ ~(k + i <= k) /\ (k + i) - k = i
      BY <1>1
    <2> HIDE DEF k, l
    <2>3. \A i \in 1 .. k : m[i] = a[i]
      BY <1>2, <2>1
    <2>4. ASSUME NEW i \in 1 .. l PROVE m[k + i] = r[i]
      <3>1. m[k + i] = r[(k + i) - k]
        BY <1>2, <2>2
      <3> QED  BY <2>2, <3>1
    <2> QED  BY <2>1, <2>2, <2>3, <2>4
  <1>5. \A i \in 1 .. k + l : i \in 1 .. k \/ \E j \in 1 .. l : i = k + j
    <2> SUFFICES ASSUME NEW i \in 1 .. k + l, i \notin 1 .. k
                 PROVE  i - k \in 1 .. l /\ i = k + (i - k)
      OBVIOUS
    <2> QED  BY <1>1
  <1> HIDE DEF k, l
  <1>6. \A i \in 1 .. k, j \in 1 .. l : a[i] # r[j]
    <2>1. \A i \in 1 .. k : a[i] \in ToSet(a)
      BY <1>1 DEF ToSet
    <2>2. \A i \in 1 .. l : r[i] \in ToSet(r)
      BY <1>1 DEF ToSet
    <2> QED  BY <2>1, <2>2
  <1>7. /\ \A i, j \in 1 .. k : a[i] = a[j] => i = j
        /\ \A i, j \in 1 .. l : r[i] = r[j] => i = j
    BY <1>1 DEF IsInjective
  <1>8. IsInjective(m)
    <2> SUFFICES ASSUME NEW i \in 1 .. k + l, NEW j \in 1 .. k + l, m[i] = m[j] PROVE i = j
      BY <1>3 DEF IsInjective
    <2>1. CASE i \in 1 .. k /\ j \in 1 .. k
      BY <1>4, <1>7, <2>1
    <2>2. CASE i \in 1 .. k /\ j \notin 1 .. k
      BY <1>4, <1>5, <1>6, <2>2
    <2>3. CASE i \notin 1 .. k /\ j \in 1 .. k
      BY <1>4, <1>5, <1>6, <2>3
    <2>4. CASE i \notin 1 .. k /\ j \notin 1 .. k
      BY <1>4, <1>5, <1>7, <2>4
    <2> QED  BY <2>1, <2>2, <2>3, <2>4
  <1>9. ToSet(m) = ToSet(a) \cup ToSet(r)
    <2>1. \A x \in ToSet(m) : \E i \in 1 .. k + l : x = m[i]
      BY <1>3 DEF ToSet
    <2>2. \A i \in 1 .. k + l : m[i] \in ToSet(a) \cup ToSet(r)
      BY <1>1, <1>4, <1>5 DEF ToSet
    <2>3. \A x \in ToSet(a) : x \in ToSet(m)
      BY <1>1, <1>3, <1>4 DEF ToSet
    <2>4. \A x \in ToSet(r) : x \in ToSet(m)
      BY <1>1, <1>3, <1>4 DEF ToSet
    <2> QED  BY <2>1, <2>2, <2>3, <2>4
  <1> QED  BY <1>2, <1>8, <1>9 DEF m

(* Zero stands for no update, whatever the products.                       *)
LEMMA NoUpdateIsKnown == 0 \in 0 .. Len(Families) /\ ~(0 > 0)
  <1>1. Len(Families) \in Nat
    BY ManifestUpdatesAssumption
  <1> QED  BY <1>1

(* The product an update has come to is one of them.                       *)
LEMMA FamilyKnown ==
  ASSUME family \in 0 .. Len(Families)
  PROVE  /\ family > 0 => Family \in AllFamilies
         /\ 1 \in 0 .. Len(Families) /\ "opensearch" \in AllFamilies
  <1>1. Len(Families) \in Nat /\ DOMAIN Families = 1 .. Len(Families)
    BY ManifestUpdatesAssumption
  <1>2. "opensearch" \in AllFamilies
    BY ManifestUpdatesAssumption DEF AllFamilies
  <1>3. Len(Families) >= 1
    BY <1>1, <1>2 DEF AllFamilies, ToSet
  <1>4. family > 0 => family \in DOMAIN Families
    BY <1>1
  <1> QED  BY <1>1, <1>2, <1>3, <1>4 DEF Family, AllFamilies, ToSet

(* What people edit is main alone.                                         *)
LEMMA EditedMain ==
  ASSUME ManifestInv, EditMain, SoundContent(trunk'), Scheduled(trunk', dropped'),
         family > 0 => Since(basis, trunk', dropped'),
         \A p \in ToSet(proposal) : Since(p.base, trunk, dropped) => Since(p.base, trunk', dropped')
  PROVE  ManifestInv'
  <1>1. UNCHANGED <<heads, basis, checkout, family, scanned, pending, proposal>>
    BY DEF EditMain
  <1>2. UpdateInv'
    BY <1>1 DEF ManifestInv, UpdateInv, Known, Family
  <1>3. ProposalInv'
    <2> SUFFICES ASSUME proposal # <<>>  PROVE ProposalInv'
      BY <1>1 DEF ProposalInv
    <2>1. PICK p : p = proposal[1]
      OBVIOUS
    <2>2. /\ proposal = <<p>> /\ Since(p.base, trunk, dropped)
          /\ SoundContent(p.base) /\ SoundContent(p.content) /\ Updated(p.content, p.base)
      BY <2>1 DEF ManifestInv, ProposalInv
    <2>3. p \in ToSet(proposal)
      BY <2>2 DEF ToSet
    <2>4. Since(p.base, trunk', dropped')
      BY <2>2, <2>3
    <2>5. proposal' = <<p>> /\ proposal'[1] = p
      BY <1>1, <2>1, <2>2
    <2> QED  BY <2>2, <2>4, <2>5 DEF ProposalInv
  <1> QED  BY <1>1, <1>2, <1>3 DEF ManifestInv

(* The commits that matter still know what main has retired.               *)
LEMMA StillSince ==
  ASSUME ManifestInv, trunk'.legacy = trunk.legacy,
         ToSet(trunk.increments) \cup dropped.increments
           \subseteq ToSet(trunk'.increments) \cup dropped'.increments
  PROVE  /\ family > 0 => Since(basis, trunk', dropped')
         /\ \A p \in ToSet(proposal) :
              Since(p.base, trunk, dropped) => Since(p.base, trunk', dropped')
  BY DEF ManifestInv, UpdateInv, Since

LEMMA SameManifests ==
  ASSUME NEW c, NEW d, SoundContent(c), d.current = c.current, d.legacy = c.legacy,
         d = Content(d.current, d.legacy, d.cron, d.snapshots, d.increments),
         d.cron \in Seq(Entry), d.snapshots \in Seq(Nat), d.increments \in Seq(Nat),
         IsInjective(d.cron), IsInjective(d.snapshots), IsInjective(d.increments),
         ToSet(d.cron) \subseteq ToSet(c.cron), ToSet(d.snapshots) \subseteq ToSet(c.snapshots)
  PROVE  SoundContent(d)
  <1>1. /\ c.current = [f \in AllFamilies |-> c.current[f]]
        /\ c.legacy = [f \in AllFamilies |-> c.legacy[f]]
    BY DEF SoundContent, Content
  <1>2. d = Content([f \in AllFamilies |-> d.current[f]], [f \in AllFamilies |-> d.legacy[f]],
                    d.cron, d.snapshots, d.increments)
    BY <1>1
  <1>3. \A f : Versions(d, f) = Versions(c, f) /\ VersionsOf(d, f) = VersionsOf(c, f)
    BY DEF Versions, VersionsOf
  <1>4. /\ \A f \in AllFamilies :
             /\ VersionsOf(d, f) \subseteq Nat
             /\ Versions(d, f) \cap d.legacy[f] = {}
        /\ \A e \in ToSet(d.cron) : e.version \in VersionsOf(d, e.family)
        /\ ToSet(d.snapshots) \subseteq VersionsOf(d, "opensearch")
    BY <1>3 DEF SoundContent
  <1> QED  BY <1>2, <1>4 DEF SoundContent

LEMMA NightlyStopped ==
  ASSUME ManifestInv, NEW e \in ToSet(trunk.cron), StopNightly(e.family, e.version)
  PROVE  ManifestInv'
  <1>1. PICK c, d, g, h : c = trunk /\ d = trunk' /\ g = dropped /\ h = dropped'
    OBVIOUS
  <1>2. SoundContent(c) /\ Scheduled(c, g)
    BY <1>1 DEF ManifestInv
  <1>3. e \in Entry /\ e = CronEntry(e.family, e.version)
    <2>1. e \in Entry
      BY <1>1, <1>2 DEF SoundContent, ToSet
    <2> QED  BY <2>1 DEF Entry, CronEntry
  <1>4. /\ EditMain /\ d = [c EXCEPT !.cron = Without(@, e)]
        /\ h = [g EXCEPT !.cron = @ \cup {e}]
    BY <1>1, <1>3 DEF StopNightly
  <1>5. /\ d.current = c.current /\ d.legacy = c.legacy /\ d.cron = Without(c.cron, e)
        /\ d.snapshots = c.snapshots /\ d.increments = c.increments
        /\ d = Content(d.current, d.legacy, d.cron, d.snapshots, d.increments)
    BY <1>2, <1>4 DEF SoundContent, Content
  <1>6. /\ h.cron = g.cron \cup {e} /\ h.snapshots = g.snapshots /\ h.increments = g.increments
        /\ h = [cron |-> h.cron, snapshots |-> h.snapshots, increments |-> h.increments]
    BY <1>2, <1>4 DEF Scheduled
  <1>7. /\ d.cron \in Seq(Entry) /\ IsInjective(d.cron) /\ ToSet(d.cron) = ToSet(c.cron) \ {e}
    <2>1. PICK s : s = c.cron
      OBVIOUS
    <2>2. s \in Seq(Entry) /\ IsInjective(s)
      BY <1>2, <2>1 DEF SoundContent
    <2> QED  BY <1>5, <2>1, <2>2, OneTakenOut
  <1>8. \A f : Versions(d, f) = Versions(c, f) /\ VersionsOf(d, f) = VersionsOf(c, f)
    BY <1>5 DEF Versions, VersionsOf
  <1>9. SoundContent(d)
    <2>1. /\ c.snapshots \in Seq(Nat) /\ c.increments \in Seq(Nat)
          /\ IsInjective(c.snapshots) /\ IsInjective(c.increments)
      BY <1>2 DEF SoundContent
    <2> QED  BY <1>2, <1>5, <1>7, <2>1, SameManifests
  <1>10. Scheduled(d, h)
    <2>1. e \in ToSet(c.cron) /\ e.version \in VersionsOf(d, e.family)
      BY <1>1, <1>2, <1>8 DEF SoundContent
    <2>2. \A x : x \in ToSet(d.cron) <=> x \in ToSet(c.cron) /\ x # e
      BY <1>7
    <2>3. \A x : x \in h.cron <=> x \in g.cron \/ x = e
      BY <1>6
    <2>4. \A f \in AllFamilies : \A v \in VersionsOf(d, f) :
            CronEntry(f, v) \in ToSet(d.cron) <=> CronEntry(f, v) \notin h.cron
      BY <1>2, <1>8, <2>2, <2>3 DEF Scheduled
    <2> QED  BY <1>2, <1>3, <1>5, <1>6, <1>8, <2>1, <2>3, <2>4 DEF Scheduled
  <1>11. /\ trunk'.legacy = trunk.legacy
         /\ ToSet(trunk.increments) \cup dropped.increments
              \subseteq ToSet(trunk'.increments) \cup dropped'.increments
    BY <1>1, <1>5, <1>6
  <1> QED  BY <1>1, <1>4, <1>9, <1>10, <1>11, StillSince, EditedMain

LEMMA SnapshotsStopped ==
  ASSUME ManifestInv, NEW v \in ToSet(trunk.snapshots), StopSnapshots(v)
  PROVE  ManifestInv'
  <1>1. PICK c, d, g, h : c = trunk /\ d = trunk' /\ g = dropped /\ h = dropped'
    OBVIOUS
  <1>2. SoundContent(c) /\ Scheduled(c, g)
    BY <1>1 DEF ManifestInv
  <1>3. /\ EditMain /\ d = [c EXCEPT !.snapshots = Without(@, v)]
        /\ h = [g EXCEPT !.snapshots = @ \cup {v}]
    BY <1>1 DEF StopSnapshots
  <1>4. /\ d.current = c.current /\ d.legacy = c.legacy /\ d.cron = c.cron
        /\ d.snapshots = Without(c.snapshots, v) /\ d.increments = c.increments
        /\ d = Content(d.current, d.legacy, d.cron, d.snapshots, d.increments)
    BY <1>2, <1>3 DEF SoundContent, Content
  <1>5. /\ h.cron = g.cron /\ h.snapshots = g.snapshots \cup {v} /\ h.increments = g.increments
        /\ h = [cron |-> h.cron, snapshots |-> h.snapshots, increments |-> h.increments]
    BY <1>2, <1>3 DEF Scheduled
  <1>6. /\ d.snapshots \in Seq(Nat) /\ IsInjective(d.snapshots)
        /\ ToSet(d.snapshots) = ToSet(c.snapshots) \ {v}
    <2>1. PICK s : s = c.snapshots
      OBVIOUS
    <2>2. s \in Seq(Nat) /\ IsInjective(s)
      BY <1>2, <2>1 DEF SoundContent
    <2> QED  BY <1>4, <2>1, <2>2, OneTakenOut
  <1>7. \A f : Versions(d, f) = Versions(c, f) /\ VersionsOf(d, f) = VersionsOf(c, f)
    BY <1>4 DEF Versions, VersionsOf
  <1>8. SoundContent(d)
    <2>1. /\ c.cron \in Seq(Entry) /\ c.increments \in Seq(Nat)
          /\ IsInjective(c.cron) /\ IsInjective(c.increments)
      BY <1>2 DEF SoundContent
    <2> QED  BY <1>2, <1>4, <1>6, <2>1, SameManifests
  <1>9. Scheduled(d, h)
    <2>1. v \in VersionsOf(d, "opensearch")
      BY <1>1, <1>2, <1>7 DEF SoundContent
    <2>2. \A u \in VersionsOf(d, "opensearch") : u \in ToSet(d.snapshots) <=> u \notin h.snapshots
      BY <1>2, <1>5, <1>6, <1>7 DEF Scheduled
    <2> QED  BY <1>2, <1>4, <1>5, <1>7, <2>1, <2>2 DEF Scheduled
  <1>10. /\ trunk'.legacy = trunk.legacy
         /\ ToSet(trunk.increments) \cup dropped.increments
              \subseteq ToSet(trunk'.increments) \cup dropped'.increments
    BY <1>1, <1>4, <1>5
  <1> QED  BY <1>1, <1>3, <1>8, <1>9, <1>10, StillSince, EditedMain

LEMMA IncrementsStopped ==
  ASSUME ManifestInv, NEW m \in ToSet(trunk.increments), StopIncrements(m)
  PROVE  ManifestInv'
  <1>1. PICK c, d, g, h : c = trunk /\ d = trunk' /\ g = dropped /\ h = dropped'
    OBVIOUS
  <1>2. SoundContent(c) /\ Scheduled(c, g)
    BY <1>1 DEF ManifestInv
  <1>3. /\ EditMain /\ d = [c EXCEPT !.increments = Without(@, m)]
        /\ h = [g EXCEPT !.increments = @ \cup {m}]
    BY <1>1 DEF StopIncrements
  <1>4. /\ d.current = c.current /\ d.legacy = c.legacy /\ d.cron = c.cron
        /\ d.snapshots = c.snapshots /\ d.increments = Without(c.increments, m)
        /\ d = Content(d.current, d.legacy, d.cron, d.snapshots, d.increments)
    BY <1>2, <1>3 DEF SoundContent, Content
  <1>5. /\ h.cron = g.cron /\ h.snapshots = g.snapshots /\ h.increments = g.increments \cup {m}
        /\ h = [cron |-> h.cron, snapshots |-> h.snapshots, increments |-> h.increments]
    BY <1>2, <1>3 DEF Scheduled
  <1>6. /\ d.increments \in Seq(Nat) /\ IsInjective(d.increments)
        /\ ToSet(d.increments) = ToSet(c.increments) \ {m}
    <2>1. PICK s : s = c.increments
      OBVIOUS
    <2>2. s \in Seq(Nat) /\ IsInjective(s)
      BY <1>2, <2>1 DEF SoundContent
    <2> QED  BY <1>4, <2>1, <2>2, OneTakenOut
  <1>7. \A f : Versions(d, f) = Versions(c, f) /\ VersionsOf(d, f) = VersionsOf(c, f)
    BY <1>4 DEF Versions, VersionsOf
  <1>8. SoundContent(d)
    <2>1. /\ c.cron \in Seq(Entry) /\ c.snapshots \in Seq(Nat)
          /\ IsInjective(c.cron) /\ IsInjective(c.snapshots)
      BY <1>2 DEF SoundContent
    <2> QED  BY <1>2, <1>4, <1>6, <2>1, SameManifests
  <1>9. ToSet(c.increments) \cup g.increments \subseteq ToSet(d.increments) \cup h.increments
    BY <1>5, <1>6
  <1>10. Scheduled(d, h)
    <2>1. \A f \in AllFamilies : \A v \in Versions(d, f) :
            Minor(v) \in ToSet(d.increments) \cup h.increments
      BY <1>2, <1>7, <1>9 DEF Scheduled
    <2> QED  BY <1>2, <1>4, <1>5, <1>7, <2>1 DEF Scheduled
  <1>11. trunk'.legacy = trunk.legacy
    BY <1>1, <1>4
  <1> QED  BY <1>1, <1>3, <1>8, <1>9, <1>10, <1>11, StillSince, EditedMain

LEMMA VersionRetired ==
  ASSUME ManifestInv, NEW f \in AllFamilies, NEW v, RetireVersion(f, v)
  PROVE  ManifestInv'
  <1>1. PICK c, d : c = trunk /\ d = trunk'
    OBVIOUS
  <1>2. SoundContent(c) /\ Scheduled(c, dropped)
    BY <1>1 DEF ManifestInv
  <1> DEFINE cur == [c.current EXCEPT ![f] = [u \in DOMAIN @ \ {v} |-> @[u]]]
             leg == [c.legacy EXCEPT ![f] = @ \cup {v}]
  <1>3. /\ v \in Versions(c, f) /\ OldEnough(f, v) /\ UNCHANGED dropped /\ EditMain
        /\ d = [c EXCEPT !.current[f] = [u \in DOMAIN @ \ {v} |-> @[u]],
                         !.legacy[f] = @ \cup {v}]
    BY <1>1 DEF RetireVersion, Versions
  <1>4. c = Content([g \in AllFamilies |-> c.current[g]], [g \in AllFamilies |-> c.legacy[g]],
                    c.cron, c.snapshots, c.increments)
    BY <1>2 DEF SoundContent
  <1>5. /\ c.current = [g \in AllFamilies |-> c.current[g]]
        /\ c.legacy = [g \in AllFamilies |-> c.legacy[g]]
    BY <1>4 DEF Content
  <1>6. d = Content(cur, leg, c.cron, c.snapshots, c.increments)
    BY <1>3, <1>4, <1>5 DEF Content
  <1>7. /\ Versions(d, f) = Versions(c, f) \ {v} /\ d.legacy[f] = c.legacy[f] \cup {v}
        /\ \A g \in AllFamilies \ {f} : /\ Versions(d, g) = Versions(c, g)
                                        /\ d.legacy[g] = c.legacy[g]
        /\ d.cron = c.cron /\ d.snapshots = c.snapshots /\ d.increments = c.increments
    BY <1>5, <1>6 DEF Content, Versions
  <1>8. /\ cur = [g \in AllFamilies |-> cur[g]] /\ leg = [g \in AllFamilies |-> leg[g]]
        /\ d.current = cur /\ d.legacy = leg
    BY <1>5, <1>6 DEF Content
  <1>9. \A g \in AllFamilies : VersionsOf(d, g) = VersionsOf(c, g)
    BY <1>3, <1>7 DEF VersionsOf
  <1>10. "opensearch" \in AllFamilies
    BY ManifestUpdatesAssumption DEF AllFamilies
  <1> HIDE DEF cur, leg
  <1>11. \A g \in AllFamilies :
           /\ VersionsOf(d, g) \subseteq Nat
           /\ Versions(d, g) \cap d.legacy[g] = {}
    BY <1>2, <1>7, <1>9 DEF SoundContent
  <1>12. \A e \in ToSet(d.cron) : e.version \in VersionsOf(d, e.family)
    <2>1. c.cron \in Seq(Entry)
      BY <1>2 DEF SoundContent
    <2>2. \A e \in ToSet(c.cron) : e \in Entry
      BY <2>1 DEF ToSet
    <2>3. \A e \in ToSet(c.cron) : e.family \in AllFamilies
      BY <2>2 DEF Entry
    <2> QED  BY <1>2, <1>7, <1>9, <2>3 DEF SoundContent
  <1>13. SoundContent(d)
    <2>1. d = Content([g \in AllFamilies |-> d.current[g]], [g \in AllFamilies |-> d.legacy[g]],
                      d.cron, d.snapshots, d.increments)
      BY <1>6, <1>7, <1>8
    <2>2. ToSet(d.snapshots) \subseteq VersionsOf(d, "opensearch")
      BY <1>2, <1>7, <1>9, <1>10 DEF SoundContent
    <2> QED  BY <1>2, <1>7, <1>11, <1>12, <2>1, <2>2 DEF SoundContent
  <1>14. Scheduled(d, dropped)
    <2>1. \A e \in dropped.cron : e.version \in VersionsOf(d, e.family)
      BY <1>2, <1>9 DEF Scheduled, Entry
    <2>2. \A g \in AllFamilies : \A u \in Versions(d, g) : u \in Versions(c, g)
      BY <1>7
    <2> QED  BY <1>2, <1>7, <1>9, <1>10, <2>1, <2>2 DEF Scheduled
  <1>15. ASSUME NEW base, Since(base, c, dropped), Knows(base, f, v)
         PROVE  Since(base, d, dropped)
    <2>1. v \in VersionsOf(base, f)
      BY <1>15 DEF Knows, VersionsOf, Versions
    <2> QED  BY <1>7, <1>15, <2>1 DEF Since
  <1>16. family > 0 => Since(basis, d, dropped)
    BY <1>1, <1>3, <1>15 DEF OldEnough, ManifestInv, UpdateInv
  <1>17. \A p \in ToSet(proposal) : Since(p.base, c, dropped) => Since(p.base, d, dropped)
    BY <1>3, <1>15 DEF OldEnough
  <1> QED  BY <1>1, <1>3, <1>13, <1>14, <1>16, <1>17, EditedMain

LEMMA WrittenByHand ==
  ASSUME ManifestInv, NEW f \in AllFamilies, NEW b \in ToSet(Branches), WriteByHand(f, b)
  PROVE  ManifestInv'
  <1>1. PICK c, d, g, h : c = trunk /\ d = trunk' /\ g = dropped /\ h = dropped'
    OBVIOUS
  <1>2. SoundContent(c) /\ Scheduled(c, g)
    BY <1>1 DEF ManifestInv
  <1>3. PICK v : v = heads[f][b]
    OBVIOUS
  <1>4. v \in Nat
    BY <1>3 DEF ManifestInv
  <1> DEFINE wrote == [ref |-> b, from |-> ByHand]
             more(m) == [u \in DOMAIN m \cup {v} |-> IF u = v THEN wrote ELSE m[u]]
             cur == [c.current EXCEPT ![f] = more(@)]
  <1>5. /\ EditMain /\ v \notin VersionsOf(c, f)
        /\ d = [c EXCEPT !.current[f] = more(@)]
        /\ h = [cron |-> g.cron \cup {CronEntry(f, v)},
                snapshots |-> g.snapshots \cup (IF f = "opensearch" THEN {v} ELSE {}),
                increments |-> g.increments \cup {Minor(v)}]
    BY <1>1, <1>3 DEF WriteByHand, VersionsOf, Versions
  <1>6. \A m : DOMAIN more(m) = DOMAIN m \cup {v}
    OBVIOUS
  <1> HIDE DEF more
  <1>7. c = Content([i \in AllFamilies |-> c.current[i]], [i \in AllFamilies |-> c.legacy[i]],
                    c.cron, c.snapshots, c.increments)
    BY <1>2 DEF SoundContent
  <1>8. /\ c.current = [i \in AllFamilies |-> c.current[i]]
        /\ c.legacy = [i \in AllFamilies |-> c.legacy[i]]
    BY <1>7 DEF Content
  <1>9. d = Content(cur, c.legacy, c.cron, c.snapshots, c.increments)
    BY <1>5, <1>7, <1>8 DEF Content
  <1>10. /\ Versions(d, f) = Versions(c, f) \cup {v}
         /\ \A i \in AllFamilies \ {f} : Versions(d, i) = Versions(c, i)
         /\ d.current = cur /\ d.legacy = c.legacy /\ d.cron = c.cron
         /\ d.snapshots = c.snapshots /\ d.increments = c.increments
    BY <1>6, <1>8, <1>9 DEF Content, Versions
  <1>11. cur = [i \in AllFamilies |-> cur[i]]
    BY <1>8
  <1> HIDE DEF cur, wrote
  <1>12. /\ VersionsOf(d, f) = VersionsOf(c, f) \cup {v}
         /\ \A i \in AllFamilies \ {f} : VersionsOf(d, i) = VersionsOf(c, i)
    BY <1>10 DEF VersionsOf
  <1>13. "opensearch" \in AllFamilies
    BY ManifestUpdatesAssumption DEF AllFamilies
  <1>14. \A i \in AllFamilies :
           /\ VersionsOf(d, i) \subseteq Nat
           /\ Versions(d, i) \cap d.legacy[i] = {}
    <2>1. v \notin c.legacy[f]
      BY <1>5 DEF VersionsOf
    <2> QED  BY <1>2, <1>4, <1>10, <1>12, <2>1 DEF SoundContent
  <1>15. \A e \in ToSet(d.cron) : e \in Entry /\ e.version \in VersionsOf(c, e.family)
    <2>1. c.cron \in Seq(Entry)
      BY <1>2 DEF SoundContent
    <2>2. \A e \in ToSet(c.cron) : e \in Entry
      BY <2>1 DEF ToSet
    <2> QED  BY <1>2, <1>10, <2>2 DEF SoundContent
  <1>16. ToSet(d.snapshots) \subseteq VersionsOf(c, "opensearch")
    BY <1>2, <1>10 DEF SoundContent
  <1>17. SoundContent(d)
    <2>1. d = Content([i \in AllFamilies |-> d.current[i]], [i \in AllFamilies |-> d.legacy[i]],
                      d.cron, d.snapshots, d.increments)
      BY <1>8, <1>9, <1>10, <1>11
    <2>2. \A e \in ToSet(d.cron) : e.version \in VersionsOf(d, e.family)
      BY <1>12, <1>15 DEF Entry
    <2>3. ToSet(d.snapshots) \subseteq VersionsOf(d, "opensearch")
      BY <1>12, <1>13, <1>16
    <2> QED  BY <1>2, <1>10, <1>14, <2>1, <2>2, <2>3 DEF SoundContent
  <1>18. Scheduled(d, h)
    <2>1. \A i \in AllFamilies, u \in Nat : CronEntry(i, u) = CronEntry(f, v) <=> i = f /\ u = v
      BY DEF CronEntry
    <2>2. /\ h.cron = g.cron \cup {CronEntry(f, v)}
          /\ h.snapshots = g.snapshots \cup (IF f = "opensearch" THEN {v} ELSE {})
          /\ h.increments = g.increments \cup {Minor(v)}
          /\ h = [cron |-> h.cron, snapshots |-> h.snapshots, increments |-> h.increments]
      BY <1>5
    <2>3. CronEntry(f, v) \in Entry /\ CronEntry(f, v).family = f /\ CronEntry(f, v).version = v
      BY <1>4 DEF CronEntry, Entry
    <2>4. CronEntry(f, v) \notin ToSet(d.cron)
      BY <1>5, <1>15, <2>3
    <2>5. h.cron \subseteq Entry /\ \A e \in h.cron : e.version \in VersionsOf(d, e.family)
      <3>1. \A e \in g.cron : e \in Entry /\ e.version \in VersionsOf(c, e.family)
        BY <1>2 DEF Scheduled
      <3>2. \A e \in Entry : e.family \in AllFamilies
        BY DEF Entry
      <3> QED  BY <1>12, <2>2, <2>3, <3>1, <3>2
    <2>6. h.snapshots \subseteq VersionsOf(d, "opensearch")
      BY <1>2, <1>12, <1>13, <2>2 DEF Scheduled
    <2>7. \A i \in AllFamilies : \A u \in VersionsOf(d, i) :
            CronEntry(i, u) \in ToSet(d.cron) <=> CronEntry(i, u) \notin h.cron
      BY <1>2, <1>10, <1>12, <1>14, <2>1, <2>2, <2>4 DEF Scheduled
    <2>8. \A u \in VersionsOf(d, "opensearch") : u \in ToSet(d.snapshots) <=> u \notin h.snapshots
      <3>1. CASE f = "opensearch"
        BY <1>2, <1>5, <1>10, <1>12, <1>16, <2>2, <3>1 DEF Scheduled
      <3>2. CASE f # "opensearch"
        BY <1>2, <1>10, <1>12, <1>13, <2>2, <3>2 DEF Scheduled
      <3> QED  BY <3>1, <3>2
    <2>9. \A i \in AllFamilies : \A u \in Versions(d, i) :
            Minor(u) \in ToSet(d.increments) \cup h.increments
      BY <1>2, <1>10, <2>2 DEF Scheduled
    <2> QED  BY <2>2, <2>5, <2>6, <2>7, <2>8, <2>9 DEF Scheduled
  <1>19. /\ trunk'.legacy = trunk.legacy
         /\ ToSet(trunk.increments) \cup dropped.increments
              \subseteq ToSet(trunk'.increments) \cup dropped'.increments
    BY <1>1, <1>5, <1>10
  <1> QED  BY <1>1, <1>5, <1>17, <1>18, <1>19, StillSince, EditedMain

LEMMA MainEdited ==
  ASSUME ManifestInv, PeopleEdit
  PROVE  ManifestInv'
  <1>1. ASSUME NEW f \in AllFamilies, NEW b \in ToSet(Branches), WriteByHand(f, b)
        PROVE  ManifestInv'
    BY <1>1, WrittenByHand
  <1>2. ASSUME NEW f \in AllFamilies, NEW v, RetireVersion(f, v)  PROVE ManifestInv'
    BY <1>2, VersionRetired
  <1>3. ASSUME NEW e \in ToSet(trunk.cron), StopNightly(e.family, e.version)  PROVE ManifestInv'
    BY <1>3, NightlyStopped
  <1>4. ASSUME NEW v \in ToSet(trunk.snapshots), StopSnapshots(v)  PROVE ManifestInv'
    BY <1>4, SnapshotsStopped
  <1>5. ASSUME NEW m \in ToSet(trunk.increments), StopIncrements(m)  PROVE ManifestInv'
    BY <1>5, IncrementsStopped
  <1> QED  BY <1>1, <1>2, <1>3, <1>4, <1>5 DEF PeopleEdit, AllFamilies

(* Writing the manifest of a version that is neither current nor retired,  *)
(* with its entries, leaves what an update works on sound.                 *)
LEMMA AddedIsSound ==
  ASSUME SoundContent(checkout), Updated(checkout, basis), SoundContent(basis),
         NEW f \in AllFamilies, NEW v \in Nat, v \notin Known(f), ~EntryExists(f, v),
         checkout' = Content(WriteManifest(f, v), checkout.legacy, AddToCron(f, v),
                             AddToSnapshots(f, v), AddToIncrements(v))
  PROVE  /\ SoundContent(checkout') /\ Updated(checkout', basis)
         /\ checkout'.legacy = checkout.legacy
         /\ Versions(checkout', f) = Versions(checkout, f) \cup {v}
  <1>1. PICK c, d : c = checkout /\ d = checkout'
    OBVIOUS
  <1>2. /\ d = Content(d.current, d.legacy, d.cron, d.snapshots, d.increments)
        /\ d.current = WriteManifest(f, v) /\ d.legacy = c.legacy
        /\ d.cron = AddToCron(f, v) /\ d.snapshots = AddToSnapshots(f, v)
        /\ d.increments = AddToIncrements(v)
    BY <1>1 DEF Content
  <1>3. SoundContent(c) /\ Updated(c, basis)
    BY <1>1
  <1>4. /\ c.current = [g \in AllFamilies |-> c.current[g]]
        /\ c.legacy = [g \in AllFamilies |-> c.legacy[g]]
    BY <1>3 DEF SoundContent, Content
  <1>5. /\ d.current = [g \in AllFamilies |-> d.current[g]]
        /\ Versions(d, f) = Versions(c, f) \cup {v}
        /\ \A g \in AllFamilies \ {f} : Versions(d, g) = Versions(c, g)
    <2> DEFINE at(m) == [u \in DOMAIN m \cup {v} |->
                           IF u = v THEN [ref |-> pending[v], from |-> Predecessor(f, v)]
                           ELSE m[u]]
    <2>1. d.current = [c.current EXCEPT ![f] = at(c.current[f])]
      BY <1>1, <1>2 DEF WriteManifest
    <2>2. DOMAIN at(c.current[f]) = DOMAIN c.current[f] \cup {v}
      OBVIOUS
    <2> HIDE DEF at
    <2> QED  BY <1>4, <2>1, <2>2 DEF Versions
  <1>6. v \notin Versions(c, f) /\ v \notin c.legacy[f]
    BY <1>1 DEF Known, Versions
  <1>7. /\ VersionsOf(d, f) = VersionsOf(c, f) \cup {v}
        /\ \A g \in AllFamilies \ {f} : VersionsOf(d, g) = VersionsOf(c, g)
    BY <1>2, <1>5 DEF VersionsOf
  <1>8. \A g \in AllFamilies :
          /\ VersionsOf(d, g) \subseteq Nat
          /\ Versions(d, g) \cap d.legacy[g] = {}
    <2>1. \A g \in AllFamilies : /\ VersionsOf(c, g) \subseteq Nat /\ d.legacy[g] = c.legacy[g]
                                 /\ Versions(c, g) \cap c.legacy[g] = {}
      BY <1>2, <1>3 DEF SoundContent
    <2> QED  BY <1>5, <1>6, <1>7, <2>1
  <1>9. /\ c.cron \in Seq(Entry) /\ IsInjective(c.cron) /\ c.snapshots \in Seq(Nat)
        /\ IsInjective(c.snapshots) /\ c.increments \in Seq(Nat) /\ IsInjective(c.increments)
    BY <1>3 DEF SoundContent
  <1>10. /\ basis.cron \in Seq(Entry) /\ basis.snapshots \in Seq(Nat)
         /\ basis.increments \in Seq(Nat)
         /\ EndsWith(c.cron, basis.cron) /\ EndsWith(c.snapshots, basis.snapshots)
         /\ BeginsWith(c.increments, basis.increments)
    BY <1>3 DEF SoundContent, Updated
  <1>11. CronEntry(f, v) \in Entry /\ CronEntry(f, v).family = f /\ CronEntry(f, v).version = v
    BY DEF CronEntry, Entry
  <1>12. /\ d.cron \in Seq(Entry) /\ IsInjective(d.cron)
         /\ ToSet(d.cron) = {CronEntry(f, v)} \cup ToSet(c.cron)
         /\ EndsWith(d.cron, basis.cron)
    <2>1. PICK e : e = CronEntry(f, v)
      OBVIOUS
    <2>2. e \in Entry /\ e \notin ToSet(c.cron)
      BY <1>1, <1>11, <2>1 DEF EntryExists
    <2>3. d.cron = <<e>> \o c.cron
      BY <1>1, <1>2, <2>1 DEF AddToCron
    <2> QED  BY <1>9, <1>10, <2>1, <2>2, <2>3, EntryAdded
  <1>13. /\ d.snapshots \in Seq(Nat) /\ IsInjective(d.snapshots)
         /\ ToSet(d.snapshots) = IF f = "opensearch" THEN {v} \cup ToSet(c.snapshots)
                                 ELSE ToSet(c.snapshots)
         /\ EndsWith(d.snapshots, basis.snapshots)
    <2>1. CASE f = "opensearch"
      <3>1. v \notin ToSet(c.snapshots) /\ d.snapshots = <<v>> \o c.snapshots
        BY <1>1, <1>2, <2>1 DEF EntryExists, AddToSnapshots
      <3> QED  BY <1>9, <1>10, <2>1, <3>1, EntryAdded
    <2>2. CASE f # "opensearch"
      BY <1>1, <1>2, <1>9, <1>10, <2>2 DEF AddToSnapshots
    <2> QED  BY <2>1, <2>2
  <1>14. /\ d.increments \in Seq(Nat) /\ IsInjective(d.increments)
         /\ ToSet(d.increments) = {Minor(v)} \cup ToSet(c.increments)
         /\ BeginsWith(d.increments, basis.increments)
    <2>1. Minor(v) \in Nat
      BY DEF Minor
    <2>2. CASE Minor(v) \in ToSet(c.increments)
      BY <1>1, <1>2, <1>9, <1>10, <2>2 DEF AddToIncrements
    <2>3. CASE Minor(v) \notin ToSet(c.increments)
      <3>1. d.increments = Append(c.increments, Minor(v))
        BY <1>1, <1>2, <2>3 DEF AddToIncrements
      <3>2. PICK m, s, t : m = Minor(v) /\ s = c.increments /\ t = basis.increments
        OBVIOUS
      <3>3. /\ m \in Nat /\ s \in Seq(Nat) /\ IsInjective(s) /\ m \notin ToSet(s)
            /\ t \in Seq(Nat) /\ BeginsWith(s, t)
        BY <1>9, <1>10, <2>1, <2>3, <3>2
      <3>4. /\ Append(s, m) \in Seq(Nat) /\ ToSet(Append(s, m)) = {m} \cup ToSet(s)
            /\ IsInjective(Append(s, m)) /\ BeginsWith(Append(s, m), t)
        BY <3>3, EntryAdded
      <3> QED  BY <3>1, <3>2, <3>4
    <2> QED  BY <2>2, <2>3
  <1>15. "opensearch" \in AllFamilies
    BY ManifestUpdatesAssumption DEF AllFamilies
  <1>16. \A e \in ToSet(c.cron) : e \in Entry /\ e.family \in AllFamilies
    <2>1. \A e \in ToSet(c.cron) : e \in Entry
      BY <1>9 DEF ToSet
    <2> QED  BY <2>1 DEF Entry
  <1>17. SoundContent(d)
    <2>1. d = Content([g \in AllFamilies |-> d.current[g]], [g \in AllFamilies |-> d.legacy[g]],
                      d.cron, d.snapshots, d.increments)
      BY <1>2, <1>4, <1>5
    <2>2. \A e \in ToSet(d.cron) : e.version \in VersionsOf(d, e.family)
      BY <1>3, <1>7, <1>11, <1>12, <1>16 DEF SoundContent
    <2>3. ToSet(d.snapshots) \subseteq VersionsOf(d, "opensearch")
      BY <1>3, <1>7, <1>13, <1>15 DEF SoundContent
    <2> QED  BY <1>8, <1>12, <1>13, <1>14, <2>1, <2>2, <2>3 DEF SoundContent
  <1>18. Updated(d, basis)
    <2>1. \A g \in AllFamilies : /\ Versions(basis, g) \subseteq Versions(c, g)
                                 /\ d.legacy[g] = basis.legacy[g]
      BY <1>2, <1>3 DEF Updated
    <2>2. /\ New(d, basis, f) = New(c, basis, f) \cup {v}
          /\ \A g \in AllFamilies \ {f} : New(d, basis, g) = New(c, basis, g)
      BY <1>5, <1>6, <2>1 DEF New
    <2>3. \A g \in AllFamilies : \A u \in New(d, basis, g) :
            CronEntry(g, u) \in ToSet(d.cron) /\ Minor(u) \in ToSet(d.increments)
      BY <1>3, <1>12, <1>14, <2>2 DEF Updated
    <2>4. New(d, basis, "opensearch") \subseteq ToSet(d.snapshots)
      BY <1>3, <1>13, <1>15, <2>2 DEF Updated
    <2>5. \A e \in ToSet(d.cron) : e \in ToSet(basis.cron) \/ e.version \in New(d, basis, e.family)
      BY <1>3, <1>11, <1>12, <1>16, <2>2 DEF Updated
    <2>6. ToSet(d.snapshots) \subseteq ToSet(basis.snapshots) \cup New(d, basis, "opensearch")
      BY <1>3, <1>13, <1>15, <2>2 DEF Updated
    <2>7. \A g \in AllFamilies : Versions(basis, g) \subseteq Versions(d, g)
      BY <1>5, <2>1
    <2> QED  BY <1>12, <1>13, <1>14, <2>1, <2>3, <2>4, <2>5, <2>6, <2>7 DEF Updated
  <1> QED  BY <1>1, <1>2, <1>5, <1>17, <1>18

(* And so does a merge: what the pull request adds main has never named.   *)
LEMMA MergedIsSound ==
  ASSUME ManifestInv, MergeProposal
  PROVE  /\ SoundContent(trunk') /\ trunk'.legacy = trunk.legacy
         /\ Scheduled(trunk', dropped)
         /\ ToSet(trunk.increments) \subseteq ToSet(trunk'.increments)
  <1>1. PICK c, d, gone : c = trunk /\ d = trunk' /\ gone = dropped
    OBVIOUS
  <1>2. PICK base, new : base = proposal[1].base /\ new = proposal[1].content
    OBVIOUS
  <1>3. /\ SoundContent(base) /\ SoundContent(new) /\ Updated(new, base)
        /\ Since(base, c, gone) /\ SoundContent(c) /\ Scheduled(c, gone)
    BY <1>1, <1>2 DEF MergeProposal, ProposalInv, ManifestInv
  <1>4. base = Head(proposal).base /\ new = Head(proposal).content
    BY <1>2 DEF MergeProposal, ProposalInv, ManifestInv
  <1> DEFINE cur == [f \in AllFamilies |->
                       [v \in New(new, base, f) \cup Versions(c, f) |->
                          IF v \in Versions(c, f) THEN c.current[f][v] ELSE new.current[f][v]]]
  <1>5. /\ d = Content(cur, c.legacy, Added(new.cron, base.cron) \o c.cron,
                       Added(new.snapshots, base.snapshots) \o c.snapshots,
                       c.increments \o Appended(new.increments, base.increments))
        /\ Mergeable(base, new)
    BY <1>1, <1>4 DEF MergeProposal, New, Versions, AllFamilies
  <1>6. /\ ToSet(c.cron) \subseteq ToSet(base.cron)
        /\ ToSet(c.snapshots) \subseteq ToSet(base.snapshots)
        /\ ToSet(c.increments) \subseteq ToSet(base.increments)
        /\ \A f \in AllFamilies : New(new, base, f) \cap Versions(c, f) = {}
    BY <1>1, <1>5 DEF Mergeable, New, Versions, AllFamilies
  <1>7. /\ d.current = cur /\ d.legacy = c.legacy
        /\ d.cron = Added(new.cron, base.cron) \o c.cron
        /\ d.snapshots = Added(new.snapshots, base.snapshots) \o c.snapshots
        /\ d.increments = c.increments \o Appended(new.increments, base.increments)
        /\ d = Content(d.current, d.legacy, d.cron, d.snapshots, d.increments)
    BY <1>5 DEF Content
  <1>8. /\ cur = [f \in AllFamilies |-> cur[f]]
        /\ \A f \in AllFamilies : DOMAIN cur[f] = New(new, base, f) \cup Versions(c, f)
    OBVIOUS
  <1> HIDE DEF cur
  <1>9. \A f \in AllFamilies : /\ Versions(d, f) = New(new, base, f) \cup Versions(c, f)
                               /\ VersionsOf(d, f) = New(new, base, f) \cup VersionsOf(c, f)
    BY <1>7, <1>8 DEF Versions, VersionsOf
  <1>10. \A f \in AllFamilies : /\ New(new, base, f) \subseteq Nat
                                /\ New(new, base, f) \cap VersionsOf(base, f) = {}
    <2>1. \A f \in AllFamilies : /\ Versions(new, f) \subseteq Nat
                                 /\ Versions(new, f) \cap new.legacy[f] = {}
                                 /\ new.legacy[f] = base.legacy[f]
      BY <1>3 DEF SoundContent, Updated, VersionsOf
    <2> QED  BY <2>1 DEF New, VersionsOf
  <1>11. \A f \in AllFamilies : New(new, base, f) \cap VersionsOf(c, f) = {}
    <2>1. \A f \in AllFamilies : c.legacy[f] \subseteq VersionsOf(base, f)
      BY <1>3 DEF Since
    <2> QED  BY <1>6, <1>10, <2>1 DEF VersionsOf
  <1>12. \A f \in AllFamilies :
           VersionsOf(d, f) \subseteq Nat /\ Versions(d, f) \cap d.legacy[f] = {}
    <2>1. \A f \in AllFamilies : /\ VersionsOf(c, f) \subseteq Nat
                                 /\ Versions(c, f) \cap c.legacy[f] = {}
                                 /\ c.legacy[f] \subseteq VersionsOf(c, f)
      BY <1>3 DEF SoundContent, VersionsOf
    <2> QED  BY <1>7, <1>9, <1>10, <1>11, <2>1
  <1>13. "opensearch" \in AllFamilies
    BY ManifestUpdatesAssumption DEF AllFamilies
  <1>14. /\ d.cron \in Seq(Entry) /\ IsInjective(d.cron)
         /\ ToSet(d.cron) = (ToSet(new.cron) \ ToSet(base.cron)) \cup ToSet(c.cron)
    <2>1. PICK s, t, r : s = new.cron /\ t = base.cron /\ r = c.cron
      OBVIOUS
    <2>2. /\ s \in Seq(Entry) /\ t \in Seq(Entry) /\ r \in Seq(Entry)
          /\ IsInjective(s) /\ IsInjective(r) /\ EndsWith(s, t)
      BY <1>3, <2>1 DEF SoundContent, Updated
    <2>3. PICK a : a = Added(s, t)
      OBVIOUS
    <2>4. a \in Seq(Entry) /\ IsInjective(a) /\ ToSet(a) = ToSet(s) \ ToSet(t)
      BY <2>2, <2>3, AddedInFront
    <2>5. ToSet(a) \cap ToSet(r) = {}
      BY <1>6, <2>1, <2>4
    <2>6. a \o r \in Seq(Entry) /\ IsInjective(a \o r) /\ ToSet(a \o r) = ToSet(a) \cup ToSet(r)
      BY <2>2, <2>4, <2>5, ListsJoined
    <2> QED  BY <1>7, <2>1, <2>3, <2>4, <2>6
  <1>15. /\ d.snapshots \in Seq(Nat) /\ IsInjective(d.snapshots)
         /\ ToSet(d.snapshots) = (ToSet(new.snapshots) \ ToSet(base.snapshots))
                                   \cup ToSet(c.snapshots)
    <2>1. PICK s, t, r : s = new.snapshots /\ t = base.snapshots /\ r = c.snapshots
      OBVIOUS
    <2>2. /\ s \in Seq(Nat) /\ t \in Seq(Nat) /\ r \in Seq(Nat)
          /\ IsInjective(s) /\ IsInjective(r) /\ EndsWith(s, t)
      BY <1>3, <2>1 DEF SoundContent, Updated
    <2>3. PICK a : a = Added(s, t)
      OBVIOUS
    <2>4. a \in Seq(Nat) /\ IsInjective(a) /\ ToSet(a) = ToSet(s) \ ToSet(t)
      BY <2>2, <2>3, AddedInFront
    <2>5. ToSet(a) \cap ToSet(r) = {}
      BY <1>6, <2>1, <2>4
    <2>6. a \o r \in Seq(Nat) /\ IsInjective(a \o r) /\ ToSet(a \o r) = ToSet(a) \cup ToSet(r)
      BY <2>2, <2>4, <2>5, ListsJoined
    <2> QED  BY <1>7, <2>1, <2>3, <2>4, <2>6
  <1>16. /\ d.increments \in Seq(Nat) /\ IsInjective(d.increments)
         /\ ToSet(d.increments) = ToSet(c.increments)
                                    \cup (ToSet(new.increments) \ ToSet(base.increments))
    <2>1. PICK s, t, r : s = new.increments /\ t = base.increments /\ r = c.increments
      OBVIOUS
    <2>2. /\ s \in Seq(Nat) /\ t \in Seq(Nat) /\ r \in Seq(Nat)
          /\ IsInjective(s) /\ IsInjective(r) /\ BeginsWith(s, t)
      BY <1>3, <2>1 DEF SoundContent, Updated
    <2>3. PICK a : a = Appended(s, t)
      OBVIOUS
    <2>4. a \in Seq(Nat) /\ IsInjective(a) /\ ToSet(a) = ToSet(s) \ ToSet(t)
      BY <2>2, <2>3, AddedAfter
    <2>5. ToSet(r) \cap ToSet(a) = {}
      BY <1>6, <2>1, <2>4
    <2>6. r \o a \in Seq(Nat) /\ IsInjective(r \o a) /\ ToSet(r \o a) = ToSet(r) \cup ToSet(a)
      BY <2>2, <2>4, <2>5, ListsJoined
    <2> QED  BY <1>7, <2>1, <2>3, <2>4, <2>6
  <1>17. /\ \A e \in ToSet(new.cron) \cup ToSet(c.cron) : e \in Entry
         /\ \A e \in Entry : e.family \in AllFamilies
    <2>1. new.cron \in Seq(Entry) /\ c.cron \in Seq(Entry)
      BY <1>3 DEF SoundContent
    <2>2. \A e \in ToSet(new.cron) \cup ToSet(c.cron) : e \in Entry
      BY <2>1 DEF ToSet
    <2>3. \A e \in Entry : e.family \in AllFamilies
      BY DEF Entry
    <2> QED  BY <2>2, <2>3
  <1>18. SoundContent(d)
    <2>1. c.legacy = [f \in AllFamilies |-> c.legacy[f]]
      BY <1>3 DEF SoundContent, Content
    <2>2. d = Content([f \in AllFamilies |-> d.current[f]], [f \in AllFamilies |-> d.legacy[f]],
                      d.cron, d.snapshots, d.increments)
      BY <1>7, <1>8, <2>1
    <2>3. \A e \in ToSet(d.cron) : e.version \in VersionsOf(d, e.family)
      <3>1. ASSUME NEW e \in ToSet(new.cron), e \notin ToSet(base.cron)
            PROVE  e.version \in VersionsOf(d, e.family)
        BY <1>3, <1>9, <1>17, <3>1 DEF Updated
      <3>2. \A e \in ToSet(c.cron) : e.version \in VersionsOf(d, e.family)
        BY <1>3, <1>9, <1>17 DEF SoundContent
      <3> QED  BY <1>14, <3>1, <3>2
    <2>4. ToSet(d.snapshots) \subseteq VersionsOf(d, "opensearch")
      BY <1>3, <1>9, <1>13, <1>15 DEF SoundContent, Updated
    <2> QED  BY <1>12, <1>14, <1>15, <1>16, <2>2, <2>3, <2>4 DEF SoundContent
  <1>19. Scheduled(d, gone)
    <2>1. /\ \A e \in gone.cron : e \in Entry /\ e.version \in VersionsOf(c, e.family)
          /\ gone.snapshots \subseteq VersionsOf(c, "opensearch")
      BY <1>3 DEF Scheduled
    <2>2. /\ \A e \in gone.cron : e.version \in VersionsOf(d, e.family)
          /\ gone.snapshots \subseteq VersionsOf(d, "opensearch")
      BY <1>9, <1>13, <1>17, <2>1
    <2>3. ASSUME NEW f \in AllFamilies, NEW v \in VersionsOf(d, f)
          PROVE  CronEntry(f, v) \in ToSet(d.cron) <=> CronEntry(f, v) \notin gone.cron
      <3> DEFINE e == CronEntry(f, v)
      <3>1. e.family = f /\ e.version = v
        BY DEF CronEntry
      <3> HIDE DEF e
      <3>2. CASE v \in New(new, base, f)
        <4>1. e \in ToSet(new.cron)
          BY <1>3, <3>2 DEF Updated, e
        <4>2. e \notin ToSet(base.cron)
          BY <1>3, <1>10, <3>1, <3>2 DEF SoundContent
        <4>3. e \notin gone.cron
          BY <1>11, <2>1, <3>1, <3>2
        <4> QED  BY <1>14, <4>1, <4>2, <4>3 DEF e
      <3>3. CASE v \notin New(new, base, f)
        <4>1. v \in VersionsOf(c, f)
          BY <1>9, <3>3
        <4>2. e \in ToSet(c.cron) <=> e \notin gone.cron
          BY <1>3, <4>1 DEF Scheduled, e
        <4>3. e \in ToSet(new.cron) => e \in ToSet(base.cron)
          BY <1>3, <3>1, <3>3 DEF Updated
        <4> QED  BY <1>14, <4>2, <4>3 DEF e
      <3> QED  BY <3>2, <3>3
    <2>4. ASSUME NEW v \in VersionsOf(d, "opensearch")
          PROVE  v \in ToSet(d.snapshots) <=> v \notin gone.snapshots
      <3>1. CASE v \in New(new, base, "opensearch")
        <4>1. v \in ToSet(new.snapshots)
          BY <1>3, <3>1 DEF Updated
        <4>2. v \notin ToSet(base.snapshots) /\ v \notin gone.snapshots
          BY <1>3, <1>10, <1>11, <1>13, <2>1, <3>1 DEF SoundContent
        <4> QED  BY <1>15, <4>1, <4>2
      <3>2. CASE v \notin New(new, base, "opensearch")
        <4>1. v \in VersionsOf(c, "opensearch")
          BY <1>9, <1>13, <3>2
        <4>2. v \in ToSet(c.snapshots) <=> v \notin gone.snapshots
          BY <1>3, <4>1 DEF Scheduled
        <4>3. v \in ToSet(new.snapshots) => v \in ToSet(base.snapshots)
          BY <1>3, <3>2 DEF Updated
        <4> QED  BY <1>15, <4>2, <4>3
      <3> QED  BY <3>1, <3>2
    <2>5. ASSUME NEW f \in AllFamilies, NEW v \in Versions(d, f)
          PROVE  Minor(v) \in ToSet(d.increments) \cup gone.increments
      <3>1. CASE v \in New(new, base, f)
        <4>1. Minor(v) \in ToSet(new.increments)
          BY <1>3, <3>1 DEF Updated
        <4>2. ToSet(base.increments) \subseteq ToSet(c.increments) \cup gone.increments
          BY <1>3 DEF Since
        <4> QED  BY <1>16, <4>1, <4>2
      <3>2. CASE v \notin New(new, base, f)
        <4>1. Minor(v) \in ToSet(c.increments) \cup gone.increments
          BY <1>3, <1>9, <3>2 DEF Scheduled
        <4> QED  BY <1>16, <4>1
      <3> QED  BY <3>1, <3>2
    <2> QED  BY <1>3, <2>1, <2>2, <2>3, <2>4, <2>5 DEF Scheduled
  <1> QED  BY <1>1, <1>7, <1>16, <1>18, <1>19

(* Most steps leave main and the pull request alone.                       *)
LEMMA MainStays ==
  ASSUME SoundContent(trunk), Scheduled(trunk, dropped), ProposalInv, UNCHANGED main
  PROVE  /\ SoundContent(trunk') /\ Scheduled(trunk', dropped')
         /\ proposal' = proposal => ProposalInv'
  <1>1. trunk' = trunk /\ dropped' = dropped
    BY DEF main
  <1> QED  BY <1>1 DEF ProposalInv

(* Every step of the manifests keeps that.                                 *)
LEMMA ManifestStepKept ==
  ASSUME ManifestInv, [ManifestNext]_manifestVars
  PROVE  ManifestInv'
  <1>1. /\ heads \in [AllFamilies -> [ToSet(Branches) -> Nat]]
        /\ SoundContent(trunk) /\ Scheduled(trunk, dropped) /\ UpdateInv /\ ProposalInv
    BY DEF ManifestInv
  <1>2. /\ SoundContent(basis) /\ SoundContent(checkout) /\ Updated(checkout, basis)
        /\ family \in 0 .. Len(Families) /\ scanned \in BOOLEAN
        /\ ~scanned => DOMAIN pending = {}
        /\ family = 0 => ~scanned
        /\ family > 0 => Since(basis, trunk, dropped)
        /\ family > 0 => DOMAIN pending \subseteq Nat \ Known(Family)
    BY <1>1 DEF UpdateInv
  <1>3. /\ family > 0 => Family \in AllFamilies
        /\ 1 \in 0 .. Len(Families) /\ "opensearch" \in AllFamilies
    BY <1>2, FamilyKnown
  <1>4. UNCHANGED main => UNCHANGED <<trunk, dropped>>
    BY DEF main
  <1>5. UNCHANGED <<main, basis, checkout, family, scanned, pending>> => UpdateInv'
    BY <1>1, <1>4 DEF UpdateInv, Known, Family
  <1>6. ASSUME NEW f \in ToSet(Families), NEW b \in ToSet(Branches), BumpVersion(f, b)
        PROVE  ManifestInv'
    <2> DEFINE next == IF MinorOf[b] = 0 THEN 10 * (Minor(heads[f][b]) + 1) ELSE heads[f][b] + 1
    <2>1. heads[f][b] \in Nat /\ f \in AllFamilies
      BY <1>1, <1>6 DEF AllFamilies
    <2>2. next \in Nat
      BY <2>1 DEF Minor
    <2>3. heads' = [heads EXCEPT ![f][b] = next]
      BY <1>6 DEF BumpVersion
    <2> HIDE DEF next
    <2>4. heads' \in [AllFamilies -> [ToSet(Branches) -> Nat]]
      BY <1>1, <1>6, <2>1, <2>2, <2>3
    <2>5. UNCHANGED <<main, basis, checkout, family, scanned, pending, proposal>>
      BY <1>6 DEF BumpVersion
    <2> QED  BY <1>1, <1>5, <2>4, <2>5, MainStays DEF ManifestInv
  <1>7. CASE PeopleEdit
    BY <1>7, MainEdited
  <1>8. CASE StartUpdate
    <2>1. /\ basis' = trunk /\ checkout' = trunk /\ family' = 1 /\ scanned' = FALSE
          /\ UNCHANGED <<heads, main, pending, proposal>> /\ family = 0
      BY <1>8 DEF StartUpdate
    <2>2. Updated(trunk, trunk)
      <3>1. \A S : \A s \in Seq(S) : EndsWith(s, s) /\ BeginsWith(s, s)
        BY DEF EndsWith, BeginsWith
      <3>2. /\ trunk.cron \in Seq(Entry) /\ trunk.snapshots \in Seq(Nat)
            /\ trunk.increments \in Seq(Nat)
        BY <1>1 DEF SoundContent
      <3> QED  BY <3>1, <3>2 DEF Updated, New
    <2>3. Since(trunk, trunk, dropped)
      BY DEF Since, VersionsOf
    <2>4. UpdateInv'
      BY <1>1, <1>2, <1>4, <1>3, <2>1, <2>2, <2>3 DEF UpdateInv
    <2> QED  BY <1>1, <2>1, <2>4, MainStays DEF ManifestInv
  <1>9. CASE Scan
    <2>1. /\ family > 0 /\ scanned' = TRUE /\ DOMAIN pending' = NewVersions(Family)
          /\ UNCHANGED <<heads, main, basis, checkout, family, proposal>>
      BY <1>9 DEF Scan
    <2>2. NewVersions(Family) \subseteq Nat \ Known(Family)
      BY <1>1, <1>3, <2>1 DEF NewVersions, Maintained
    <2>3. Known(Family)' = Known(Family)
      BY <2>1 DEF Known, Family
    <2>4. UpdateInv'
      BY <1>2, <1>4, <2>1, <2>2, <2>3 DEF UpdateInv
    <2> QED  BY <1>1, <2>1, <2>4, MainStays DEF ManifestInv
  <1>10. CASE AddVersion
    <2>1. PICK v \in DOMAIN pending :
            /\ ~EntryExists(Family, v)
            /\ checkout' = Content(WriteManifest(Family, v), checkout.legacy,
                                   AddToCron(Family, v), AddToSnapshots(Family, v),
                                   AddToIncrements(v))
            /\ DOMAIN pending' = DOMAIN pending \ {v}
      BY <1>10 DEF AddVersion
    <2>2. family > 0 /\ UNCHANGED <<heads, main, basis, family, scanned, proposal>>
      BY <1>10 DEF AddVersion
    <2>3. v \in Nat /\ v \notin Known(Family) /\ Family \in AllFamilies
      BY <1>2, <1>3, <2>1, <2>2
    <2>4. /\ SoundContent(checkout') /\ Updated(checkout', basis)
          /\ checkout'.legacy = checkout.legacy
          /\ Versions(checkout', Family) = Versions(checkout, Family) \cup {v}
      BY <1>2, <2>1, <2>3, AddedIsSound
    <2>5. Known(Family)' = Known(Family) \cup {v}
      BY <2>2, <2>4 DEF Known, Versions, Family
    <2>6. DOMAIN pending' \subseteq Nat \ Known(Family)'
      BY <1>2, <2>1, <2>2, <2>5
    <2>7. UpdateInv'
      BY <1>2, <1>4, <2>1, <2>2, <2>4, <2>6 DEF UpdateInv
    <2> QED  BY <1>1, <2>2, <2>7, MainStays DEF ManifestInv
  <1>11. CASE NextFamily
    <2>1. /\ DOMAIN pending = {} /\ family < Len(Families) /\ family' = family + 1
          /\ scanned' = FALSE /\ scanned
          /\ UNCHANGED <<heads, main, basis, checkout, pending, proposal>>
      BY <1>11 DEF NextFamily
    <2>2. family > 0 /\ family' \in 0 .. Len(Families)
      BY <1>2, <2>1, ManifestUpdatesAssumption
    <2>3. DOMAIN pending' = {} /\ family' # 0
      BY <1>2, <2>1
    <2>4. UpdateInv'
      BY <1>2, <1>4, <2>1, <2>2, <2>3 DEF UpdateInv
    <2> QED  BY <1>1, <2>1, <2>4, MainStays DEF ManifestInv
  <1>12. CASE UpdateFails
    <2>1. /\ family' = 0 /\ scanned' = FALSE /\ DOMAIN pending' = {}
          /\ UNCHANGED <<heads, main, basis, checkout, proposal>>
      BY <1>12 DEF UpdateFails
    <2>2. family' \in 0 .. Len(Families) /\ ~(family' > 0)
      BY <2>1, NoUpdateIsKnown
    <2>3. /\ SoundContent(basis') /\ SoundContent(checkout') /\ Updated(checkout', basis')
          /\ scanned' \in BOOLEAN /\ ~scanned'
      BY <1>2, <2>1
    <2>4. UpdateInv'
      BY <2>1, <2>2, <2>3 DEF UpdateInv
    <2> QED  BY <1>1, <2>1, <2>4, MainStays DEF ManifestInv
  <1>13. CASE OpenPullRequest
    <2>1. /\ family = Len(Families) /\ DOMAIN pending = {} /\ scanned
          /\ family' = 0 /\ scanned' = FALSE
          /\ UNCHANGED <<heads, main, basis, checkout, pending>>
      BY <1>13 DEF OpenPullRequest
    <2>2. Since(basis, trunk, dropped)
      BY <1>2, <2>1
    <2>3. UpdateInv'
      <3>1. family' \in 0 .. Len(Families) /\ ~(family' > 0) /\ DOMAIN pending' = {}
        BY <2>1, NoUpdateIsKnown
      <3>2. /\ SoundContent(basis') /\ SoundContent(checkout') /\ Updated(checkout', basis')
            /\ scanned' \in BOOLEAN /\ ~scanned'
        BY <1>2, <2>1
      <3> QED  BY <3>1, <3>2 DEF UpdateInv
    <2>4. ProposalInv'
      <3>1. CASE proposal' = proposal
        BY <1>1, <2>1, <3>1, MainStays
      <3>2. CASE proposal' = <<Proposal(basis, checkout)>>
        <4>1. PICK p : p = Proposal(basis, checkout)
          OBVIOUS
        <4>2. /\ proposal' = <<p>> /\ proposal'[1] = p
              /\ p.base = basis /\ p.content = checkout
          BY <3>2, <4>1 DEF Proposal
        <4>3. Since(p.base, trunk', dropped')
          BY <1>4, <2>1, <2>2, <4>2
        <4> QED  BY <1>2, <4>2, <4>3 DEF ProposalInv
      <3> QED  BY <1>13, <3>1, <3>2 DEF OpenPullRequest
    <2> QED  BY <1>1, <2>1, <2>3, <2>4, MainStays DEF ManifestInv
  <1>14. CASE MergeProposal
    <2>1. /\ SoundContent(trunk') /\ trunk'.legacy = trunk.legacy
          /\ ToSet(trunk.increments) \subseteq ToSet(trunk'.increments)
          /\ dropped' = dropped /\ Scheduled(trunk', dropped')
          /\ proposal' = <<>> /\ UNCHANGED <<heads, basis, checkout, family, scanned, pending>>
      BY <1>14, MergedIsSound DEF MergeProposal
    <2>2. family > 0 => Since(basis', trunk', dropped')
      BY <1>2, <2>1 DEF Since
    <2>3. UpdateInv'
      BY <1>2, <1>4, <2>1, <2>2 DEF UpdateInv, Known, Family
    <2>4. ProposalInv'
      BY <2>1 DEF ProposalInv
    <2> QED  BY <1>1, <2>1, <2>3, <2>4 DEF ManifestInv
  <1>15. CASE ClosePullRequest
    <2>1. /\ proposal' = <<>>
          /\ UNCHANGED <<heads, main, basis, checkout, family, scanned, pending>>
      BY <1>15 DEF ClosePullRequest
    <2>2. ProposalInv'
      BY <2>1 DEF ProposalInv
    <2> QED  BY <1>1, <1>5, <2>1, <2>2, MainStays DEF ManifestInv
  <1>16. CASE UNCHANGED manifestVars
    <2>1. UNCHANGED <<heads, main, basis, checkout, family, scanned, pending, proposal>>
      BY <1>16 DEF manifestVars, main
    <2> QED  BY <1>1, <1>5, <2>1, MainStays DEF ManifestInv
  <1> QED
    BY <1>6, <1>7, <1>8, <1>9, <1>10, <1>11, <1>12, <1>13, <1>14, <1>15, <1>16 DEF ManifestNext

(* Main, the checkout of an update and the pull request hold sound         *)
(* contents; what main names is scheduled unless people took it out; and   *)
(* what an update started from still knows all that was retired since      *)
(* (manifests_workflow/input_manifests.py).                                *)
THEOREM ManifestsConsistent == ManifestSpec => []ManifestInv
  <1>1. ASSUME ManifestInit PROVE ManifestInv
    <2>1. /\ trunk.current = [f \in AllFamilies |-> <<>>] /\ trunk.cron = <<>>
          /\ trunk.legacy = [f \in AllFamilies |-> {}] /\ trunk.snapshots = <<>>
          /\ trunk.increments = <<>> /\ basis = trunk /\ checkout = trunk
          /\ family = 0 /\ scanned = FALSE /\ pending = <<>> /\ proposal = <<>>
          /\ dropped = [cron |-> {}, snapshots |-> {}, increments |-> {}]
          /\ trunk = Content(trunk.current, trunk.legacy, trunk.cron, trunk.snapshots,
                             trunk.increments)
      BY <1>1 DEF ManifestInit, Content, AllFamilies
    <2>2. \A f \in AllFamilies : Versions(trunk, f) = {} /\ VersionsOf(trunk, f) = {}
      BY <2>1 DEF Versions, VersionsOf
    <2>3. "opensearch" \in AllFamilies
      BY ManifestUpdatesAssumption DEF AllFamilies
    <2>4. SoundContent(trunk)
      <3>1. ToSet(<<>>) = {} /\ IsInjective(<<>>)
        BY DEF IsInjective, ToSet
      <3>2. trunk = Content([f \in AllFamilies |-> trunk.current[f]],
                            [f \in AllFamilies |-> trunk.legacy[f]],
                            trunk.cron, trunk.snapshots, trunk.increments)
        BY <2>1
      <3>3. \A S : <<>> \in Seq(S)
        OBVIOUS
      <3> QED  BY <2>1, <2>2, <2>3, <3>1, <3>2, <3>3 DEF SoundContent
    <2>5. Updated(trunk, trunk)
      <3>1. ToSet(<<>>) = {}
        BY DEF ToSet
      <3> QED  BY <2>1, <2>2, <3>1 DEF Updated, EndsWith, BeginsWith, New
    <2>8. Scheduled(trunk, dropped)
      <3>1. ToSet(<<>>) = {}
        BY DEF ToSet
      <3> QED  BY <2>1, <2>2, <2>3, <3>1 DEF Scheduled
    <2>6. UpdateInv
      <3>1. family \in 0 .. Len(Families) /\ ~(family > 0) /\ DOMAIN pending = {}
        BY <2>1, NoUpdateIsKnown
      <3> QED  BY <2>1, <2>4, <2>5, <3>1 DEF UpdateInv
    <2>7. heads \in [AllFamilies -> [ToSet(Branches) -> Nat]]
      BY <1>1, ManifestUpdatesAssumption DEF ManifestInit, AllFamilies
    <2> QED  BY <2>1, <2>4, <2>6, <2>7, <2>8 DEF ManifestInv, ProposalInv
  <1>2. ManifestInv /\ [ManifestNext]_manifestVars => ManifestInv'
    BY ManifestStepKept
  <1> QED  BY <1>1, <1>2, PTL DEF ManifestSpec

(* VersionsAreScheduledOnce: each manifest has one nightly build and, if   *)
(* it is OpenSearch's, one snapshot build, except what people took out or  *)
(* left out, which no update brings back; no minor version is incremented  *)
(* twice; and no version is retired and current.                           *)
THEOREM EveryVersionIsScheduledOnce == ManifestSpec => []VersionsAreScheduledOnce
  <1>1. ASSUME ManifestInv PROVE VersionsAreScheduledOnce
    <2> DEFINE entries ==
          UNION {{CronEntry(f, v) : v \in DOMAIN trunk.current[f] \cup trunk.legacy[f]} :
                   f \in ToSet(Families)}
    <2>1. SoundContent(trunk) /\ Scheduled(trunk, dropped)
      BY <1>1 DEF ManifestInv
    <2>2. \A e \in ToSet(trunk.cron) : e \in Entry
      <3>1. trunk.cron \in Seq(Entry)
        BY <2>1 DEF SoundContent
      <3> QED  BY <3>1 DEF ToSet
    <2>3. \A e \in Entry : e = CronEntry(e.family, e.version) /\ e.family \in AllFamilies
      BY DEF Entry, CronEntry
    <2>4. \A e \in ToSet(trunk.cron) : e \in entries /\ e \notin dropped.cron
      <3>1. \A e \in ToSet(trunk.cron) : e.version \in VersionsOf(trunk, e.family)
        BY <2>1 DEF SoundContent
      <3>2. \A e \in ToSet(trunk.cron) : e \in entries
        BY <2>2, <2>3, <3>1 DEF VersionsOf, Versions, AllFamilies
      <3>3. \A e \in ToSet(trunk.cron) : e \notin dropped.cron
        BY <2>1, <2>2, <2>3, <3>1 DEF Scheduled
      <3> QED  BY <3>2, <3>3
    <2>5. \A e \in entries : e \notin dropped.cron => e \in ToSet(trunk.cron)
      BY <2>1 DEF Scheduled, VersionsOf, Versions, AllFamilies
    <2>6. ToSet(trunk.cron) = entries \ dropped.cron
      BY <2>4, <2>5
    <2>7. ToSet(trunk.snapshots) = VersionsOf(trunk, "opensearch") \ dropped.snapshots
      BY <2>1 DEF SoundContent, Scheduled
    <2>8. /\ IsInjective(trunk.cron) /\ IsInjective(trunk.snapshots)
          /\ IsInjective(trunk.increments)
          /\ \A f \in AllFamilies : Versions(trunk, f) \cap trunk.legacy[f] = {}
          /\ \A f \in AllFamilies : \A v \in Versions(trunk, f) :
               Minor(v) \in ToSet(trunk.increments) \cup dropped.increments
      BY <2>1 DEF SoundContent, Scheduled
    <2>9. ToSet(trunk.cron) = entries \ dropped.cron
      BY <2>6
    <2>10. ToSet(trunk.snapshots) =
             (DOMAIN trunk.current["opensearch"] \cup trunk.legacy["opensearch"])
               \ dropped.snapshots
      BY <2>7 DEF VersionsOf, Versions
    <2>11. /\ \A f \in ToSet(Families) : DOMAIN trunk.current[f] \cap trunk.legacy[f] = {}
           /\ \A f \in ToSet(Families) : \A v \in DOMAIN trunk.current[f] :
                Minor(v) \in ToSet(trunk.increments) \cup dropped.increments
      BY <2>8 DEF Versions, AllFamilies
    <2> QED  BY <2>8, <2>9, <2>10, <2>11, Zenon DEF VersionsAreScheduledOnce
  <1> QED  BY <1>1, ManifestsConsistent, PTL
=============================================================================
