-------------------------- MODULE ReleasePromotion --------------------------
(***************************************************************************)
(* The promotion of a release candidate (release_promotion.py,             *)
(* release_promotion_plan.py, release-promotion.yml): a graph of jobs that *)
(* copies staging artifacts, package repositories and images to            *)
(* production, with jobs that fail, runs that are cancelled or started     *)
(* again in part, and several runs of one candidate at a time: the         *)
(* workflow has no concurrency group.  To run a whole run again is to      *)
(* dispatch another with its inputs.                                       *)
(***************************************************************************)
EXTENDS Integers, SequencesExt

CONSTANTS
  RepoTypes,      \* of distribution-promote-repos: apt and yum
  Distributions,  \* of distribution-promote-artifacts: tar, zip, rpm, deb
  PromotionRuns,  \* the runs somebody may dispatch
  PromotionInputs, \* the inputs a run is dispatched with
  MaxAttempts     \* bound on dispatches and reruns

OpenSearch == "opensearch"
PromotedProduct == {OpenSearch, "opensearch-dashboards"}

(* The branches of the Publish stage; the architectures of a distribution  *)
(* are one branch here, except that the x64 tar of OpenSearch has a stage  *)
(* of its own, after all the others.                                       *)
RepoStage == PromotedProduct \X RepoTypes
ArtifactStage == PromotedProduct \X Distributions
TarX64 == <<OpenSearch, "tar-x64">>
Stage == RepoStage \cup ArtifactStage \cup {TarX64}

(* What a stage writes: the packages of a repository, or the uploads of    *)
(* upload_plan(): with a tar the core plugins and the minimal distribution *)
(* go before the bundle.                                                   *)
ReposPlan == <<"packages">>
ArtifactsPlan(distribution) ==
  IF distribution \in {"tar", "tar-x64"} THEN <<"core-plugins", "core", "bundle">>
  ELSE <<"bundle">>
UploadPlan(s) == IF s \in RepoStage THEN ReposPlan ELSE ArtifactsPlan(s[2])

PJob == {"parameters", "validate-staging", "promote-repos", "promote-artifacts",
         "publish", "promote-opensearch-tar-x64", "invalidate-cloudfront",
         "promote-docker", "validate-production", "publish-to-maven",
         "publish-to-maven-plan"}
Needs == [j \in PJob |->
  CASE j = "parameters" -> {}
    [] j = "validate-staging" -> {"parameters"}
    [] j \in {"promote-repos", "promote-artifacts"} -> {"parameters", "validate-staging"}
    [] j = "publish" -> {"validate-staging", "promote-repos", "promote-artifacts"}
    [] j = "promote-opensearch-tar-x64" -> {"parameters", "publish"}
    [] j \in {"invalidate-cloudfront", "promote-docker"} ->
         {"parameters", "publish", "promote-opensearch-tar-x64"}
    [] j = "validate-production" ->
         {"parameters", "invalidate-cloudfront", "promote-docker"}
    [] OTHER -> {"parameters", "validate-production"}]
Ancestors[j \in PJob] == Needs[j] \cup UNION {Ancestors[k] : k \in Needs[j]}

(* PROJECTS, which release candidate numbers were entered, the override of *)
(* the image the dry run is validated against, TAG_DOCKER_LATEST.          *)
ASSUME PromotionAssumption ==
  /\ MaxAttempts \in Nat
  /\ PromotionInputs \subseteq
       [projects : (SUBSET PromotedProduct) \ {{}}, rc : SUBSET PromotedProduct,
        override : BOOLEAN, latest : BOOLEAN, dryRun : BOOLEAN]

VARIABLES
  inputs,      \* of each run's dispatch
  result,      \* of each job of a run
  cancelled,   \* the runs somebody cancelled
  left,        \* what each stage of a run has still to write in this attempt
  copies,      \* the image copies promote-docker of a run has left
  production,  \* the objects each stage has written, in any run
  stale,       \* the runs that wrote to a repository since the last invalidation
  tagged,      \* the image tags in the production registries
  maven,       \* the runs that dispatched publish-to-maven
  attempts

stores    == <<production, stale, tagged, maven>>
promoVars == <<inputs, result, cancelled, left, stores, copies, attempts>>

NoInputs == [projects |-> {}, rc |-> {}, override |-> FALSE, latest |-> FALSE,
             dryRun |-> TRUE]

PromoInit ==
  /\ inputs = [r \in PromotionRuns |-> NoInputs]
  /\ result = [r \in PromotionRuns |-> [j \in PJob |-> "skipped"]]
  /\ cancelled = {}
  /\ left = [r \in PromotionRuns |-> [s \in Stage |-> <<>>]]
  /\ copies = [r \in PromotionRuns |-> <<>>]
  /\ production = [s \in Stage |-> {}]
  /\ stale = {}
  /\ tagged = {}
  /\ maven = {}
  /\ attempts = 0

Over(r, j) == result[r][j] \in {"success", "failure", "skipped", "cancelled"}
RunOver(r) == \A j \in PJob : Over(r, j)

(* plan(): the stages of the selected projects, and the docker_plan() of   *)
(* their images: version, major and latest tags on both registries.        *)
Selected(r) == {s \in Stage : s[1] \in inputs[r].projects}
ParameterError(r) ==
  \/ inputs[r].projects \ inputs[r].rc # {}
  \/ inputs[r].override /\ ~inputs[r].dryRun
CopiesTo(in, p, registry) ==
  <<<<p, registry, "version">>, <<p, registry, "major">>>>
    \o IF in.latest THEN <<<<p, registry, "latest">>>> ELSE <<>>
CopiesOf(in, p) ==
  IF p \in in.projects THEN CopiesTo(in, p, "dockerhub") \o CopiesTo(in, p, "ecr") ELSE <<>>
DockerPlan(in) == CopiesOf(in, OpenSearch) \o CopiesOf(in, "opensearch-dashboards")

-----------------------------------------------------------------------------
(* The runs.                                                               *)

Dispatch(r, in) ==
  /\ inputs[r] = NoInputs
  /\ attempts < MaxAttempts
  /\ attempts' = attempts + 1
  /\ inputs' = [inputs EXCEPT ![r] = in]
  /\ result' = [result EXCEPT ![r] = [j \in PJob |-> "waiting"]]
  /\ left' = [left EXCEPT ![r] = [s \in Stage |-> UploadPlan(s)]]
  /\ copies' = [copies EXCEPT ![r] = DockerPlan(in)]
  /\ UNCHANGED <<cancelled, stores>>

(* "Re-run failed jobs", once the run is over, whatever other runs did     *)
(* since: the failed jobs and all that need them run again, within a job   *)
(* only the branches and copies that had not succeeded; a branch that had  *)
(* failed half-way starts over.                                            *)
Unsuccessful(r) == {j \in PJob : result[r][j] \in {"failure", "cancelled"}}
RerunFailed(r) ==
  /\ RunOver(r)
  /\ attempts < MaxAttempts
  /\ Unsuccessful(r) # {}
  /\ attempts' = attempts + 1
  /\ result' = [result EXCEPT ![r] = [j \in PJob |->
                  IF j \in Unsuccessful(r) \/ Ancestors[j] \cap Unsuccessful(r) # {}
                  THEN "waiting" ELSE result[r][j]]]
  /\ cancelled' = cancelled \ {r}
  /\ left' = [left EXCEPT ![r] = [s \in Stage |->
                 IF left[r][s] = <<>> THEN <<>> ELSE UploadPlan(s)]]
  /\ UNCHANGED <<inputs, copies, stores>>

Cancel(r) ==
  /\ ~RunOver(r)
  /\ cancelled' = cancelled \cup {r}
  /\ result' = [result EXCEPT ![r] = [j \in PJob |->
                  IF Over(r, j) THEN result[r][j] ELSE "cancelled"]]
  /\ UNCHANGED <<inputs, left, copies, stores, attempts>>

(* A job without a status function in its `if` runs only when everything   *)
(* before it succeeded; a skipped job ends such a chain like a failed one. *)
Succeeded(r, js) == \A j \in js : result[r][j] = "success"
Condition(r, j) ==
  LET published == /\ r \notin cancelled
                   /\ result[r]["publish"] = "success"
                   /\ result[r]["promote-opensearch-tar-x64"] \in {"success", "skipped"}
      dryRun == inputs[r].dryRun
      opensearch == OpenSearch \in inputs[r].projects
  IN  CASE j = "publish" -> r \notin cancelled
        [] j = "promote-docker" -> published
        [] j = "invalidate-cloudfront" -> published /\ ~dryRun
        [] j = "validate-production" ->
             /\ r \notin cancelled
             /\ result[r]["promote-docker"] = "success"
             /\ \/ result[r]["invalidate-cloudfront"] = "success"
                \/ dryRun /\ result[r]["invalidate-cloudfront"] = "skipped"
        [] j = "promote-opensearch-tar-x64" -> Succeeded(r, Ancestors[j]) /\ opensearch
        [] j = "publish-to-maven" ->
             Succeeded(r, Ancestors[j]) /\ ~dryRun /\ opensearch
        [] j = "publish-to-maven-plan" ->
             Succeeded(r, Ancestors[j]) /\ dryRun /\ opensearch
        [] OTHER -> Succeeded(r, Ancestors[j])

StartJob(r, j) ==
  /\ result[r][j] = "waiting"
  /\ \A k \in Needs[j] : Over(r, k)
  /\ result' = [result EXCEPT ![r][j] = IF Condition(r, j) THEN "running" ELSE "skipped"]
  /\ UNCHANGED <<inputs, cancelled, left, copies, stores, attempts>>

-----------------------------------------------------------------------------
(* The jobs.                                                               *)

EndJob(r, j, outcome) ==
  /\ result[r][j] = "running"
  /\ result' = [result EXCEPT ![r][j] = outcome]
  /\ UNCHANGED <<inputs, cancelled, attempts>>

StageJob(s) ==
  CASE s = TarX64 -> "promote-opensearch-tar-x64"
    [] s \in RepoStage -> "promote-repos"
    [] OTHER -> "promote-artifacts"
StagesOf(r, j) == {s \in Selected(r) : StageJob(s) = j}

(* One more object of a branch is written; the branches run in parallel.   *)
(* Of what a run writes only the repositories are replaced in place and    *)
(* lie under the paths the invalidation clears.                            *)
Upload(r, s) ==
  /\ result[r][StageJob(s)] = "running"
  /\ s \in Selected(r) /\ left[r][s] # <<>> /\ ~inputs[r].dryRun
  /\ left' = [left EXCEPT ![r][s] = Tail(@)]
  /\ production' = [production EXCEPT ![s] = @ \cup {Head(left[r][s])}]
  /\ stale' = IF s \in RepoStage THEN stale \cup {r} ELSE stale
  /\ UNCHANGED <<inputs, result, cancelled, copies, tagged, maven, attempts>>

(* Fault: a branch that failed does not fail the job.                      *)
EndPromotionAnyway(r, j) ==
  /\ j \in {"promote-repos", "promote-artifacts", "promote-opensearch-tar-x64"}
  /\ EndJob(r, j, "success")
  /\ UNCHANGED <<left, copies, stores>>

(* fail-fast is off: the job ends when every branch has ended, and a       *)
(* branch may fail at any object.  In a dry run the branches only plan.    *)
EndPromotion(r, j) ==
  /\ j \in {"promote-repos", "promote-artifacts", "promote-opensearch-tar-x64"}
  /\ \/ /\ inputs[r].dryRun \/ \A s \in StagesOf(r, j) : left[r][s] = <<>>
        /\ EndJob(r, j, "success")
     \/ EndJob(r, j, "failure")
  /\ UNCHANGED <<left, copies, stores>>

(* docker-copy: one copy at a time in the order of the plan, and fail-fast.*)
CopyImage(r) ==
  /\ result[r]["promote-docker"] = "running"
  /\ copies[r] # <<>> /\ ~inputs[r].dryRun
  /\ tagged' = tagged \cup {Head(copies[r])}
  /\ copies' = [copies EXCEPT ![r] = Tail(@)]
  /\ UNCHANGED <<inputs, result, cancelled, left, production, stale, maven, attempts>>

(* Fault: a copy that failed does not fail the job.                        *)
EndDockerAnyway(r) ==
  /\ EndJob(r, "promote-docker", "success")
  /\ UNCHANGED <<left, copies, stores>>

EndDocker(r) ==
  /\ \/ /\ inputs[r].dryRun \/ copies[r] = <<>>
        /\ EndJob(r, "promote-docker", "success")
     \/ EndJob(r, "promote-docker", "failure")
  /\ UNCHANGED <<left, copies, stores>>

(* The paths are those of both products, whichever the run promotes, so    *)
(* what other runs wrote is cleared too, except what they wrote while the  *)
(* invalidation was under way.                                             *)
InvalidateCloudfront(r) ==
  /\ \/ EndJob(r, "invalidate-cloudfront", "success") /\ stale' \in SUBSET (stale \ {r})
     \/ EndJob(r, "invalidate-cloudfront", "failure") /\ UNCHANGED stale
  /\ UNCHANGED <<left, copies, production, tagged, maven>>

DispatchMaven(r) ==
  /\ \/ EndJob(r, "publish-to-maven", "success") /\ maven' = maven \cup {r}
     \/ EndJob(r, "publish-to-maven", "failure") /\ UNCHANGED maven
  /\ UNCHANGED <<left, copies, production, stale, tagged>>

(* The other jobs change nothing outside the run.                          *)
CheckParameters(r) ==
  /\ EndJob(r, "parameters", IF ParameterError(r) THEN "failure" ELSE "success")
  /\ UNCHANGED <<left, copies, stores>>

ValidateArtifacts(r, j) ==
  /\ j \in {"validate-staging", "validate-production"}
  /\ EndJob(r, j, "success") \/ EndJob(r, j, "failure")
  /\ UNCHANGED <<left, copies, stores>>

PublishGate(r) ==
  /\ EndJob(r, "publish", IF /\ Succeeded(r, {"validate-staging"})
                             /\ \A k \in {"promote-repos", "promote-artifacts"} :
                                  result[r][k] \in {"success", "skipped"}
                          THEN "success" ELSE "failure")
  /\ UNCHANGED <<left, copies, stores>>

RunStep(r) ==
  \/ RerunFailed(r) \/ Cancel(r)
  \/ \E j \in PJob : StartJob(r, j) \/ EndPromotion(r, j) \/ ValidateArtifacts(r, j)
  \/ CheckParameters(r) \/ PublishGate(r)
  \/ \E s \in Stage : Upload(r, s)
  \/ CopyImage(r) \/ EndDocker(r) \/ InvalidateCloudfront(r) \/ DispatchMaven(r)

PromoNext ==
  \E r \in PromotionRuns : (\E in \in PromotionInputs : Dispatch(r, in)) \/ RunStep(r)

PromoSpec == PromoInit /\ [][PromoNext]_promoVars

-----------------------------------------------------------------------------
(* Properties.                                                             *)

Complete(p) == \A s \in Stage : s[1] = p => production[s] = ToSet(UploadPlan(s))

(* An image of a product gets a production tag only when all the packages, *)
(* archives and repositories of the product are in production, and latest  *)
(* never moves in a registry before the version is there: through failed   *)
(* branches, reruns of a part of a run, cancellations and other runs.      *)
ImagesFollowPackages ==
  \A t \in tagged : /\ Complete(t[1])
                    /\ <<t[1], t[2], "version">> \in tagged

(* Maven Central cannot be undone: a run reaches it only when everything   *)
(* of the run is in production, on every registry, and the caches over     *)
(* the repositories were cleared after the last object the run wrote       *)
(* there.  Of what other runs write meanwhile this says nothing: no group  *)
(* keeps runs apart, and production may be validated through caches that   *)
(* another run has just made stale.                                        *)
MavenIsLast ==
  [][\A r \in maven' \ maven :
       /\ r \notin stale
       /\ \A p \in inputs[r].projects : Complete(p)
       /\ ToSet(DockerPlan(inputs[r])) \subseteq tagged]_promoVars
=============================================================================
