----------------------------- MODULE MCWorkflows -----------------------------
(***************************************************************************)
(* The release and maintenance workflows on small instances.  They share   *)
(* no state: each behaviour is one of the system `active` names, chosen    *)
(* at the start, and leaves the variables of the others alone.             *)
(***************************************************************************)
EXTENDS ReleaseRefs, ReleasePromotion, ReleaseChores, ResultIssues,
        ManifestUpdates, BenchmarkRun, ValidationRun, SignRun, ReleaseNotes,
        MCBuildNumbers

VARIABLE active

(* Of the issues, those of one kind at a time: no two kinds share a title. *)
Systems ==
  {"refs", "promotion", "chores", "manifests", "benchmark", "validation", "signing", "notes",
   "numbers"}
    \cup IssueKind

(* ReleaseRefs: a repository with one component, and one with a component  *)
(* of each product.                                                        *)
MCComponents == <<"core", "ftos", "ftosd">>
MCRepositoryOf == [core |-> "core", ftos |-> "ft", ftosd |-> "ft"]
MCProductOf == [core |-> "os", ftos |-> "os", ftosd |-> "osd"]

(* ReleasePromotion: both products, each alone, a dry run, a missing       *)
(* release candidate number; two runs side by side promote OpenSearch, and *)
(* one of them may fail.                                                   *)
Promote(ps, latest, dry) ==
  [projects |-> ps, rc |-> ps, override |-> dry, latest |-> latest, dryRun |-> dry]
MCPromotionInputs ==
  {Promote(ps, TRUE, FALSE) :
     ps \in {PromotedProduct, {OpenSearch}, {"opensearch-dashboards"}}}
  \cup {Promote(PromotedProduct, FALSE, TRUE),
        [Promote(PromotedProduct, FALSE, FALSE) EXCEPT !.rc = {OpenSearch}],
        Promote({OpenSearch}, FALSE, FALSE)}
MCSideBySide(of) ==
  \/ \A r, q \in PromotionRuns : NoInputs \in {of[r], of[q]} \/ r = q
  \/ \A r \in PromotionRuns : of[r] \in {NoInputs, Promote({OpenSearch}, FALSE, FALSE)}
MCOneFails(of) ==
  \A j \in PJob : of[1][j] \notin {"failure", "cancelled"}

MCChoreComponents == <<"core", "functionalTestDashboards">>

(* ManifestUpdates: main is 3.8.0 and becomes 3.9.0; the 3.8 branch gets   *)
(* its first patch.                                                        *)
MCFamilies == <<"opensearch", "opensearch-dashboards">>
MCBranches == <<"3.8", "main">>
MCMinorOf == [b \in ToSet(MCBranches) |-> IF b = "main" THEN 0 ELSE 38]
MCFirstVersion == [b \in ToSet(MCBranches) |-> 380]
MCLastVersion == [b \in ToSet(MCBranches) |-> IF b = "main" THEN 390 ELSE 381]

(* Of two changes people make, both to OpenSearch, the second retires a    *)
(* version; the branches of Dashboards are bumped after OpenSearch's.      *)
MCEdited ==
  /\ edits' # edits /\ edits > 0 => trunk'.legacy # trunk.legacy
  /\ edits' # edits => trunk'.current["opensearch-dashboards"]
                         = trunk.current["opensearch-dashboards"]
  /\ \A e \in dropped'.cron : e.family = "opensearch"
  /\ \A b \in ToSet(MCBranches) : heads'["opensearch-dashboards"][b] <= heads'["opensearch"][b]

(* BenchmarkRun: a bundle with security, a preserved stack without a       *)
(* manifest, a given endpoint, two replicating clusters; by hand and       *)
(* without a suffix, the bundle, and the bundle on replicating clusters.   *)
(* Only the job without security repeats its benchmark, and an app's       *)
(* cluster comes after its other stacks.                                   *)
NoBenchmark == [suffix |-> TRUE, bundle |-> FALSE, security |-> FALSE, preserve |-> FALSE,
                endpoint |-> FALSE, ccr |-> FALSE]
MCOneRepeats(of) == {r \in DOMAIN of : of[r].executions > 1} \subseteq {"insecure"}
MCClusterLast(there) ==
  \A s \in there : s.part = "infra" => [s EXCEPT !.part = "other"] \in there
MCBenchRequests ==
  {[NoBenchmark EXCEPT !.bundle = TRUE, !.security = TRUE],
   [NoBenchmark EXCEPT !.preserve = TRUE],
   [NoBenchmark EXCEPT !.endpoint = TRUE],
   [NoBenchmark EXCEPT !.ccr = TRUE],
   [NoBenchmark EXCEPT !.suffix = FALSE, !.bundle = TRUE, !.security = TRUE],
   [NoBenchmark EXCEPT !.suffix = FALSE, !.bundle = TRUE, !.security = TRUE, !.ccr = TRUE]}

(* ValidationRun: an archive, a package of each kind, containers   *)
(* from two registries, and their digests alone.                           *)
Validate(dist, native, digest, sources) ==
  [dist |-> dist, projects |-> <<"opensearch", "opensearch-dashboards">>,
   native |-> native, digest |-> digest, sources |-> sources]
MCValidationRequests ==
  {Validate("tar", TRUE, FALSE, <<>>), Validate("zip", FALSE, FALSE, <<>>),
   Validate("rpm", FALSE, FALSE, <<>>), Validate("yum", FALSE, FALSE, <<>>),
   Validate("deb", TRUE, FALSE, <<>>),
   Validate("docker", TRUE, FALSE, <<"dockerhub", "ecr">>),
   Validate("docker", FALSE, TRUE, <<"dockerhub", "ecr">>)}

(* SignRun: a .jar, which two signers accept, and a .tar.gz.               *)
Sign(platform, sigtype, overwrite, directory, named) ==
  [platform |-> platform, sigtype |-> sigtype, overwrite |-> overwrite,
   directory |-> directory, named |-> named]
MCSignRequests ==
  {Sign("linux", ".sig", FALSE, TRUE, {}), Sign("linux", ".asc", TRUE, FALSE, {"j", "t"}),
   Sign("linux", ".sig", TRUE, FALSE, {"j"}),
   Sign("jar_signer", ".sig", FALSE, TRUE, {}), Sign("jar_signer", ".sig", TRUE, FALSE, {"j"})}
MCTypeOf == [j |-> "jar", t |-> "tar"]

(* ReleaseNotes: a component with a changelog, two of one repository whose *)
(* first page is full: a commit that names another's pull request before   *)
(* its own ("... (#1) (#2)"), one without a number, and one that names an  *)
(* issue; one of no pull request is pushed later.                          *)
MCNotesComponents == <<"core", "noti", "notiCore">>
MCNotesRepo == [core |-> "r0", noti |-> "r1", notiCore |-> "r1"]
MCCommitsOf == [r0 |-> <<>>, r1 |-> <<"k2", "k1", "k3">>]
MCPushedTo == [r0 |-> <<>>, r1 |-> <<"k4">>]
MCMessage(merge, parens, other) == [merge |-> merge, parens |-> parens, other |-> other]
MCMessageOf ==
  [k1 |-> MCMessage("none", "none", "none"), k2 |-> MCMessage("none", "1", "1"),
   k3 |-> MCMessage("none", "none", "9"), k4 |-> MCMessage("none", "none", "none")]
MCPullsOf == [k1 |-> <<"1">>, k2 |-> <<"2">>, k3 |-> <<"2">>, k4 |-> <<>>]

MCTwoFail(positions) == Cardinality(positions) <= 2

WorkflowsInit ==
  /\ active \in Systems
  /\ RefsInit /\ PromoInit /\ ChoreInit /\ IssuesInit /\ ManifestInit /\ BenchInit
  /\ ValidationInit /\ SignInit /\ NotesInit /\ NumbersInit
  /\ active # "numbers" => runNumber = [w \in WorkflowFiles |-> 0]

WorkflowsNext ==
  /\ UNCHANGED active
  /\ \/ /\ active = "refs" /\ RefsNext
        /\ UNCHANGED <<promoVars, choreVars, issueVars, manifestVars,
                       benchVars, validationVars, signVars, notesVars, numberVars>>
     \/ /\ active = "promotion" /\ PromoNext /\ MCSideBySide(inputs') /\ MCOneFails(result')
        /\ UNCHANGED <<refsVars, choreVars, issueVars, manifestVars,
                       benchVars, validationVars, signVars, notesVars, numberVars>>
     \/ /\ active = "chores" /\ ChoreNext
        /\ UNCHANGED <<refsVars, promoVars, issueVars, manifestVars,
                       benchVars, validationVars, signVars, notesVars, numberVars>>
     \/ /\ active \in IssueKind /\ IssuesNext
        /\ \A n \in Notifiers : notifier'[n] = NoNotifier \/ notifier'[n].kind = active
        /\ UNCHANGED <<refsVars, promoVars, choreVars, manifestVars,
                       benchVars, validationVars, signVars, notesVars, numberVars>>
     \/ /\ active = "manifests" /\ ManifestNext /\ MCEdited
        /\ UNCHANGED <<refsVars, promoVars, choreVars, issueVars,
                       benchVars, validationVars, signVars, notesVars, numberVars>>
     \/ /\ active = "benchmark" /\ BenchNext /\ MCOneRepeats(jobs') /\ MCClusterLast(stacks')
        /\ UNCHANGED <<refsVars, promoVars, choreVars, issueVars,
                       manifestVars, validationVars, signVars, notesVars, numberVars>>
     \/ /\ active = "validation" /\ ValidationNext
        /\ UNCHANGED <<refsVars, promoVars, choreVars, issueVars,
                       manifestVars, benchVars, signVars, notesVars, numberVars>>
     \/ /\ active = "signing" /\ SignNext
        /\ UNCHANGED <<refsVars, promoVars, choreVars, issueVars,
                       manifestVars, benchVars, validationVars, notesVars, numberVars>>
     \/ /\ active = "notes" /\ NotesNext /\ MCTwoFail(failed')
        /\ UNCHANGED <<refsVars, promoVars, choreVars, issueVars,
                       manifestVars, benchVars, validationVars, signVars, numberVars>>
     \/ /\ active = "numbers" /\ NumbersNext
        /\ UNCHANGED <<refsVars, promoVars, choreVars, issueVars,
                       manifestVars, benchVars, validationVars, signVars, notesVars>>

=============================================================================
