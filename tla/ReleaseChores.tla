---------------------------- MODULE ReleaseChores ----------------------------
(***************************************************************************)
(* The chores of a release manager (release_chores.py): comments and       *)
(* assignments on the release issues, release candidate builds, and the    *)
(* pull requests with the release notes.  A chore acts on what the metrics *)
(* cluster had indexed, one component after the other, while builds end,   *)
(* the index follows, and people merge and close pull requests.            *)
(***************************************************************************)
EXTENDS Integers, SequencesExt

CONSTANTS
  ChoreComponents,  \* in manifest order
  Maintainers,
  NoIssue,          \* components without a release issue in the metrics
  MaxBuilds,        \* bound on the release candidate builds
  MaxNotes,         \* bound on the versions of the generated notes
  MaxChores         \* bound on the chores run

ChoreComponent == ToSet(ChoreComponents)
ChoreProduct == {"opensearch", "opensearch-dashboards"}
NoDocument == {"no document"}
Compiled == "compiled"   \* the consolidated notes, kept in this repository

ActionsOf(name) ==
  CASE name = "release-owners" -> {"check", "request", "assign"}
    [] name \in {"doc-issues", "code-coverage", "release-notes"} -> {"check", "notify"}
    [] name \in {"doc-prs", "integ-overview"} -> {"check"}
    [] name = "release-issues" -> {"check", "create"}
    [] name = "rc-details" -> {"add"}
    [] name = "build-rc" -> ChoreProduct \cup {"both"}

(* notes_matrix(): the components with release notes of their own.         *)
NotesSkipped == {"notifications-core", "functionalTestDashboards"}
NotesMatrix == {c \in ChoreComponent : c \notin NotesSkipped}
Noted == NotesMatrix \cup {Compiled}

ASSUME ChoresAssumption ==
  /\ ChoreComponents \in Seq(ToSet(ChoreComponents))
  /\ NoDocument \cap Maintainers = {}
  /\ NoIssue \subseteq ChoreComponent
  /\ MaxBuilds \in Nat /\ MaxNotes \in Nat /\ MaxChores \in Nat

VARIABLES
  chore,      \* the running chore, its steps left and how it ended
  assignees,  \* of the release issue of each component
  told,       \* who a comment on the issue named as its owner
  indexed,    \* the owners in the newest metrics document
  commented,  \* what the last notifying chore has commented on
  builds,     \* the release candidate builds, in the order of their numbers
  generated,  \* the newest generated notes of each component
  committed,  \* the notes on its release branch
  pushed,     \* the notes on the branch of the notes pull request
  openPR,     \* it is open
  declined,   \* the notes it held when somebody closed it during the last notes chore
  chores

people    == <<assignees, told, indexed, commented>>
notes     == <<generated, committed, pushed, openPR, declined>>
choreVars == <<chore, people, builds, notes, chores>>

Idle == [name |-> "none", action |-> "", todo |-> <<>>, state |-> "success",
         flagged |-> <<>>]

ChoreInit ==
  /\ chore = Idle
  /\ assignees = [c \in ChoreComponent |-> {}]
  /\ told = [c \in ChoreComponent |-> {}]
  /\ indexed = [c \in ChoreComponent |-> NoDocument]
  /\ commented = {}
  /\ builds = <<>>
  /\ generated = [c \in Noted |-> 1]
  /\ committed = [c \in Noted |-> 0]
  /\ pushed = [c \in Noted |-> 0]
  /\ openPR = [c \in Noted |-> FALSE]
  /\ declined = [c \in Noted |-> 0]
  /\ chores = 0

-----------------------------------------------------------------------------
(* The world around the chores.                                            *)

IndexOwners(c) ==
  /\ indexed' = [indexed EXCEPT ![c] = assignees[c]]
  /\ UNCHANGED <<chore, assignees, told, commented, builds, notes, chores>>

(* A build enters the results when it ends; until then it has no result.   *)
BuildEnds(i) ==
  /\ i \in DOMAIN builds /\ builds[i].result = "running"
  /\ \E r \in {"SUCCESS", "FAILURE"} :
       builds' = [builds EXCEPT ![i].result = r]
  /\ UNCHANGED <<chore, people, notes, chores>>

(* Another run of the generator, or of the compilation, with other notes.  *)
GenerateNotes(c) ==
  /\ chore.state # "running"
  /\ generated[c] < MaxNotes
  /\ generated' = [generated EXCEPT ![c] = @ + 1]
  /\ chore' = Idle
  /\ UNCHANGED <<people, builds, committed, pushed, openPR, declined, chores>>

MergePR(c) ==
  /\ openPR[c]
  /\ committed' = [committed EXCEPT ![c] = pushed[c]]
  /\ openPR' = [openPR EXCEPT ![c] = FALSE]
  /\ UNCHANGED <<chore, people, builds, generated, pushed, declined, chores>>

(* Somebody closes the pull request without merging it.                    *)
ClosePR(c) ==
  /\ openPR[c]
  /\ openPR' = [openPR EXCEPT ![c] = FALSE]
  /\ declined' = [declined EXCEPT ![c] = pushed[c]]
  /\ UNCHANGED <<chore, people, builds, generated, committed, pushed, chores>>

-----------------------------------------------------------------------------
(* Chores.run() and main(): one chore at a time; a step is <<c, what>>, or *)
(* <<c, what, whom>>.                                                      *)

Begin(name, action, todo) ==
  /\ chore.state # "running"
  /\ chores < MaxChores
  /\ chores' = chores + 1
  /\ chore' = [name |-> name, action |-> action, todo |-> todo,
               state |-> "running", flagged |-> todo]

(* One step for each component of S, in the order of the manifests.        *)
Steps(S, what) ==
  LET places == {i \in DOMAIN ChoreComponents : ChoreComponents[i] \in S}
      Place(k) == CHOOSE i \in places : Cardinality({j \in places : j <= i}) = k
  IN  [k \in 1 .. Cardinality(places) |-> <<ChoreComponents[Place(k)], what>>]

Step(what) == chore.state = "running" /\ chore.todo # <<>> /\ Head(chore.todo)[2] = what
Done == chore' = [chore EXCEPT !.todo = Tail(@)]
Fails == chore' = [chore EXCEPT !.state = "failure"]

(* Any read or write can fail, and ends the chore where it is.             *)
ChoreFails ==
  /\ chore.state = "running" /\ Fails
  /\ UNCHANGED <<people, builds, notes, chores>>

ChoreEnds ==
  /\ chore.state = "running" /\ chore.todo = <<>>
  /\ chore' = [chore EXCEPT !.state = "success"]
  /\ UNCHANGED <<people, builds, notes, chores>>

(* release_owners(): the owners are read component by component; check     *)
(* only reads.                                                             *)
BeginOwners(action) ==
  /\ Begin("release-owners", action, Steps(ChoreComponent, "owner"))
  /\ UNCHANGED <<people, builds, notes>>

(* A component without a document has an unknown owner and is left alone.  *)
ReadOwner ==
  /\ Step("owner")
  /\ LET c == Head(chore.todo)[1]
     IN  chore' = [chore EXCEPT !.todo =
           IF indexed[c] = {} /\ chore.action # "check"
           THEN <<<<c, "tell">>>> \o Tail(@) ELSE Tail(@)]
  /\ UNCHANGED <<people, builds, notes, chores>>

(* release_issue(): none was recorded, or the read failed.                 *)
IssueRead(c) == {FALSE} \cup (IF c \in NoIssue THEN {} ELSE {TRUE})

(* maintainers(): a read that fails is the same as no maintainers.         *)
MaintainersRead == {{}, Maintainers}

(* _handle_missing_owner(): the owner is announced, then assigned; without *)
(* maintainers the component is passed over, without an issue to comment   *)
(* on the chore ends.                                                      *)
TellOwner ==
  /\ Step("tell")
  /\ LET c == Head(chore.todo)[1]
     IN  \E ms \in MaintainersRead, issue \in IssueRead(c) :
           \/ ms = {} /\ Done /\ UNCHANGED told
           \/ ms # {} /\ ~issue /\ Fails /\ UNCHANGED told
           \/ \E m \in ms :
                /\ issue
                /\ told' = [told EXCEPT ![c] = @ \cup {m}]
                /\ chore' = [chore EXCEPT !.todo =
                     IF chore.action = "request" THEN Tail(@)
                     ELSE <<<<c, "assign", m>>>> \o Tail(@)]
  /\ UNCHANGED <<assignees, indexed, commented, builds, notes, chores>>

AssignOwner ==
  /\ Step("assign")
  /\ assignees' = [assignees EXCEPT ![Head(chore.todo)[1]] = @ \cup {Head(chore.todo)[3]}]
  /\ Done
  /\ UNCHANGED <<told, indexed, commented, builds, notes, chores>>

(* The chores that comment on the issue of every member S of a report when *)
(* their action is notify.                                                 *)
BeginNotify(name, action, S) ==
  /\ Begin(name, action, IF action = "notify" THEN Steps(S, "notify") ELSE <<>>)
  /\ commented' = {}
  /\ UNCHANGED <<assignees, told, indexed, builds, notes>>

(* doc_issues(): the issues of the documentation site without a linked     *)
(* pull request (here one per component), each commented on directly.      *)
DocIssues(action, S) == BeginNotify("doc-issues", action, S)

(* code_coverage(): a coverage that cannot be read is not in the report.   *)
CoverageRead == {"no-coverage", "covered", "unread"}
CodeCoverage(action) ==
  \E state \in [ChoreComponent -> CoverageRead] :
    BeginNotify("code-coverage", action, {c \in ChoreComponent : state[c] = "no-coverage"})

(* release_notes(): the rows without notes, all but one component's.       *)
MissingRows(status) == {c \in ChoreComponent : ~status[c]}
CheckNotes(action) ==
  \E status \in [ChoreComponent -> BOOLEAN] :
    BeginNotify("release-notes", action, MissingRows(status) \ {"functionalTestDashboards"})

(* Fault: a component without an issue is passed over.                     *)
NotifyOrSkip ==
  /\ Step("notify")
  /\ LET c == Head(chore.todo)[1]
     IN  Done /\ commented' = IF c \in NoIssue THEN commented ELSE commented \cup {c}
  /\ UNCHANGED <<assignees, told, indexed, builds, notes, chores>>

(* A component without a release issue, or whose issue could not be read,  *)
(* ends the chore.                                                         *)
Notify ==
  /\ Step("notify")
  /\ LET c == Head(chore.todo)[1]
     IN  \E issue \in IF chore.name = "doc-issues" THEN {TRUE} ELSE IssueRead(c) :
           IF issue THEN Done /\ commented' = commented \cup {c}
                    ELSE Fails /\ UNCHANGED commented
  /\ UNCHANGED <<assignees, told, indexed, builds, notes, chores>>

(* doc_prs() only reports.                                                 *)
DocPRs ==
  /\ Begin("doc-prs", "check", <<>>)
  /\ UNCHANGED <<people, builds, notes>>

(* release_issues(): an issue that is unknown counts as missing; the two   *)
(* workflows that create the issues are dispatched one after the other.    *)
MissingIssues == {c \in ChoreComponent : FALSE \in IssueRead(c)}
ReleaseIssues(action) ==
  \E S \in SUBSET MissingIssues :
    /\ NoIssue \subseteq S
    /\ Begin("release-issues", action,
             IF action = "create" /\ S # {}
             THEN <<<<"opensearch", "dispatch">>, <<"opensearch-dashboards", "dispatch">>>>
             ELSE <<>>)
    /\ UNCHANGED <<people, builds, notes>>

-----------------------------------------------------------------------------
(* Release candidates.                                                     *)

Numbers(p, results) ==
  {builds[i].rc : i \in {j \in DOMAIN builds : builds[j].product = p
                                               /\ builds[j].result \in results}}
(* Fault: the newest build counts, whatever its result.                    *)
LatestEnded(p) ==
  LET ended == {i \in DOMAIN builds : builds[i].product = p /\ builds[i].result # "running"}
  IN  IF ended = {} THEN 0
      ELSE builds[CHOOSE i \in ended : \A j \in ended : j <= i].rc

LatestRC(p) ==
  LET ended == {i \in DOMAIN builds : builds[i].product = p /\ builds[i].result = "SUCCESS"}
  IN  IF ended = {} THEN 0
      ELSE builds[CHOOSE i \in ended : \A j \in ended : j <= i].rc

(* build_rc(): both numbers are read first; then one dispatch after the    *)
(* other, each with the number after the one that was read.                *)
BeginBuildRC(action) ==
  /\ LET products == IF action = "both" THEN <<"opensearch", "opensearch-dashboards">>
                     ELSE <<action>>
     IN  Begin("build-rc", action, [i \in DOMAIN products |->
                                     <<LatestRC(products[i]) + 1, products[i]>>])
  /\ UNCHANGED <<people, builds, notes>>

(* integ_overview(): needs a successful candidate of both products; then   *)
(* the failed components are read, one cell of the matrix after the other. *)
IntegOverview ==
  /\ Begin("integ-overview", "check", <<<<"", "numbers">>, <<"", "read">>>>)
  /\ UNCHANGED <<people, builds, notes>>

(* rc_details(): the numbers may be given instead; the comment names the   *)
(* newest build of each number.                                            *)
RCDetails(given) ==
  /\ Begin("rc-details", "add",
           (IF given THEN <<>> ELSE <<<<"", "numbers">>>>)
             \o <<<<"opensearch", "build">>, <<"opensearch-dashboards", "build">>,
                  <<"", "announce">>>>)
  /\ UNCHANGED <<people, builds, notes>>

ReadNumbers ==
  /\ Step("numbers")
  /\ IF \E p \in ChoreProduct : LatestRC(p) = 0 THEN Fails ELSE Done
  /\ UNCHANGED <<people, builds, notes, chores>>

(* rc_distribution_number(): a number without a build ends the chore.      *)
ReadBuild ==
  /\ Step("build")
  /\ IF \E i \in DOMAIN builds : /\ builds[i].product = Head(chore.todo)[1]
                                 /\ builds[i].result # "running"
     THEN Done ELSE Fails
  /\ UNCHANGED <<people, builds, notes, chores>>

(* failed_integ_components(): only reported.                               *)
ReadResults ==
  /\ Step("read")
  /\ Done
  /\ UNCHANGED <<people, builds, notes, chores>>

(* A comment or a dispatch that no other chore reads.                      *)
Announce ==
  /\ Step("announce") \/ Step("dispatch")
  /\ Done
  /\ UNCHANGED <<people, builds, notes, chores>>

TriggerBuild ==
  /\ \E p \in ChoreProduct : Step(p)
  /\ Len(builds) < MaxBuilds
  /\ builds' = Append(builds, [product |-> Head(chore.todo)[2],
                               rc |-> Head(chore.todo)[1], result |-> "running"])
  /\ Done
  /\ UNCHANGED <<people, notes, chores>>

-----------------------------------------------------------------------------
(* notes_pr() and notes_compiled_pr().                                     *)

(* Without a change nothing is written.                                    *)
NotesSteps(c) ==
  IF committed[c] = generated[c] THEN <<>> ELSE <<<<c, "push">>, <<c, "pr">>>>

(* Clone and compare; notes whose base is a tag end the chore.             *)
BeginNotes(c) ==
  /\ Begin("notes-pr", "", NotesSteps(c))
  /\ declined' = [declined EXCEPT ![c] = 0]
  /\ UNCHANGED <<people, builds, generated, committed, pushed, openPR>>

(* notes_compiled_pr(): the same for the consolidated notes.               *)
BeginCompiled == BeginNotes(Compiled)

(* The forced push of the branch; an open pull request shows it at once.   *)
PushNotes ==
  /\ Step("push")
  /\ pushed' = [pushed EXCEPT ![Head(chore.todo)[1]] = generated[Head(chore.todo)[1]]]
  /\ Done
  /\ UNCHANGED <<people, builds, generated, committed, openPR, declined, chores>>

(* Fault: a pull request that was merged is found as well.                 *)
LookUpAnyPR ==
  /\ Step("pr")
  /\ LET c == Head(chore.todo)[1]
     IN  chore' = [chore EXCEPT !.todo =
           <<<<c, IF openPR[c] \/ committed[c] # 0 THEN "edit" ELSE "create">>>> \o Tail(@)]
  /\ UNCHANGED <<people, builds, notes, chores>>

(* The open pull request is looked up after the push: it is edited when    *)
(* there is one, else one is opened.  One opened without a difference is   *)
(* refused.  The edit only changes the text, of a pull request that was    *)
(* merged or closed meanwhile too.                                         *)
LookUpPR ==
  /\ Step("pr")
  /\ LET c == Head(chore.todo)[1]
     IN  chore' = [chore EXCEPT !.todo =
           <<<<c, IF openPR[c] THEN "edit" ELSE "create">>>> \o Tail(@)]
  /\ UNCHANGED <<people, builds, notes, chores>>

EditPR ==
  /\ Step("edit")
  /\ Done
  /\ UNCHANGED <<people, builds, notes, chores>>

CreatePR ==
  /\ Step("create")
  /\ LET c == Head(chore.todo)[1]
     IN  IF openPR[c] \/ pushed[c] = committed[c]
         THEN Fails /\ UNCHANGED openPR
         ELSE Done /\ openPR' = [openPR EXCEPT ![c] = TRUE]
  /\ UNCHANGED <<people, builds, generated, committed, pushed, declined, chores>>

-----------------------------------------------------------------------------
ChoreWorld ==
  \/ \E c \in ChoreComponent : IndexOwners(c)
  \/ \E c \in Noted : GenerateNotes(c) \/ MergePR(c) \/ ClosePR(c)
  \/ \E i \in 1 .. MaxBuilds : BuildEnds(i)

ChoreNext ==
  \/ ChoreWorld
  \/ \E action \in ActionsOf("release-owners") : BeginOwners(action)
  \/ \E action \in ActionsOf("doc-issues"), S \in SUBSET ChoreComponent : DocIssues(action, S)
  \/ \E action \in ActionsOf("code-coverage") : CodeCoverage(action)
  \/ \E action \in ActionsOf("release-notes") : CheckNotes(action)
  \/ \E action \in ActionsOf("release-issues") : ReleaseIssues(action)
  \/ \E action \in ActionsOf("build-rc") : BeginBuildRC(action)
  \/ DocPRs \/ IntegOverview \/ RCDetails(TRUE) \/ RCDetails(FALSE)
  \/ \E c \in NotesMatrix : BeginNotes(c)
  \/ BeginCompiled
  \/ ReadOwner \/ TellOwner \/ AssignOwner \/ Notify \/ TriggerBuild
  \/ ReadNumbers \/ ReadBuild \/ ReadResults \/ Announce
  \/ PushNotes \/ LookUpPR \/ EditPR \/ CreatePR
  \/ ChoreFails \/ ChoreEnds

ChoreSpec == ChoreInit /\ [][ChoreNext]_choreVars

-----------------------------------------------------------------------------
(* Properties.                                                             *)

(* A notify chore that reports success has told every component of its     *)
(* report, and every owner that was assigned had been announced on the     *)
(* issue: a component whose issue is unknown is not dropped silently.      *)
EveryoneIsTold ==
  /\ chore.action = "notify" /\ chore.state = "success"
       => {chore.flagged[i][1] : i \in DOMAIN chore.flagged} \subseteq commented
  /\ \A c \in ChoreComponent : assignees[c] \subseteq told[c]

(* The numbers of the release candidates have no gap: each but the first   *)
(* follows one that succeeded, whatever was dispatched, still ran or had   *)
(* failed when the number was read.                                        *)
CandidatesFollowSuccess ==
  \A i \in DOMAIN builds :
    builds[i].rc > 1 => builds[i].rc - 1 \in Numbers(builds[i].product, {"SUCCESS"})

(* When the notes chore of a component succeeds, its notes are on the      *)
(* release branch or in an open pull request, or somebody has seen them in *)
(* one and closed it while the chore ran or later: although pull requests  *)
(* are merged and closed between any two steps of the chore and earlier    *)
(* runs stopped half-way.                                                  *)
NotesArrive ==
  chore.name = "notes-pr" /\ chore.state = "success" /\ chore.flagged # <<>>
    => LET c == chore.flagged[1][1]
       IN  \/ committed[c] = generated[c]
           \/ openPR[c] /\ pushed[c] = generated[c]
           \/ declined[c] = generated[c]
=============================================================================
