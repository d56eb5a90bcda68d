---------------------------- MODULE ReleaseNotes ----------------------------
(***************************************************************************)
(* run_releasenotes_check.py: `generate` asks a model for the notes of one *)
(* component after another, from its changelog or from the commits of its  *)
(* branch, whose pages and pull requests are fetched while the branch      *)
(* moves on; `compile` collects what the repositories publish.  The labels *)
(* of a pull request stay as they are while notes are made of it.          *)
(***************************************************************************)
EXTENDS Naturals, Sequences, FiniteSets, SequencesExt

CONSTANTS
  NotesComponents,  \* the components of the manifests, in their order
  NotesRepo,        \* component -> its repository, for which its notes are named
  HasChangelog,     \* the components with a CHANGELOG.md
  CoreComponents,   \* those `compile` passes over
  CommitsOf,        \* repository -> the commits since the date, newest first
  PushedTo,         \* repository -> the commits pushed later
  MessageOf,        \* commit -> the first number its message has in each form: see FirstNamed
  PullsOf,          \* commit -> the pull requests GitHub knows it to be in
  PullRequests,     \* the numbers of pull requests; others are those of issues
  FilteredPRs,      \* the pull requests with a label of filter_commits
  PageSize,         \* commits a page has (100)
  Workers,          \* threads that fetch pull requests (5)
  MaxRetries        \* of a call of the model (3)

ASSUME NotesAssumption ==
  /\ PageSize \in Nat \ {0} /\ Workers \in Nat \ {0} /\ MaxRetries \in Nat
  /\ NotesComponents \in Seq(ToSet(NotesComponents))
  /\ HasChangelog \cup CoreComponents \subseteq ToSet(NotesComponents)
  /\ NotesRepo \in [ToSet(NotesComponents) -> DOMAIN CommitsOf]
  /\ {CommitsOf, PushedTo} \subseteq [DOMAIN CommitsOf -> Seq(DOMAIN MessageOf)]
  /\ PullsOf \in [DOMAIN MessageOf -> Seq(PullRequests)]
  /\ FilteredPRs \subseteq PullRequests /\ "none" \notin PullRequests
  /\ \A r \in DOMAIN CommitsOf :
       /\ IsInjective(CommitsOf[r]) /\ IsInjective(PushedTo[r])
       /\ ToSet(CommitsOf[r]) \cap ToSet(PushedTo[r]) = {}

VARIABLES
  branch,     \* repository -> the commits of its branch, newest first
  generation, \* the run of `generate`: see StartComponent
  tasks,      \* of the commits fetched: "queued", "searching", "asked", "kept" or "filtered"
  prCache,    \* the numbers remembered -> whether there was data
  failed,     \* the positions whose own request failed
  noteFiles,  \* the notes written, by repository: see NotesWritten
  published,  \* the repositories that have them
  compilation \* the run of `compile`: see StartCompile

notesVars ==
  <<branch, generation, tasks, prCache, failed, noteFiles, published, compilation>>

Generate(phase, todo) ==
  [phase |-> phase, todo |-> todo, page |-> 1, before |-> <<>>, fetched |-> <<>>,
   cut |-> FALSE, attempt |-> 0]
EmptyCache == [n \in {} |-> TRUE]

NotesInit ==
  /\ branch = CommitsOf
  /\ generation = Generate("idle", NotesComponents)
  /\ tasks = <<>> /\ failed = {} /\ prCache = EmptyCache
  /\ noteFiles = [f \in {} |-> <<>>] /\ published = {}
  /\ compilation = [phase |-> "idle", todo |-> <<>>, urls |-> {}, sections |-> {}, missed |-> {},
                     before |-> {}]

Component == Head(generation.todo)
InPhase(phase) == generation.phase = phase
OnlyGeneration == UNCHANGED <<branch, tasks, prCache, failed, noteFiles, published, compilation>>

(* A pull request merged while notes are made; later ones are not looked   *)
(* at any more.                                                            *)
PushCommit(r) ==
  /\ generation.todo # <<>> /\ ~InPhase("exit")
  /\ Len(branch[r]) < Len(CommitsOf[r]) + Len(PushedTo[r])
  /\ branch' = [branch EXCEPT ![r] = <<PushedTo[r][Len(@) - Len(CommitsOf[r]) + 1]>> \o @]
  /\ UNCHANGED <<generation, tasks, prCache, failed, noteFiles, published, compilation>>

(* The clone; an exception ends the run, whatever is left to do.           *)
StartComponent ==
  /\ InPhase("idle") /\ generation.todo # <<>>
  /\ \/ generation' = [generation EXCEPT
          !.phase = IF Component \in HasChangelog THEN "model" ELSE "pages",
          !.before = branch[NotesRepo[Component]]]
     \/ generation' = Generate("exit", generation.todo)
  /\ OnlyGeneration

(* What was fetched for a component is not kept for the next.              *)
LeaveComponent(phase, todo) ==
  /\ generation' = Generate(phase, todo)
  /\ tasks' = <<>> /\ failed' = {} /\ prCache' = EmptyCache

(* _make_paginated_request(): the pages are counted from the branch as it  *)
(* is when each is asked for; a request that fails looks like the end.     *)
PageOf(commits, page) ==
  SubSeq(commits, (page - 1) * PageSize + 1, Min({page * PageSize, Len(commits)}))

FetchPage ==
  LET data == PageOf(branch[NotesRepo[Component]], generation.page)
      all == generation.fetched \o data IN
  /\ InPhase("pages")
  /\ \/ generation' = [generation EXCEPT !.fetched = all, !.page = @ + 1,
                         !.phase = IF Len(data) < PageSize THEN "labels" ELSE "pages"]
     \/ generation' = [generation EXCEPT !.phase = "labels", !.cut = TRUE]
  /\ tasks' = IF generation'.phase = "labels"
                THEN [i \in DOMAIN generation'.fetched |-> "queued"] ELSE tasks
  /\ UNCHANGED <<branch, prCache, failed, noteFiles, published, compilation>>

-----------------------------------------------------------------------------
(* _extract_pr_number_from_commit(): the number of a merge, else the first *)
(* in parentheses, else the first there is, whichever else are named.      *)
FirstNamed(k) ==
  LET m == MessageOf[k] IN
  IF m.merge # "none" THEN m.merge ELSE IF m.parens # "none" THEN m.parens ELSE m.other

(* _get_pr_from_commit_api(): the first GitHub tells.                      *)
FirstPull(k) == IF PullsOf[k] = <<>> THEN "none" ELSE Head(PullsOf[k])

(* The number a commit goes by: it need not be that of its pull request.   *)
NumberOf(k) == IF FirstNamed(k) = "none" THEN FirstPull(k) ELSE FirstNamed(k)

CommitAt(i) == generation.fetched[i]
NumberAt(i) == NumberOf(CommitAt(i))
Labelled(i, found) ==
  [tasks EXCEPT ![i] = IF found /\ NumberAt(i) \in FilteredPRs THEN "filtered" ELSE "kept"]

(* A number in the cache, which the threads share, is not asked for again. *)
LookUp(i) ==
  IF NumberAt(i) \in DOMAIN prCache THEN Labelled(i, prCache[NumberAt(i)])
  ELSE [tasks EXCEPT ![i] = "asked"]

(* A thread takes the next commit; a message without a number is searched  *)
(* for by the commit.                                                      *)
ProcessCommit(i) ==
  /\ InPhase("labels") /\ tasks[i] = "queued"
  /\ \A j \in 1 .. i - 1 : tasks[j] # "queued"
  /\ Cardinality({j \in DOMAIN tasks : tasks[j] \in {"searching", "asked"}}) < Workers
  /\ tasks' = IF FirstNamed(CommitAt(i)) = "none" THEN [tasks EXCEPT ![i] = "searching"]
              ELSE LookUp(i)
  /\ UNCHANGED <<branch, generation, prCache, failed, noteFiles, published, compilation>>

(* A search that fails is as one that finds none: the commit is kept.      *)
SearchAnswer(i) ==
  /\ InPhase("labels") /\ tasks[i] = "searching"
  /\ \/ /\ UNCHANGED failed
        /\ tasks' = IF FirstPull(CommitAt(i)) = "none" THEN Labelled(i, FALSE) ELSE LookUp(i)
     \/ failed' = failed \cup {i} /\ tasks' = Labelled(i, FALSE)
  /\ UNCHANGED <<branch, generation, prCache, noteFiles, published, compilation>>

(* Fault: what a failed request returned is remembered too.                *)
RememberAll(n, found) ==
  [m \in DOMAIN prCache \cup {n} |-> IF m = n THEN found ELSE prCache[m]]

Remember(n, found) ==
  IF found THEN [m \in DOMAIN prCache \cup {n} |-> IF m = n THEN TRUE ELSE prCache[m]]
  ELSE prCache

(* The number of an issue is none of a pull request; a commit whose        *)
(* request fails has no labels, and is not filtered.                       *)
PullRequestAnswer(i) ==
  /\ InPhase("labels") /\ tasks[i] = "asked"
  /\ \E found \in BOOLEAN :
       /\ found => NumberAt(i) \in PullRequests
       /\ tasks' = Labelled(i, found)
       /\ prCache' = Remember(NumberAt(i), found)
       /\ failed' = IF found THEN failed ELSE failed \cup {i}
  /\ UNCHANGED <<branch, generation, noteFiles, published, compilation>>

(* Without commits there are no notes; with commits that are all filtered  *)
(* the model is asked all the same.                                        *)
CommitsProcessed ==
  /\ InPhase("labels") /\ \A i \in DOMAIN tasks : tasks[i] \in {"kept", "filtered"}
  /\ IF tasks = <<>> THEN LeaveComponent("idle", Tail(generation.todo))
     ELSE /\ generation' = [generation EXCEPT !.phase = "model"]
          /\ UNCHANGED <<tasks, prCache, failed>>
  /\ UNCHANGED <<branch, noteFiles, published, compilation>>

(* What the property needs to know of a file: the positions of fetched it  *)
(* was made from.                                                          *)
NotesWritten ==
  [of |-> Component, before |-> generation.before, fetched |-> generation.fetched,
   entries |-> {i \in DOMAIN tasks : tasks[i] = "kept"}, failed |-> failed,
   cut |-> generation.cut, after |-> branch[NotesRepo[Component]]]

(* call_bedrock_claude(): what may pass is tried again; anything else ends *)
(* the run.  A text that is empty is not written.                          *)
CallModel ==
  /\ InPhase("model")
  /\ \/ /\ LeaveComponent("idle", Tail(generation.todo))
        /\ \/ UNCHANGED noteFiles
           \/ noteFiles' = [f \in DOMAIN noteFiles \cup {NotesRepo[Component]} |->
                IF f = NotesRepo[Component] THEN NotesWritten ELSE noteFiles[f]]
     \/ /\ generation.attempt < MaxRetries
        /\ generation' = [generation EXCEPT !.attempt = @ + 1]
        /\ UNCHANGED <<tasks, prCache, failed, noteFiles>>
     \/ LeaveComponent("exit", generation.todo) /\ UNCHANGED noteFiles
  /\ UNCHANGED <<branch, published, compilation>>

-----------------------------------------------------------------------------
(* The pull request with the notes is merged by the component's team.      *)
PublishNotes(f) ==
  /\ f \in DOMAIN noteFiles \ published
  /\ published' = published \cup {f}
  /\ UNCHANGED <<branch, generation, tasks, prCache, failed, noteFiles, compilation>>

OnlyCompilation == UNCHANGED <<branch, generation, tasks, prCache, failed, noteFiles, published>>

StartCompile ==
  /\ compilation.phase = "idle"
  /\ InPhase("exit") \/ generation.todo = <<>>
  /\ compilation' = [compilation EXCEPT !.phase = "table", !.todo = NotesComponents,
                                        !.before = published]
  /\ OnlyCompilation

(* Its checkout holds a file of the version in release-notes/.             *)
NotesExist(c) == NotesRepo[c] \in published

(* table(): the clone of each component; its notes' address if it has any. *)
CheckComponent ==
  LET c == Head(compilation.todo) IN
  /\ compilation.phase = "table" /\ compilation.todo # <<>>
  /\ \/ compilation' = [compilation EXCEPT !.todo = Tail(@),
          !.urls = IF c \notin CoreComponents /\ NotesExist(c) THEN @ \cup {NotesRepo[c]}
                   ELSE @]
     \/ c \notin CoreComponents /\ compilation' = [compilation EXCEPT !.phase = "failed"]
  /\ OnlyCompilation

(* The addresses are a set; one that answers with an error, or without     *)
(* headings, is passed over, and an exception ends the run.                *)
FetchNotes(f) ==
  /\ compilation.phase = "table" /\ compilation.todo = <<>>
  /\ f \in compilation.urls
  /\ \/ compilation' = [compilation EXCEPT !.urls = @ \ {f}, !.sections = @ \cup {f}]
     \/ compilation' = [compilation EXCEPT !.urls = @ \ {f}, !.missed = @ \cup {f}]
     \/ compilation' = [compilation EXCEPT !.phase = "failed"]
  /\ OnlyCompilation

WriteCompiled ==
  /\ compilation.phase = "table" /\ compilation.todo = <<>> /\ compilation.urls = {}
  /\ compilation' = [compilation EXCEPT !.phase = "over"]
  /\ OnlyCompilation

NotesNext ==
  \/ \E r \in DOMAIN branch : PushCommit(r)
  \/ StartComponent \/ FetchPage \/ CommitsProcessed \/ CallModel
  \/ \E i \in DOMAIN tasks : ProcessCommit(i) \/ SearchAnswer(i) \/ PullRequestAnswer(i)
  \/ \E f \in DOMAIN noteFiles : PublishNotes(f)
  \/ StartCompile \/ CheckComponent \/ WriteCompiled
  \/ \E f \in compilation.urls : FetchNotes(f)

NotesSpec == NotesInit /\ [][NotesNext]_notesVars

-----------------------------------------------------------------------------
(* Notes made from commits: every commit there was when their pages were   *)
(* first asked for is in them unless the number it goes by has a label to  *)
(* filter or a page failed; one whose number has is in them only when its  *)
(* own request failed, whatever happened to others of the same number; and *)
(* none is in them twice unless the branch moved in between.  What         *)
(* `compile` wrote has the notes of every component that had them when it  *)
(* began, or passed over their address.                                    *)
NotesAreExact ==
  /\ \A f \in DOMAIN noteFiles :
       LET n == noteFiles[f]
           Entered == {n.fetched[i] : i \in n.entries}
           Filtered(k) == NumberOf(k) \in FilteredPRs IN
       n.of \notin HasChangelog =>
         /\ \A i \in DOMAIN n.before :
              Filtered(n.before[i]) \/ n.cut \/ n.before[i] \in Entered
         /\ \A i \in n.entries : Filtered(n.fetched[i]) => i \in n.failed
         /\ (\E i, j \in n.entries : i # j /\ n.fetched[i] = n.fetched[j])
              => n.after # n.before
  /\ compilation.phase = "over" =>
       \A c \in ToSet(NotesComponents) \ CoreComponents :
         NotesRepo[c] \in compilation.before =>
           NotesRepo[c] \in compilation.sections \cup compilation.missed

=============================================================================
