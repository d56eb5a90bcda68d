-------------------------- MODULE IncrementalBuild --------------------------
(***************************************************************************)
(* A series of sequential builds into one output directory: full builds    *)
(* and builds with --incremental, which compare the commits of the         *)
(* previous build manifest with the upstream repositories and rebuild what *)
(* changed and what depends on it (build_incremental.py, run_build.py,     *)
(* build_recorder.py).  The repositories move while the builds run.        *)
(***************************************************************************)
EXTENDS Integers, SequencesExt

CONSTANTS
  N,                \* components; 1 is the core engine
  DependsOn,        \* the depends_on entries of the input manifest
  Required,         \* REQUIRED_COMPONENTS
  ContinueOnError,  \* --continue-on-error
  Dashboards,       \* the product is OpenSearch Dashboards
  MaxCommit,        \* bound on the commits of each repository
  MaxVersion        \* bound on the version of the input manifest

Component == 1 .. N
Core == 1

(* Components are listed after what they depend on, as in every manifest   *)
(* of the repository; the core engine is nobody's depends_on entry.        *)
ASSUME IncrementalAssumption ==
  /\ N \in Nat \ {0}
  /\ DependsOn \in [Component -> SUBSET (Component \ {Core})]
  /\ \A c \in Component : \A d \in DependsOn[c] : d < c
  /\ Core \in Required /\ Required \subseteq Component
  /\ ContinueOnError \in BOOLEAN /\ Dashboards \in BOOLEAN
  /\ MaxCommit \in Nat /\ MaxVersion \in Nat

VARIABLES
  listed,     \* the components of the input manifest
  version,    \* its version
  head,       \* the commit each upstream branch points to
  published,  \* manifest.yml of the output directory, NoManifest at first
  recorder,   \* components_hash and build version of the running build
  todo,       \* the components the running build has left; {} when idle
  run,        \* idle, full or incremental
  failures,   \* failed_plugins of the running build
  outcome,    \* how the last build ended
  seen        \* listed, version and head as the last build found them

input == <<listed, version, head>>
build == <<recorder, todo, run, failures>>
vars  == <<input, published, build, outcome, seen>>

Commit == 0 .. MaxCommit
Absent == -1       \* no such entry, no such build

(* What a component is built on: its depends_on entries and the core.      *)
BuiltOn(c) == DependsOn[c] \cup ({Core} \ {c})

(* A manifest entry carries the commit it was built from.  No file records *)
(* `base`, the commits of what it was built on, nor `suspects`, the        *)
(* components that failed and were not rebuilt since.                      *)
NoEntry == [commit |-> Absent, base |-> <<>>]
NewHash == [order |-> <<>>, entry |-> [c \in Component |-> NoEntry]]
Fresh(v) == [version |-> v, hash |-> NewHash, suspects |-> {}]
NoManifest == Fresh(Absent)

Entry(m, c) == m.hash.entry[c]
Names(m) == ToSet(m.hash.order)

Init ==
  /\ listed \in {S \in SUBSET Component : Core \in S}
  /\ version = 0
  /\ head = [c \in Component |-> 0]
  /\ published = NoManifest
  /\ recorder = NoManifest
  /\ todo = {}
  /\ run = "idle"
  /\ failures = {}
  /\ outcome = "none"
  /\ seen = [listed |-> {}, version |-> 0, head |-> head]

-----------------------------------------------------------------------------
(* The world around the builds.                                            *)

PushCommit(c) ==
  /\ head[c] < MaxCommit
  /\ head' = [head EXCEPT ![c] = @ + 1]
  /\ UNCHANGED <<listed, version, published, build, outcome, seen>>

(* The input manifest is edited between builds: a component is added, or   *)
(* the version is incremented.                                             *)
AddToInput(c) ==
  /\ run = "idle"
  /\ c \notin listed
  /\ listed' = listed \cup {c}
  /\ UNCHANGED <<version, head, published, build, outcome, seen>>

IncrementVersion ==
  /\ run = "idle"
  /\ version < MaxVersion
  /\ version' = version + 1
  /\ UNCHANGED <<listed, head, published, build, outcome, seen>>

-----------------------------------------------------------------------------
(* build_incremental.py                                                    *)

(* Fault: only components the previous manifest already lists are compared.*)
ChangedOnly ==
  {c \in listed \cap Names(published) : Entry(published, c).commit # head[c]}

(* commits_diff(): the core engine alone when the version differs; else    *)
(* what is missing from the previous manifest or has another commit.       *)
CommitsDiff ==
  IF published.version # version THEN {Core}
  ELSE {c \in listed : \/ c \notin Names(published)
                       \/ Entry(published, c).commit # head[c]}

(* Fault: only direct dependents are rebuilt.                              *)
RebuildDirect(changed) ==
  IF changed = {} THEN {}
  ELSE IF Core \in changed THEN listed
  ELSE (IF Dashboards THEN {Core} ELSE {}) \cup changed
       \cup {c \in listed : DependsOn[c] \cap changed # {}}

(* rebuild_plugins(): everything for a new core, else the changed and all  *)
(* that transitively depends on them; Dashboards needs its core in any     *)
(* build.                                                                  *)
RebuildPlugins(changed) ==
  LET reached[c \in Component] ==
        c \in listed /\ (c \in changed \/ \E d \in DependsOn[c] : reached[d])
  IN  IF changed = {} THEN {}
      ELSE IF Core \in changed THEN listed
      ELSE (IF Dashboards THEN {Core} ELSE {}) \cup {c \in listed : reached[c]}

-----------------------------------------------------------------------------
(* run_build.py                                                            *)

(* components.select(focus): the next one in the order of the manifest.    *)
NextComponent == Min(todo)

Snapshot == [listed |-> listed, version |-> version, head |-> head]

(* Fault: the incremental recorder starts from an empty hash.              *)
BeginFresh(kind, components, previous) ==
  /\ run' = kind
  /\ todo' = components
  /\ recorder' = Fresh(version)
  /\ failures' = {}

(* BuildRecorder(): an incremental build goes on with the components and   *)
(* the build section of the previous manifest, only its id is new.         *)
Begin(kind, components, previous) ==
  /\ run' = kind
  /\ todo' = components
  /\ recorder' = IF kind = "incremental" THEN previous
                 ELSE Fresh(version)
  /\ failures' = {}

StartFull ==
  /\ run = "idle"
  /\ Begin("full", listed, NoManifest)
  /\ seen' = Snapshot
  /\ outcome' = "running"
  /\ UNCHANGED <<input, published>>

(* Without a previous manifest BuildManifest.from_path() raises; with no   *)
(* difference only the build id of the manifest is rewritten.              *)
StartIncremental ==
  /\ run = "idle"
  /\ seen' = Snapshot
  /\ LET rebuild == RebuildPlugins(CommitsDiff)
     IN  IF published = NoManifest
         THEN outcome' = "error" /\ UNCHANGED build
         ELSE IF rebuild = {}
         THEN outcome' = "skipped" /\ UNCHANGED build
         ELSE outcome' = "running" /\ Begin("incremental", rebuild, published)
  /\ UNCHANGED <<input, published>>

(* Fault: an entry that exists already is kept.                            *)
KeepFirstEntry(m, c) ==
  IF c \in Names(m) THEN m ELSE
  [m EXCEPT
     !.hash.order = Append(@, c),
     !.suspects = @ \ {c},
     !.hash.entry[c] = [commit |-> head[c],
                        base   |-> [d \in BuiltOn(c) |-> Entry(m, d).commit]]]

(* append_component(): a new entry for the checked out commit, in its old  *)
(* place if the hash has the name already, else at the end.                *)
WithComponent(m, c) ==
  [m EXCEPT
     !.hash.order = IF c \in ToSet(@) THEN @ ELSE Append(@, c),
     !.suspects = @ \ {c},
     !.hash.entry[c] = [commit |-> head[c],
                        base   |-> [d \in BuiltOn(c) |-> Entry(m, d).commit]]]

(* checkout(), build() and export_artifacts() of the next component.       *)
BuildSucceeds ==
  /\ run # "idle" /\ todo # {}
  /\ recorder' = WithComponent(recorder, NextComponent)
  /\ todo' = todo \ {NextComponent}
  /\ UNCHANGED <<input, published, run, failures, outcome, seen>>

(* The build script fails, before record_component(), or the export of the *)
(* artifacts, after it.  Tolerated, the loop continues; otherwise the      *)
(* exception ends the run and no manifest is written.                      *)
BuildFails ==
  /\ run # "idle" /\ todo # {}
  /\ LET c == NextComponent
     IN  IF ContinueOnError /\ c \notin Required
         THEN /\ \E m \in {recorder, WithComponent(recorder, c)} :
                   recorder' = [m EXCEPT !.suspects = @ \cup {c}]
              /\ failures' = failures \cup {c}
              /\ todo' = todo \ {c}
              /\ UNCHANGED <<run, outcome>>
         ELSE /\ run' = "idle"
              /\ outcome' = "error"
              /\ todo' = {} /\ recorder' = NoManifest /\ failures' = {}
  /\ UNCHANGED <<input, published, seen>>

(* write_manifest(); with failures the run still returns 0.                *)
Finish ==
  /\ run # "idle" /\ todo = {}
  /\ published' = recorder
  /\ outcome' = IF failures = {} THEN "clean" ELSE "partial"
  /\ run' = "idle"
  /\ recorder' = NoManifest /\ failures' = {}
  /\ UNCHANGED <<input, todo, seen>>

Next ==
  \/ \E c \in Component : PushCommit(c) \/ AddToInput(c)
  \/ IncrementVersion
  \/ StartFull
  \/ StartIncremental
  \/ BuildSucceeds
  \/ BuildFails
  \/ Finish

Spec == Init /\ [][Next]_vars

-----------------------------------------------------------------------------
Reported == outcome \in {"clean", "skipped"}

(* The manifest was built from its own entry of d.                         *)
OnListed(c, d) == Entry(published, c).base[d] = Entry(published, d).commit

(* A build that reports no failure, or that there was nothing to do,       *)
(* leaves a manifest in which every component of its input is at least as  *)
(* new as the build found it: what failed before, was added, or moved      *)
(* while an earlier build ran has been built since.                        *)
ReportedInputIsBuilt ==
  Reported => \A c \in seen.listed :
    c \in Names(published) /\ Entry(published, c).commit >= seen.head[c]

(* The one way to a published component that was not built on what the     *)
(* manifest lists beside it is a failure that --continue-on-error let      *)
(* pass: no series of full and incremental builds, commits, new components *)
(* and new versions produces another.                                      *)
StaleOnlyByFailure ==
  \A c \in Names(published) :
    c \in published.suspects \/ \A d \in BuiltOn(c) \cap Names(published) : OnListed(c, d)

(* As the README of the build workflow has it: a build that reports no     *)
(* failure leaves a manifest in which every component is that new, and was *)
(* built on exactly the commits the manifest names for what it relies on.  *)
ReportedManifestIsFresh ==
  /\ ReportedInputIsBuilt
  /\ Reported => \A c \in seen.listed : \A d \in BuiltOn(c) \cap seen.listed : OnListed(c, d)

(* The previous manifest is the reference of an incremental build: what it *)
(* does not rebuild stays listed exactly as it was, and a build that       *)
(* raises leaves the manifest alone.                                       *)
UnmodifiedComponentsStay ==
  [][published' # published =>
       /\ outcome' \in {"clean", "partial"}
       /\ run = "incremental" =>
            \A c \in Names(published) :
              /\ c \in Names(published')
              /\ Entry(published', c) = Entry(published, c)
                   \/ Entry(published', c).commit >= seen.head[c]]_vars

(* An incremental build finds nothing to do when neither the input nor a   *)
(* repository has changed since the last build started, and that one       *)
(* reported no failure: whatever it rebuilt or kept is on record.          *)
UpToDate == Reported /\ seen = Snapshot

UnchangedInputIsSkipped ==
  [][UpToDate /\ StartIncremental => outcome' = "skipped"]_vars

(* So it does while the manifest carries the version of the input.         *)
UnchangedVersionIsSkipped ==
  [][UpToDate /\ published.version = version /\ StartIncremental
       => outcome' = "skipped"]_vars

=============================================================================
