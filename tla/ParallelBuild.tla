---------------------------- MODULE ParallelBuild ----------------------------
(***************************************************************************)
(* run_build.py with --parallel: the core engine is built first, by the    *)
(* main thread; the other selected components are built by the BuildGraph; *)
(* all of them report to one BuildRecorder, whose components_hash becomes  *)
(* the build manifest if the run gets as far as write_manifest().          *)
(*                                                                         *)
(* A build is a build.sh run, the record_component() that follows it, and  *)
(* one record_artifact() per file of the artifacts directory.  Anything in *)
(* it may raise: the script, the artifact check, the copy.                 *)
(***************************************************************************)
EXTENDS BuildGraph, SequencesExt

CONSTANTS
  Artifacts      \* number of files a build exports (the first one of them is
                 \* the distribution or plugin archive)

ASSUME ArtifactsAssumption == Artifacts \in Nat \ {0}

Core == 0        \* the component named like the build
Selected == Component \cup {Core}

VARIABLES
  coreSelected,    \* core_name in component_map
  stage,           \* of run_build.main(): core, graph, finish, done or error
  componentsHash,  \* the keys of components_hash, in insertion order
  exported         \* how many artifacts append_artifact() listed for each

recorder  == <<componentsHash, exported>>
buildVars == <<vars, coreSelected, stage, recorder>>

BuildInit ==
  /\ Init
  /\ coreSelected \in BOOLEAN
  /\ stage = IF coreSelected THEN "core" ELSE "graph"
  /\ componentsHash = <<>>
  /\ exported = [c \in Selected |-> 0]

Recorded == ToSet(componentsHash)
Complete(c) == c \in Recorded /\ exported[c] = Artifacts

-----------------------------------------------------------------------------
(* What any build does with the recorder.  `c` is being built.             *)

InBuild(c) == IF c = Core THEN stage = "core"
                          ELSE stage = "graph" /\ pc[c] = "building"

(* Fault: components are recorded when they are picked up, not when their  *)
(* build script has succeeded.                                             *)
RecordEarly(c) ==
  /\ IF c = Core THEN stage = "core" ELSE pc[c] \in {"waiting", "building"}
  /\ c \notin Recorded
  /\ componentsHash' = Append(componentsHash, c)
  /\ UNCHANGED <<vars, coreSelected, stage, exported>>

(* build.sh succeeded: record_component() adds the component, with an      *)
(* empty artifacts dictionary.                                             *)
RecordComponent(c) ==
  /\ InBuild(c)
  /\ c \notin Recorded
  /\ componentsHash' = Append(componentsHash, c)
  /\ UNCHANGED <<vars, coreSelected, stage, exported>>

(* record_artifact(): check, copy, and append to the component's list.     *)
RecordArtifact(c) ==
  /\ InBuild(c)
  /\ c \in Recorded
  /\ exported[c] < Artifacts
  /\ exported' = [exported EXCEPT ![c] = @ + 1]
  /\ UNCHANGED <<vars, coreSelected, stage, componentsHash>>

-----------------------------------------------------------------------------
(* The core engine, in the main thread.                                    *)

CoreBuilt ==
  /\ stage = "core"
  /\ Complete(Core)
  /\ stage' = "graph"
  /\ UNCHANGED <<vars, coreSelected, recorder>>

(* Any failure of the core build is raised again, whatever the flags say.  *)
CoreFails ==
  /\ stage = "core"
  /\ stage' = "error"
  /\ UNCHANGED <<vars, coreSelected, recorder>>

-----------------------------------------------------------------------------
(* The other components, by BuildGraph.execute_parallel(); build_fn() ends *)
(* normally when every artifact was exported.                              *)

Scheduling ==
  \/ Take
  \/ Main
  \/ \E c \in Component :
       \/ \E d \in Component : AwaitDependency(c, d)
       \/ StartBuild(c)
       \/ BuildFails(c)
       \/ RecordFailure(c)
       \/ Announce(c)
       \/ Complete(c) /\ BuildSucceeds(c)

GraphStep ==
  /\ stage = "graph"
  /\ Scheduling
  /\ UNCHANGED <<coreSelected, stage, recorder>>

(* Fault: the list of failed components is not looked at.                  *)
IgnoreFailures ==
  /\ stage = "graph"
  /\ Ended
  /\ stage' = IF main = "raised" THEN "error" ELSE "finish"
  /\ UNCHANGED <<vars, coreSelected, recorder>>

(* execute_parallel() is over.  Its exception ends the run; so does a      *)
(* required component in the list, one skipped because a plugin it depends *)
(* on failed: that one did not raise by itself.                            *)
GraphOver ==
  /\ stage = "graph"
  /\ Ended
  /\ stage' = IF main = "raised" \/ failed \cap Required # {}
              THEN "error" ELSE "finish"
  /\ UNCHANGED <<vars, coreSelected, recorder>>

WriteManifest ==
  /\ stage = "finish"
  /\ stage' = "done"
  /\ UNCHANGED <<vars, coreSelected, recorder>>

BuildNext ==
  \/ \E c \in Selected : RecordComponent(c) \/ RecordArtifact(c)
  \/ CoreBuilt
  \/ CoreFails
  \/ GraphStep
  \/ GraphOver
  \/ WriteManifest

BuildSpec == BuildInit /\ [][BuildNext]_buildVars

-----------------------------------------------------------------------------
(* Every variable keeps its type.                                          *)
BuildTypeOK ==
  /\ TypeOK
  /\ coreSelected \in BOOLEAN
  /\ stage \in {"core", "graph", "finish", "done", "error"}
  /\ componentsHash \in Seq(Selected)
  /\ exported \in [Selected -> 0 .. Artifacts]

Before(c, d) ==
  \E i, j \in DOMAIN componentsHash :
    i < j /\ componentsHash[i] = c /\ componentsHash[j] = d

(* Whatever the threads do, the insertion order of the shared hash, which  *)
(* is the order in which a distribution is assembled, lists a component    *)
(* once, after the core engine and after everything it was built on.       *)
ManifestInDependencyOrder ==
  /\ IsInjective(componentsHash)
  /\ \A c \in Recorded \ {Core} :
       /\ coreSelected => Before(Core, c)
       /\ \A d \in dependencies[c] : Before(d, c)

(* A manifest is written only with every required component complete; the  *)
(* only incomplete entries are those reported as failed plugins.           *)
WrittenManifestIsComplete ==
  stage = "done" =>
    /\ coreSelected => Complete(Core)
    /\ \A c \in Required : Complete(c)
    /\ \A c \in Component : Complete(c) \/ c \in failed

=============================================================================
