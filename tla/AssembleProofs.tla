--------------------------- MODULE AssembleProofs ---------------------------
(***************************************************************************)
(* Proofs about the build recorder and the assembly of a distribution, for *)
(* every number of components, artifacts and workers and every manifest:   *)
(* what the build threads report, in whatever order, is a manifest that    *)
(* can be assembled.  They rest on Consistent, the invariant of the        *)
(* scheduler.                                                              *)
(***************************************************************************)
EXTENDS Assemble, BuildGraphProofs, SequenceTheorems

-----------------------------------------------------------------------------
(* The inductive invariant.                                                *)

(* A component is recorded while it is being built, after all that it is   *)
(* built on; what is built is complete.                                    *)
RecordedInv ==
  /\ \A c \in Recorded \ {Core} :
       /\ pc[c] \in {"building", "failing", "returned", "raised"}
       /\ dependencies[c] \subseteq Built
  /\ \A c \in Built : Complete(c)

(* The core engine is built before anything else.                          *)
CoreInv ==
  /\ stage = "core" => coreSelected /\ Recorded \subseteq {Core}
  /\ Core \in Recorded => coreSelected
  /\ coreSelected /\ stage \in {"graph", "finish", "done"} => Complete(Core)

(* Only a normal return without required components leads to a manifest.   *)
EndInv ==
  stage \in {"finish", "done"} => main = "returned" /\ failed \cap Required = {}

BuildInv ==
  /\ Consistent /\ BuildTypeOK /\ RecordedInv /\ CoreInv /\ EndInv
  /\ ManifestInDependencyOrder /\ WrittenManifestIsComplete

(* What the bundle manifest may list.                                      *)
Entries == [name : Selected, located : BOOLEAN]

(* The entries install_components() has left behind.                       *)
Passed == {componentsHash[i] : i \in 1 .. position - 1}

(* The distribution holds the plugins among them, and the bundle manifest  *)
(* lists them all.                                                         *)
AssemblyInv ==
  /\ assembly \in {"idle", "min", "components", "packaged", "error"}
  /\ position \in 1 .. Len(componentsHash) + 1
  /\ assembly # "idle" => stage = "done"
  /\ assembly \in {"idle", "min"} => position = 1
  /\ assembly \in {"min", "components", "packaged"} => Core \in Recorded
  /\ assembly = "packaged" => position = Len(componentsHash) + 1
  /\ installed = {c \in Passed : c # Core /\ HasArchive(c)}
  /\ bundle \in Seq(Entries)
  /\ assembly \in {"idle", "min", "components", "packaged"} =>
       ToSet(bundle) =
         (IF assembly = "idle" THEN {} ELSE {Entry(Core, TRUE)})
           \cup {Entry(c, c = Core \/ c \in installed) : c \in Passed}

AssembleInv ==
  BuildInv /\ AssemblyInv /\ InstallOrderSuffices /\ NothingSilentlyMissing

-----------------------------------------------------------------------------
(* Appending a new component to the hash keeps the order there was, and    *)
(* puts it after everything recorded before.                               *)
LEMMA Recording ==
  ASSUME componentsHash \in Seq(Selected), NEW c \in Selected, c \notin Recorded,
         componentsHash' = Append(componentsHash, c)
  PROVE  /\ componentsHash' \in Seq(Selected)
         /\ Recorded' = Recorded \cup {c}
         /\ IsInjective(componentsHash) => IsInjective(componentsHash')
         /\ \A a, b : Before(a, b) => Before(a, b)'
         /\ \A a \in Recorded : Before(a, c)'
  <1> DEFINE n == Len(componentsHash)
  <1>1. /\ n \in Nat /\ DOMAIN componentsHash = 1 .. n
        /\ componentsHash' \in Seq(Selected)
        /\ Len(componentsHash') = n + 1
        /\ \A i \in 1 .. n : componentsHash'[i] = componentsHash[i]
        /\ componentsHash'[n + 1] = c
    BY AppendProperties, LenProperties
  <1>2. DOMAIN componentsHash' = 1 .. (n + 1)
    BY <1>1, LenProperties
  <1> HIDE DEF n
  <1>3. \A i \in DOMAIN componentsHash' : i \in DOMAIN componentsHash \/ i = n + 1
    BY <1>1, <1>2
  <1>4. /\ n + 1 \in DOMAIN componentsHash'
        /\ \A i \in DOMAIN componentsHash : i \in DOMAIN componentsHash' /\ i < n + 1
    BY <1>1, <1>2
  <1>5. \A i \in DOMAIN componentsHash : componentsHash[i] \in Recorded
    BY DEF Recorded, ToSet
  <1>6. Recorded' = Recorded \cup {c}
    BY <1>1, <1>3, <1>4 DEF Recorded, ToSet
  <1>7. IsInjective(componentsHash) => IsInjective(componentsHash')
    BY <1>1, <1>3, <1>5 DEF IsInjective
  <1>8. ASSUME NEW a, NEW b, Before(a, b) PROVE Before(a, b)'
    BY <1>8, <1>1, <1>4 DEF Before
  <1>9. ASSUME NEW a \in Recorded PROVE Before(a, c)'
    <2>1. PICK i \in DOMAIN componentsHash : componentsHash[i] = a
      BY DEF Recorded, ToSet
    <2> QED  BY <2>1, <1>1, <1>4 DEF Before
  <1> QED  BY <1>1, <1>6, <1>7, <1>8, <1>9

(* What the scheduler does about the recorder: a component that is being   *)
(* or has been built stays so, and becomes built only when it is complete. *)
LEMMA SchedulingMoves ==
  ASSUME Consistent, Scheduling
  PROVE  /\ Next /\ UNCHANGED dependencies
         /\ Built \subseteq Built'
         /\ \A c \in Component :
              pc[c] \in {"building", "failing", "returned", "raised"} =>
                pc'[c] \in {"building", "failing", "returned", "raised"}
         /\ \A c \in Built' : c \in Built \/ Complete(c)
  <1> DEFINE Busy == {"building", "failing", "returned", "raised"}
  <1> USE DEF Consistent
  <1>1. Next
    BY DEF Scheduling, Next, Worker
  <1>2. Built \subseteq Built'
    BY <1>1, BuiltGrows
  <1>3. CASE Take \/ Main
    <2>1. Bystander
      BY <1>3 DEF Bystander
    <2> QED  BY <1>1, <1>2, <2>1, BystanderMoves DEF Built, config, shared
  <1>4. ASSUME NEW c \in Component, NEW d \in Component, AwaitDependency(c, d)
        PROVE  /\ \A b \in Component : pc[b] \in Busy => pc'[b] \in Busy
               /\ Built' = Built /\ UNCHANGED dependencies
    BY <1>4 DEF AwaitDependency, TypeOK, Built, config, shared
  <1>5. ASSUME NEW c \in Component, StartBuild(c) \/ BuildFails(c)
        PROVE  /\ \A b \in Component : pc[b] \in Busy => pc'[b] \in Busy
               /\ Built' = Built /\ UNCHANGED dependencies
    BY <1>5 DEF StartBuild, BuildFails, TypeOK, Built, config, shared
  <1>6. ASSUME NEW c \in Component, RecordFailure(c) \/ Announce(c)
        PROVE  /\ \A b \in Component : pc[b] \in Busy => pc'[b] \in Busy
               /\ Built' \subseteq Built /\ UNCHANGED dependencies
    <2>1. CASE RecordFailure(c)
      BY <2>1 DEF RecordFailure, Built, config
    <2>2. CASE Announce(c)
      <3>1. c \in failed
        BY <2>2 DEF Announce, LockInv, Component
      <3> QED  BY <3>1, <2>2 DEF Announce, TypeOK, Built, config
    <2> QED  BY <1>6, <2>1, <2>2
  <1>7. ASSUME NEW c \in Component, Complete(c), BuildSucceeds(c)
        PROVE  /\ \A b \in Component : pc[b] \in Busy => pc'[b] \in Busy
               /\ Built' \subseteq Built \cup {c} /\ UNCHANGED dependencies
    BY <1>7 DEF BuildSucceeds, TypeOK, Built, config
  <1> QED
    BY <1>1, <1>2, <1>3, <1>4, <1>5, <1>6, <1>7 DEF Scheduling

(* Once the graph is over and returned, each component is built or failed. *)
LEMMA EndedGraph ==
  ASSUME Consistent, main = "returned"
  PROVE  \A c \in Component : c \in failed \/ c \in Built
  BY DEF Consistent, MainInv, LockInv, Built

(* A step that concerns neither the scheduler nor the recorder.            *)
LEMMA BuildUnchanged ==
  ASSUME BuildInv, UNCHANGED <<vars, coreSelected, stage, recorder>>
  PROVE  BuildInv'
  <1> USE DEF BuildInv
  <1>1. Consistent'
    BY StepConsistent
  <1>2. BuildTypeOK' /\ RecordedInv' /\ CoreInv' /\ EndInv'
    BY <1>1 DEF Consistent, vars, recorder, BuildTypeOK, RecordedInv, CoreInv, EndInv,
                Recorded, Complete, Built, config, shared
  <1>3. ManifestInDependencyOrder' /\ WrittenManifestIsComplete'
    BY DEF vars, recorder, ManifestInDependencyOrder, WrittenManifestIsComplete,
           Recorded, Complete, Before, config, shared
  <1> QED  BY <1>1, <1>2, <1>3

-----------------------------------------------------------------------------
(* The steps of a build.                                                   *)

(* A build has succeeded: the component enters the hash, after the core    *)
(* engine and everything it was built on.                                  *)
LEMMA RecordComponentKeeps ==
  ASSUME BuildInv, NEW c \in Selected, RecordComponent(c)
  PROVE  BuildInv'
  <1> USE DEF BuildInv
  <1>1. /\ InBuild(c) /\ c \notin Recorded
        /\ componentsHash' = Append(componentsHash, c)
        /\ UNCHANGED <<vars, coreSelected, stage, exported>>
        /\ UNCHANGED <<pc, dependencies, event, failed, main>>
    BY DEF RecordComponent, vars, config, shared
  <1>2. /\ componentsHash' \in Seq(Selected)
        /\ Recorded' = Recorded \cup {c}
        /\ IsInjective(componentsHash')
        /\ \A a, b : Before(a, b) => Before(a, b)'
        /\ \A a \in Recorded : Before(a, c)'
    BY <1>1, Recording DEF BuildTypeOK, ManifestInDependencyOrder
  <1>3. Consistent'
    BY <1>1, StepConsistent
  <1>4. BuildTypeOK'
    BY <1>1, <1>2, <1>3 DEF BuildTypeOK, Consistent
  <1>5. Built' = Built /\ \A d \in Recorded : Complete(d) => Complete(d)'
    BY <1>1, <1>2 DEF Built, Complete
  <1>6. ASSUME c # Core
        PROVE  /\ pc[c] = "building" /\ dependencies[c] \subseteq Built
               /\ stage = "graph" /\ c \in Component
    <2>1. pc[c] = "building" /\ stage = "graph" /\ c \in Component
      BY <1>1, <1>6 DEF InBuild, Selected
    <2> QED  BY <2>1 DEF Consistent, DependencyInv
  <1>7. RecordedInv'
    <2>1. \A d \in Built : d \in Recorded /\ Complete(d)
      BY DEF RecordedInv, Complete
    <2>2. \A d \in Built' : Complete(d)'
      BY <2>1, <1>5
    <2>3. \A d \in Recorded' \ {Core} :
            /\ pc'[d] \in {"building", "failing", "returned", "raised"}
            /\ dependencies'[d] \subseteq Built'
      BY <1>1, <1>2, <1>5, <1>6 DEF RecordedInv
    <2> QED  BY <2>2, <2>3 DEF RecordedInv
  <1>8. CoreInv'
    <2>1. c = Core => stage = "core"
      BY <1>1 DEF InBuild
    <2>2. Complete(Core) => Complete(Core)'
      BY <1>5 DEF Complete
    <2> QED  BY <1>1, <1>2, <1>6, <2>1, <2>2 DEF CoreInv
  <1>9. EndInv' /\ WrittenManifestIsComplete'
    <2>1. stage # "done" /\ stage # "finish"
      BY <1>1 DEF InBuild
    <2> QED  BY <2>1, <1>1 DEF EndInv, WrittenManifestIsComplete
  <1>10. ManifestInDependencyOrder'
    <2>1. ASSUME NEW d \in Recorded \ {Core}
          PROVE  /\ coreSelected => Before(Core, d)'
                 /\ \A b \in dependencies[d] : Before(b, d)'
      BY <2>1, <1>2 DEF ManifestInDependencyOrder
    <2>2. ASSUME c # Core
          PROVE  /\ coreSelected => Before(Core, c)'
                 /\ \A b \in dependencies[c] : Before(b, c)'
      <3>1. coreSelected => Core \in Recorded
        BY <2>2, <1>6 DEF CoreInv, Complete
      <3>2. \A b \in dependencies[c] : b \in Recorded
        BY <2>2, <1>6 DEF RecordedInv, Complete
      <3> QED  BY <3>1, <3>2, <1>2
    <2>3. \A d \in Recorded' \ {Core} :
            /\ coreSelected => Before(Core, d)'
            /\ \A b \in dependencies[d] : Before(b, d)'
      BY <2>1, <2>2, <1>2
    <2> QED  BY <2>3, <1>1, <1>2 DEF ManifestInDependencyOrder
  <1> QED  BY <1>3, <1>4, <1>7, <1>8, <1>9, <1>10

(* An artifact is listed: complete components stay complete.               *)
LEMMA RecordArtifactKeeps ==
  ASSUME BuildInv, NEW c \in Selected, RecordArtifact(c)
  PROVE  BuildInv'
  <1> USE DEF BuildInv
  <1>1. /\ exported[c] < Artifacts
        /\ exported' = [exported EXCEPT ![c] = @ + 1]
        /\ UNCHANGED <<vars, coreSelected, stage, componentsHash>>
        /\ UNCHANGED <<pc, dependencies, event, failed, main>>
    BY DEF RecordArtifact, vars, config, shared
  <1>2. Consistent'
    BY <1>1, StepConsistent
  <1>3. Artifacts \in Nat
    BY ArtifactsAssumption
  <1>4. BuildTypeOK'
    BY <1>1, <1>2, <1>3 DEF BuildTypeOK, Consistent
  <1>5. Built' = Built /\ Recorded' = Recorded
    BY <1>1 DEF Built, Recorded
  <1>6. \A d \in Selected : Complete(d) => Complete(d)'
    <2> SUFFICES ASSUME NEW d \in Selected, Complete(d) PROVE Complete(d)'
      OBVIOUS
    <2>1. d # c
      BY <1>1, <1>3 DEF Complete
    <2> QED  BY <2>1, <1>1, <1>5 DEF Complete, BuildTypeOK
  <1>7. Core \in Selected /\ Component \subseteq Selected /\ Built \subseteq Selected
    BY DEF Selected, Built, BuildTypeOK, TypeOK
  <1>8. RecordedInv' /\ CoreInv' /\ EndInv'
    BY <1>1, <1>5, <1>6, <1>7 DEF RecordedInv, CoreInv, EndInv
  <1>9. ManifestInDependencyOrder'
    BY <1>1, <1>5 DEF ManifestInDependencyOrder, Before
  <1>10. WrittenManifestIsComplete'
    <2>1. Required \subseteq Component
      BY GraphAssumption
    <2> QED  BY <2>1, <1>1, <1>6, <1>7 DEF WrittenManifestIsComplete
  <1> QED  BY <1>2, <1>4, <1>8, <1>9, <1>10

(* The steps of the scheduler.                                             *)
LEMMA GraphStepKeeps ==
  ASSUME BuildInv, GraphStep
  PROVE  BuildInv'
  <1> USE DEF BuildInv
  <1>1. /\ stage = "graph" /\ Scheduling
        /\ UNCHANGED <<coreSelected, stage, componentsHash, exported>>
    BY DEF GraphStep, recorder
  <1>2. /\ Next /\ UNCHANGED dependencies
        /\ Built \subseteq Built'
        /\ \A c \in Component :
             pc[c] \in {"building", "failing", "returned", "raised"} =>
               pc'[c] \in {"building", "failing", "returned", "raised"}
        /\ \A c \in Built' : c \in Built \/ Complete(c)
    BY <1>1, SchedulingMoves
  <1>3. Consistent'
    BY <1>2, StepConsistent
  <1>4. BuildTypeOK'
    BY <1>1, <1>3 DEF BuildTypeOK, Consistent
  <1>5. Recorded' = Recorded /\ \A c \in Selected : Complete(c)' <=> Complete(c)
    BY <1>1 DEF Recorded, Complete
  <1>6. Recorded \subseteq Selected /\ Built' \subseteq Selected
    <2>1. Recorded \subseteq Selected
      BY ElementOfSeq, LenProperties DEF Recorded, ToSet, BuildTypeOK
    <2>2. Built' \subseteq Selected
      BY <1>4 DEF Built, BuildTypeOK, TypeOK, Selected
    <2> QED  BY <2>1, <2>2
  <1>7. RecordedInv'
    <2>1. \A c \in Recorded \ {Core} : c \in Component
      BY <1>6 DEF Selected
    <2> QED  BY <2>1, <1>2, <1>5, <1>6 DEF RecordedInv
  <1>8. CoreInv' /\ EndInv' /\ WrittenManifestIsComplete'
    BY <1>1, <1>5 DEF CoreInv, EndInv, WrittenManifestIsComplete, Selected
  <1>9. ManifestInDependencyOrder'
    BY <1>1, <1>2, <1>5 DEF ManifestInDependencyOrder, Before
  <1> QED  BY <1>3, <1>4, <1>7, <1>8, <1>9

(* The steps of the main thread around the graph.                          *)
LEMMA StageKeeps ==
  ASSUME BuildInv, CoreBuilt \/ CoreFails \/ GraphOver \/ WriteManifest
  PROVE  BuildInv'
  <1> USE DEF BuildInv
  <1>1. /\ UNCHANGED <<vars, coreSelected, componentsHash, exported>>
        /\ UNCHANGED <<pc, dependencies, event, failed, main>>
    BY DEF CoreBuilt, CoreFails, GraphOver, WriteManifest, recorder, vars, config, shared
  <1>2. Consistent'
    BY <1>1, StepConsistent
  <1>3. stage' \in {"graph", "error", "finish", "done"}
    BY DEF CoreBuilt, CoreFails, GraphOver, WriteManifest
  <1>4. BuildTypeOK'
    BY <1>1, <1>2, <1>3 DEF BuildTypeOK, Consistent
  <1>5. RecordedInv' /\ ManifestInDependencyOrder'
    BY <1>1 DEF RecordedInv, ManifestInDependencyOrder, Recorded, Complete, Built, Before
  <1>6. Recorded' = Recorded /\ \A c \in Selected : Complete(c)' <=> Complete(c)
    BY <1>1 DEF Recorded, Complete
  <1>7. CoreInv'
    <2>1. coreSelected /\ stage' \in {"graph", "finish", "done"} => Complete(Core)
      BY DEF CoreBuilt, CoreFails, GraphOver, WriteManifest, CoreInv
    <2> QED  BY <2>1, <1>1, <1>3, <1>6 DEF CoreInv, Selected
  <1>8. EndInv'
    BY <1>1 DEF CoreBuilt, CoreFails, GraphOver, WriteManifest, EndInv, Ended
  <1>9. WrittenManifestIsComplete'
    <2> SUFFICES ASSUME stage' = "done" PROVE WrittenManifestIsComplete'
      BY DEF WrittenManifestIsComplete
    <2>1. \A c \in Component : c \in failed \/ Complete(c)
      BY <1>1, <1>8, EndedGraph DEF EndInv, RecordedInv
    <2>2. Required \subseteq Component /\ Required \cap failed = {}
      BY <1>1, <1>8, GraphAssumption DEF EndInv
    <2>3. coreSelected => Complete(Core)'
      BY <1>1, <1>7 DEF CoreInv
    <2> QED  BY <2>1, <2>2, <2>3, <1>1, <1>6 DEF WrittenManifestIsComplete, Selected
  <1> QED  BY <1>2, <1>4, <1>5, <1>7, <1>8, <1>9

(* Every step of a build keeps its invariant, which it begins with.        *)
LEMMA BuildStepKeeps ==
  ASSUME BuildInv, [BuildNext]_buildVars
  PROVE  BuildInv'
  BY RecordComponentKeeps, RecordArtifactKeeps, GraphStepKeeps, StageKeeps, BuildUnchanged
     DEF BuildNext, buildVars

(* Nothing is recorded when a build begins.                                *)
LEMMA BuildInitKeeps ==
  ASSUME BuildInit
  PROVE  BuildInv
  <1>1. Consistent
    BY InitConsistent DEF BuildInit
  <1>2. /\ componentsHash = <<>> /\ exported = [c \in Selected |-> 0]
        /\ coreSelected \in BOOLEAN
        /\ stage = IF coreSelected THEN "core" ELSE "graph"
        /\ event = {}
    BY DEF BuildInit, Init
  <1>3. /\ componentsHash \in Seq(Selected) /\ DOMAIN componentsHash = {}
        /\ Recorded = {} /\ Built = {}
    BY <1>2 DEF Recorded, ToSet, Built
  <1>4. BuildTypeOK
    BY <1>1, <1>2, <1>3, ArtifactsAssumption DEF BuildTypeOK, Consistent
  <1>5. RecordedInv /\ CoreInv /\ EndInv
    BY <1>2, <1>3 DEF RecordedInv, CoreInv, EndInv
  <1>6. ManifestInDependencyOrder /\ WrittenManifestIsComplete
    BY <1>2, <1>3 DEF ManifestInDependencyOrder, WrittenManifestIsComplete, IsInjective
  <1> QED  BY <1>1, <1>4, <1>5, <1>6 DEF BuildInv

(* The invariant of a parallel build, by itself.                           *)
THEOREM BuildConsistent == BuildSpec => []BuildInv
  <1>1. BuildInit => BuildInv
    BY BuildInitKeeps
  <1>2. BuildInv /\ [BuildNext]_buildVars => BuildInv'
    BY BuildStepKeeps
  <1> QED  BY <1>1, <1>2, PTL DEF BuildSpec

-----------------------------------------------------------------------------
(* The assembly.                                                           *)

(* A written manifest does not change any more.                            *)
LEMMA DoneIsFinal ==
  ASSUME stage = "done"
  PROVE  ~BuildNext
  BY DEF BuildNext, RecordComponent, RecordArtifact, InBuild, CoreBuilt, CoreFails,
         GraphStep, GraphOver, WriteManifest

(* The entries of the hash are the recorded components, each at one place. *)
LEMMA HashEntries ==
  ASSUME BuildInv
  PROVE  /\ Len(componentsHash) \in Nat
         /\ DOMAIN componentsHash = 1 .. Len(componentsHash)
         /\ Recorded = {componentsHash[i] : i \in 1 .. Len(componentsHash)}
         /\ Recorded \subseteq Selected
         /\ \A i, j \in 1 .. Len(componentsHash) :
              componentsHash[i] = componentsHash[j] => i = j
  <1>1. componentsHash \in Seq(Selected) /\ IsInjective(componentsHash)
    BY DEF BuildInv, BuildTypeOK, ManifestInDependencyOrder
  <1>2. /\ Len(componentsHash) \in Nat
        /\ DOMAIN componentsHash = 1 .. Len(componentsHash)
        /\ \A i \in 1 .. Len(componentsHash) : componentsHash[i] \in Selected
    BY <1>1, LenProperties, ElementOfSeq
  <1> QED  BY <1>1, <1>2 DEF Recorded, ToSet, IsInjective

(* What a recorded component was built on has its archive, whatever it is. *)
LEMMA DependenciesComplete ==
  ASSUME BuildInv, NEW c \in Recorded \ {Core}, NEW d \in Extends(c)
  PROVE  /\ d \in Recorded /\ d # Core /\ HasArchive(d)
         /\ Before(d, c)
  <1>1. d \in dependencies[c] /\ Archive[d] # 0
    BY DEF Extends
  <1>2. d \in Built /\ Complete(d)
    BY <1>1 DEF BuildInv, RecordedInv
  <1>3. d \in Component
    BY <1>2 DEF Built, BuildInv, BuildTypeOK, TypeOK
  <1>4. d # Core
    BY <1>3 DEF Component, Core
  <1>5. Archive[d] \in 0 .. Artifacts /\ Artifacts \in Nat
    BY <1>3, ArchiveAssumption, ArtifactsAssumption DEF Selected
  <1>6. HasArchive(d)
    BY <1>1, <1>2, <1>5 DEF Complete, HasArchive
  <1>7. Before(d, c)
    BY <1>1 DEF BuildInv, ManifestInDependencyOrder
  <1> QED  BY <1>2, <1>4, <1>6, <1>7 DEF Complete

(* The plugin CLI is content with every plugin it is offered.              *)
LEMMA OrderSuffices ==
  ASSUME BuildInv, AssemblyInv
  PROVE  InstallOrderSuffices
  <1> SUFFICES ASSUME Remaining, Current # Core, HasArchive(Current),
                      NEW d \in Extends(Current)
               PROVE  d \in installed
    BY DEF InstallOrderSuffices, CliAccepts
  <1>1. position \in 1 .. Len(componentsHash)
    BY HashEntries DEF Remaining, AssemblyInv
  <1>2. Current \in Recorded \ {Core}
    BY <1>1, HashEntries DEF Current
  <1>3. d # Core /\ HasArchive(d) /\ Before(d, Current)
    BY <1>2, DependenciesComplete
  <1>4. PICK i, j \in DOMAIN componentsHash :
          i < j /\ componentsHash[i] = d /\ componentsHash[j] = Current
    BY <1>3 DEF Before
  <1>5. i \in 1 .. Len(componentsHash) /\ j = position
    BY <1>1, <1>4, HashEntries DEF Current
  <1>6. i \in 1 .. position - 1
    BY <1>1, <1>4, <1>5, HashEntries
  <1> QED  BY <1>3, <1>4, <1>6 DEF Passed, AssemblyInv

(* A packaged distribution is complete.                                    *)
LEMMA PackagedSuffices ==
  ASSUME BuildInv, AssemblyInv
  PROVE  NothingSilentlyMissing
  <1> SUFFICES ASSUME assembly = "packaged"
               PROVE  /\ \A c \in Component : Archive[c] # 0 => c \in failed \/ c \in installed
                      /\ \A c \in installed : Extends(c) \subseteq installed
                      /\ ToSet(bundle) =
                           {Entry(c, c = Core \/ c \in installed) : c \in Recorded}
    BY DEF NothingSilentlyMissing
  <1>1. stage = "done" /\ Core \in Recorded /\ position = Len(componentsHash) + 1
    BY DEF AssemblyInv
  <1>2. Passed = Recorded
    <2>1. 1 .. position - 1 = 1 .. Len(componentsHash)
      BY <1>1, HashEntries
    <2> QED  BY <2>1, HashEntries DEF Passed
  <1>3. installed = {c \in Recorded : c # Core /\ HasArchive(c)}
    BY <1>2 DEF AssemblyInv
  <1>4. ASSUME NEW c \in Component, Archive[c] # 0, c \notin failed
        PROVE  c \in installed
    <2>1. Complete(c)
      BY <1>1, <1>4 DEF BuildInv, WrittenManifestIsComplete
    <2>2. c # Core
      BY DEF Component, Core
    <2>3. Archive[c] \in 0 .. Artifacts /\ Artifacts \in Nat
      BY ArchiveAssumption, ArtifactsAssumption DEF Selected
    <2>4. HasArchive(c)
      BY <2>1, <2>3, <1>4 DEF Complete, HasArchive
    <2> QED  BY <2>1, <2>2, <2>4, <1>3 DEF Complete
  <1>5. ASSUME NEW c \in installed, NEW d \in Extends(c)
        PROVE  d \in installed
    <2>1. c \in Recorded \ {Core}
      BY <1>3
    <2>2. d \in Recorded /\ d # Core /\ HasArchive(d)
      BY <2>1, DependenciesComplete
    <2> QED  BY <2>2, <1>3
  <1>6. ToSet(bundle) = {Entry(c, c = Core \/ c \in installed) : c \in Recorded}
    <2>1. ToSet(bundle) =
            {Entry(Core, TRUE)} \cup {Entry(c, c = Core \/ c \in installed) : c \in Recorded}
      BY <1>2 DEF AssemblyInv
    <2>2. Entry(Core, Core = Core \/ Core \in installed) = Entry(Core, TRUE)
      BY DEF Entry
    <2> QED  BY <1>1, <2>1, <2>2
  <1> QED  BY <1>4, <1>5, <1>6

(* The build goes on until its manifest is written; until then there is    *)
(* nothing to assemble.                                                    *)
LEMMA BuildingKeeps ==
  ASSUME BuildInv, AssemblyInv, BuildNext, UNCHANGED assemblyVars
  PROVE  BuildInv' /\ AssemblyInv'
  <1>1. BuildInv'
    BY BuildStepKeeps
  <1>2. /\ assembly = "idle" /\ position = 1
        /\ UNCHANGED <<assembly, position, installed, bundle>>
    BY DoneIsFinal DEF AssemblyInv, assemblyVars
  <1>3. Len(componentsHash') \in Nat
    BY <1>1, HashEntries DEF BuildInv, BuildTypeOK
  <1>4. Passed = {} /\ Passed' = {}
    BY <1>2 DEF Passed
  <1>5. AssemblyInv'
    BY <1>2, <1>3, <1>4 DEF AssemblyInv
  <1> QED  BY <1>1, <1>5

(* Installing or recording the current entry leaves it behind.             *)
LEMMA Advance ==
  ASSUME BuildInv, AssemblyInv, Remaining, position' = position + 1,
         componentsHash' = componentsHash
  PROVE  /\ position' \in 1 .. Len(componentsHash) + 1
         /\ Passed' = Passed \cup {Current}
  <1>1. position \in 1 .. Len(componentsHash) /\ Len(componentsHash) \in Nat
    BY HashEntries DEF Remaining, AssemblyInv
  <1>2. 1 .. position' - 1 = (1 .. position - 1) \cup {position}
    BY <1>1
  <1>3. Passed' = {componentsHash[i] : i \in 1 .. position' - 1}
    BY DEF Passed
  <1> QED  BY <1>1, <1>2, <1>3 DEF Passed, Current

(* The first entry of the bundle manifest.                                 *)
LEMMA BundleStarts ==
  ASSUME NEW S, NEW e \in S
  PROVE  <<e>> \in Seq(S) /\ ToSet(<<e>>) = {e}
  <1>1. <<e>> \in Seq(S) /\ DOMAIN <<e>> = {1} /\ <<e>>[1] = e
    OBVIOUS
  <1> QED  BY <1>1 DEF ToSet

(* Another entry of it.                                                    *)
LEMMA BundleGrows ==
  ASSUME NEW S, bundle \in Seq(S), NEW e \in S, bundle' = Append(bundle, e)
  PROVE  bundle' \in Seq(S) /\ ToSet(bundle') = ToSet(bundle) \cup {e}
  <1> DEFINE n == Len(bundle)
  <1>1. /\ n \in Nat /\ DOMAIN bundle = 1 .. n
        /\ bundle' \in Seq(S)
        /\ Len(bundle') = n + 1
        /\ \A i \in 1 .. n : bundle'[i] = bundle[i]
        /\ bundle'[n + 1] = e
    BY AppendProperties, LenProperties
  <1>2. DOMAIN bundle' = 1 .. (n + 1)
    BY <1>1, LenProperties
  <1> HIDE DEF n
  <1>3. /\ \A i \in DOMAIN bundle' : i \in DOMAIN bundle \/ i = n + 1
        /\ n + 1 \in DOMAIN bundle'
        /\ \A i \in DOMAIN bundle : i \in DOMAIN bundle'
    BY <1>1, <1>2
  <1> QED  BY <1>1, <1>3 DEF ToSet

(* The steps of the assembly.                                              *)
LEMMA AssembleStepKeeps ==
  ASSUME BuildInv, AssemblyInv, AssembleStep
  PROVE  BuildInv' /\ AssemblyInv'
  <1>1. /\ UNCHANGED buildVars
        /\ UNCHANGED <<vars, coreSelected, stage, recorder>>
        /\ UNCHANGED <<stage, componentsHash, exported>>
    BY DEF AssembleStep, FindMin, InstallMin, InstallPlugin, RecordOnly, InstallFails,
           Package, buildVars, recorder
  <1>2. BuildInv'
    BY <1>1, BuildUnchanged
  <1>3. /\ Recorded' = Recorded
        /\ \A c : HasArchive(c)' <=> HasArchive(c)
    BY <1>1 DEF Recorded, HasArchive
  <1>4. position' = position => Passed' = Passed
    BY <1>1 DEF Passed
  <1>5. Core \in Selected /\ Recorded \subseteq Selected
    BY HashEntries DEF Selected
  <1>6. CASE FindMin
    <2>1. /\ stage = "done" /\ assembly = "idle"
          /\ UNCHANGED <<position, installed>>
      BY <1>6 DEF FindMin
    <2>2. Passed = {} /\ ToSet(bundle) = {}
      <3>1. 1 .. position - 1 = {}
        BY <2>1 DEF AssemblyInv
      <3>2. Passed = {}
        BY <3>1 DEF Passed
      <3> QED  BY <2>1, <3>2 DEF AssemblyInv
    <2>3. CASE Core \in Recorded /\ HasArchive(Core)
      <3>1. assembly' = "min" /\ bundle' = <<Entry(Core, TRUE)>>
        BY <1>6, <2>3 DEF FindMin
      <3>2. Entry(Core, TRUE) \in Entries
        BY <1>5 DEF Entry, Entries
      <3>3. bundle' \in Seq(Entries) /\ ToSet(bundle') = {Entry(Core, TRUE)}
        BY <3>1, <3>2, BundleStarts
      <3> QED
        BY <1>1, <1>2, <1>3, <1>4, <2>1, <2>2, <2>3, <3>1, <3>3 DEF AssemblyInv
    <2>4. CASE ~(Core \in Recorded /\ HasArchive(Core))
      <3>1. assembly' = "error" /\ bundle' = bundle
        BY <1>6, <2>4 DEF FindMin
      <3> QED
        BY <1>1, <1>2, <1>3, <1>4, <2>1, <3>1 DEF AssemblyInv
    <2> QED  BY <2>3, <2>4
  <1>7. CASE InstallMin \/ InstallFails
    <2>1. /\ assembly \in {"min", "components"} /\ assembly' \in {"components", "error"}
          /\ UNCHANGED <<position, installed, bundle>>
      BY <1>7 DEF InstallMin, InstallFails
    <2> QED  BY <1>1, <1>2, <1>3, <1>4, <2>1 DEF AssemblyInv
  <1>8. CASE Package
    <2>1. /\ assembly = "components" /\ assembly' = "packaged"
          /\ position > Len(componentsHash)
          /\ UNCHANGED <<position, installed, bundle>>
      BY <1>8 DEF Package
    <2>2. position = Len(componentsHash) + 1
      BY <2>1, HashEntries DEF AssemblyInv
    <2> QED  BY <1>1, <1>2, <1>3, <1>4, <2>1, <2>2 DEF AssemblyInv
  <1>9. CASE InstallPlugin \/ RecordOnly
    <2>1. /\ Remaining /\ assembly = "components" /\ assembly' = assembly
          /\ position' = position + 1
      BY <1>9 DEF InstallPlugin, RecordOnly, Remaining
    <2>2. /\ position' \in 1 .. Len(componentsHash) + 1
          /\ Passed' = Passed \cup {Current}
      BY <1>1, <2>1, Advance
    <2>3. Current \in Recorded /\ Passed \subseteq Recorded
          /\ Current \notin Passed
      <3>1. position \in 1 .. Len(componentsHash)
        BY <2>1, HashEntries DEF Remaining, AssemblyInv
      <3>2. \A i \in 1 .. position - 1 : i \in 1 .. Len(componentsHash) /\ i # position
        BY <3>1, HashEntries
      <3> QED  BY <3>1, <3>2, HashEntries DEF Current, Passed
    <2>4. installed' = {c \in Passed' : c # Core /\ HasArchive(c)}
      <3>1. CASE InstallPlugin
        BY <2>2, <3>1 DEF InstallPlugin, AssemblyInv
      <3>2. CASE RecordOnly
        BY <2>2, <3>2 DEF RecordOnly, AssemblyInv
      <3> QED  BY <1>9, <3>1, <3>2
    <2>5. /\ bundle' \in Seq(Entries)
          /\ ToSet(bundle') =
               ToSet(bundle) \cup {Entry(Current, Current = Core \/ Current \in installed')}
      <3>1. bundle \in Seq(Entries) /\ \A located \in BOOLEAN : Entry(Current, located) \in Entries
        BY <2>3, <1>5 DEF AssemblyInv, Entry, Entries
      <3>2. CASE InstallPlugin
        <4>1. bundle' = Append(bundle, Entry(Current, TRUE)) /\ Current \in installed'
          BY <3>2 DEF InstallPlugin
        <4>2. /\ bundle' \in Seq(Entries)
              /\ ToSet(bundle') = ToSet(bundle) \cup {Entry(Current, TRUE)}
          BY <4>1, <3>1, BundleGrows
        <4> QED  BY <4>1, <4>2 DEF Entry
      <3>3. CASE RecordOnly /\ Current = Core
        <4>1. bundle' = bundle
          BY <3>3 DEF RecordOnly
        <4>2. Entry(Core, TRUE) \in ToSet(bundle)
          BY <2>1 DEF AssemblyInv
        <4>3. Entry(Current, Current = Core \/ Current \in installed') = Entry(Core, TRUE)
          BY <3>3 DEF Entry
        <4> QED  BY <3>1, <4>1, <4>2, <4>3
      <3>4. CASE RecordOnly /\ Current # Core
        <4>1. /\ bundle' = Append(bundle, Entry(Current, FALSE))
              /\ ~HasArchive(Current)
          BY <3>4 DEF RecordOnly
        <4>2. /\ bundle' \in Seq(Entries)
              /\ ToSet(bundle') = ToSet(bundle) \cup {Entry(Current, FALSE)}
          BY <4>1, <3>1, BundleGrows
        <4>3. Entry(Current, Current = Core \/ Current \in installed') = Entry(Current, FALSE)
          BY <3>4, <4>1, <2>4 DEF Entry
        <4> QED  BY <4>2, <4>3
      <3> QED  BY <1>9, <3>2, <3>3, <3>4
    <2>6. \A c \in Passed : c \in installed' <=> c \in installed
      BY <2>2, <2>4 DEF AssemblyInv
    <2>7. ToSet(bundle') =
            {Entry(Core, TRUE)} \cup {Entry(c, c = Core \/ c \in installed') : c \in Passed'}
      <3>1. ToSet(bundle) =
              {Entry(Core, TRUE)} \cup {Entry(c, c = Core \/ c \in installed) : c \in Passed}
        BY <2>1 DEF AssemblyInv
      <3>2. \A c \in Passed :
              Entry(c, c = Core \/ c \in installed') = Entry(c, c = Core \/ c \in installed)
        BY <2>6 DEF Entry
      <3>3. {Entry(c, c = Core \/ c \in installed') : c \in Passed} =
              {Entry(c, c = Core \/ c \in installed) : c \in Passed}
        BY <3>2
      <3>4. {Entry(c, c = Core \/ c \in installed') : c \in Passed \cup {Current}} =
              {Entry(c, c = Core \/ c \in installed') : c \in Passed}
                \cup {Entry(Current, Current = Core \/ Current \in installed')}
        OBVIOUS
      <3> QED  BY <2>2, <2>5, <3>1, <3>3, <3>4
    <2> QED
      BY <1>1, <1>2, <1>3, <2>1, <2>2, <2>4, <2>5, <2>7 DEF AssemblyInv
  <1> QED  BY <1>6, <1>7, <1>8, <1>9 DEF AssembleStep

(* The invariant of a build and the assembly of what it has built.         *)
THEOREM AssemblyConsistent == AssembleSpec => []AssembleInv
  <1>1. AssembleInit => BuildInv /\ AssemblyInv
    <2> SUFFICES ASSUME AssembleInit PROVE BuildInv /\ AssemblyInv
      OBVIOUS
    <2>1. BuildInv
      BY BuildInitKeeps DEF AssembleInit
    <2>2. Passed = {} /\ bundle \in Seq(Entries) /\ ToSet(bundle) = {}
      <3>1. DOMAIN bundle = {} /\ bundle \in Seq(Entries)
        BY DEF AssembleInit
      <3> QED  BY <3>1 DEF AssembleInit, Passed, ToSet
    <2>3. AssemblyInv
      BY <2>1, <2>2, HashEntries DEF AssembleInit, AssemblyInv
    <2> QED  BY <2>1, <2>3
  <1>2. BuildInv /\ AssemblyInv /\ [AssembleNext]_allVars => BuildInv' /\ AssemblyInv'
    <2> SUFFICES ASSUME BuildInv, AssemblyInv, [AssembleNext]_allVars
                 PROVE  BuildInv' /\ AssemblyInv'
      OBVIOUS
    <2>1. CASE UNCHANGED allVars
      <3>1. /\ UNCHANGED <<vars, coreSelected, stage, recorder>>
            /\ UNCHANGED <<assembly, position, installed, bundle>>
            /\ UNCHANGED <<stage, componentsHash, exported>>
        BY <2>1 DEF allVars, buildVars, assemblyVars, recorder
      <3>2. /\ Recorded' = Recorded /\ Passed' = Passed
            /\ \A c : HasArchive(c)' <=> HasArchive(c)
        BY <3>1 DEF Recorded, Passed, HasArchive
      <3>3. AssemblyInv'
        BY <3>1, <3>2 DEF AssemblyInv
      <3> QED  BY <3>1, <3>3, BuildUnchanged
    <2> QED  BY <2>1, BuildingKeeps, AssembleStepKeeps DEF AssembleNext
  <1>3. BuildInv /\ AssemblyInv => AssembleInv
    BY OrderSuffices, PackagedSuffices DEF AssembleInv
  <1> QED  BY <1>1, <1>2, <1>3, PTL DEF AssembleSpec

-----------------------------------------------------------------------------
(* What the runs check of the build and the assembly.                      *)

(* Within a parallel build the scheduler takes no step of its own making:  *)
(* what holds of every run of BuildGraph holds of the build, the promise   *)
(* of DependencyBuild included.                                            *)
THEOREM BuildsAreScheduled == BuildSpec => Spec /\ ImplementsDependencyBuild
  <1>1. BuildInit => Init
    BY DEF BuildInit
  <1>2. [BuildNext]_buildVars => [Next]_vars
    <2>1. ASSUME GraphStep PROVE Next
      BY <2>1 DEF GraphStep, Scheduling, Next, Worker
    <2> QED
      BY <2>1 DEF BuildNext, buildVars, RecordComponent, RecordArtifact, CoreBuilt, CoreFails,
                  GraphOver, WriteManifest
  <1>3. BuildSpec => Spec
    BY <1>1, <1>2, PTL DEF BuildSpec, Spec
  <1> QED  BY <1>3, Refinement, PTL

(* The hash lists a component after the core and what it was built on.     *)
THEOREM ManifestsAreOrdered == AssembleSpec => []ManifestInDependencyOrder
  <1>1. AssembleInv => ManifestInDependencyOrder
    BY DEF AssembleInv, BuildInv
  <1> QED  BY <1>1, AssemblyConsistent, PTL

(* A manifest is written only when what it must contain is complete.       *)
THEOREM ManifestsAreComplete == AssembleSpec => []WrittenManifestIsComplete
  <1>1. AssembleInv => WrittenManifestIsComplete
    BY DEF AssembleInv, BuildInv
  <1> QED  BY <1>1, AssemblyConsistent, PTL

(* No plugin is offered to the plugin CLI before those it extends.         *)
THEOREM PluginsInstallInOrder == AssembleSpec => []InstallOrderSuffices
  <1>1. AssembleInv => InstallOrderSuffices
    BY DEF AssembleInv
  <1> QED  BY <1>1, AssemblyConsistent, PTL

(* A packaged distribution lacks no plugin that did not fail.              *)
THEOREM DistributionsAreComplete == AssembleSpec => []NothingSilentlyMissing
  <1>1. AssembleInv => NothingSilentlyMissing
    BY DEF AssembleInv
  <1> QED  BY <1>1, AssemblyConsistent, PTL

=============================================================================
