------------------------------ MODULE Assemble ------------------------------
(***************************************************************************)
(* build.sh --parallel followed by assemble.sh: run_assemble.py reads the  *)
(* build manifest the build has written, copies and unpacks the minimal    *)
(* distribution, and installs the plugins in the order of the manifest.    *)
(***************************************************************************)
EXTENDS ParallelBuild

CONSTANT
  Archive     \* which of its artifacts is a component's distribution or
              \* plugin archive; 0 for a component that exports none

ASSUME ArchiveAssumption ==
  /\ Archive \in [Selected -> 0 .. Artifacts]
  /\ Archive[Core] # 0

VARIABLES
  assembly,     \* idle, min, components, packaged or error
  position,     \* the entry of the build manifest install_components() is at
  installed,    \* the plugins in the unpacked distribution
  bundle        \* the components of the bundle manifest, with their location

assemblyVars == <<assembly, position, installed, bundle>>
allVars == <<buildVars, assemblyVars>>

Entry(c, located) == [name |-> c, located |-> located]

HasArchive(c) == Archive[c] # 0 /\ exported[c] >= Archive[c]

AssembleInit ==
  /\ BuildInit
  /\ assembly = "idle"
  /\ position = 1
  /\ installed = {}
  /\ bundle = <<>>

(* Bundle.__init__(): the first component with a "dist" artifact is the    *)
(* minimal distribution; without one a ValueError ends the run.  Only the  *)
(* core engine exports a "dist".                                           *)
FindMin ==
  /\ stage = "done"
  /\ assembly = "idle"
  /\ IF Core \in Recorded /\ HasArchive(Core)
     THEN assembly' = "min" /\ bundle' = <<Entry(Core, TRUE)>>
     ELSE assembly' = "error" /\ UNCHANGED bundle
  /\ UNCHANGED <<buildVars, position, installed>>

(* install_min(): the minimal distribution is copied and unpacked.         *)
InstallMin ==
  /\ assembly = "min"
  /\ assembly' = "components"
  /\ UNCHANGED <<buildVars, position, installed, bundle>>

Remaining == assembly = "components" /\ position <= Len(componentsHash)
Current == componentsHash[position]

(* The plugin CLI (external) refuses a plugin that extends one which is    *)
(* not installed.                                                          *)
Extends(c) == {d \in dependencies[c] : Archive[d] # 0}
CliAccepts(c) == Extends(c) \subseteq installed

InstallPlugin ==
  /\ Remaining
  /\ Current # Core /\ HasArchive(Current)
  /\ CliAccepts(Current)
  /\ installed' = installed \cup {Current}
  /\ bundle' = Append(bundle, Entry(Current, TRUE))
  /\ position' = position + 1
  /\ UNCHANGED <<buildVars, assembly>>

(* Fault: only what has an archive is looked at, the rest ends the loop.   *)
StopAtFirstWithoutArchive ==
  /\ Remaining
  /\ Current = Core \/ ~HasArchive(Current)
  /\ position' = IF Current = Core THEN position + 1 ELSE Len(componentsHash) + 1
  /\ UNCHANGED <<buildVars, assembly, installed, bundle>>

(* The minimal distribution is skipped, a component without a plugin       *)
(* archive only recorded, without a location.                              *)
RecordOnly ==
  /\ Remaining
  /\ Current = Core \/ ~HasArchive(Current)
  /\ bundle' = IF Current = Core THEN bundle
               ELSE Append(bundle, Entry(Current, FALSE))
  /\ position' = position + 1
  /\ UNCHANGED <<buildVars, assembly, installed>>

(* A script or the plugin CLI fails: check_call() raises.                  *)
InstallFails ==
  /\ assembly \in {"min", "components"}
  /\ assembly' = "error"
  /\ UNCHANGED <<buildVars, position, installed, bundle>>

(* The bundle manifest goes into the distribution, the distribution is     *)
(* packaged, and the manifest is written beside it.                        *)
Package ==
  /\ assembly = "components"
  /\ position > Len(componentsHash)
  /\ assembly' = "packaged"
  /\ UNCHANGED <<buildVars, position, installed, bundle>>

AssembleStep ==
  \/ FindMin \/ InstallMin \/ InstallPlugin \/ RecordOnly
  \/ InstallFails \/ Package

AssembleNext ==
  \/ BuildNext /\ UNCHANGED assemblyVars
  \/ AssembleStep

AssembleSpec == AssembleInit /\ [][AssembleNext]_allVars

-----------------------------------------------------------------------------
(* The order in which the build threads happened to report is good enough  *)
(* for the plugin CLI: no plugin is ever offered to it before the plugins  *)
(* it extends.                                                             *)
InstallOrderSuffices ==
  Remaining /\ Current # Core /\ HasArchive(Current) => CliAccepts(Current)

(* A packaged distribution holds every plugin that was not reported as     *)
(* failed, nothing whose dependency is absent, and the bundle manifest     *)
(* locates exactly what was installed.                                     *)
NothingSilentlyMissing ==
  assembly = "packaged" =>
    /\ \A c \in Component : Archive[c] # 0 => c \in failed \/ c \in installed
    /\ \A c \in installed : Extends(c) \subseteq installed
    /\ ToSet(bundle) = {Entry(c, c = Core \/ c \in installed) : c \in Recorded}

=============================================================================
