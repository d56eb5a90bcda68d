----------------------------- MODULE MCAssemble -----------------------------
(* Three components beside the core engine, two workers, two artifacts per *)
(* build; component 2 is required and, like common-utils, no plugin.       *)
EXTENDS Assemble

AnyManifest ==
  {want \in [Component -> SUBSET Component] :
     \A c \in Component : c \notin want[c]}

ArchiveIndex == [c \in Selected |-> CASE c = Core -> 2 [] c = 1 -> 1
                                      [] c = 2 -> 0 [] OTHER -> 2]

=============================================================================
