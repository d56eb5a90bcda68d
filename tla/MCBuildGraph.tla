---------------------------- MODULE MCBuildGraph ----------------------------
(* Small instances of the parallel build scheduler: every dependency graph *)
(* over N components, forward references included.                         *)
EXTENDS BuildGraph

AnyManifest ==
  {want \in [Component -> SUBSET Component] :
     \A c \in Component : c \notin want[c]}

=============================================================================
