------------------------- MODULE MCIncrementalBuild -------------------------
(* The core engine, a library and two plugins on top of each other.        *)
EXTENDS IncrementalBuild

Chain == [c \in Component |-> IF c <= 2 THEN {} ELSE {c - 1}]

=============================================================================
