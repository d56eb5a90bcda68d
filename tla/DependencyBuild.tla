--------------------------- MODULE DependencyBuild ---------------------------
(***************************************************************************)
(* What BuildGraph.execute_parallel() promises its caller, without threads,*)
(* events, locks or queues: components are built on top of built           *)
(* dependencies, a failure spreads to the dependents, and the call returns *)
(* when everything is settled or raises because of a failure it was not    *)
(* allowed to tolerate, with no build left running.                        *)
(***************************************************************************)
EXTENDS Integers

CONSTANTS Component, Required

VARIABLES
  continueOnError,
  dependencies,
  state,            \* per component: todo, building, built or failed
  outcome           \* of the call: running, returned or raised

abstractVars == <<continueOnError, dependencies, state, outcome>>

In(s) == {c \in Component : state[c] = s}

(* The root of a failure the caller did not allow.                         *)
Intolerable(c) ==
  /\ state[c] = "failed"
  /\ dependencies[c] \subseteq In("built")
  /\ ~continueOnError \/ c \in Required

Init ==
  /\ continueOnError \in BOOLEAN
  /\ dependencies \in [Component -> SUBSET Component]
  /\ state = [c \in Component |-> "todo"]
  /\ outcome = "running"

Move(c, from, to) ==
  /\ outcome = "running"
  /\ state[c] = from
  /\ state' = [state EXCEPT ![c] = to]
  /\ UNCHANGED <<continueOnError, dependencies, outcome>>

Start(c)   == dependencies[c] \subseteq In("built") /\ Move(c, "todo", "building")
Succeed(c) == Move(c, "building", "built")
Fail(c)    == Move(c, "building", "failed")
Skip(c)    == dependencies[c] \cap In("failed") # {} /\ Move(c, "todo", "failed")

End(how) ==
  /\ outcome = "running"
  /\ outcome' = how
  /\ UNCHANGED <<continueOnError, dependencies, state>>

Return ==
  /\ Component = In("built") \cup In("failed")
  /\ \A c \in Component : ~Intolerable(c)
  /\ End("returned")

Raise ==
  /\ In("building") = {}
  /\ \E c \in Component : Intolerable(c)
  /\ End("raised")

Next ==
  \/ \E c \in Component : Start(c) \/ Succeed(c) \/ Fail(c) \/ Skip(c)
  \/ Return
  \/ Raise

Spec == Init /\ [][Next]_abstractVars

=============================================================================
