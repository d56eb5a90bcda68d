-------------------------- MODULE BuildGraphProofs --------------------------
(***************************************************************************)
(* Proofs about the parallel build scheduler, for every number of          *)
(* components, every pool size and every manifest: Consistent is an        *)
(* inductive invariant, and the properties that BuildGraph.cfg checks on   *)
(* four components follow from it.                                         *)
(***************************************************************************)
EXTENDS BuildGraph, TLAPS

(* add_component() only keeps what is in the graph already.                *)
LEMMA AddedEarlier ==
  ASSUME NEW want \in DependsOn, NEW c \in Component
  PROVE  AddComponents(want)[c] \subseteq 1 .. (c - 1)
  <1>1. /\ N \in Nat
        /\ want \in [Component -> SUBSET Component]
        /\ \A b \in Component : b \notin want[b]
    BY GraphAssumption
  <1> QED  BY <1>1, SMT DEF AddComponents, Component

(* The initial states are consistent.                                      *)
LEMMA InitConsistent == Init => Consistent
  <1> SUFFICES ASSUME Init PROVE Consistent
    OBVIOUS
  <1>1. /\ N \in Nat
        /\ dependencies \in [Component -> SUBSET Component]
        /\ \A c \in Component : dependencies[c] \subseteq 1 .. (c - 1)
    <2>1. PICK want \in DependsOn : dependencies = AddComponents(want)
      BY DEF Init
    <2>2. N \in Nat
      BY GraphAssumption
    <2>3. AddComponents(want) \in [Component -> SUBSET Component]
      BY GraphAssumption DEF AddComponents
    <2>4. \A c \in Component : AddComponents(want)[c] \subseteq 1 .. (c - 1)
      BY AddedEarlier
    <2> QED  BY <2>1, <2>2, <2>3, <2>4
  <1>2. TypeOK
    BY <1>1 DEF Init, TypeOK, Phase, Component
  <1>3. QueueInv
    BY <1>1 DEF Init, QueueInv, Component
  <1>4. LockInv /\ DependencyInv /\ FailureInv /\ MainInv
    BY <1>1 DEF Init, LockInv, DependencyInv, FailureInv, MainInv, Built,
                Component
  <1> QED  BY <1>2, <1>3, <1>4 DEF Consistent

-----------------------------------------------------------------------------
(* Every step keeps the types.                                             *)
LEMMA TypeStep == TypeOK /\ [Next]_vars => TypeOK'
  <1> SUFFICES ASSUME TypeOK, [Next]_vars PROVE TypeOK'
    OBVIOUS
  <1> USE GraphAssumption DEF TypeOK, Phase, Occupied, Component, config, pool,
                              shared
  <1>1. CASE Take
    BY <1>1 DEF Take
  <1>2. ASSUME NEW c \in Component, NEW d \in Component, AwaitDependency(c, d)
        PROVE  TypeOK'
    BY <1>2 DEF AwaitDependency
  <1>3. ASSUME NEW c \in Component, StartBuild(c) PROVE TypeOK'
    BY <1>3 DEF StartBuild
  <1>4. ASSUME NEW c \in Component, BuildSucceeds(c) PROVE TypeOK'
    BY <1>4 DEF BuildSucceeds
  <1>5. ASSUME NEW c \in Component, BuildFails(c) PROVE TypeOK'
    BY <1>5 DEF BuildFails
  <1>6. ASSUME NEW c \in Component, RecordFailure(c) PROVE TypeOK'
    BY <1>6 DEF RecordFailure
  <1>7. ASSUME NEW c \in Component, Announce(c) PROVE TypeOK'
    BY <1>7 DEF Announce
  <1>8. CASE Main
    <2>1. CASE Submit
      BY <2>1 DEF Submit
    <2>2. CASE CancelNext
      BY <2>2 DEF CancelNext
    <2>3. CASE AllSubmitted
      BY <2>3 DEF AllSubmitted
    <2>4. CASE ObserveRaise
      BY <2>4 DEF ObserveRaise
    <2>5. CASE QueueDrained \/ JoinAndRaise \/ ReturnFailed
      BY <2>5 DEF QueueDrained, JoinAndRaise, ReturnFailed
    <2> QED  BY <1>8, <2>1, <2>2, <2>3, <2>4, <2>5 DEF Main
  <1>9. CASE UNCHANGED vars
    BY <1>9 DEF vars
  <1> QED
    BY <1>1, <1>2, <1>3, <1>4, <1>5, <1>6, <1>7, <1>8, <1>9 DEF Next, Worker

-----------------------------------------------------------------------------
(* A worker moves only a component that was taken from the queue, leaves   *)
(* the other workers, the queue and the main thread alone, and ends only   *)
(* by setting the event.                                                   *)
LEMMA WorkerMoves ==
  ASSUME TypeOK, LockInv, NEW c \in Component, Worker(c)
  PROVE  /\ pc[c] \in Occupied
         /\ pc' = [pc EXCEPT ![c] = pc'[c]]
         /\ pc'[c] \in Occupied \cup {"returned", "raised"}
         /\ UNCHANGED <<config, pool, main>>
  <1> USE DEF TypeOK, LockInv, Occupied
  <1>1. ASSUME NEW d \in Component, AwaitDependency(c, d)
        PROVE  /\ pc[c] = "waiting"
               /\ pc' = [pc EXCEPT ![c] = pc'[c]]
               /\ pc'[c] \in {"waiting", "skipping"}
               /\ UNCHANGED <<config, pool, main>>
    BY <1>1 DEF AwaitDependency
  <1>2. CASE StartBuild(c)
    BY <1>2 DEF StartBuild
  <1>3. CASE BuildSucceeds(c)
    BY <1>3 DEF BuildSucceeds
  <1>4. CASE BuildFails(c)
    BY <1>4 DEF BuildFails
  <1>5. CASE RecordFailure(c)
    BY <1>5 DEF RecordFailure
  <1>6. CASE Announce(c)
    BY <1>6 DEF Announce
  <1> QED  BY <1>1, <1>2, <1>3, <1>4, <1>5, <1>6 DEF Worker

(* The work queue: a worker and the cancelling main thread both pop the    *)
(* head, and nothing else touches it.                                      *)
LEMMA QueueStep == TypeOK /\ LockInv /\ QueueInv /\ [Next]_vars => QueueInv'
  <1> SUFFICES ASSUME TypeOK, LockInv, QueueInv, [Next]_vars PROVE QueueInv'
    OBVIOUS
  <1>0. N \in Nat
    BY GraphAssumption
  <1>1. CASE Take
    BY <1>0, <1>1 DEF Take, TypeOK, QueueInv, Component, config
  <1>2. ASSUME NEW c \in Component, Worker(c) PROVE QueueInv'
    BY <1>2, WorkerMoves DEF TypeOK, QueueInv, Occupied, config, pool
  <1>3. CASE Submit
    BY <1>3 DEF Submit, QueueInv, config
  <1>4. CASE AllSubmitted
    BY <1>4 DEF AllSubmitted, QueueInv, config, pool
  <1>5. CASE ObserveRaise
    BY <1>5 DEF ObserveRaise, QueueInv, config, pool
  <1>6. CASE CancelNext
    BY <1>0, <1>6 DEF CancelNext, TypeOK, QueueInv, Component, config
  <1>7. CASE QueueDrained
    BY <1>7 DEF QueueDrained, QueueInv, config, pool
  <1>8. CASE JoinAndRaise
    BY <1>8 DEF JoinAndRaise, QueueInv, config, pool
  <1>9. CASE ReturnFailed
    BY <1>9 DEF ReturnFailed, QueueInv, config, pool
  <1>10. CASE UNCHANGED vars
    BY <1>10 DEF vars, QueueInv, config, pool
  <1> QED
    BY <1>1, <1>2, <1>3, <1>4, <1>5, <1>6, <1>7, <1>8, <1>9, <1>10
       DEF Next, Main

-----------------------------------------------------------------------------
(* Taking a component and every step of the main thread leave the shared   *)
(* state alone; of the workers only a queued one is affected.              *)
Bystander == Take \/ Main \/ UNCHANGED vars

LEMMA BystanderMoves ==
  ASSUME TypeOK, QueueInv, Bystander
  PROVE  /\ UNCHANGED <<config, shared, checked>>
         /\ \A c \in Component :
              \/ pc'[c] = pc[c]
              \/ pc[c] = "queued" /\ pc'[c] \in {"waiting", "cancelled"}
  <1>0. /\ N \in Nat /\ submitted <= N
        /\ \A c \in Component : c = next => pc[c] = "queued"
    BY GraphAssumption DEF TypeOK, QueueInv, Component
  <1>1. CASE Take
    BY <1>0, <1>1 DEF Take, TypeOK
  <1>2. CASE CancelNext
    BY <1>0, <1>2 DEF CancelNext, TypeOK
  <1>3. CASE Submit \/ AllSubmitted \/ ObserveRaise
    BY <1>3 DEF Submit, AllSubmitted, ObserveRaise
  <1>4. CASE QueueDrained \/ JoinAndRaise \/ ReturnFailed
    BY <1>4 DEF QueueDrained, JoinAndRaise, ReturnFailed
  <1>5. CASE UNCHANGED vars
    BY <1>5 DEF vars
  <1> QED  BY <1>1, <1>2, <1>3, <1>4, <1>5 DEF Bystander, Main

LEMMA NextCases ==
  ASSUME [Next]_vars
  PROVE  Bystander \/ \E c \in Component : Worker(c)
  BY DEF Next, Bystander

(* The lock, the events and the failed list agree with the workers.        *)
LEMMA LockStep == TypeOK /\ QueueInv /\ LockInv /\ [Next]_vars => LockInv'
  <1> SUFFICES ASSUME TypeOK, QueueInv, LockInv, [Next]_vars PROVE LockInv'
    OBVIOUS
  <1>0. 0 \notin Component
    BY DEF Component
  <1>1. CASE Bystander
    BY <1>1, BystanderMoves DEF LockInv, TypeOK, shared
  <1>2. ASSUME NEW c \in Component, Worker(c) PROVE LockInv'
    <2> USE DEF LockInv, TypeOK, shared
    <2>1. ASSUME NEW d \in Component, AwaitDependency(c, d) PROVE LockInv'
      BY <2>1 DEF AwaitDependency
    <2>2. CASE StartBuild(c)
      BY <2>2 DEF StartBuild
    <2>3. CASE BuildSucceeds(c)
      BY <2>3 DEF BuildSucceeds
    <2>4. CASE BuildFails(c)
      BY <2>4 DEF BuildFails
    <2>5. CASE RecordFailure(c)
      BY <1>0, <2>5 DEF RecordFailure
    <2>6. CASE Announce(c)
      BY <1>0, <2>6 DEF Announce
    <2> QED  BY <1>2, <2>1, <2>2, <2>3, <2>4, <2>5, <2>6 DEF Worker
  <1> QED  BY <1>1, <1>2, NextCases

(* What was built stays built: a name enters the failed list before its    *)
(* event is set, so no reader of both ever sees it go.                     *)
LEMMA BuiltGrows ==
  TypeOK /\ QueueInv /\ LockInv /\ [Next]_vars => Built \subseteq Built'
  <1> SUFFICES ASSUME TypeOK, QueueInv, LockInv, [Next]_vars
               PROVE  Built \subseteq Built'
    OBVIOUS
  <1>1. CASE Bystander
    BY <1>1, BystanderMoves DEF Built, shared
  <1>2. ASSUME NEW c \in Component, Worker(c) PROVE Built \subseteq Built'
    BY <1>2 DEF Worker, AwaitDependency, StartBuild, BuildSucceeds, BuildFails,
                RecordFailure, Announce, LockInv, Built, shared
  <1> QED  BY <1>1, <1>2, NextCases

(* A worker stands only on dependencies that were built.                   *)
LEMMA DependencyStep ==
  TypeOK /\ QueueInv /\ LockInv /\ DependencyInv /\ [Next]_vars => DependencyInv'
  <1> SUFFICES ASSUME TypeOK, QueueInv, LockInv, DependencyInv, [Next]_vars
               PROVE  DependencyInv'
    OBVIOUS
  <1>0. Built \subseteq Built'
    BY BuiltGrows
  <1>1. CASE Bystander
    BY <1>1, BystanderMoves DEF DependencyInv, Built, config, shared
  <1>2. ASSUME NEW c \in Component, Worker(c) PROVE DependencyInv'
    <2> USE DEF DependencyInv, TypeOK, config, shared
    <2>1. ASSUME NEW d \in Component, AwaitDependency(c, d)
          PROVE  DependencyInv'
      BY <2>1 DEF AwaitDependency, Built
    <2>2. CASE StartBuild(c)
      BY <2>2 DEF StartBuild, Built
    <2>3. CASE BuildSucceeds(c)
      BY <2>3 DEF BuildSucceeds, Built
    <2>4. CASE BuildFails(c)
      BY <2>4 DEF BuildFails, Built
    <2>5. CASE RecordFailure(c)
      BY <1>0, <2>5 DEF RecordFailure, Built
    <2>6. CASE Announce(c)
      <3>1. /\ UNCHANGED <<config, checked, failed>>
            /\ pc'[c] \in {"returned", "raised"}
            /\ \A b \in Component \ {c} : pc'[b] = pc[b]
            /\ c \in failed
            /\ Built' = Built
        BY <1>0, <2>6 DEF Announce, Built, LockInv, Component
      <3> QED  BY <3>1
    <2> QED  BY <1>2, <2>1, <2>2, <2>3, <2>4, <2>5, <2>6 DEF Worker
  <1> QED  BY <1>1, <1>2, NextCases

(* Why a component is on the list when its worker is done.                 *)
LEMMA FailureStep ==
  TypeOK /\ QueueInv /\ LockInv /\ DependencyInv /\ FailureInv /\ [Next]_vars
    => FailureInv'
  <1> SUFFICES ASSUME TypeOK, QueueInv, LockInv, DependencyInv, FailureInv,
                      [Next]_vars
               PROVE  FailureInv'
    OBVIOUS
  <1>0. Built \subseteq Built'
    BY BuiltGrows
  <1>1. CASE Bystander
    BY <1>1, BystanderMoves DEF FailureInv, Built, config, shared
  <1>2. ASSUME NEW c \in Component, Worker(c) PROVE FailureInv'
    <2> USE DEF FailureInv, TypeOK, config, shared
    <2>1. ASSUME NEW d \in Component, AwaitDependency(c, d) PROVE FailureInv'
      BY <2>1 DEF AwaitDependency, Built
    <2>2. CASE StartBuild(c)
      BY <2>2 DEF StartBuild, Built
    <2>3. CASE BuildSucceeds(c)
      BY <1>0, <2>3 DEF BuildSucceeds, LockInv
    <2>4. CASE BuildFails(c)
      BY <2>4 DEF BuildFails, Built
    <2>5. CASE RecordFailure(c)
      BY <1>0, <2>5 DEF RecordFailure
    <2>6. CASE Announce(c)
      <3>1. /\ c \in failed /\ pc[c] \in {"failing", "skipping"}
            /\ Built' = Built /\ failed' = failed /\ UNCHANGED config
            /\ \A b \in Component \ {c} : pc'[b] = pc[b]
            /\ pc'[c] = IF Raises(c) THEN "raised" ELSE "returned"
        BY <1>0, <2>6 DEF Announce, Built, LockInv, Component
      <3>2. pc[c] = "failing" => dependencies[c] \subseteq Built
        BY DEF DependencyInv
      <3>3. pc[c] = "skipping" => dependencies[c] \cap failed # {}
        BY DEF DependencyInv
      <3> QED  BY <3>1, <3>2, <3>3 DEF Raises
    <2> QED  BY <1>2, <2>1, <2>2, <2>3, <2>4, <2>5, <2>6 DEF Worker
  <1> QED  BY <1>1, <1>2, NextCases

(* What the main thread knows from where it stands.                        *)
LEMMA MainStep ==
  TypeOK /\ QueueInv /\ LockInv /\ MainInv /\ [Next]_vars => MainInv'
  <1> SUFFICES ASSUME TypeOK, QueueInv, LockInv, MainInv, [Next]_vars
               PROVE  MainInv'
    OBVIOUS
  <1>0. N \in Nat
    BY GraphAssumption
  <1>1. CASE Take
    <2>1. main \in {"submitting", "watching", "draining"}
      BY <1>0, <1>1 DEF Take, MainInv, QueueInv, TypeOK, Component
    <2> QED  BY <1>0, <1>1, <2>1 DEF Take, MainInv, QueueInv, TypeOK, Component
  <1>2. ASSUME NEW c \in Component, Worker(c) PROVE MainInv'
    <2>1. /\ pc[c] \in Occupied
          /\ pc' = [pc EXCEPT ![c] = pc'[c]]
          /\ pc'[c] \in Occupied \cup {"returned", "raised"}
          /\ UNCHANGED <<next, main>>
      BY <1>2, WorkerMoves DEF pool
    <2>2. main \notin {"raised", "returned"}
      BY <2>1 DEF MainInv, Running, Occupied
    <2> QED  BY <2>1, <2>2 DEF MainInv, TypeOK, Occupied
  <1>3. CASE Submit
    BY <1>3 DEF Submit, MainInv
  <1>4. CASE AllSubmitted
    BY <1>4 DEF AllSubmitted, MainInv
  <1>5. CASE ObserveRaise
    BY <1>5 DEF ObserveRaise, MainInv
  <1>6. CASE CancelNext
    BY <1>0, <1>6 DEF CancelNext, MainInv, QueueInv, TypeOK, Component
  <1>7. CASE QueueDrained
    BY <1>0, <1>7 DEF QueueDrained, MainInv, QueueInv, TypeOK, pool
  <1>8. CASE JoinAndRaise
    BY <1>8 DEF JoinAndRaise, MainInv, Running, pool
  <1>9. CASE ReturnFailed
    BY <1>9 DEF ReturnFailed, MainInv
  <1>10. CASE UNCHANGED vars
    BY <1>10 DEF vars, MainInv, Running, pool
  <1> QED
    BY <1>1, <1>2, <1>3, <1>4, <1>5, <1>6, <1>7, <1>8, <1>9, <1>10
       DEF Next, Main

LEMMA StepConsistent == Consistent /\ [Next]_vars => Consistent'
  BY TypeStep, QueueStep, LockStep, DependencyStep, FailureStep, MainStep
     DEF Consistent

(* The invariant holds in every reachable state.                           *)
THEOREM Invariance == Spec => []Consistent
  BY InitConsistent, StepConsistent, PTL DEF Spec

-----------------------------------------------------------------------------
(* The properties of BuildGraph.                                           *)

(* Types, for execute_parallel() on any graph and any pool.                *)
THEOREM TypeCorrect == Spec => []TypeOK
  <1>1. Consistent => TypeOK
    BY DEF Consistent
  <1> QED  BY <1>1, Invariance, PTL

(* wait_for_deps() never lets a build start on a dependency that failed or *)
(* is unfinished.                                                          *)
THEOREM BuildsOnBuilt == Spec => []DependenciesBuiltFirst
  <1>1. Consistent => DependenciesBuiltFirst
    BY DEF Consistent, DependencyInv, DependenciesBuiltFirst
  <1> QED  BY <1>1, Invariance, PTL

(* A component is taken from the queue after everything it depends on.     *)
THEOREM QueueOrder == Spec => []TakenInDependencyOrder
  <1>1. Consistent => TakenInDependencyOrder
    <2> SUFFICES ASSUME Consistent,
                        NEW c \in Component, pc[c] # "queued",
                        NEW d \in dependencies[c]
                 PROVE  pc[d] # "queued"
      BY DEF TakenInDependencyOrder
    <2>1. N \in Nat /\ next \in Int /\ c < next
      BY GraphAssumption DEF Consistent, TypeOK, QueueInv, Component
    <2>2. d \in Component /\ d < c
      BY GraphAssumption DEF Consistent, TypeOK, QueueInv, Component
    <2> QED  BY <2>1, <2>2 DEF Consistent, QueueInv, Component
  <1> QED  BY <1>1, Invariance, PTL

(* The list that execute_parallel() returns is sound.                      *)
THEOREM SoundResult == Spec => []ReturnedListIsSound
  <1>1. Consistent => ReturnedListIsSound
    <2> SUFFICES ASSUME Consistent, main = "returned", NEW c \in Component
                 PROVE  /\ c \in failed \/ c \in Built
                        /\ dependencies[c] \cap failed # {} => c \in failed
                        /\ c \in failed /\ dependencies[c] \cap failed = {} =>
                             continueOnError /\ c \notin Required
      BY DEF ReturnedListIsSound
    <2>1. pc[c] = "returned"
      BY DEF Consistent, MainInv
    <2>2. c \in failed \/ c \in Built
      BY <2>1 DEF Consistent, LockInv, Built
    <2>3. c \in Built => dependencies[c] \cap failed = {}
      BY DEF Consistent, DependencyInv, Built
    <2> QED  BY <2>1, <2>2, <2>3 DEF Consistent, FailureInv
  <1> QED  BY <1>1, Invariance, PTL

-----------------------------------------------------------------------------
(* The refinement: what a caller of execute_parallel() sees is a run of    *)
(* DependencyBuild.                                                        *)

LEMMA StatesOfComponents ==
  ASSUME Consistent, NEW c \in Component
  PROVE  /\ StateOf(c) = "failed" <=> c \in failed
         /\ StateOf(c) = "built" <=> c \in Built
         /\ StateOf(c) = "building" <=>
               c \notin failed /\ pc[c] \in {"building", "failing"}
         /\ StateOf(c) \in {"failed", "built", "building", "todo"}
  BY DEF StateOf, Built, Consistent, LockInv

LEMMA InitRefines == Init => Abstract!Init
  <1> SUFFICES ASSUME Init PROVE Abstract!Init
    OBVIOUS
  <1>1. dependencies \in [Component -> SUBSET Component]
    BY InitConsistent DEF Consistent, TypeOK
  <1>2. \A c \in Component : StateOf(c) = "todo"
    BY DEF Init, StateOf
  <1> QED  BY <1>1, <1>2 DEF Init, Abstract!Init, Ended

(* The sets of components in a state of the abstract specification.        *)
LEMMA AbstractSets ==
  ASSUME Consistent
  PROVE  Abstract!In("built") = Built /\ Abstract!In("failed") = failed
  BY StatesOfComponents DEF Abstract!In, Built, Consistent, TypeOK

(* When a step changes the state of c only, from `from` to `to`, it is a   *)
(* move of the abstract specification.                                     *)
LEMMA VisibleMove ==
  ASSUME NEW c \in Component, NEW from, NEW to, ~Ended, ~Ended',
         UNCHANGED config, StateOf(c) = from, StateOf(c)' = to,
         \A b \in Component \ {c} : StateOf(b)' = StateOf(b)
  PROVE  Abstract!Move(c, from, to)
  BY DEF Abstract!Move, config

(* A step that shows nothing to the caller.                                *)
LEMMA Invisible ==
  ASSUME Ended' <=> Ended, Ended => main' = main, UNCHANGED config,
         \A b \in Component : StateOf(b)' = StateOf(b)
  PROVE  UNCHANGED Abstract!abstractVars
  BY DEF Abstract!abstractVars, config

LEMMA WorkerRefines ==
  ASSUME Consistent, NEW c \in Component, Worker(c)
  PROVE  [Abstract!Next]_(Abstract!abstractVars)
  <1> USE DEF Consistent
  <1>1. /\ pc[c] \in Occupied
        /\ pc' = [pc EXCEPT ![c] = pc'[c]]
        /\ UNCHANGED <<config, main>>
    BY WorkerMoves
  <1>2. ~Ended /\ ~Ended'
    BY <1>1 DEF Ended, MainInv, Running, Occupied
  <1>3. \A b \in Component \ {c} : pc'[b] = pc[b]
    BY <1>1 DEF TypeOK
  <1>4. ASSUME NEW d \in Component, AwaitDependency(c, d)
        PROVE  UNCHANGED Abstract!abstractVars
    <2>1. \A b \in Component : StateOf(b)' = StateOf(b)
      BY <1>4, <1>3 DEF AwaitDependency, StateOf, TypeOK, shared
    <2> QED  BY <2>1, <1>1, <1>2, Invisible
  <1>5. CASE StartBuild(c)
    <2>1. /\ StateOf(c) = "todo" /\ StateOf(c)' = "building"
          /\ \A b \in Component \ {c} : StateOf(b)' = StateOf(b)
      BY <1>5, <1>3 DEF StartBuild, StateOf, TypeOK, LockInv, shared
    <2>2. dependencies[c] \subseteq Built
      BY <1>5 DEF StartBuild, DependencyInv
    <2>3. Abstract!Move(c, "todo", "building")
      BY <2>1, <1>1, <1>2, VisibleMove
    <2> QED  BY <2>2, <2>3, AbstractSets DEF Abstract!Next, Abstract!Start
  <1>6. CASE BuildSucceeds(c)
    <2>1. /\ StateOf(c) = "building" /\ StateOf(c)' = "built"
          /\ \A b \in Component \ {c} : StateOf(b)' = StateOf(b)
      BY <1>6, <1>3 DEF BuildSucceeds, StateOf, TypeOK, LockInv
    <2>2. Abstract!Move(c, "building", "built")
      BY <2>1, <1>1, <1>2, VisibleMove
    <2> QED  BY <2>2 DEF Abstract!Next, Abstract!Succeed
  <1>7. CASE BuildFails(c)
    <2>1. \A b \in Component : StateOf(b)' = StateOf(b)
      BY <1>7, <1>3 DEF BuildFails, StateOf, TypeOK, shared
    <2> QED  BY <2>1, <1>1, <1>2, Invisible
  <1>8. CASE RecordFailure(c)
    <2>1. \A b \in Component \ {c} : StateOf(b)' = StateOf(b)
      BY <1>8 DEF RecordFailure, StateOf
    <2>2. StateOf(c)' = "failed"
      BY <1>8 DEF RecordFailure, StateOf
    <2>3. CASE pc[c] = "failing"
      <3>1. StateOf(c) = "building"
        BY <2>3, <1>8 DEF RecordFailure, StateOf, LockInv, Component
      <3>2. Abstract!Move(c, "building", "failed")
        BY <3>1, <2>1, <2>2, <1>1, <1>2, VisibleMove
      <3> QED  BY <3>2 DEF Abstract!Next, Abstract!Fail
    <2>4. CASE pc[c] = "skipping"
      <3>1. StateOf(c) = "todo"
        BY <2>4, <1>8 DEF RecordFailure, StateOf, LockInv, Component
      <3>2. Abstract!Move(c, "todo", "failed")
        BY <3>1, <2>1, <2>2, <1>1, <1>2, VisibleMove
      <3>3. dependencies[c] \cap failed # {}
        BY <2>4 DEF DependencyInv
      <3> QED  BY <3>2, <3>3, AbstractSets DEF Abstract!Next, Abstract!Skip
    <2> QED  BY <2>3, <2>4, <1>8 DEF RecordFailure
  <1>9. CASE Announce(c)
    <2>1. \A b \in Component : StateOf(b)' = StateOf(b)
      BY <1>9, <1>3 DEF Announce, StateOf, TypeOK, LockInv, Component
    <2> QED  BY <2>1, <1>1, <1>2, Invisible
  <1> QED
    BY <1>4, <1>5, <1>6, <1>7, <1>8, <1>9 DEF Worker

(* Everything else is invisible, except the end of the call.               *)
LEMMA BystanderRefines ==
  ASSUME Consistent, Bystander
  PROVE  [Abstract!Next]_(Abstract!abstractVars)
  <1> USE DEF Consistent
  <1>1. UNCHANGED config /\ UNCHANGED <<continueOnError, dependencies>>
    BY BystanderMoves DEF config
  <1>2. \A b \in Component : StateOf(b)' = StateOf(b)
    BY BystanderMoves DEF StateOf, shared
  <1>3. CASE JoinAndRaise
    <2>1. /\ ~Ended /\ Ended' /\ main' = "raised"
      BY <1>3 DEF JoinAndRaise, Ended
    <2>2. Abstract!End("raised")
      BY <2>1, <1>1, <1>2 DEF Abstract!End
    <2>3. Abstract!In("building") = {}
      BY <1>3, StatesOfComponents
         DEF JoinAndRaise, Running, Occupied, Abstract!In
    <2>4. PICK c \in Component : pc[c] = "raised"
      BY <1>3 DEF JoinAndRaise, MainInv
    <2>5. Abstract!Intolerable(c)
      BY <2>4, AbstractSets, StatesOfComponents
         DEF FailureInv, Abstract!Intolerable
    <2> QED  BY <2>2, <2>3, <2>5 DEF Abstract!Raise, Abstract!Next
  <1>4. CASE ReturnFailed
    <2>1. /\ ~Ended /\ Ended' /\ main' = "returned"
      BY <1>4 DEF ReturnFailed, Ended
    <2>2. Abstract!End("returned")
      BY <2>1, <1>1, <1>2 DEF Abstract!End
    <2>3. \A c \in Component : pc[c] = "returned"
      BY <1>4 DEF ReturnFailed
    <2>4. Component = Built \cup failed
      BY <2>3 DEF LockInv, Built, TypeOK
    <2>5. ASSUME NEW c \in Component PROVE ~Abstract!Intolerable(c)
      BY <2>3, AbstractSets, StatesOfComponents
         DEF FailureInv, Abstract!Intolerable, Built
    <2> QED
      BY <2>2, <2>4, <2>5, AbstractSets DEF Abstract!Return, Abstract!Next
  <1>5. CASE Take \/ CancelNext \/ UNCHANGED vars
    <2>1. main' = main
      BY <1>5 DEF Take, CancelNext, vars
    <2> QED  BY <2>1, <1>1, <1>2, Invisible DEF Ended
  <1>6. CASE Submit \/ AllSubmitted \/ ObserveRaise \/ QueueDrained
    <2>1. ~Ended /\ ~Ended'
      BY <1>6 DEF Submit, AllSubmitted, ObserveRaise, QueueDrained, Ended
    <2> QED  BY <2>1, <1>1, <1>2, Invisible
  <1> QED  BY <1>3, <1>4, <1>5, <1>6 DEF Bystander, Main

(* Threads, events, the lock and the queue implement the promise of        *)
(* DependencyBuild for every graph, pool size and schedule.                *)
THEOREM Refinement == Spec => ImplementsDependencyBuild
  <1>1. Consistent /\ [Next]_vars => [Abstract!Next]_(Abstract!abstractVars)
    BY NextCases, WorkerRefines, BystanderRefines
  <1> QED
    BY InitRefines, <1>1, Invariance, PTL
       DEF Spec, ImplementsDependencyBuild, Abstract!Spec

=============================================================================
