----------------------------- MODULE BuildGraph -----------------------------
(***************************************************************************)
(* The parallel build scheduler, src/build_workflow/build_graph.py.        *)
(*                                                                         *)
(* execute_parallel() submits every component at once, in the order in     *)
(* which it was added, to a ThreadPoolExecutor.  A worker that picks up a  *)
(* component first waits for the completed_event of each dependency, then  *)
(* builds.  A failure is appended to the shared list `failed` and the      *)
(* event set, both under one lock; a failure that must not be tolerated    *)
(* makes the future raise, upon which the main thread cancels whatever is  *)
(* still queued and waits for the running workers.                         *)
(*                                                                         *)
(* A component is the position at which add_component() added it.          *)
(***************************************************************************)
EXTENDS Integers, FiniteSets

CONSTANTS
  N,            \* number of components added to the graph
  MaxWorkers,   \* max_workers of the ThreadPoolExecutor
  Required,     \* the components named in required_components
  DependsOn     \* the possible depends_on lists: a set of functions

Component == 1 .. N

(* A manifest in which a component lists itself is excluded: add_component *)
(* would keep that dependency (the name is appended before the lists are   *)
(* compared) and the component would wait for its own event forever.       *)
ASSUME GraphAssumption ==
  /\ N \in Nat
  /\ MaxWorkers \in Nat \ {0}
  /\ Required \subseteq Component
  /\ DependsOn \subseteq [Component -> SUBSET Component]
  /\ \A want \in DependsOn : \A c \in Component : c \notin want[c]

VARIABLES
  continueOnError,  \* the --continue-on-error flag
  dependencies,     \* self.dependencies
  submitted,        \* components 1..submitted were handed to the executor
  next,             \* next..submitted is the executor's work queue (a FIFO)
  pc,               \* where the worker of each component stands
  checked,          \* the dependencies wait_for_deps() has found completed
  failed,           \* the shared list of failed names (order abstracted)
  event,            \* the components whose completed_event is set
  lock,             \* the worker that holds `lock`, 0 when it is free
  main              \* where execute_parallel() itself stands

config  == <<continueOnError, dependencies>>
pool    == <<submitted, next>>
shared  == <<failed, event, lock>>
vars    == <<config, pool, shared, pc, checked, main>>

-----------------------------------------------------------------------------
(* add_component() keeps a dependency only when it is already in the       *)
(* graph, so what is listed later in the manifest is dropped.              *)
AnyDependency(want) == want

AddComponents(want) == [c \in Component |-> want[c] \cap (1 .. c)]

Init ==
  /\ continueOnError \in BOOLEAN
  /\ dependencies \in {AddComponents(want) : want \in DependsOn}
  /\ submitted = 0
  /\ next = 1
  /\ pc = [c \in Component |-> "queued"]
  /\ checked = [c \in Component |-> {}]
  /\ failed = {}
  /\ event = {}
  /\ lock = 0
  /\ main = "submitting"

(* A worker thread is occupied from the moment it takes a component until  *)
(* run_component() returns or raises.                                      *)
Occupied == {"waiting", "building", "failing", "skipping"}
Running == {c \in Component : pc[c] \in Occupied}

-----------------------------------------------------------------------------
(* The workers.                                                            *)

(* An idle worker thread pops the head of the work queue.                  *)
Take ==
  /\ next <= submitted
  /\ Cardinality(Running) < MaxWorkers
  /\ pc' = [pc EXCEPT ![next] = "waiting"]
  /\ next' = next + 1
  /\ UNCHANGED <<config, submitted, shared, checked, main>>

(* wait_for_deps(): the event of dependency d is set; under the lock the   *)
(* worker looks whether d is among the failed.  The iteration order of the *)
(* dependency set is arbitrary, and the first failed one ends it.          *)
AwaitDependency(c, d) ==
  /\ pc[c] = "waiting"
  /\ d \in dependencies[c] \ checked[c]
  /\ d \in event
  /\ lock = 0
  /\ IF d \in failed
     THEN pc' = [pc EXCEPT ![c] = "skipping"] /\ UNCHANGED checked
     ELSE checked' = [checked EXCEPT ![c] = @ \cup {d}] /\ UNCHANGED pc
  /\ UNCHANGED <<config, pool, shared, main>>

(* Fault: build as soon as any one dependency is completed.                *)
StartBuildEarly(c) ==
  /\ pc[c] = "waiting"
  /\ dependencies[c] = {} \/ checked[c] # {}
  /\ pc' = [pc EXCEPT ![c] = "building"]
  /\ UNCHANGED <<config, pool, shared, checked, main>>

(* Every dependency is completed and none failed: build_fn(name) starts.   *)
StartBuild(c) ==
  /\ pc[c] = "waiting"
  /\ dependencies[c] \subseteq checked[c]
  /\ pc' = [pc EXCEPT ![c] = "building"]
  /\ UNCHANGED <<config, pool, shared, checked, main>>

(* build_fn(name) returns: the event is set without the lock.              *)
BuildSucceeds(c) ==
  /\ pc[c] = "building"
  /\ event' = event \cup {c}
  /\ pc' = [pc EXCEPT ![c] = "returned"]
  /\ UNCHANGED <<config, pool, checked, failed, lock, main>>

(* build_fn(name) raises an Exception.                                     *)
BuildFails(c) ==
  /\ pc[c] = "building"
  /\ pc' = [pc EXCEPT ![c] = "failing"]
  /\ UNCHANGED <<config, pool, shared, checked, main>>

(* `with lock: failed.append(name)`, of a failed and of a skipped build.   *)
RecordFailure(c) ==
  /\ pc[c] \in {"failing", "skipping"}
  /\ lock = 0
  /\ lock' = c
  /\ failed' = failed \cup {c}
  /\ UNCHANGED <<config, pool, pc, checked, event, main>>

(* A skipped component and a tolerated failure return the name; any other  *)
(* failure is raised again.                                                *)
Raises(c) == pc[c] = "failing" /\ (~continueOnError \/ c \in Required)

(* Fault: --continue-on-error tolerates the required components too.       *)
AnnounceTolerant(c) ==
  /\ lock = c
  /\ event' = event \cup {c}
  /\ lock' = 0
  /\ pc' = [pc EXCEPT ![c] = IF pc[c] = "failing" /\ ~continueOnError
                             THEN "raised" ELSE "returned"]
  /\ UNCHANGED <<config, pool, checked, failed, main>>

(* Fault: the event of a failed component is never set.                    *)
AnnounceSilently(c) ==
  /\ lock = c
  /\ lock' = 0
  /\ pc' = [pc EXCEPT ![c] = IF Raises(c) THEN "raised" ELSE "returned"]
  /\ UNCHANGED <<config, pool, checked, failed, event, main>>

(* `completed_event[name].set()` and the end of the locked section.        *)
Announce(c) ==
  /\ lock = c
  /\ event' = event \cup {c}
  /\ lock' = 0
  /\ pc' = [pc EXCEPT ![c] = IF Raises(c) THEN "raised" ELSE "returned"]
  /\ UNCHANGED <<config, pool, checked, failed, main>>

-----------------------------------------------------------------------------
(* The thread that called execute_parallel().                              *)

Submit ==
  /\ main = "submitting"
  /\ submitted < N
  /\ submitted' = submitted + 1
  /\ UNCHANGED <<config, next, shared, pc, checked, main>>

AllSubmitted ==
  /\ main = "submitting"
  /\ submitted = N
  /\ main' = "watching"
  /\ UNCHANGED <<config, pool, shared, pc, checked>>

(* as_completed() yields a future whose result() raises: the executor is   *)
(* shut down with cancel_futures=True.                                     *)
ObserveRaise ==
  /\ main = "watching"
  /\ \E c \in Component : pc[c] = "raised"
  /\ main' = "draining"
  /\ UNCHANGED <<config, pool, shared, pc, checked>>

(* Fault: the drain does not notice that a worker took the last item.      *)
CancelPastEnd ==
  /\ main = "draining"
  /\ pc' = [c \in Component |-> IF c = next THEN "cancelled" ELSE pc[c]]
  /\ next' = next + 1
  /\ UNCHANGED <<config, submitted, shared, checked, main>>

(* shutdown() pops the work queue item by item and cancels what it pops.   *)
(* Workers keep taking from the same queue: nothing locks them out.        *)
CancelNext ==
  /\ main = "draining"
  /\ next <= submitted
  /\ pc' = [pc EXCEPT ![next] = "cancelled"]
  /\ next' = next + 1
  /\ UNCHANGED <<config, submitted, shared, checked, main>>

QueueDrained ==
  /\ main = "draining"
  /\ next > submitted
  /\ main' = "joining"
  /\ UNCHANGED <<config, pool, shared, pc, checked>>

(* Fault: the exception leaves without joining the worker threads.         *)
LeaveWithoutJoin ==
  /\ main = "joining"
  /\ main' = "raised"
  /\ UNCHANGED <<config, pool, shared, pc, checked>>

(* Leaving the `with` block joins the worker threads, then the exception   *)
(* of the future leaves execute_parallel().                                *)
JoinAndRaise ==
  /\ main = "joining"
  /\ Running = {}
  /\ main' = "raised"
  /\ UNCHANGED <<config, pool, shared, pc, checked>>

(* Every future is completed and none raised: `return failed`.             *)
ReturnFailed ==
  /\ main = "watching"
  /\ \A c \in Component : pc[c] = "returned"
  /\ main' = "returned"
  /\ UNCHANGED <<config, pool, shared, pc, checked>>

-----------------------------------------------------------------------------
Worker(c) ==
  \/ \E d \in Component : AwaitDependency(c, d)
  \/ StartBuild(c)
  \/ BuildSucceeds(c)
  \/ BuildFails(c)
  \/ RecordFailure(c)
  \/ Announce(c)

Main ==
  \/ Submit
  \/ AllSubmitted
  \/ ObserveRaise
  \/ CancelNext
  \/ QueueDrained
  \/ JoinAndRaise
  \/ ReturnFailed

Next == Take \/ Main \/ \E c \in Component : Worker(c)

(* Python threads are all scheduled.  A pool may hold fewer threads than   *)
(* max_workers (a released idle permit suppresses a new thread), so an     *)
(* idle pool takes work, but a partly busy one is not required to.         *)
TakeWhenIdle == Running = {} /\ Take

Fairness ==
  /\ WF_vars(TakeWhenIdle)
  /\ WF_vars(Main)
  /\ \A c \in Component : WF_vars(Worker(c))

Spec == Init /\ [][Next]_vars
FairSpec == Spec /\ Fairness

-----------------------------------------------------------------------------
Phase == Occupied \cup {"queued", "returned", "raised", "cancelled"}

(* Every variable keeps its type, and the queue never runs past what was   *)
(* submitted, whoever pops it.                                             *)
TypeOK ==
  /\ continueOnError \in BOOLEAN
  /\ dependencies \in [Component -> SUBSET Component]
  /\ submitted \in 0 .. N
  /\ next \in 1 .. submitted + 1
  /\ pc \in [Component -> Phase]
  /\ checked \in [Component -> SUBSET Component]
  /\ failed \subseteq Component
  /\ event \subseteq Component
  /\ lock \in 0 .. N
  /\ main \in {"submitting", "watching", "draining", "joining",
               "returned", "raised"}

Built == event \ failed
Ended == main \in {"returned", "raised"}

(* A component builds only on top of dependencies that were all built:     *)
(* wait_for_deps() neither misses a failure recorded by another thread nor *)
(* reads the list before it is complete.                                   *)
DependenciesBuiltFirst ==
  \A c \in Component :
    pc[c] = "building" \/ c \in Built => dependencies[c] \subseteq Built

(* The list a normal return hands out is closed under dependents, holds    *)
(* everything that was not built, and every root cause in it was a failure *)
(* the caller allowed: a required component never fails on its own behind  *)
(* a normal return, and without --continue-on-error nothing does.          *)
ReturnedListIsSound ==
  main = "returned" =>
    \A c \in Component :
      /\ c \in failed \/ c \in Built
      /\ dependencies[c] \cap failed # {} => c \in failed
      /\ c \in failed /\ dependencies[c] \cap failed = {} =>
           continueOnError /\ c \notin Required

(* A worker whose dependency was cancelled: the event it waits for is set  *)
(* by nobody.                                                              *)
Orphaned(c) ==
  /\ pc[c] = "waiting"
  /\ \E d \in dependencies[c] : pc[d] = "cancelled"

(* The FIFO queue alone keeps the pool from filling up with waiters: until *)
(* the main thread cancels, what a taken component depends on was taken    *)
(* before it, so some worker can always move.                              *)
TakenInDependencyOrder ==
  (\A d \in Component : pc[d] # "cancelled") =>
    \A c \in Component : pc[c] # "queued" =>
      \A d \in dependencies[c] : pc[d] # "queued"

(* What makes both of them inductive: the queue is exactly what was not    *)
(* taken; events, failures and the lock agree with where the workers       *)
(* stand; and what a worker has checked stays true under the other workers,*)
(* because a name is on the list before its event is set.                  *)
QueueInv ==
  /\ \A c \in Component : dependencies[c] \subseteq 1 .. (c - 1)
  /\ \A c \in Component : pc[c] = "queued" <=> c >= next
  /\ main # "submitting" => submitted = N

LockInv ==
  /\ \A c \in Component : c \in event <=> pc[c] \in {"returned", "raised"}
  /\ \A c \in Component : lock = c => pc[c] \in {"failing", "skipping"}
  /\ \A c \in failed : pc[c] \in {"returned", "raised"} \/ lock = c
  /\ lock # 0 => lock \in failed

DependencyInv ==
  \A c \in Component :
    /\ checked[c] \subseteq Built
    /\ pc[c] \in {"building", "failing"} \/ c \in Built
         => dependencies[c] \subseteq Built
    /\ pc[c] = "skipping" => dependencies[c] \cap failed # {}

FailureInv ==
  \A c \in Component :
    /\ pc[c] = "raised" =>
         /\ c \in failed
         /\ dependencies[c] \subseteq Built
         /\ ~continueOnError \/ c \in Required
    /\ pc[c] = "returned" /\ c \in failed =>
         \/ dependencies[c] \cap failed # {}
         \/ continueOnError /\ c \notin Required

MainInv ==
  /\ main \in {"draining", "joining", "raised"} =>
       \E c \in Component : pc[c] = "raised"
  /\ main \in {"submitting", "watching"} =>
       \A c \in Component : pc[c] # "cancelled"
  /\ main \in {"joining", "raised"} => next > N
  /\ main = "raised" => Running = {}
  /\ main = "returned" => \A c \in Component : pc[c] = "returned"

Consistent ==
  TypeOK /\ QueueInv /\ LockInv /\ DependencyInv /\ FailureInv /\ MainInv

(* execute_parallel() ends unless the cancellation orphans a worker; with  *)
(* no intolerable failure it always ends, however small the pool.          *)
EndsUnlessOrphaned ==
  <>(Ended \/ \E c \in Component : Orphaned(c))

(* The scheduler implements the sequential promise of DependencyBuild: a   *)
(* component is failed there from the moment its name is on the list.      *)
StateOf(c) ==
  IF c \in failed THEN "failed"
  ELSE IF c \in event THEN "built"
  ELSE IF pc[c] \in {"building", "failing"} THEN "building"
  ELSE "todo"

Abstract == INSTANCE DependencyBuild WITH
  state   <- [c \in Component |-> StateOf(c)],
  outcome <- IF Ended THEN main ELSE "running"

ImplementsDependencyBuild == Abstract!Spec

(* What the callers and the tests expect of a failed build: the call ends. *)
AlwaysEnds == <>Ended

=============================================================================
