--------------------------- MODULE ScheduledBuild ---------------------------
(***************************************************************************)
(* The scheduled builds of one manifest and job: the check job of          *)
(* .github/workflows/_scheduled-build.yml locks the manifest, looks its    *)
(* SHA up, dispatches a build of a new one, watches that build and records *)
(* the SHA when it succeeded.  The build runs by itself: it resolves the   *)
(* branches again when it starts, and outlives its watcher, which ends     *)
(* after 300 minutes or at the first failing poll.                         *)
(*                                                                         *)
(* A SHA stands for the commits of all components; they only move forward. *)
(***************************************************************************)
EXTENDS Integers, FiniteSets, Sequences

CONSTANTS
  MaxHead,      \* bound on the commits
  MaxFaults     \* bound on failed builds and on checks that die

ASSUME ScheduleAssumption == MaxHead \in Nat /\ MaxFaults \in Nat

(* A check run: whether the build it may dispatch publishes, and the       *)
(* `live` output of its setup job.                                         *)
Run == [publishes : BOOLEAN, live : BOOLEAN]
None == [publishes |-> FALSE, live |-> FALSE]

VARIABLES
  head,       \* what ./build.sh --lock would resolve now
  liveVar,    \* the repository variable SCHEDULED_BUILDS_LIVE
  queued,     \* the check run that waits for the concurrency group
  check,      \* the check run that holds it
  step,       \* its step: idle, lock, lookup, dispatch, watch or record
  sha,        \* of its lock
  builds,     \* the dispatched builds
  recorded,   \* the SHAs stored for builds that publish
  dryRun,     \* the SHAs stored for builds that do not
  faults

world  == <<head, liveVar>>
holder == <<check, step, sha>>
stores == <<recorded, dryRun>>
vars == <<world, queued, holder, builds, stores, faults>>

NotYet == -1
Sha == 0 .. MaxHead

Init ==
  /\ head = 0
  /\ liveVar \in BOOLEAN
  /\ queued = None /\ check = None
  /\ step = "idle" /\ sha = NotYet
  /\ builds = <<>>
  /\ recorded = {} /\ dryRun = {}
  /\ faults = 0

Fault ==
  /\ faults < MaxFaults
  /\ faults' = faults + 1

-----------------------------------------------------------------------------
(* The world.                                                              *)

Push ==
  /\ head < MaxHead
  /\ head' = head + 1
  /\ UNCHANGED <<liveVar, queued, holder, builds, stores, faults>>

GoLive ==
  /\ ~liveVar
  /\ liveVar' = TRUE
  /\ UNCHANGED <<head, queued, holder, builds, stores, faults>>

(* What triggers a check: workflow_dispatch inputs are always live, a      *)
(* schedule tick is when the variable says so.                             *)
Scheduled == [publishes |-> TRUE, live |-> liveVar]
Triggered == {Scheduled} \cup [publishes : BOOLEAN, live : {TRUE}]

(* A run joins the concurrency group; GitHub keeps the newest pending one. *)
Arrive(r) ==
  /\ queued' = r
  /\ UNCHANGED <<world, holder, builds, stores, faults>>

-----------------------------------------------------------------------------
(* The check job.                                                          *)

(* The group is free: the pending run takes it.                            *)
StartCheck ==
  /\ step = "idle" /\ queued # None
  /\ check' = queued /\ queued' = None
  /\ step' = "lock"
  /\ UNCHANGED <<world, sha, builds, stores, faults>>

(* ./build.sh <manifest> --lock                                            *)
LockManifest ==
  /\ step = "lock"
  /\ sha' = head
  /\ step' = "lookup"
  /\ UNCHANGED <<world, queued, check, builds, stores, faults>>

EndCheck == step' = "idle" /\ check' = None /\ sha' = NotYet

(* Fault: a single store for the SHAs of both kinds of builds.             *)
OneStore(r) == recorded \cup dryRun

Store(r) == IF r.publishes THEN recorded ELSE dryRun

(* The look-up, and the decision: what is stored is skipped, and a run     *)
(* that is not live dispatches nothing.                                    *)
Lookup ==
  /\ step = "lookup"
  /\ IF sha \in Store(check) \/ ~check.live
     THEN EndCheck
     ELSE step' = "dispatch" /\ UNCHANGED <<check, sha>>
  /\ UNCHANGED <<world, queued, builds, stores, faults>>

(* `sha` is the lock of the check; `at` what the build itself resolves.    *)
NewBuild(watched) ==
  [sha |-> sha, publishes |-> check.publishes, at |-> NotYet,
   state |-> "queued", watched |-> watched]

Dispatch ==
  /\ step = "dispatch"
  /\ builds' = Append(builds, NewBuild(TRUE))
  /\ step' = "watch"
  /\ UNCHANGED <<world, queued, check, sha, stores, faults>>

(* The dispatch fails, or the answer to one that was accepted is lost.     *)
DispatchFails ==
  /\ step = "dispatch"
  /\ builds' \in {builds, Append(builds, NewBuild(FALSE))}
  /\ EndCheck
  /\ Fault
  /\ UNCHANGED <<world, queued, stores>>

Watched == Len(builds)

WatchSucceeds ==
  /\ step = "watch"
  /\ builds[Watched].state = "success"
  /\ step' = "record"
  /\ UNCHANGED <<world, queued, check, sha, builds, stores, faults>>

WatchFails ==
  /\ step = "watch"
  /\ builds[Watched].state = "failure"
  /\ EndCheck
  /\ UNCHANGED <<world, queued, builds, stores, faults>>

(* Fault: the lock is taken again before it is recorded.                   *)
RelockAndRecord ==
  /\ step = "record"
  /\ IF check.publishes
     THEN recorded' = recorded \cup {head} /\ UNCHANGED dryRun
     ELSE dryRun' = dryRun \cup {head} /\ UNCHANGED recorded
  /\ EndCheck
  /\ UNCHANGED <<world, queued, builds, faults>>

(* Fault: every SHA goes to the store the schedule reads.                  *)
RecordInOneStore ==
  /\ step = "record"
  /\ recorded' = recorded \cup {sha}
  /\ EndCheck
  /\ UNCHANGED <<world, queued, builds, dryRun, faults>>

(* Fault: only builds that publish are recorded.                           *)
RecordPublished ==
  /\ step = "record"
  /\ recorded' = IF check.publishes THEN recorded \cup {sha} ELSE recorded
  /\ EndCheck
  /\ UNCHANGED <<world, queued, builds, dryRun, faults>>

(* The SHA of the check's lock goes to the store of this kind of build.    *)
Record ==
  /\ step = "record"
  /\ IF check.publishes
     THEN recorded' = recorded \cup {sha} /\ UNCHANGED dryRun
     ELSE dryRun' = dryRun \cup {sha} /\ UNCHANGED recorded
  /\ EndCheck
  /\ UNCHANGED <<world, queued, builds, faults>>

(* A step of the check fails, a poll for instance, or its time is up; the  *)
(* dispatched build goes on.                                               *)
CheckDies ==
  /\ step # "idle"
  /\ builds' = IF step \in {"watch", "record"}
               THEN [builds EXCEPT ![Watched].watched = FALSE] ELSE builds
  /\ EndCheck
  /\ Fault
  /\ UNCHANGED <<world, queued, stores>>

-----------------------------------------------------------------------------
(* The dispatched build (external): it checks the branches out at its own  *)
(* time, and ends one way or the other.                                    *)

Checkout(b) ==
  /\ builds[b].state = "queued"
  /\ builds' = [builds EXCEPT ![b].state = "building", ![b].at = head]
  /\ UNCHANGED <<world, queued, holder, stores, faults>>

BuildSucceeds(b) ==
  /\ builds[b].state = "building"
  /\ builds' = [builds EXCEPT ![b].state = "success"]
  /\ UNCHANGED <<world, queued, holder, stores, faults>>

BuildFails(b) ==
  /\ builds[b].state = "building"
  /\ builds' = [builds EXCEPT ![b].state = "failure"]
  /\ Fault
  /\ UNCHANGED <<world, queued, holder, stores>>

-----------------------------------------------------------------------------
Check ==
  \/ StartCheck \/ LockManifest \/ Lookup \/ Dispatch
  \/ WatchSucceeds \/ WatchFails \/ Record

Build == \E b \in DOMAIN builds : Checkout(b) \/ BuildSucceeds(b)

Next ==
  \/ Push \/ GoLive
  \/ \E r \in Triggered : Arrive(r)
  \/ Check \/ DispatchFails \/ CheckDies
  \/ Build \/ \E b \in DOMAIN builds : BuildFails(b)

Spec == Init /\ [][Next]_vars

(* The check and the builds go on.  The schedule keeps ticking, also while *)
(* the group is free, and its run is not displaced by manual ones forever. *)
Fairness ==
  /\ WF_vars(Check) /\ WF_vars(Build)
  /\ SF_vars(step = "idle" /\ Arrive(Scheduled))
  /\ SF_vars(queued = Scheduled /\ liveVar /\ StartCheck)

FairSpec == Spec /\ Fairness

-----------------------------------------------------------------------------
(* Properties.                                                             *)

Dispatched ==
  [sha : Sha, publishes : BOOLEAN, at : Sha \cup {NotYet},
   state : {"queued", "building", "success", "failure"}, watched : BOOLEAN]

(* Every variable keeps its type; an idle group holds no check.            *)
TypeOK ==
  /\ head \in Sha /\ liveVar \in BOOLEAN
  /\ queued \in Run /\ check \in Run
  /\ step \in {"idle", "lock", "lookup", "dispatch", "watch", "record"}
  /\ sha \in IF step \in {"idle", "lock"} THEN {NotYet} ELSE Sha
  /\ step = "idle" => check = None
  /\ builds \in Seq(Dispatched)
  /\ recorded \subseteq Sha /\ dryRun \subseteq Sha
  /\ faults \in 0 .. MaxFaults

Built(s, publishing) ==
  \E b \in DOMAIN builds :
    /\ builds[b].sha = s /\ builds[b].publishes = publishing
    /\ builds[b].state = "success" /\ builds[b].at >= s

(* A SHA is stored only after a build of its kind succeeded with its       *)
(* commits or later ones: commits pushed while a build is running are not  *)
(* recorded with it, so the next check still sees them as new              *)
(* (_scheduled-build.yml: Record the manifest SHA).                        *)
RecordedWasBuilt ==
  /\ \A s \in recorded : Built(s, TRUE)
  /\ \A s \in dryRun : Built(s, FALSE)

Again(a, b) ==
  /\ a < b
  /\ builds[a].sha = builds[b].sha
  /\ builds[a].publishes = builds[b].publishes

(* One SHA is dispatched twice for one kind of build only when the first   *)
(* build failed or lost its watcher (_scheduled-build.yml: Decide).        *)
RebuiltOnlyUnrecorded ==
  \A a, b \in DOMAIN builds :
    Again(a, b) => builds[a].state = "failure" \/ ~builds[a].watched

(* What makes the two of them inductive: a lock and a checkout are never   *)
(* ahead of the branches, nor a checkout behind the lock it is built for;  *)
(* the check watches the last build, which has its SHA; a build that kept  *)
(* its watcher has failed or is on record; and nothing is recorded between *)
(* a look-up and its dispatch.                                             *)
OrderInv ==
  /\ sha <= head
  /\ \A b \in DOMAIN builds :
       /\ builds[b].sha <= head
       /\ builds[b].state = "queued" \/ builds[b].at \in builds[b].sha .. head

Holds(b) == b = Watched /\ step \in {"watch", "record"}

WatchInv ==
  /\ step \in {"watch", "record"} =>
       /\ Watched > 0
       /\ builds[Watched].sha = sha
       /\ builds[Watched].publishes = check.publishes
  /\ step = "record" => builds[Watched].state = "success"

RecordInv ==
  \A b \in DOMAIN builds :
    \/ ~builds[b].watched \/ Holds(b)
    \/ builds[b].state = "failure"
    \/ builds[b].state = "success" /\ builds[b].sha \in Store(builds[b])

DispatchInv == step = "dispatch" => sha \notin Store(check)

(* Every build is accounted for: it has failed, or it is recorded, or the  *)
(* check that holds the group watches it, or its watcher is lost; and the  *)
(* check only dispatches what is not recorded.                             *)
Consistent ==
  /\ TypeOK /\ OrderInv /\ WatchInv /\ RecordInv /\ DispatchInv
  /\ RecordedWasBuilt /\ RebuiltOnlyUnrecorded

(* Once the schedule is live, the newest lock is built and recorded by a   *)
(* build that publishes, whatever dry runs were asked for in between       *)
(* (scheduled_builds.py row: "so it never suppresses the scheduled build").*)
NewestIsRecorded == liveVar ~> head \in recorded

(* The comment on the concurrency group: the queued run "finds the SHA the *)
(* running build recorded (or retries a build that failed)".  The build of *)
(* a check that died is neither, and is built again.                       *)
QueuedRunFindsOrRetries ==
  \A a, b \in DOMAIN builds : Again(a, b) => builds[a].state = "failure"

=============================================================================
