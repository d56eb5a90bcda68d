---------------------------- MODULE BuildNumbers ----------------------------
(***************************************************************************)
(* The build and test numbers that replace Jenkins' BUILD_NUMBER           *)
(* (build_number.py).  GitHub counts the runs of every workflow file on    *)
(* its own; a reusable workflow, such as the integration tests, runs on    *)
(* its own counter when it is dispatched and on its caller's when it is    *)
(* called.  A number names the keys and the records of a run, and orders   *)
(* them where only the latest are read (integ_test_failures.py).           *)
(***************************************************************************)
EXTENDS Integers, SequencesExt

CONSTANTS
  WorkflowFiles,
  Jobs,           \* the Jenkins jobs
  JobWorkflows,   \* JOB_WORKFLOWS: the workflow that replaced each of them
  CallerLanes,    \* CALLER_LANES: the lane of each calling workflow
  Legs,           \* the cells that a run tests and reports
  RunsSoFar,      \* values a counter may have when the model starts
  MaxCiRuns,      \* bound on the runs
  MaxRunAttempts  \* bound on the attempts of each

Offset == 100000
LaneSize == 1000000
Lanes == 10
AttemptStride == 10000000
MaxRunNumber == LaneSize - Offset - 1
MaxBuildNumber == 2147483647

(* Two callers never share a lane.                                         *)
ASSUME BuildNumbersAssumption ==
  /\ JobWorkflows \in [Jobs -> WorkflowFiles]
  /\ CallerLanes \in [DOMAIN CallerLanes -> 1 .. (Lanes - 1)]
  /\ \A v, w \in DOMAIN CallerLanes : CallerLanes[v] = CallerLanes[w] => v = w
  /\ RunsSoFar \subseteq Nat
  /\ MaxCiRuns \in Nat /\ MaxRunAttempts \in Nat \ {0}

VARIABLES
  runNumber,   \* github.run_number of the latest run of each workflow file
  ciRun,       \* the runs, in the order they started
  records      \* what they published

numberVars == <<runNumber, ciRun, records>>

NoNumber == 0

-----------------------------------------------------------------------------
(* build_number.py                                                         *)

HasLane(job, workflow) ==
  JobWorkflows[job] = workflow \/ workflow \in DOMAIN CallerLanes

(* Fault: a run has its number whoever called it.                          *)
NoLane(job, workflow) == 0

(* The owner of a job has lane 0, a caller its own.  (Without a job the    *)
(* lane is 0 for anyone: only a dry run and a chat message number so, and  *)
(* nothing of theirs is recorded.)                                         *)
Lane(job, workflow) ==
  IF JobWorkflows[job] = workflow THEN 0 ELSE CallerLanes[workflow]

FirstAttemptNumber(job, workflow, number) ==
  Offset + number + Lane(job, workflow) * LaneSize

(* The ranges that build_number() does not raise for.  The last one keeps  *)
(* the number in a signed 32-bit integer.                                  *)
Numbered(job, workflow, number, attempt) ==
  /\ HasLane(job, workflow)
  /\ number \in 1 .. MaxRunNumber
  /\ attempt >= 1
  /\ attempt - 1 <=
       (MaxBuildNumber - FirstAttemptNumber(job, workflow, number)) \div AttemptStride

BuildNumber(job, workflow, number, attempt) ==
  FirstAttemptNumber(job, workflow, number) + (attempt - 1) * AttemptStride

IsGithubBuildNumber(number) ==
  /\ Offset < number /\ number <= MaxBuildNumber
  /\ (number - Offset) % LaneSize # 0

LaneOf(number) == ((number - Offset) % AttemptStride) \div LaneSize

(* build_url(): the page of the workflow behind a number; {} is a pipeline *)
(* of Jenkins.                                                             *)
LinkedTo(job, number) ==
  IF ~ IsGithubBuildNumber(number) THEN {}
  ELSE IF LaneOf(number) = 0 THEN {JobWorkflows[job]}
  ELSE {w \in DOMAIN CallerLanes : CallerLanes[w] = LaneOf(number)}

-----------------------------------------------------------------------------
(* A run: its setup job derives the number, and every leg publishes under  *)
(* it.                                                                     *)

Started == 1 .. Len(ciRun)
LegStatus == {"waiting", "passed", "failed"}

NumbersInit ==
  /\ runNumber \in [WorkflowFiles -> RunsSoFar]
  /\ ciRun = <<>>
  /\ records = {}

StartRun(workflow, job) ==
  /\ Len(ciRun) < MaxCiRuns
  /\ runNumber' = [runNumber EXCEPT ![workflow] = @ + 1]
  /\ ciRun' = Append(ciRun,
       [workflow |-> workflow, job |-> job, id |-> runNumber'[workflow], attempt |-> 1,
        phase |-> "setup", number |-> NoNumber, derived |-> 0,
        leg |-> [l \in Legs |-> "waiting"]])
  /\ UNCHANGED records

(* The setup fails when the number would be out of range, or nobody gave   *)
(* the caller a lane.                                                      *)
DeriveNumber(r) ==
  LET x == ciRun[r]
  IN  /\ x.phase = "setup"
      /\ ciRun' = [ciRun EXCEPT ![r] =
           IF Numbered(x.job, x.workflow, x.id, x.attempt)
           THEN [x EXCEPT !.phase = "legs", !.derived = x.attempt,
                          !.number = BuildNumber(x.job, x.workflow, x.id, x.attempt)]
           ELSE [x EXCEPT !.phase = "failed"]]
  /\ UNCHANGED <<runNumber, records>>

Record(r, l, result) ==
  [job |-> ciRun[r].job, number |-> ciRun[r].number, leg |-> l, result |-> result,
   run |-> r, derived |-> ciRun[r].derived, started |-> Len(ciRun)]

(* A leg that fails may die before it publishes.                           *)
EndLeg(r, l, result) ==
  /\ ciRun[r].phase = "legs" /\ ciRun[r].leg[l] = "waiting"
  /\ ciRun' = [ciRun EXCEPT ![r].leg[l] = result]
  /\ \/ records' = records \cup {Record(r, l, result)}
     \/ result = "failed" /\ UNCHANGED records
  /\ UNCHANGED runNumber

AttemptOver(r) ==
  \/ ciRun[r].phase = "failed"
  \/ ciRun[r].phase = "legs" /\ \A l \in Legs : ciRun[r].leg[l] # "waiting"

(* "Re-run all jobs": a new attempt, which derives a number of its own.    *)
AttemptAll(r) ==
  /\ AttemptOver(r) /\ ciRun[r].attempt < MaxRunAttempts
  /\ ciRun' = [ciRun EXCEPT ![r].attempt = @ + 1, ![r].phase = "setup",
                            ![r].number = NoNumber,
                            ![r].leg = [l \in Legs |-> "waiting"]]
  /\ UNCHANGED <<runNumber, records>>

(* "Re-run failed jobs": the outputs of a setup that succeeded are kept.   *)
AttemptFailed(r) ==
  /\ AttemptOver(r) /\ ciRun[r].attempt < MaxRunAttempts
  /\ ciRun[r].phase = "legs" => \E l \in Legs : ciRun[r].leg[l] = "failed"
  /\ ciRun' = [ciRun EXCEPT
       ![r].attempt = @ + 1,
       ![r].phase = IF @ = "failed" THEN "setup" ELSE @,
       ![r].leg = [l \in Legs |-> IF @[l] = "failed" THEN "waiting" ELSE @[l]]]
  /\ UNCHANGED <<runNumber, records>>

NumbersNext ==
  \/ \E w \in WorkflowFiles, j \in Jobs : StartRun(w, j)
  \/ \E r \in Started :
       \/ DeriveNumber(r) \/ AttemptAll(r) \/ AttemptFailed(r)
       \/ \E l \in Legs, result \in {"passed", "failed"} : EndLeg(r, l, result)

NumbersSpec == NumbersInit /\ [][NumbersNext]_numberVars

-----------------------------------------------------------------------------
(* Properties.                                                             *)

CiRun == [workflow : WorkflowFiles, job : Jobs, id : Nat, attempt : Nat,
          phase : {"setup", "legs", "failed"}, number : Nat, derived : Nat,
          leg : [Legs -> LegStatus]]
ResultRecord == [job : Jobs, number : Nat, leg : Legs, result : LegStatus,
                 run : Nat, derived : Nat, started : Nat]

NumbersTypeOK ==
  /\ runNumber \in [WorkflowFiles -> Nat]
  /\ ciRun \in Seq(CiRun)
  /\ records \subseteq ResultRecord
  /\ \A d \in records : d.run \in Started

(* No two runs, and no two full attempts of one run, ever publish under    *)
(* one number of a job, whoever called them and whatever was run again; a  *)
(* number is above those of Jenkins, fits a signed 32-bit integer, and     *)
(* leads back to the workflow that published under it.                     *)
NumbersAreOwn ==
  /\ \A d, e \in records : d.job = e.job /\ d.number = e.number
                             => d.run = e.run /\ d.derived = e.derived
  /\ \A d \in records : /\ d.number > Offset /\ d.number <= MaxBuildNumber
                        /\ LinkedTo(d.job, d.number) = {ciRun[d.run].workflow}

(* The record with the highest number is read as the latest of its leg     *)
(* (integ_test_failures.py): a run that started after a record was         *)
(* published outranks it.                                                  *)
LatestRunIsRead ==
  \A d, e \in records :
    d.job = e.job /\ d.leg = e.leg /\ d.started < e.run => d.number < e.number
=============================================================================
