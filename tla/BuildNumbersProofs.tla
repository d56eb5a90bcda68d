------------------------- MODULE BuildNumbersProofs -------------------------
(***************************************************************************)
(* Build numbers are never used twice, for any jobs, workflows, lanes and  *)
(* counters, and any number of runs and attempts.                          *)
(***************************************************************************)
EXTENDS BuildNumbers, TLAPS

(* A number laid out in attempts, lanes and runs comes apart again.        *)
LEMMA LayoutOfAttempt ==
  ASSUME NEW y \in Nat, y < AttemptStride, NEW b \in Nat
  PROVE  /\ (y + b * AttemptStride) \div AttemptStride = b
         /\ (y + b * AttemptStride) % AttemptStride = y
  BY SMT DEF AttemptStride

LEMMA LayoutOfLane ==
  ASSUME NEW n \in Nat, n < LaneSize, NEW k \in Nat
  PROVE  /\ (n + k * LaneSize) \div LaneSize = k
         /\ (n + k * LaneSize) % LaneSize = n
  BY SMT DEF LaneSize

(* What build_number() accepts lies within a lane.                         *)
LEMMA LaneTyped ==
  ASSUME NEW job \in Jobs, NEW w \in WorkflowFiles, HasLane(job, w)
  PROVE  /\ Lane(job, w) \in Nat
         /\ Lane(job, w) <= Lanes - 1
         /\ Lane(job, w) = 0 <=> JobWorkflows[job] = w
         /\ Lane(job, w) # 0 => w \in DOMAIN CallerLanes /\ Lane(job, w) = CallerLanes[w]
  BY BuildNumbersAssumption, SMT DEF BuildNumbersAssumption, HasLane, Lane, Lanes

(* The parts of an accepted number.                                        *)
Within(job, w, n, a) ==
  LET y == n + Lane(job, w) * LaneSize
  IN  /\ n \in Nat /\ 0 < n /\ n < LaneSize
      /\ a \in Nat /\ 1 <= a
      /\ y \in Nat /\ y < AttemptStride
      /\ BuildNumber(job, w, n, a) = Offset + (y + (a - 1) * AttemptStride)

LEMMA NumberWithin ==
  ASSUME NEW job \in Jobs, NEW w \in WorkflowFiles, NEW n \in Nat, NEW a \in Nat,
         Numbered(job, w, n, a)
  PROVE  Within(job, w, n, a)
  <1> DEFINE k == Lane(job, w)
  <1>1. k \in Nat /\ k <= Lanes - 1
    BY LaneTyped DEF Numbered
  <1>2. 1 <= n /\ n <= MaxRunNumber /\ 1 <= a
    <2>1. MaxRunNumber \in Int
      BY SMT DEF MaxRunNumber, LaneSize, Offset
    <2> QED  BY <2>1, SMT DEF Numbered
  <1> HIDE DEF k
  <1>3. n < LaneSize /\ n + k * LaneSize \in Nat /\ n + k * LaneSize < AttemptStride
    BY <1>1, <1>2, SMT DEF MaxRunNumber, LaneSize, Offset, Lanes, AttemptStride
  <1>4. Offset + n + k * LaneSize + (a - 1) * AttemptStride
          = Offset + (n + k * LaneSize + (a - 1) * AttemptStride)
    BY <1>1, <1>2, SMT DEF LaneSize, Offset, AttemptStride
  <1> QED  BY <1>2, <1>3, <1>4, SMT DEF Within, BuildNumber, FirstAttemptNumber, k

LEMMA Limits ==
  /\ Offset \in Nat /\ MaxBuildNumber \in Nat /\ LaneSize \in Nat /\ AttemptStride \in Nat
  BY SMT DEF Offset, MaxBuildNumber, LaneSize, AttemptStride

(* An accepted number fits, and is one of GitHub's.                        *)
LEMMA NumberFits ==
  ASSUME NEW job \in Jobs, NEW w \in WorkflowFiles, NEW n \in Nat, NEW a \in Nat,
         Numbered(job, w, n, a)
  PROVE  /\ BuildNumber(job, w, n, a) \in Nat
         /\ BuildNumber(job, w, n, a) > Offset
         /\ BuildNumber(job, w, n, a) <= MaxBuildNumber
  <1> DEFINE y == n + Lane(job, w) * LaneSize
             f == FirstAttemptNumber(job, w, n)
             N == BuildNumber(job, w, n, a)
  <1>1. Within(job, w, n, a)
    BY NumberWithin
  <1>2. y \in Nat /\ n > 0 /\ a \in Nat /\ 1 <= a /\ Lane(job, w) \in Nat
        /\ N = Offset + (y + (a - 1) * AttemptStride)
    BY <1>1, LaneTyped DEF Within, Numbered
  <1>3. f \in Nat /\ N = f + (a - 1) * AttemptStride /\ y > 0
    BY <1>2, SMT DEF FirstAttemptNumber, BuildNumber, Offset, LaneSize, AttemptStride
  <1>4. a - 1 <= (MaxBuildNumber - f) \div AttemptStride
    BY DEF Numbered
  <1> HIDE DEF y, f, N
  <1>5. N \in Nat /\ N > Offset
    BY <1>2, <1>3, SMT DEF Offset, AttemptStride
  <1>6. N <= MaxBuildNumber
    BY <1>2, <1>3, <1>4, SMT DEF MaxBuildNumber, AttemptStride
  <1> QED  BY <1>5, <1>6 DEF N

(* Its lane and the number of its run come apart.                          *)
LEMMA NumberComesApart ==
  ASSUME NEW job \in Jobs, NEW w \in WorkflowFiles, NEW n \in Nat, NEW a \in Nat,
         Numbered(job, w, n, a)
  PROVE  LET x == BuildNumber(job, w, n, a) - Offset
         IN  /\ x % AttemptStride = n + Lane(job, w) * LaneSize
             /\ x \div AttemptStride = a - 1
             /\ LaneOf(BuildNumber(job, w, n, a)) = Lane(job, w)
             /\ (x % AttemptStride) % LaneSize = n
  <1> DEFINE k == Lane(job, w)
             y == n + k * LaneSize
             N == BuildNumber(job, w, n, a)
  <1>1. Within(job, w, n, a) /\ k \in Nat
    BY NumberWithin, LaneTyped DEF Numbered
  <1>2. y \in Nat /\ y < AttemptStride /\ n < LaneSize /\ a - 1 \in Nat
        /\ N = Offset + (y + (a - 1) * AttemptStride)
    BY <1>1, SMT DEF Within
  <1> HIDE DEF k, N
  <1>3. N - Offset = y + (a - 1) * AttemptStride
    BY <1>1, <1>2, SMT DEF Offset, LaneSize, AttemptStride
  <1>4. (N - Offset) \div AttemptStride = a - 1 /\ (N - Offset) % AttemptStride = y
    <2> HIDE DEF y
    <2>1. /\ (y + (a - 1) * AttemptStride) \div AttemptStride = a - 1
          /\ (y + (a - 1) * AttemptStride) % AttemptStride = y
      BY <1>2, LayoutOfAttempt
    <2> QED  BY <1>3, <2>1, Zenon
  <1>5. y \div LaneSize = k /\ y % LaneSize = n
    BY <1>1, <1>2, LayoutOfLane
  <1> QED  BY <1>4, <1>5, Zenon DEF LaneOf, N, k

(* Two accepted numbers of a job are equal only for the same workflow, run *)
(* and attempt.                                                            *)
LEMMA NumbersDiffer ==
  ASSUME NEW job \in Jobs, NEW v \in WorkflowFiles, NEW w \in WorkflowFiles,
         NEW m \in Nat, NEW n \in Nat, NEW a \in Nat, NEW b \in Nat,
         Numbered(job, v, m, a), Numbered(job, w, n, b),
         BuildNumber(job, v, m, a) = BuildNumber(job, w, n, b)
  PROVE  v = w /\ m = n /\ a = b
  <1>1. Lane(job, v) = Lane(job, w) /\ m = n /\ a = b
    <2> DEFINE x == BuildNumber(job, v, m, a) - Offset
    <2>1. /\ x \div AttemptStride = a - 1
          /\ LaneOf(BuildNumber(job, v, m, a)) = Lane(job, v)
          /\ (x % AttemptStride) % LaneSize = m
      BY NumberComesApart
    <2>2. /\ x \div AttemptStride = b - 1
          /\ LaneOf(BuildNumber(job, v, m, a)) = Lane(job, w)
          /\ (x % AttemptStride) % LaneSize = n
      BY NumberComesApart
    <2> HIDE DEF x
    <2>3. a - 1 = b - 1
      BY <2>1, <2>2, Zenon
    <2> QED  BY <2>1, <2>2, <2>3, SMT
  <1>2. CASE Lane(job, v) = 0
    <2>1. JobWorkflows[job] = v /\ JobWorkflows[job] = w
      BY <1>1, <1>2, LaneTyped DEF Numbered
    <2> QED  BY <1>1, <2>1
  <1>3. CASE Lane(job, v) # 0
    <2>1. /\ v \in DOMAIN CallerLanes /\ w \in DOMAIN CallerLanes
          /\ CallerLanes[v] = CallerLanes[w]
      BY <1>1, <1>3, LaneTyped DEF Numbered
    <2> QED  BY <1>1, <2>1, BuildNumbersAssumption DEF BuildNumbersAssumption
  <1> QED  BY <1>2, <1>3

(* An accepted number leads back to its workflow.                          *)
LEMMA NumberLeadsBack ==
  ASSUME NEW job \in Jobs, NEW w \in WorkflowFiles, NEW n \in Nat, NEW a \in Nat,
         Numbered(job, w, n, a)
  PROVE  LinkedTo(job, BuildNumber(job, w, n, a)) = {w}
  <1> DEFINE N == BuildNumber(job, w, n, a)
             k == Lane(job, w)
  <1>1. LaneOf(N) = k
    BY NumberComesApart
  <1>2. IsGithubBuildNumber(N)
    <2>1. N \in Nat /\ N > Offset /\ N <= MaxBuildNumber
      BY NumberFits
    <2>2. (N - Offset) % LaneSize # 0
      <3>1. Within(job, w, n, a) /\ k \in Nat
        BY NumberWithin, LaneTyped DEF Numbered
      <3>2. n > 0 /\ n < LaneSize /\ a - 1 \in Nat
            /\ N = Offset + ((n + k * LaneSize) + (a - 1) * AttemptStride)
        BY <3>1, SMT DEF Within
      <3> HIDE DEF k, N
      <3>3. N - Offset = n + (k + (a - 1) * Lanes) * LaneSize
            /\ k + (a - 1) * Lanes \in Nat
        BY <3>1, <3>2, SMT DEF Offset, LaneSize, AttemptStride, Lanes
      <3>4. (n + (k + (a - 1) * Lanes) * LaneSize) % LaneSize = n
        BY <3>2, <3>3, LayoutOfLane
      <3> QED  BY <3>2, <3>3, <3>4, SMT
    <2> QED  BY <2>1, <2>2 DEF IsGithubBuildNumber
  <1>3. CASE k = 0
    BY <1>1, <1>2, <1>3, LaneTyped DEF LinkedTo, Numbered
  <1>4. CASE k # 0
    <2>1. w \in DOMAIN CallerLanes /\ CallerLanes[w] = k
      BY <1>4, LaneTyped DEF Numbered
    <2>2. {v \in DOMAIN CallerLanes : CallerLanes[v] = k} = {w}
      BY <2>1, BuildNumbersAssumption DEF BuildNumbersAssumption
    <2> QED  BY <1>1, <1>2, <1>4, <2>2 DEF LinkedTo
  <1> QED  BY <1>3, <1>4

-----------------------------------------------------------------------------
(* The inductive invariant: no two runs of a workflow share a number of    *)
(* GitHub's, and whatever a run or a record carries was derived from those *)
(* of its run, which never change.                                         *)
Stamped(x, number, derived) ==
  /\ derived \in Nat
  /\ Numbered(x.job, x.workflow, x.id, derived)
  /\ number = BuildNumber(x.job, x.workflow, x.id, derived)

RunsCounted ==
  \A r \in Started : ciRun[r].id <= runNumber[ciRun[r].workflow]
RunsDiffer ==
  \A r, s \in Started :
    ciRun[r].workflow = ciRun[s].workflow /\ ciRun[r].id = ciRun[s].id => r = s
RunsStamped ==
  \A r \in Started :
    ciRun[r].phase = "legs" => Stamped(ciRun[r], ciRun[r].number, ciRun[r].derived)
RecordsStamped ==
  \A d \in records :
    d.job = ciRun[d.run].job /\ Stamped(ciRun[d.run], d.number, d.derived)

NumbersInv == NumbersTypeOK /\ RunsCounted /\ RunsDiffer /\ RunsStamped /\ RecordsStamped

LEMMA RunTyped ==
  ASSUME NumbersTypeOK
  PROVE  /\ Len(ciRun) \in Nat
         /\ DOMAIN ciRun = Started
         /\ \A r \in Started : ciRun[r] \in CiRun
  BY DEF NumbersTypeOK, Started

LEMMA InvImpliesOwn == NumbersInv => NumbersAreOwn
  <1> SUFFICES ASSUME NumbersInv PROVE NumbersAreOwn
    OBVIOUS
  <1>1. \A d \in records :
          /\ d.run \in Started /\ d.job \in Jobs
          /\ d.job = ciRun[d.run].job /\ Stamped(ciRun[d.run], d.number, d.derived)
          /\ ciRun[d.run].workflow \in WorkflowFiles /\ ciRun[d.run].id \in Nat
    BY RunTyped DEF NumbersInv, NumbersTypeOK, RecordsStamped, CiRun, ResultRecord
  <1>2. ASSUME NEW d \in records, NEW e \in records, d.job = e.job, d.number = e.number
        PROVE  d.run = e.run /\ d.derived = e.derived
    <2>1. /\ ciRun[d.run].workflow = ciRun[e.run].workflow
          /\ ciRun[d.run].id = ciRun[e.run].id /\ d.derived = e.derived
      BY <1>1, <1>2, NumbersDiffer DEF Stamped
    <2> QED  BY <1>1, <2>1 DEF NumbersInv, RunsDiffer
  <1>3. ASSUME NEW d \in records
        PROVE  /\ d.number > Offset /\ d.number <= MaxBuildNumber
               /\ LinkedTo(d.job, d.number) = {ciRun[d.run].workflow}
    BY <1>1, NumberFits, NumberLeadsBack DEF Stamped
  <1> QED  BY <1>2, <1>3 DEF NumbersAreOwn

(* A step of one run that keeps what the run is, and publishes at most     *)
(* under the number it has.                                                *)
LEMMA OneRunMoves ==
  ASSUME NumbersInv, NEW r \in Started, NEW y \in CiRun,
         ciRun' = [ciRun EXCEPT ![r] = y],
         runNumber' = runNumber,
         y.workflow = ciRun[r].workflow, y.job = ciRun[r].job, y.id = ciRun[r].id,
         y.phase = "legs" => Stamped(y, y.number, y.derived),
         \A d \in records' :
           \/ d \in records
           \/ /\ d \in ResultRecord /\ d.run = r /\ d.job = y.job
              /\ Stamped(y, d.number, d.derived)
  PROVE  NumbersInv'
  <1>1. ciRun' \in Seq(CiRun) /\ Started' = Started
    BY RunTyped DEF NumbersInv, NumbersTypeOK, Started
  <1>2. \A s \in Started : ciRun'[s] = IF s = r THEN y ELSE ciRun[s]
    BY RunTyped DEF NumbersInv, NumbersTypeOK
  <1>3. \A s \in Started : /\ ciRun'[s].workflow = ciRun[s].workflow
                          /\ ciRun'[s].job = ciRun[s].job
                          /\ ciRun'[s].id = ciRun[s].id
    BY <1>2
  <1>4. NumbersTypeOK'
    BY <1>1 DEF NumbersInv, NumbersTypeOK
  <1>5. RunsCounted'
    BY <1>1, <1>3 DEF NumbersInv, RunsCounted
  <1>6. RunsDiffer'
    BY <1>1, <1>3 DEF NumbersInv, RunsDiffer
  <1>7. RunsStamped'
    BY <1>1, <1>2 DEF NumbersInv, RunsStamped, Stamped
  <1>8. RecordsStamped'
    <2> SUFFICES ASSUME NEW d \in records'
                 PROVE  d.job = ciRun'[d.run].job /\ Stamped(ciRun'[d.run], d.number, d.derived)
      BY DEF RecordsStamped, Stamped
    <2>1. CASE d \in records
      BY <1>3, <2>1 DEF NumbersInv, NumbersTypeOK, RecordsStamped, Stamped
    <2>2. CASE d \notin records
      BY <1>2, <2>2
    <2> QED  BY <2>1, <2>2
  <1> QED  BY <1>4, <1>5, <1>6, <1>7, <1>8 DEF NumbersInv

LEMMA NumbersInvInit == NumbersInit => NumbersInv
  <1> SUFFICES ASSUME NumbersInit PROVE NumbersInv
    OBVIOUS
  <1>1. runNumber \in [WorkflowFiles -> Nat]
    BY BuildNumbersAssumption DEF BuildNumbersAssumption, NumbersInit
  <1>2. ciRun = <<>> /\ records = {} /\ Started = {}
    BY DEF NumbersInit, Started
  <1> QED  BY <1>1, <1>2 DEF NumbersInv, NumbersTypeOK, RunsCounted, RunsDiffer,
                            RunsStamped, RecordsStamped

LEMMA StartKeeps ==
  ASSUME NumbersInv, NEW w \in WorkflowFiles, NEW job \in Jobs, StartRun(w, job)
  PROVE  NumbersInv'
  <1> DEFINE y == [workflow |-> w, job |-> job, id |-> runNumber'[w], attempt |-> 1,
                   phase |-> "setup", number |-> NoNumber, derived |-> 0,
                   leg |-> [l \in Legs |-> "waiting"]]
             n == Len(ciRun) + 1
  <1>1. /\ runNumber \in [WorkflowFiles -> Nat]
        /\ runNumber' = [runNumber EXCEPT ![w] = @ + 1]
        /\ ciRun' = Append(ciRun, y) /\ records' = records
    BY DEF NumbersInv, NumbersTypeOK, StartRun
  <1>2. runNumber' \in [WorkflowFiles -> Nat] /\ runNumber'[w] = runNumber[w] + 1
        /\ \A v \in WorkflowFiles : runNumber[v] <= runNumber'[v]
    BY <1>1
  <1>3. y \in CiRun /\ y.phase = "setup" /\ y.workflow = w /\ y.id = runNumber[w] + 1
    BY <1>2 DEF CiRun, LegStatus, NoNumber
  <1> HIDE DEF y
  <1>4. /\ ciRun' \in Seq(CiRun) /\ n \notin Started /\ Started' = Started \cup {n}
        /\ ciRun'[n] = y /\ \A r \in Started : ciRun'[r] = ciRun[r]
    BY <1>1, <1>3, RunTyped DEF NumbersInv, NumbersTypeOK, Started
  <1>5. \A r \in Started : ciRun[r].id \in Nat /\ ciRun[r].workflow \in WorkflowFiles
    BY RunTyped DEF NumbersInv, CiRun
  <1>6. NumbersTypeOK'
    BY <1>1, <1>2, <1>4 DEF NumbersInv, NumbersTypeOK
  <1>7. RunsCounted'
    <2> SUFFICES ASSUME NEW r \in Started'
                 PROVE  ciRun'[r].id <= runNumber'[ciRun'[r].workflow]
      BY DEF RunsCounted
    <2>1. CASE r = n
      BY <1>1, <1>2, <1>3, <1>4, <2>1
    <2>2. CASE r \in Started
      <3>1. ciRun[r].id <= runNumber[ciRun[r].workflow]
        BY <2>2 DEF NumbersInv, RunsCounted
      <3> DEFINE v == ciRun[r].workflow
      <3>2. ciRun[r].id \in Nat /\ runNumber[v] \in Nat /\ runNumber'[v] \in Nat
            /\ runNumber[v] <= runNumber'[v]
        BY <1>1, <1>2, <1>5, <2>2
      <3>3. ciRun[r].id <= runNumber'[v]
        BY <3>1, <3>2
      <3> QED  BY <1>4, <2>2, <3>3
    <2> QED  BY <1>4, <2>1, <2>2
  <1>8. \A r \in Started : ciRun[r].workflow = w => ciRun[r].id # y.id
    BY <1>1, <1>3, <1>5 DEF NumbersInv, RunsCounted
  <1>9. RunsDiffer'
    BY <1>3, <1>4, <1>8 DEF NumbersInv, RunsDiffer
  <1>10. RunsStamped'
    <2> SUFFICES ASSUME NEW r \in Started', ciRun'[r].phase = "legs"
                 PROVE  Stamped(ciRun'[r], ciRun'[r].number, ciRun'[r].derived)
      BY DEF RunsStamped, Stamped
    <2>1. r \in Started /\ ciRun'[r] = ciRun[r]
      BY <1>3, <1>4
    <2> QED  BY <2>1 DEF NumbersInv, RunsStamped
  <1>11. RecordsStamped'
    BY <1>1, <1>4 DEF NumbersInv, NumbersTypeOK, RecordsStamped, Stamped
  <1> QED  BY <1>6, <1>7, <1>9, <1>10, <1>11 DEF NumbersInv

LEMMA DeriveKeeps ==
  ASSUME NumbersInv, NEW r \in Started, DeriveNumber(r)
  PROVE  NumbersInv'
  <1> DEFINE x == ciRun[r]
             N == BuildNumber(x.job, x.workflow, x.id, x.attempt)
  <1>1. x \in CiRun
    BY RunTyped DEF NumbersInv
  <1>2. x.job \in Jobs /\ x.workflow \in WorkflowFiles /\ x.id \in Nat /\ x.attempt \in Nat
    BY <1>1 DEF CiRun
  <1>3. CASE Numbered(x.job, x.workflow, x.id, x.attempt)
    <2> DEFINE y == [x EXCEPT !.phase = "legs", !.derived = x.attempt, !.number = N]
    <2>1. N \in Nat
      BY <1>2, <1>3, NumberFits
    <2> HIDE DEF N
    <2>2. y \in CiRun /\ y.phase = "legs" /\ y.derived = x.attempt /\ y.number = N
          /\ y.workflow = x.workflow /\ y.job = x.job /\ y.id = x.id
      BY <1>1, <2>1 DEF CiRun
    <2>3. Stamped(y, y.number, y.derived)
      BY <1>2, <1>3, <2>2 DEF Stamped, N
    <2>4. ciRun' = [ciRun EXCEPT ![r] = y] /\ runNumber' = runNumber
          /\ records' = records
      BY <1>3, Zenon DEF DeriveNumber, N
    <2> HIDE DEF y
    <2> QED  BY <2>2, <2>3, <2>4, OneRunMoves
  <1>4. CASE ~ Numbered(x.job, x.workflow, x.id, x.attempt)
    <2> DEFINE y == [x EXCEPT !.phase = "failed"]
    <2>1. y \in CiRun /\ y.phase # "legs"
          /\ y.workflow = x.workflow /\ y.job = x.job /\ y.id = x.id
      BY <1>1 DEF CiRun
    <2>2. ciRun' = [ciRun EXCEPT ![r] = y] /\ runNumber' = runNumber
          /\ records' = records
      BY <1>4 DEF DeriveNumber
    <2> HIDE DEF y
    <2> QED  BY <2>1, <2>2, OneRunMoves
  <1> QED  BY <1>3, <1>4

LEMMA EndLegKeeps ==
  ASSUME NumbersInv, NEW r \in Started, NEW l \in Legs,
         NEW result \in {"passed", "failed"}, EndLeg(r, l, result)
  PROVE  NumbersInv'
  <1> DEFINE x == ciRun[r]
             y == [x EXCEPT !.leg[l] = result]
             d == Record(r, l, result)
  <1>1. x \in CiRun /\ r \in Nat /\ Len(ciRun) \in Nat
    BY RunTyped DEF NumbersInv, Started
  <1>2. x.phase = "legs"
    BY DEF EndLeg
  <1>3. Stamped(x, x.number, x.derived)
    BY <1>2 DEF NumbersInv, RunsStamped
  <1>4. y \in CiRun /\ y.number = x.number /\ y.derived = x.derived
        /\ y.workflow = x.workflow /\ y.job = x.job /\ y.id = x.id
    BY <1>1 DEF CiRun, LegStatus
  <1>5. Stamped(y, y.number, y.derived)
    BY <1>3, <1>4 DEF Stamped
  <1>6. d \in ResultRecord /\ d.run = r /\ d.job = x.job
        /\ d.number = x.number /\ d.derived = x.derived
    BY <1>1 DEF Record, ResultRecord, CiRun, LegStatus
  <1>7. ciRun' = [ciRun EXCEPT ![r] = y] /\ runNumber' = runNumber
    BY DEF EndLeg
  <1>8. \A e \in records' : e \in records \/ e = d
    BY DEF EndLeg
  <1> HIDE DEF y, d
  <1> QED  BY <1>4, <1>5, <1>6, <1>7, <1>8, OneRunMoves

LEMMA AttemptAllKeeps ==
  ASSUME NumbersInv, NEW r \in Started, AttemptAll(r)
  PROVE  NumbersInv'
  <1> DEFINE x == ciRun[r]
             legs == [l \in Legs |-> "waiting"]
             attempt == x.attempt + 1
             y == [x EXCEPT !.attempt = attempt, !.phase = "setup", !.number = NoNumber,
                            !.leg = legs]
  <1>1. x \in CiRun /\ legs \in [Legs -> LegStatus] /\ NoNumber \in Nat
    BY RunTyped DEF NumbersInv, LegStatus, NoNumber
  <1>2. attempt \in Nat
    BY <1>1 DEF CiRun
  <1>3. ciRun' = [ciRun EXCEPT ![r] = y] /\ runNumber' = runNumber /\ records' = records
    BY DEF AttemptAll
  <1> HIDE DEF legs, attempt
  <1>4. y \in CiRun /\ y.phase # "legs"
        /\ y.workflow = x.workflow /\ y.job = x.job /\ y.id = x.id
    BY <1>1, <1>2 DEF CiRun
  <1> HIDE DEF y
  <1> QED  BY <1>3, <1>4, OneRunMoves

LEMMA AttemptFailedKeeps ==
  ASSUME NumbersInv, NEW r \in Started, AttemptFailed(r)
  PROVE  NumbersInv'
  <1> DEFINE x == ciRun[r]
             phase == IF x.phase = "failed" THEN "setup" ELSE x.phase
             legs == [l \in Legs |-> IF x.leg[l] = "failed" THEN "waiting" ELSE x.leg[l]]
             attempt == x.attempt + 1
             y == [x EXCEPT !.attempt = attempt, !.phase = phase, !.leg = legs]
  <1>1. x \in CiRun
    BY RunTyped DEF NumbersInv
  <1>2. ciRun' = [ciRun EXCEPT ![r] = y] /\ runNumber' = runNumber /\ records' = records
    BY <1>1 DEF AttemptFailed, CiRun
  <1>3. legs \in [Legs -> LegStatus]
    BY <1>1 DEF CiRun, LegStatus
  <1>4. phase \in {"setup", "legs", "failed"} /\ (phase = "legs" => x.phase = "legs")
    BY <1>1 DEF CiRun
  <1>5. attempt \in Nat
    BY <1>1 DEF CiRun
  <1> HIDE DEF phase, legs, attempt
  <1>6. y \in CiRun /\ y.number = x.number /\ y.derived = x.derived
        /\ y.workflow = x.workflow /\ y.job = x.job /\ y.id = x.id
        /\ (y.phase = "legs" => x.phase = "legs")
    BY <1>1, <1>3, <1>4, <1>5 DEF CiRun
  <1>7. y.phase = "legs" => Stamped(y, y.number, y.derived)
    BY <1>6 DEF NumbersInv, RunsStamped, Stamped
  <1> HIDE DEF y
  <1> QED  BY <1>2, <1>6, <1>7, OneRunMoves

LEMMA NumbersInvNext == NumbersInv /\ [NumbersNext]_numberVars => NumbersInv'
  <1> SUFFICES ASSUME NumbersInv, [NumbersNext]_numberVars PROVE NumbersInv'
    OBVIOUS
  <1>1. ASSUME NEW w \in WorkflowFiles, NEW job \in Jobs, StartRun(w, job)
        PROVE  NumbersInv'
    BY <1>1, StartKeeps
  <1>2. ASSUME NEW r \in Started, DeriveNumber(r) PROVE NumbersInv'
    BY <1>2, DeriveKeeps
  <1>3. ASSUME NEW r \in Started, AttemptAll(r) PROVE NumbersInv'
    BY <1>3, AttemptAllKeeps
  <1>4. ASSUME NEW r \in Started, AttemptFailed(r) PROVE NumbersInv'
    BY <1>4, AttemptFailedKeeps
  <1>5. ASSUME NEW r \in Started, NEW l \in Legs, NEW result \in {"passed", "failed"},
               EndLeg(r, l, result)
        PROVE  NumbersInv'
    BY <1>5, EndLegKeeps
  <1>6. CASE UNCHANGED numberVars
    BY <1>6 DEF numberVars, NumbersInv, NumbersTypeOK, RunsCounted, RunsDiffer,
                RunsStamped, RecordsStamped, Stamped, Started
  <1> QED  BY <1>1, <1>2, <1>3, <1>4, <1>5, <1>6 DEF NumbersNext

(* Whatever the jobs, the lanes and the counters at the start, and however *)
(* many runs and attempts follow, no number is used by two runs or full    *)
(* attempts of a job, none leaves its range, and each leads back to the    *)
(* workflow that published under it (build_number.py).                     *)
THEOREM NumbersNeverReused == NumbersSpec => []NumbersAreOwn
  <1>1. NumbersSpec => []NumbersInv
    BY NumbersInvInit, NumbersInvNext, PTL DEF NumbersSpec
  <1> QED  BY <1>1, InvImpliesOwn, PTL
=============================================================================
