---------------------------- MODULE ResultIssues ----------------------------
(***************************************************************************)
(* From the results of tests and builds to the AUTOCUT issues of the       *)
(* components: the report of a test run (test_report_runner.py), its       *)
(* records in the metrics cluster (metrics_records.py), the collection of  *)
(* a build's failures (integ_test_failures.py) and the issues that are     *)
(* opened, edited, reopened and closed (notify_failure.py).  Every tested  *)
(* cell notifies for the whole build, and no concurrency group keeps the   *)
(* notifications apart.                                                    *)
(***************************************************************************)
EXTENDS Integers, SequencesExt

CONSTANTS
  Listed,         \* components of the input manifest
  CiGroups,       \* names in a report that the manifest does not list
  Cells,          \* platform, architecture and distribution of a test run
  QuerySize,      \* COMPONENTS_QUERY_SIZE, in documents
  MaxTestRuns,    \* bound on the published test runs
  MaxNotifications, \* bound on the notifications
  MaxMishaps      \* bound on failed requests and issues closed by hand

ASSUME ResultIssuesAssumption ==
  /\ Listed \cap CiGroups = {} /\ IsFiniteSet(Listed \cup CiGroups)
  /\ QuerySize \in Nat \ {0} /\ MaxTestRuns \in Nat
  /\ MaxNotifications \in Nat /\ MaxMishaps \in Nat

IssueKind == {"distribution-build", "integ-test", "flaky-test"}
Title == IssueKind \X Listed
Notifiers == 1 .. MaxNotifications  \* the notification jobs, as they start
SecurityConfig == {"with-security", "without-security"}

VARIABLES
  documents,     \* the integration test results of one build
  issue,         \* for each title, its issues in the order of their numbers
  notifier,      \* the notification jobs
  alone,         \* the job that wrote issues while nobody else did, if any
  notifications,
  mishaps

issueVars == <<documents, issue, notifier, alone, notifications, mishaps>>

NoNotifier == [phase |-> "idle", kind |-> "integ-test", seen |-> {}, passed |-> {},
               failed |-> {}, open |-> {}, close |-> {}, rows |-> [c \in Listed |-> {}],
               done |-> {}, at |-> 0, errors |-> 0]

IssuesInit ==
  /\ documents = {}
  /\ issue = [t \in Title |-> <<>>]
  /\ notifier = [n \in Notifiers |-> NoNotifier]
  /\ alone = {}
  /\ notifications = 0
  /\ mishaps = 0

Mishap == mishaps < MaxMishaps /\ mishaps' = mishaps + 1

-----------------------------------------------------------------------------
(* A test run and its report.  A configuration whose result file is missing*)
(* is not available; one the component does not have is unknown.           *)

ConfigStatus == [SecurityConfig -> {"pass", "fail", "not available", "unknown"}]
ComponentResult(status) ==
  IF \E s \in SecurityConfig : status[s] \in {"fail", "not available"}
  THEN "failed" ELSE "passed"
Outcomes == {ComponentResult(status) : status \in ConfigStatus}

(* What a report may hold: the components that were bundled and tested, one*)
(* that is tested in groups under the name of each of its groups.          *)
Reports == SUBSET (Listed \cup CiGroups) \ {{}}

(* A run has its number when it starts and its records when it ends, so    *)
(* runs can be published out of order.                                     *)
PublishResults(cell, tested) ==
  \E run \in 1 .. MaxTestRuns, outcome \in [tested -> Outcomes] :
    /\ \A d \in documents : d.run # run
    /\ documents' = documents \cup
         {[component |-> c, cell |-> cell, run |-> run, result |-> outcome[c]] : c \in tested}
    /\ UNCHANGED <<issue, notifier, alone, notifications, mishaps>>

-----------------------------------------------------------------------------
(* collect(): three kinds of queries, one after the other.                 *)

With(result) == {d \in documents : d.result = result}

(* A query returns the components of at most QuerySize documents.          *)
Found(result) ==
  LET total == Cardinality(With(result))
      size == IF total < QuerySize THEN total ELSE QuerySize
  IN  {{d.component : d \in S} : S \in kSubset(size, With(result))}

(* The cells in which the latest run of a component failed.                *)
FailedRows(c) ==
  LET of(cell) == {d \in documents : d.component = c /\ d.cell = cell}
  IN  {cell \in Cells : \E d \in of(cell) :
         d.result = "failed" /\ \A e \in of(cell) : e.run <= d.run}

Becomes(n, new) ==
  /\ notifier' = [notifier EXCEPT ![n] = new]
  /\ UNCHANGED documents

StartNotifier(n, new) ==
  /\ n = notifications + 1
  /\ notifications' = n
  /\ Becomes(n, new)
  /\ UNCHANGED issue

QueryPassed(n) ==
  /\ \E found \in Found("passed") :
       StartNotifier(n, [NoNotifier EXCEPT !.phase = "passed", !.passed = found])
  /\ UNCHANGED <<alone, mishaps>>

QueryFailed(n) ==
  /\ notifier[n].phase = "passed"
  /\ \E found \in Found("failed") :
       Becomes(n, [notifier[n] EXCEPT !.phase = "rows", !.failed = found,
                                      !.seen = With("failed")])
  /\ UNCHANGED <<issue, alone, notifications, mishaps>>

Writing(m) == notifier[m].phase \notin {"idle", "passed", "rows", "done"}
BeginWriting(n) == alone' = IF \E m \in Notifiers : Writing(m) THEN {} ELSE {n}

(* Fault: every component that passed somewhere is closed.                 *)
AllThatPassed(x) == x.passed \cap Listed

(* plan_issues(): passed and not failed, for components of the manifest.   *)
ToClose(x) == (x.passed \ x.failed) \cap Listed

(* The rows of each failed component: a query that fails reads as none.  A *)
(* component without a row, which its latest runs show as flaky, is passed *)
(* over, as is one that the manifest does not list.                        *)
QueryRows(n) ==
  /\ notifier[n].phase = "rows"
  /\ \E unread \in SUBSET (notifier[n].failed \cap Listed) :
       LET rows == [c \in Listed |-> IF c \in notifier[n].failed \ unread
                                     THEN FailedRows(c) ELSE {}]
       IN  /\ IF unread = {} THEN UNCHANGED mishaps ELSE Mishap
           /\ Becomes(n, [notifier[n] EXCEPT !.phase = "find", !.rows = rows,
                            !.passed = {}, !.failed = {},
                            !.open = {c \in Listed : rows[c] # {}},
                            !.close = ToClose(notifier[n])])
  /\ BeginWriting(n)
  /\ UNCHANGED <<issue, notifications>>

(* The other producers of a plan: their failures, one by one, are grouped  *)
(* by component.                                                           *)
PlanFrom(n, kind, failed, passed, rows) ==
  /\ StartNotifier(n, [NoNotifier EXCEPT !.phase = "find", !.kind = kind,
       !.open = failed, !.close = passed \ failed,
       !.rows = [c \in Listed |-> IF c \in failed THEN rows ELSE {}]])
  /\ BeginWriting(n)
  /\ UNCHANGED mishaps

(* A distribution build, from the results of its cells: a component failed *)
(* when it failed in one of them.                                          *)
PlanBuildIssues(n) ==
  \E results \in [Listed -> SUBSET {"passed", "failed"}] :
    LET Having(result) == {c \in Listed : result \in results[c]}
    IN  PlanFrom(n, "distribution-build", Having("failed"), Having("passed"), {})

(* The flaky tests of Gradle Check, whose test classes stand here as       *)
(* components.  The rows of a report are those of the git references in    *)
(* which the class failed; when they cannot be read there are none.        *)
PlanFlakyIssues(n) ==
  \E classes \in SUBSET Listed, rows \in SUBSET Cells :
    PlanFrom(n, "flaky-test", classes, {}, rows)

-----------------------------------------------------------------------------
(* apply_issue(): the issue is looked up by its title, then written.       *)

Pending(x) == (x.open \cup x.close) \ x.done
(* The issues to open come before those to close.                          *)
NextIn(x) ==
  LET first == IF x.open \ x.done # {} THEN x.open \ x.done ELSE Pending(x)
  IN  CHOOSE c \in first : TRUE
TitleOf(x) == <<x.kind, NextIn(x)>>
InState(t, states) == {i \in DOMAIN issue[t] : issue[t][i].state \in states}

(* An open issue is edited or closed; else one closed in the last days, or *)
(* for a flaky test one closed at any time, is reopened; else one is made. *)
Find(n) ==
  LET x == notifier[n]
      open == InState(TitleOf(x), {"open"})
      closed == InState(TitleOf(x), IF x.kind = "flaky-test"
                                    THEN {"recent", "old"} ELSE {"recent"})
      Go(S, phase) ==
        \E i \in S : Becomes(n, [x EXCEPT !.phase = phase, !.at = i])
  IN  /\ x.phase = "find" /\ Pending(x) # {}
      /\ IF open # {} THEN Go(open, IF NextIn(x) \in x.open THEN "edit" ELSE "close")
         ELSE IF NextIn(x) \notin x.open THEN Becomes(n, [x EXCEPT !.done = @ \cup {NextIn(x)}])
         ELSE IF closed # {} THEN Go(closed, "reopen")
         ELSE Becomes(n, [x EXCEPT !.phase = "create"])
      /\ UNCHANGED <<issue, alone, notifications, mishaps>>

Written(n, errors) ==
  /\ Becomes(n, [notifier[n] EXCEPT !.phase = "find", !.at = 0, !.errors = @ + errors,
                   !.done = @ \cup {NextIn(notifier[n])}])
  /\ UNCHANGED <<alone, notifications>>

SetIssue(x, i) == issue' = [issue EXCEPT ![TitleOf(x)][x.at] = i]

Edit(n) ==
  LET x == notifier[n]
  IN  /\ x.phase = "edit"
      /\ SetIssue(x, [issue[TitleOf(x)][x.at] EXCEPT !.body = x.rows[NextIn(x)]])
      /\ Written(n, 0)
      /\ UNCHANGED mishaps

(* The rows of a report that an issue does not list.                       *)
Differences(new, existing) == new \ existing

(* Fault: a reopened issue keeps the body it was closed with.              *)
ReopenOnly(n) ==
  LET x == notifier[n]
  IN  /\ x.phase = "reopen"
      /\ SetIssue(x, [issue[TitleOf(x)][x.at] EXCEPT !.state = "open"])
      /\ Written(n, 0)
      /\ UNCHANGED mishaps

(* Reopened, then edited; but the issue of a flaky test whose report has   *)
(* no row that it does not list stays closed.                              *)
Reopen(n) ==
  LET x == notifier[n]
      was == issue[TitleOf(x)][x.at]
      rows == x.rows[NextIn(x)]
  IN  /\ x.phase = "reopen"
      /\ SetIssue(x, IF x.kind = "flaky-test" /\ Differences(rows, was.body) = {} THEN was
                     ELSE [state |-> "open", body |-> rows])
      /\ Written(n, 0)
      /\ UNCHANGED mishaps

Create(n) ==
  LET x == notifier[n]
  IN  /\ x.phase = "create"
      /\ issue' = [issue EXCEPT ![TitleOf(x)] =
                     Append(@, [state |-> "open", body |-> x.rows[NextIn(x)]])]
      /\ Written(n, 0)
      /\ UNCHANGED mishaps

Close(n) ==
  LET x == notifier[n]
  IN  /\ x.phase = "close"
      /\ SetIssue(x, [issue[TitleOf(x)][x.at] EXCEPT !.state = "recent"])
      /\ Written(n, 0)
      /\ UNCHANGED mishaps

(* A gh call fails: the next issue follows, and the job fails at its end.  *)
(* An issue may be reopened by then.                                       *)
WriteFails(n) ==
  LET x == notifier[n]
  IN  /\ Writing(n) /\ Pending(x) # {}
      /\ Mishap
      /\ \/ UNCHANGED issue
         \/ /\ x.phase = "reopen"
            /\ SetIssue(x, [issue[TitleOf(x)][x.at] EXCEPT !.state = "open"])
      /\ Written(n, 1)

Notified(n) ==
  /\ notifier[n].phase = "find" /\ Pending(notifier[n]) = {}
  /\ Becomes(n, [notifier[n] EXCEPT !.phase = "done"])
  /\ UNCHANGED <<issue, alone, notifications, mishaps>>

NotifierLeaves(n) ==
  /\ notifier[n].phase = "done"
  /\ Becomes(n, NoNotifier)
  /\ alone' = alone \ {n}
  /\ UNCHANGED <<issue, notifications, mishaps>>

-----------------------------------------------------------------------------
(* People close issues, and days go by.                                    *)

CloseByHand(t) ==
  /\ \E i \in InState(t, {"open"}) : issue' = [issue EXCEPT ![t][i].state = "recent"]
  /\ Mishap
  /\ alone' = {}
  /\ UNCHANGED <<documents, notifier, notifications>>

DaysPass ==
  /\ \E t \in Title : InState(t, {"recent"}) # {}
  /\ issue' = [t \in Title |-> [i \in DOMAIN issue[t] |->
                 [issue[t][i] EXCEPT !.state = IF @ = "recent" THEN "old" ELSE @]]]
  /\ UNCHANGED <<documents, notifier, alone, notifications, mishaps>>

IssuesNext ==
  \/ \E cell \in Cells, tested \in Reports :
       PublishResults(cell, tested)
  \/ \E n \in Notifiers :
       \/ QueryPassed(n) \/ QueryFailed(n) \/ QueryRows(n)
       \/ PlanBuildIssues(n) \/ PlanFlakyIssues(n)
       \/ Find(n) \/ Edit(n) \/ Reopen(n) \/ Create(n) \/ Close(n)
       \/ WriteFails(n) \/ Notified(n) \/ NotifierLeaves(n)
  \/ \E t \in Title : CloseByHand(t)
  \/ DaysPass

IssuesSpec == IssuesInit /\ [][IssuesNext]_issueVars

-----------------------------------------------------------------------------
(* Properties.                                                             *)

(* A notification that ends without an error, and during whose writes no   *)
(* other job and no person touched the issues, leaves an open issue with   *)
(* exactly the failed cells for every component of its plan that failed,   *)
(* whatever was open, closed lately or long ago before, and no open issue  *)
(* for one that passed, unless an earlier race had opened two of them.     *)
FailuresAreReported ==
  \A n \in alone :
    LET x == notifier[n]
        Of(c) == issue[<<x.kind, c>>]
    IN  x.phase = "done" /\ x.errors = 0
          => /\ \A c \in x.open : \E i \in DOMAIN Of(c) :
                  \/ Of(c)[i].state = "open" /\ Of(c)[i].body = x.rows[c]
                  \/ x.kind = "flaky-test" /\ x.rows[c] \subseteq Of(c)[i].body
             /\ \A c \in x.close :
                  Len(Of(c)) > 1 \/ InState(<<x.kind, c>>, {"open"}) = {}

(* The job that closes an integration test issue had seen no failure of    *)
(* the component among the results published when it asked for the failed  *)
(* ones, although it had asked for the passed ones earlier: unless there   *)
(* were more failures than one query returns.                              *)
ClosedOnlyWhenPassed ==
  [][\A n \in Notifiers :
       LET x == notifier[n]
       IN  x.phase = "close" /\ notifier'[n].done # x.done
             /\ x.kind = "integ-test" /\ issue' # issue
             => \/ Cardinality(x.seen) > QuerySize
                \/ \A d \in x.seen : d.component # NextIn(x)]_issueVars
=============================================================================
