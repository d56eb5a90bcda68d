----------------------------- MODULE IntegTestRun -----------------------------
(***************************************************************************)
(* A run of the integration tests (run_integ_test.py, IntegTestRunner and  *)
(* its test suites): the test configurations of every selected component,  *)
(* one after the other, each with a TestCluster of its own.                *)
(*                                                                         *)
(* An exception that leaves a test configuration is caught nowhere: the    *)
(* process ends with it, the results of the component's earlier            *)
(* configurations are not written, and the other components not tested.    *)
(***************************************************************************)
EXTENDS TestCluster, Sequences

CONSTANT
  Plans      \* sequences of test suites, one of a selected component each:
             \*   component  its name, with the ci group's number
             \*   layout     the clusters its configurations ask for
             \*   script     whether the component has an integtest.sh
             \*   configs    its test configurations, in order

(* Components are a dictionary, of which select() finds one at least; the  *)
(* test manifests name at least one test configuration of each.            *)
ASSUME PlansAssumption ==
  \A p \in Plans :
    /\ Len(p) \in Nat \ {0} /\ DOMAIN p = 1 .. Len(p)
    /\ \A i, j \in DOMAIN p : p[i].component = p[j].component => i = j
    /\ \A i \in DOMAIN p :
         /\ p[i].layout \in Layouts
         /\ p[i].script \in BOOLEAN
         /\ Len(p[i].configs) \in Nat \ {0}
         /\ DOMAIN p[i].configs = 1 .. Len(p[i].configs)

VARIABLES
  plan,      \* the suites of this run
  suite,     \* the index of the suite that runs
  repo,      \* the checkout of the suite's component: none, cloned or ready
  turn,      \* the index of its configuration that runs
  status,    \* what the last test script returned
  data,      \* the results the suite has kept for its yml files
  yml,       \* the yml files written, one of a component's configuration
  results,   \* all_results: what the process's exit status is computed from
  exit       \* of the process: running, passed, failed or raised

runVars == <<plan, suite, repo, turn, status, data, yml, results, exit>>

Suite  == plan[suite]
Config == Suite.configs[turn]

RunInit ==
  /\ plan \in Plans
  /\ suite = 1 /\ repo = "none" /\ turn = 1
  /\ status = 0
  /\ data = {} /\ yml = {} /\ results = {}
  /\ exit = "running"
  /\ Init /\ layout = Suite.layout

-----------------------------------------------------------------------------
(* An exception before there is a cluster.                                 *)
CheckoutFails ==
  /\ stage' = "over" /\ raised' = "Exception"
  /\ UNCHANGED <<layout, at, process, installed, known, saved>>

(* A suite clones its component's repository when it is made,              *)
CloneRepository ==
  /\ exit = "running" /\ repo = "none" /\ stage # "over"
  /\ \/ repo' = "cloned" /\ UNCHANGED vars
     \/ UNCHANGED repo /\ CheckoutFails
  /\ UNCHANGED <<plan, suite, turn, status, data, yml, results, exit>>

(* and first of all copies what the tests are built with.                  *)
InstallBuildDependencies ==
  /\ exit = "running" /\ repo = "cloned" /\ stage # "over"
  /\ \/ repo' = "ready" /\ UNCHANGED vars
     \/ UNCHANGED repo /\ CheckoutFails
  /\ UNCHANGED <<plan, suite, turn, status, data, yml, results, exit>>

ManageCluster ==
  /\ exit = "running" /\ repo = "ready"
  /\ ClusterStep
  /\ UNCHANGED runVars

(* multi_execute_integtest_sh(): a component without a script has passed,  *)
(* and nothing is kept of it.  What follows is the end of the `with`.      *)
RunScript ==
  /\ exit = "running"
  /\ TestsOver
  /\ IF raised' = "nothing" /\ Suite.script
     THEN /\ status' \in {0, 1}
          /\ data' = data \cup
               {[component |-> Suite.component, config |-> Config, status |-> status']}
     ELSE /\ status' = 0
          /\ UNCHANGED data
  /\ UNCHANGED <<plan, suite, repo, turn, yml, results, exit>>

(* Fault: a component's results are kept under its name alone.             *)
KeepLast(r) == {old \in results : old.component # r.component} \cup {r}

(* TestSuiteResults of TestComponentResults: dictionaries, by component    *)
(* and by configuration.                                                   *)
Keep(r) ==
  {old \in results : <<old.component, old.config>> # <<r.component, r.config>>} \cup {r}

Outcome == [component |-> Suite.component, config |-> Config, status |-> status]

(* The objects of the next configuration are new ones; the machine is what *)
(* the configuration before left.                                          *)
NewCluster(next) ==
  /\ layout' = next
  /\ stage' = "starting" /\ at' = 1
  /\ process' = [s \in Service |-> "none"]
  /\ installed' = {}
  /\ known' = IF next.managed THEN Service ELSE {}
  /\ saved' = [s \in Service |-> 0]
  /\ raised' = "nothing"

(* Fault: the suite goes on whatever a configuration raised.               *)
ConfigOverAnyway == exit = "running" /\ stage = "over"

(* The `with` statement was left without an exception.                     *)
ConfigOver == exit = "running" /\ stage = "over" /\ raised = "nothing"

NextConfig ==
  /\ ConfigOver
  /\ turn < Len(Suite.configs)
  /\ results' = Keep(Outcome)
  /\ turn' = turn + 1
  /\ NewCluster(layout)
  /\ UNCHANGED <<plan, suite, repo, status, data, yml, exit>>

(* The yml files of a component are written once it has been tested.       *)
WriteYml ==
  yml' = yml \cup
    {[component |-> d.component, config |-> d.config,
      result |-> IF d.status = 0 THEN "PASS" ELSE "FAIL"] : d \in data}

NextSuite ==
  /\ ConfigOver
  /\ turn = Len(Suite.configs) /\ suite < Len(plan)
  /\ results' = Keep(Outcome)
  /\ WriteYml /\ data' = {}
  /\ suite' = suite + 1 /\ repo' = "none" /\ turn' = 1
  /\ NewCluster(plan[suite + 1].layout)
  /\ UNCHANGED <<plan, status, exit>>

(* main(): the exit status is 1 when a result is a failure.                *)
Finish ==
  /\ ConfigOver
  /\ turn = Len(Suite.configs) /\ suite = Len(plan)
  /\ results' = Keep(Outcome)
  /\ WriteYml /\ data' = {}
  /\ exit' = IF \E r \in results' : r.status # 0 THEN "failed" ELSE "passed"
  /\ UNCHANGED <<plan, suite, repo, turn, status>>
  /\ UNCHANGED vars

(* The exception ends the process.                                         *)
Abort ==
  /\ exit = "running"
  /\ stage = "over" /\ raised # "nothing"
  /\ exit' = "raised"
  /\ UNCHANGED <<plan, suite, repo, turn, status, data, yml, results>>
  /\ UNCHANGED vars

RunNext ==
  \/ CloneRepository \/ InstallBuildDependencies \/ ManageCluster \/ RunScript
  \/ NextConfig \/ NextSuite \/ Finish \/ Abort

RunSpec == RunInit /\ [][RunNext]_<<vars, runVars>>

-----------------------------------------------------------------------------
(* A configuration starts, and a run ends with a verdict, only on a        *)
(* machine where nothing of the configuration before is still running or   *)
(* installed: what leaks, leaks together with an exception that ends the   *)
(* run, so the tests of a configuration never talk to the cluster of       *)
(* another one that still listens on its port.                             *)
FreshMachine ==
  [][<<suite, turn, exit>>' # <<suite, turn, exit>> /\ exit' # "raised" =>
       installed = {} /\ \A s \in Service : ~Started(s)]_<<vars, runVars>>

(* The exit status tells the truth about the whole plan: a run that passed *)
(* has a passing result, and the yml file that says so unless there was no *)
(* script, of every configuration of every component; one that failed has  *)
(* written the failure.                                                    *)
VerdictCoversThePlan ==
  /\ exit = "passed" =>
       \A i \in DOMAIN plan : \A j \in DOMAIN plan[i].configs :
         LET c == plan[i].component  g == plan[i].configs[j] IN
         /\ [component |-> c, config |-> g, status |-> 0] \in results
         /\ plan[i].script => [component |-> c, config |-> g, result |-> "PASS"] \in yml
  /\ exit = "failed" => \E y \in yml : y.result = "FAIL"

=============================================================================
