----------------------------- MODULE TestCluster -----------------------------
(***************************************************************************)
(* One test configuration of the integration test runner: the local        *)
(* clusters it starts, uses and terminates (test_workflow/test_cluster.py, *)
(* integ_test/service.py and integ_test/topology.py).                      *)
(*                                                                         *)
(* There are two ways in.  Dashboards tests enter TestCluster.create(), a  *)
(* context manager around one cluster of two services.  OpenSearch tests   *)
(* enter Topology.create(), a context manager around groups of data nodes, *)
(* each a cluster of one service that TestCluster.create_cluster() starts; *)
(* it knows a group only when all of its nodes are running.                *)
(***************************************************************************)
EXTENDS Integers, FiniteSets

CONSTANTS
  N,              \* services, numbered in the order in which they start
  Layouts         \* what a test configuration may ask for: records with
                  \*   managed   TRUE for TestCluster.create(),
                  \*             FALSE for Topology.create()
                  \*   cluster   the TestCluster of each service
                  \*   group     the TopologyTestCluster of each service

Service == 1 .. N

Consecutive(f) ==
  /\ f \in [Service -> Service]
  /\ \A s, t \in Service : s <= t => f[s] <= f[t]

ASSUME ClusterAssumption ==
  /\ N \in Nat \ {0}
  /\ \A l \in Layouts :
       /\ l.managed \in BOOLEAN
       /\ Consecutive(l.cluster) /\ Consecutive(l.group)
       /\ IF l.managed
          THEN \A s, t \in Service : l.cluster[s] = l.cluster[t]
          ELSE \A s, t \in Service : l.cluster[s] = l.cluster[t] => s = t

VARIABLES
  layout,      \* of the test configuration
  stage,       \* starting, installing, configuring, launching, waiting,
               \* testing, cleanup, destroying or over
  at,          \* the service the stage has come to
  process,     \* of each service: none, up (running) or dead (exited)
  installed,   \* the services whose distribution is installed
  known,       \* the services the context manager will terminate
  saved,       \* how often the logs of a service were saved
  raised       \* the exception on its way out, or "nothing"

vars == <<layout, stage, at, process, installed, known, saved, raised>>

Cluster(s) == {t \in Service : layout.cluster[t] = layout.cluster[s]}
Group(s)   == {t \in Service : layout.group[t] = layout.group[s]}
First(S)   == CHOOSE s \in S : \A t \in S : s <= t
Last(S)    == CHOOSE s \in S : \A t \in S : t <= s

Init ==
  /\ layout \in Layouts
  /\ stage = "starting"
  /\ at = 1
  /\ process = [s \in Service |-> "none"]
  /\ installed = {}
  /\ known = IF layout.managed THEN Service ELSE {}
  /\ saved = [s \in Service |-> 0]
  /\ raised = "nothing"

(* process_handler.started: a Popen object, whatever became of the process.*)
Started(s) == process[s] # "none"

-----------------------------------------------------------------------------
(* Fault: nothing is terminated when an exception is on its way.           *)
DestroyNothing(exception, who) ==
  /\ raised' = exception
  /\ stage' = IF who = {} \/ exception # "nothing" THEN "over" ELSE "destroying"
  /\ at' = IF who = {} THEN at ELSE First(who)

(* The `finally` of the context manager: it terminates what it knows.      *)
Destroy(exception, who) ==
  /\ raised' = exception
  /\ stage' = IF who = {} THEN "over" ELSE "destroying"
  /\ at' = IF who = {} THEN at ELSE First(who)

(* In create() the main service is OpenSearch Dashboards, its dependency   *)
(* OpenSearch; a data node is OpenSearch alone.                            *)
IsDashboards(s) == layout.managed /\ s = First(Cluster(s))

(* service.start(), step by step: the bundle is downloaded,                *)
Starting == stage \in {"starting", "installing", "configuring", "launching"}

(* Fault: the bundle is downloaded, but not installed.                     *)
DownloadOnly ==
  /\ stage = "starting" /\ stage' = "configuring"
  /\ UNCHANGED <<layout, at, process, installed, known, saved, raised>>

Download ==
  /\ stage = "starting" /\ stage' = "installing"
  /\ UNCHANGED <<layout, at, process, installed, known, saved, raised>>

(* unpacked into a directory of the service,                               *)
Install ==
  /\ stage = "installing" /\ stage' = "configuring"
  /\ installed' = installed \cup {at}
  /\ UNCHANGED <<layout, at, process, known, saved, raised>>

(* and configured: OpenSearch gets its JVM options and its opensearch.yml, *)
ConfigureOpenSearch ==
  /\ stage = "configuring" /\ ~IsDashboards(at) /\ stage' = "launching"
  /\ UNCHANGED <<layout, at, process, installed, known, saved, raised>>

(* Dashboards loses its security plugin if there is to be no security.     *)
ConfigureDashboards ==
  /\ stage = "configuring" /\ IsDashboards(at) /\ stage' = "launching"
  /\ UNCHANGED <<layout, at, process, installed, known, saved, raised>>

(* Then its process starts; a cluster starts all of its services before it *)
(* waits for the first.                                                    *)
StartProcess ==
  /\ stage = "launching"
  /\ process' = [process EXCEPT ![at] = "up"]
  /\ IF at = Last(Cluster(at))
     THEN stage' = "waiting" /\ at' = First(Cluster(at))
     ELSE stage' = "starting" /\ at' = at + 1
  /\ UNCHANGED <<layout, installed, known, saved, raised>>

(* Any of these steps may raise, the installation half done.               *)
StartFails ==
  /\ Starting
  /\ installed' \in {installed} \cup
       (IF stage = "installing" THEN {installed \cup {at}} ELSE {})
  /\ Destroy("Exception", known)
  /\ UNCHANGED <<layout, process, known, saved>>

(* A service process exits by itself.                                      *)
Exit(s) ==
  /\ process[s] = "up"
  /\ process' = [process EXCEPT ![s] = "dead"]
  /\ UNCHANGED <<layout, stage, at, installed, known, saved, raised>>

(* Fault: only the last node of a group is registered.                     *)
AvailableRegisterLast ==
  /\ stage = "waiting"
  /\ process[at] = "up"
  /\ stage' = IF at # Last(Cluster(at)) THEN "waiting"
              ELSE IF at # N THEN "starting" ELSE "testing"
  /\ at' = IF at # N THEN at + 1 ELSE at
  /\ known' = IF at = Last(Group(at)) THEN known \cup {at} ELSE known
  /\ UNCHANGED <<layout, process, installed, saved, raised>>

(* wait_for_service(): one of the ten pings was answered.  The next one of *)
(* the cluster, the next cluster, or the test script follows.              *)
Available ==
  /\ stage = "waiting"
  /\ process[at] = "up"
  /\ stage' = IF at # Last(Cluster(at)) THEN "waiting"
              ELSE IF at # N THEN "starting" ELSE "testing"
  /\ at' = IF at # N THEN at + 1 ELSE at
  /\ known' = IF at = Last(Group(at)) THEN known \cup Group(at) ELSE known
  /\ UNCHANGED <<layout, process, installed, saved, raised>>

(* No ping was answered: start() terminates the cluster, then raises.      *)
Unavailable ==
  /\ stage = "waiting"
  /\ stage' = "cleanup"
  /\ at' = First(Cluster(at))
  /\ UNCHANGED <<layout, process, installed, known, saved, raised>>

(* A ping raises something else than a ConnectionError.                    *)
WaitFails ==
  /\ stage = "waiting"
  /\ Destroy("Exception", known)
  /\ UNCHANGED <<layout, process, installed, known, saved>>

(* The test script is over, or could not be run.                           *)
TestsOver ==
  /\ stage = "testing"
  /\ \E exception \in {"nothing", "Exception"} : Destroy(exception, known)
  /\ UNCHANGED <<layout, process, installed, known, saved>>

-----------------------------------------------------------------------------
(* terminate(), for start() (cleanup) and for the `finally` (destroying).  *)

Terminating == stage \in {"cleanup", "destroying"}
Targets == IF stage = "cleanup" THEN Cluster(at) ELSE known

(* An exception within terminate() ends it; out of start() it runs into    *)
(* the `finally`, out of the `finally` it replaces what was on its way.    *)
Abandon(exception) ==
  IF stage = "cleanup" THEN Destroy(exception, known)
  ELSE stage' = "over" /\ raised' = exception /\ UNCHANGED at

(* The process is killed, its output saved, its distribution removed.      *)
TerminateService ==
  /\ Terminating /\ Started(at)
  /\ process' = [process EXCEPT ![at] = "none"]
  /\ saved' = [saved EXCEPT ![at] = @ + 1]
  /\ installed' = installed \ {at}
  /\ IF at # Last(Targets) THEN at' = at + 1 /\ UNCHANGED <<stage, raised>>
     ELSE IF stage = "cleanup" THEN Destroy("ClusterCreationException", known)
     ELSE stage' = "over" /\ UNCHANGED <<at, raised>>
  /\ UNCHANGED <<layout, known>>

(* A child process that was just listed is gone when its turn to be killed *)
(* comes: psutil raises before the service process itself is killed.       *)
KillFails ==
  /\ Terminating /\ Started(at)
  /\ Abandon("NoSuchProcess")
  /\ UNCHANGED <<layout, process, installed, known, saved>>

(* The process is killed, but saving its output or uninstall() raises.     *)
UninstallFails ==
  /\ Terminating /\ Started(at)
  /\ process' = [process EXCEPT ![at] = "none"]
  /\ saved' \in {saved, [saved EXCEPT ![at] = @ + 1]}
  /\ Abandon("UninstallError")
  /\ UNCHANGED <<layout, installed, known>>

(* Without a process terminate() yields None, and saving it raises.        *)
TerminateNotStarted ==
  /\ Terminating /\ ~Started(at)
  /\ Abandon("AttributeError")
  /\ UNCHANGED <<layout, process, installed, known, saved>>

(* Everything but the test script.                                         *)
ClusterStep ==
  \/ Download \/ Install \/ ConfigureOpenSearch \/ ConfigureDashboards
  \/ StartProcess \/ StartFails
  \/ \E s \in Service : Exit(s)
  \/ Available \/ Unavailable \/ WaitFails
  \/ TerminateService \/ KillFails \/ UninstallFails \/ TerminateNotStarted

Next == ClusterStep \/ TestsOver

Spec == Init /\ [][Next]_vars

-----------------------------------------------------------------------------
(* When the test script runs, every service of the configuration has been  *)
(* installed and started, none was terminated, and the context manager     *)
(* knows all of them.                                                      *)
ReadyWhenYielded ==
  stage = "testing" =>
    /\ known = Service /\ installed = Service
    /\ \A s \in Service : Started(s) /\ saved[s] = 0

(* A configuration that ends without an exception leaves the machine as it *)
(* found it and has saved the logs of every service.                       *)
CleanAfterSuccess ==
  stage = "over" /\ raised = "nothing" =>
    /\ installed = {}
    /\ \A s \in Service : ~Started(s) /\ saved[s] = 1

(* What an ended configuration may leave running: services the context     *)
(* manager was never told of, members of a group that was not completed;   *)
(* and, of those it knew, what comes after the service at which a          *)
(* termination broke off.  Terminating a service that does not run breaks  *)
(* off too, but leaks only after start() has terminated once already.      *)
LeaksAreExplained ==
  stage = "over" =>
    \A s \in Service : Started(s) =>
      IF s \notin known THEN ~layout.managed /\ Group(s) \cap known = {}
      ELSE \/ raised \in {"NoSuchProcess", "UninstallError"} /\ at <= s
           \/ raised = "AttributeError" /\ layout.managed /\ at < s

(* "Throws ClusterCreationException if the cluster could not start": once  *)
(* start() has raised it, that is what the caller of create() gets to see. *)
CreationFailureReachesTheCaller ==
  [][raised = "ClusterCreationException" => raised' = raised]_vars

=============================================================================
