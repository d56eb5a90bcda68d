---------------------------- MODULE ValidationRun ----------------------------
(***************************************************************************)
(* Runs of run_validation.py on one host, one after the other: the         *)
(* artifacts of a distribution are downloaded, installed, started, tested  *)
(* on the fixed ports of localhost and removed (Validation.run() and its   *)
(* six subclasses).  What a run leaves on the host, the next one finds.    *)
(***************************************************************************)
EXTENDS Naturals, Sequences, FiniteSets, SequencesExt

CONSTANTS
  ValidationRequests,  \* what a run may be asked for: see ValidationRequest
  MaxValidations       \* bound: runs on the host

ProductName == {"opensearch", "opensearch-dashboards"}
Archive == {"tar", "zip"}
Package == {"rpm", "yum", "deb"}

(* native: the native plugins are installed too; digest: for docker, only  *)
(* the digests are compared; sources: the registries, for docker.          *)
ValidationRequest ==
  [dist : Archive \cup Package \cup {"docker"}, projects : Seq(ProductName),
   native : BOOLEAN, digest : BOOLEAN, sources : Seq({"dockerhub", "ecr"})]

ASSUME ValidationAssumption ==
  /\ ValidationRequests \subseteq ValidationRequest /\ MaxValidations \in Nat
  /\ \A q \in ValidationRequests :
       /\ q.projects # <<>> /\ q.projects[1] = "opensearch"
       /\ q.dist = "docker" => q.sources # <<>>

VARIABLES
  validations,  \* the runs: [request, outcome, tested: what answered the tests]
  vstep,        \* of the last run: [phase, todo, sources, after]
  services,     \* the processes and containers on the host: see Service
  packages      \* the run that installed the package of each product, or 0

validationVars == <<validations, vstep, services, packages>>

Service(p, run, packaged, listens) ==
  [project |-> p, run |-> run, packaged |-> packaged, listens |-> listens]

NoStep == [phase |-> "idle", todo |-> <<>>, sources |-> <<>>, after |-> "passed"]

ValidationInit ==
  /\ validations = <<>> /\ vstep = NoStep
  /\ services = {} /\ packages = [p \in ProductName |-> 0]

run == Len(validations)
Wanted == validations[run].request
Listeners(p) == {s \in services : s.project = p /\ s.listens}
Mine == {s \in services : s.run = run}
Packaged(p) == {s \in services : s.project = p /\ s.packaged}

(* check_http_request(), test_apis(): the ports that are asked.            *)
Probed == ToSet(Wanted.projects)
Answered == \A p \in Probed : Listeners(p) # {}

At(phase, dists) == vstep.phase = phase /\ Wanted.dist \in dists
Enter(phase) == vstep' = [vstep EXCEPT !.phase = phase, !.todo = Wanted.projects]
CleanUp(after) ==
  vstep' = [vstep EXCEPT !.phase = "cleanup", !.todo = Wanted.projects, !.after = after]
NextProject(phase) ==
  IF Len(vstep.todo) > 1 THEN vstep' = [vstep EXCEPT !.todo = Tail(@)] ELSE Enter(phase)

(* main(): the sources of docker are validated in turn and the result of   *)
(* the last is the result; an exception ends the run.                      *)
EndRun(outcome) ==
  IF outcome # "raised" /\ Len(vstep.sources) > 1
    THEN /\ vstep' = [NoStep EXCEPT !.phase = "download", !.todo = Wanted.projects,
                                  !.sources = Tail(vstep.sources)]
         /\ UNCHANGED validations
    ELSE /\ vstep' = NoStep
         /\ validations' = [validations EXCEPT ![run].outcome = outcome]

StartValidation(q) ==
  /\ vstep.phase = "idle" /\ run < MaxValidations
  /\ validations' = Append(validations,
       [request |-> q, outcome |-> "running", tested |-> [p \in {} |-> 0]])
  /\ vstep' = [NoStep EXCEPT !.phase = "download", !.todo = q.projects, !.sources = q.sources]
  /\ UNCHANGED <<services, packages>>

-----------------------------------------------------------------------------
DownloadArtifacts ==
  /\ At("download", Archive \cup Package)
  /\ \/ Enter("install") /\ UNCHANGED validations
     \/ EndRun("raised")
  /\ UNCHANGED <<services, packages>>

(* Without its daemon docker's download returns False.                     *)
DaemonDown ==
  /\ At("download", {"docker"}) /\ EndRun("failed")
  /\ UNCHANGED <<services, packages>>

PullImages ==
  /\ At("download", {"docker"})
  /\ \/ Enter("start") /\ UNCHANGED validations
     \/ EndRun("raised")
  /\ UNCHANGED <<services, packages>>

InstallTar ==
  /\ At("install", {"tar"})
  /\ \/ Enter("start") /\ UNCHANGED validations
     \/ EndRun("failed")
  /\ UNCHANGED <<services, packages>>

InstallZip ==
  /\ At("install", {"zip"})
  /\ \/ Enter("start") /\ UNCHANGED validations
     \/ EndRun("raised")
  /\ UNCHANGED <<services, packages>>

(* The checks of an rpm, or the removal of the old package, may fail while *)
(* nothing is changed.                                                     *)
RefusePackage ==
  /\ At("install", Package) /\ EndRun("raised")
  /\ UNCHANGED <<services, packages>>

(* A package replaces the one before, whose service stops.                 *)
Replace(p, installed) ==
  /\ services' = services \ Packaged(p)
  /\ packages' = [packages EXCEPT ![p] = IF installed THEN run ELSE 0]

(* After each package; they go into the directory of OpenSearch.           *)
NativePlugins ==
  \/ /\ Wanted.native => packages'["opensearch"] # 0
     /\ NextProject("start") /\ UNCHANGED validations
  \/ Wanted.native /\ EndRun("raised")

(* That `rpm -ivh` fails is not noticed.                                   *)
InstallRpm ==
  /\ At("install", {"rpm"})
  /\ \E installed \in BOOLEAN : Replace(Head(vstep.todo), installed)
  /\ NativePlugins

InstallYum ==
  /\ At("install", {"yum"})
  /\ \/ Replace(Head(vstep.todo), TRUE) /\ NativePlugins
     \/ Replace(Head(vstep.todo), FALSE) /\ EndRun("raised")

(* Fault: the package is installed over the one there is.                  *)
InstallDebOver ==
  /\ At("install", {"deb"})
  /\ packages' = [packages EXCEPT ![Head(vstep.todo)] = run]
  /\ NativePlugins
  /\ UNCHANGED services

InstallDeb ==
  /\ At("install", {"deb"})
  /\ \/ Replace(Head(vstep.todo), TRUE) /\ NativePlugins
     \/ Replace(Head(vstep.todo), FALSE) /\ EndRun("raised")

-----------------------------------------------------------------------------
(* A process that comes up listens on its port if that is free: OpenSearch *)
(* takes the next one otherwise, Dashboards ends.  It may also end itself. *)
ComeUp(p, packaged) ==
  \/ UNCHANGED services
  \/ /\ Listeners(p) = {} \/ p = "opensearch"
     /\ services' = services \cup {Service(p, run, packaged, Listeners(p) = {})}

StartProcess ==
  /\ At("start", Archive)
  /\ \/ /\ ComeUp(Head(vstep.todo), FALSE)
        /\ NextProject("ready") /\ UNCHANGED validations
     \/ EndRun("raised") /\ UNCHANGED services
  /\ UNCHANGED packages

StartUnit ==
  LET p == Head(vstep.todo) IN
  /\ At("start", Package)
  /\ IF packages[p] = 0 THEN UNCHANGED services ELSE ComeUp(p, TRUE)
  /\ \/ packages[p] # 0 /\ NextProject("ready") /\ UNCHANGED validations
     \/ EndRun("raised")
  /\ UNCHANGED packages

(* inspect_digest() of each image: nothing is started.                     *)
CompareDigests ==
  /\ At("start", {"docker"}) /\ Wanted.digest
  /\ \E same \in BOOLEAN : EndRun(IF same THEN "passed" ELSE "raised")
  /\ UNCHANGED <<services, packages>>

(* The names and the ports of the containers are fixed: compose replaces   *)
(* those of the source before and fails on anyone else's.                  *)
ComposeUp ==
  LET others == services \ Mine
      free == {p \in ToSet(Wanted.projects) : \A s \in others : s.project = p => ~s.listens} IN
  /\ At("start", {"docker"}) /\ ~Wanted.digest
  /\ \E up \in SUBSET free :
       services' = others \cup {Service(p, run, FALSE, TRUE) : p \in up}
  /\ \/ free = ToSet(Wanted.projects) /\ Enter("ready") /\ UNCHANGED validations
     \/ EndRun("raised")
  /\ UNCHANGED packages

(* check_cluster_readiness(): until the ports answer, twenty times.        *)
AwaitReadiness ==
  /\ vstep.phase = "ready" /\ Answered
  /\ Enter(IF Wanted.dist = "docker" /\ Wanted.native THEN "plugins" ELSE "api")
  /\ UNCHANGED <<validations, services, packages>>

ArchiveNotReady ==
  /\ At("ready", Archive) /\ CleanUp("raised")
  /\ UNCHANGED <<validations, services, packages>>

(* Packages and containers are left behind.                                *)
NotReady ==
  /\ vstep.phase = "ready" /\ Wanted.dist \notin Archive /\ EndRun("raised")
  /\ UNCHANGED <<services, packages>>

(* Containers get their native plugins when they run and are restarted.    *)
RestartContainers ==
  /\ At("plugins", {"docker"})
  /\ \/ /\ \E down \in SUBSET Mine : services' = services \ down
        /\ Enter("again") /\ UNCHANGED validations
     \/ EndRun("raised") /\ UNCHANGED services
  /\ UNCHANGED packages

AwaitAgain ==
  /\ At("again", {"docker"})
  /\ \/ Answered /\ Enter("api")
     \/ CleanUp("failed")
  /\ UNCHANGED <<validations, services, packages>>

TestApis ==
  /\ vstep.phase = "api"
  /\ validations' = [validations EXCEPT ![run].tested =
       [p \in {x \in Probed : Listeners(x) # {}} |-> (CHOOSE s \in Listeners(p) : TRUE).run]]
  /\ \/ Answered /\ CleanUp("passed")
     \/ CleanUp("raised")
  /\ UNCHANGED <<services, packages>>

-----------------------------------------------------------------------------
(* The end of one project's clean-up, and of all.                          *)
Cleaned ==
  IF Len(vstep.todo) > 1
    THEN vstep' = [vstep EXCEPT !.todo = Tail(@)] /\ UNCHANGED validations
    ELSE EndRun(vstep.after)

TerminateProcesses ==
  /\ At("cleanup", Archive)
  /\ \/ /\ services' = services \ {s \in Mine : s.project = Head(vstep.todo)}
        /\ Cleaned
     \/ EndRun("raised") /\ UNCHANGED services
  /\ UNCHANGED packages

RemovePackages ==
  LET p == Head(vstep.todo) IN
  /\ At("cleanup", {"rpm", "yum"})
  /\ \/ Replace(p, FALSE) /\ Cleaned
     \/ services' = services \ Packaged(p) /\ EndRun("raised") /\ UNCHANGED packages
     \/ EndRun("raised") /\ UNCHANGED <<services, packages>>

PurgePackages ==
  /\ At("cleanup", {"deb"})
  /\ \/ Replace(Head(vstep.todo), FALSE) /\ Cleaned
     \/ EndRun("raised") /\ UNCHANGED <<services, packages>>

(* What docker's clean-up returns counts only after tests that passed.     *)
ComposeDown ==
  /\ At("cleanup", {"docker"})
  /\ \/ services' = services \ Mine /\ EndRun(vstep.after)
     \/ /\ EndRun(IF vstep.after = "passed" THEN "failed" ELSE vstep.after)
        /\ UNCHANGED services
  /\ UNCHANGED packages

ValidationNext ==
  \/ \E q \in ValidationRequests : StartValidation(q)
  \/ DownloadArtifacts \/ DaemonDown \/ PullImages
  \/ InstallTar \/ InstallZip \/ RefusePackage \/ InstallRpm \/ InstallYum \/ InstallDeb
  \/ StartProcess \/ StartUnit \/ CompareDigests \/ ComposeUp
  \/ AwaitReadiness \/ ArchiveNotReady \/ NotReady \/ RestartContainers \/ AwaitAgain \/ TestApis
  \/ TerminateProcesses \/ RemovePackages \/ PurgePackages \/ ComposeDown

ValidationSpec == ValidationInit /\ [][ValidationNext]_validationVars

-----------------------------------------------------------------------------
(* A run that passed leaves nothing of its own on the host, and its tests  *)
(* talked to what it had started itself, except where a run before it that *)
(* did not pass still held the port: which a packaged service cannot do to *)
(* a run that installs its package.                                        *)
PassesAreTrue ==
  \A i \in 1 .. run : validations[i].outcome = "passed" =>
    /\ \A s \in services : s.run # i
    /\ \A p \in ProductName : packages[p] # i
    /\ \A p \in DOMAIN validations[i].tested :
         LET j == validations[i].tested[p] IN
         \/ j = i
         \/ /\ j < i /\ validations[j].outcome # "passed"
            /\ {validations[i].request.dist, validations[j].request.dist} \ Package # {}

=============================================================================
