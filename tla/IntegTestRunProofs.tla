------------------------- MODULE IntegTestRunProofs -------------------------
(***************************************************************************)
(* Proofs about the local test clusters and the runs that use them, for    *)
(* every number of services, every layout of the clusters and every plan.  *)
(***************************************************************************)
EXTENDS IntegTestRun, WellFoundedInduction, TLAPS

(* A set of services has a first and a last member.                        *)
LEMMA Extremes ==
  ASSUME NEW S \in SUBSET Service, S # {}
  PROVE  /\ First(S) \in S /\ \A t \in S : First(S) <= t
         /\ Last(S) \in S /\ \A t \in S : t <= Last(S)
  <1> DEFINE Less == OpToRel(<, Nat)
  <1>1. N \in Nat /\ S \subseteq Nat
    BY ClusterAssumption DEF Service
  <1>2. IsWellFoundedOn(Less, Nat)
    BY NatLessThanWellFounded
  <1>3. \A x, y \in Nat : <<y, x>> \in Less <=> y < x
    BY DEF OpToRel
  <1> HIDE DEF Less
  <1>4. \E s \in S : \A t \in S : s <= t
    <2>1. PICK s \in S : \A t \in S : <<t, s>> \notin Less
      BY <1>1, <1>2, WFMin
    <2>2. \A t \in S : ~ t < s
      BY <2>1, <1>1, <1>3
    <2> QED  BY <2>2, <1>1
  <1>5. \E s \in S : \A t \in S : t <= s
    <2> DEFINE Back == {n \in Nat : N - n \in S}
    <2>1. \A t \in S : N - t \in Back
      BY <1>1 DEF Service
    <2>2. Back \subseteq Nat /\ Back # {}
      BY <2>1
    <2>3. PICK n \in Back : \A m \in Back : <<m, n>> \notin Less
      BY <2>2, <1>2, WFMin
    <2>4. \A t \in S : ~ N - t < n
      BY <2>1, <2>3, <1>3, <2>2
    <2>5. N - n \in S /\ \A t \in S : t <= N - n
      BY <2>4, <1>1
    <2> QED  BY <2>5
  <1> QED  BY <1>4, <1>5 DEF First, Last

-----------------------------------------------------------------------------
(* The clusters of a layout: all services are one, or each is one.         *)
LEMMA Clusters ==
  ASSUME layout \in Layouts, NEW s \in Service
  PROVE  /\ Cluster(s) = IF layout.managed THEN Service ELSE {s}
         /\ layout.managed => First(Cluster(s)) = 1 /\ Last(Cluster(s)) = N
         /\ ~layout.managed => First(Cluster(s)) = s /\ Last(Cluster(s)) = s
  <1>1. N \in Nat /\ N > 0
    BY ClusterAssumption
  <1>2. Cluster(s) = IF layout.managed THEN Service ELSE {s}
    BY ClusterAssumption DEF Cluster
  <1>3. Cluster(s) \in SUBSET Service /\ Cluster(s) # {}
    BY <1>2
  <1>4. /\ First(Cluster(s)) \in Cluster(s)
        /\ \A t \in Cluster(s) : First(Cluster(s)) <= t
        /\ Last(Cluster(s)) \in Cluster(s)
        /\ \A t \in Cluster(s) : t <= Last(Cluster(s))
    BY <1>3, Extremes
  <1>5. CASE layout.managed
    <2>1. 1 \in Service /\ N \in Service /\ Cluster(s) = Service
      BY <1>1, <1>2, <1>5 DEF Service
    <2>2. /\ First(Cluster(s)) \in Int /\ 1 <= First(Cluster(s))
          /\ Last(Cluster(s)) \in Int /\ Last(Cluster(s)) <= N
      BY <2>1, <1>4 DEF Service
    <2>3. First(Cluster(s)) <= 1 /\ N <= Last(Cluster(s))
      BY <2>1, <1>4
    <2> QED  BY <2>2, <2>3, <1>1, <1>2, <1>5
  <1>6. CASE ~layout.managed
    BY <1>2, <1>4, <1>6
  <1> QED  BY <1>2, <1>5, <1>6

(* The groups of a layout are intervals that do not overlap.               *)
LEMMA Groups ==
  ASSUME layout \in Layouts, NEW s \in Service
  PROVE  /\ s \in Group(s) /\ Group(s) \subseteq Service
         /\ \A t \in Group(s) : Group(t) = Group(s)
         /\ \A t \in Service : t \notin Group(s) =>
              \/ \A a \in Group(t), b \in Group(s) : a < b
              \/ \A a \in Group(t), b \in Group(s) : b < a
         /\ Last(Group(s)) \in Group(s)
         /\ \A t \in Group(s) : t <= Last(Group(s))
  <1>1. layout.group \in [Service -> Service]
    BY ClusterAssumption DEF Consecutive
  <1>2. \A a, b \in Service : a <= b => layout.group[a] <= layout.group[b]
    BY ClusterAssumption DEF Consecutive
  <1>3. s \in Group(s) /\ Group(s) \subseteq Service
    BY DEF Group
  <1>4. \A t \in Group(s) : Group(t) = Group(s)
    BY DEF Group
  <1>5. \A t \in Service : layout.group[t] \in Int /\ t \in Int
    <2>1. \A t \in Service : layout.group[t] \in Service
      BY <1>1
    <2>2. \A t \in Service : t \in Int
      BY ClusterAssumption DEF Service
    <2> QED  BY <2>1, <2>2
  <1>6. ASSUME NEW t \in Service, t \notin Group(s)
        PROVE  \/ \A a \in Group(t), b \in Group(s) : a < b
               \/ \A a \in Group(t), b \in Group(s) : b < a
    <2>1. layout.group[t] # layout.group[s]
      BY <1>6 DEF Group
    <2>0. \A a \in Group(t), b \in Group(s) :
            /\ a \in Service /\ layout.group[a] = layout.group[t]
            /\ b \in Service /\ layout.group[b] = layout.group[s]
      BY DEF Group
    <2>2. CASE layout.group[t] < layout.group[s]
      <3>1. \A a \in Group(t), b \in Group(s) : a < b
        BY <2>0, <2>2, <1>2, <1>5
      <3> QED  BY <3>1
    <2>3. CASE layout.group[s] < layout.group[t]
      <3>1. \A a \in Group(t), b \in Group(s) : b < a
        BY <2>0, <2>3, <1>2, <1>5
      <3> QED  BY <3>1
    <2> QED  BY <2>1, <2>2, <2>3, <1>5
  <1>7. /\ Last(Group(s)) \in Group(s)
        /\ \A t \in Group(s) : t <= Last(Group(s))
    BY <1>3, Extremes
  <1> QED  BY <1>3, <1>4, <1>6, <1>7

-----------------------------------------------------------------------------
(* The inductive invariant of a test configuration.                        *)

(* Every variable of a configuration keeps its type.                       *)
ClusterTypeOK ==
  /\ layout \in Layouts
  /\ stage \in {"starting", "installing", "configuring", "launching", "waiting",
                "testing", "cleanup", "destroying", "over"}
  /\ at \in Service
  /\ process \in [Service -> {"none", "up", "dead"}]
  /\ installed \subseteq Service
  /\ known \subseteq Service
  /\ saved \in [Service -> Nat]
  /\ raised \in {"nothing", "Exception", "ClusterCreationException",
                 "NoSuchProcess", "UninstallError", "AttributeError"}

(* Services start one after the other, and none is terminated before all   *)
(* of its cluster have been.                                               *)
StartInv ==
  /\ Starting =>
       \A s \in Service :
         /\ Started(s) <=> s < at
         /\ s \in installed <=>
              s < at \/ (s = at /\ stage \in {"configuring", "launching"})
  /\ stage = "waiting" =>
       \A s \in Service :
         /\ Started(s) <=> layout.managed \/ s <= at
         /\ s \in installed <=> layout.managed \/ s <= at
  /\ Starting \/ stage \in {"waiting", "testing"} => \A s \in Service : saved[s] = 0
  /\ Starting \/ stage \in {"waiting", "cleanup", "testing"} => raised = "nothing"

(* What the context manager knows are whole groups, the first ones; while  *)
(* services start, those all of whose members came before.                 *)
KnownInv ==
  /\ layout.managed => known = Service
  /\ \A s \in known : \A t \in Service : t <= s \/ t \in Group(s) => t \in known
  /\ Starting \/ stage = "waiting" =>
       \A s \in Service : s \in known <=> layout.managed \/ \A t \in Group(s) : t < at

(* start() terminates its cluster from the first service to the last.      *)
CleanupInv ==
  stage = "cleanup" =>
    /\ \A s \in Cluster(at) : Started(s) <=> s >= at
    /\ ~layout.managed => at \notin known /\ \A s \in known : Started(s)

(* So does the `finally` with what it knows; on its way out of tests that  *)
(* passed it finds all of it.                                              *)
DestroyInv ==
  stage = "destroying" =>
    /\ at \in known
    /\ \A s \in known : s < at => ~Started(s)
    /\ ~layout.managed => \A s \in known : s >= at => Started(s)
    /\ raised = "nothing" =>
         /\ known = Service
         /\ \A s \in Service :
              /\ Started(s) <=> s >= at
              /\ s \in installed <=> s >= at
              /\ saved[s] = IF s < at THEN 1 ELSE 0

ClusterInv ==
  /\ ClusterTypeOK /\ StartInv /\ KnownInv /\ CleanupInv /\ DestroyInv
  /\ ReadyWhenYielded /\ CleanAfterSuccess /\ LeaksAreExplained

(* What a step that terminates a set of known services begins with.        *)
LEMMA KnownServices ==
  ASSUME ClusterTypeOK, KnownInv
  PROVE  /\ known # {} => 1 \in known /\ First(known) = 1
         /\ \A s \in known : s # Last(known) => s + 1 \in known
         /\ \A s \in known : s # Last(known) \/ \A t \in known : t <= s
         /\ layout.managed => known # {}
  <1>1. N \in Nat /\ N > 0 /\ 1 \in Service
    BY ClusterAssumption DEF Service
  <1>2. known \in SUBSET Service /\ \A s \in known : s \in 1 .. N
    BY DEF ClusterTypeOK, Service
  <1>3. known # {} =>
          /\ First(known) \in known /\ \A t \in known : First(known) <= t
          /\ Last(known) \in known /\ \A t \in known : t <= Last(known)
    BY <1>2, Extremes
  <1>4. \A s \in known : \A t \in Service : t <= s => t \in known
    BY DEF KnownInv
  <1>5. ASSUME NEW s \in known, s # Last(known) PROVE s + 1 \in known
    <2>1. Last(known) \in known /\ s < Last(known) /\ s + 1 <= Last(known)
      BY <1>2, <1>3, <1>5
    <2>2. s \in 1 .. N /\ Last(known) \in 1 .. N
      BY <2>1, <1>2
    <2>3. s + 1 \in Service
      BY <2>1, <2>2, <1>1 DEF Service
    <2> QED  BY <2>1, <2>3, <1>4
  <1>6. known # {} => 1 \in known /\ First(known) = 1
    <2> SUFFICES ASSUME known # {} PROVE 1 \in known /\ First(known) = 1
      OBVIOUS
    <2>1. 1 <= First(known) /\ First(known) \in known
      BY <1>2, <1>3
    <2>2. 1 \in known
      BY <2>1, <1>1, <1>4
    <2>3. First(known) <= 1 /\ First(known) \in Int
      BY <2>2, <1>3, <1>2
    <2> QED  BY <2>1, <2>2, <2>3
  <1>7. layout.managed => known # {}
    BY <1>1 DEF KnownInv
  <1> QED  BY <1>3, <1>5, <1>6, <1>7

(* A configuration that is left with an exception.                         *)
LEMMA DestroyKeeps ==
  ASSUME ClusterTypeOK, KnownInv,
         NEW exception, Destroy(exception, known),
         exception \in {"Exception", "ClusterCreationException", "NoSuchProcess",
                        "UninstallError", "AttributeError"},
         UNCHANGED <<layout, known>>,
         process' \in [Service -> {"none", "up", "dead"}],
         installed' \subseteq Service, saved' \in [Service -> Nat],
         ~layout.managed => \A s \in known : process'[s] # "none"
  PROVE  ClusterInv'
  <1>1. CASE known = {}
    <2>1. ~layout.managed /\ stage' = "over" /\ raised' = exception /\ at' = at
      BY <1>1, KnownServices DEF Destroy
    <2>2. ClusterTypeOK'
      BY <2>1 DEF ClusterTypeOK
    <2>3. StartInv' /\ KnownInv' /\ CleanupInv' /\ DestroyInv'
      BY <1>1, <2>1 DEF StartInv, KnownInv, CleanupInv, DestroyInv, Starting, Group
    <2>4. ReadyWhenYielded' /\ CleanAfterSuccess' /\ LeaksAreExplained'
      BY <1>1, <2>1 DEF ReadyWhenYielded, CleanAfterSuccess, LeaksAreExplained
    <2> QED  BY <2>2, <2>3, <2>4 DEF ClusterInv
  <1>2. CASE known # {}
    <2>1. stage' = "destroying" /\ raised' = exception /\ at' = 1 /\ 1 \in known
      BY <1>2, KnownServices DEF Destroy
    <2>2. ClusterTypeOK'
      BY <2>1 DEF ClusterTypeOK
    <2>3. StartInv' /\ KnownInv' /\ CleanupInv'
      BY <2>1 DEF StartInv, KnownInv, CleanupInv, Starting, Group
    <2>4. DestroyInv'
      <3>1. \A s \in known : s \in Int /\ 1 <= s
        BY ClusterAssumption DEF ClusterTypeOK, Service
      <3> QED  BY <2>1, <3>1 DEF DestroyInv, Started
    <2>5. ReadyWhenYielded' /\ CleanAfterSuccess' /\ LeaksAreExplained'
      BY <2>1 DEF ReadyWhenYielded, CleanAfterSuccess, LeaksAreExplained
    <2> QED  BY <2>2, <2>3, <2>4, <2>5 DEF ClusterInv
  <1> QED  BY <1>1, <1>2

(* The steps of service.start() before its process runs.                   *)
LEMMA PrepareKeeps ==
  ASSUME ClusterInv,
         Download \/ Install \/ ConfigureOpenSearch \/ ConfigureDashboards
  PROVE  ClusterInv'
  <1>1. /\ Starting /\ Starting' /\ stage' # "starting"
        /\ UNCHANGED <<layout, at, process, known, saved, raised>>
        /\ installed' \subseteq Service
        /\ stage' \in {"installing", "configuring", "launching"}
        /\ \A s \in Service : s \in installed' <=>
              s < at \/ (s = at /\ stage' \in {"configuring", "launching"})
    BY DEF Download, Install, ConfigureOpenSearch, ConfigureDashboards, Starting,
           ClusterInv, ClusterTypeOK, StartInv
  <1>2. ClusterTypeOK'
    BY <1>1 DEF ClusterInv, ClusterTypeOK
  <1>3. StartInv'
    BY <1>1 DEF ClusterInv, StartInv, Started, Starting
  <1>4. KnownInv'
    BY <1>1 DEF ClusterInv, KnownInv, Group
  <1>5. CleanupInv' /\ DestroyInv'
    BY <1>1 DEF CleanupInv, DestroyInv
  <1>6. ReadyWhenYielded' /\ CleanAfterSuccess' /\ LeaksAreExplained'
    BY <1>1 DEF ReadyWhenYielded, CleanAfterSuccess, LeaksAreExplained
  <1> QED  BY <1>2, <1>3, <1>4, <1>5, <1>6 DEF ClusterInv

(* The process starts: the last one of a cluster is waited for.            *)
LEMMA StartProcessKeeps ==
  ASSUME ClusterInv, StartProcess
  PROVE  ClusterInv'
  <1> USE DEF ClusterInv
  <1>1. /\ stage = "launching" /\ Starting
        /\ process' = [process EXCEPT ![at] = "up"]
        /\ UNCHANGED <<layout, installed, known, saved, raised>>
    BY DEF StartProcess, Starting
  <1>2. at \in Service /\ at \in Int /\ N \in Nat /\ \A s \in Service : s \in Int /\ 1 <= s /\ s <= N
    BY ClusterAssumption DEF ClusterTypeOK, Service
  <1>3. \A s \in Service : /\ Started(s)' <=> s <= at
                           /\ s \in installed' <=> s <= at
    BY <1>1, <1>2 DEF ClusterTypeOK, StartInv, Started, Starting
  <1>4. CASE at = Last(Cluster(at))
    <2>1. /\ stage' = "waiting"
          /\ at' = IF layout.managed THEN 1 ELSE at
          /\ layout.managed => at = N
      BY <1>2, <1>4, Clusters DEF StartProcess, ClusterTypeOK
    <2>2. ClusterTypeOK'
      BY <1>1, <1>2, <2>1 DEF ClusterTypeOK, Service
    <2>3. StartInv'
      BY <1>1, <1>2, <1>3, <2>1 DEF StartInv, Starting
    <2>4. KnownInv'
      BY <1>1, <1>2, <2>1 DEF KnownInv, Group, Starting
    <2> QED
      BY <2>1, <2>2, <2>3, <2>4
         DEF CleanupInv, DestroyInv, ReadyWhenYielded, CleanAfterSuccess, LeaksAreExplained
  <1>5. CASE at # Last(Cluster(at))
    <2>1. stage' = "starting" /\ at' = at + 1 /\ layout.managed /\ at # N
      BY <1>2, <1>5, Clusters DEF StartProcess, ClusterTypeOK
    <2>2. ClusterTypeOK'
      BY <1>1, <1>2, <2>1 DEF ClusterTypeOK, Service
    <2>3. StartInv'
      BY <1>1, <1>2, <1>3, <2>1 DEF StartInv, Starting
    <2>4. KnownInv'
      BY <1>1, <1>2, <2>1 DEF KnownInv, Group, Starting, ClusterTypeOK
    <2> QED
      BY <2>1, <2>2, <2>3, <2>4
         DEF CleanupInv, DestroyInv, ReadyWhenYielded, CleanAfterSuccess, LeaksAreExplained
  <1> QED  BY <1>4, <1>5

(* A step of the start that raises.                                        *)
LEMMA StartFailsKeeps ==
  ASSUME ClusterInv, StartFails \/ WaitFails
  PROVE  ClusterInv'
  <1> USE DEF ClusterInv
  <1>1. /\ Destroy("Exception", known)
        /\ UNCHANGED <<layout, process, known, saved>>
        /\ installed' \subseteq Service
    BY DEF StartFails, WaitFails, ClusterTypeOK
  <1>2. ~layout.managed => \A s \in known : process[s] # "none"
    <2> SUFFICES ASSUME ~layout.managed, NEW s \in known PROVE Started(s)
      BY DEF Started
    <2>1. Starting \/ stage = "waiting"
      BY DEF StartFails, WaitFails
    <2>2. s \in Service /\ s \in Group(s)
      BY Groups DEF ClusterTypeOK
    <2>3. s < at /\ s \in Int /\ at \in Int
      BY ClusterAssumption, <2>1, <2>2 DEF KnownInv, ClusterTypeOK, Service
    <2> QED  BY <2>1, <2>2, <2>3 DEF StartInv
  <1> QED  BY <1>1, <1>2, DestroyKeeps DEF ClusterTypeOK

(* A service exits by itself: it counts as started all the same.           *)
LEMMA ExitKeeps ==
  ASSUME ClusterInv, NEW s \in Service, Exit(s)
  PROVE  ClusterInv'
  <1> USE DEF ClusterInv
  <1>1. UNCHANGED <<layout, stage, at, installed, known, saved, raised>>
    BY DEF Exit
  <1>2. \A t \in Service : Started(t)' <=> Started(t)
    BY DEF Exit, Started, ClusterTypeOK
  <1>3. ClusterTypeOK'
    BY DEF Exit, ClusterTypeOK
  <1>4. at \in Service /\ known \subseteq Service /\ \A t \in Service : Cluster(t) \subseteq Service
    BY DEF ClusterTypeOK, Cluster
  <1>5. StartInv' /\ KnownInv'
    BY <1>1, <1>2 DEF StartInv, KnownInv, Starting, Group
  <1>6. Cluster(at)' = Cluster(at) /\ \A t \in Service : Group(t)' = Group(t)
    BY <1>1 DEF Cluster, Group
  <1>7. CleanupInv'
    BY <1>1, <1>2, <1>4, <1>6 DEF CleanupInv
  <1>8. DestroyInv'
    BY <1>1, <1>2, <1>4 DEF DestroyInv
  <1>9. ReadyWhenYielded' /\ CleanAfterSuccess' /\ LeaksAreExplained'
    BY <1>1, <1>2, <1>6 DEF ReadyWhenYielded, CleanAfterSuccess, LeaksAreExplained
  <1> QED  BY <1>3, <1>5, <1>7, <1>8, <1>9

(* A service answers: the next one is waited for, or started, or all of    *)
(* them are ready.                                                         *)
LEMMA AvailableKeeps ==
  ASSUME ClusterInv, Available
  PROVE  ClusterInv'
  <1> USE DEF ClusterInv
  <1>1. /\ stage = "waiting"
        /\ UNCHANGED <<layout, process, installed, saved, raised>>
        /\ known' = IF at = Last(Group(at)) THEN known \cup Group(at) ELSE known
    BY DEF Available
  <1>2. /\ N \in Nat /\ at \in Service /\ at \in Int
        /\ \A s \in Service : s \in Int /\ 1 <= s /\ s <= N
    BY ClusterAssumption DEF ClusterTypeOK, Service
  <1>3. at # N => at + 1 \in Service
    BY <1>2 DEF Service
  <1>4. known' \subseteq Service
    BY <1>1, <1>2, Groups DEF ClusterTypeOK
  <1>5. \A s \in Service : s \in known' <=>
          layout.managed \/ \A t \in Group(s) : t <= at
    <2>1. CASE layout.managed
      BY <2>1, <1>1, <1>4 DEF KnownInv
    <2>2. CASE ~layout.managed
      <3> SUFFICES ASSUME NEW s \in Service
                   PROVE  s \in known' <=> \A t \in Group(s) : t <= at
        BY <2>2
      <3>1. s \in known <=> \A t \in Group(s) : t < at
        BY <1>1, <2>2 DEF KnownInv
      <3>2. /\ \A t \in Group(s) : t \in Int
            /\ \A t \in Group(at) : t \in Int
        BY <1>2, Groups DEF ClusterTypeOK
      <3>3. CASE s \in Group(at)
        <4>1. Group(s) = Group(at) /\ at \in Group(s)
          BY <3>3, <1>2, Groups DEF ClusterTypeOK
        <4>2. /\ Last(Group(at)) \in Group(at)
              /\ \A t \in Group(at) : t <= Last(Group(at))
          BY <1>2, Groups DEF ClusterTypeOK
        <4>3. CASE at = Last(Group(at))
          BY <4>1, <4>2, <4>3, <3>3, <1>1
        <4>4. CASE at # Last(Group(at))
          <5>1. at < Last(Group(at)) /\ Last(Group(at)) \in Group(s)
            <6>1. Last(Group(at)) \in Int /\ at <= Last(Group(at))
              BY <4>1, <4>2, <3>2
            <6> QED  BY <6>1, <4>1, <4>2, <4>4, <1>2
          <5>2. ~ Last(Group(at)) < at /\ ~ Last(Group(at)) <= at
            BY <5>1, <4>2, <3>2, <1>2
          <5> QED  BY <5>1, <5>2, <4>4, <3>1, <1>1
        <4> QED  BY <4>3, <4>4
      <3>4. CASE s \notin Group(at)
        <4>1. at \notin Group(s)
          BY <3>4 DEF Group
        <4>2. s \in known' <=> s \in known
          BY <1>1, <3>4
        <4>3. \A t \in Group(s) : t < at <=> t <= at
          BY <4>1, <3>2, <1>2
        <4> QED  BY <4>2, <4>3, <3>1
      <3> QED  BY <3>3, <3>4
    <2> QED  BY <2>1, <2>2
  <1>6. \A s \in known' : \A t \in Service : t <= s \/ t \in Group(s) => t \in known'
    <2> SUFFICES ASSUME NEW s \in known', NEW t \in Service, t <= s \/ t \in Group(s),
                        ~layout.managed
                 PROVE  \A u \in Group(t) : u <= at
      BY <1>4, <1>5
    <2>1. s \in Service /\ s \in Group(s) /\ \A u \in Group(s) : u <= at
      BY <1>4, <1>5, Groups DEF ClusterTypeOK
    <2>2. CASE t \in Group(s)
      BY <2>1, <2>2, Groups DEF ClusterTypeOK
    <2>3. CASE t \notin Group(s)
      <3>1. \A a \in Group(t), b \in Group(s) : a < b
        <4>1. t \in Group(t) /\ t \in Int /\ s \in Int /\ ~ s < t
          BY <1>2, <2>1, <2>3, Groups DEF ClusterTypeOK
        <4> QED  BY <4>1, <2>1, <2>3, Groups DEF ClusterTypeOK
      <3>2. \A a \in Group(t) : a < s /\ a \in Int
        BY <3>1, <2>1, <1>2, Groups DEF ClusterTypeOK
      <3> QED  BY <3>2, <2>1, <1>2
    <2> QED  BY <2>2, <2>3
  <1>7. KnownInv'
    <2>1. layout.managed => known' = Service
      BY <1>4, <1>5
    <2>2. \A s \in Service : Group(s)' = Group(s)
      BY <1>1 DEF Group
    <2>3. stage' = "waiting" /\ ~layout.managed => at' = at
      BY <1>2, Clusters DEF Available, ClusterTypeOK
    <2>4. stage' = "starting" => at' = at + 1
      BY <1>2 DEF Available
    <2>5. stage' \in {"waiting", "starting", "testing"}
      BY DEF Available
    <2>6. ~layout.managed => stage' # "waiting"
      BY <1>2, Clusters DEF Available, ClusterTypeOK
    <2>7. ASSUME stage' = "starting", NEW s \in Service
          PROVE  s \in known' <=> layout.managed \/ \A t \in Group(s) : t < at'
      <3>1. \A t \in Group(s) : t \in Int
        BY <2>7, <1>2, Groups DEF ClusterTypeOK
      <3>2. \A t \in Int : t < at + 1 <=> t <= at
        BY <1>2
      <3> QED  BY <3>1, <3>2, <1>5, <2>4, <2>7
    <2> QED
      BY <1>1, <1>4, <1>5, <1>6, <2>1, <2>2, <2>5, <2>6, <2>7 DEF KnownInv, Starting
  <1>8. ClusterTypeOK'
    BY <1>1, <1>2, <1>3, <1>4 DEF Available, ClusterTypeOK
  <1>9. StartInv' /\ ReadyWhenYielded'
    <2>1. CASE stage' = "waiting"
      <3>1. layout.managed
        BY <2>1, <1>2, Clusters DEF Available, ClusterTypeOK
      <3> QED  BY <2>1, <3>1, <1>1 DEF StartInv, Starting, Started, ReadyWhenYielded
    <2>2. CASE stage' = "starting"
      <3>1. ~layout.managed /\ at' = at + 1
        BY <2>2, <1>2, Clusters DEF Available, ClusterTypeOK
      <3>2. \A s \in Service : s < at + 1 <=> s <= at
        BY <1>2
      <3> QED
        BY <2>2, <3>1, <3>2, <1>1 DEF StartInv, Starting, Started, ReadyWhenYielded
    <2>3. CASE stage' = "testing"
      <3>1. at = N
        BY <2>3 DEF Available
      <3>2. \A s \in Service : s <= at
        BY <3>1, <1>2
      <3>3. known' = Service
        BY <1>2, <1>4, <1>5, <3>1, Groups DEF ClusterTypeOK
      <3>4. \A s \in Service : Started(s) /\ s \in installed /\ saved[s] = 0
        BY <1>1, <3>2 DEF StartInv
      <3> QED
        BY <2>3, <3>3, <3>4, <1>1
           DEF StartInv, Starting, Started, ReadyWhenYielded, ClusterTypeOK
    <2> QED  BY <2>1, <2>2, <2>3 DEF Available
  <1>10. stage' \notin {"cleanup", "destroying", "over"}
    BY DEF Available
  <1> QED
    BY <1>7, <1>8, <1>9, <1>10 DEF CleanupInv, DestroyInv, CleanAfterSuccess, LeaksAreExplained

(* No answer: the cluster is terminated, whose services all run.           *)
LEMMA UnavailableKeeps ==
  ASSUME ClusterInv, Unavailable
  PROVE  ClusterInv'
  <1> USE DEF ClusterInv
  <1>1. /\ stage = "waiting" /\ stage' = "cleanup" /\ at' = First(Cluster(at))
        /\ UNCHANGED <<layout, process, installed, known, saved, raised>>
    BY DEF Unavailable
  <1>2. /\ N \in Nat /\ at \in Service /\ at \in Int /\ 1 \in Service
        /\ \A s \in Service : s \in Int /\ 1 <= s /\ s <= N
    BY ClusterAssumption DEF ClusterTypeOK, Service
  <1>3. at' = IF layout.managed THEN 1 ELSE at
    BY <1>1, <1>2, Clusters DEF ClusterTypeOK
  <1>4. ClusterTypeOK'
    BY <1>1, <1>2, <1>3 DEF ClusterTypeOK
  <1>5. StartInv' /\ KnownInv'
    BY <1>1 DEF StartInv, KnownInv, Starting, Group
  <1>6. CleanupInv'
    <2>1. Cluster(at)' = IF layout.managed THEN Service ELSE {at}
      <3>1. Cluster(at)' = Cluster(IF layout.managed THEN 1 ELSE at)
        BY <1>1, <1>3 DEF Cluster
      <3> QED  BY <3>1, <1>2, Clusters DEF ClusterTypeOK
    <2>2. CASE layout.managed
      <3>1. \A s \in Service : Started(s)' /\ s >= at'
        BY <2>2, <1>1, <1>2, <1>3 DEF StartInv, Started
      <3> QED  BY <2>1, <2>2, <3>1, <1>1 DEF CleanupInv
    <2>3. CASE ~layout.managed
      <3>2. \A s \in known : s \in Group(s) /\ s < at /\ s \in Service
        BY <2>3, <1>1, Groups DEF KnownInv, ClusterTypeOK
      <3>3. Started(at) /\ \A s \in known : Started(s) /\ s # at
        <4>1. \A s \in Service : s <= at => Started(s)
          BY <1>1 DEF StartInv
        <4>2. \A s \in Service : s < at => s <= at /\ s # at
          BY <1>2
        <4>3. at <= at
          BY <1>2
        <4> QED  BY <3>2, <4>1, <4>2, <4>3, <1>2
      <3>4. Cluster(at)' = {at} /\ at' = at /\ known' = known
        BY <2>1, <2>3, <1>1, <1>3
      <3>5. Started(at)' /\ at >= at' /\ \A s \in known : Started(s)' /\ s # at
        <4>1. at >= at
          BY <1>2
        <4> QED  BY <4>1, <3>3, <3>4, <1>1 DEF Started
      <3> QED  BY <3>4, <3>5 DEF CleanupInv
    <2> QED  BY <2>2, <2>3
  <1> QED
    BY <1>1, <1>4, <1>5, <1>6 DEF DestroyInv, ReadyWhenYielded, CleanAfterSuccess, LeaksAreExplained

(* The tests are over: all of the services are there to be terminated.     *)
LEMMA TestsOverKeeps ==
  ASSUME ClusterInv, TestsOver
  PROVE  ClusterInv'
  <1> USE DEF ClusterInv
  <1>1. /\ stage = "testing" /\ raised = "nothing"
        /\ UNCHANGED <<layout, process, installed, known, saved>>
        /\ \A s \in Service : Started(s) /\ s \in installed /\ saved[s] = 0
        /\ known = Service
    BY DEF TestsOver, ReadyWhenYielded, StartInv
  <1>2. CASE Destroy("Exception", known)
    BY <1>1, <1>2, DestroyKeeps DEF ClusterTypeOK, Started
  <1>3. CASE Destroy("nothing", known)
    <2>1. /\ N \in Nat /\ 1 \in Service /\ \A s \in Service : s \in Int /\ 1 <= s
      BY ClusterAssumption DEF Service
    <2>2. stage' = "destroying" /\ raised' = "nothing" /\ at' = 1
      BY <1>1, <1>3, <2>1, KnownServices DEF Destroy
    <2>3. ClusterTypeOK'
      BY <1>1, <2>1, <2>2 DEF ClusterTypeOK
    <2>4. StartInv' /\ KnownInv'
      BY <1>1, <2>2 DEF StartInv, KnownInv, Starting, Group
    <2>5. DestroyInv'
      BY <1>1, <2>1, <2>2 DEF DestroyInv, Started
    <2> QED
      BY <2>2, <2>3, <2>4, <2>5
         DEF CleanupInv, ReadyWhenYielded, CleanAfterSuccess, LeaksAreExplained
  <1> QED  BY <1>2, <1>3 DEF TestsOver

(* Terminating the service that was come to, and an exception instead.     *)
LEMMA TerminateServiceKeeps ==
  ASSUME ClusterInv, TerminateService
  PROVE  ClusterInv'
  <1> USE DEF ClusterInv
  <1>1. /\ Terminating /\ Started(at)
        /\ process' = [process EXCEPT ![at] = "none"]
        /\ saved' = [saved EXCEPT ![at] = @ + 1]
        /\ installed' = installed \ {at}
        /\ UNCHANGED <<layout, known>>
    BY DEF TerminateService
  <1>2. /\ N \in Nat /\ at \in Service /\ at \in Int /\ N \in Service
        /\ \A s \in Service : s \in Int /\ 1 <= s /\ s <= N
    BY ClusterAssumption DEF ClusterTypeOK, Service
  <1>3. /\ process' \in [Service -> {"none", "up", "dead"}]
        /\ installed' \subseteq Service /\ saved' \in [Service -> Nat]
        /\ \A s \in Service : Started(s)' <=> Started(s) /\ s # at
    BY <1>1, <1>2 DEF ClusterTypeOK, Started
  <1>4. CASE stage = "cleanup" /\ at # Last(Targets)
    <2>1. /\ at' = at + 1 /\ stage' = "cleanup" /\ raised' = raised
          /\ Targets = Cluster(at)
      BY <1>4 DEF TerminateService, Targets
    <2>2. layout.managed /\ Cluster(at) = Service /\ at # N
      BY <1>2, <1>4, <2>1, Clusters DEF ClusterTypeOK
    <2>3. at + 1 \in Service
      BY <1>2, <2>2 DEF Service
    <2>4. ClusterTypeOK'
      BY <1>1, <1>3, <2>1, <2>3 DEF ClusterTypeOK
    <2>5. StartInv' /\ KnownInv'
      BY <1>1, <1>4, <2>1 DEF StartInv, KnownInv, Starting, Group
    <2>6. CleanupInv'
      <3>1. \A s \in Service : Started(s)' <=> s >= at + 1
        BY <1>2, <1>3, <1>4, <2>2 DEF CleanupInv
      <3>2. Cluster(at)' \subseteq Service
        BY <1>1 DEF Cluster
      <3> QED  BY <1>1, <2>1, <2>2, <3>1, <3>2 DEF CleanupInv
    <2> QED
      BY <2>1, <2>4, <2>5, <2>6
         DEF DestroyInv, ReadyWhenYielded, CleanAfterSuccess, LeaksAreExplained
  <1>5. CASE stage = "cleanup" /\ at = Last(Targets)
    <2>1. Destroy("ClusterCreationException", known)
      BY <1>5 DEF TerminateService
    <2>2. ~layout.managed => \A s \in known : process'[s] # "none"
      BY <1>1, <1>3, <1>5 DEF CleanupInv, Started, ClusterTypeOK
    <2> QED  BY <1>1, <1>3, <2>1, <2>2, DestroyKeeps
  <1>6. CASE stage = "destroying" /\ at # Last(Targets)
    <2>1. /\ at' = at + 1 /\ stage' = "destroying" /\ raised' = raised
          /\ Targets = known /\ at \in known
      BY <1>6 DEF TerminateService, Targets, DestroyInv
    <2>2. at + 1 \in known /\ known \subseteq Service
      BY <1>6, <2>1, KnownServices DEF ClusterTypeOK
    <2>4. ClusterTypeOK'
      BY <1>1, <1>3, <2>1, <2>2 DEF ClusterTypeOK
    <2>5. StartInv' /\ KnownInv'
      BY <1>1, <1>6, <2>1 DEF StartInv, KnownInv, Starting, Group
    <2>6. DestroyInv'
      <3>1. \A s \in Service : /\ s < at + 1 <=> s < at \/ s = at
                               /\ s >= at + 1 <=> s >= at /\ s # at
        BY <1>2
      <3>2. \A s \in known : s < at + 1 => ~Started(s)'
        BY <1>3, <1>6, <2>2, <3>1 DEF DestroyInv
      <3>3. ~layout.managed => \A s \in known : s >= at + 1 => Started(s)'
        BY <1>3, <1>6, <2>2, <3>1 DEF DestroyInv
      <3>4. ASSUME raised = "nothing"
            PROVE  \A s \in Service :
                     /\ Started(s)' <=> s >= at + 1
                     /\ s \in installed' <=> s >= at + 1
                     /\ saved'[s] = IF s < at + 1 THEN 1 ELSE 0
        BY <1>1, <1>2, <1>3, <1>6, <3>1, <3>4 DEF DestroyInv, ClusterTypeOK
      <3>5. raised = "nothing" => known = Service
        BY <1>6 DEF DestroyInv
      <3> QED  BY <1>1, <2>1, <2>2, <3>2, <3>3, <3>4, <3>5 DEF DestroyInv
    <2> QED
      BY <2>1, <2>4, <2>5, <2>6
         DEF CleanupInv, ReadyWhenYielded, CleanAfterSuccess, LeaksAreExplained
  <1>7. CASE stage = "destroying" /\ at = Last(Targets)
    <2>1. /\ stage' = "over" /\ at' = at /\ raised' = raised
          /\ at \in known /\ at = Last(known)
      BY <1>7 DEF TerminateService, Targets, DestroyInv
    <2>2. \A t \in known : t <= at
      BY <2>1, KnownServices
    <2>3. \A s \in known : ~Started(s)'
      BY <1>2, <1>3, <1>7, <2>2 DEF DestroyInv, ClusterTypeOK
    <2>4. ClusterTypeOK'
      BY <1>1, <1>3, <2>1 DEF ClusterTypeOK
    <2>5. StartInv' /\ KnownInv'
      BY <1>1, <1>7, <2>1 DEF StartInv, KnownInv, Starting, Group
    <2>6. CleanAfterSuccess'
      <3> SUFFICES ASSUME raised = "nothing"
                   PROVE  installed' = {} /\ \A s \in Service : ~Started(s)' /\ saved'[s] = 1
        BY <2>1 DEF CleanAfterSuccess
      <3>1. known = Service
        BY <1>7 DEF DestroyInv
      <3>2. \A s \in Service : s <= at /\ (s >= at <=> s = at) /\ (s < at <=> s # at)
        BY <1>2, <2>2, <3>1
      <3>3. \A s \in Service :
              /\ s \in installed <=> s = at
              /\ saved[s] = IF s # at THEN 1 ELSE 0
        BY <1>7, <3>2 DEF DestroyInv
      <3>4. \A s \in Service : saved'[s] = 1
        BY <1>1, <1>2, <3>3 DEF ClusterTypeOK
      <3>5. installed' = {}
        BY <1>1, <1>3, <3>3
      <3> QED  BY <2>3, <3>1, <3>4, <3>5
    <2>7. LeaksAreExplained'
      <3> SUFFICES ASSUME NEW s \in Service, Started(s)'
                   PROVE  s \notin known /\ ~layout.managed /\ Group(s) \cap known = {}
        BY <1>1 DEF LeaksAreExplained, Group
      <3>1. s \notin known /\ ~layout.managed
        BY <2>3 DEF KnownInv
      <3>2. \A t \in Group(s) : t \in Service /\ s \in Group(t)
        BY Groups DEF ClusterTypeOK
      <3> QED  BY <3>1, <3>2 DEF KnownInv
    <2> QED
      BY <2>1, <2>4, <2>5, <2>6, <2>7 DEF CleanupInv, DestroyInv, ReadyWhenYielded
  <1> QED  BY <1>1, <1>4, <1>5, <1>6, <1>7 DEF Terminating

(* An exception in terminate(): out of start() it runs into the `finally`, *)
(* out of the `finally` it ends the configuration where it is.             *)
LEMMA AbandonKeeps ==
  ASSUME ClusterInv, KillFails \/ UninstallFails \/ TerminateNotStarted
  PROVE  ClusterInv'
  <1> USE DEF ClusterInv
  <1>1. /\ Terminating
        /\ UNCHANGED <<layout, installed, known>>
        /\ process' = process \/ process' = [process EXCEPT ![at] = "none"]
        /\ saved' = saved \/ saved' = [saved EXCEPT ![at] = @ + 1]
    BY DEF KillFails, UninstallFails, TerminateNotStarted
  <1>2. /\ N \in Nat /\ at \in Service /\ at \in Int
        /\ \A s \in Service : s \in Int /\ 1 <= s /\ s <= N
    BY ClusterAssumption DEF ClusterTypeOK, Service
  <1>3. /\ process' \in [Service -> {"none", "up", "dead"}]
        /\ installed' \subseteq Service
        /\ \A s \in Service : Started(s)' => Started(s)
        /\ \A s \in Service : s # at => (Started(s)' <=> Started(s))
    BY <1>1, <1>2 DEF ClusterTypeOK, Started
  <1>4. saved' \in [Service -> Nat]
    BY <1>1, <1>2 DEF ClusterTypeOK
  <1>5. PICK exception \in {"NoSuchProcess", "UninstallError", "AttributeError"} :
          /\ Abandon(exception)
          /\ exception = "AttributeError" => ~Started(at) /\ process' = process
    <2>1. CASE KillFails
      <3>1. Abandon("NoSuchProcess")
        BY <2>1 DEF KillFails
      <3> QED  BY <3>1
    <2>2. CASE UninstallFails
      <3>1. Abandon("UninstallError")
        BY <2>2 DEF UninstallFails
      <3> QED  BY <3>1
    <2>3. CASE TerminateNotStarted
      <3>1. Abandon("AttributeError") /\ ~Started(at) /\ process' = process
        BY <2>3 DEF TerminateNotStarted
      <3> QED  BY <3>1
    <2> QED  BY <2>1, <2>2, <2>3
  <1>6. CASE stage = "cleanup"
    <2>1. Destroy(exception, known)
      BY <1>5, <1>6 DEF Abandon
    <2>2. ~layout.managed => \A s \in known : process'[s] # "none"
      BY <1>3, <1>6 DEF CleanupInv, Started, ClusterTypeOK
    <2> QED  BY <1>1, <1>3, <1>4, <1>5, <2>1, <2>2, DestroyKeeps
  <1>7. CASE stage = "destroying"
    <2>1. stage' = "over" /\ raised' = exception /\ at' = at /\ at \in known
      BY <1>5, <1>7 DEF Abandon, DestroyInv
    <2>2. ClusterTypeOK'
      BY <1>1, <1>3, <1>4, <1>5, <2>1 DEF ClusterTypeOK
    <2>3. StartInv' /\ KnownInv'
      BY <1>1, <1>5, <2>1 DEF StartInv, KnownInv, Starting, Group
    <2>4. exception = "AttributeError" => layout.managed
      <3>1. at >= at
        BY <1>2
      <3> QED  BY <3>1, <1>5, <1>7, <2>1 DEF DestroyInv
    <2>5. LeaksAreExplained'
      <3> SUFFICES ASSUME NEW s \in Service, Started(s)'
                   PROVE  IF s \notin known THEN ~layout.managed /\ Group(s) \cap known = {}
                          ELSE \/ exception \in {"NoSuchProcess", "UninstallError"} /\ at <= s
                               \/ exception = "AttributeError" /\ layout.managed /\ at < s
        BY <1>1, <2>1 DEF LeaksAreExplained, Group
      <3>1. CASE s \notin known
        <4>1. \A t \in Group(s) : t \in Service /\ s \in Group(t)
          BY Groups DEF ClusterTypeOK
        <4> QED  BY <3>1, <4>1 DEF KnownInv
      <3>2. CASE s \in known
        <4>1. ~ s < at
          BY <3>2, <1>3, <1>7 DEF DestroyInv
        <4>2. exception = "AttributeError" => s # at
          <5>1. process' = process => (Started(s)' <=> Started(s))
            BY DEF Started
          <5> QED  BY <5>1, <1>5
        <4>3. at <= s /\ (s # at => at < s)
          BY <4>1, <1>2
        <4> QED  BY <3>2, <4>2, <4>3, <2>4, <1>5
      <3> QED  BY <3>1, <3>2
    <2> QED
      BY <1>5, <2>1, <2>2, <2>3, <2>5
         DEF CleanupInv, DestroyInv, ReadyWhenYielded, CleanAfterSuccess
  <1> QED  BY <1>1, <1>6, <1>7 DEF Terminating

(* So does every step but the end of the test script,                      *)
LEMMA ClusterStepKeeps ==
  ASSUME ClusterInv, ClusterStep
  PROVE  ClusterInv'
  BY PrepareKeeps, StartProcessKeeps, StartFailsKeeps, ExitKeeps, AvailableKeeps,
     UnavailableKeeps, TerminateServiceKeeps, AbandonKeeps DEF ClusterStep

(* and a step that does not concern the cluster.                           *)
LEMMA ClusterUnchanged ==
  ASSUME ClusterInv, UNCHANGED vars
  PROVE  ClusterInv'
  BY DEF vars, ClusterInv, ClusterTypeOK, StartInv, KnownInv, CleanupInv, DestroyInv,
         ReadyWhenYielded, CleanAfterSuccess, LeaksAreExplained, Starting, Started,
         Cluster, Group

(* New objects, for a layout that a test configuration may ask for.        *)
Fresh ==
  /\ stage = "starting" /\ at = 1
  /\ process = [s \in Service |-> "none"]
  /\ installed = {}
  /\ known = IF layout.managed THEN Service ELSE {}
  /\ saved = [s \in Service |-> 0]
  /\ raised = "nothing"

(* The invariant holds of them.                                            *)
LEMMA FreshConsistent ==
  ASSUME layout \in Layouts, Fresh
  PROVE  ClusterInv
  <1>1. N \in Nat /\ 1 \in Service /\ \A s \in Service : s \in Int /\ ~ s < 1
    BY ClusterAssumption DEF Service
  <1>2. ClusterTypeOK
    BY <1>1 DEF Fresh, ClusterTypeOK
  <1>3. StartInv
    BY <1>1 DEF Fresh, StartInv, Starting, Started
  <1>4. \A s \in Service : s \in Group(s) /\ ~ s < 1
    BY <1>1, Groups
  <1>5. KnownInv
    BY <1>4 DEF Fresh, KnownInv
  <1> QED
    BY <1>2, <1>3, <1>5
       DEF Fresh, ClusterInv, CleanupInv, DestroyInv, ReadyWhenYielded,
           CleanAfterSuccess, LeaksAreExplained

(* The invariant of one configuration, by itself.                          *)
THEOREM ClusterConsistent == Spec => []ClusterInv
  <1>1. Init => ClusterInv
    BY FreshConsistent DEF Init, Fresh
  <1>2. ClusterInv /\ [Next]_vars => ClusterInv'
    BY ClusterStepKeeps, TestsOverKeeps, ClusterUnchanged DEF Next
  <1> QED  BY <1>1, <1>2, PTL DEF Spec

-----------------------------------------------------------------------------
(* The inductive invariant of a run.                                       *)

(* Every variable of a run keeps its type, and the cluster that of the     *)
(* suite's component.                                                      *)
RunTypeOK ==
  /\ plan \in Plans
  /\ suite \in DOMAIN plan
  /\ turn \in DOMAIN plan[suite].configs
  /\ layout = plan[suite].layout
  /\ repo \in {"none", "cloned", "ready"}
  /\ status \in {0, 1}
  /\ exit \in {"running", "passed", "failed", "raised"}

(* Before the checkout is ready nothing starts.                            *)
RepoInv ==
  repo # "ready" =>
    /\ \/ stage = "starting"
       \/ stage = "over" /\ raised = "Exception"
    /\ \A s \in Service : ~Started(s)

(* The outcome of the tests of a configuration, and what is written of it. *)
Verdict(i, j, x) ==
  [component |-> plan[i].component, config |-> plan[i].configs[j], status |-> x]
Passed(i, j) ==
  [component |-> plan[i].component, config |-> plan[i].configs[j], result |-> "PASS"]

(* The status of tests that were run is kept until the end of the suite;   *)
(* tests without a script have passed.                                     *)
OutcomeInv ==
  exit = "running" /\ stage \in {"destroying", "over"} /\ raised = "nothing" =>
    IF plan[suite].script THEN Verdict(suite, turn, status) \in data ELSE status = 0

(* The configurations left behind have a result each,                      *)
Behind(i, j) == i < suite \/ (i = suite /\ j < turn) \/ exit \in {"passed", "failed"}

JudgedInv ==
  \A i \in DOMAIN plan : \A j \in DOMAIN plan[i].configs :
    Behind(i, j) => \E x \in {0, 1} : Verdict(i, j, x) \in results

(* and a result is or will be written.                                     *)
WrittenInv ==
  /\ \A r \in results :
       \E i \in DOMAIN plan : \E j \in DOMAIN plan[i].configs : \E x \in {0, 1} :
         r = Verdict(i, j, x)
  /\ \A r \in results : r.status # 0 =>
       \/ \E d \in data : d.status # 0
       \/ \E y \in yml : y.result = "FAIL"
  /\ \A i \in DOMAIN plan : \A j \in DOMAIN plan[i].configs :
       plan[i].script /\ Verdict(i, j, 0) \in results =>
         Verdict(i, j, 0) \in data \/ Passed(i, j) \in yml

RunInv ==
  /\ ClusterInv /\ RunTypeOK /\ RepoInv /\ OutcomeInv /\ JudgedInv /\ WrittenInv
  /\ VerdictCoversThePlan
  /\ exit \in {"passed", "failed"} => data = {}

(* What a cluster does about the run: its steps keep its layout, and only  *)
(* the end of tests that raised nothing leads to an end that did not.      *)
LEMMA ClusterSteps ==
  ASSUME ClusterStep
  PROVE  /\ layout' = layout
         /\ stage' \in {"destroying", "over"} /\ raised' = "nothing" =>
              stage \in {"destroying", "over"} /\ raised = "nothing"
  <1>1. CASE Download \/ Install \/ ConfigureOpenSearch \/ ConfigureDashboards \/ StartProcess
    BY <1>1 DEF Download, Install, ConfigureOpenSearch, ConfigureDashboards, StartProcess
  <1>2. CASE StartFails \/ WaitFails
    BY <1>2 DEF StartFails, WaitFails, Destroy, Starting
  <1>3. CASE \E s \in Service : Exit(s)
    BY <1>3 DEF Exit
  <1>4. CASE Available \/ Unavailable
    BY <1>4 DEF Available, Unavailable
  <1>5. CASE TerminateService
    BY <1>5 DEF TerminateService, Terminating, Destroy
  <1>6. CASE KillFails \/ UninstallFails \/ TerminateNotStarted
    BY <1>6 DEF KillFails, UninstallFails, TerminateNotStarted, Terminating, Abandon, Destroy
  <1> QED  BY <1>1, <1>2, <1>3, <1>4, <1>5, <1>6 DEF ClusterStep

(* A checkout that raises: there is nothing to terminate.                  *)
LEMMA CheckoutFailsKeeps ==
  ASSUME ClusterInv, CheckoutFails, stage = "starting", \A s \in Service : ~Started(s)
  PROVE  ClusterInv'
  <1> USE DEF ClusterInv
  <1>1. /\ stage' = "over" /\ raised' = "Exception"
        /\ UNCHANGED <<layout, at, process, installed, known, saved>>
    BY DEF CheckoutFails
  <1>2. ClusterTypeOK'
    BY <1>1 DEF ClusterTypeOK
  <1>3. StartInv' /\ KnownInv'
    BY <1>1 DEF StartInv, KnownInv, Starting, Group
  <1>4. LeaksAreExplained'
    BY <1>1 DEF LeaksAreExplained, Started
  <1> QED
    BY <1>1, <1>2, <1>3, <1>4 DEF CleanupInv, DestroyInv, ReadyWhenYielded, CleanAfterSuccess

(* The objects of the next configuration.                                  *)
LEMMA NewClusterKeeps ==
  ASSUME NEW next \in Layouts, NewCluster(next)
  PROVE  /\ ClusterInv'
         /\ \A s \in Service : ~Started(s)'
         /\ stage' = "starting" /\ layout' = next
  <1>1. layout' \in Layouts /\ Fresh'
    BY DEF NewCluster, Fresh
  <1>2. (layout \in Layouts /\ Fresh => ClusterInv)'
    BY FreshConsistent, PTL
  <1> QED  BY <1>1, <1>2 DEF NewCluster, Started

(* What a result that is kept does to the results there are.               *)
LEMMA KeptResults ==
  ASSUME RunTypeOK, WrittenInv, NEW kept, kept = Keep(Outcome)
  PROVE  /\ Outcome = Verdict(suite, turn, status) /\ Outcome \in kept
         /\ \A r \in kept : r \in results \/ r = Outcome
         /\ \A i \in DOMAIN plan : \A j \in DOMAIN plan[i].configs : \A x \in {0, 1} :
              Verdict(i, j, x) \in results => \E y \in {0, 1} : Verdict(i, j, y) \in kept
  <1>1. Outcome = Verdict(suite, turn, status)
    BY DEF Outcome, Verdict, Suite, Config
  <1>2. Outcome \in kept /\ \A r \in kept : r \in results \/ r = Outcome
    BY DEF Keep
  <1>3. ASSUME NEW i \in DOMAIN plan, NEW j \in DOMAIN plan[i].configs, NEW x \in {0, 1},
               Verdict(i, j, x) \in results
        PROVE  \E y \in {0, 1} : Verdict(i, j, y) \in kept
    <2>1. CASE plan[i].component = Outcome.component /\ plan[i].configs[j] = Outcome.config
      <3>1. Outcome = Verdict(i, j, status)
        BY <2>1 DEF Outcome, Verdict
      <3> QED  BY <3>1, <1>2 DEF RunTypeOK
    <2>2. CASE ~(plan[i].component = Outcome.component /\ plan[i].configs[j] = Outcome.config)
      <3>1. /\ Verdict(i, j, x).component = plan[i].component
            /\ Verdict(i, j, x).config = plan[i].configs[j]
        BY DEF Verdict
      <3>2. Verdict(i, j, x) \in kept
        BY <3>1, <2>2, <1>3 DEF Keep
      <3> QED  BY <3>2
    <2> QED  BY <2>1, <2>2
  <1> QED  BY <1>1, <1>2, <1>3

(* A configuration is over: its result joins those behind it.              *)
LEMMA ConfigOverKeeps ==
  ASSUME RunInv, ConfigOver, results' = Keep(Outcome), plan' = plan
  PROVE  /\ installed = {} /\ \A s \in Service : ~Started(s)
         /\ \A r \in results' :
              \E i \in DOMAIN plan : \E j \in DOMAIN plan[i].configs : \E x \in {0, 1} :
                r = Verdict(i, j, x)
         /\ \A r \in results' : r.status # 0 =>
              \/ \E d \in data : d.status # 0
              \/ \E y \in yml : y.result = "FAIL"
         /\ \A i \in DOMAIN plan : \A j \in DOMAIN plan[i].configs :
              plan[i].script /\ Verdict(i, j, 0) \in results' =>
                Verdict(i, j, 0) \in data \/ Passed(i, j) \in yml
         /\ \A i \in DOMAIN plan : \A j \in DOMAIN plan[i].configs :
              Behind(i, j) \/ (i = suite /\ j = turn) =>
                \E x \in {0, 1} : Verdict(i, j, x) \in results'
  <1> USE DEF RunInv
  <1>1. /\ exit = "running" /\ stage = "over" /\ raised = "nothing"
        /\ IF plan[suite].script THEN Verdict(suite, turn, status) \in data ELSE status = 0
    BY DEF ConfigOver, OutcomeInv
  <1>2. installed = {} /\ \A s \in Service : ~Started(s)
    BY <1>1 DEF ClusterInv, CleanAfterSuccess
  <1>3. /\ Outcome = Verdict(suite, turn, status) /\ Outcome \in results'
        /\ \A r \in results' : r \in results \/ r = Outcome
        /\ \A i \in DOMAIN plan : \A j \in DOMAIN plan[i].configs : \A x \in {0, 1} :
             Verdict(i, j, x) \in results => \E y \in {0, 1} : Verdict(i, j, y) \in results'
    BY KeptResults
  <1>4. ASSUME NEW r \in results'
        PROVE  \E i \in DOMAIN plan : \E j \in DOMAIN plan[i].configs : \E x \in {0, 1} :
                 r = Verdict(i, j, x)
    BY <1>3 DEF WrittenInv, RunTypeOK
  <1>5. ASSUME NEW r \in results', r.status # 0
        PROVE  \/ \E d \in data : d.status # 0
               \/ \E y \in yml : y.result = "FAIL"
    <2>1. CASE r \in results
      BY <2>1, <1>5 DEF WrittenInv
    <2>2. CASE r = Outcome
      <3>1. r.status = status
        BY <2>2 DEF Outcome
      <3>2. r \in data
        BY <3>1, <2>2, <1>1, <1>3, <1>5
      <3> QED  BY <3>2, <1>5
    <2> QED  BY <2>1, <2>2, <1>3
  <1>6. ASSUME NEW i \in DOMAIN plan, NEW j \in DOMAIN plan[i].configs,
               plan[i].script, Verdict(i, j, 0) \in results'
        PROVE  Verdict(i, j, 0) \in data \/ Passed(i, j) \in yml
    <2>1. CASE Verdict(i, j, 0) \in results
      BY <2>1, <1>6 DEF WrittenInv
    <2>2. CASE Verdict(i, j, 0) = Verdict(suite, turn, status)
      <3>1. plan[i].component = plan[suite].component
        <4>1. Verdict(i, j, 0).component = Verdict(suite, turn, status).component
          BY <2>2
        <4> QED  BY <4>1 DEF Verdict
      <3>2. i = suite
        BY <3>1, PlansAssumption DEF RunTypeOK
      <3> QED  BY <3>2, <2>2, <1>1, <1>6
    <2> QED  BY <2>1, <2>2, <1>3, <1>6
  <1>7. ASSUME NEW i \in DOMAIN plan, NEW j \in DOMAIN plan[i].configs,
               Behind(i, j) \/ (i = suite /\ j = turn)
        PROVE  \E x \in {0, 1} : Verdict(i, j, x) \in results'
    <2>1. CASE Behind(i, j)
      BY <2>1, <1>3 DEF JudgedInv
    <2>2. CASE i = suite /\ j = turn
      BY <2>2, <1>3 DEF RunTypeOK
    <2> QED  BY <1>7, <2>1, <2>2
  <1> QED  BY <1>2, <1>4, <1>5, <1>6, <1>7

(* What the suite has kept is written.                                     *)
LEMMA WritesYml ==
  ASSUME WriteYml, NEW i, NEW j
  PROVE  /\ yml \subseteq yml'
         /\ Verdict(i, j, 0) \in data => Passed(i, j) \in yml'
         /\ (\E d \in data : d.status # 0) => \E y \in yml' : y.result = "FAIL"
  <1> DEFINE File(d) == [component |-> d.component, config |-> d.config,
                         result |-> IF d.status = 0 THEN "PASS" ELSE "FAIL"]
  <1>1. yml \subseteq yml' /\ \A d \in data : File(d) \in yml'
    BY DEF WriteYml
  <1>2. File(Verdict(i, j, 0)) = Passed(i, j)
    BY DEF Verdict, Passed
  <1>3. \A d \in data : d.status # 0 => File(d).result = "FAIL"
    OBVIOUS
  <1> HIDE DEF File
  <1> QED  BY <1>1, <1>2, <1>3

(* Cloning the repository, and copying what the tests are built with.      *)
LEMMA CheckoutKeeps ==
  ASSUME RunInv, CloneRepository \/ InstallBuildDependencies
  PROVE  RunInv'
  <1> USE DEF RunInv
  <1>1. /\ repo # "ready" /\ repo' \in {"none", "cloned", "ready"} /\ stage # "over"
        /\ exit = "running"
        /\ UNCHANGED <<plan, suite, turn, status, data, yml, results, exit>>
        /\ UNCHANGED vars \/ (repo' = repo /\ CheckoutFails)
    BY DEF CloneRepository, InstallBuildDependencies, RunTypeOK
  <1>2. stage = "starting" /\ \A s \in Service : ~Started(s)
    BY <1>1 DEF RepoInv
  <1>3. ClusterInv'
    BY <1>1, <1>2, ClusterUnchanged, CheckoutFailsKeeps
  <1>4. RunTypeOK' /\ RepoInv' /\ OutcomeInv'
    BY <1>1, <1>2 DEF vars, CheckoutFails, RunTypeOK, RepoInv, OutcomeInv, Started
  <1>5. JudgedInv' /\ WrittenInv' /\ VerdictCoversThePlan'
    BY <1>1 DEF JudgedInv, WrittenInv, VerdictCoversThePlan, Behind, Verdict, Passed
  <1> QED  BY <1>1, <1>3, <1>4, <1>5

(* The cluster's own steps.                                                *)
LEMMA ManageClusterKeeps ==
  ASSUME RunInv, ManageCluster
  PROVE  RunInv'
  <1> USE DEF RunInv
  <1>1. repo = "ready" /\ ClusterStep /\ UNCHANGED runVars
    BY DEF ManageCluster
  <1>2. ClusterInv'
    BY <1>1, ClusterStepKeeps
  <1>3. RunTypeOK' /\ RepoInv'
    BY <1>1, ClusterSteps DEF runVars, RunTypeOK, RepoInv
  <1>4. OutcomeInv'
    BY <1>1, ClusterSteps DEF runVars, OutcomeInv, Verdict
  <1>5. JudgedInv' /\ WrittenInv' /\ VerdictCoversThePlan'
    BY <1>1 DEF runVars, JudgedInv, WrittenInv, VerdictCoversThePlan, Behind, Verdict, Passed
  <1> QED  BY <1>1, <1>2, <1>3, <1>4, <1>5 DEF runVars

(* The end of the test script.                                             *)
LEMMA RunScriptKeeps ==
  ASSUME RunInv, RunScript
  PROVE  RunInv'
  <1> USE DEF RunInv
  <1>1. /\ exit = "running" /\ stage = "testing" /\ TestsOver
        /\ UNCHANGED <<plan, suite, repo, turn, yml, results, exit>>
        /\ UNCHANGED <<layout, process>>
    BY DEF RunScript, TestsOver
  <1>2. repo = "ready"
    BY <1>1 DEF RepoInv, RunTypeOK
  <1>3. /\ status' \in {0, 1}
        /\ data \subseteq data'
        /\ raised' = "nothing" =>
             IF plan[suite].script THEN Verdict(suite, turn, status') \in data' ELSE status' = 0
    <2>1. CASE raised' = "nothing" /\ Suite.script
      <3>1. /\ status' \in {0, 1}
            /\ data' = data \cup
                 {[component |-> Suite.component, config |-> Config, status |-> status']}
        BY <2>1 DEF RunScript
      <3> QED  BY <2>1, <3>1 DEF Suite, Config, Verdict
    <2>2. CASE ~(raised' = "nothing" /\ Suite.script)
      <3>1. status' = 0 /\ data' = data
        BY <2>2 DEF RunScript
      <3> QED  BY <2>2, <3>1 DEF Suite
    <2> QED  BY <2>1, <2>2
  <1>4. ClusterInv'
    BY <1>1, TestsOverKeeps
  <1>5. RunTypeOK' /\ RepoInv'
    BY <1>1, <1>2, <1>3 DEF RunTypeOK, RepoInv
  <1>6. OutcomeInv'
    BY <1>1, <1>3 DEF OutcomeInv, Verdict
  <1>7. JudgedInv' /\ WrittenInv'
    BY <1>1, <1>3 DEF JudgedInv, WrittenInv, Behind, Verdict, Passed
  <1>8. VerdictCoversThePlan'
    BY <1>1 DEF VerdictCoversThePlan
  <1> QED  BY <1>1, <1>4, <1>5, <1>6, <1>7, <1>8

(* The next configuration of the suite.                                    *)
LEMMA NextConfigKeeps ==
  ASSUME RunInv, NextConfig
  PROVE  RunInv'
  <1> USE DEF RunInv
  <1>1. /\ ConfigOver /\ exit = "running"
        /\ turn < Len(plan[suite].configs) /\ turn' = turn + 1
        /\ results' = Keep(Outcome) /\ NewCluster(layout)
        /\ UNCHANGED <<plan, suite, repo, status, data, yml, exit>>
    BY DEF NextConfig, ConfigOver, Suite
  <1>2. /\ ClusterInv' /\ \A s \in Service : ~Started(s)'
        /\ stage' = "starting" /\ layout' = layout
    BY <1>1, NewClusterKeeps DEF ClusterInv, ClusterTypeOK
  <1>3. /\ Len(plan[suite].configs) \in Nat
        /\ DOMAIN plan[suite].configs = 1 .. Len(plan[suite].configs)
    BY PlansAssumption DEF RunTypeOK
  <1>4. turn \in Int /\ turn + 1 \in DOMAIN plan[suite].configs
    BY <1>1, <1>3 DEF RunTypeOK
  <1>5. RunTypeOK' /\ RepoInv' /\ OutcomeInv'
    BY <1>1, <1>2, <1>4 DEF RunTypeOK, RepoInv, OutcomeInv
  <1>6. WrittenInv'
    <2>1. \A r \in results' :
            \E i \in DOMAIN plan : \E j \in DOMAIN plan[i].configs : \E x \in {0, 1} :
              r = Verdict(i, j, x)
      BY <1>1, ConfigOverKeeps
    <2>2. /\ \A r \in results' : r.status # 0 =>
               \/ \E d \in data : d.status # 0
               \/ \E y \in yml : y.result = "FAIL"
          /\ \A i \in DOMAIN plan : \A j \in DOMAIN plan[i].configs :
               plan[i].script /\ Verdict(i, j, 0) \in results' =>
                 Verdict(i, j, 0) \in data \/ Passed(i, j) \in yml
      BY <1>1, ConfigOverKeeps
    <2> QED  BY <1>1, <2>1, <2>2 DEF WrittenInv, Verdict, Passed
  <1>7. JudgedInv'
    <2> SUFFICES ASSUME NEW i \in DOMAIN plan, NEW j \in DOMAIN plan[i].configs,
                        Behind(i, j)'
                 PROVE  \E x \in {0, 1} : Verdict(i, j, x) \in results'
      BY <1>1 DEF JudgedInv, Verdict
    <2>1. i = suite => j \in Int
      BY <1>3
    <2>2. i = suite /\ j < turn + 1 => j < turn \/ j = turn
      BY <2>1, <1>4
    <2>3. Behind(i, j) \/ (i = suite /\ j = turn)
      BY <1>1, <2>2 DEF Behind
    <2> QED  BY <2>3, <1>1, ConfigOverKeeps
  <1>8. VerdictCoversThePlan'
    BY <1>1 DEF VerdictCoversThePlan
  <1> QED  BY <1>1, <1>2, <1>5, <1>6, <1>7, <1>8

(* What is written when a suite is over.                                   *)
LEMMA SuiteOverKeeps ==
  ASSUME RunInv, ConfigOver, results' = Keep(Outcome), plan' = plan,
         WriteYml, data' = {}
  PROVE  WrittenInv'
  <1>1. /\ (\E d \in data : d.status # 0) => \E y \in yml' : y.result = "FAIL"
        /\ yml \subseteq yml'
    BY WritesYml
  <1>2. ASSUME NEW r \in results', r.status # 0
        PROVE  \E y \in yml' : y.result = "FAIL"
    BY <1>1, <1>2, ConfigOverKeeps
  <1>3. ASSUME NEW i \in DOMAIN plan, NEW j \in DOMAIN plan[i].configs,
               plan[i].script, Verdict(i, j, 0) \in results'
        PROVE  Passed(i, j) \in yml'
    <2>1. Verdict(i, j, 0) \in data => Passed(i, j) \in yml'
      BY WritesYml
    <2>2. Verdict(i, j, 0) \in data \/ Passed(i, j) \in yml
      BY <1>3, ConfigOverKeeps
    <2> QED  BY <2>1, <2>2, <1>1
  <1>4. \A r \in results' :
          \E i \in DOMAIN plan : \E j \in DOMAIN plan[i].configs : \E x \in {0, 1} :
            r = Verdict(i, j, x)
    BY ConfigOverKeeps
  <1> QED  BY <1>2, <1>3, <1>4 DEF WrittenInv, Verdict, Passed

(* The next suite: the last configuration of a suite has been behind it.   *)
LEMMA NextSuiteKeeps ==
  ASSUME RunInv, NextSuite
  PROVE  RunInv'
  <1> USE DEF RunInv
  <1>1. /\ ConfigOver /\ exit = "running"
        /\ turn = Len(plan[suite].configs) /\ suite < Len(plan)
        /\ results' = Keep(Outcome) /\ WriteYml /\ data' = {}
        /\ suite' = suite + 1 /\ repo' = "none" /\ turn' = 1
        /\ NewCluster(plan[suite + 1].layout)
        /\ UNCHANGED <<plan, status, exit>>
    BY DEF NextSuite, ConfigOver, Suite
  <1>2. /\ plan \in Plans /\ Len(plan) \in Nat /\ DOMAIN plan = 1 .. Len(plan)
        /\ \A i \in DOMAIN plan :
             /\ plan[i].layout \in Layouts
             /\ Len(plan[i].configs) \in Nat \ {0}
             /\ DOMAIN plan[i].configs = 1 .. Len(plan[i].configs)
    BY PlansAssumption DEF RunTypeOK
  <1>3. suite \in Int /\ suite + 1 \in DOMAIN plan
    BY <1>1, <1>2 DEF RunTypeOK
  <1>4. 1 \in DOMAIN plan[suite + 1].configs
    BY <1>2, <1>3
  <1>5. /\ ClusterInv' /\ \A s \in Service : ~Started(s)'
        /\ stage' = "starting" /\ layout' = plan[suite + 1].layout
    BY <1>1, <1>2, <1>3, NewClusterKeeps
  <1>6. RunTypeOK' /\ RepoInv' /\ OutcomeInv'
    BY <1>1, <1>3, <1>4, <1>5 DEF RunTypeOK, RepoInv, OutcomeInv
  <1>7. WrittenInv'
    BY <1>1, SuiteOverKeeps
  <1>8. JudgedInv'
    <2> SUFFICES ASSUME NEW i \in DOMAIN plan, NEW j \in DOMAIN plan[i].configs,
                        Behind(i, j)'
                 PROVE  \E x \in {0, 1} : Verdict(i, j, x) \in results'
      BY <1>1 DEF JudgedInv, Verdict
    <2>1. i \in Int /\ j \in Int /\ 1 <= j /\ (i = suite => j <= turn)
      BY <1>1, <1>2
    <2>2. i < suite + 1
      BY <1>1, <2>1 DEF Behind
    <2>3. turn \in Int
      BY <1>2 DEF RunTypeOK
    <2>4. Behind(i, j) \/ (i = suite /\ j = turn)
      BY <1>3, <2>1, <2>2, <2>3 DEF Behind
    <2> QED  BY <2>4, <1>1, ConfigOverKeeps
  <1>9. VerdictCoversThePlan'
    BY <1>1 DEF VerdictCoversThePlan
  <1> QED  BY <1>1, <1>5, <1>6, <1>7, <1>8, <1>9

(* The verdict is about every configuration there is.                      *)
LEMMA FinishKeeps ==
  ASSUME RunInv, Finish
  PROVE  RunInv'
  <1> USE DEF RunInv
  <1>1. /\ ConfigOver /\ exit = "running"
        /\ turn = Len(plan[suite].configs) /\ suite = Len(plan)
        /\ results' = Keep(Outcome) /\ WriteYml /\ data' = {}
        /\ exit' = IF \E r \in results' : r.status # 0 THEN "failed" ELSE "passed"
        /\ UNCHANGED <<plan, suite, repo, turn, status>>
        /\ UNCHANGED vars
    BY DEF Finish, ConfigOver, Suite
  <1>2. /\ plan \in Plans /\ Len(plan) \in Nat /\ DOMAIN plan = 1 .. Len(plan)
        /\ \A i \in DOMAIN plan :
             /\ Len(plan[i].configs) \in Nat \ {0}
             /\ DOMAIN plan[i].configs = 1 .. Len(plan[i].configs)
    BY PlansAssumption DEF RunTypeOK
  <1>3. ClusterInv' /\ RunTypeOK' /\ RepoInv' /\ OutcomeInv'
    BY <1>1, ClusterUnchanged DEF vars, RunTypeOK, RepoInv, OutcomeInv, Started
  <1>4. WrittenInv'
    BY <1>1, SuiteOverKeeps
  <1>5. \A i \in DOMAIN plan : \A j \in DOMAIN plan[i].configs :
          \E x \in {0, 1} : Verdict(i, j, x) \in results'
    <2> SUFFICES ASSUME NEW i \in DOMAIN plan, NEW j \in DOMAIN plan[i].configs
                 PROVE  \E x \in {0, 1} : Verdict(i, j, x) \in results'
      OBVIOUS
    <2>1. /\ i \in Int /\ i <= suite /\ suite \in Int
          /\ j \in Int /\ (i = suite => j <= turn) /\ turn \in Int
      BY <1>1, <1>2 DEF RunTypeOK
    <2>2. Behind(i, j) \/ (i = suite /\ j = turn)
      BY <2>1 DEF Behind
    <2> QED  BY <2>2, <1>1, ConfigOverKeeps
  <1>6. JudgedInv'
    BY <1>1, <1>5 DEF JudgedInv, Verdict
  <1>7. ASSUME exit' = "passed", NEW i \in DOMAIN plan, NEW j \in DOMAIN plan[i].configs
        PROVE  /\ Verdict(i, j, 0) \in results'
               /\ plan[i].script => Passed(i, j) \in yml'
    <2>1. \A r \in results' : r.status = 0
      BY <1>1, <1>7
    <2>2. PICK x \in {0, 1} : Verdict(i, j, x) \in results'
      BY <1>5
    <2>3. x = 0
      <3>1. Verdict(i, j, x).status = x
        BY DEF Verdict
      <3> QED  BY <2>1, <2>2, <3>1
    <2>4. Verdict(i, j, 0) \in results'
      BY <2>2, <2>3
    <2> QED  BY <2>4, <1>1, <1>4 DEF WrittenInv, Verdict, Passed
  <1>8. exit' = "failed" => \E y \in yml' : y.result = "FAIL"
    BY <1>1, <1>4 DEF WrittenInv
  <1>9. VerdictCoversThePlan'
    BY <1>1, <1>7, <1>8 DEF VerdictCoversThePlan, Verdict, Passed
  <1> QED  BY <1>1, <1>3, <1>4, <1>6, <1>9

(* The exception that ends the process.                                    *)
LEMMA AbortKeeps ==
  ASSUME RunInv, Abort
  PROVE  RunInv'
  <1> USE DEF RunInv
  <1>1. /\ exit = "running" /\ exit' = "raised"
        /\ UNCHANGED <<plan, suite, repo, turn, status, data, yml, results>>
        /\ UNCHANGED vars
    BY DEF Abort
  <1>2. ClusterInv' /\ RunTypeOK' /\ RepoInv' /\ OutcomeInv'
    BY <1>1, ClusterUnchanged DEF vars, RunTypeOK, RepoInv, OutcomeInv, Started
  <1>3. JudgedInv' /\ WrittenInv' /\ VerdictCoversThePlan'
    BY <1>1 DEF JudgedInv, WrittenInv, VerdictCoversThePlan, Behind, Verdict, Passed
  <1> QED  BY <1>1, <1>2, <1>3

(* A stuttering step.                                                      *)
LEMMA RunUnchanged ==
  ASSUME RunInv, UNCHANGED <<vars, runVars>>
  PROVE  RunInv'
  <1> USE DEF RunInv
  <1>1. ClusterInv'
    BY ClusterUnchanged
  <1>2. RunTypeOK' /\ RepoInv' /\ OutcomeInv'
    BY DEF vars, runVars, RunTypeOK, RepoInv, OutcomeInv, Started, Verdict
  <1>3. JudgedInv' /\ WrittenInv' /\ VerdictCoversThePlan'
    BY DEF runVars, JudgedInv, WrittenInv, VerdictCoversThePlan, Behind, Verdict, Passed
  <1> QED  BY <1>1, <1>2, <1>3 DEF runVars

(* The invariant of a run, whatever plan it has.                           *)
THEOREM RunConsistent == RunSpec => []RunInv
  <1>1. RunInit => RunInv
    <2> SUFFICES ASSUME RunInit PROVE RunInv
      OBVIOUS
    <2>1. /\ plan \in Plans /\ Len(plan) \in Nat \ {0} /\ DOMAIN plan = 1 .. Len(plan)
          /\ \A i \in DOMAIN plan :
               /\ Len(plan[i].configs) \in Nat \ {0}
               /\ DOMAIN plan[i].configs = 1 .. Len(plan[i].configs)
      BY PlansAssumption DEF RunInit
    <2>2. /\ 1 \in DOMAIN plan
          /\ \A i, j \in Int : j \in DOMAIN plan[1].configs => ~ j < 1
      BY <2>1
    <2>3. 1 \in DOMAIN plan[1].configs
      BY <2>1, <2>2
    <2>4. ClusterInv /\ stage = "starting" /\ \A s \in Service : ~Started(s)
      BY FreshConsistent DEF RunInit, Init, Fresh, Started
    <2>5. RunTypeOK /\ RepoInv /\ OutcomeInv
      BY <2>2, <2>3, <2>4 DEF RunInit, RunTypeOK, RepoInv, OutcomeInv, Suite
    <2>6. JudgedInv
      <3>1. \A i \in DOMAIN plan : \A j \in DOMAIN plan[i].configs : ~Behind(i, j)
        <4>1. suite = 1 /\ turn = 1 /\ exit = "running"
          BY DEF RunInit
        <4>2. \A i \in DOMAIN plan : i \in Int /\ 1 <= i
          BY <2>1
        <4>3. \A j \in DOMAIN plan[1].configs : j \in Int /\ 1 <= j
          BY <2>1, <2>2
        <4> QED  BY <4>1, <4>2, <4>3 DEF Behind
      <3> QED  BY <3>1 DEF JudgedInv
    <2>7. WrittenInv /\ VerdictCoversThePlan
      BY DEF RunInit, WrittenInv, VerdictCoversThePlan
    <2> QED  BY <2>4, <2>5, <2>6, <2>7 DEF RunInv, RunInit
  <1>2. RunInv /\ [RunNext]_<<vars, runVars>> => RunInv'
    BY CheckoutKeeps, ManageClusterKeeps, RunScriptKeeps, NextConfigKeeps, NextSuiteKeeps,
       FinishKeeps, AbortKeeps, RunUnchanged DEF RunNext
  <1> QED  BY <1>1, <1>2, PTL DEF RunSpec

-----------------------------------------------------------------------------
(* What the runs check of a run.                                           *)

(* The tests of a configuration find all of its services running.          *)
THEOREM TestsFindTheirServices == RunSpec => []ReadyWhenYielded
  <1>1. RunInv => ReadyWhenYielded
    BY DEF RunInv, ClusterInv
  <1> QED  BY <1>1, RunConsistent, PTL

(* A configuration that raised nothing leaves nothing behind.              *)
THEOREM SuccessIsClean == RunSpec => []CleanAfterSuccess
  <1>1. RunInv => CleanAfterSuccess
    BY DEF RunInv, ClusterInv
  <1> QED  BY <1>1, RunConsistent, PTL

(* What is left running was not known, or came after what broke off.       *)
THEOREM LeaksHaveACause == RunSpec => []LeaksAreExplained
  <1>1. RunInv => LeaksAreExplained
    BY DEF RunInv, ClusterInv
  <1> QED  BY <1>1, RunConsistent, PTL

(* The exit status is about every configuration of the plan.               *)
THEOREM TheVerdictIsTrue == RunSpec => []VerdictCoversThePlan
  <1>1. RunInv => VerdictCoversThePlan
    BY DEF RunInv
  <1> QED  BY <1>1, RunConsistent, PTL

(* No configuration starts where another one still runs.                   *)
THEOREM MachinesAreFresh == RunSpec => FreshMachine
  <1> DEFINE Changed ==
        <<suite, turn, exit>>' # <<suite, turn, exit>> /\ exit' # "raised" =>
          installed = {} /\ \A s \in Service : ~Started(s)
  <1>1. RunInv /\ [RunNext]_<<vars, runVars>> => Changed
    <2> SUFFICES ASSUME RunInv, RunNext, <<suite, turn, exit>>' # <<suite, turn, exit>>,
                        exit' # "raised"
                 PROVE  installed = {} /\ \A s \in Service : ~Started(s)
      BY DEF runVars
    <2>1. NextConfig \/ NextSuite \/ Finish
      BY DEF RunNext, CloneRepository, InstallBuildDependencies, ManageCluster, RunScript,
             Abort, runVars
    <2>2. ConfigOver
      BY <2>1 DEF NextConfig, NextSuite, Finish
    <2> QED  BY <2>2 DEF RunInv, ClusterInv, CleanAfterSuccess, ConfigOver
  <1> HIDE DEF Changed
  <1>2. RunSpec => [][Changed]_<<vars, runVars>>
    BY <1>1, RunConsistent, PTL DEF RunSpec
  <1> QED  BY <1>2, PTL DEF FreshMachine, Changed

=============================================================================
