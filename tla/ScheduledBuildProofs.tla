------------------------ MODULE ScheduledBuildProofs ------------------------
(***************************************************************************)
(* Proofs about the scheduled builds, for any number of commits, checks,   *)
(* builds and faults: Consistent is an inductive invariant, and what       *)
(* ScheduledBuild.cfg checks of the records follows from it.               *)
(***************************************************************************)
EXTENDS ScheduledBuild, SequenceTheorems, TLAPS

(* The dispatched builds are numbered from one.                            *)
LEMMA Numbered ==
  ASSUME TypeOK
  PROVE  /\ Len(builds) \in Nat
         /\ DOMAIN builds = 1 .. Len(builds)
         /\ \A b \in DOMAIN builds : builds[b] \in Dispatched
  <1>1. builds \in Seq(Dispatched)
    BY DEF TypeOK
  <1> QED  BY <1>1, LenProperties, ElementOfSeq

(* A step of one build leaves the others alone.                            *)
LEMMA ChangeOne ==
  ASSUME TypeOK, NEW b \in DOMAIN builds, NEW r \in Dispatched,
         builds' = [builds EXCEPT ![b] = r]
  PROVE  /\ builds' \in Seq(Dispatched)
         /\ Len(builds') = Len(builds)
         /\ DOMAIN builds' = DOMAIN builds
         /\ builds'[b] = r
         /\ \A c \in DOMAIN builds : c # b => builds'[c] = builds[c]
  <1>1. builds \in Seq(Dispatched) /\ b \in 1 .. Len(builds)
    BY Numbered DEF TypeOK
  <1>2. /\ builds' \in Seq(Dispatched)
        /\ Len(builds') = Len(builds)
        /\ \A c \in 1 .. Len(builds) :
             builds'[c] = IF c = b THEN r ELSE builds[c]
    BY <1>1, ExceptSeq
  <1>3. DOMAIN builds' = 1 .. Len(builds')
    BY <1>2, LenProperties
  <1> QED  BY <1>1, <1>2, <1>3, Numbered

(* A new build is the last one, and leaves the others alone.               *)
LEMMA AddOne ==
  ASSUME TypeOK, NEW r \in Dispatched, builds' = Append(builds, r)
  PROVE  /\ builds' \in Seq(Dispatched)
         /\ Len(builds') = Len(builds) + 1
         /\ DOMAIN builds' = DOMAIN builds \cup {Len(builds) + 1}
         /\ builds'[Len(builds) + 1] = r
         /\ \A c \in DOMAIN builds : builds'[c] = builds[c]
  <1>1. builds \in Seq(Dispatched)
    BY DEF TypeOK
  <1>2. /\ builds' \in Seq(Dispatched)
        /\ Len(builds') = Len(builds) + 1
        /\ \A c \in 1 .. Len(builds) : builds'[c] = builds[c]
        /\ builds'[Len(builds) + 1] = r
    BY <1>1, AppendProperties
  <1>3. DOMAIN builds' = 1 .. Len(builds')
    BY <1>2, LenProperties
  <1>4. 1 .. (Len(builds) + 1) = (1 .. Len(builds)) \cup {Len(builds) + 1}
    BY Numbered
  <1> QED  BY <1>2, <1>3, <1>4, Numbered

(* What was built stays built, as long as builds that succeeded keep what  *)
(* they were built for.                                                    *)
LEMMA RecordsStay ==
  ASSUME RecordedWasBuilt, UNCHANGED <<recorded, dryRun>>,
         \A c \in DOMAIN builds :
           builds[c].state = "success" =>
             /\ c \in DOMAIN builds'
             /\ builds'[c].sha = builds[c].sha
             /\ builds'[c].publishes = builds[c].publishes
             /\ builds'[c].state = builds[c].state
             /\ builds'[c].at = builds[c].at
  PROVE  RecordedWasBuilt'
  <1>1. ASSUME NEW s, NEW p \in BOOLEAN, Built(s, p) PROVE Built(s, p)'
    <2>1. PICK c \in DOMAIN builds :
            /\ builds[c].sha = s /\ builds[c].publishes = p
            /\ builds[c].state = "success" /\ builds[c].at >= s
      BY <1>1 DEF Built
    <2> QED  BY <2>1 DEF Built
  <1> QED  BY <1>1 DEF RecordedWasBuilt

(* The initial states are consistent.                                      *)
LEMMA InitConsistent == Init => Consistent
  <1> SUFFICES ASSUME Init PROVE Consistent
    OBVIOUS
  <1>1. builds \in Seq(Dispatched) /\ DOMAIN builds = {}
    <2>1. builds = <<>>
      BY DEF Init
    <2> QED  BY <2>1, EmptySeq
  <1>2. TypeOK
    BY <1>1, ScheduleAssumption DEF Init, TypeOK, Run, None, Sha, NotYet
  <1>3. OrderInv /\ WatchInv /\ RecordInv /\ DispatchInv
    BY <1>1 DEF Init, OrderInv, WatchInv, RecordInv, DispatchInv, NotYet
  <1>4. RecordedWasBuilt /\ RebuiltOnlyUnrecorded
    BY <1>1 DEF Init, RecordedWasBuilt, RebuiltOnlyUnrecorded
  <1> QED  BY <1>2, <1>3, <1>4 DEF Consistent

-----------------------------------------------------------------------------
(* A step that neither dispatches nor changes a build nor records.         *)
Quiet ==
  \/ Push \/ GoLive
  \/ \E r \in Triggered : Arrive(r)
  \/ StartCheck \/ LockManifest \/ Lookup \/ WatchSucceeds \/ WatchFails

(* A quiet step keeps the state consistent.                                *)
LEMMA QuietStep == Consistent /\ Quiet => Consistent'
  <1> SUFFICES ASSUME Consistent, Quiet PROVE Consistent'
    OBVIOUS
  <1> USE DEF world, holder, stores, EndCheck
  <1>1. UNCHANGED <<builds, stores, faults>>
    BY DEF Quiet, Push, GoLive, Arrive, StartCheck, LockManifest, Lookup,
           WatchSucceeds, WatchFails
  <1>2. head \in Int /\ head' \in Int /\ head <= head'
    BY ScheduleAssumption
       DEF Quiet, Push, GoLive, Arrive, StartCheck, LockManifest, Lookup,
           WatchSucceeds, WatchFails, Consistent, TypeOK, Sha
  <1>3. TypeOK'
    <2> USE ScheduleAssumption DEF TypeOK, Run, None, Sha, NotYet
    <2> TypeOK  BY DEF Consistent
    <2>1. CASE Push  BY <2>1 DEF Push
    <2>2. CASE GoLive  BY <2>2 DEF GoLive
    <2>3. ASSUME NEW r \in Triggered, Arrive(r) PROVE TypeOK'
      <3>1. r \in Run
        <4>1. Scheduled \in Run
          BY Zenon DEF Scheduled
        <4>2. [publishes : BOOLEAN, live : {TRUE}] \subseteq Run
          OBVIOUS
        <4> QED  BY <4>1, <4>2 DEF Triggered
      <3> QED  BY <2>3, <3>1 DEF Arrive
    <2>4. CASE StartCheck  BY <2>4 DEF StartCheck
    <2>5. CASE LockManifest  BY <2>5 DEF LockManifest
    <2>6. CASE Lookup
      <3>1. EndCheck \/ (step' = "dispatch" /\ UNCHANGED <<check, sha>>)
        BY <2>6 DEF Lookup
      <3>2. step = "lookup" /\ UNCHANGED <<world, queued, builds, stores, faults>>
        BY <2>6 DEF Lookup
      <3>3. CASE EndCheck
        BY <3>2, <3>3
      <3>4. CASE step' = "dispatch" /\ UNCHANGED <<check, sha>>
        BY <3>2, <3>4
      <3> QED  BY <3>1, <3>3, <3>4
    <2>7. CASE WatchSucceeds  BY <2>7 DEF WatchSucceeds
    <2>8. CASE WatchFails  BY <2>8 DEF WatchFails
    <2> QED  BY <2>1, <2>2, <2>3, <2>4, <2>5, <2>6, <2>7, <2>8 DEF Quiet
  <1>4. OrderInv'
    <2>1. sha' <= head'
      BY <1>2, ScheduleAssumption
         DEF Quiet, Push, GoLive, Arrive, StartCheck, LockManifest, Lookup,
             WatchSucceeds, WatchFails, Consistent, TypeOK, OrderInv, NotYet,
             Sha
    <2>2. \A b \in DOMAIN builds :
            builds[b].sha \in Int /\ builds[b].at \in Int
      BY Numbered, ScheduleAssumption
         DEF Consistent, Dispatched, Sha, NotYet
    <2> QED  BY <1>1, <1>2, <2>1, <2>2 DEF Consistent, OrderInv
  <1>5. WatchInv'
    BY <1>1 DEF Quiet, Push, GoLive, Arrive, StartCheck, LockManifest, Lookup,
                WatchSucceeds, WatchFails, Consistent, WatchInv, Watched
  <1>6. RecordInv'
    <2>1. step' \in {"watch", "record"} \/ step \notin {"watch", "record"}
            \/ builds[Watched].state = "failure"
      BY DEF Quiet, Push, GoLive, Arrive, StartCheck, LockManifest, Lookup,
             WatchSucceeds, WatchFails
    <2> QED  BY <1>1, <2>1 DEF Consistent, RecordInv, Holds, Watched, Store
  <1>7. DispatchInv'
    BY <1>1 DEF Quiet, Push, GoLive, Arrive, StartCheck, LockManifest, Lookup,
                WatchSucceeds, WatchFails, Consistent, DispatchInv, Store
  <1>8. RecordedWasBuilt' /\ RebuiltOnlyUnrecorded'
    BY <1>1 DEF Consistent, RecordedWasBuilt, RebuiltOnlyUnrecorded, Built,
                Again
  <1> QED
    BY <1>3, <1>4, <1>5, <1>6, <1>7, <1>8 DEF Consistent

-----------------------------------------------------------------------------
(* A step of build b.                                                      *)
BuildStep(b) == Checkout(b) \/ BuildSucceeds(b) \/ BuildFails(b)

(* What such a step does to the build: it never ends twice, and keeps what *)
(* it was dispatched for.                                                  *)
LEMMA BuildFacts ==
  ASSUME Consistent, NEW b \in DOMAIN builds, BuildStep(b)
  PROVE  /\ builds' \in Seq(Dispatched)
         /\ Len(builds') = Len(builds)
         /\ DOMAIN builds' = DOMAIN builds
         /\ \A c \in DOMAIN builds :
              /\ c # b => builds'[c] = builds[c]
              /\ builds'[c].sha = builds[c].sha
              /\ builds'[c].publishes = builds[c].publishes
              /\ builds'[c].watched = builds[c].watched
         /\ builds[b].state \in {"queued", "building"}
         /\ \/ builds[b].state = "queued" /\ builds'[b].at = head
            \/ builds[b].state = "building" /\ builds'[b].at = builds[b].at
  <1>1. TypeOK /\ builds[b] \in Dispatched /\ head \in Sha
    BY Numbered DEF Consistent, TypeOK
  <1>2. PICK r \in Dispatched :
          /\ builds' = [builds EXCEPT ![b] = r]
          /\ r.sha = builds[b].sha /\ r.publishes = builds[b].publishes
          /\ r.watched = builds[b].watched
          /\ builds[b].state \in {"queued", "building"}
          /\ \/ builds[b].state = "queued" /\ r.at = head
             \/ builds[b].state = "building" /\ r.at = builds[b].at
    <2>1. CASE Checkout(b)
      <3> DEFINE r == [builds[b] EXCEPT !.state = "building", !.at = head]
      <3>1. r \in Dispatched
        BY <1>1 DEF Dispatched
      <3>2. builds' = [builds EXCEPT ![b] = r] /\ builds[b].state = "queued"
        BY <2>1 DEF Checkout
      <3>3. /\ r.sha = builds[b].sha /\ r.publishes = builds[b].publishes
            /\ r.watched = builds[b].watched /\ r.at = head
        BY <1>1 DEF Dispatched
      <3> HIDE DEF r
      <3> QED  BY <3>1, <3>2, <3>3
    <2>2. ASSUME NEW s \in {"success", "failure"},
                 builds[b].state = "building",
                 builds' = [builds EXCEPT ![b].state = s]
          PROVE  \E r \in Dispatched :
                   /\ builds' = [builds EXCEPT ![b] = r]
                   /\ r.sha = builds[b].sha
                   /\ r.publishes = builds[b].publishes
                   /\ r.watched = builds[b].watched
                   /\ r.at = builds[b].at
      <3> DEFINE r == [builds[b] EXCEPT !.state = s]
      <3>1. r \in Dispatched
        BY <1>1 DEF Dispatched
      <3>2. builds' = [builds EXCEPT ![b] = r]
        BY <2>2
      <3>3. /\ r.sha = builds[b].sha /\ r.publishes = builds[b].publishes
            /\ r.watched = builds[b].watched /\ r.at = builds[b].at
        BY <1>1 DEF Dispatched
      <3> HIDE DEF r
      <3> QED  BY <3>1, <3>2, <3>3
    <2>3. CASE BuildSucceeds(b)
      BY <2>2, <2>3 DEF BuildSucceeds
    <2>4. CASE BuildFails(b)
      BY <2>2, <2>4 DEF BuildFails
    <2> QED  BY <2>1, <2>3, <2>4 DEF BuildStep
  <1> QED  BY <1>1, <1>2, ChangeOne

(* A step of a build keeps the state consistent.                           *)
LEMMA BuildStepConsistent ==
  ASSUME Consistent, NEW b \in DOMAIN builds, BuildStep(b)
  PROVE  Consistent'
  <1>1. /\ UNCHANGED <<head, liveVar, queued, check, step, sha>>
        /\ UNCHANGED <<recorded, dryRun>>
        /\ faults' \in 0 .. MaxFaults
    BY ScheduleAssumption
       DEF BuildStep, Checkout, BuildSucceeds, BuildFails, Fault, world,
           holder, stores, Consistent, TypeOK
  <1>2. TypeOK'
    BY <1>1, BuildFacts DEF Consistent, TypeOK
  <1>3. OrderInv'
    <2>1. \A c \in DOMAIN builds : builds[c].sha \in Int /\ head \in Int
      BY Numbered, ScheduleAssumption DEF Consistent, TypeOK, Dispatched, Sha
    <2>2. ASSUME NEW c \in DOMAIN builds, c # b
          PROVE  /\ builds'[c].sha <= head'
                 /\ \/ builds'[c].state = "queued"
                    \/ builds'[c].at \in builds'[c].sha .. head'
      BY <1>1, <2>2, BuildFacts DEF Consistent, OrderInv
    <2>3. builds'[b].sha <= head' /\ builds'[b].at \in builds'[b].sha .. head'
      BY <1>1, <2>1, BuildFacts DEF Consistent, OrderInv
    <2> QED  BY <1>1, <2>2, <2>3, BuildFacts DEF Consistent, OrderInv
  <1>4. WatchInv'
    BY <1>1, BuildFacts, Numbered DEF Consistent, WatchInv, Watched
  <1>5. RecordInv'
    BY <1>1, BuildFacts DEF Consistent, RecordInv, Holds, Watched, Store
  <1>6. DispatchInv'
    BY <1>1 DEF Consistent, DispatchInv, Store
  <1>7. RecordedWasBuilt'
    BY <1>1, BuildFacts, RecordsStay DEF Consistent
  <1>8. RebuiltOnlyUnrecorded'
    BY <1>1, BuildFacts DEF Consistent, RebuiltOnlyUnrecorded, Again
  <1> QED
    BY <1>2, <1>3, <1>4, <1>5, <1>6, <1>7, <1>8 DEF Consistent

-----------------------------------------------------------------------------
(* What a dispatch adds to the builds: what is dispatched again is neither *)
(* running under a watcher nor recorded.                                   *)
LEMMA DispatchFacts ==
  ASSUME Consistent, step = "dispatch", NEW w \in BOOLEAN,
         builds' = Append(builds, NewBuild(w)),
         UNCHANGED <<head, recorded, dryRun>>
  PROVE  /\ builds' \in Seq(Dispatched)
         /\ Len(builds') \in Nat \ {0}
         /\ builds'[Len(builds')] = NewBuild(w)
         /\ \A b \in DOMAIN builds' :
              /\ builds'[b].sha <= head
              /\ \/ builds'[b].state = "queued"
                 \/ builds'[b].at \in builds'[b].sha .. head
         /\ \A b \in DOMAIN builds' :
              \/ b = Len(builds')
              \/ ~builds'[b].watched
              \/ builds'[b].state = "failure"
              \/ /\ builds'[b].state = "success"
                 /\ builds'[b].sha \in Store(builds'[b])
         /\ RecordedWasBuilt'
         /\ RebuiltOnlyUnrecorded'
  <1> DEFINE r == NewBuild(w)
             n == Len(builds) + 1
  <1>1. TypeOK /\ sha \in Sha /\ check \in Run
    BY DEF Consistent, TypeOK
  <1>2. r \in Dispatched
    BY <1>1 DEF NewBuild, Dispatched, Run
  <1>3. /\ r.sha = sha /\ r.publishes = check.publishes
        /\ r.state = "queued"
    BY DEF NewBuild
  <1> HIDE DEF r
  <1>4. builds' = Append(builds, r)
    BY DEF r
  <1>5. /\ builds' \in Seq(Dispatched)
        /\ Len(builds') = n /\ builds'[n] = r
        /\ DOMAIN builds' = DOMAIN builds \cup {n}
        /\ \A b \in DOMAIN builds : builds'[b] = builds[b]
    BY <1>1, <1>2, <1>4, AddOne
  <1>6. /\ Len(builds) \in Nat /\ n \in Nat \ {0}
        /\ DOMAIN builds = 1 .. Len(builds)
    BY <1>1, Numbered
  <1>7. \A b \in DOMAIN builds :
          \/ ~builds[b].watched
          \/ builds[b].state = "failure"
          \/ builds[b].state = "success" /\ builds[b].sha \in Store(builds[b])
    BY DEF Consistent, RecordInv, Holds
  <1>8. RebuiltOnlyUnrecorded'
    <2>1. ASSUME NEW a \in DOMAIN builds, builds'[a].sha = builds'[n].sha,
                 builds'[a].publishes = builds'[n].publishes
          PROVE  builds[a].state = "failure" \/ ~builds[a].watched
      <3>1. builds[a].sha = sha /\ builds[a].publishes = check.publishes
        BY <1>3, <1>5, <2>1
      <3>2. Store(builds[a]) = Store(check) /\ sha \notin Store(check)
        BY <3>1 DEF Store, Consistent, DispatchInv
      <3> QED  BY <1>7, <3>1, <3>2
    <2>2. ASSUME NEW a \in DOMAIN builds, NEW b \in DOMAIN builds,
                 Again(a, b)'
          PROVE  builds[a].state = "failure" \/ ~builds[a].watched
      BY <1>5, <2>2 DEF Consistent, RebuiltOnlyUnrecorded, Again
    <2>3. ASSUME NEW a \in DOMAIN builds', NEW b \in DOMAIN builds',
                 Again(a, b)'
          PROVE  builds[a].state = "failure" \/ ~builds[a].watched
      <3>1. a \in DOMAIN builds
        BY <1>5, <1>6, <2>3 DEF Again
      <3>2. CASE b = n
        BY <2>1, <2>3, <3>1, <3>2 DEF Again
      <3>3. CASE b \in DOMAIN builds
        BY <2>2, <2>3, <3>1, <3>3
      <3> QED  BY <1>5, <3>2, <3>3
    <2>4. \A a, b \in DOMAIN builds' : Again(a, b)' => a \in DOMAIN builds
      BY <1>5, <1>6 DEF Again
    <2> QED  BY <1>5, <2>3, <2>4 DEF RebuiltOnlyUnrecorded
  <1>9. RecordedWasBuilt'
    BY <1>5, RecordsStay DEF Consistent
  <1>10. \A b \in DOMAIN builds' :
           /\ builds'[b].sha <= head
           /\ \/ builds'[b].state = "queued"
              \/ builds'[b].at \in builds'[b].sha .. head
    BY <1>3, <1>5 DEF Consistent, OrderInv
  <1>11. \A b \in DOMAIN builds' :
           \/ b = n
           \/ ~builds'[b].watched
           \/ builds'[b].state = "failure"
           \/ /\ builds'[b].state = "success"
              /\ builds'[b].sha \in Store(builds'[b])
    BY <1>5, <1>7 DEF Store
  <1> QED  BY <1>5, <1>6, <1>8, <1>9, <1>10, <1>11 DEF r

(* Dispatching, or failing to, keeps the state consistent.                 *)
LEMMA DispatchStep == Consistent /\ (Dispatch \/ DispatchFails) => Consistent'
  <1> SUFFICES ASSUME Consistent, Dispatch \/ DispatchFails
               PROVE  Consistent'
    OBVIOUS
  <1>1. /\ step = "dispatch"
        /\ UNCHANGED <<head, liveVar, queued, recorded, dryRun>>
        /\ faults' = faults \/ Fault
    BY DEF Dispatch, DispatchFails, world, stores
  <1>2. faults' \in 0 .. MaxFaults
    BY <1>1, ScheduleAssumption DEF Fault, Consistent, TypeOK
  <1>3. head \in Sha
    BY DEF Consistent, TypeOK
  <1>4. CASE Dispatch
    <2>1. /\ builds' = Append(builds, NewBuild(TRUE))
          /\ step' = "watch" /\ UNCHANGED <<check, sha>>
      BY <1>4 DEF Dispatch
    <2>2. /\ builds' \in Seq(Dispatched)
          /\ Len(builds') \in Nat \ {0}
          /\ builds'[Len(builds')] = NewBuild(TRUE)
      BY <1>1, <2>1, DispatchFacts
    <2>3. TypeOK'
      BY <1>1, <1>2, <2>1, <2>2 DEF Consistent, TypeOK
    <2>4. OrderInv'
      BY <1>1, <2>1, DispatchFacts DEF Consistent, OrderInv
    <2>5. WatchInv'
      BY <2>1, <2>2 DEF WatchInv, Watched, NewBuild
    <2>6. RecordInv'
      BY <1>1, <2>1, DispatchFacts DEF RecordInv, Holds, Watched, Store
    <2>7. DispatchInv'
      BY <2>1 DEF DispatchInv
    <2>8. RecordedWasBuilt' /\ RebuiltOnlyUnrecorded'
      BY <1>1, <2>1, DispatchFacts
    <2> QED
      BY <2>3, <2>4, <2>5, <2>6, <2>7, <2>8 DEF Consistent
  <1>5. ASSUME EndCheck, builds' \in Seq(Dispatched),
               \A b \in DOMAIN builds' :
                 /\ builds'[b].sha <= head
                 /\ \/ builds'[b].state = "queued"
                    \/ builds'[b].at \in builds'[b].sha .. head,
               RecordInv', RecordedWasBuilt', RebuiltOnlyUnrecorded'
        PROVE  Consistent'
    <2>1. TypeOK'
      BY <1>1, <1>2, <1>5
         DEF Consistent, TypeOK, EndCheck, NotYet, None, Run
    <2>2. OrderInv'
      BY <1>1, <1>3, <1>5, ScheduleAssumption
         DEF OrderInv, EndCheck, NotYet, Sha
    <2>3. WatchInv' /\ DispatchInv'
      BY <1>5 DEF WatchInv, DispatchInv, EndCheck
    <2> QED  BY <1>5, <2>1, <2>2, <2>3 DEF Consistent
  <1>6. CASE DispatchFails /\ builds' = builds
    <2>1. RecordInv' /\ RecordedWasBuilt' /\ RebuiltOnlyUnrecorded'
      BY <1>1, <1>6
         DEF Consistent, RecordInv, Holds, Store, RecordedWasBuilt, Built,
             RebuiltOnlyUnrecorded, Again
    <2>2. EndCheck /\ builds' \in Seq(Dispatched)
      BY <1>6 DEF DispatchFails, Consistent, TypeOK
    <2> QED  BY <1>5, <1>6, <2>1, <2>2 DEF Consistent, OrderInv
  <1>7. CASE DispatchFails
             /\ builds' = Append(builds, NewBuild(FALSE))
    <2>1. ~builds'[Len(builds')].watched
      BY <1>1, <1>7, DispatchFacts DEF NewBuild
    <2>2. RecordInv'
      BY <1>1, <1>7, <2>1, DispatchFacts DEF RecordInv, Store
    <2>3. EndCheck
      BY <1>7 DEF DispatchFails
    <2> QED  BY <1>1, <1>5, <1>7, <2>2, <2>3, DispatchFacts
  <1> QED  BY <1>4, <1>6, <1>7 DEF DispatchFails

(* Recording keeps the state consistent: the build that the check watches  *)
(* has its SHA, succeeded, and took its commits or later ones.             *)
LEMMA RecordStep == Consistent /\ Record => Consistent'
  <1> SUFFICES ASSUME Consistent, Record PROVE Consistent'
    OBVIOUS
  <1>1. /\ step = "record" /\ EndCheck
        /\ UNCHANGED <<head, liveVar, queued, builds, faults>>
        /\ \/ /\ check.publishes
              /\ recorded' = recorded \cup {sha} /\ dryRun' = dryRun
           \/ /\ ~check.publishes
              /\ dryRun' = dryRun \cup {sha} /\ recorded' = recorded
    BY DEF Record, world
  <1>2. /\ TypeOK /\ sha \in Sha /\ head \in Sha /\ check.publishes \in BOOLEAN
    BY <1>1 DEF Consistent, TypeOK, Run
  <1>3. /\ Watched \in DOMAIN builds
        /\ builds[Watched].sha = sha
        /\ builds[Watched].publishes = check.publishes
        /\ builds[Watched].state = "success"
        /\ builds[Watched].at >= sha
    <2>1. Watched \in DOMAIN builds
      BY <1>1, <1>2, Numbered DEF Consistent, WatchInv, Watched
    <2>2. /\ builds[Watched].sha = sha
          /\ builds[Watched].publishes = check.publishes
          /\ builds[Watched].state = "success"
      BY <1>1 DEF Consistent, WatchInv
    <2>3. builds[Watched].at \in builds[Watched].sha .. head
      BY <2>1, <2>2 DEF Consistent, OrderInv
    <2> QED  BY <1>2, <2>1, <2>2, <2>3, ScheduleAssumption DEF Sha
  <1>4. TypeOK'
    BY <1>1, <1>2 DEF TypeOK, EndCheck, None, Run, NotYet
  <1>5. OrderInv'
    BY <1>1, <1>2, ScheduleAssumption
       DEF Consistent, OrderInv, EndCheck, NotYet, Sha
  <1>6. WatchInv' /\ DispatchInv'
    BY <1>1 DEF EndCheck, WatchInv, DispatchInv
  <1>7. RecordInv'
    <2>1. \A b \in DOMAIN builds : Store(builds[b]) \subseteq Store(builds[b])'
      BY <1>1 DEF Store
    <2>2. \A b \in DOMAIN builds :
            b = Watched => sha \in Store(builds[b])'
      BY <1>1, <1>3 DEF Store
    <2>3. ASSUME NEW b \in DOMAIN builds
          PROVE  \/ ~builds[b].watched
                 \/ builds[b].state = "failure"
                 \/ /\ builds[b].state = "success"
                    /\ builds[b].sha \in Store(builds[b])'
      <3>1. CASE b = Watched
        BY <1>3, <2>2, <3>1
      <3>2. CASE b # Watched
        BY <2>1, <3>2 DEF Consistent, RecordInv, Holds
      <3> QED  BY <3>1, <3>2
    <2> QED  BY <1>1, <2>3 DEF RecordInv
  <1>8. RecordedWasBuilt'
    <2>1. \A s, p : Built(s, p) => Built(s, p)'
      BY <1>1 DEF Built
    <2>2. Built(sha, check.publishes)
      BY <1>3 DEF Built
    <2>3. CASE check.publishes
      <3>1. Built(sha, TRUE)
        BY <1>2, <2>2, <2>3
      <3> QED
        BY <1>1, <2>1, <2>3, <3>1 DEF Consistent, RecordedWasBuilt
    <2>4. CASE ~check.publishes
      <3>1. Built(sha, FALSE)
        BY <1>2, <2>2, <2>4
      <3> QED
        BY <1>1, <2>1, <2>4, <3>1 DEF Consistent, RecordedWasBuilt
    <2> QED  BY <2>3, <2>4
  <1>9. RebuiltOnlyUnrecorded'
    BY <1>1 DEF Consistent, RebuiltOnlyUnrecorded, Again
  <1> QED
    BY <1>4, <1>5, <1>6, <1>7, <1>8, <1>9 DEF Consistent

(* A check that dies keeps the state consistent: the build it watched is   *)
(* one that lost its watcher.                                              *)
LEMMA CheckDiesStep == Consistent /\ CheckDies => Consistent'
  <1> SUFFICES ASSUME Consistent, CheckDies PROVE Consistent'
    OBVIOUS
  <1>1. /\ EndCheck /\ Fault
        /\ UNCHANGED <<head, liveVar, queued, recorded, dryRun>>
    BY DEF CheckDies, world, stores
  <1>2. TypeOK /\ faults' \in 0 .. MaxFaults /\ head \in Sha
    BY <1>1, ScheduleAssumption DEF Fault, Consistent, TypeOK
  <1>3. /\ builds' \in Seq(Dispatched)
        /\ DOMAIN builds' = DOMAIN builds
        /\ \A b \in DOMAIN builds :
             /\ builds'[b].sha = builds[b].sha
             /\ builds'[b].publishes = builds[b].publishes
             /\ builds'[b].at = builds[b].at
             /\ builds'[b].state = builds[b].state
             /\ builds'[b].watched => builds[b].watched /\ ~Holds(b)
    <2>1. CASE step \in {"watch", "record"}
      <3> DEFINE r == [builds[Watched] EXCEPT !.watched = FALSE]
      <3>1. Watched \in DOMAIN builds
        BY <1>2, <2>1, Numbered DEF Consistent, WatchInv, Watched
      <3>2. builds[Watched] \in Dispatched
        BY <1>2, <3>1, Numbered
      <3>3. /\ r \in Dispatched
            /\ r.sha = builds[Watched].sha
            /\ r.publishes = builds[Watched].publishes
            /\ r.at = builds[Watched].at /\ r.state = builds[Watched].state
            /\ ~r.watched
        BY <3>2 DEF Dispatched
      <3>4. builds' = [builds EXCEPT ![Watched] = r]
        BY <2>1 DEF CheckDies
      <3> HIDE DEF r
      <3>5. /\ builds' \in Seq(Dispatched)
            /\ DOMAIN builds' = DOMAIN builds
            /\ builds'[Watched] = r
            /\ \A b \in DOMAIN builds : b # Watched => builds'[b] = builds[b]
        BY <1>2, <3>1, <3>3, <3>4, ChangeOne
      <3> QED  BY <3>3, <3>5 DEF Holds
    <2>2. CASE step \notin {"watch", "record"}
      BY <2>2 DEF CheckDies, Holds, Consistent, TypeOK
    <2> QED  BY <2>1, <2>2
  <1>4. TypeOK'
    BY <1>1, <1>2, <1>3 DEF TypeOK, EndCheck, None, Run, NotYet
  <1>5. OrderInv'
    BY <1>1, <1>2, <1>3, ScheduleAssumption
       DEF Consistent, OrderInv, EndCheck, NotYet, Sha
  <1>6. WatchInv' /\ DispatchInv'
    BY <1>1 DEF EndCheck, WatchInv, DispatchInv
  <1>7. RecordInv'
    BY <1>1, <1>3 DEF Consistent, RecordInv, Store
  <1>8. RecordedWasBuilt'
    BY <1>1, <1>3, RecordsStay DEF Consistent
  <1>9. RebuiltOnlyUnrecorded'
    BY <1>3 DEF Consistent, RebuiltOnlyUnrecorded, Again
  <1> QED
    BY <1>4, <1>5, <1>6, <1>7, <1>8, <1>9 DEF Consistent

-----------------------------------------------------------------------------
(* Consistent is an inductive invariant of the scheduled builds: a build   *)
(* that kept its watcher has failed, is recorded, or is being watched, and *)
(* what a check dispatches is not recorded (_scheduled-build.yml).         *)
THEOREM Accounted == Spec => []Consistent
  <1>1. Consistent /\ [Next]_vars => Consistent'
    <2> SUFFICES ASSUME Consistent, [Next]_vars PROVE Consistent'
      OBVIOUS
    <2>1. CASE Quiet  BY <2>1, QuietStep
    <2>2. CASE Dispatch \/ DispatchFails  BY <2>2, DispatchStep
    <2>3. CASE Record  BY <2>3, RecordStep
    <2>4. CASE CheckDies  BY <2>4, CheckDiesStep
    <2>5. ASSUME NEW b \in DOMAIN builds, BuildStep(b) PROVE Consistent'
      BY <2>5, BuildStepConsistent
    <2>6. CASE UNCHANGED vars
      BY <2>6
         DEF vars, world, holder, stores, Consistent, TypeOK, OrderInv,
             WatchInv, RecordInv, DispatchInv, RecordedWasBuilt,
             RebuiltOnlyUnrecorded, Built, Again, Holds, Watched, Store
    <2> QED
      BY <2>1, <2>2, <2>3, <2>4, <2>5, <2>6
         DEF Next, Check, Build, Quiet, BuildStep
  <1> QED  BY InitConsistent, <1>1, PTL DEF Spec

(* Every variable keeps its type, and an idle group holds no check.        *)
THEOREM TypeCorrect == Spec => []TypeOK
  BY Accounted, PTL DEF Consistent

(* A SHA is stored only after a build of its kind succeeded with its       *)
(* commits or later ones (_scheduled-build.yml: Record the manifest SHA).  *)
THEOREM RecordsAreSound == Spec => []RecordedWasBuilt
  BY Accounted, PTL DEF Consistent

(* One SHA is dispatched twice for one kind of build only when the first   *)
(* build failed or lost its watcher (_scheduled-build.yml: Decide).        *)
THEOREM NothingBuiltTwice == Spec => []RebuiltOnlyUnrecorded
  BY Accounted, PTL DEF Consistent

=============================================================================
