----------------------- MODULE IncrementalBuildProofs -----------------------
(***************************************************************************)
(* Proofs about series of full and incremental builds, for every set of    *)
(* components and every way in which they depend on one another, however   *)
(* often the repositories move and the input manifest is edited.           *)
(***************************************************************************)
EXTENDS IncrementalBuild, SequenceTheorems, WellFoundedInduction, TLAPS

-----------------------------------------------------------------------------
(* The inductive invariant.                                                *)

ManifestEntry == [commit : Int, base : UNION {[S -> Int] : S \in SUBSET Component}]
Manifest == [version  : Int,
             hash     : [order : Seq(Component), entry : [Component -> ManifestEntry]],
             suspects : SUBSET Component]

(* Every variable keeps its type.                                          *)
TypeOK ==
  /\ listed \subseteq Component /\ Core \in listed
  /\ version \in Nat
  /\ head \in [Component -> Nat]
  /\ published \in Manifest /\ recorder \in Manifest
  /\ todo \subseteq listed
  /\ run \in {"idle", "full", "incremental"}
  /\ outcome \in {"none", "running", "clean", "partial", "skipped", "error"}
  /\ outcome = "running" <=> run # "idle"
  /\ seen \in [listed : SUBSET Component, version : Nat, head : [Component -> Nat]]

(* Nothing is ever built from a commit that does not exist yet, nor listed *)
(* that is not in the input manifest; and a running build has its input.   *)
PastInv ==
  /\ \A m \in {published, recorder} :
       /\ Names(m) \subseteq listed
       /\ \A c \in Component : Entry(m, c).commit <= head[c]
  /\ \A c \in Component : seen.head[c] <= head[c]
  /\ run # "idle" => seen.listed = listed

(* A component, as a running build of the listed ones finds or leaves it.  *)
NewEnough(m, c) == c \in Names(m) /\ Entry(m, c).commit >= seen.head[c]
OnEntries(m, c) ==
  c \in m.suspects \/
    \A d \in BuiltOn(c) \cap Names(m) : Entry(m, c).base[d] = Entry(m, d).commit

(* What a running build has not come to yet is all that it may leave out   *)
(* of date, and it comes to what is built on a component after it.         *)
RunningInv ==
  run # "idle" =>
    /\ failures = {} => \A c \in listed : c \in todo \/ NewEnough(recorder, c)
    /\ run = "incremental" =>
         \A c \in Names(published) :
           /\ c \in Names(recorder)
           /\ \/ Entry(recorder, c) = Entry(published, c)
              \/ Entry(recorder, c).commit >= seen.head[c]
    /\ ~Dashboards =>
         /\ \A b \in todo : \A c \in listed : b \in BuiltOn(c) => c \in todo
         /\ \A c \in Names(recorder) : c \in todo \/ OnEntries(recorder, c)

IncrementalInv ==
  /\ TypeOK /\ PastInv /\ RunningInv
  /\ ReportedInputIsBuilt
  /\ ~Dashboards => StaleOnlyByFailure

-----------------------------------------------------------------------------
(* Components are numbers, the core engine the first of them.              *)
LEMMA ComponentFacts ==
  /\ N \in Nat /\ Core \in Component /\ Component \subseteq Int
  /\ \A c \in Component : Core <= c /\ (c # Core => Core < c)
  /\ \A c \in Component : BuiltOn(c) \subseteq Component
  /\ \A c \in Component : \A d \in BuiltOn(c) : d < c
  <1>1. /\ N \in Nat /\ N > 0 /\ Core = 1
        /\ DependsOn \in [Component -> SUBSET (Component \ {Core})]
        /\ \A c \in Component : \A d \in DependsOn[c] : d < c
    BY IncrementalAssumption DEF Core
  <1>2. Core \in Component /\ Component \subseteq Int
    BY <1>1 DEF Component
  <1>3. \A c \in Component : Core <= c /\ (c # Core => Core < c)
    BY <1>1 DEF Component
  <1>4. ASSUME NEW c \in Component, NEW d \in BuiltOn(c)
        PROVE  d \in Component /\ d < c
    <2>1. d \in DependsOn[c] \/ (d = Core /\ c # Core)
      BY DEF BuiltOn
    <2>2. CASE d \in DependsOn[c]
      BY <2>2, <1>1
    <2>3. CASE d = Core /\ c # Core
      BY <2>3, <1>2, <1>3
    <2> QED  BY <2>1, <2>2, <2>3
  <1> QED  BY <1>1, <1>2, <1>3, <1>4

(* The components left of a build are taken from the first one on.         *)
LEMMA NextIsFirst ==
  ASSUME todo \subseteq Component, todo # {}
  PROVE  NextComponent \in todo /\ \A d \in todo : NextComponent <= d
  <1> DEFINE Less == OpToRel(<, Nat)
  <1>1. todo \subseteq Nat
    BY IncrementalAssumption DEF Component
  <1>2. IsWellFoundedOn(Less, Nat) /\ \A x, y \in Nat : <<y, x>> \in Less <=> y < x
    BY NatLessThanWellFounded DEF OpToRel
  <1> HIDE DEF Less
  <1>3. PICK c \in todo : \A d \in todo : <<d, c>> \notin Less
    BY <1>1, <1>2, WFMin
  <1>4. ASSUME NEW d \in todo
        PROVE  c <= d
    <2>1. c \in Nat /\ d \in Nat
      BY <1>1
    <2>2. ~(d < c)
      BY <1>2, <1>3, <2>1
    <2> QED  BY <2>1, <2>2
  <1>5. NextComponent = CHOOSE d \in todo : \A b \in todo : d <= b
    BY DEF NextComponent, Min
  <1>6. \E d \in todo : \A b \in todo : d <= b
    BY <1>4
  <1> HIDE DEF NextComponent
  <1> QED  BY <1>5, <1>6, Zenon

(* rebuild_plugins() asks of a component whether one that it depends on is *)
(* to be rebuilt: since those are listed before it, the question has an    *)
(* answer.                                                                 *)
Answers(n, changed, f) ==
  \A c \in 1 .. n :
    f[c] = (c \in listed /\ (c \in changed \/ \E d \in DependsOn[c] : f[d]))

(* There is exactly that function: it is built up in the order of N.       *)
LEMMA ReachedExists ==
  ASSUME NEW changed
  PROVE  \E f : /\ f = [c \in Component |->
                         c \in listed /\ (c \in changed \/ \E d \in DependsOn[c] : f[d])]
  <1> DEFINE Less == OpToRel(<, Nat)
             Stuck == {n \in 0 .. N : ~\E f \in [1 .. n -> BOOLEAN] : Answers(n, changed, f)}
  <1>1. /\ N \in Nat /\ Component = 1 .. N
        /\ \A c \in Component : \A d \in DependsOn[c] : d \in 1 .. (c - 1)
    BY IncrementalAssumption DEF Component
  <1>2. IsWellFoundedOn(Less, Nat) /\ \A x, y \in Nat : <<y, x>> \in Less <=> y < x
    BY NatLessThanWellFounded DEF OpToRel
  <1> HIDE DEF Less
  <1>3. Stuck = {}
    <2> SUFFICES ASSUME Stuck # {} PROVE FALSE
      OBVIOUS
    <2>1. Stuck \subseteq Nat
      BY <1>1
    <2> HIDE DEF Stuck
    <2>2. PICK n \in Stuck : \A m \in Stuck : <<m, n>> \notin Less
      BY <1>2, <2>1, WFMin
    <2> USE DEF Stuck
    <2>3. n # 0
      <3>1. [c \in 1 .. 0 |-> TRUE] \in [1 .. 0 -> BOOLEAN]
        OBVIOUS
      <3>2. Answers(0, changed, [c \in 1 .. 0 |-> TRUE])
        BY DEF Answers
      <3> QED  BY <3>1, <3>2
    <2>4. n - 1 \in 0 .. N /\ n \in 1 .. N /\ n - 1 \notin Stuck
      <3>1. n \in 1 .. N /\ n - 1 \in Nat /\ n - 1 < n /\ n - 1 \in 0 .. N
        BY <1>1, <2>3
      <3>2. <<n - 1, n>> \in Less
        BY <1>2, <3>1
      <3> QED  BY <2>2, <3>1, <3>2
    <2>5. PICK f \in [1 .. n - 1 -> BOOLEAN] : Answers(n - 1, changed, f)
      BY <2>4
    <2> DEFINE last == n \in listed /\ (n \in changed \/ \E d \in DependsOn[n] : f[d])
               g == [c \in 1 .. n |-> IF c = n THEN last ELSE f[c]]
    <2>6. \A c \in 1 .. n : c # n => c \in 1 .. n - 1
      BY <2>4
    <2>7. g \in [1 .. n -> BOOLEAN]
      BY <2>6
    <2>8. \A c \in 1 .. n : \A d \in DependsOn[c] : d \in 1 .. n /\ d \in 1 .. n - 1 /\ d # n
      BY <1>1, <2>4
    <2>9. \A d \in 1 .. n - 1 : d \in 1 .. n /\ g[d] = f[d]
      BY <2>4
    <2>10. g[n] = last
      BY <2>4
    <2> HIDE DEF g
    <2>11. Answers(n, changed, g)
      BY <2>5, <2>6, <2>8, <2>9, <2>10 DEF Answers
    <2> QED  BY <2>7, <2>11
  <1>4. PICK f \in [1 .. N -> BOOLEAN] : Answers(N, changed, f)
    BY <1>1, <1>3
  <1> QED  BY <1>1, <1>4 DEF Answers

(* What an incremental build rebuilds: what has changed and, but for the   *)
(* core of Dashboards, all that is built on something it rebuilds.         *)
LEMMA RebuildIsClosed ==
  ASSUME NEW changed \in SUBSET listed, listed \subseteq Component, Core \in listed,
         NEW plan, plan = RebuildPlugins(changed)
  PROVE  /\ changed \subseteq plan /\ plan \subseteq listed
         /\ changed = {} => plan = {}
         /\ Core \in changed => plan = listed
         /\ ~Dashboards =>
              \A b \in plan : \A c \in listed : b \in BuiltOn(c) => c \in plan
  <1> DEFINE reached ==
        CHOOSE f : f = [c \in Component |->
                         c \in listed /\ (c \in changed \/ \E d \in DependsOn[c] : f[d])]
  <1>1. \A c \in Component :
          reached[c] = (c \in listed /\ (c \in changed \/ \E d \in DependsOn[c] : reached[d]))
    <2>1. reached = [c \in Component |->
                      c \in listed /\ (c \in changed \/ \E d \in DependsOn[c] : reached[d])]
      BY ReachedExists
    <2> HIDE DEF reached
    <2> QED  BY <2>1
  <1>2. plan = IF changed = {} THEN {}
               ELSE IF Core \in changed THEN listed
               ELSE (IF Dashboards THEN {Core} ELSE {}) \cup {c \in listed : reached[c]}
    BY DEF RebuildPlugins
  <1> HIDE DEF reached
  <1>3. CASE changed = {} \/ Core \in changed
    BY <1>2, <1>3
  <1>4. CASE changed # {} /\ Core \notin changed
    <2>1. plan = (IF Dashboards THEN {Core} ELSE {}) \cup {c \in listed : reached[c]}
      BY <1>2, <1>4
    <2>2. changed \subseteq plan /\ plan \subseteq listed
      BY <1>1, <2>1
    <2>3. ASSUME ~Dashboards, NEW b \in plan, NEW c \in listed, b \in BuiltOn(c)
          PROVE  c \in plan
      <3>1. b \in Component /\ reached[b]
        BY <2>1, <2>3
      <3>2. b # Core
        <4>1. \A d \in DependsOn[Core] : FALSE
          BY IncrementalAssumption, ComponentFacts
        <4> QED  BY <3>1, <4>1, <1>1, <1>4
      <3>3. b \in DependsOn[c]
        BY <2>3, <3>2 DEF BuiltOn
      <3>4. reached[c]
        BY <1>1, <3>1, <3>3
      <3> QED  BY <2>1, <3>4
    <2> QED  BY <1>4, <2>2, <2>3
  <1> QED  BY <1>3, <1>4

-----------------------------------------------------------------------------
(* A name at the end of the order of the components.                       *)
LEMMA NameAppended ==
  ASSUME NEW S, NEW names \in Seq(S), NEW c \in S
  PROVE  Append(names, c) \in Seq(S) /\ ToSet(Append(names, c)) = ToSet(names) \cup {c}
  <1> DEFINE n == Len(names)
             longer == Append(names, c)
  <1>1. /\ n \in Nat /\ DOMAIN names = 1 .. n
        /\ longer \in Seq(S)
        /\ Len(longer) = n + 1
        /\ \A i \in 1 .. n : longer[i] = names[i]
        /\ longer[n + 1] = c
    BY AppendProperties, LenProperties
  <1>2. DOMAIN longer = 1 .. (n + 1)
    BY <1>1, LenProperties
  <1> HIDE DEF n, longer
  <1>3. /\ \A i \in DOMAIN longer : i \in DOMAIN names \/ i = n + 1
        /\ n + 1 \in DOMAIN longer
        /\ \A i \in DOMAIN names : i \in DOMAIN longer
    BY <1>1, <1>2
  <1>4. longer \in Seq(S) /\ ToSet(longer) = ToSet(names) \cup {c}
    BY <1>1, <1>3 DEF ToSet
  <1> QED  BY <1>4 DEF longer

(* append_component() changes one entry, to the commit that is checked     *)
(* out, and lists its component.                                           *)
LEMMA EntryAppended ==
  ASSUME NEW m \in Manifest, NEW c \in Component, head \in [Component -> Nat],
         NEW w, w = WithComponent(m, c)
  PROVE  /\ w \in Manifest /\ Names(w) = Names(m) \cup {c}
         /\ w.suspects = m.suspects \ {c}
         /\ \A d \in Component : d # c => Entry(w, d) = Entry(m, d)
         /\ Entry(w, c).commit = head[c]
         /\ \A d \in BuiltOn(c) : Entry(w, c).base[d] = Entry(m, d).commit
  <1> DEFINE order == IF c \in Names(m) THEN m.hash.order ELSE Append(m.hash.order, c)
             new == [commit |-> head[c],
                     base   |-> [d \in BuiltOn(c) |-> Entry(m, d).commit]]
  <1>1. /\ m.version \in Int /\ m.suspects \subseteq Component
        /\ m.hash.order \in Seq(Component) /\ m.hash.entry \in [Component -> ManifestEntry]
    BY DEF Manifest
  <1>2. order \in Seq(Component) /\ ToSet(order) = Names(m) \cup {c}
    <2>1. CASE c \in Names(m)
      BY <2>1, <1>1 DEF Names
    <2>2. CASE c \notin Names(m)
      <3> DEFINE old == m.hash.order
      <3>1. old \in Seq(Component) /\ order = Append(old, c) /\ Names(m) = ToSet(old)
        BY <2>2, <1>1 DEF Names
      <3> HIDE DEF old, order
      <3>2. Append(old, c) \in Seq(Component) /\ ToSet(Append(old, c)) = ToSet(old) \cup {c}
        BY <3>1, NameAppended
      <3>3. order \in Seq(Component) /\ ToSet(order) = ToSet(old) \cup {c}
        BY <3>1, <3>2
      <3> QED  BY <3>1, <3>3
    <2> QED  BY <2>1, <2>2
  <1>3. new \in ManifestEntry
    <2>1. BuiltOn(c) \in SUBSET Component
      BY ComponentFacts
    <2>2. \A d \in BuiltOn(c) : Entry(m, d).commit \in Int
      BY <1>1, <2>1 DEF Entry, ManifestEntry
    <2>3. [d \in BuiltOn(c) |-> Entry(m, d).commit] \in [BuiltOn(c) -> Int]
      BY <2>2
    <2>4. head[c] \in Int
      OBVIOUS
    <2> QED  BY <2>1, <2>3, <2>4 DEF ManifestEntry
  <1>4. w = [m EXCEPT !.hash.order = order, !.suspects = @ \ {c}, !.hash.entry[c] = new]
    BY DEF WithComponent, Names
  <1>5. new.commit = head[c] /\ \A d \in BuiltOn(c) : new.base[d] = Entry(m, d).commit
    OBVIOUS
  <1> HIDE DEF order, new
  <1>6. w = [version  |-> m.version,
             hash     |-> [order |-> order, entry |-> [m.hash.entry EXCEPT ![c] = new]],
             suspects |-> m.suspects \ {c}]
    BY <1>1, <1>4 DEF Manifest
  <1>7. w.hash.order = order /\ w.hash.entry = [m.hash.entry EXCEPT ![c] = new]
        /\ w.suspects = m.suspects \ {c}
    BY <1>6
  <1>8. [m.hash.entry EXCEPT ![c] = new] \in [Component -> ManifestEntry]
    BY <1>1, <1>3
  <1>9. w \in Manifest
    BY <1>1, <1>2, <1>6, <1>8 DEF Manifest
  <1>10. /\ \A d \in Component : d # c => Entry(w, d) = Entry(m, d)
         /\ Entry(w, c) = new
    BY <1>1, <1>7 DEF Entry
  <1> QED  BY <1>2, <1>5, <1>7, <1>9, <1>10 DEF Names

(* A tolerated failure changes no entry, only the record that it occurred. *)
LEMMA FailureNoted ==
  ASSUME NEW m \in Manifest, NEW c \in Component,
         NEW w, w = [m EXCEPT !.suspects = @ \cup {c}]
  PROVE  /\ w \in Manifest /\ Names(w) = Names(m)
         /\ w.suspects = m.suspects \cup {c}
         /\ \A d \in Component : Entry(w, d) = Entry(m, d)
  <1>1. /\ m = [version |-> m.version, hash |-> m.hash, suspects |-> m.suspects]
        /\ m.suspects \subseteq Component
    BY DEF Manifest
  <1>2. w = [version |-> m.version, hash |-> m.hash, suspects |-> m.suspects \cup {c}]
    BY <1>1
  <1>3. w \in Manifest
    BY <1>1, <1>2 DEF Manifest
  <1> QED  BY <1>2, <1>3 DEF Names, Entry

(* Either way a component that was come to is listed beside what it was    *)
(* built on, or known to have failed, and the others are as they were.     *)
Recorded(m, w, c) ==
  /\ w \in Manifest
  /\ Names(m) \subseteq Names(w) /\ Names(w) \subseteq Names(m) \cup {c}
  /\ \A d \in Component :
       d # c => Entry(w, d) = Entry(m, d) /\ (d \in w.suspects <=> d \in m.suspects)
  /\ Entry(w, c) = Entry(m, c) \/ Entry(w, c).commit = head[c]
  /\ OnEntries(w, c)

(* Each of the outcomes of a build is one of these.                        *)
LEMMA BuildIsRecorded ==
  ASSUME NEW m \in Manifest, NEW c \in Component, head \in [Component -> Nat], NEW w,
         \/ w = WithComponent(m, c)
         \/ \E x \in {m, WithComponent(m, c)} : w = [x EXCEPT !.suspects = @ \cup {c}]
  PROVE  Recorded(m, w, c)
  <1>1. CASE w = WithComponent(m, c)
    <2>1. \A d \in BuiltOn(c) : d \in Component /\ d # c
      BY ComponentFacts
    <2> QED  BY <1>1, <2>1, EntryAppended DEF Recorded, OnEntries
  <1>2. CASE w = [m EXCEPT !.suspects = @ \cup {c}]
    BY <1>2, FailureNoted DEF Recorded, OnEntries
  <1>3. ASSUME NEW x, x = WithComponent(m, c), w = [x EXCEPT !.suspects = @ \cup {c}]
        PROVE  Recorded(m, w, c)
    <2>1. /\ x \in Manifest /\ Names(x) = Names(m) \cup {c}
          /\ x.suspects = m.suspects \ {c}
          /\ \A d \in Component : d # c => Entry(x, d) = Entry(m, d)
          /\ Entry(x, c).commit = head[c]
      BY <1>3, EntryAppended
    <2>2. /\ w \in Manifest /\ Names(w) = Names(x)
          /\ w.suspects = x.suspects \cup {c}
          /\ \A d \in Component : Entry(w, d) = Entry(x, d)
      BY <1>3, <2>1, FailureNoted
    <2> QED  BY <2>1, <2>2 DEF Recorded, OnEntries
  <1> QED  BY <1>1, <1>2, <1>3

(* A build comes to its next component.                                    *)
LEMMA BuildGoesOn ==
  ASSUME IncrementalInv, run # "idle", todo # {},
         Recorded(recorder, recorder', NextComponent),
         todo' = todo \ {NextComponent},
         failures' = {} =>
           failures = {} /\ recorder' = WithComponent(recorder, NextComponent),
         UNCHANGED <<input, published, run, outcome, seen>>
  PROVE  IncrementalInv'
  <1> DEFINE c == NextComponent
  <1>1. /\ TypeOK /\ PastInv /\ RunningInv
        /\ UNCHANGED <<listed, version, head, published, run, outcome, seen>>
    BY DEF IncrementalInv, input
  <1>2. /\ c \in todo /\ \A d \in todo : c <= d
        /\ c \in listed /\ c \in Component
        /\ todo \subseteq Component
    BY <1>1, NextIsFirst DEF TypeOK
  <1>3. /\ recorder' \in Manifest
        /\ Names(recorder) \subseteq Names(recorder')
        /\ Names(recorder') \subseteq Names(recorder) \cup {c}
        /\ \A d \in Component : d # c =>
             /\ Entry(recorder', d) = Entry(recorder, d)
             /\ d \in recorder'.suspects <=> d \in recorder.suspects
        /\ Entry(recorder', c) = Entry(recorder, c) \/ Entry(recorder', c).commit = head[c]
        /\ OnEntries(recorder', c)
    BY DEF Recorded
  <1>4. seen.head[c] <= head[c] /\ head[c] <= head[c] /\ Entry(recorder, c).commit <= head[c]
    BY <1>1, <1>2 DEF PastInv, TypeOK
  <1> HIDE DEF c
  <1>5. TypeOK'
    BY <1>1, <1>3 DEF TypeOK, c
  <1>6. PastInv'
    <2>1. /\ Names(published)' \subseteq listed'
          /\ \A d \in Component : Entry(published, d)'.commit <= head'[d]
          /\ \A d \in Component : seen'.head[d] <= head'[d]
          /\ run' # "idle" => seen'.listed = listed'
      BY <1>1 DEF PastInv, Names, Entry
    <2>2. Names(recorder') \subseteq listed'
      BY <1>1, <1>2, <1>3 DEF PastInv
    <2>3. ASSUME NEW d \in Component
          PROVE  Entry(recorder', d).commit <= head'[d]
      BY <1>1, <1>3, <1>4 DEF PastInv
    <2> QED  BY <2>1, <2>2, <2>3 DEF PastInv
  <1>7. RunningInv'
    <2>1. ASSUME failures' = {}, NEW d \in listed'
          PROVE  \/ d \in todo'
                 \/ d \in Names(recorder') /\ Entry(recorder', d).commit >= seen'.head[d]
      <3>1. d \in listed /\ d \in Component /\ (d \in todo \/ NewEnough(recorder, d))
        BY <2>1, <1>1 DEF RunningInv, TypeOK
      <3>2. CASE d = c
        <4>1. /\ recorder \in Manifest /\ head \in [Component -> Nat]
              /\ recorder' = WithComponent(recorder, c)
          BY <2>1, <1>1 DEF TypeOK, c
        <4>2. c \in Names(recorder') /\ Entry(recorder', c).commit = head[c]
          BY <4>1, <1>2, EntryAppended
        <4> QED  BY <3>2, <4>2, <1>1, <1>4 DEF NewEnough
      <3>3. CASE d # c
        BY <3>1, <3>3, <1>1, <1>3 DEF NewEnough, c
      <3> QED  BY <3>2, <3>3
    <2>2. ASSUME run' = "incremental", NEW d \in Names(published)'
          PROVE  /\ d \in Names(recorder')
                 /\ \/ Entry(recorder', d) = Entry(published, d)'
                    \/ Entry(recorder', d).commit >= seen'.head[d]
      <3>1. /\ d \in Names(published) /\ d \in Names(recorder) /\ d \in Component
            /\ \/ Entry(recorder, d) = Entry(published, d)
               \/ Entry(recorder, d).commit >= seen.head[d]
        BY <2>2, <1>1 DEF RunningInv, TypeOK, PastInv, Names
      <3>2. Entry(published, d)' = Entry(published, d) /\ seen' = seen
        BY <1>1 DEF Entry
      <3>3. CASE d = c
        BY <3>1, <3>2, <3>3, <1>1, <1>3, <1>4
      <3>4. CASE d # c
        BY <3>1, <3>2, <3>4, <1>3
      <3> QED  BY <3>3, <3>4
    <2>3. ASSUME ~Dashboards, NEW b \in todo', NEW d \in listed', b \in BuiltOn(d)
          PROVE  d \in todo'
      <3>1. b \in todo /\ b \in Component /\ d \in listed /\ d \in Component /\ d \in todo
        BY <2>3, <1>1 DEF RunningInv, TypeOK
      <3>2. c <= b /\ b < d
        BY <2>3, <3>1, <1>2, ComponentFacts
      <3>3. d # c
        BY <3>1, <3>2, <1>2, ComponentFacts
      <3> QED  BY <3>1, <3>3 DEF c
    <2>4. ASSUME ~Dashboards, NEW d \in Names(recorder')
          PROVE  d \in todo' \/ OnEntries(recorder', d)
      <3>1. CASE d = c
        BY <3>1, <1>3
      <3>2. CASE d # c
        <4>1. /\ d \in Names(recorder) /\ d \in Component /\ d \in listed
              /\ d \in todo \/ OnEntries(recorder, d)
          BY <2>4, <3>2, <1>1, <1>3 DEF RunningInv, TypeOK, PastInv
        <4>2. ASSUME NEW b \in BuiltOn(d) \cap Names(recorder'), d \notin todo,
                     OnEntries(recorder, d), d \notin recorder.suspects
              PROVE  Entry(recorder', d).base[b] = Entry(recorder', b).commit
          <5>1. b \in Component /\ b # c
            BY <4>1, <4>2, <1>1, <1>2, <2>4, ComponentFacts DEF RunningInv
          <5> QED  BY <4>1, <4>2, <5>1, <3>2, <1>3 DEF OnEntries
        <4> QED  BY <4>1, <4>2, <3>2, <1>1, <1>3 DEF OnEntries, c
      <3> QED  BY <3>1, <3>2
    <2>5. /\ \A d \in listed' : d \in todo' \/ NewEnough(recorder, d)'
             <=> \/ d \in todo'
                 \/ d \in Names(recorder') /\ Entry(recorder', d).commit >= seen'.head[d]
          /\ \A d : OnEntries(recorder, d)' <=> OnEntries(recorder', d)
          /\ Names(recorder)' = Names(recorder')
          /\ \A d : Entry(recorder, d)' = Entry(recorder', d)
      BY DEF NewEnough, OnEntries, BuiltOn, Names, Entry
    <2> QED  BY <2>1, <2>2, <2>3, <2>4, <2>5 DEF RunningInv
  <1>8. ReportedInputIsBuilt'
    BY <1>1 DEF IncrementalInv, ReportedInputIsBuilt, Reported, Names, Entry
  <1>9. ~Dashboards => StaleOnlyByFailure'
    BY <1>1 DEF IncrementalInv, StaleOnlyByFailure, OnListed, BuiltOn, Names, Entry
  <1> QED  BY <1>5, <1>6, <1>7, <1>8, <1>9 DEF IncrementalInv

(* A fresh manifest lists nothing.                                         *)
LEMMA FreshManifest ==
  ASSUME NEW v \in Int
  PROVE  /\ Fresh(v) \in Manifest /\ Names(Fresh(v)) = {}
         /\ Fresh(v).version = v
         /\ \A c \in Component : Entry(Fresh(v), c).commit = Absent
  <1>1. <<>> \in [{} -> Int] /\ {} \in SUBSET Component
    OBVIOUS
  <1>2. NoEntry \in ManifestEntry /\ NoEntry.commit = Absent
    <2>1. \A none \in [{} -> Int] : [commit |-> -1, base |-> none] \in ManifestEntry
      BY <1>1 DEF ManifestEntry
    <2> QED  BY <1>1, <2>1 DEF NoEntry, Absent
  <1>3. /\ NewHash.entry \in [Component -> ManifestEntry]
        /\ \A c \in Component : NewHash.entry[c] = NoEntry
    BY <1>2 DEF NewHash
  <1>4. NewHash = [order |-> <<>>, entry |-> NewHash.entry] /\ <<>> \in Seq(Component)
    BY DEF NewHash
  <1>5. Fresh(v) = [version |-> v, hash |-> NewHash, suspects |-> {}]
    BY DEF Fresh
  <1> HIDE DEF NewHash, Fresh
  <1>6. NewHash \in [order : Seq(Component), entry : [Component -> ManifestEntry]]
    <2>1. \A o \in Seq(Component) :
            [order |-> o, entry |-> NewHash.entry]
              \in [order : Seq(Component), entry : [Component -> ManifestEntry]]
      BY <1>3
    <2> QED  BY <1>4, <2>1
  <1>7. Fresh(v) \in Manifest
    BY <1>5, <1>6 DEF Manifest
  <1>8. Names(Fresh(v)) = {}
    BY <1>4, <1>5 DEF Names, ToSet
  <1> QED  BY <1>2, <1>3, <1>5, <1>7, <1>8 DEF Entry

(* At first nothing is published, and nothing runs.                        *)
LEMMA InitIncremental == Init => IncrementalInv
  <1> SUFFICES ASSUME Init PROVE IncrementalInv
    OBVIOUS
  <1>1. NoManifest \in Manifest /\ Names(NoManifest) = {}
        /\ \A c \in Component : Entry(NoManifest, c).commit = Absent
    BY FreshManifest DEF NoManifest, Absent
  <1>2. /\ listed \in SUBSET Component /\ Core \in listed
        /\ version = 0 /\ head = [c \in Component |-> 0]
        /\ published = NoManifest /\ recorder = NoManifest
        /\ todo = {} /\ run = "idle" /\ outcome = "none"
        /\ seen = [listed |-> {}, version |-> 0, head |-> head]
    BY DEF Init
  <1>3. TypeOK
    BY <1>1, <1>2 DEF TypeOK
  <1>4. PastInv
    <2>1. \A c \in Component : head[c] = 0 /\ seen.head[c] = 0
      BY <1>2
    <2> QED  BY <1>1, <1>2, <2>1 DEF PastInv, Absent
  <1>5. RunningInv /\ ReportedInputIsBuilt /\ StaleOnlyByFailure
    BY <1>1, <1>2 DEF RunningInv, ReportedInputIsBuilt, Reported, StaleOnlyByFailure
  <1> QED  BY <1>3, <1>4, <1>5 DEF IncrementalInv

(* The world moves: commits only make the repositories newer, and the      *)
(* input manifest only changes between builds.                             *)
LEMMA WorldMoves ==
  ASSUME IncrementalInv,
         \/ \E c \in Component : PushCommit(c) \/ AddToInput(c)
         \/ IncrementVersion
  PROVE  IncrementalInv'
  <1>1. /\ TypeOK /\ PastInv /\ RunningInv
        /\ ReportedInputIsBuilt /\ (~Dashboards => StaleOnlyByFailure)
    BY DEF IncrementalInv
  <1>2. /\ UNCHANGED <<published, recorder, todo, run, failures, outcome, seen>>
        /\ listed \subseteq listed' /\ listed' \subseteq Component
        /\ run # "idle" => listed' = listed
        /\ version' \in Nat
        /\ head' \in [Component -> Nat] /\ \A d \in Component : head[d] <= head'[d]
    <2>1. ASSUME NEW c \in Component, PushCommit(c)
          PROVE  /\ head' \in [Component -> Nat] /\ \A d \in Component : head[d] <= head'[d]
                 /\ UNCHANGED <<listed, version, published, build, outcome, seen>>
      BY <2>1, <1>1 DEF PushCommit, TypeOK
    <2>2. CASE \E c \in Component : PushCommit(c)
      BY <2>1, <2>2, <1>1 DEF build, TypeOK
    <2>3. CASE \E c \in Component : AddToInput(c)
      BY <2>3, <1>1 DEF AddToInput, build, TypeOK
    <2>4. CASE IncrementVersion
      BY <2>4, <1>1 DEF IncrementVersion, build, TypeOK
    <2> QED  BY <2>2, <2>3, <2>4
  <1>3. TypeOK'
    BY <1>1, <1>2 DEF TypeOK
  <1>4. PastInv'
    <2>1. ASSUME NEW x \in Int, NEW d \in Component, x <= head[d]
          PROVE  x <= head'[d]
      <3>1. head[d] \in Int /\ head'[d] \in Int /\ head[d] <= head'[d]
        BY <1>1, <1>2 DEF TypeOK
      <3> QED  BY <2>1, <3>1
    <2>2. ASSUME NEW m \in {published, recorder}
          PROVE  /\ Names(m) \subseteq listed'
                 /\ \A d \in Component : Entry(m, d).commit <= head'[d]
      <3>1. \A d \in Component : Entry(m, d).commit \in Int
        BY <1>1 DEF TypeOK, Manifest, ManifestEntry, Entry
      <3> QED  BY <3>1, <2>1, <1>1, <1>2 DEF PastInv
    <2>3. \A d \in Component : seen'.head[d] <= head'[d]
      BY <2>1, <1>1, <1>2 DEF PastInv, TypeOK
    <2> QED  BY <2>2, <2>3, <1>1, <1>2 DEF PastInv
  <1>5. RunningInv'
    BY <1>1, <1>2 DEF RunningInv, NewEnough, OnEntries, BuiltOn, Names, Entry
  <1>6. ReportedInputIsBuilt' /\ (~Dashboards => StaleOnlyByFailure')
    BY <1>1, <1>2 DEF ReportedInputIsBuilt, Reported, StaleOnlyByFailure, OnListed,
                      BuiltOn, Names, Entry
  <1> QED  BY <1>3, <1>4, <1>5, <1>6 DEF IncrementalInv

-----------------------------------------------------------------------------
(* A full build starts with everything to build, and an empty manifest.    *)
LEMMA FullBuildStarts ==
  ASSUME IncrementalInv, StartFull
  PROVE  IncrementalInv'
  <1>1. /\ TypeOK /\ PastInv /\ (~Dashboards => StaleOnlyByFailure)
        /\ run = "idle" /\ version \in Int
    BY DEF IncrementalInv, StartFull, TypeOK
  <1>2. /\ run' = "full" /\ todo' = listed /\ recorder' = Fresh(version) /\ failures' = {}
        /\ seen' = [listed |-> listed, version |-> version, head |-> head]
        /\ outcome' = "running"
        /\ UNCHANGED <<listed, version, head, published>>
    BY DEF StartFull, Begin, Snapshot, input
  <1>3. /\ recorder' \in Manifest /\ Names(recorder') = {}
        /\ \A c \in Component : Entry(recorder', c).commit = Absent
    BY <1>1, <1>2, FreshManifest
  <1>4. TypeOK'
    BY <1>1, <1>2, <1>3 DEF TypeOK
  <1>5. PastInv'
    <2>1. \A c \in Component : head[c] <= head[c] /\ Absent <= head[c]
      BY <1>1 DEF TypeOK, Absent
    <2>2. ASSUME NEW m \in {published', recorder'}
          PROVE  Names(m) \subseteq listed' /\ \A c \in Component : Entry(m, c).commit <= head'[c]
      BY <2>1, <1>1, <1>2, <1>3 DEF PastInv
    <2>3. seen'.head = head /\ seen'.listed = listed
      BY <1>2
    <2> QED  BY <2>1, <2>2, <2>3, <1>2 DEF PastInv, Names, Entry
  <1>6. RunningInv'
    <2>1. Names(recorder)' = {}
      BY <1>3 DEF Names
    <2>2. \A b \in todo' : \A c \in listed' : b \in BuiltOn(c) => c \in todo'
      BY <1>2
    <2> QED  BY <1>2, <2>1, <2>2 DEF RunningInv, BuiltOn
  <1>7. ReportedInputIsBuilt' /\ (~Dashboards => StaleOnlyByFailure')
    BY <1>1, <1>2 DEF ReportedInputIsBuilt, Reported, StaleOnlyByFailure, OnListed,
                      BuiltOn, Names, Entry
  <1> QED  BY <1>4, <1>5, <1>6, <1>7 DEF IncrementalInv

(* What commits_diff() does not name is in the manifest at its commit.     *)
LEMMA DiffIsComplete ==
  ASSUME TypeOK
  PROVE  /\ CommitsDiff \in SUBSET listed
         /\ \A c \in listed :
              \/ c \in CommitsDiff \/ Core \in CommitsDiff
              \/ c \in Names(published) /\ Entry(published, c).commit = head[c]
  BY DEF CommitsDiff, TypeOK

(* An incremental build starts from the previous manifest, with what has   *)
(* changed and what is built on that.                                      *)
LEMMA IncrementalBuildStarts ==
  ASSUME IncrementalInv, StartIncremental
  PROVE  IncrementalInv'
  <1> DEFINE plan == RebuildPlugins(CommitsDiff)
  <1>1. /\ TypeOK /\ PastInv /\ (~Dashboards => StaleOnlyByFailure)
        /\ listed \subseteq Component /\ Core \in listed
        /\ published \in Manifest
        /\ run = "idle"
    BY DEF IncrementalInv, StartIncremental, TypeOK
  <1>2. /\ CommitsDiff \in SUBSET listed
        /\ \A c \in listed :
             \/ c \in CommitsDiff \/ Core \in CommitsDiff
             \/ c \in Names(published) /\ Entry(published, c).commit = head[c]
    BY <1>1, DiffIsComplete
  <1>3. /\ CommitsDiff \subseteq plan /\ plan \subseteq listed
        /\ Core \in CommitsDiff => plan = listed
        /\ ~Dashboards =>
             \A b \in plan : \A c \in listed : b \in BuiltOn(c) => c \in plan
    BY <1>1, <1>2, RebuildIsClosed
  <1> HIDE DEF plan
  <1>4. /\ \A c \in listed : c \in plan \/
             (c \in Names(published) /\ Entry(published, c).commit = head[c])
    BY <1>2, <1>3
  <1>5. /\ seen' = [listed |-> listed, version |-> version, head |-> head]
        /\ UNCHANGED <<listed, version, head, published>>
        /\ \/ outcome' = "error" /\ UNCHANGED <<recorder, todo, run, failures>>
           \/ plan = {} /\ outcome' = "skipped" /\ UNCHANGED <<recorder, todo, run, failures>>
           \/ /\ outcome' = "running" /\ run' = "incremental"
              /\ todo' = plan /\ recorder' = published /\ failures' = {}
    BY DEF StartIncremental, Begin, Snapshot, input, build, plan
  <1>6. /\ seen'.head = head /\ seen'.listed = listed /\ seen'.version = version
        /\ \A c \in Component : head[c] >= head[c] /\ head[c] <= head[c]
    BY <1>1, <1>5 DEF TypeOK
  <1>7. TypeOK'
    BY <1>1, <1>3, <1>5 DEF TypeOK
  <1>8. PastInv'
    <2>1. ASSUME NEW m \in {published', recorder'}
          PROVE  Names(m) \subseteq listed' /\ \A c \in Component : Entry(m, c).commit <= head'[c]
      BY <1>1, <1>5 DEF PastInv
    <2> QED  BY <2>1, <1>5, <1>6 DEF PastInv, Names, Entry
  <1>9. RunningInv'
    <2>1. CASE run' = "idle"
      BY <2>1 DEF RunningInv
    <2>2. CASE run' # "idle"
      <3>1. /\ run' = "incremental" /\ todo' = plan /\ recorder' = published
            /\ listed' = listed /\ published' = published
        BY <1>1, <1>5, <2>2
      <3>2. /\ Names(recorder)' = Names(published) /\ Names(published)' = Names(published)
            /\ \A c : /\ Entry(recorder, c)' = Entry(published, c)
                      /\ Entry(published, c)' = Entry(published, c)
        BY <3>1 DEF Names, Entry
      <3>3. \A c \in listed' : c \in todo' \/ NewEnough(recorder, c)'
        BY <3>1, <3>2, <1>1, <1>4, <1>6 DEF NewEnough
      <3>4. ~Dashboards => \A c \in Names(recorder)' : OnEntries(recorder, c)'
        BY <3>1, <3>2, <1>1 DEF StaleOnlyByFailure, OnEntries, OnListed, BuiltOn
      <3>5. ~Dashboards =>
              \A b \in todo' : \A c \in listed' : (b \in BuiltOn(c))' => c \in todo'
        BY <3>1, <1>3 DEF BuiltOn
      <3> QED  BY <3>2, <3>3, <3>4, <3>5 DEF RunningInv
    <2> QED  BY <2>1, <2>2
  <1>10. ReportedInputIsBuilt'
    <2>1. ASSUME Reported', NEW c \in listed
          PROVE  c \in Names(published) /\ Entry(published, c).commit >= head[c]
      <3>1. plan = {}
        BY <2>1, <1>5 DEF Reported
      <3> QED  BY <3>1, <1>1, <1>4, <1>6
    <2> QED  BY <2>1, <1>5, <1>6 DEF ReportedInputIsBuilt, Names, Entry
  <1>11. ~Dashboards => StaleOnlyByFailure'
    BY <1>1, <1>5 DEF StaleOnlyByFailure, OnListed, BuiltOn, Names, Entry
  <1> QED  BY <1>7, <1>8, <1>9, <1>10, <1>11 DEF IncrementalInv

(* A build is abandoned: its exception leaves the manifest alone.          *)
LEMMA BuildAbandoned ==
  ASSUME IncrementalInv, run' = "idle", outcome' = "error", todo' = {},
         recorder' = NoManifest, UNCHANGED <<input, published, seen>>
  PROVE  IncrementalInv'
  <1>1. /\ TypeOK /\ PastInv /\ (~Dashboards => StaleOnlyByFailure)
        /\ UNCHANGED <<listed, version, head, published, seen>>
    BY DEF IncrementalInv, input
  <1>2. /\ NoManifest \in Manifest /\ Names(NoManifest) = {}
        /\ \A c \in Component : Entry(NoManifest, c).commit = Absent /\ Absent <= head[c]
    BY <1>1, FreshManifest DEF NoManifest, Absent, TypeOK
  <1>3. TypeOK'
    BY <1>1, <1>2 DEF TypeOK
  <1>4. PastInv'
    <2>1. ASSUME NEW m \in {published', recorder'}
          PROVE  Names(m) \subseteq listed' /\ \A c \in Component : Entry(m, c).commit <= head'[c]
      BY <1>1, <1>2 DEF PastInv
    <2> QED  BY <2>1, <1>1 DEF PastInv, Names, Entry
  <1> QED  BY <1>1, <1>3, <1>4 DEF IncrementalInv, RunningInv, ReportedInputIsBuilt, Reported,
                                   StaleOnlyByFailure, OnListed, BuiltOn, Names, Entry

(* The next component is built, or fails.                                  *)
LEMMA BuildSteps ==
  ASSUME IncrementalInv, BuildSucceeds \/ BuildFails
  PROVE  IncrementalInv'
  <1> DEFINE c == NextComponent
  <1>1. /\ run # "idle" /\ todo # {} /\ todo \subseteq Component
        /\ recorder \in Manifest /\ head \in [Component -> Nat]
    BY DEF BuildSucceeds, BuildFails, IncrementalInv, TypeOK
  <1>2. c \in Component
    BY <1>1, NextIsFirst
  <1>3. UNCHANGED <<input, published, seen>>
    BY DEF BuildSucceeds, BuildFails
  <1> HIDE DEF c
  <1>4. CASE BuildSucceeds
    <2>1. /\ recorder' = WithComponent(recorder, c) /\ todo' = todo \ {c}
          /\ UNCHANGED <<run, failures, outcome>>
      BY <1>4 DEF BuildSucceeds, c
    <2>2. Recorded(recorder, recorder', c)
      BY <1>1, <1>2, <2>1, BuildIsRecorded
    <2> QED  BY <1>1, <1>3, <2>1, <2>2, BuildGoesOn DEF c
  <1>5. CASE BuildFails /\ ContinueOnError /\ c \notin Required
    <2>1. /\ \E m \in {recorder, WithComponent(recorder, c)} :
               recorder' = [m EXCEPT !.suspects = @ \cup {c}]
          /\ failures' = failures \cup {c} /\ todo' = todo \ {c}
          /\ UNCHANGED <<run, outcome>>
      BY <1>5 DEF BuildFails, c
    <2>2. Recorded(recorder, recorder', c)
      BY <1>1, <1>2, <2>1, BuildIsRecorded
    <2>3. failures' # {}
      BY <2>1
    <2> QED  BY <1>1, <1>3, <2>1, <2>2, <2>3, BuildGoesOn DEF c
  <1>6. CASE BuildFails /\ ~(ContinueOnError /\ c \notin Required)
    <2>1. run' = "idle" /\ outcome' = "error" /\ todo' = {} /\ recorder' = NoManifest
      BY <1>6 DEF BuildFails, c
    <2> QED  BY <1>3, <2>1, BuildAbandoned
  <1> QED  BY <1>4, <1>5, <1>6

(* The manifest of a finished build is written.                            *)
LEMMA BuildFinishes ==
  ASSUME IncrementalInv, Finish
  PROVE  IncrementalInv'
  <1>1. /\ TypeOK /\ PastInv /\ RunningInv
        /\ run # "idle" /\ todo = {} /\ recorder \in Manifest
        /\ seen.listed = listed
    BY DEF IncrementalInv, Finish, TypeOK, PastInv
  <1>2. /\ published' = recorder /\ run' = "idle" /\ recorder' = NoManifest
        /\ outcome' \in {"clean", "partial"} /\ (outcome' = "clean" => failures = {})
        /\ UNCHANGED <<listed, version, head, todo, seen>>
    BY DEF Finish, input
  <1>3. /\ NoManifest \in Manifest /\ Names(NoManifest) = {}
        /\ \A c \in Component : Entry(NoManifest, c).commit = Absent /\ Absent <= head[c]
    BY <1>1, FreshManifest DEF NoManifest, Absent, TypeOK
  <1>4. TypeOK'
    BY <1>1, <1>2, <1>3 DEF TypeOK
  <1>5. PastInv'
    <2>1. ASSUME NEW m \in {published', recorder'}
          PROVE  Names(m) \subseteq listed' /\ \A c \in Component : Entry(m, c).commit <= head'[c]
      BY <1>1, <1>2, <1>3 DEF PastInv
    <2> QED  BY <2>1, <1>1, <1>2 DEF PastInv, Names, Entry
  <1>6. Names(published)' = Names(recorder) /\ \A c : Entry(published, c)' = Entry(recorder, c)
    BY <1>2 DEF Names, Entry
  <1>7. ReportedInputIsBuilt'
    BY <1>1, <1>2, <1>6 DEF ReportedInputIsBuilt, Reported, RunningInv, NewEnough
  <1>8. ~Dashboards => StaleOnlyByFailure'
    BY <1>1, <1>2, <1>6 DEF StaleOnlyByFailure, RunningInv, OnEntries, OnListed, BuiltOn
  <1> QED  BY <1>2, <1>4, <1>5, <1>7, <1>8 DEF IncrementalInv, RunningInv

(* Every step preserves the invariant.                                     *)
LEMMA NextIncremental ==
  ASSUME IncrementalInv, [Next]_vars
  PROVE  IncrementalInv'
  <1>1. CASE UNCHANGED vars
    BY <1>1 DEF vars, input, build, IncrementalInv, TypeOK, PastInv, RunningInv,
                ReportedInputIsBuilt, Reported, StaleOnlyByFailure, OnListed, NewEnough,
                OnEntries, BuiltOn, Names, Entry
  <1>2. CASE Next
    BY <1>2, WorldMoves, FullBuildStarts, IncrementalBuildStarts, BuildSteps, BuildFinishes
       DEF Next
  <1> QED  BY <1>1, <1>2

-----------------------------------------------------------------------------
(* Every series of builds keeps the invariant.                             *)
THEOREM IncrementalConsistent == Spec => []IncrementalInv
  <1> QED  BY InitIncremental, NextIncremental, PTL DEF Spec

(* A build that reports no failure, or nothing to do, leaves a manifest in *)
(* which every component of its input is as new as the build found it.     *)
THEOREM ReportsAreTrue == Spec => []ReportedInputIsBuilt
  <1>1. IncrementalInv => ReportedInputIsBuilt
    BY DEF IncrementalInv
  <1> QED  BY <1>1, IncrementalConsistent, PTL

(* But for OpenSearch Dashboards, whose core an incremental build rebuilds *)
(* and never compares again, a component that was not built on what is     *)
(* listed beside it is one that failed.                                    *)
THEOREM OnlyFailuresAreStale ==
  ASSUME ~Dashboards
  PROVE  Spec => []StaleOnlyByFailure
  <1>1. IncrementalInv => StaleOnlyByFailure
    BY DEF IncrementalInv
  <1> QED  BY <1>1, IncrementalConsistent, PTL

(* A build replaces the manifest only at its end, and an incremental one   *)
(* keeps every entry or replaces it by one as new as the build found the   *)
(* repository.                                                             *)
THEOREM TheRestIsKept == Spec => UnmodifiedComponentsStay
  <1> DEFINE Kept ==
        published' # published =>
          /\ outcome' \in {"clean", "partial"}
          /\ run = "incremental" =>
               \A c \in Names(published) :
                 /\ c \in Names(published')
                 /\ Entry(published', c) = Entry(published, c)
                      \/ Entry(published', c).commit >= seen.head[c]
  <1>1. IncrementalInv /\ [Next]_vars => [Kept]_vars
    <2> SUFFICES ASSUME IncrementalInv, Next, published' # published
                 PROVE  Kept
      OBVIOUS
    <2>1. Finish
      BY DEF Next, PushCommit, AddToInput, IncrementVersion, StartFull, StartIncremental,
             BuildSucceeds, BuildFails
    <2>2. run # "idle" /\ published' = recorder /\ outcome' \in {"clean", "partial"}
      BY <2>1 DEF Finish
    <2> QED  BY <2>2 DEF IncrementalInv, RunningInv
  <1> QED  BY <1>1, IncrementalConsistent, PTL DEF Spec, UnmodifiedComponentsStay

(* Right after a build that reported no failure, an incremental build has  *)
(* nothing to do, as long as the version of the input manifest stays.      *)
THEOREM NothingIsRebuiltTwice == Spec => UnchangedVersionIsSkipped
  <1>1. IncrementalInv /\ UpToDate /\ published.version = version /\ StartIncremental
          => outcome' = "skipped"
    <2> SUFFICES ASSUME IncrementalInv, UpToDate, published.version = version,
                        StartIncremental
                 PROVE  outcome' = "skipped"
      OBVIOUS
    <2>1. /\ TypeOK /\ PastInv /\ ReportedInputIsBuilt /\ Reported
          /\ listed \subseteq Component /\ Core \in listed /\ version \in Nat
          /\ seen.listed = listed /\ seen.head = head
      BY DEF IncrementalInv, UpToDate, Snapshot, TypeOK
    <2>2. published # NoManifest
      <3>1. NoManifest.version = -1
        BY FreshManifest DEF NoManifest, Absent
      <3> QED  BY <2>1, <3>1
    <2>3. ASSUME NEW c \in listed
          PROVE  c \in Names(published) /\ Entry(published, c).commit = head[c]
      <3>1. /\ c \in Component /\ c \in Names(published)
            /\ Entry(published, c).commit >= head[c] /\ Entry(published, c).commit <= head[c]
        BY <2>1 DEF ReportedInputIsBuilt, PastInv
      <3>2. Entry(published, c).commit \in Int /\ head[c] \in Int
        BY <2>1, <3>1 DEF TypeOK, Manifest, ManifestEntry, Entry
      <3> QED  BY <3>1, <3>2
    <2>4. CommitsDiff = {}
      BY <2>3 DEF CommitsDiff
    <2>5. RebuildPlugins({}) = {}
      BY DEF RebuildPlugins
    <2> QED  BY <2>2, <2>4, <2>5 DEF StartIncremental
  <1> QED  BY <1>1, IncrementalConsistent, PTL DEF UnchangedVersionIsSkipped

=============================================================================
