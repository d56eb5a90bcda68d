--------------------------- MODULE ManifestUpdates ---------------------------
(***************************************************************************)
(* The input manifests of new versions: `./manifests.sh update`            *)
(* (manifests_workflow/input_manifests.py), run every night by             *)
(* manifests-update.yml on a checkout of main, and the pull request that   *)
(* brings what it wrote back to main.                                      *)
(*                                                                         *)
(* Next to it act the people who bump the version of a product's branch,   *)
(* and those who edit main itself, in changes of their own: they write a   *)
(* manifest by hand, take an entry out of a schedule, or retire a manifest *)
(* to legacy-manifests/.                                                   *)
(***************************************************************************)
EXTENDS Integers, Sequences, FiniteSets, SequencesExt

CONSTANTS
  Families,      \* the products, in the order in which they are updated
  Branches,      \* of a product's core repository, in sorted order
  MinorOf,       \* of each branch: the minor version it is bound to, or 0
  FirstVersion,  \* of each branch: 10 * its minor version + its patch
  LastVersion,   \* bound: of each branch, the version it is bumped to at most
  MaxRuns,       \* bound: on the runs of the workflow
  MaxEdits       \* bound: on the edits people make to main

ASSUME ManifestUpdatesAssumption ==
  /\ MaxRuns \in Nat /\ MaxEdits \in Nat
  /\ Families \in Seq(ToSet(Families)) /\ "opensearch" \in ToSet(Families)
  /\ Branches \in Seq(ToSet(Branches))
  /\ FirstVersion \in [ToSet(Branches) -> Nat]
  /\ \A b \in DOMAIN MinorOf :
       MinorOf[b] = 0 \/ MinorOf[b] = FirstVersion[b] \div 10

Minor(v) == v \div 10

VARIABLES
  heads,      \* of each product and branch: the version in its sources
  trunk,      \* the main branch of this repository: see Content
  dropped,    \* the entries people took out of it, or did not give their manifests
  edits,      \* how often people edited it
  basis,      \* the commit of main the workflow checked out
  checkout,   \* what `./manifests.sh update` works on
  family,     \* the index of the product it has come to, or 0
  scanned,    \* whether that product's branches have been read
  pending,    \* the versions of that product it still has to write, with their branches
  proposal,   \* the open pull request, if there is one: see Proposal
  updates     \* the runs so far

manifestVars == <<heads, trunk, dropped, edits, basis, checkout, family, scanned, pending,
                  proposal, updates>>
main == <<trunk, dropped, edits>>

(* current and legacy: the input manifests, as the components' ref and the *)
(* manifest they were derived from; cron, snapshots and increments: the    *)
(* entries of check-for-build, of publish-min-snapshots and of the version *)
(* increment workflows.                                                    *)
Content(current, legacy, cron, snapshots, increments) ==
  [current |-> current, legacy |-> legacy, cron |-> cron,
   snapshots |-> snapshots, increments |-> increments]

(* What the pull request was computed from, and what it holds.             *)
Proposal(base, content) == [base |-> base, content |-> content]

ManifestInit ==
  /\ heads = [f \in ToSet(Families) |-> FirstVersion]
  /\ trunk = Content([f \in ToSet(Families) |-> <<>>], [f \in ToSet(Families) |-> {}],
                     <<>>, <<>>, <<>>)
  /\ dropped = [cron |-> {}, snapshots |-> {}, increments |-> {}] /\ edits = 0
  /\ basis = trunk /\ checkout = trunk
  /\ family = 0 /\ scanned = FALSE /\ pending = <<>>
  /\ proposal = <<>>
  /\ updates = 0

-----------------------------------------------------------------------------
(* A product's branch is bumped: main to the next minor version, the       *)
(* branch of a minor version to the next patch.                            *)
BumpVersion(f, b) ==
  LET v == heads[f][b]  next == IF MinorOf[b] = 0 THEN 10 * (Minor(v) + 1) ELSE v + 1 IN
  /\ next <= LastVersion[b]
  /\ heads' = [heads EXCEPT ![f][b] = next]
  /\ UNCHANGED <<main, basis, checkout, family, scanned, pending, proposal, updates>>

CronEntry(f, v) == [family |-> f, version |-> v]

(* People edit main: one change at a time, whatever the workflow is at.    *)
EditMain ==
  /\ edits < MaxEdits /\ edits' = edits + 1
  /\ UNCHANGED <<heads, basis, checkout, family, scanned, pending, proposal, updates>>

ByHand == -1

(* A manifest for the version of a branch, without any entry.              *)
WriteByHand(f, b) ==
  LET v == heads[f][b] IN
  /\ v \notin DOMAIN trunk.current[f] \cup trunk.legacy[f]
  /\ trunk' = [trunk EXCEPT !.current[f] =
       [u \in DOMAIN @ \cup {v} |-> IF u = v THEN [ref |-> b, from |-> ByHand] ELSE @[u]]]
  /\ dropped' = [cron |-> dropped.cron \cup {CronEntry(f, v)},
                 snapshots |-> dropped.snapshots \cup (IF f = "opensearch" THEN {v} ELSE {}),
                 increments |-> dropped.increments \cup {Minor(v)}]
  /\ EditMain

(* What is stopped or retired is months old: no run that started without   *)
(* it is going on, and no pull request that adds it is left open.          *)
Knows(content, f, v) == v \in DOMAIN content.current[f] \cup content.legacy[f]
OldEnough(f, v) ==
  /\ family > 0 => Knows(basis, f, v)
  /\ \A p \in ToSet(proposal) : Knows(p.base, f, v)

(* The entries of a file that are in S, in their order.                    *)
Kept(s, S) ==
  LET places == {i \in DOMAIN s : s[i] \in S}
      Place(k) == CHOOSE i \in places : Cardinality({j \in places : j <= i}) = k
  IN  [k \in 1 .. Cardinality(places) |-> s[Place(k)]]
Without(s, x) == Kept(s, ToSet(s) \ {x})

StopNightly(f, v) ==
  /\ CronEntry(f, v) \in ToSet(trunk.cron) /\ OldEnough(f, v)
  /\ trunk' = [trunk EXCEPT !.cron = Without(@, CronEntry(f, v))]
  /\ dropped' = [dropped EXCEPT !.cron = @ \cup {CronEntry(f, v)}]
  /\ EditMain

StopSnapshots(v) ==
  /\ v \in ToSet(trunk.snapshots) /\ OldEnough("opensearch", v)
  /\ trunk' = [trunk EXCEPT !.snapshots = Without(@, v)]
  /\ dropped' = [dropped EXCEPT !.snapshots = @ \cup {v}]
  /\ EditMain

StopIncrements(minor) ==
  /\ minor \in ToSet(trunk.increments)
  /\ trunk' = [trunk EXCEPT !.increments = Without(@, minor)]
  /\ dropped' = [dropped EXCEPT !.increments = @ \cup {minor}]
  /\ EditMain

(* The manifests of a released version move; entries stay as they are.     *)
RetireVersion(f, v) ==
  /\ v \in DOMAIN trunk.current[f] /\ OldEnough(f, v)
  /\ trunk' = [trunk EXCEPT
       !.current[f] = [u \in DOMAIN @ \ {v} |-> @[u]],
       !.legacy[f] = @ \cup {v}]
  /\ UNCHANGED dropped
  /\ EditMain

PeopleEdit ==
  \/ \E f \in ToSet(Families) :
       \/ \E b \in ToSet(Branches) : WriteByHand(f, b)
       \/ \E v \in DOMAIN trunk.current[f] : RetireVersion(f, v)
  \/ \E e \in ToSet(trunk.cron) : StopNightly(e.family, e.version)
  \/ \E v \in ToSet(trunk.snapshots) : StopSnapshots(v)
  \/ \E minor \in ToSet(trunk.increments) : StopIncrements(minor)

-----------------------------------------------------------------------------
(* The workflow checks main out; one run at a time.                        *)
StartUpdate ==
  /\ family = 0
  /\ updates < MaxRuns
  /\ updates' = updates + 1
  /\ basis' = trunk /\ checkout' = trunk
  /\ family' = 1 /\ scanned' = FALSE
  /\ UNCHANGED <<heads, main, pending, proposal>>

Family == Families[family]

(* Fault: what was retired is forgotten.                                   *)
KnownCurrent(f) == DOMAIN checkout.current[f]

Known(f) == DOMAIN checkout.current[f] \cup checkout.legacy[f]

(* Branches with manifests in legacy-manifests/ alone are not maintained.  *)
Maintained(f) ==
  LET legacy == {Minor(v) : v \in checkout.legacy[f]}
                  \ {Minor(v) : v \in DOMAIN checkout.current[f]} IN
  {b \in ToSet(Branches) : MinorOf[b] \notin legacy}

(* The versions no manifest is known of, and the first branch at each.     *)
NewVersions(f) ==
  {heads[f][b] : b \in Maintained(f)} \ Known(f)

BranchOf(f, v) ==
  LET at == {i \in DOMAIN Branches : Branches[i] \in Maintained(f) /\ heads[f][Branches[i]] = v}
  IN  Branches[CHOOSE i \in at : \A j \in at : i <= j]

(* The branches of the product are cloned and their versions read.         *)
Scan ==
  /\ family > 0 /\ ~scanned /\ scanned' = TRUE
  /\ pending' = [v \in NewVersions(Family) |-> BranchOf(Family, v)]
  /\ UNCHANGED <<heads, main, basis, checkout, family, proposal, updates>>

Template == 0

(* create_manifest(): from the manifest of the highest version before.     *)
Predecessor(f, v) ==
  LET before == {u \in Known(f) : u < v} IN
  IF before = {} THEN Template ELSE CHOOSE u \in before : \A w \in before : w <= u

WriteManifest(f, v) ==
  [checkout.current EXCEPT ![f] =
     [u \in DOMAIN @ \cup {v} |->
        IF u = v THEN [ref |-> pending[v], from |-> Predecessor(f, v)] ELSE @[u]]]

AddToCron(f, v) == <<CronEntry(f, v)>> \o checkout.cron
AddToSnapshots(f, v) ==
  IF f = "opensearch" THEN <<v>> \o checkout.snapshots ELSE checkout.snapshots

AddToIncrements(v) ==
  IF Minor(v) \in ToSet(checkout.increments) THEN checkout.increments
  ELSE Append(checkout.increments, Minor(v))

(* An entry that is already there is an error.                             *)
EntryExists(f, v) ==
  \/ CronEntry(f, v) \in ToSet(checkout.cron)
  \/ f = "opensearch" /\ v \in ToSet(checkout.snapshots)

(* The lowest version comes first.                                         *)
AddVersion ==
  /\ family > 0
  /\ \E v \in DOMAIN pending :
       /\ \A u \in DOMAIN pending : v <= u
       /\ ~EntryExists(Family, v)
       /\ checkout' = Content(WriteManifest(Family, v), checkout.legacy,
                              AddToCron(Family, v), AddToSnapshots(Family, v),
                              AddToIncrements(v))
       /\ pending' = [u \in DOMAIN pending \ {v} |-> pending[u]]
  /\ UNCHANGED <<heads, main, basis, family, scanned, proposal, updates>>

NextFamily ==
  /\ scanned /\ DOMAIN pending = {}
  /\ family < Len(Families)
  /\ family' = family + 1 /\ scanned' = FALSE
  /\ UNCHANGED <<heads, main, basis, checkout, pending, proposal, updates>>

(* A clone, gradle or an entry that exists raises: nothing is proposed.    *)
UpdateFails ==
  /\ family > 0 /\ (scanned => DOMAIN pending # {})
  /\ family' = 0 /\ scanned' = FALSE /\ pending' = <<>>
  /\ UNCHANGED <<heads, main, basis, checkout, proposal, updates>>

(* The difference to main becomes the content of the one pull request,     *)
(* whatever it held before.  Without a difference it stays as it is.       *)
OpenPullRequest ==
  /\ family = Len(Families) /\ scanned /\ DOMAIN pending = {}
  /\ proposal' = IF checkout = basis THEN proposal ELSE <<Proposal(basis, checkout)>>
  /\ family' = 0 /\ scanned' = FALSE
  /\ UNCHANGED <<heads, main, basis, checkout, pending, updates>>

(* Git merges what the pull request adds with what was removed from main   *)
(* since; two sides that both added at the same place, or both wrote one   *)
(* manifest, are in conflict (when they added the same, the pull request   *)
(* has nothing left to add).                                               *)
Mergeable(base, new) ==
  /\ ToSet(trunk.cron) \subseteq ToSet(base.cron)
  /\ ToSet(trunk.snapshots) \subseteq ToSet(base.snapshots)
  /\ ToSet(trunk.increments) \subseteq ToSet(base.increments)
  /\ \A f \in ToSet(Families) :
       (DOMAIN new.current[f] \ DOMAIN base.current[f]) \cap DOMAIN trunk.current[f] = {}

(* What an update added in front of the old entries, or after them.        *)
Added(new, old) == SubSeq(new, 1, Len(new) - Len(old))
Appended(new, old) == SubSeq(new, Len(old) + 1, Len(new))

MergeProposal ==
  /\ proposal # <<>>
  /\ LET base == Head(proposal).base  new == Head(proposal).content IN
     /\ Mergeable(base, new)
     /\ trunk' = Content(
          [f \in ToSet(Families) |->
             [v \in (DOMAIN new.current[f] \ DOMAIN base.current[f])
                      \cup DOMAIN trunk.current[f] |->
                IF v \in DOMAIN trunk.current[f] THEN trunk.current[f][v]
                                                 ELSE new.current[f][v]]],
          trunk.legacy,
          Added(new.cron, base.cron) \o trunk.cron,
          Added(new.snapshots, base.snapshots) \o trunk.snapshots,
          trunk.increments \o Appended(new.increments, base.increments))
  /\ proposal' = <<>>
  /\ UNCHANGED <<heads, dropped, edits, basis, checkout, family, scanned, pending, updates>>

ClosePullRequest ==
  /\ proposal # <<>> /\ proposal' = <<>>
  /\ UNCHANGED <<heads, main, basis, checkout, family, scanned, pending, updates>>

ManifestNext ==
  \/ \E f \in ToSet(Families), b \in ToSet(Branches) : BumpVersion(f, b)
  \/ PeopleEdit
  \/ StartUpdate \/ Scan \/ AddVersion \/ NextFamily \/ UpdateFails
  \/ OpenPullRequest \/ MergeProposal \/ ClosePullRequest

ManifestSpec == ManifestInit /\ [][ManifestNext]_manifestVars

-----------------------------------------------------------------------------
(* However runs, merges, bumps and the edits people make interleave: each  *)
(* manifest, current or retired, has one nightly build and, if it is       *)
(* OpenSearch's, one snapshot build, except what people took out or left   *)
(* out, which never comes back; nothing else is scheduled; no minor        *)
(* version is incremented twice, or lost; and a retired version never gets *)
(* a manifest again, also while a branch still has that version.           *)
VersionsAreScheduledOnce ==
  LET current(f) == DOMAIN trunk.current[f]
      versions(f) == current(f) \cup trunk.legacy[f] IN
  /\ \A f \in ToSet(Families) : current(f) \cap trunk.legacy[f] = {}
  /\ IsInjective(trunk.cron) /\ IsInjective(trunk.snapshots) /\ IsInjective(trunk.increments)
  /\ ToSet(trunk.cron) =
       (UNION {{CronEntry(f, v) : v \in versions(f)} : f \in ToSet(Families)}) \ dropped.cron
  /\ ToSet(trunk.snapshots) = versions("opensearch") \ dropped.snapshots
  /\ \A f \in ToSet(Families) : \A v \in current(f) :
       Minor(v) \in ToSet(trunk.increments) \cup dropped.increments

=============================================================================
