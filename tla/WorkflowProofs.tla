--------------------------- MODULE WorkflowProofs ---------------------------
(***************************************************************************)
(* Proofs about the workflows that act on what was built, one after the    *)
(* other, for every input they accept: its signing, its benchmarks, its    *)
(* promotion, the issues of its test results and its validation.           *)
(***************************************************************************)
EXTENDS SignRun, BenchmarkRun, ReleasePromotion, ResultIssues, ValidationRun,
        FiniteSetTheorems, SequenceTheorems, WellFoundedInduction, TLAPS

-----------------------------------------------------------------------------
(* SignRun.                                                                *)

FileName == [artifact : Artifacts, prefixes : Nat]
Running == {"next", "client", "convert", "verify", "over"}

(* What SignedAsAsked asks of one file.                                    *)
SignedNow(f) ==
  IF Signs.platform = "linux"
    THEN /\ OfType(f, Signs.sigtype) = {Signature(f, Signs.sigtype, contents[f])}
         /\ Signs.sigtype = ".asc" => OfType(f, ".sig") = {}
    ELSE LET out == IF Signs.overwrite THEN f ELSE SignedCopy(f) IN
         /\ out \in DOMAIN contents
         /\ contents[out].build = contents[f].build
         /\ contents[out].seals > 0

(* The tree holds files of the artifacts, and a run has a request.         *)
SignTypeOK ==
  /\ DOMAIN contents \subseteq FileName
  /\ contents \in [DOMAIN contents -> [build : Nat, seals : Nat]]
  /\ \A a \in Artifacts : File(a, 0) \in DOMAIN contents
  /\ signing \in [step : Running \cup {"none", "failed"}, request : SignRequest \cup {<<>>},
                  targets : SUBSET FileName, todo : SUBSET FileName,
                  file : FileName \cup {<<>>}]
  /\ signing.step \in Running =>
       /\ Signs \in SignRequest
       /\ signing.todo \subseteq signing.targets /\ signing.targets \subseteq DOMAIN contents
       /\ signing.step \in {"client", "convert", "verify"} => Current \in DOMAIN contents

(* What the run has come past is signed.                                   *)
PassedInv ==
  signing.step \in Running =>
    /\ \A f \in signing.targets :
         \/ f.prefixes # 0 \/ ~Accepts(Signs.platform, f) \/ f \in signing.todo
         \/ signing.step \in {"client", "convert"} /\ f = Current
         \/ SignedNow(f)
    /\ signing.step = "convert" => Signs.platform = "linux" /\ Signs.sigtype = ".asc"
    /\ signing.step = "over" => signing.todo = {}

SignInv == SignTypeOK /\ PassedInv

(* The signatures of a file are those that name it.                        *)
LEMMA SignaturesByFile ==
  ASSUME NEW f, NEW g, f # g,
         \A s : s.file # g => (s \in signatures <=> s \in signatures')
  PROVE  \A type : OfType(f, type)' = OfType(f, type)
  BY DEF OfType

(* A copy has another name than what it is a copy of, and two files have   *)
(* different copies.                                                       *)
LEMMA CopiesDiffer ==
  ASSUME NEW f \in FileName
  PROVE  /\ SignedCopy(f) \in FileName /\ SignedCopy(f).prefixes = f.prefixes + 1
         /\ SignedCopy(f) # f
         /\ \A g \in FileName : SignedCopy(f) = SignedCopy(g) => f = g
  <1>1. \A g \in FileName :
          /\ g = [artifact |-> g.artifact, prefixes |-> g.prefixes]
          /\ g.artifact \in Artifacts /\ g.prefixes \in Nat
          /\ SignedCopy(g) = [artifact |-> g.artifact, prefixes |-> g.prefixes + 1]
    BY DEF FileName, SignedCopy
  <1>2. SignedCopy(f) \in FileName /\ SignedCopy(f).prefixes = f.prefixes + 1
    BY <1>1 DEF FileName
  <1>3. ASSUME NEW g \in FileName, SignedCopy(f) = SignedCopy(g)
        PROVE  f = g
    <2>1. /\ SignedCopy(f).artifact = f.artifact /\ SignedCopy(g).artifact = g.artifact
          /\ SignedCopy(f).prefixes = f.prefixes + 1 /\ SignedCopy(g).prefixes = g.prefixes + 1
          /\ f.prefixes \in Nat /\ g.prefixes \in Nat
      BY <1>1
    <2>2. f.artifact = g.artifact /\ f.prefixes = g.prefixes
      BY <1>3, <2>1
    <2> QED  BY <1>1, <2>2
  <1>4. SignedCopy(f) # f
    BY <1>1, <1>2
  <1> QED  BY <1>2, <1>3, <1>4

(* At first there is no run.                                               *)
LEMMA InitSigning == SignInit => SignInv
  <1> SUFFICES ASSUME SignInit PROVE SignInv
    OBVIOUS
  <1>1. /\ contents = [f \in {File(a, 0) : a \in Artifacts} |-> [build |-> 1, seals |-> 0]]
        /\ signing = [step |-> "none", request |-> <<>>, targets |-> {}, todo |-> {},
                      file |-> <<>>]
    BY DEF SignInit
  <1>2. {File(a, 0) : a \in Artifacts} \subseteq FileName
    BY DEF File, FileName
  <1>3. /\ contents \in [DOMAIN contents -> [build : Nat, seals : Nat]]
        /\ DOMAIN contents = {File(a, 0) : a \in Artifacts}
    BY <1>1
  <1> QED  BY <1>1, <1>2, <1>3 DEF SignInv, SignTypeOK, PassedInv, Running

(* Between two runs: an artifact is built again, or a run starts with all  *)
(* that it has to sign ahead of it.                                        *)
LEMMA SigningStarts ==
  ASSUME SignInv,
         (\E a \in Artifacts : Rebuild(a)) \/ (\E q \in SignRequests : StartSigning(q))
  PROVE  SignInv'
  <1>1. SignTypeOK
    BY DEF SignInv
  <1>2. ASSUME NEW a \in Artifacts, Rebuild(a)
        PROVE  SignInv'
    <2> DEFINE new == [build |-> contents[File(a, 0)].build + 1, seals |-> 0]
    <2>1. /\ contents' = [contents EXCEPT ![File(a, 0)] = new]
          /\ signing' = [signing EXCEPT !.step = "none"]
      BY <1>2 DEF Rebuild
    <2>2. new \in [build : Nat, seals : Nat]
      BY <1>1 DEF SignTypeOK
    <2> HIDE DEF new
    <2>3. /\ DOMAIN contents' = DOMAIN contents
          /\ contents' \in [DOMAIN contents' -> [build : Nat, seals : Nat]]
      BY <1>1, <2>1, <2>2 DEF SignTypeOK
    <2>4. signing'.step = "none"
      BY <1>1, <2>1 DEF SignTypeOK
    <2> QED  BY <1>1, <2>1, <2>3, <2>4 DEF SignInv, SignTypeOK, PassedInv, Running, File
  <1>3. ASSUME NEW q \in SignRequests, StartSigning(q)
        PROVE  SignInv'
    <2>1. /\ UNCHANGED <<contents, signatures>>
          /\ signing' = [step |-> IF ToSign(q) = {} THEN "over" ELSE "next", request |-> q,
                         targets |-> Targets(q), todo |-> ToSign(q), file |-> <<>>]
      BY <1>3 DEF StartSigning
    <2>2. /\ q \in SignRequest
          /\ ToSign(q) \subseteq Targets(q) /\ Targets(q) \subseteq DOMAIN contents
          /\ \A f \in Targets(q) : ~Accepts(q.platform, f) \/ f \in ToSign(q)
      BY SignAssumption DEF ToSign, Targets
    <2>3. /\ signing'.step = (IF ToSign(q) = {} THEN "over" ELSE "next")
          /\ Signs' = q /\ signing'.targets = Targets(q) /\ signing'.todo = ToSign(q)
      BY <2>1 DEF Signs
    <2>4. SignTypeOK'
      BY <1>1, <2>1, <2>2, <2>3 DEF SignTypeOK, Running, File
    <2>5. PassedInv'
      BY <2>2, <2>3 DEF PassedInv, Accepts
    <2> QED  BY <2>4, <2>5 DEF SignInv
  <1> QED  BY <1>2, <1>3

(* A run that fails promises nothing.                                      *)
LEMMA SigningFails ==
  ASSUME SignInv, FailSigning, contents' = contents
  PROVE  SignInv'
  <1>1. /\ SignTypeOK /\ signing' = [signing EXCEPT !.step = "failed"]
    BY DEF SignInv, FailSigning
  <1>2. signing'.step = "failed"
    BY <1>1 DEF SignTypeOK
  <1> QED  BY <1>1, <1>2 DEF SignInv, SignTypeOK, PassedInv, Running, File

(* While the contents stay, a file keeps its signature when only those of  *)
(* another one are touched.                                                *)
LEMMA StaysSigned ==
  ASSUME NEW f, NEW g, f # g, SignedNow(f), contents' = contents, Signs' = Signs,
         \A s : s.file # g => (s \in signatures <=> s \in signatures')
  PROVE  SignedNow(f)'
  <1>1. \A type : OfType(f, type)' = OfType(f, type)
    BY SignaturesByFile
  <1> QED  BY <1>1 DEF SignedNow, Signature, SignedCopy

(* An old signature goes before the next file is signed.                   *)
LEMMA NextFileTaken ==
  ASSUME SignInv, NEW g \in signing.todo, NextFile(g)
  PROVE  SignInv'
  <1>1. /\ SignTypeOK /\ PassedInv
        /\ signing.step = "next" /\ UNCHANGED contents
        /\ signing' = [signing EXCEPT !.step = "client", !.file = g, !.todo = @ \ {g}]
        /\ signatures' = signatures \/ signatures' = signatures \ OfType(g, ".sig")
    BY DEF SignInv, NextFile
  <1>2. /\ signing'.step = "client" /\ Signs' = Signs /\ Current' = g
        /\ signing'.todo = signing.todo \ {g} /\ signing'.targets = signing.targets
        /\ signing' \in [step : Running \cup {"none", "failed"},
                         request : SignRequest \cup {<<>>},
                         targets : SUBSET FileName, todo : SUBSET FileName,
                         file : FileName \cup {<<>>}]
    BY <1>1 DEF SignTypeOK, Signs, Current, Running
  <1>3. SignTypeOK'
    BY <1>1, <1>2 DEF SignTypeOK, Running, File
  <1>4. ASSUME NEW f \in signing.targets, f # g, SignedNow(f)
        PROVE  SignedNow(f)'
    <2>1. \A s : s.file # g => (s \in signatures <=> s \in signatures')
      BY <1>1 DEF OfType
    <2> QED  BY <1>1, <1>2, <1>4, <2>1, StaysSigned
  <1>5. PassedInv'
    BY <1>1, <1>2, <1>4 DEF PassedInv, Running, Accepts
  <1> QED  BY <1>3, <1>5 DEF SignInv

(* A step of the run that leaves the file it is at signed, or about to be, *)
(* and touches no other signature and nothing else.                        *)
LEMMA CurrentHandled ==
  ASSUME SignInv, signing.step \in {"client", "convert", "verify"},
         UNCHANGED <<contents, Current, Signs, signing.targets, signing.todo>>,
         NEW step \in {"convert", "verify"}, signing' = [signing EXCEPT !.step = step],
         \A s : s.file # Current => (s \in signatures <=> s \in signatures'),
         step = "convert" => Signs.platform = "linux" /\ Signs.sigtype = ".asc",
         step = "verify" => SignedNow(Current)'
  PROVE  SignInv'
  <1>1. /\ SignTypeOK /\ PassedInv
        /\ signing'.step = step /\ signing.step \in Running /\ step \in Running
    BY DEF SignInv, SignTypeOK, Running
  <1>2. SignTypeOK'
    BY <1>1 DEF SignTypeOK, Running, File
  <1>3. ASSUME NEW f \in signing.targets, f # Current, SignedNow(f)
        PROVE  SignedNow(f)'
    BY <1>3, StaysSigned
  <1>4. PassedInv'
    BY <1>1, <1>3 DEF PassedInv, Running, Accepts
  <1> QED  BY <1>2, <1>4 DEF SignInv

(* gpg signs into a file of its own, which may then be converted.          *)
LEMMA Detached ==
  ASSUME SignInv, Detach \/ ConvertToAsc
  PROVE  SignInv'
  <1> DEFINE c == Current
  <1>1. /\ SignTypeOK /\ PassedInv /\ UNCHANGED contents
        /\ signing.step \in {"client", "convert"} /\ signing.step \in Running
        /\ Signs.platform = "linux"
        /\ Signs \in SignRequest
    BY DEF SignInv, SignTypeOK, PassedInv, Running, Detach, ConvertToAsc
  <1>2. Signs.sigtype \in {".sig", ".asc"}
    BY <1>1 DEF SignRequest
  <1>3. ASSUME NEW step \in {"convert", "verify"}, signing' = [signing EXCEPT !.step = step]
        PROVE  UNCHANGED <<Current, Signs, signing.targets, signing.todo>>
    BY <1>1, <1>3 DEF SignTypeOK, Signs, Current
  <1>4. CASE FailSigning
    BY <1>1, <1>4, SigningFails
  <1>5. CASE Detach /\ ~FailSigning
    <2> DEFINE step == IF Signs.sigtype = ".asc" THEN "convert" ELSE "verify"
               new == Signature(c, ".sig", contents[c])
    <2>1. /\ signatures' = (signatures \ OfType(c, ".sig")) \cup {new}
          /\ signing' = [signing EXCEPT !.step = step]
          /\ step \in {"convert", "verify"}
      BY <1>5 DEF Detach
    <2>2. new.file = c /\ new.type = ".sig"
      BY DEF Signature
    <2>3. UNCHANGED <<Current, Signs, signing.targets, signing.todo>>
      BY <1>3, <2>1
    <2> HIDE DEF new
    <2>4. \A s : s.file # c => (s \in signatures <=> s \in signatures')
      BY <2>1, <2>2 DEF OfType
    <2>5. OfType(c, ".sig")' = {new}
      BY <2>1, <2>2, <2>3 DEF OfType
    <2>6. step = "verify" => SignedNow(Current)'
      BY <1>1, <1>2, <2>3, <2>5 DEF SignedNow, new, Signature
    <2> HIDE DEF step
    <2>7. step = "convert" => Signs.platform = "linux" /\ Signs.sigtype = ".asc"
      BY <1>1 DEF step
    <2> QED  BY <1>1, <2>1, <2>3, <2>4, <2>6, <2>7, CurrentHandled
  <1>6. CASE ConvertToAsc /\ ~FailSigning
    <2> DEFINE new == Signature(c, ".asc", contents[c])
    <2>1. /\ signatures' =
               ((signatures \ OfType(c, ".asc")) \ OfType(c, ".sig")) \cup {new}
          /\ signing' = [signing EXCEPT !.step = "verify"]
          /\ signing.step = "convert"
      BY <1>6 DEF ConvertToAsc
    <2>2. new.file = c /\ new.type = ".asc"
      BY DEF Signature
    <2>3. UNCHANGED <<Current, Signs, signing.targets, signing.todo>>
      BY <1>3, <2>1
    <2> HIDE DEF new
    <2>4. \A s : s.file # c => (s \in signatures <=> s \in signatures')
      BY <2>1, <2>2 DEF OfType
    <2>5. OfType(c, ".asc")' = {new} /\ OfType(c, ".sig")' = {}
      BY <2>1, <2>2, <2>3 DEF OfType
    <2>6. SignedNow(Current)'
      BY <1>1, <2>1, <2>3, <2>5 DEF SignedNow, new, Signature, PassedInv
    <2> QED  BY <1>1, <2>1, <2>3, <2>4, <2>6, CurrentHandled
  <1> QED  BY <1>4, <1>5, <1>6

(* The other signers put the seal into the artifact or into its copy.      *)
LEMMA Sealed ==
  ASSUME SignInv, Seal
  PROVE  SignInv'
  <1> DEFINE c == Current
             out == IF Signs.overwrite THEN c ELSE SignedCopy(c)
             sealed == [contents[c] EXCEPT !.seals = @ + 1]
  <1>1. /\ SignTypeOK /\ PassedInv /\ UNCHANGED signatures
        /\ signing.step = "client" /\ Signs.platform # "linux"
        /\ c \in DOMAIN contents /\ c \in FileName
        /\ contents[c] \in [build : Nat, seals : Nat]
        /\ signing.targets \subseteq DOMAIN contents /\ DOMAIN contents \subseteq FileName
    BY DEF SignInv, SignTypeOK, Running, Seal
  <1>2. CASE FailSigning /\ UNCHANGED contents
    BY <1>2, SigningFails
  <1>3. CASE /\ contents' = [f \in DOMAIN contents \cup {out} |->
                               IF f = out THEN sealed ELSE contents[f]]
             /\ signing' = [signing EXCEPT !.step = "verify"]
    <2>1. /\ signing'.step = "verify" /\ Signs' = Signs /\ Current' = Current
          /\ signing'.targets = signing.targets /\ signing'.todo = signing.todo
          /\ signing' \in [step : Running \cup {"none", "failed"},
                           request : SignRequest \cup {<<>>},
                           targets : SUBSET FileName, todo : SUBSET FileName,
                           file : FileName \cup {<<>>}]
      BY <1>1, <1>3 DEF SignTypeOK, Signs, Current, Running
    <2>2. /\ sealed \in [build : Nat, seals : Nat]
          /\ sealed.build = contents[c].build /\ sealed.seals > 0
      BY <1>1
    <2>3. out \in FileName
      BY <1>1, CopiesDiffer
    <2> HIDE DEF sealed, out
    <2>4. /\ DOMAIN contents' = DOMAIN contents \cup {out}
          /\ contents'[out] = sealed
          /\ \A f \in DOMAIN contents : f # out => contents'[f] = contents[f]
      BY <1>3
    <2>5. contents' \in [DOMAIN contents' -> [build : Nat, seals : Nat]]
      BY <1>1, <1>3, <2>2, <2>4 DEF SignTypeOK
    <2>6. SignTypeOK'
      BY <1>1, <2>1, <2>3, <2>4, <2>5 DEF SignTypeOK, Running, File
    <2>7. SignedNow(c)'
      <3>1. CASE Signs.overwrite
        BY <3>1, <1>1, <2>1, <2>2, <2>4 DEF SignedNow, out
      <3>2. CASE ~Signs.overwrite
        <4>1. out = SignedCopy(c) /\ out # c
          BY <3>2, <1>1, CopiesDiffer DEF out
        <4> QED  BY <3>2, <4>1, <1>1, <2>1, <2>2, <2>4 DEF SignedNow, SignedCopy
      <3> QED  BY <3>1, <3>2
    <2>8. ASSUME NEW f \in signing.targets, f # c, f.prefixes = 0, SignedNow(f)
          PROVE  SignedNow(f)'
      <3>1. f \in FileName /\ f \in DOMAIN contents
        BY <1>1
      <3>2. CASE Signs.overwrite
        BY <2>8, <3>1, <3>2, <1>1, <2>1, <2>4 DEF SignedNow, out
      <3>3. CASE ~Signs.overwrite
        <4>1. out = SignedCopy(c) /\ c.prefixes \in Nat /\ out.prefixes = c.prefixes + 1
          BY <3>3, <1>1, CopiesDiffer DEF out, FileName
        <4>2. f # out
          BY <2>8, <4>1
        <4>3. SignedCopy(f) # out
          BY <2>8, <3>1, <4>1, <1>1, CopiesDiffer
        <4>4. /\ SignedCopy(f) \in DOMAIN contents
              /\ contents[SignedCopy(f)].build = contents[f].build
              /\ contents[SignedCopy(f)].seals > 0
          BY <2>8, <3>3, <1>1 DEF SignedNow
        <4>5. SignedCopy(f)' = SignedCopy(f)
          BY DEF SignedCopy
        <4> QED  BY <3>1, <3>3, <4>2, <4>3, <4>4, <4>5, <1>1, <2>1, <2>4 DEF SignedNow
      <3> QED  BY <3>2, <3>3
    <2>9. PassedInv'
      BY <1>1, <2>1, <2>7, <2>8 DEF PassedInv, Running, Accepts
    <2> QED  BY <2>6, <2>9 DEF SignInv
  <1> QED  BY <1>2, <1>3 DEF Seal

(* The last file that is verified ends the run.                            *)
LEMMA Verified ==
  ASSUME SignInv, Verify
  PROVE  SignInv'
  <1>1. /\ SignTypeOK /\ PassedInv /\ UNCHANGED <<contents, signatures>>
        /\ signing.step = "verify"
    BY DEF SignInv, Verify
  <1>2. CASE FailSigning
    BY <1>1, <1>2, SigningFails
  <1>3. CASE ~FailSigning
    <2> DEFINE step == IF signing.todo = {} THEN "over" ELSE "next"
    <2>1. signing' = [signing EXCEPT !.step = step]
      BY <1>3 DEF Verify
    <2>2. step \in {"over", "next"} /\ (step = "over" => signing.todo = {})
      OBVIOUS
    <2> HIDE DEF step
    <2>3. /\ signing'.step = step /\ Signs' = Signs
          /\ signing'.targets = signing.targets /\ signing'.todo = signing.todo
          /\ signing' \in [step : Running \cup {"none", "failed"},
                           request : SignRequest \cup {<<>>},
                           targets : SUBSET FileName, todo : SUBSET FileName,
                           file : FileName \cup {<<>>}]
      BY <1>1, <2>1, <2>2 DEF SignTypeOK, Signs, Running
    <2>4. SignTypeOK'
      BY <1>1, <2>2, <2>3 DEF SignTypeOK, Running, File
    <2>5. \A f : SignedNow(f)' = SignedNow(f)
      BY <1>1, <2>3 DEF SignedNow, OfType, Signature, SignedCopy
    <2>6. PassedInv'
      BY <1>1, <2>2, <2>3, <2>5 DEF PassedInv, Running, Accepts
    <2> QED  BY <2>4, <2>6 DEF SignInv
  <1> QED  BY <1>2, <1>3

(* Every run over the tree keeps the invariant.                            *)
THEOREM SigningConsistent == SignSpec => []SignInv
  <1>1. SignInv /\ [SignNext]_signVars => SignInv'
    <2> SUFFICES ASSUME SignInv, [SignNext]_signVars PROVE SignInv'
      OBVIOUS
    <2>1. CASE UNCHANGED signVars
      BY <2>1 DEF signVars, SignInv, SignTypeOK, PassedInv, SignedNow, OfType, Signature,
                  SignedCopy, Signs, Current, Accepts, File
    <2>2. CASE SignNext
      BY <2>2, SigningStarts, NextFileTaken, Detached, Sealed, Verified, SigningFails
         DEF SignNext, KillSigning
    <2> QED  BY <2>1, <2>2
  <1> QED  BY <1>1, InitSigning, PTL DEF SignSpec

(* A signing run that ends well leaves every artifact of its target with   *)
(* the signature that was asked for, whatever earlier runs left behind.    *)
THEOREM SignaturesAreCurrent == SignSpec => []SignedAsAsked
  <1>1. SignInv => SignedAsAsked
    <2> SUFFICES ASSUME SignInv, signing.step = "over",
                        NEW f \in signing.targets, f.prefixes = 0, Accepts(Signs.platform, f)
                 PROVE  SignedNow(f)
      BY DEF SignedAsAsked, SignedNow
    <2> QED  BY DEF SignInv, PassedInv, Running
  <1> QED  BY <1>1, SigningConsistent, PTL

-----------------------------------------------------------------------------
(* BenchmarkRun.                                                           *)

BenchPhase == {"setup", "ask", "deploy", "endpoint", "health", "seed", "settings", "reverse",
               "test", "convert", "remove", "destroy", "cleanup", "over"}
BenchJob == [attempt : Nat, phase : BenchPhase, level : Nat, executions : Nat,
             passed : BOOLEAN, ok : BOOLEAN]

(* In these phases a job leaves the clusters it made, or has left them.    *)
Leaving == {"destroy", "cleanup", "over"}

(* How many clusters a job may have entered in each phase.                 *)
LevelFits(phase, level) ==
  /\ level \in 0 .. Len(Roles)
  /\ phase \in {"setup", "ask", "over"} => level = 0
  /\ phase = "ask" => Asked.endpoint
  /\ phase = "deploy" => level < Len(Roles) /\ (Asked.ccr \/ ~Asked.endpoint)
  /\ phase = "endpoint" => level > 0
  /\ phase \in {"seed", "settings", "reverse"} => Asked.ccr
  /\ (phase = "health" /\ ~Asked.ccr) \/ phase \in {"reverse", "test", "convert", "remove"} =>
       level = Len(Roles) \/ Asked.endpoint
  /\ phase = "cleanup" => ~Asked.ccr
  /\ ~Asked.ccr /\ Asked.endpoint => level = 0

(* No clean-up names these: the other stacks of the app, and a cluster     *)
(* that was deployed without a suffix.                                     *)
Unclaimed(s) == (s.suffix = NoSuffix /\ ~Asked.suffix) \/ s.part = "other"

(* Jobs belong to a request; a stack belongs to a job or is explained; with *)
(* suffixes of their own, jobs have the stacks they made.                  *)
BenchInv ==
  /\ request = <<>> \/ \E q \in BenchRequests : request = <<q>>
  /\ request = <<>> => DOMAIN jobs = {} /\ stacks = {}
  /\ attempt \in Nat
  /\ jobs \in [DOMAIN jobs -> BenchJob]
  /\ \A r \in DOMAIN jobs :
       /\ LevelFits(jobs[r].phase, jobs[r].level)
       /\ Asked.suffix => jobs[r].phase \in Leaving \/ StacksOf(r) \subseteq stacks
  /\ \A s \in stacks :
       Unclaimed(s) \/ s \in kept \cup leaked \cup UNION {StacksOf(r) : r \in DOMAIN jobs}

(* A job has one cluster, or two that replicate.                           *)
LEMMA RoleFacts ==
  /\ Len(Roles) = (IF Asked.ccr THEN 2 ELSE 1)
  /\ DOMAIN Roles = 1 .. Len(Roles)
  /\ ~Asked.ccr => Roles[1] = "only"
  /\ request' = request => Roles' = Roles /\ Asked' = Asked
  <1>1. request' = request => Roles' = Roles /\ Asked' = Asked
    BY DEF Roles, Asked
  <1>2. CASE Asked.ccr
    <2>1. Roles = <<"leader", "follower">>
      BY <1>2 DEF Roles
    <2> QED  BY <2>1, <1>1, <1>2
  <1>3. CASE ~Asked.ccr
    <2>1. Roles = <<"only">>
      BY <1>3 DEF Roles
    <2> QED  BY <2>1, <1>1, <1>3
  <1> QED  BY <1>2, <1>3

(* The stacks of a job with a suffix carry its row.                        *)
LEMMA OwnStacks ==
  ASSUME Asked.suffix, NEW r
  PROVE  /\ \A role : StackName(r, role).suffix.row = r
         /\ \A s \in StacksOf(r) : s.suffix.row = r
  BY DEF StacksOf, StackName, Suffix

(* A job that enters one level more has one stack more.                    *)
LEMMA OneMoreStack ==
  ASSUME NEW r, jobs[r].level \in Nat, jobs'[r].level = jobs[r].level + 1,
         jobs'[r].attempt = jobs[r].attempt, request' = request
  PROVE  StacksOf(r)' = StacksOf(r) \cup {StackName(r, Roles[jobs[r].level + 1])}
  <1> DEFINE n == jobs[r].level
  <1>1. 1 .. (n + 1) = (1 .. n) \cup {n + 1}
    OBVIOUS
  <1>2. \A i : StackName(r, Roles[i])' = StackName(r, Roles[i])
    BY RoleFacts DEF StackName, Suffix
  <1>3. StacksOf(r)' = {StackName(r, Roles[i]) : i \in 1 .. (n + 1)}
    BY <1>2 DEF StacksOf
  <1> HIDE DEF n
  <1>4. StacksOf(r) = {StackName(r, Roles[i]) : i \in 1 .. n}
    BY DEF StacksOf, n
  <1> QED  BY <1>1, <1>3, <1>4 DEF n

(* A job that leaves a level has one stack less.                           *)
LEMMA OneStackLess ==
  ASSUME NEW r, jobs[r].level \in Nat \ {0}, jobs'[r].level = jobs[r].level - 1,
         jobs'[r].attempt = jobs[r].attempt, request' = request
  PROVE  StacksOf(r) = StacksOf(r)' \cup {StackName(r, Roles[jobs[r].level])}
  <1> DEFINE n == jobs[r].level
  <1>1. 1 .. n = (1 .. n - 1) \cup {n}
    OBVIOUS
  <1>2. \A i : StackName(r, Roles[i])' = StackName(r, Roles[i])
    BY RoleFacts DEF StackName, Suffix
  <1>3. StacksOf(r)' = {StackName(r, Roles[i]) : i \in 1 .. n - 1}
    BY <1>2 DEF StacksOf
  <1>4. StacksOf(r) = {StackName(r, Roles[i]) : i \in 1 .. n}
    BY DEF StacksOf
  <1> HIDE DEF n
  <1> QED  BY <1>1, <1>3, <1>4 DEF n

(* A step of one job keeps the invariant if it keeps the job's part of it, *)
(* explains the stacks it deals with and takes no stack of another job.    *)
LEMMA JobSteps ==
  ASSUME BenchInv, NEW r \in DOMAIN jobs, NEW j \in BenchJob, jobs' = [jobs EXCEPT ![r] = j],
         request' = request, attempt' \in Nat, j.attempt = jobs[r].attempt,
         LevelFits(j.phase, j.level),
         Asked.suffix => j.phase \in Leaving \/ StacksOf(r)' \subseteq stacks',
         Asked.suffix => \A s \in stacks : s.suffix.row # r => s \in stacks',
         \A s \in stacks' :
           \/ Unclaimed(s) \/ s \in kept' \cup leaked' \cup StacksOf(r)'
           \/ s \in stacks /\ s \notin kept \cup leaked \cup StacksOf(r)
  PROVE  BenchInv'
  <1>1. /\ DOMAIN jobs' = DOMAIN jobs /\ jobs' \in [DOMAIN jobs' -> BenchJob]
        /\ jobs'[r] = j /\ \A o \in DOMAIN jobs : o # r => jobs'[o] = jobs[o]
        /\ request # <<>> /\ Asked' = Asked
    BY RoleFacts DEF BenchInv
  <1>2. \A phase, level : LevelFits(phase, level)' = LevelFits(phase, level)
    BY RoleFacts DEF LevelFits
  <1>3. \A o \in DOMAIN jobs : o # r => StacksOf(o)' = StacksOf(o)
    BY <1>1, RoleFacts DEF StacksOf, StackName, Suffix
  <1>4. ASSUME NEW o \in DOMAIN jobs
        PROVE  /\ LevelFits(jobs'[o].phase, jobs'[o].level)
               /\ Asked.suffix =>
                    jobs'[o].phase \in Leaving \/ StacksOf(o)' \subseteq stacks'
    <2>1. CASE o = r
      BY <2>1, <1>1
    <2>2. CASE o # r
      <3>1. Asked.suffix => \A s \in StacksOf(o) : s.suffix.row # r
        BY <2>2, OwnStacks
      <3> QED  BY <2>2, <3>1, <1>1, <1>3 DEF BenchInv
    <2> QED  BY <2>1, <2>2
  <1>5. ASSUME NEW s \in stacks', ~Unclaimed(s), s \notin kept' \cup leaked'
        PROVE  \E o \in DOMAIN jobs' : s \in StacksOf(o)'
    <2>1. CASE s \in StacksOf(r)'
      BY <2>1, <1>1
    <2>2. CASE s \notin StacksOf(r)'
      <3>1. s \in stacks /\ s \notin kept \cup leaked \cup StacksOf(r)
        BY <2>2, <1>5
      <3>2. PICK o \in DOMAIN jobs : s \in StacksOf(o)
        BY <3>1, <1>5 DEF BenchInv
      <3> QED  BY <3>1, <3>2, <1>1, <1>3
    <2> QED  BY <2>1, <2>2
  <1>6. \A s \in stacks' :
          Unclaimed(s)' \/ s \in kept' \cup leaked' \cup UNION {StacksOf(o)' : o \in DOMAIN jobs'}
    BY <1>1, <1>5 DEF Unclaimed, NoSuffix
  <1> QED  BY <1>1, <1>2, <1>4, <1>6 DEF BenchInv

(* Most steps only take the job to another phase.                          *)
LEMMA PhaseSteps ==
  ASSUME BenchInv, NEW r \in DOMAIN jobs, NEW j \in BenchJob, jobs' = [jobs EXCEPT ![r] = j],
         UNCHANGED <<request, attempt, stacks, kept, leaked>>,
         j.attempt = jobs[r].attempt, j.level = jobs[r].level,
         LevelFits(j.phase, j.level),
         j.phase \in Leaving \/ jobs[r].phase \notin Leaving
  PROVE  BenchInv'
  <1>1. jobs'[r] = j
    OBVIOUS
  <1>2. StacksOf(r)' = StacksOf(r)
    BY <1>1, RoleFacts DEF StacksOf, StackName, Suffix
  <1>3. request' = request /\ attempt' \in Nat
    BY DEF BenchInv
  <1>4. /\ Asked.suffix => \A s \in stacks : s.suffix.row # r => s \in stacks'
        /\ \A s \in stacks' :
             \/ Unclaimed(s) \/ s \in kept' \cup leaked' \cup StacksOf(r)'
             \/ s \in stacks /\ s \notin kept \cup leaked \cup StacksOf(r)
    BY <1>2
  <1>5. Asked.suffix => j.phase \in Leaving \/ StacksOf(r)' \subseteq stacks'
    BY <1>2 DEF BenchInv
  <1> QED  BY <1>3, <1>4, <1>5, JobSteps

(* At first nothing is asked for.                                          *)
LEMMA InitBenchmark == BenchInit => BenchInv
  <1> SUFFICES ASSUME BenchInit PROVE BenchInv
    OBVIOUS
  <1>1. /\ request = <<>> /\ attempt = 0 /\ DOMAIN jobs = {}
        /\ jobs \in [DOMAIN jobs -> BenchJob] /\ stacks = {}
    BY DEF BenchInit
  <1> QED  BY <1>1 DEF BenchInv

(* A run that starts, or starts again, begins its jobs without clusters.   *)
LEMMA NewJobs ==
  ASSUME NEW a \in Nat
  PROVE  /\ NewJob(a) \in BenchJob /\ NewJob(a).attempt = a
         /\ NewJob(a).phase = "setup" /\ NewJob(a).level = 0
         /\ LevelFits("setup", 0)
  <1>1. NewJob(a) \in BenchJob /\ NewJob(a).attempt = a
        /\ NewJob(a).phase = "setup" /\ NewJob(a).level = 0
    BY DEF NewJob, BenchJob, BenchPhase
  <1>2. LevelFits("setup", 0)
    BY RoleFacts DEF LevelFits
  <1> QED  BY <1>1, <1>2

(* The row of a run, or of one that is run again, starts from the outset.  *)
LEMMA RunStarts ==
  ASSUME BenchInv, (\E q \in BenchRequests : ResolveRun(q)) \/ RerunAll
  PROVE  BenchInv'
  <1> DEFINE Started ==
        /\ attempt' \in Nat /\ UNCHANGED <<stacks, kept, leaked>>
        /\ \E q \in BenchRequests : request' = <<q>>
        /\ \A r \in DOMAIN jobs' : jobs'[r] = NewJob(attempt')
        /\ jobs' = [r \in DOMAIN jobs' |-> NewJob(attempt')]
  <1>1. Started
    <2>1. ASSUME NEW q \in BenchRequests, ResolveRun(q)
          PROVE  Started
      BY <2>1 DEF ResolveRun, BenchInv
    <2>2. CASE RerunAll
      BY <2>2 DEF RerunAll, BenchInv
    <2> QED  BY <2>1, <2>2
  <1>2. jobs' \in [DOMAIN jobs' -> BenchJob]
    BY <1>1, NewJobs
  <1>3. ASSUME NEW r \in DOMAIN jobs'
        PROVE  /\ jobs'[r].phase = "setup" /\ jobs'[r].level = 0 /\ StacksOf(r)' = {}
    <2>1. jobs'[r].phase = "setup" /\ jobs'[r].level = 0
      BY <1>1, NewJobs
    <2> QED  BY <2>1 DEF StacksOf
  <1>4. LevelFits("setup", 0)'
    BY RoleFacts DEF LevelFits
  <1>5. \A s \in stacks : Unclaimed(s)' \/ s \in kept \cup leaked
    <2>1. CASE \E q \in BenchRequests : ResolveRun(q)
      BY <2>1 DEF ResolveRun, BenchInv
    <2>2. CASE RerunAll
      <3>1. \A r \in DOMAIN jobs : jobs[r].level = 0
        BY <2>2 DEF RerunAll, JobOver, BenchInv, LevelFits
      <3>2. \A r \in DOMAIN jobs : StacksOf(r) = {}
        BY <3>1 DEF StacksOf
      <3>3. \A s : Unclaimed(s)' = Unclaimed(s)
        BY <2>2, RoleFacts DEF RerunAll, Unclaimed, NoSuffix
      <3> QED  BY <3>2, <3>3 DEF BenchInv
    <2> QED  BY <2>1, <2>2
  <1> QED  BY <1>1, <1>2, <1>3, <1>4, <1>5 DEF BenchInv

(* A failed job starts again, with the suffix it had.                      *)
LEMMA JobStartsAgain ==
  ASSUME BenchInv, NEW r \in DOMAIN jobs, RerunBenchJob(r)
  PROVE  BenchInv'
  <1> DEFINE j == NewJob(jobs[r].attempt)
  <1>1. /\ jobs' = [jobs EXCEPT ![r] = j] /\ attempt' = attempt + 1 /\ attempt \in Nat
        /\ UNCHANGED <<request, stacks, kept, leaked>>
        /\ jobs[r].attempt \in Nat /\ jobs[r].level = 0
    BY DEF RerunBenchJob, JobOver, BenchInv, LevelFits, BenchJob
  <1>2. /\ j \in BenchJob /\ j.attempt = jobs[r].attempt /\ j.level = 0
        /\ LevelFits(j.phase, j.level)
    BY <1>1, NewJobs
  <1> HIDE DEF j
  <1>3. StacksOf(r) = {} /\ StacksOf(r)' = {}
    <2>1. jobs'[r] = j
      BY <1>1
    <2> QED  BY <1>1, <1>2, <2>1 DEF StacksOf
  <1>4. /\ request' = request /\ attempt' \in Nat
        /\ Asked.suffix => StacksOf(r)' \subseteq stacks'
        /\ Asked.suffix => \A s \in stacks : s.suffix.row # r => s \in stacks'
        /\ \A s \in stacks' :
             \/ Unclaimed(s) \/ s \in kept' \cup leaked' \cup StacksOf(r)'
             \/ s \in stacks /\ s \notin kept \cup leaked \cup StacksOf(r)
    BY <1>1, <1>3
  <1> QED  BY <1>1, <1>2, <1>4, JobSteps

(* A job, as the invariant knows it.                                       *)
LEMMA JobFacts ==
  ASSUME BenchInv, NEW r \in DOMAIN jobs
  PROVE  /\ jobs[r] \in BenchJob /\ jobs[r].level \in Nat
         /\ LevelFits(jobs[r].phase, jobs[r].level)
         /\ request # <<>> /\ Asked \in BenchRequest
  <1>1. jobs[r] \in BenchJob /\ LevelFits(jobs[r].phase, jobs[r].level) /\ request # <<>>
    BY DEF BenchInv
  <1>2. Asked \in BenchRequests
    BY <1>1 DEF BenchInv, Asked
  <1> QED  BY <1>1, <1>2, BenchmarkAssumption DEF BenchJob

(* The steps that leave the stacks alone, while the clusters are entered.  *)
LEMMA JobGoesOn ==
  ASSUME BenchInv, NEW r \in DOMAIN jobs,
         \/ SetUpJob(r) \/ AskCluster(r) \/ CreateEndpoint(r) \/ AwaitCluster(r)
         \/ FetchSeedNode(r) \/ ApplyLeaderSettings(r) \/ ApplyFollowerSettings(r)
         \/ ApplyReverseSettings(r)
  PROVE  BenchInv'
  <1>1. /\ jobs[r] \in BenchJob /\ jobs[r].level \in Nat
        /\ LevelFits(jobs[r].phase, jobs[r].level)
        /\ request # <<>> /\ Asked \in BenchRequest
    BY JobFacts
  <1>2. /\ UNCHANGED <<request, attempt, stacks, kept, leaked>>
        /\ jobs[r].phase \notin Leaving
        /\ \/ Unwind(r)
           \/ \E phase \in BenchPhase : Goto(r, phase) /\ LevelFits(phase, jobs[r].level)
    <2>1. CASE SetUpJob(r)
      <3> DEFINE phase == IF Asked.endpoint THEN "ask" ELSE "deploy"
      <3>1. jobs[r].phase = "setup" /\ (Goto(r, phase) \/ Unwind(r))
            /\ UNCHANGED <<request, attempt, stacks, kept, leaked>>
        BY <2>1 DEF SetUpJob
      <3>2. phase \in BenchPhase /\ LevelFits(phase, jobs[r].level)
        BY <3>1, <1>1, RoleFacts DEF LevelFits, BenchPhase
      <3> QED  BY <3>1, <3>2 DEF Leaving
    <2>2. CASE AskCluster(r)
      BY <2>2, <1>1, RoleFacts DEF AskCluster, Request, LevelFits, BenchPhase, Leaving
    <2>3. CASE CreateEndpoint(r) \/ AwaitCluster(r)
      BY <2>3, <1>1, RoleFacts
         DEF CreateEndpoint, AwaitCluster, Request, LevelFits, BenchPhase, Leaving
    <2>4. CASE FetchSeedNode(r) \/ ApplyLeaderSettings(r)
      BY <2>4, <1>1, RoleFacts
         DEF FetchSeedNode, ApplyLeaderSettings, Request, LevelFits, BenchPhase, Leaving
    <2>5. CASE ApplyFollowerSettings(r) \/ ApplyReverseSettings(r)
      BY <2>5, <1>1, RoleFacts
         DEF ApplyFollowerSettings, ApplyReverseSettings, Request, LevelFits, BenchPhase,
             Leaving
    <2> QED  BY <2>1, <2>2, <2>3, <2>4, <2>5
  <1>3. CASE Unwind(r)
    <2> DEFINE j == [jobs[r] EXCEPT !.phase = "destroy", !.ok = FALSE]
    <2>1. jobs' = [jobs EXCEPT ![r] = j]
      BY <1>3 DEF Unwind, BenchInv
    <2>2. /\ j \in BenchJob /\ j.phase = "destroy" /\ j.attempt = jobs[r].attempt
          /\ j.level = jobs[r].level
      BY <1>1 DEF BenchJob, BenchPhase
    <2>3. LevelFits("destroy", jobs[r].level)
      BY <1>1 DEF LevelFits
    <2> HIDE DEF j
    <2> QED  BY <1>2, <2>1, <2>2, <2>3, PhaseSteps DEF Leaving
  <1>4. ASSUME NEW phase \in BenchPhase, Goto(r, phase), LevelFits(phase, jobs[r].level)
        PROVE  BenchInv'
    <2> DEFINE j == [jobs[r] EXCEPT !.phase = phase]
    <2>1. jobs' = [jobs EXCEPT ![r] = j]
      BY <1>4 DEF Goto, BenchInv
    <2>2. /\ j \in BenchJob /\ j.phase = phase /\ j.attempt = jobs[r].attempt
          /\ j.level = jobs[r].level
      BY <1>1 DEF BenchJob
    <2> HIDE DEF j
    <2> QED  BY <1>2, <1>4, <2>1, <2>2, PhaseSteps
  <1> QED  BY <1>2, <1>3, <1>4

(* So do those of the benchmark itself, and a job that is cancelled, whose *)
(* clean-up only comes after one cluster.                                  *)
LEMMA JobTests ==
  ASSUME BenchInv, NEW r \in DOMAIN jobs,
         \/ RunBenchmark(r) \/ Convert(r) \/ RemoveContainer(r) \/ EndBenchJob(r)
         \/ CancelJob(r)
  PROVE  BenchInv'
  <1>1. /\ jobs[r] \in BenchJob /\ jobs[r].level \in Nat
        /\ LevelFits(jobs[r].phase, jobs[r].level)
        /\ Asked \in BenchRequest
    BY JobFacts
  <1> DEFINE Stepped ==
        \E j \in BenchJob :
          /\ jobs' = [jobs EXCEPT ![r] = j]
          /\ j.attempt = jobs[r].attempt /\ j.level = jobs[r].level
          /\ LevelFits(j.phase, j.level)
          /\ j.phase \in Leaving \/ jobs[r].phase \notin Leaving
  <1>2. Stepped
    <2>1. CASE RunBenchmark(r)
      <3>1. PICK passed \in BOOLEAN :
              jobs' = [jobs EXCEPT ![r].executions = @ + 1, ![r].passed = passed,
                         ![r].phase = IF passed /\ ~Asked.bundle THEN "convert" ELSE "remove"]
        BY <2>1 DEF RunBenchmark
      <3> DEFINE phase == IF passed /\ ~Asked.bundle THEN "convert" ELSE "remove"
                 j == [jobs[r] EXCEPT !.executions = @ + 1, !.passed = passed, !.phase = phase]
      <3>2. phase \in {"convert", "remove"} /\ LevelFits(phase, jobs[r].level)
            /\ jobs[r].phase \notin Leaving
        BY <2>1, <1>1 DEF RunBenchmark, LevelFits, Leaving
      <3> HIDE DEF phase
      <3>3. /\ j \in BenchJob /\ j.phase = phase /\ j.attempt = jobs[r].attempt
            /\ j.level = jobs[r].level
        <4>1. jobs[r].executions + 1 \in Nat /\ phase \in BenchPhase
          BY <1>1, <3>2 DEF BenchJob, BenchPhase
        <4> QED  BY <1>1, <4>1 DEF BenchJob
      <3>4. jobs' = [jobs EXCEPT ![r] = j]
        BY <3>1 DEF phase, BenchInv
      <3> HIDE DEF j
      <3> QED  BY <3>2, <3>3, <3>4
    <2>2. CASE Convert(r)
      <3>1. PICK passed \in BOOLEAN :
              jobs' = [jobs EXCEPT ![r].passed = passed, ![r].phase = "remove"]
        BY <2>2 DEF Convert
      <3> DEFINE j == [jobs[r] EXCEPT !.passed = passed, !.phase = "remove"]
      <3>2. LevelFits("remove", jobs[r].level) /\ jobs[r].phase \notin Leaving
        BY <2>2, <1>1 DEF Convert, LevelFits, Leaving
      <3>3. /\ j \in BenchJob /\ j.phase = "remove" /\ j.attempt = jobs[r].attempt
            /\ j.level = jobs[r].level
        BY <1>1 DEF BenchJob, BenchPhase
      <3>4. jobs' = [jobs EXCEPT ![r] = j]
        BY <3>1 DEF BenchInv
      <3> HIDE DEF j
      <3> QED  BY <3>2, <3>3, <3>4
    <2>3. ASSUME NEW phase \in BenchPhase, Goto(r, phase), LevelFits(phase, jobs[r].level),
                 phase \in Leaving \/ jobs[r].phase \notin Leaving
          PROVE  Stepped
      <3> DEFINE j == [jobs[r] EXCEPT !.phase = phase]
      <3>1. /\ j \in BenchJob /\ j.phase = phase /\ j.attempt = jobs[r].attempt
            /\ j.level = jobs[r].level
        BY <1>1 DEF BenchJob
      <3>2. jobs' = [jobs EXCEPT ![r] = j]
        BY <2>3 DEF Goto, BenchInv
      <3> HIDE DEF j
      <3> QED  BY <2>3, <3>1, <3>2
    <2>4. ASSUME NEW phase \in {"destroy", "cleanup"}, LevelFits(phase, jobs[r].level),
                 jobs' = [jobs EXCEPT ![r].phase = phase, ![r].ok = FALSE]
          PROVE  Stepped
      <3> DEFINE j == [jobs[r] EXCEPT !.phase = phase, !.ok = FALSE]
      <3>1. /\ j \in BenchJob /\ j.phase = phase /\ j.attempt = jobs[r].attempt
            /\ j.level = jobs[r].level
        BY <1>1 DEF BenchJob, BenchPhase
      <3>2. jobs' = [jobs EXCEPT ![r] = j]
        BY <2>4 DEF BenchInv
      <3> HIDE DEF j
      <3> QED  BY <2>4, <3>1, <3>2 DEF Leaving
    <2>5. LevelFits("destroy", jobs[r].level) /\ {"test", "destroy", "over"} \subseteq BenchPhase
      BY <1>1 DEF LevelFits, BenchPhase
    <2>6. CASE RemoveContainer(r)
      <3>1. jobs[r].phase = "remove" /\ (Goto(r, "destroy") \/ Goto(r, "test") \/ Unwind(r))
        BY <2>6 DEF RemoveContainer
      <3>2. LevelFits("test", jobs[r].level)
        BY <3>1, <1>1 DEF LevelFits
      <3> QED  BY <3>1, <3>2, <2>3, <2>4, <2>5 DEF Unwind, Leaving
    <2>7. CASE EndBenchJob(r)
      <3>1. LevelFits("over", jobs[r].level) /\ Goto(r, "over")
        BY <2>7, <1>1 DEF EndBenchJob, LevelFits
      <3> QED  BY <3>1, <2>3, <2>5 DEF Leaving
    <2>8. CASE CancelJob(r)
      <3>1. CASE ByTestSh
        BY <3>1, <2>4, <2>5, <2>8 DEF CancelJob, Unwind
      <3>2. CASE ~ByTestSh
        <4>1. LevelFits("cleanup", jobs[r].level)
          BY <3>2, <1>1 DEF LevelFits, ByTestSh
        <4> QED  BY <3>2, <4>1, <2>4, <2>8 DEF CancelJob
      <3> QED  BY <3>1, <3>2
    <2> QED  BY <2>1, <2>2, <2>6, <2>7, <2>8
  <1>3. UNCHANGED <<request, attempt, stacks, kept, leaked>>
    BY DEF RunBenchmark, Convert, RemoveContainer, EndBenchJob, CancelJob
  <1> QED  BY <1>2, <1>3, PhaseSteps

(* What is deployed is named by the job, or claimed by nobody.             *)
LEMMA DeployedNames ==
  ASSUME NEW r, NEW role
  PROVE  /\ Asked.suffix => DeployedName(r, role) = StackName(r, role)
         /\ DeployedName(r, role) = StackName(r, role) \/ Unclaimed(DeployedName(r, role))
         /\ DeployedName(r, role) \in AppStacks(r, role)
         /\ \A s \in AppStacks(r, role) : s = DeployedName(r, role) \/ Unclaimed(s)
  <1> DEFINE name == DeployedName(r, role)
  <1>1. name = [suffix |-> name.suffix, role |-> name.role, build |-> name.build,
                part |-> "infra"]
    BY DEF DeployedName, StackName
  <1>2. /\ Asked.suffix => name = StackName(r, role)
        /\ name = StackName(r, role) \/ (name.suffix = NoSuffix /\ ~Asked.suffix)
    BY DEF DeployedName, StackName
  <1>3. AppStacks(r, role) = {[name EXCEPT !.part = p] : p \in {"infra", "other"}}
    BY DEF AppStacks
  <1> HIDE DEF name
  <1>4. [name EXCEPT !.part = "infra"] = name /\ [name EXCEPT !.part = "other"].part = "other"
    BY <1>1
  <1> QED  BY <1>2, <1>3, <1>4 DEF Unclaimed, name

(* A cluster is deployed: if that fails the stack may be there all the     *)
(* same, and the job leaves what it has entered.                           *)
LEMMA StackDeployed ==
  ASSUME BenchInv, NEW r \in DOMAIN jobs, DeployStack(r)
  PROVE  BenchInv'
  <1> DEFINE n == jobs[r].level
             role == Roles[n + 1]
             named == StackName(r, role)
             stack == DeployedName(r, role)
             all == AppStacks(r, role)
  <1>1. /\ jobs[r] \in BenchJob /\ n \in Nat
        /\ LevelFits("deploy", n) /\ jobs[r].phase = "deploy"
        /\ Asked.suffix => StacksOf(r) \subseteq stacks
    BY JobFacts DEF DeployStack, BenchInv, Leaving
  <1>2. /\ Asked.suffix => stack = named
        /\ stack = named \/ Unclaimed(stack)
        /\ stack \in all
        /\ \A s \in all : s = stack \/ Unclaimed(s)
    BY DeployedNames
  <1>3. PICK ok \in BOOLEAN :
          /\ jobs' = [jobs EXCEPT ![r].level = @ + 1, ![r].ok = ok,
                                  ![r].phase = IF ok THEN "endpoint" ELSE "destroy"]
          /\ \E made \in SUBSET all : (ok => made = all) /\ stacks' = stacks \cup made
    BY DEF DeployStack
  <1>4. /\ leaked' = leaked \ {stack} /\ kept' = kept \ {stack}
        /\ UNCHANGED <<request, attempt>>
    BY DEF DeployStack
  <1> DEFINE phase == IF ok THEN "endpoint" ELSE "destroy"
             j == [jobs[r] EXCEPT !.level = n + 1, !.ok = ok, !.phase = phase]
  <1>5. /\ phase \in BenchPhase /\ LevelFits(phase, n + 1)
        /\ phase \in Leaving <=> ~ok
    BY <1>1, RoleFacts DEF LevelFits, BenchPhase, Leaving
  <1> HIDE DEF phase
  <1>6. /\ j \in BenchJob /\ j.phase = phase /\ j.level = n + 1 /\ j.attempt = jobs[r].attempt
    <2>1. n + 1 \in Nat
      BY <1>1
    <2> HIDE DEF n
    <2> QED  BY <1>1, <1>5, <2>1 DEF BenchJob
  <1>7. jobs' = [jobs EXCEPT ![r] = j]
    BY <1>3 DEF phase, BenchInv
  <1> HIDE DEF j
  <1>8. jobs'[r] = j
    BY <1>7
  <1>9. StacksOf(r)' = StacksOf(r) \cup {named}
    BY <1>1, <1>4, <1>6, <1>8, OneMoreStack
  <1> HIDE DEF named, stack, all, role
  <1>10. /\ stacks \subseteq stacks' /\ \A s \in stacks' : s \in stacks \/ s \in all
         /\ ok => stack \in stacks'
    BY <1>2, <1>3
  <1>11. /\ request' = request /\ attempt' \in Nat
         /\ Asked.suffix => j.phase \in Leaving \/ StacksOf(r)' \subseteq stacks'
         /\ Asked.suffix => \A s \in stacks : s.suffix.row # r => s \in stacks'
    BY <1>1, <1>2, <1>4, <1>5, <1>6, <1>9, <1>10 DEF BenchInv
  <1>12. ASSUME NEW s \in stacks', ~Unclaimed(s)
         PROVE  \/ s \in kept' \cup leaked' \cup StacksOf(r)'
                \/ s \in stacks /\ s \notin kept \cup leaked \cup StacksOf(r)
    <2>1. CASE s = stack
      BY <2>1, <1>2, <1>9, <1>12
    <2>2. CASE s # stack
      BY <2>2, <1>2, <1>4, <1>9, <1>10, <1>12
    <2> QED  BY <2>1, <2>2
  <1> QED  BY <1>5, <1>6, <1>7, <1>11, <1>12, JobSteps

(* The innermost cluster is left: its stack is kept, destroyed or leaked.  *)
LEMMA ContextLeft ==
  ASSUME BenchInv, NEW r \in DOMAIN jobs, LeaveContext(r)
  PROVE  BenchInv'
  <1> DEFINE n == jobs[r].level
             stack == StackName(r, Roles[n])
  <1>1. /\ jobs[r] \in BenchJob /\ n \in Nat \ {0} /\ n - 1 \in Nat
        /\ LevelFits("destroy", n) /\ jobs[r].phase = "destroy"
    BY JobFacts DEF LeaveContext
  <1>2. Asked.suffix => stack.suffix.row = r
    BY OwnStacks
  <1>3. /\ LevelFits("destroy", n - 1) /\ "destroy" \in Leaving
    BY <1>1, RoleFacts DEF LevelFits, Leaving
  <1>4. /\ UNCHANGED <<request, attempt>>
        /\ \/ stacks' = stacks /\ kept' = kept \cup {stack} /\ leaked' = leaked
           \/ stacks' = stacks \ {stack} /\ UNCHANGED <<kept, leaked>>
           \/ stacks' = stacks /\ leaked' = leaked \cup {stack} /\ kept' = kept
    BY DEF LeaveContext
  <1>5. \E ok \in BOOLEAN :
          jobs' = [jobs EXCEPT ![r] = [jobs[r] EXCEPT !.level = n - 1, !.ok = ok]]
    <2>1. jobs[r].ok \in BOOLEAN
      BY <1>1 DEF BenchJob
    <2>2. CASE jobs' = [jobs EXCEPT ![r].level = @ - 1]
      <3>1. jobs' = [jobs EXCEPT ![r] = [jobs[r] EXCEPT !.level = n - 1]]
        BY <2>2 DEF BenchInv
      <3>2. [jobs[r] EXCEPT !.level = n - 1]
              = [jobs[r] EXCEPT !.level = n - 1, !.ok = jobs[r].ok]
        BY <1>1 DEF BenchJob
      <3> QED  BY <2>1, <3>1, <3>2
    <2>3. CASE jobs' = [jobs EXCEPT ![r].level = @ - 1, ![r].ok = FALSE]
      BY <2>3 DEF BenchInv
    <2> QED  BY <2>2, <2>3 DEF LeaveContext
  <1>6. PICK ok \in BOOLEAN :
          jobs' = [jobs EXCEPT ![r] = [jobs[r] EXCEPT !.level = n - 1, !.ok = ok]]
    BY <1>5
  <1> DEFINE j == [jobs[r] EXCEPT !.level = n - 1, !.ok = ok]
  <1>7. /\ j \in BenchJob /\ j.phase = "destroy" /\ j.level = n - 1
        /\ j.attempt = jobs[r].attempt /\ jobs' = [jobs EXCEPT ![r] = j]
    BY <1>1, <1>6 DEF BenchJob
  <1> HIDE DEF j
  <1>8. jobs'[r] = j
    BY <1>7
  <1>9. StacksOf(r) = StacksOf(r)' \cup {stack}
    BY <1>1, <1>4, <1>7, <1>8, OneStackLess
  <1> HIDE DEF stack
  <1>10. /\ request' = request /\ attempt' \in Nat
         /\ Asked.suffix => \A s \in stacks : s.suffix.row # r => s \in stacks'
    BY <1>2, <1>4 DEF BenchInv
  <1>11. \A s \in stacks' :
           \/ Unclaimed(s) \/ s \in kept' \cup leaked' \cup StacksOf(r)'
           \/ s \in stacks /\ s \notin kept \cup leaked \cup StacksOf(r)
    BY <1>4, <1>9
  <1> QED  BY <1>3, <1>7, <1>10, <1>11, JobSteps

(* The last step of a job that was cancelled: the one stack it may have.   *)
LEMMA StacksDeleted ==
  ASSUME BenchInv, NEW r \in DOMAIN jobs, DeleteStacks(r)
  PROVE  BenchInv'
  <1> DEFINE stack == StackName(r, "only")
             j == [jobs[r] EXCEPT !.phase = "over", !.level = 0]
  <1>1. /\ jobs[r] \in BenchJob /\ LevelFits("cleanup", jobs[r].level)
        /\ jobs[r].level \in Nat
        /\ Asked \in BenchRequest
    BY JobFacts DEF DeleteStacks
  <1>2. StackNames(r) = {stack} /\ (Asked.suffix => stack.suffix.row = r)
    BY OwnStacks DEF StackNames
  <1>3. /\ UNCHANGED <<request, attempt, kept>>
        /\ jobs' = [jobs EXCEPT ![r] = j]
        /\ \/ leaked' = leaked /\ stacks' = IF Asked.endpoint THEN stacks ELSE stacks \ {stack}
           \/ ~Asked.endpoint /\ leaked' = leaked \cup {stack} /\ stacks' = stacks
    BY <1>2 DEF DeleteStacks, BenchInv
  <1>4. /\ j \in BenchJob /\ j.phase = "over" /\ j.level = 0 /\ j.attempt = jobs[r].attempt
        /\ LevelFits("over", 0) /\ "over" \in Leaving
    <2>1. "over" \in BenchPhase /\ "over" \in Leaving /\ LevelFits("over", 0)
      BY <1>1, RoleFacts DEF BenchPhase, LevelFits, Leaving
    <2>2. j \in BenchJob /\ j.phase = "over" /\ j.level = 0 /\ j.attempt = jobs[r].attempt
      BY <1>1, <2>1 DEF BenchJob
    <2> QED  BY <2>1, <2>2
  <1>5. StacksOf(r) \subseteq (IF Asked.endpoint THEN {} ELSE {stack})
    <2>1. jobs[r].level \in 0 .. 1 /\ (Asked.endpoint => jobs[r].level = 0)
      BY <1>1, RoleFacts DEF LevelFits
    <2>2. \A i \in 1 .. jobs[r].level : i = 1 /\ ~Asked.endpoint
      BY <2>1
    <2>3. Roles[1] = "only"
      BY <1>1, RoleFacts DEF LevelFits
    <2> QED  BY <2>2, <2>3 DEF StacksOf
  <1> HIDE DEF stack, j
  <1>6. /\ request' = request /\ attempt' \in Nat
        /\ Asked.suffix => \A s \in stacks : s.suffix.row # r => s \in stacks'
    BY <1>2, <1>3 DEF BenchInv
  <1>7. \A s \in stacks' :
          \/ Unclaimed(s) \/ s \in kept' \cup leaked'
          \/ s \in stacks /\ s \notin kept \cup leaked \cup StacksOf(r)
    BY <1>3, <1>5
  <1> QED  BY <1>3, <1>4, <1>6, <1>7, JobSteps

(* Every benchmark run keeps the invariant.                                *)
THEOREM BenchmarkConsistent == BenchSpec => []BenchInv
  <1>1. BenchInv /\ [BenchNext]_benchVars => BenchInv'
    <2> SUFFICES ASSUME BenchInv, [BenchNext]_benchVars PROVE BenchInv'
      OBVIOUS
    <2>1. CASE UNCHANGED benchVars
      <3>1. /\ UNCHANGED <<request, attempt, jobs, stacks, kept, leaked>> /\ Asked' = Asked
            /\ Roles' = Roles
        BY <2>1, RoleFacts DEF benchVars
      <3>2. /\ \A phase, level : LevelFits(phase, level)' = LevelFits(phase, level)
            /\ \A s : Unclaimed(s)' = Unclaimed(s)
        BY <3>1 DEF LevelFits, Unclaimed, NoSuffix
      <3>3. \A r : StacksOf(r)' = StacksOf(r)
        BY <3>1 DEF StacksOf, StackName, Suffix
      <3> QED  BY <3>1, <3>2, <3>3 DEF BenchInv
    <2>2. CASE BenchNext
      BY <2>2, RunStarts, JobStartsAgain, JobGoesOn, JobTests, StackDeployed, ContextLeft,
         StacksDeleted DEF BenchNext
    <2> QED  BY <2>1, <2>2
  <1> QED  BY <1>1, InitBenchmark, PTL DEF BenchSpec

(* Every cluster's stack that outlives its job was to be kept, could not   *)
(* be deleted or had no suffix, and a job with a suffix that tests has its *)
(* clusters.                                                               *)
THEOREM NoStackIsForgotten == BenchSpec => []StacksAreExplained
  <1>1. BenchInv => StacksAreExplained
    <2> SUFFICES ASSUME BenchInv PROVE StacksAreExplained
      OBVIOUS
    <2>1. ASSUME NEW r \in DOMAIN jobs, jobs[r].phase = "test", Asked.suffix, ~Asked.endpoint,
                 NEW i \in DOMAIN Roles
          PROVE  DeployedName(r, Roles[i]) \in stacks
      <3>1. jobs[r].level = Len(Roles) /\ StacksOf(r) \subseteq stacks
        BY <2>1 DEF BenchInv, LevelFits, Leaving
      <3>2. StackName(r, Roles[i]) \in StacksOf(r)
        BY <3>1, RoleFacts DEF StacksOf
      <3> QED  BY <2>1, <3>1, <3>2, DeployedNames
    <2>2. \A r \in DOMAIN jobs :
            jobs[r].phase = "test" /\ Asked.suffix => TargetHosts(r) \subseteq stacks
      BY <2>1 DEF TargetHosts
    <2>3. \A s \in stacks :
            \/ s \in kept \cup leaked \cup UNION {StacksOf(r) : r \in DOMAIN jobs}
            \/ s.suffix = NoSuffix /\ ~Asked.suffix
            \/ s.part = "other"
      BY DEF BenchInv, Unclaimed
    <2> QED  BY <2>2, <2>3 DEF StacksAreExplained
  <1> QED  BY <1>1, BenchmarkConsistent, PTL

-----------------------------------------------------------------------------
(* ReleasePromotion.                                                       *)

PromotionJobs == {"promote-repos", "promote-artifacts", "promote-opensearch-tar-x64"}

(* The jobs before each job, written out.                                  *)
AllBefore == [j \in PJob |->
  CASE j = "parameters" -> {}
    [] j = "validate-staging" -> {"parameters"}
    [] j \in {"promote-repos", "promote-artifacts"} -> {"parameters", "validate-staging"}
    [] j = "publish" -> {"parameters", "validate-staging", "promote-repos", "promote-artifacts"}
    [] j = "promote-opensearch-tar-x64" ->
         {"parameters", "validate-staging", "promote-repos", "promote-artifacts", "publish"}
    [] j \in {"invalidate-cloudfront", "promote-docker"} ->
         {"parameters", "validate-staging", "promote-repos", "promote-artifacts", "publish",
          "promote-opensearch-tar-x64"}
    [] j = "validate-production" ->
         {"parameters", "validate-staging", "promote-repos", "promote-artifacts", "publish",
          "promote-opensearch-tar-x64", "invalidate-cloudfront", "promote-docker"}
    [] OTHER ->
         {"parameters", "validate-staging", "promote-repos", "promote-artifacts", "publish",
          "promote-opensearch-tar-x64", "invalidate-cloudfront", "promote-docker",
          "validate-production"}]

(* What each job needs, and what is before it.                             *)
LEMMA NeedsAre ==
  /\ Needs["parameters"] = {}
  /\ Needs["validate-staging"] = {"parameters"}
  /\ Needs["promote-repos"] = {"parameters", "validate-staging"}
  /\ Needs["promote-artifacts"] = {"parameters", "validate-staging"}
  /\ Needs["publish"] = {"validate-staging", "promote-repos", "promote-artifacts"}
  /\ Needs["promote-opensearch-tar-x64"] = {"parameters", "publish"}
  /\ Needs["invalidate-cloudfront"] = {"parameters", "publish",
                                        "promote-opensearch-tar-x64"}
  /\ Needs["promote-docker"] = {"parameters", "publish", "promote-opensearch-tar-x64"}
  /\ Needs["validate-production"] = {"parameters", "invalidate-cloudfront",
                                      "promote-docker"}
  /\ Needs["publish-to-maven"] = {"parameters", "validate-production"}
  /\ Needs["publish-to-maven-plan"] = {"parameters", "validate-production"}
  BY DEF Needs, PJob

(* The recursive definition has that solution, and no other.               *)
LEMMA AncestorsAre == Ancestors = AllBefore
  <1> DEFINE Level(f, j) == Needs[j] \cup UNION {f[k] : k \in Needs[j]}
             Solves(f) == f = [j \in PJob |-> Needs[j] \cup UNION {f[k] : k \in Needs[j]}]
             B == AllBefore
  <1>1. ASSUME NEW f
        PROVE
          /\ Level(f, "parameters") = {}
          /\ Level(f, "validate-staging") = {"parameters"} \cup f["parameters"]
          /\ Level(f, "promote-repos") = {"parameters", "validate-staging"}
                                           \cup f["parameters"]
                                           \cup f["validate-staging"]
          /\ Level(f, "promote-artifacts") = {"parameters", "validate-staging"}
                                               \cup f["parameters"]
                                               \cup f["validate-staging"]
          /\ Level(f, "publish") = {"validate-staging", "promote-repos",
                                     "promote-artifacts"} \cup f["validate-staging"]
                                     \cup f["promote-repos"] \cup f["promote-artifacts"]
          /\ Level(f, "promote-opensearch-tar-x64") = {"parameters", "publish"}
                                                        \cup f["parameters"]
                                                        \cup f["publish"]
          /\ Level(f, "invalidate-cloudfront") = {"parameters", "publish",
                                                   "promote-opensearch-tar-x64"}
                                                   \cup f["parameters"]
                                                   \cup f["publish"]
                                                   \cup f["promote-opensearch-tar-x64"]
          /\ Level(f, "promote-docker") = {"parameters", "publish",
                                            "promote-opensearch-tar-x64"}
                                            \cup f["parameters"] \cup f["publish"]
                                            \cup f["promote-opensearch-tar-x64"]
          /\ Level(f, "validate-production") = {"parameters", "invalidate-cloudfront",
                                                 "promote-docker"} \cup f["parameters"]
                                                 \cup f["invalidate-cloudfront"]
                                                 \cup f["promote-docker"]
          /\ Level(f, "publish-to-maven") = {"parameters", "validate-production"}
                                              \cup f["parameters"]
                                              \cup f["validate-production"]
          /\ Level(f, "publish-to-maven-plan") = {"parameters", "validate-production"}
                                                   \cup f["parameters"]
                                                   \cup f["validate-production"]
    BY NeedsAre
  <1>2.
    /\ B["parameters"] = {}
    /\ B["validate-staging"] = {"parameters"}
    /\ B["promote-repos"] = {"parameters", "validate-staging"}
    /\ B["promote-artifacts"] = {"parameters", "validate-staging"}
    /\ B["publish"] = {"parameters", "validate-staging", "promote-repos",
                        "promote-artifacts"}
    /\ B["promote-opensearch-tar-x64"] = {"parameters", "validate-staging",
                                           "promote-repos", "promote-artifacts",
                                           "publish"}
    /\ B["invalidate-cloudfront"] = {"parameters", "validate-staging", "promote-repos",
                                      "promote-artifacts", "publish",
                                      "promote-opensearch-tar-x64"}
    /\ B["promote-docker"] = {"parameters", "validate-staging", "promote-repos",
                               "promote-artifacts", "publish",
                               "promote-opensearch-tar-x64"}
    /\ B["validate-production"] = {"parameters", "validate-staging", "promote-repos",
                                    "promote-artifacts", "publish",
                                    "promote-opensearch-tar-x64",
                                    "invalidate-cloudfront", "promote-docker"}
    /\ B["publish-to-maven"] = {"parameters", "validate-staging", "promote-repos",
                                 "promote-artifacts", "publish",
                                 "promote-opensearch-tar-x64", "invalidate-cloudfront",
                                 "promote-docker", "validate-production"}
    /\ B["publish-to-maven-plan"] = {"parameters", "validate-staging", "promote-repos",
                                      "promote-artifacts", "publish",
                                      "promote-opensearch-tar-x64",
                                      "invalidate-cloudfront", "promote-docker",
                                      "validate-production"}
    BY DEF AllBefore, PJob
  <1>3. /\ B = [j \in PJob |-> B[j]]
        /\ \A j \in PJob :
             \/ j = "parameters" \/ j = "validate-staging"
             \/ j = "promote-repos" \/ j = "promote-artifacts"
             \/ j = "publish" \/ j = "promote-opensearch-tar-x64"
             \/ j = "invalidate-cloudfront" \/ j = "promote-docker"
             \/ j = "validate-production" \/ j = "publish-to-maven"
             \/ j = "publish-to-maven-plan"
    BY DEF AllBefore, PJob
  <1> HIDE DEF Level, B
  <1>4. Level(B, "parameters") = B["parameters"]
    BY <1>1, <1>2
  <1>5. Level(B, "validate-staging") = B["validate-staging"]
    BY <1>1, <1>2
  <1>6. Level(B, "promote-repos") = B["promote-repos"]
    BY <1>1, <1>2
  <1>7. Level(B, "promote-artifacts") = B["promote-artifacts"]
    BY <1>1, <1>2
  <1>8. Level(B, "publish") = B["publish"]
    BY <1>1, <1>2
  <1>9. Level(B, "promote-opensearch-tar-x64") = B["promote-opensearch-tar-x64"]
    BY <1>1, <1>2
  <1>10. Level(B, "invalidate-cloudfront") = B["invalidate-cloudfront"]
    BY <1>1, <1>2
  <1>11. Level(B, "promote-docker") = B["promote-docker"]
    BY <1>1, <1>2
  <1>12. Level(B, "validate-production") = B["validate-production"]
    BY <1>1, <1>2
  <1>13. Level(B, "publish-to-maven") = B["publish-to-maven"]
    BY <1>1, <1>2
  <1>4a. Level(B, "publish-to-maven-plan") = B["publish-to-maven-plan"]
    BY <1>1, <1>2
  <1>15. \A j \in PJob : Level(B, j) = B[j]
    BY <1>3, <1>4, <1>5, <1>6, <1>7, <1>8, <1>9, <1>10, <1>11, <1>12, <1>13, <1>4a
  <1>16. Solves(B)
    BY <1>3, <1>15 DEF Level
  <1>17. ASSUME NEW f, Solves(f)
        PROVE  f = B
    <2>0. f = [j \in PJob |-> f[j]] /\ \A j \in PJob : f[j] = Level(f, j)
      BY <1>17 DEF Level
    <2> HIDE DEF Solves
    <2>1. f["parameters"] = B["parameters"]
      <3>1. f["parameters"] = Level(f, "parameters")
        BY <2>0 DEF PJob
      <3> QED  BY <3>1, <1>1, <1>2
    <2>2. f["validate-staging"] = B["validate-staging"]
      <3>1. f["validate-staging"] = Level(f, "validate-staging")
        BY <2>0 DEF PJob
      <3> QED  BY <3>1, <1>1, <1>2, <2>1
    <2>3. f["promote-repos"] = B["promote-repos"]
      <3>1. f["promote-repos"] = Level(f, "promote-repos")
        BY <2>0 DEF PJob
      <3> QED  BY <3>1, <1>1, <1>2, <2>1, <2>2
    <2>4. f["promote-artifacts"] = B["promote-artifacts"]
      <3>1. f["promote-artifacts"] = Level(f, "promote-artifacts")
        BY <2>0 DEF PJob
      <3> QED  BY <3>1, <1>1, <1>2, <2>1, <2>2
    <2>5. f["publish"] = B["publish"]
      <3>1. f["publish"] = Level(f, "publish")
        BY <2>0 DEF PJob
      <3> QED  BY <3>1, <1>1, <1>2, <2>2, <2>3, <2>4
    <2>6. f["promote-opensearch-tar-x64"] = B["promote-opensearch-tar-x64"]
      <3>1. f["promote-opensearch-tar-x64"] = Level(f, "promote-opensearch-tar-x64")
        BY <2>0 DEF PJob
      <3> QED  BY <3>1, <1>1, <1>2, <2>1, <2>5
    <2>7. f["invalidate-cloudfront"] = B["invalidate-cloudfront"]
      <3>1. f["invalidate-cloudfront"] = Level(f, "invalidate-cloudfront")
        BY <2>0 DEF PJob
      <3> QED  BY <3>1, <1>1, <1>2, <2>1, <2>5, <2>6
    <2>8. f["promote-docker"] = B["promote-docker"]
      <3>1. f["promote-docker"] = Level(f, "promote-docker")
        BY <2>0 DEF PJob
      <3> QED  BY <3>1, <1>1, <1>2, <2>1, <2>5, <2>6
    <2>9. f["validate-production"] = B["validate-production"]
      <3>1. f["validate-production"] = Level(f, "validate-production")
        BY <2>0 DEF PJob
      <3> QED  BY <3>1, <1>1, <1>2, <2>1, <2>7, <2>8
    <2>10. f["publish-to-maven"] = B["publish-to-maven"]
      <3>1. f["publish-to-maven"] = Level(f, "publish-to-maven")
        BY <2>0 DEF PJob
      <3> QED  BY <3>1, <1>1, <1>2, <2>1, <2>9
    <2>11. f["publish-to-maven-plan"] = B["publish-to-maven-plan"]
      <3>1. f["publish-to-maven-plan"] = Level(f, "publish-to-maven-plan")
        BY <2>0 DEF PJob
      <3> QED  BY <3>1, <1>1, <1>2, <2>1, <2>9
    <2>13. \A j \in PJob : f[j] = B[j]
      BY <1>3, <2>1, <2>2, <2>3, <2>4, <2>5, <2>6, <2>7, <2>8, <2>9, <2>10, <2>11
    <2> QED  BY <1>3, <2>0, <2>13
  <1>18. Ancestors = CHOOSE f : Solves(f)
    BY DEF Ancestors
  <1> HIDE DEF Solves
  <1> QED  BY <1>16, <1>17, <1>18 DEF B

(* Nothing comes before itself, and what comes before is transitive.       *)
LEMMA OrderOfJobs ==
  ASSUME NEW j \in PJob
  PROVE  /\ Needs[j] \subseteq Ancestors[j] /\ Ancestors[j] \subseteq PJob
         /\ j \notin Ancestors[j]
         /\ \A k \in Ancestors[j] : k \in Needs[j] \/ \E l \in Needs[j] : k \in Ancestors[l]
         /\ \A k \in Ancestors[j] : Ancestors[k] \subseteq Ancestors[j]
  BY NeedsAre, AncestorsAre DEF AllBefore, PJob

-----------------------------------------------------------------------------
Outcome == {"success", "failure", "skipped", "cancelled"}
PromotedObject == {"packages", "core-plugins", "core", "bundle"}
Image == PromotedProduct \X {"dockerhub", "ecr"} \X {"version", "major", "latest"}
PromotionInput ==
  [projects : SUBSET PromotedProduct, rc : SUBSET PromotedProduct,
   override : BOOLEAN, latest : BOOLEAN, dryRun : BOOLEAN]

PromoTypeOK ==
  /\ inputs \in [PromotionRuns -> PromotionInput]
  /\ result \in [PromotionRuns -> [PJob -> Outcome \cup {"waiting", "running"}]]
  /\ left \in [PromotionRuns -> [Stage -> Seq(PromotedObject)]]
  /\ copies \in [PromotionRuns -> Seq(Image)]
  /\ production \in [Stage -> SUBSET PromotedObject]
  /\ tagged \subseteq Image

(* What a job that ran had found, and what one that was skipped had not.   *)
Ran(r, j) ==
  /\ j \in {"validate-staging", "promote-repos", "promote-artifacts", "publish-to-maven",
            "promote-opensearch-tar-x64"} => Succeeded(r, Ancestors[j])
  /\ j = "promote-opensearch-tar-x64" => OpenSearch \in inputs[r].projects
  /\ j = "publish-to-maven" => ~inputs[r].dryRun
  /\ j \in {"invalidate-cloudfront", "promote-docker"} =>
       /\ result[r]["publish"] = "success"
       /\ result[r]["promote-opensearch-tar-x64"] \in {"success", "skipped"}

Skipped(r, j) ==
  /\ j \in {"promote-repos", "promote-artifacts"} => ~Succeeded(r, Ancestors[j])
  /\ j = "promote-opensearch-tar-x64" =>
       OpenSearch \notin inputs[r].projects \/ ~Succeeded(r, Ancestors[j])

Gate(r, j) ==
  j = "publish" =>
    /\ result[r]["validate-staging"] = "success"
    /\ \A k \in {"promote-repos", "promote-artifacts"} : result[r][k] \in {"success", "skipped"}

JobInv(r, j) ==
  result[r][j] # "waiting" =>
    /\ \A k \in Ancestors[j] : Over(r, k)
    /\ result[r][j] \in {"running", "success"} => Ran(r, j)
    /\ result[r][j] = "success" => Gate(r, j)
    /\ result[r][j] = "skipped" => Skipped(r, j)

(* What a job that succeeded has left behind.                              *)
Left(r, j) ==
  result[r][j] = "success" =>
    /\ j \in PromotionJobs /\ ~inputs[r].dryRun =>
         \A s \in StagesOf(r, j) : left[r][s] = <<>>
    /\ j = "promote-docker" /\ ~inputs[r].dryRun => copies[r] = <<>>
    /\ j = "invalidate-cloudfront" => r \notin stale

(* What a stage of a run has not written is still to be written.           *)
UploadInv(r) ==
  /\ \A s \in Stage : ToSet(left[r][s]) \subseteq ToSet(UploadPlan(s))
  /\ \A s \in Selected(r) : ToSet(UploadPlan(s)) \subseteq production[s] \cup ToSet(left[r][s])

(* The copies left are the end of the plan, and those before are made.     *)
CopiesInv(r) ==
  LET plan == DockerPlan(inputs[r])
      made == Len(plan) - Len(copies[r])
  IN  /\ made >= 0
      /\ \A i \in 1 .. Len(copies[r]) : copies[r][i] = plan[made + i]
      /\ \A i \in 1 .. made : plan[i] \in tagged

(* What holds of each run, whatever the others do.                         *)
PromotionRunInv(r) ==
  /\ \A j \in PJob : JobInv(r, j) /\ Left(r, j)
  /\ UploadInv(r)
  /\ CopiesInv(r)

OnlyPlanned == \A s \in Stage : production[s] \subseteq ToSet(UploadPlan(s))

PromoInv ==
  /\ PromoTypeOK
  /\ \A r \in PromotionRuns : PromotionRunInv(r)
  /\ OnlyPlanned
  /\ ImagesFollowPackages

-----------------------------------------------------------------------------
(* The copies of a product are in order: the version is copied to a        *)
(* registry before any other tag.                                          *)
InOrder(s, in) ==
  /\ s \in Seq(Image)
  /\ \A i \in 1 .. Len(s) :
       /\ s[i][1] \in in.projects
       /\ \E h \in 1 .. i : s[h] = <<s[i][1], s[i][2], "version">>

(* One order after another is in order.                                    *)
LEMMA OrdersConcatenate ==
  ASSUME NEW in, NEW s, NEW t, InOrder(s, in), InOrder(t, in)
  PROVE  InOrder(s \o t, in)
  <1>1. /\ s \in Seq(Image) /\ t \in Seq(Image) /\ Len(s) \in Nat /\ Len(t) \in Nat
    BY DEF InOrder
  <1>2. /\ s \o t \in Seq(Image) /\ Len(s \o t) = Len(s) + Len(t)
        /\ \A i \in 1 .. Len(s) + Len(t) :
             (s \o t)[i] = IF i <= Len(s) THEN s[i] ELSE t[i - Len(s)]
    BY <1>1
  <1> DEFINE st == s \o t
  <1> HIDE DEF st
  <1>3. ASSUME NEW i \in 1 .. Len(s) + Len(t)
        PROVE  /\ st[i][1] \in in.projects
               /\ \E h \in 1 .. i : st[h] = <<st[i][1], st[i][2], "version">>
    <2>1. CASE i <= Len(s)
      <3>1. i \in 1 .. Len(s) /\ st[i] = s[i]
        BY <2>1, <1>1, <1>2 DEF st
      <3>2. PICK h \in 1 .. i : s[h] = <<s[i][1], s[i][2], "version">>
        BY <3>1 DEF InOrder
      <3>3. st[h] = s[h]
        BY <3>1, <3>2, <1>1, <1>2 DEF st
      <3> QED  BY <3>1, <3>2, <3>3 DEF InOrder
    <2>2. CASE i > Len(s)
      <3>1. i - Len(s) \in 1 .. Len(t) /\ st[i] = t[i - Len(s)]
        BY <2>2, <1>1, <1>2 DEF st
      <3>2. PICK h \in 1 .. i - Len(s) :
              t[h] = <<t[i - Len(s)][1], t[i - Len(s)][2], "version">>
        BY <3>1 DEF InOrder
      <3>3. h + Len(s) \in 1 .. i /\ h + Len(s) \in 1 .. Len(s) + Len(t)
            /\ ~(h + Len(s) <= Len(s)) /\ (h + Len(s)) - Len(s) = h
        BY <3>1, <3>2, <1>1
      <3>4. st[h + Len(s)] = t[h]
        BY <3>3, <1>2 DEF st
      <3> QED  BY <3>1, <3>2, <3>3, <3>4 DEF InOrder
    <2> QED  BY <2>1, <2>2, <1>1
  <1> QED  BY <1>2, <1>3 DEF InOrder, st

(* What is promoted is copied in order.                                    *)
LEMMA PlanInOrder ==
  ASSUME NEW in
  PROVE  InOrder(DockerPlan(in), in)
  <1>1. ASSUME NEW p \in PromotedProduct, NEW r \in {"dockerhub", "ecr"}, p \in in.projects
        PROVE  InOrder(CopiesTo(in, p, r), in)
    <2> DEFINE a == <<<<p, r, "version">>, <<p, r, "major">>>>
               b == <<<<p, r, "latest">>>>
               c == <<<<p, r, "version">>, <<p, r, "major">>, <<p, r, "latest">>>>
    <2>1. InOrder(a, in)
      <3>1. a \in Seq(Image) /\ Len(a) = 2
        BY <1>1 DEF Image
      <3>2. a[1] = <<p, r, "version">> /\ a[2] = <<p, r, "major">>
        OBVIOUS
      <3> HIDE DEF a
      <3>3. \A i \in 1 .. 2 : a[i][1] = p /\ a[i][2] = r /\ 1 \in 1 .. i
        BY <3>2
      <3> QED  BY <1>1, <3>1, <3>2, <3>3 DEF InOrder
    <2>2. InOrder(c, in)
      <3>1. c \in Seq(Image) /\ Len(c) = 3
        BY <1>1 DEF Image
      <3>2. c[1] = <<p, r, "version">> /\ c[2] = <<p, r, "major">> /\ c[3] = <<p, r, "latest">>
        OBVIOUS
      <3> HIDE DEF c
      <3>3. \A i \in 1 .. 3 : c[i][1] = p /\ c[i][2] = r /\ 1 \in 1 .. i
        BY <3>2
      <3> QED  BY <1>1, <3>1, <3>2, <3>3 DEF InOrder
    <2>3. a \o b = c /\ a \o <<>> = a
      <3>1. ASSUME NEW x, NEW y, NEW z
            PROVE  <<x, y>> \o <<z>> = <<x, y, z>> /\ <<x, y>> \o <<>> = <<x, y>>
        <4> DEFINE S == {x, y, z}
        <4>1. <<x, y>> \in Seq(S) /\ <<z>> \in Seq(S) /\ <<>> \in Seq(S) /\ <<x, y, z>> \in Seq(S)
          OBVIOUS
        <4>3. <<x, y>> \o <<>> = <<x, y>>
          BY <4>1, ConcatEmptySeq
        <4>4. Append(<<x, y>>, z) = <<x, y>> \o <<z>>
          BY <4>1, AppendIsConcat
        <4> DEFINE u == Append(<<x, y>>, z)
        <4>5. /\ u \in Seq(S) /\ Len(u) = 3 /\ u[1] = x /\ u[2] = y /\ u[3] = z
              /\ Len(<<x, y, z>>) = 3
          BY <4>1, AppendProperties
        <4> HIDE DEF u, S
        <4>6. \A i \in 1 .. 3 : u[i] = <<x, y, z>>[i]
          BY <4>5
        <4>7. u = <<x, y, z>>
          BY <4>1, <4>5, <4>6, SeqEqual
        <4> QED  BY <4>3, <4>4, <4>7 DEF u
      <3> QED  BY <3>1
    <2> QED  BY <2>1, <2>2, <2>3 DEF CopiesTo
  <1>2. InOrder(<<>>, in)
    BY DEF InOrder
  <1>3. ASSUME NEW p \in PromotedProduct
        PROVE  InOrder(CopiesOf(in, p), in)
    BY <1>1, <1>2, OrdersConcatenate DEF CopiesOf
  <1> QED  BY <1>3, OrdersConcatenate DEF DockerPlan, PromotedProduct

(* The plan of a stage, and what is left of a sequence after its head.     *)
LEMMA PlansOfStages ==
  ASSUME NEW s
  PROVE  UploadPlan(s) \in Seq(PromotedObject)
  <1>1. /\ <<"packages">> \in Seq(PromotedObject)
        /\ <<"bundle">> \in Seq(PromotedObject)
        /\ <<"core-plugins", "core", "bundle">> \in Seq(PromotedObject)
    BY DEF PromotedObject
  <1> QED  BY <1>1 DEF UploadPlan, ReposPlan, ArtifactsPlan

(* The parts of a plan.                                                    *)
LEMMA HeadAndTail ==
  ASSUME NEW S, NEW s \in Seq(S), s # <<>>
  PROVE  /\ Head(s) \in S /\ Tail(s) \in Seq(S)
         /\ ToSet(s) = {Head(s)} \cup ToSet(Tail(s))
  <1>1. /\ Len(s) \in Nat /\ Len(s) >= 1 /\ Head(s) = s[1] /\ DOMAIN s = 1 .. Len(s)
        /\ Tail(s) \in Seq(S) /\ Len(Tail(s)) = Len(s) - 1
        /\ DOMAIN Tail(s) = 1 .. Len(s) - 1
        /\ \A i \in 1 .. Len(s) - 1 : Tail(s)[i] = s[i + 1]
    OBVIOUS
  <1>2. ASSUME NEW x \in ToSet(s)
        PROVE  x = Head(s) \/ x \in ToSet(Tail(s))
    <2>1. PICK i \in 1 .. Len(s) : x = s[i]
      BY <1>1 DEF ToSet
    <2>2. CASE i # 1
      <3>1. i - 1 \in 1 .. Len(s) - 1 /\ (i - 1) + 1 = i
        BY <2>2, <1>1
      <3>2. x = Tail(s)[i - 1]
        BY <3>1, <1>1, <2>1
      <3> QED  BY <3>1, <3>2, <1>1 DEF ToSet
    <2> QED  BY <2>1, <2>2, <1>1
  <1>3. ASSUME NEW x \in ToSet(Tail(s))
        PROVE  x \in ToSet(s)
    <2>1. PICK i \in 1 .. Len(s) - 1 : x = s[i + 1]
      BY <1>1 DEF ToSet
    <2>2. i + 1 \in DOMAIN s
      BY <1>1
    <2> QED  BY <2>1, <2>2 DEF ToSet
  <1>4. Head(s) \in ToSet(s) /\ Head(s) \in S
    BY <1>1 DEF ToSet
  <1> QED  BY <1>1, <1>2, <1>3, <1>4

-----------------------------------------------------------------------------
(* A run that does not move keeps its part of the invariant: other runs    *)
(* only add to the stores, and mark none but themselves stale.             *)
RunStays(r) ==
  /\ inputs'[r] = inputs[r] /\ result'[r] = result[r]
  /\ left'[r] = left[r] /\ copies'[r] = copies[r]
StoresGrow ==
  /\ \A s \in Stage : production[s] \subseteq production'[s]
  /\ tagged \subseteq tagged'

LEMMA OtherRuns ==
  ASSUME NEW r \in PromotionRuns, PromotionRunInv(r), RunStays(r), StoresGrow,
         r \in stale' => r \in stale
  PROVE  PromotionRunInv(r)'
  <1>1. \A j \in PJob : JobInv(r, j)'
    BY DEF PromotionRunInv, RunStays, JobInv, Ran, Skipped, Gate, Succeeded, Over
  <1>2. \A j \in PJob : Left(r, j)'
    BY DEF PromotionRunInv, RunStays, Left, StagesOf, Selected
  <1>3. UploadInv(r)'
    BY DEF PromotionRunInv, RunStays, StoresGrow, UploadInv, Selected
  <1>4. CopiesInv(r)'
    BY DEF PromotionRunInv, RunStays, StoresGrow, CopiesInv
  <1> QED  BY <1>1, <1>2, <1>3, <1>4 DEF PromotionRunInv

(* So a step keeps the invariant when the run that takes it keeps its own  *)
(* part, and images follow the packages.                                   *)
LEMMA RunMoves ==
  ASSUME PromoInv, NEW r \in PromotionRuns, StoresGrow,
         \A q \in PromotionRuns \ {r} : RunStays(q),
         stale' \subseteq stale \cup {r},
         PromoTypeOK', PromotionRunInv(r)', OnlyPlanned', ImagesFollowPackages'
  PROVE  PromoInv'
  <1>1. ASSUME NEW q \in PromotionRuns
        PROVE  PromotionRunInv(q)'
    <2>1. CASE q # r
      BY <2>1, OtherRuns DEF PromoInv
    <2> QED  BY <2>1
  <1> QED  BY <1>1 DEF PromoInv

(* The stores as they were.                                                *)
LEMMA StoresStay ==
  ASSUME PromoInv, UNCHANGED <<production, tagged>>
  PROVE  StoresGrow /\ OnlyPlanned' /\ ImagesFollowPackages'
  BY DEF PromoInv, StoresGrow, OnlyPlanned, ImagesFollowPackages, Complete

(* A job is as it was when it and those before it are.                     *)
LEMMA JobUndisturbed ==
  ASSUME NEW r \in PromotionRuns, NEW j \in PJob, JobInv(r, j), inputs'[r] = inputs[r],
         result'[r][j] = result[r][j], \A k \in Ancestors[j] : result'[r][k] = result[r][k]
  PROVE  JobInv(r, j)'
  <1>1. /\ Succeeded(r, Ancestors[j])' <=> Succeeded(r, Ancestors[j])
        /\ \A k \in Ancestors[j] : Over(r, k)' <=> Over(r, k)
    BY DEF Succeeded, Over
  <1>2. Ran(r, j)' <=> Ran(r, j)
    BY <1>1, AncestorsAre DEF Ran, AllBefore, PJob
  <1>3. Skipped(r, j)' <=> Skipped(r, j)
    BY <1>1 DEF Skipped
  <1>4. Gate(r, j)' <=> Gate(r, j)
    BY AncestorsAre DEF Gate, AllBefore, PJob
  <1> QED  BY <1>1, <1>2, <1>3, <1>4 DEF JobInv

(* Of the run the others are as they were when one that was not over moves.*)
LEMMA OneJobMoves ==
  ASSUME PromoInv, NEW r \in PromotionRuns, NEW j \in PJob, ~Over(r, j),
         NEW v \in Outcome \cup {"waiting", "running"},
         result' = [result EXCEPT ![r][j] = v], inputs' = inputs
  PROVE  /\ result' \in [PromotionRuns -> [PJob -> Outcome \cup {"waiting", "running"}]]
         /\ result'[r][j] = v
         /\ \A q \in PromotionRuns \ {r} : result'[q] = result[q]
         /\ \A h \in PJob \ {j} : JobInv(r, h)' /\ result'[r][h] = result[r][h]
  <1>1. result \in [PromotionRuns -> [PJob -> Outcome \cup {"waiting", "running"}]]
    BY DEF PromoInv, PromoTypeOK
  <1>2. /\ result' \in [PromotionRuns -> [PJob -> Outcome \cup {"waiting", "running"}]]
        /\ result'[r][j] = v
        /\ \A q \in PromotionRuns \ {r} : result'[q] = result[q]
        /\ \A h \in PJob \ {j} : result'[r][h] = result[r][h]
    BY <1>1
  <1>3. ASSUME NEW h \in PJob \ {j}
        PROVE  JobInv(r, h)'
    <2>1. JobInv(r, h) /\ result'[r][h] = result[r][h]
      BY <1>2 DEF PromoInv, PromotionRunInv
    <2>2. CASE result[r][h] = "waiting"
      BY <2>1, <2>2 DEF JobInv
    <2>3. CASE result[r][h] # "waiting"
      <3>1. j \notin Ancestors[h]
        BY <2>1, <2>3 DEF JobInv
      <3>2. \A k \in Ancestors[h] : result'[r][k] = result[r][k]
        BY <1>2, <3>1, OrderOfJobs
      <3> QED  BY <2>1, <3>2, JobUndisturbed
    <2> QED  BY <2>2, <2>3
  <1> QED  BY <1>2, <1>3

(* Once the promotion is published, and the last tar with it, everything   *)
(* of the products is in production.                                       *)
LEMMA PublishedIsComplete ==
  ASSUME PromoInv, NEW r \in PromotionRuns, ~inputs[r].dryRun,
         result[r]["publish"] = "success",
         result[r]["promote-opensearch-tar-x64"] \in {"success", "skipped"}
  PROVE  \A p \in inputs[r].projects : Complete(p)
  <1> DEFINE tar == "promote-opensearch-tar-x64"
  <1>1. /\ \A j \in PJob : JobInv(r, j) /\ Left(r, j)
        /\ UploadInv(r) /\ OnlyPlanned
    BY DEF PromoInv, PromotionRunInv
  <1>2. /\ {"validate-staging", "promote-repos", "promote-artifacts", "publish", tar} \subseteq PJob
        /\ Ancestors["validate-staging"] = {"parameters"}
        /\ \A j \in {"promote-repos", "promote-artifacts"} :
             Ancestors[j] = {"parameters", "validate-staging"}
        /\ Ancestors[tar] = {"parameters", "validate-staging", "promote-repos",
                             "promote-artifacts", "publish"}
    BY AncestorsAre DEF AllBefore, PJob
  <1>3. /\ result[r]["validate-staging"] = "success"
        /\ \A k \in {"promote-repos", "promote-artifacts"} : result[r][k] \in {"success", "skipped"}
    BY <1>1, <1>2 DEF JobInv, Gate
  <1>4. result[r]["parameters"] = "success"
    BY <1>1, <1>2, <1>3 DEF JobInv, Ran, Succeeded
  <1>5. \A k \in {"promote-repos", "promote-artifacts"} : result[r][k] = "success"
    BY <1>1, <1>2, <1>3, <1>4 DEF JobInv, Skipped, Succeeded
  <1>6. OpenSearch \in inputs[r].projects => result[r][tar] = "success"
    BY <1>1, <1>2, <1>3, <1>4, <1>5 DEF JobInv, Skipped, Succeeded
  <1>7. ASSUME NEW s \in Selected(r)
        PROVE  left[r][s] = <<>>
    <2>1. s[1] \in inputs[r].projects /\ s \in Stage
      BY DEF Selected
    <2>2. result[r][StageJob(s)] = "success" /\ StageJob(s) \in PromotionJobs
      BY <1>5, <1>6, <2>1 DEF StageJob, PromotionJobs, TarX64
    <2>3. s \in StagesOf(r, StageJob(s))
      BY DEF StagesOf
    <2>4. StageJob(s) \in PJob
      BY <2>2 DEF PromotionJobs, PJob
    <2> QED  BY <1>1, <2>2, <2>3, <2>4 DEF Left
  <1>8. ASSUME NEW p \in inputs[r].projects, NEW s \in Stage, s[1] = p
        PROVE  production[s] = ToSet(UploadPlan(s))
    <2>1. s \in Selected(r)
      BY <1>8 DEF Selected
    <2>2. ToSet(left[r][s]) = {}
      BY <1>7, <2>1 DEF ToSet
    <2> QED  BY <1>1, <2>1, <2>2 DEF UploadInv, OnlyPlanned
  <1> QED  BY <1>8 DEF Complete

(* A product that is complete stays so.                                    *)
LEMMA CompleteStays ==
  ASSUME OnlyPlanned', \A s \in Stage : production[s] \subseteq production'[s]
  PROVE  \A p : Complete(p) => Complete(p)'
  BY DEF OnlyPlanned, Complete

(* At first nothing is asked for.                                          *)
LEMMA InitPromotion == PromoInit => PromoInv
  <1> SUFFICES ASSUME PromoInit PROVE PromoInv
    OBVIOUS
  <1>1. PromoTypeOK
    BY DEF PromoInit, PromoTypeOK, PromotionInput, NoInputs, Outcome
  <1>2. ASSUME NEW r \in PromotionRuns, NEW j \in PJob
        PROVE  JobInv(r, j) /\ Left(r, j)
    <2>1. \A k \in PJob : result[r][k] = "skipped"
      BY DEF PromoInit
    <2>2. j \in PromotionJobs => "parameters" \in Ancestors[j] /\ "parameters" \in PJob
      BY AncestorsAre DEF AllBefore, PJob, PromotionJobs
    <2>3. Skipped(r, j)
      BY <2>1, <2>2 DEF Skipped, Succeeded, PromotionJobs
    <2> QED  BY <2>1, <2>3, OrderOfJobs DEF JobInv, Left, Over
  <1>3. ASSUME NEW r \in PromotionRuns
        PROVE  UploadInv(r)
    <2>1. Selected(r) = {} /\ \A s \in Stage : ToSet(left[r][s]) = {}
      BY DEF PromoInit, Selected, NoInputs, ToSet
    <2> QED  BY <2>1 DEF UploadInv
  <1>4. ASSUME NEW r \in PromotionRuns
        PROVE  CopiesInv(r)
    <2>1. <<>> \o <<>> = <<>>
      BY ConcatEmptySeq, EmptySeq
    <2>2. DockerPlan(inputs[r]) = <<>> /\ copies[r] = <<>>
      BY <2>1 DEF PromoInit, NoInputs, DockerPlan, CopiesOf
    <2> QED  BY <2>2 DEF CopiesInv
  <1>5. OnlyPlanned /\ ImagesFollowPackages
    BY DEF PromoInit, OnlyPlanned, ImagesFollowPackages
  <1> QED  BY <1>1, <1>2, <1>3, <1>4, <1>5 DEF PromoInv, PromotionRunInv

(* A new run plans everything.                                             *)
LEMMA RunDispatched ==
  ASSUME PromoInv, NEW r \in PromotionRuns, NEW in \in PromotionInputs, Dispatch(r, in)
  PROVE  PromoInv'
  <1>0. PromoTypeOK
    BY DEF PromoInv
  <1>1. /\ inputs'[r] = in /\ result'[r] = [j \in PJob |-> "waiting"]
        /\ left'[r] = [s \in Stage |-> UploadPlan(s)] /\ copies'[r] = DockerPlan(in)
        /\ UNCHANGED <<production, tagged, stale>>
        /\ \A q \in PromotionRuns \ {r} : RunStays(q)
    BY <1>0 DEF PromoTypeOK, Dispatch, stores, RunStays
  <1>2. in \in PromotionInput
    BY PromotionAssumption DEF PromotionInput
  <1>3. InOrder(DockerPlan(in), in)
    BY PlanInOrder
  <1>4. PromoTypeOK'
    <2>1. /\ inputs' \in [PromotionRuns -> PromotionInput]
          /\ result' \in [PromotionRuns -> [PJob -> Outcome \cup {"waiting", "running"}]]
      BY <1>0, <1>2 DEF PromoTypeOK, Dispatch
    <2>2. [s \in Stage |-> UploadPlan(s)] \in [Stage -> Seq(PromotedObject)]
      BY PlansOfStages
    <2>3. left' \in [PromotionRuns -> [Stage -> Seq(PromotedObject)]]
      BY <1>0, <2>2 DEF PromoTypeOK, Dispatch
    <2>4. copies' \in [PromotionRuns -> Seq(Image)]
      BY <1>0, <1>3 DEF PromoTypeOK, Dispatch, InOrder
    <2> QED  BY <1>0, <1>1, <2>1, <2>3, <2>4 DEF PromoTypeOK
  <1>5. \A j \in PJob : JobInv(r, j)' /\ Left(r, j)'
    BY <1>1 DEF JobInv, Left
  <1>6. UploadInv(r)'
    BY <1>1 DEF UploadInv, Selected
  <1>7. CopiesInv(r)'
    BY <1>1, <1>3 DEF CopiesInv, InOrder
  <1> QED  BY <1>1, <1>4, <1>5, <1>6, <1>7, StoresStay, RunMoves DEF PromotionRunInv

(* A run that is started again keeps what succeeded and all before it.     *)
LEMMA JobsRunAgain ==
  ASSUME PromoInv, NEW r \in PromotionRuns, RerunFailed(r)
  PROVE  PromoInv'
  <1> DEFINE bad == Unsuccessful(r)
  <1>0. /\ PromoTypeOK /\ UploadInv(r) /\ CopiesInv(r)
        /\ \A j \in PJob : JobInv(r, j) /\ Left(r, j) /\ Over(r, j)
    BY DEF PromoInv, PromotionRunInv, RerunFailed, RunOver
  <1> HIDE DEF bad
  <1>1. /\ inputs' = inputs /\ copies' = copies
        /\ result'[r] = [j \in PJob |-> IF j \in bad \/ Ancestors[j] \cap bad # {}
                                        THEN "waiting" ELSE result[r][j]]
        /\ left'[r] = [s \in Stage |-> IF left[r][s] = <<>> THEN <<>> ELSE UploadPlan(s)]
        /\ UNCHANGED <<production, tagged, stale>>
        /\ \A q \in PromotionRuns \ {r} : RunStays(q)
    BY <1>0 DEF PromoTypeOK, RerunFailed, stores, RunStays, bad
  <1>2. PromoTypeOK'
    <2>1. /\ result'[r] \in [PJob -> Outcome \cup {"waiting", "running"}]
          /\ result' = [result EXCEPT ![r] = result'[r]]
      BY <1>0, <1>1 DEF PromoTypeOK, RerunFailed
    <2>2. result' \in [PromotionRuns -> [PJob -> Outcome \cup {"waiting", "running"}]]
      BY <1>0, <2>1 DEF PromoTypeOK
    <2>3. /\ left'[r] \in [Stage -> Seq(PromotedObject)]
          /\ left' = [left EXCEPT ![r] = left'[r]]
      BY <1>0, <1>1, PlansOfStages DEF PromoTypeOK, RerunFailed
    <2>4. left' \in [PromotionRuns -> [Stage -> Seq(PromotedObject)]]
      BY <1>0, <2>3 DEF PromoTypeOK
    <2> QED  BY <1>0, <1>1, <2>2, <2>4 DEF PromoTypeOK
  <1>3. ASSUME NEW j \in PJob
        PROVE  JobInv(r, j)' /\ Left(r, j)'
    <2>1. CASE result'[r][j] = "waiting"
      BY <2>1 DEF JobInv, Left
    <2>2. CASE result'[r][j] # "waiting"
      <3>1. j \notin bad /\ Ancestors[j] \cap bad = {} /\ result'[r][j] = result[r][j]
        BY <2>2, <1>1
      <3>2. ASSUME NEW k \in Ancestors[j]
            PROVE  result'[r][k] = result[r][k]
        <4>1. k \in PJob /\ k \notin bad /\ Ancestors[k] \cap bad = {}
          BY <3>1, OrderOfJobs
        <4> QED  BY <4>1, <1>1
      <3>3. JobInv(r, j)'
        BY <1>0, <1>1, <3>1, <3>2, JobUndisturbed
      <3>4. \A s \in Stage : left[r][s] = <<>> => left'[r][s] = <<>>
        BY <1>1
      <3>5. Left(r, j)'
        BY <1>0, <1>1, <3>1, <3>4 DEF Left, StagesOf, Selected
      <3> QED  BY <3>3, <3>5
    <2> QED  BY <2>1, <2>2
  <1>4. UploadInv(r)'
    BY <1>0, <1>1 DEF UploadInv, Selected
  <1>5. CopiesInv(r)'
    BY <1>0, <1>1 DEF CopiesInv
  <1> QED  BY <1>1, <1>2, <1>3, <1>4, <1>5, StoresStay, RunMoves DEF PromotionRunInv

(* A run that is cancelled loses what was not over.                        *)
LEMMA RunCancelled ==
  ASSUME PromoInv, NEW r \in PromotionRuns, Cancel(r)
  PROVE  PromoInv'
  <1>0. /\ PromoTypeOK /\ UploadInv(r) /\ CopiesInv(r)
        /\ \A j \in PJob : JobInv(r, j) /\ Left(r, j)
    BY DEF PromoInv, PromotionRunInv
  <1>1. /\ inputs' = inputs /\ copies' = copies /\ left' = left
        /\ result'[r] = [j \in PJob |-> IF Over(r, j) THEN result[r][j] ELSE "cancelled"]
        /\ UNCHANGED <<production, tagged, stale>>
        /\ \A q \in PromotionRuns \ {r} : RunStays(q)
    BY <1>0 DEF PromoTypeOK, Cancel, stores, RunStays
  <1>2. PromoTypeOK'
    <2>1. /\ result'[r] \in [PJob -> Outcome \cup {"waiting", "running"}]
          /\ result' = [result EXCEPT ![r] = result'[r]]
      BY <1>0, <1>1 DEF PromoTypeOK, Cancel, Outcome
    <2>2. result' \in [PromotionRuns -> [PJob -> Outcome \cup {"waiting", "running"}]]
      BY <1>0, <2>1 DEF PromoTypeOK
    <2> QED  BY <1>0, <1>1, <2>2 DEF PromoTypeOK
  <1>3. \A j \in PJob : Over(r, j)'
    BY <1>1 DEF Over
  <1>4. ASSUME NEW j \in PJob
        PROVE  JobInv(r, j)' /\ Left(r, j)'
    <2>1. CASE ~Over(r, j)
      <3>1. result'[r][j] = "cancelled"
        BY <1>1, <2>1
      <3> QED  BY <3>1, <1>3, OrderOfJobs DEF JobInv, Left
    <2>2. CASE Over(r, j)
      <3>1. result'[r][j] = result[r][j] /\ result[r][j] # "waiting"
        BY <1>1, <2>2 DEF Over
      <3>2. \A k \in Ancestors[j] : Over(r, k) /\ k \in PJob
        BY <1>0, <3>1, OrderOfJobs DEF JobInv
      <3>3. \A k \in Ancestors[j] : result'[r][k] = result[r][k]
        BY <1>1, <3>2
      <3>4. JobInv(r, j)'
        BY <1>0, <1>1, <3>1, <3>3, JobUndisturbed
      <3>5. Left(r, j)'
        BY <1>0, <1>1, <3>1 DEF Left, StagesOf, Selected
      <3> QED  BY <3>4, <3>5
    <2> QED  BY <2>1, <2>2
  <1>5. UploadInv(r)' /\ CopiesInv(r)'
    BY <1>0, <1>1 DEF UploadInv, Selected, CopiesInv
  <1> QED  BY <1>1, <1>2, <1>4, <1>5, StoresStay, RunMoves DEF PromotionRunInv

(* A job starts after all before it are over, or is skipped.               *)
LEMMA JobStarts ==
  ASSUME PromoInv, NEW r \in PromotionRuns, NEW j \in PJob, StartJob(r, j)
  PROVE  PromoInv'
  <1> DEFINE v == IF Condition(r, j) THEN "running" ELSE "skipped"
  <1>1. /\ PromoTypeOK /\ UploadInv(r) /\ CopiesInv(r)
        /\ \A h \in PJob : JobInv(r, h) /\ Left(r, h)
        /\ result[r][j] = "waiting" /\ result' = [result EXCEPT ![r][j] = v]
        /\ \A k \in Needs[j] : Over(r, k)
        /\ UNCHANGED <<inputs, left, copies, production, tagged, stale>>
    BY DEF PromoInv, PromotionRunInv, StartJob, stores
  <1>2. \A k \in Ancestors[j] : Over(r, k) /\ k \in PJob /\ k # j
    BY <1>1, OrderOfJobs DEF JobInv, Over
  <1>3. /\ result' \in [PromotionRuns -> [PJob -> Outcome \cup {"waiting", "running"}]]
        /\ result'[r][j] = v
        /\ \A q \in PromotionRuns \ {r} : result'[q] = result[q]
        /\ \A h \in PJob \ {j} : JobInv(r, h)' /\ result'[r][h] = result[r][h]
    <2>1. ~Over(r, j) /\ v \in Outcome \cup {"waiting", "running"}
      BY <1>1 DEF Over, Outcome
    <2> HIDE DEF v
    <2> QED  BY <1>1, <2>1, OneJobMoves
  <1>5. JobInv(r, j)'
    <2>1. \A k \in Ancestors[j] : Over(r, k)'
      BY <1>2, <1>3 DEF Over
    <2>2. Succeeded(r, Ancestors[j])' <=> Succeeded(r, Ancestors[j])
      BY <1>2, <1>3 DEF Succeeded
    <2>3. ASSUME Condition(r, j)
          PROVE  Ran(r, j)
      BY <2>3 DEF Ran, Condition, PJob
    <2>4. ASSUME ~Condition(r, j)
          PROVE  Skipped(r, j)
      BY <2>4 DEF Skipped, Condition, PJob
    <2>5. Ran(r, j) => Ran(r, j)'
      <3>1. j \in {"invalidate-cloudfront", "promote-docker"} =>
              {"publish", "promote-opensearch-tar-x64"} \subseteq Ancestors[j]
        BY AncestorsAre DEF AllBefore, PJob
      <3> QED  BY <1>1, <1>2, <1>3, <2>2, <3>1 DEF Ran
    <2>6. Skipped(r, j) => Skipped(r, j)'
      BY <1>1, <2>2 DEF Skipped
    <2> QED  BY <1>3, <2>1, <2>3, <2>4, <2>5, <2>6 DEF JobInv
  <1>6. \A h \in PJob : Left(r, h)'
    BY <1>1, <1>3 DEF Left, StagesOf, Selected
  <1>7. PromoTypeOK' /\ \A q \in PromotionRuns \ {r} : RunStays(q)
    BY <1>1, <1>3 DEF PromoTypeOK, RunStays
  <1>8. UploadInv(r)' /\ CopiesInv(r)'
    BY <1>1 DEF UploadInv, Selected, CopiesInv
  <1>9. PromotionRunInv(r)'
    BY <1>3, <1>5, <1>6, <1>8 DEF PromotionRunInv
  <1> HIDE DEF v
  <1> QED  BY <1>1, <1>7, <1>9, StoresStay, RunMoves

(* A job that ends keeps the invariant if it succeeds only with its work   *)
(* done.                                                                   *)
LEMMA JobEnds ==
  ASSUME PromoInv, NEW r \in PromotionRuns, NEW j \in PJob,
         NEW v \in {"success", "failure"}, EndJob(r, j, v),
         UNCHANGED <<left, copies, production, tagged>>,
         stale' \subseteq stale,
         v = "success" => Gate(r, j),
         v = "success" /\ j \in PromotionJobs =>
           inputs[r].dryRun \/ \A s \in StagesOf(r, j) : left[r][s] = <<>>,
         v = "success" /\ j = "promote-docker" => inputs[r].dryRun \/ copies[r] = <<>>,
         v = "success" /\ j = "invalidate-cloudfront" => r \notin stale'
  PROVE  PromoInv'
  <1>1. /\ PromoTypeOK /\ UploadInv(r) /\ CopiesInv(r)
        /\ \A h \in PJob : JobInv(r, h) /\ Left(r, h)
        /\ result[r][j] = "running" /\ result' = [result EXCEPT ![r][j] = v]
        /\ inputs' = inputs
    BY DEF PromoInv, PromotionRunInv, EndJob
  <1>2. \A k \in Ancestors[j] : k \in PJob /\ k # j
    BY OrderOfJobs
  <1>3. /\ result' \in [PromotionRuns -> [PJob -> Outcome \cup {"waiting", "running"}]]
        /\ result'[r][j] = v
        /\ \A q \in PromotionRuns \ {r} : result'[q] = result[q]
        /\ \A h \in PJob \ {j} : JobInv(r, h)' /\ result'[r][h] = result[r][h]
    BY <1>1, OneJobMoves DEF Over, Outcome
  <1>5. JobInv(r, j)'
    <2>1. /\ \A k \in Ancestors[j] : Over(r, k)
          /\ Ran(r, j)
      BY <1>1 DEF JobInv
    <2>2. \A k \in Ancestors[j] : Over(r, k)'
      BY <1>2, <1>3, <2>1 DEF Over
    <2>3. Succeeded(r, Ancestors[j])' <=> Succeeded(r, Ancestors[j])
      BY <1>2, <1>3 DEF Succeeded
    <2>4. Ran(r, j)'
      <3>1. j \in {"invalidate-cloudfront", "promote-docker"} =>
              {"publish", "promote-opensearch-tar-x64"} \subseteq Ancestors[j]
        BY AncestorsAre DEF AllBefore, PJob
      <3> QED  BY <1>1, <1>2, <1>3, <2>1, <2>3, <3>1 DEF Ran
    <2>5. Gate(r, j) => Gate(r, j)'
      <3>1. j = "publish" =>
              {"validate-staging", "promote-repos", "promote-artifacts"} \subseteq Ancestors[j]
        BY AncestorsAre DEF AllBefore, PJob
      <3> QED  BY <1>2, <1>3, <3>1 DEF Gate
    <2> QED  BY <1>3, <2>2, <2>4, <2>5 DEF JobInv
  <1>6. \A h \in PJob : Left(r, h)'
    <2>1. \A h \in PJob \ {j} : Left(r, h)'
      BY <1>1, <1>3 DEF Left, StagesOf, Selected
    <2>2. Left(r, j)'
      BY <1>1, <1>3 DEF Left, StagesOf, Selected
    <2> QED  BY <2>1, <2>2
  <1>7. PromoTypeOK' /\ \A q \in PromotionRuns \ {r} : RunStays(q)
    BY <1>1, <1>3 DEF PromoTypeOK, RunStays
  <1>8. UploadInv(r)' /\ CopiesInv(r)'
    BY <1>1 DEF UploadInv, Selected, CopiesInv
  <1>9. PromotionRunInv(r)'
    BY <1>3, <1>5, <1>6, <1>8 DEF PromotionRunInv
  <1> QED  BY <1>7, <1>9, StoresStay, RunMoves

(* Every end of a job is one of these.                                     *)
LEMMA EndsKeep ==
  ASSUME PromoInv, NEW r \in PromotionRuns,
         \/ \E j \in PJob : EndPromotion(r, j) \/ ValidateArtifacts(r, j)
         \/ CheckParameters(r) \/ PublishGate(r) \/ EndDocker(r) \/ InvalidateCloudfront(r)
         \/ DispatchMaven(r)
  PROVE  PromoInv'
  <1>1. ASSUME NEW j \in PJob, EndPromotion(r, j)
        PROVE  PromoInv'
    BY <1>1, JobEnds DEF EndPromotion, stores, Gate
  <1>2. ASSUME NEW j \in PJob, ValidateArtifacts(r, j)
        PROVE  PromoInv'
    BY <1>2, JobEnds DEF ValidateArtifacts, stores, Gate, PromotionJobs
  <1>3. CASE CheckParameters(r)
    <2>1. "parameters" \in PJob /\ "parameters" \notin PromotionJobs
      BY DEF PJob, PromotionJobs
    <2> QED  BY <1>3, <2>1, JobEnds DEF CheckParameters, stores, Gate
  <1>4. CASE PublishGate(r)
    <2>1. "publish" \in PJob /\ "publish" \notin PromotionJobs
      BY DEF PJob, PromotionJobs
    <2> QED  BY <1>4, <2>1, JobEnds DEF PublishGate, stores, Gate, Succeeded
  <1>5. CASE EndDocker(r)
    <2>1. "promote-docker" \in PJob /\ "promote-docker" \notin PromotionJobs
      BY DEF PJob, PromotionJobs
    <2> QED  BY <1>5, <2>1, JobEnds DEF EndDocker, stores, Gate
  <1>6. CASE InvalidateCloudfront(r)
    <2>1. "invalidate-cloudfront" \in PJob /\ "invalidate-cloudfront" \notin PromotionJobs
      BY DEF PJob, PromotionJobs
    <2> QED  BY <1>6, <2>1, JobEnds DEF InvalidateCloudfront, stores, Gate
  <1>7. CASE DispatchMaven(r)
    <2>1. "publish-to-maven" \in PJob /\ "publish-to-maven" \notin PromotionJobs
      BY DEF PJob, PromotionJobs
    <2> QED  BY <1>7, <2>1, JobEnds DEF DispatchMaven, stores, Gate
  <1> QED  BY <1>1, <1>2, <1>3, <1>4, <1>5, <1>6, <1>7

(* An object is written while the job of its stage runs, so before the job *)
(* succeeds and before the run clears the caches.                          *)
LEMMA ObjectUploaded ==
  ASSUME PromoInv, NEW r \in PromotionRuns, NEW s \in Stage, Upload(r, s)
  PROVE  PromoInv'
  <1> DEFINE object == Head(left[r][s])
             rest == Tail(left[r][s])
  <1>1. /\ PromoTypeOK /\ UploadInv(r) /\ CopiesInv(r) /\ OnlyPlanned /\ ImagesFollowPackages
        /\ \A h \in PJob : JobInv(r, h) /\ Left(r, h)
        /\ result[r][StageJob(s)] = "running" /\ left[r][s] # <<>>
        /\ left' = [left EXCEPT ![r][s] = rest]
        /\ production' = [production EXCEPT ![s] = production[s] \cup {object}]
        /\ stale' \subseteq stale \cup {r}
        /\ UNCHANGED <<inputs, result, copies, tagged>>
    BY DEF PromoInv, PromotionRunInv, Upload
  <1>2. /\ object \in PromotedObject /\ rest \in Seq(PromotedObject)
        /\ ToSet(left[r][s]) = {object} \cup ToSet(rest)
    <2>1. left[r][s] \in Seq(PromotedObject)
      BY <1>1 DEF PromoTypeOK
    <2> QED  BY <1>1, <2>1, HeadAndTail
  <1> HIDE DEF object, rest
  <1>3. /\ left' \in [PromotionRuns -> [Stage -> Seq(PromotedObject)]]
        /\ production' \in [Stage -> SUBSET PromotedObject]
        /\ left'[r][s] = rest /\ production'[s] = production[s] \cup {object}
        /\ \A x \in Stage \ {s} : left'[r][x] = left[r][x] /\ production'[x] = production[x]
        /\ \A q \in PromotionRuns \ {r} : left'[q] = left[q]
    <2>1. left \in [PromotionRuns -> [Stage -> Seq(PromotedObject)]]
      BY <1>1 DEF PromoTypeOK
    <2>2. production \in [Stage -> SUBSET PromotedObject]
      BY <1>1 DEF PromoTypeOK
    <2>3. /\ left' \in [PromotionRuns -> [Stage -> Seq(PromotedObject)]]
          /\ left'[r][s] = rest
          /\ \A x \in Stage \ {s} : left'[r][x] = left[r][x]
          /\ \A q \in PromotionRuns \ {r} : left'[q] = left[q]
      BY <1>1, <1>2, <2>1
    <2>4. /\ production' \in [Stage -> SUBSET PromotedObject]
          /\ production'[s] = production[s] \cup {object}
          /\ \A x \in Stage \ {s} : production'[x] = production[x]
      BY <1>1, <1>2, <2>2
    <2> QED  BY <2>3, <2>4
  <1>4. PromoTypeOK' /\ \A q \in PromotionRuns \ {r} : RunStays(q)
    BY <1>1, <1>3 DEF PromoTypeOK, RunStays
  <1>5. \A h \in PJob : JobInv(r, h)'
    BY <1>1, OrderOfJobs, JobUndisturbed
  <1>6. ASSUME NEW h \in PJob, result[r][h] = "success"
        PROVE  /\ h \in PromotionJobs /\ ~inputs[r].dryRun =>
                    \A x \in StagesOf(r, h) : left'[r][x] = <<>>
               /\ h # "invalidate-cloudfront"
    <2>1. \A x \in StagesOf(r, h) : x # s /\ x \in Stage
      BY <1>1, <1>6 DEF StagesOf, Selected
    <2>2. ASSUME h = "invalidate-cloudfront"
          PROVE  FALSE
      <3>1. StageJob(s) \in Ancestors[h]
        BY <2>2, AncestorsAre DEF StageJob, AllBefore, PJob
      <3> QED  BY <3>1, <1>1, <1>6 DEF JobInv, Over
    <2> QED  BY <1>1, <1>3, <1>6, <2>1, <2>2 DEF Left
  <1>7. \A h \in PJob : Left(r, h)'
    BY <1>1, <1>6 DEF Left, StagesOf, Selected
  <1>8. OnlyPlanned'
    BY <1>1, <1>2, <1>3 DEF UploadInv, OnlyPlanned
  <1>9. UploadInv(r)'
    <2>1. \A x \in Stage : ToSet(left'[r][x]) \subseteq ToSet(UploadPlan(x))
      BY <1>1, <1>2, <1>3 DEF UploadInv
    <2>2. \A x \in Selected(r) :
            ToSet(UploadPlan(x)) \subseteq production'[x] \cup ToSet(left'[r][x])
      BY <1>1, <1>2, <1>3 DEF UploadInv, Selected
    <2> QED  BY <1>1, <2>1, <2>2 DEF UploadInv, Selected
  <1>10. CopiesInv(r)'
    BY <1>1 DEF CopiesInv
  <1>11. StoresGrow
    BY <1>1, <1>3 DEF StoresGrow
  <1>12. ImagesFollowPackages'
    <2>1. \A p : Complete(p) => Complete(p)'
      BY <1>8, <1>11, CompleteStays DEF StoresGrow
    <2> QED  BY <1>1, <2>1 DEF ImagesFollowPackages
  <1>13. PromotionRunInv(r)'
    BY <1>5, <1>7, <1>9, <1>10 DEF PromotionRunInv
  <1> QED  BY <1>1, <1>4, <1>8, <1>11, <1>12, <1>13, RunMoves

(* The next copy of the plan: the packages are there, and so is the        *)
(* version, unless it is the version that is copied.                       *)
LEMMA ImageCopied ==
  ASSUME PromoInv, NEW r \in PromotionRuns, CopyImage(r)
  PROVE  PromoInv'
  <1> DEFINE rest == copies[r]
             t == Head(rest)
             plan == DockerPlan(inputs[r])
             made == Len(plan) - Len(rest)
  <1>1. /\ PromoTypeOK /\ UploadInv(r) /\ CopiesInv(r) /\ OnlyPlanned /\ ImagesFollowPackages
        /\ \A h \in PJob : JobInv(r, h) /\ Left(r, h)
        /\ result[r]["promote-docker"] = "running" /\ ~inputs[r].dryRun /\ rest # <<>>
        /\ tagged' = tagged \cup {t} /\ copies' = [copies EXCEPT ![r] = Tail(rest)]
        /\ UNCHANGED <<inputs, result, left, production, stale>>
    BY DEF PromoInv, PromotionRunInv, CopyImage
  <1>1a. /\ copies'[r] = Tail(rest) /\ copies \in [PromotionRuns -> Seq(Image)]
         /\ \A q \in PromotionRuns \ {r} : copies'[q] = copies[q]
    BY <1>1 DEF PromoTypeOK
  <1>2. InOrder(plan, inputs[r])
    BY PlanInOrder
  <1> HIDE DEF plan
  <1>3. /\ rest \in Seq(Image) /\ Len(rest) \in Nat /\ Len(rest) >= 1
        /\ Len(plan) \in Nat /\ made \in Nat /\ made + 1 \in 1 .. Len(plan)
        /\ \A i \in 1 .. Len(rest) : rest[i] = plan[made + i]
        /\ \A i \in 1 .. made : plan[i] \in tagged
    <2>1. rest \in Seq(Image) /\ Len(rest) \in Nat /\ Len(rest) >= 1
      BY <1>1, <1>1a
    <2>2. plan \in Seq(Image) /\ Len(plan) \in Nat
      BY <1>2 DEF InOrder
    <2>3. /\ made >= 0
          /\ \A i \in 1 .. Len(rest) : rest[i] = plan[made + i]
          /\ \A i \in 1 .. made : plan[i] \in tagged
      BY <1>1 DEF CopiesInv, plan
    <2>4. made \in Nat /\ made + 1 \in 1 .. Len(plan)
      BY <2>1, <2>2, <2>3
    <2> QED  BY <2>1, <2>2, <2>3, <2>4
  <1> HIDE DEF rest
  <1>4. /\ t = rest[1] /\ t \in Image /\ t = plan[made + 1]
        /\ Tail(rest) \in Seq(Image) /\ Len(Tail(rest)) = Len(rest) - 1
        /\ \A i \in 1 .. Len(rest) - 1 : Tail(rest)[i] = rest[i + 1]
    BY <1>1, <1>3
  <1>4a. \A m \in Nat : \A i \in 1 .. m + 1 : i \in 1 .. m \/ i = m + 1
    OBVIOUS
  <1>5. PromoTypeOK' /\ \A q \in PromotionRuns \ {r} : RunStays(q)
    <2>1. copies' \in [PromotionRuns -> Seq(Image)]
      BY <1>1, <1>1a, <1>4
    <2> QED  BY <1>1, <1>1a, <1>4, <2>1 DEF PromoTypeOK, RunStays
  <1>6. \A h \in PJob : JobInv(r, h)'
    BY <1>1, OrderOfJobs, JobUndisturbed
  <1>7. \A h \in PJob : Left(r, h)'
    <2>1. result[r]["promote-docker"] # "success"
      BY <1>1
    <2> QED  BY <1>1, <2>1 DEF Left, StagesOf, Selected
  <1>8. UploadInv(r)' /\ OnlyPlanned'
    BY <1>1 DEF UploadInv, Selected, OnlyPlanned
  <1>9. CopiesInv(r)'
    <2>0. Len(Tail(rest)) = Len(rest) - 1 /\ Len(rest) \in Nat /\ Len(plan) \in Nat /\ made \in Nat
      BY <1>3, <1>4
    <2>0a. Len(plan) - Len(Tail(rest)) = made + 1 /\ made + 1 >= 0
      <3>1. \A x, y \in Nat : \A z : z = y - 1 => x - z = (x - y) + 1
        OBVIOUS
      <3>2. made + 1 >= 0
        BY <2>0
      <3> QED  BY <2>0, <3>1, <3>2
    <2> HIDE DEF made
    <2>1. \A i \in 1 .. Len(Tail(rest)) :
            /\ i + 1 \in 1 .. Len(rest) /\ i \in 1 .. Len(rest) - 1
            /\ (made + 1) + i = made + (i + 1)
      BY <2>0
    <2>2. \A i \in 1 .. Len(Tail(rest)) : Tail(rest)[i] = plan[(made + 1) + i]
      BY <1>3, <1>4, <2>1
    <2>3. \A i \in 1 .. made + 1 : i \in 1 .. made \/ i = made + 1
      BY <1>3, <1>4a
    <2>4. \A i \in 1 .. made + 1 : plan[i] \in tagged'
      BY <1>1, <1>3, <1>4, <2>3
    <2>5. plan' = plan
      BY <1>1 DEF plan
    <2> HIDE DEF t
    <2> QED  BY <1>1a, <2>0a, <2>2, <2>4, <2>5 DEF CopiesInv, plan
  <1>10. Complete(t[1])
    <2>1. t[1] \in inputs[r].projects
      BY <1>2, <1>3, <1>4 DEF InOrder
    <2>2. "promote-docker" \in PJob
      BY DEF PJob
    <2>3. /\ result[r]["publish"] = "success"
          /\ result[r]["promote-opensearch-tar-x64"] \in {"success", "skipped"}
      BY <1>1, <2>2 DEF JobInv, Ran
    <2> QED  BY <1>1, <2>1, <2>3, PublishedIsComplete
  <1>11. <<t[1], t[2], "version">> \in tagged'
    <2>1. PICK h \in 1 .. made + 1 : plan[h] = <<t[1], t[2], "version">>
      BY <1>2, <1>3, <1>4 DEF InOrder
    <2>2. h \in 1 .. made \/ h = made + 1
      BY <1>3, <1>4a
    <2> QED  BY <1>1, <1>3, <1>4, <2>1, <2>2
  <1>12. \A p : Complete(p)' <=> Complete(p)
    BY <1>1 DEF Complete
  <1> HIDE DEF t
  <1>13. ImagesFollowPackages'
    BY <1>1, <1>10, <1>11, <1>12 DEF ImagesFollowPackages
  <1>14. StoresGrow
    BY <1>1 DEF StoresGrow
  <1>15. PromotionRunInv(r)'
    BY <1>6, <1>7, <1>8, <1>9 DEF PromotionRunInv
  <1> QED  BY <1>1, <1>5, <1>8, <1>13, <1>14, <1>15, RunMoves

(* Every promotion keeps the invariant, through failures, cancellations,   *)
(* reruns of a part of a run and other runs beside it.                     *)
THEOREM PromotionConsistent == PromoSpec => []PromoInv
  <1>1. PromoInv /\ [PromoNext]_promoVars => PromoInv'
    <2> SUFFICES ASSUME PromoInv, [PromoNext]_promoVars PROVE PromoInv'
      OBVIOUS
    <2>1. CASE UNCHANGED promoVars
      BY <2>1 DEF promoVars, stores, PromoInv, PromotionRunInv, PromoTypeOK, JobInv, Left, Ran,
         Skipped, Gate, Succeeded, Over, StagesOf, Selected, UploadInv, CopiesInv, OnlyPlanned,
         ImagesFollowPackages, Complete
    <2>2. CASE PromoNext
      BY <2>2, RunDispatched, JobsRunAgain, RunCancelled, JobStarts, EndsKeep, ObjectUploaded,
         ImageCopied DEF PromoNext, RunStep
    <2> QED  BY <2>1, <2>2
  <1> QED  BY <1>1, InitPromotion, PTL DEF PromoSpec

(* No production tag of an image before the packages of its product, and   *)
(* none before its version.                                                *)
THEOREM ImagesComeAfterPackages == PromoSpec => []ImagesFollowPackages
  <1>1. PromoInv => ImagesFollowPackages
    BY DEF PromoInv
  <1> QED  BY <1>1, PromotionConsistent, PTL

(* A run reaches Maven Central when everything else of it is in            *)
(* production, and it has cleared the caches over what it wrote.           *)
THEOREM MavenComesLast == PromoSpec => MavenIsLast
  <1>1. ASSUME PromoInv, [PromoNext]_promoVars, NEW r \in maven' \ maven
        PROVE  /\ r \notin stale
               /\ \A p \in inputs[r].projects : Complete(p)
               /\ ToSet(DockerPlan(inputs[r])) \subseteq tagged
    <2>1. r \in PromotionRuns /\ result[r]["publish-to-maven"] = "running"
      <3>1. ~UNCHANGED maven
        BY <1>1
      <3>2. PICK q \in PromotionRuns : DispatchMaven(q)
        BY <1>1, <3>1 DEF PromoNext, RunStep, promoVars, stores, Dispatch, RerunFailed, Cancel,
           StartJob, EndPromotion, ValidateArtifacts, CheckParameters, PublishGate, Upload,
           CopyImage, EndDocker, InvalidateCloudfront
      <3>3. maven' = maven \cup {q} /\ result[q]["publish-to-maven"] = "running"
        BY <3>1, <3>2 DEF DispatchMaven, EndJob
      <3> QED  BY <1>1, <3>3
    <2>2. /\ "publish-to-maven" \in PJob
          /\ Ancestors["publish-to-maven"] =
               {"parameters", "validate-staging", "promote-repos", "promote-artifacts", "publish",
                "promote-opensearch-tar-x64", "invalidate-cloudfront", "promote-docker",
                "validate-production"}
      BY AncestorsAre DEF AllBefore, PJob
    <2>3. Succeeded(r, Ancestors["publish-to-maven"]) /\ ~inputs[r].dryRun
      BY <1>1, <2>1, <2>2 DEF PromoInv, PromotionRunInv, JobInv, Ran
    <2>4. /\ result[r]["publish"] = "success"
          /\ result[r]["promote-opensearch-tar-x64"] = "success"
          /\ result[r]["promote-docker"] = "success"
          /\ result[r]["invalidate-cloudfront"] = "success"
      BY <2>2, <2>3 DEF Succeeded
    <2>5. r \notin stale /\ copies[r] = <<>>
      BY <1>1, <2>1, <2>3, <2>4 DEF PromoInv, PromotionRunInv, Left, PJob
    <2>6. ToSet(DockerPlan(inputs[r])) \subseteq tagged
      <3>1. InOrder(DockerPlan(inputs[r]), inputs[r])
        BY PlanInOrder
      <3> DEFINE plan == DockerPlan(inputs[r])
      <3>2. plan \in Seq(Image) /\ CopiesInv(r)
        BY <1>1, <2>1, <3>1 DEF InOrder, PromoInv, PromotionRunInv
      <3> HIDE DEF plan
      <3>3. \A i \in 1 .. Len(plan) : plan[i] \in tagged
        BY <2>5, <3>2 DEF CopiesInv, plan
      <3>4. DOMAIN plan = 1 .. Len(plan)
        BY <3>2
      <3> QED  BY <3>3, <3>4 DEF ToSet, plan
    <2> QED  BY <1>1, <2>1, <2>3, <2>4, <2>5, <2>6, PublishedIsComplete
  <1>2. PromoInv /\ [PromoNext]_promoVars
          => [\A r \in maven' \ maven :
                /\ r \notin stale
                /\ \A p \in inputs[r].projects : Complete(p)
                /\ ToSet(DockerPlan(inputs[r])) \subseteq tagged]_promoVars
    BY <1>1
  <1> QED  BY <1>2, PromotionConsistent, PTL DEF PromoSpec, MavenIsLast

-----------------------------------------------------------------------------
(* ResultIssues.                                                           *)

Document ==
  [component : Listed \cup CiGroups, cell : Cells, run : 1 .. MaxTestRuns, result : Outcomes]
Issue == [state : {"open", "recent", "old"}, body : SUBSET Cells]
Notification ==
  [phase : {"idle", "passed", "rows", "find", "edit", "reopen", "create", "close", "done"},
   kind : IssueKind, seen : SUBSET Document,
   passed : SUBSET (Listed \cup CiGroups), failed : SUBSET (Listed \cup CiGroups),
   open : SUBSET Listed, close : SUBSET Listed, rows : [Listed -> SUBSET Cells],
   done : SUBSET Listed, at : Nat, errors : Nat]

IssuesTypeOK ==
  /\ documents \subseteq Document /\ IsFiniteSet(documents)
  /\ issue \in [Title -> Seq(Issue)]
  /\ notifier \in [Notifiers -> Notification]
  /\ alone \subseteq Notifiers
  /\ mishaps \in Nat

Planned(x) == x.phase \notin {"idle", "passed", "rows"}

(* Where a notification stands: what its queries have told it, and what it *)
(* found of the issue it is about to write.                                *)
NotifierInv(n) ==
  LET x == notifier[n] IN
  /\ ~Planned(x) => x.done = {}
  /\ x.phase = "rows" =>
       Cardinality(x.seen) > QuerySize \/ \A d \in x.seen : d.component \in x.failed
  /\ Planned(x) =>
       /\ x.open \cap x.close = {}
       /\ x.kind = "integ-test" =>
            Cardinality(x.seen) > QuerySize \/ \A d \in x.seen : d.component \notin x.close
  /\ x.phase \in {"edit", "reopen", "create", "close"} => Pending(x) # {}
  /\ x.phase \in {"edit", "reopen", "close"} => x.at \in DOMAIN issue[TitleOf(x)]
  /\ x.phase \in {"edit", "reopen", "create"} => NextIn(x) \in x.open
  /\ x.phase = "close" => NextIn(x) \notin x.open
  /\ x.phase = "done" => Pending(x) = {}

(* What FailuresAreReported asks of one issue, when the issues are `is'.   *)
Reported(is, kind, rows, c) ==
  \E i \in DOMAIN is[<<kind, c>>] :
    \/ is[<<kind, c>>][i].state = "open" /\ is[<<kind, c>>][i].body = rows[c]
    \/ kind = "flaky-test" /\ rows[c] \subseteq is[<<kind, c>>][i].body
NotOpen(is, kind, c) ==
  \/ Len(is[<<kind, c>>]) > 1
  \/ \A i \in DOMAIN is[<<kind, c>>] : is[<<kind, c>>][i].state # "open"
Handled(is, x, cs) ==
  \A c \in cs : /\ c \in x.open => Reported(is, x.kind, x.rows, c)
                /\ c \in x.close => NotOpen(is, x.kind, c)

(* What a job that is alone has handled is as its plan wants it.           *)
AloneInv(n) ==
  LET x == notifier[n] IN
  /\ \A m \in Notifiers : Writing(m) => m = n
  /\ Planned(x) /\ x.errors = 0 => Handled(issue, x, x.done)
  /\ x.phase = "edit" => issue[TitleOf(x)][x.at].state = "open"

IssuesInv ==
  /\ IssuesTypeOK
  /\ \A n \in Notifiers : NotifierInv(n)
  /\ \A n \in alone : AloneInv(n)

(* What a job looks up next is pending, and of those to open if there are  *)
(* any.                                                                    *)
LEMMA NextIsPending ==
  ASSUME NEW x \in Notification, Pending(x) # {}
  PROVE  /\ NextIn(x) \in Pending(x) /\ NextIn(x) \in Listed /\ NextIn(x) \notin x.done
         /\ NextIn(x) \in x.open \/ NextIn(x) \in x.close
         /\ TitleOf(x) = <<x.kind, NextIn(x)>> /\ TitleOf(x) \in Title
  <1> DEFINE first == IF x.open \ x.done # {} THEN x.open \ x.done ELSE Pending(x)
  <1>1. first # {} /\ first \subseteq Pending(x)
    BY DEF Pending
  <1>2. NextIn(x) = CHOOSE c \in first : TRUE
    BY DEF NextIn
  <1> HIDE DEF first
  <1>3. NextIn(x) \in first
    BY <1>1, <1>2
  <1>4. NextIn(x) \in Pending(x)
    BY <1>1, <1>3
  <1> QED  BY <1>4 DEF Pending, TitleOf, Title, Notification

(* It does not depend on where the job is.                                 *)
LEMMA SameTitle ==
  ASSUME NEW x, NEW y, y.kind = x.kind, y.open = x.open, y.close = x.close, y.done = x.done
  PROVE  NextIn(y) = NextIn(x) /\ TitleOf(y) = TitleOf(x) /\ Pending(y) = Pending(x)
  BY DEF NextIn, TitleOf, Pending

(* Writing one issue.                                                      *)
LEMMA OneIssueSet ==
  ASSUME IssuesTypeOK, NEW t \in Title, NEW i \in DOMAIN issue[t], NEW v \in Issue,
         issue' = [issue EXCEPT ![t][i] = v]
  PROVE  /\ issue' \in [Title -> Seq(Issue)]
         /\ \A u \in Title : u # t => issue'[u] = issue[u]
         /\ \A u \in Title : DOMAIN issue'[u] = DOMAIN issue[u] /\ Len(issue'[u]) = Len(issue[u])
         /\ issue'[t][i] = v
         /\ \A j \in DOMAIN issue[t] : j # i => issue'[t][j] = issue[t][j]
  <1> DEFINE s == issue[t]
             new == [s EXCEPT ![i] = v]
  <1>1. issue' = [issue EXCEPT ![t] = new]
    OBVIOUS
  <1>2. s \in Seq(Issue) /\ i \in 1 .. Len(s) /\ DOMAIN s = 1 .. Len(s) /\ Len(s) \in Nat
    BY DEF IssuesTypeOK
  <1>3. /\ new \in Seq(Issue) /\ Len(new) = Len(s)
        /\ \A j \in 1 .. Len(s) : new[j] = IF j = i THEN v ELSE s[j]
    BY <1>2, ExceptSeq
  <1>4. DOMAIN new = DOMAIN s
    BY <1>2, <1>3
  <1> HIDE DEF new
  <1> QED  BY <1>1, <1>2, <1>3, <1>4 DEF IssuesTypeOK

(* A job stays where it is while issues are only written or added.         *)
LEMMA NotifierStays ==
  ASSUME IssuesInv, NEW m \in Notifiers, notifier'[m] = notifier[m],
         \A t \in Title : DOMAIN issue[t] \subseteq DOMAIN issue'[t]
  PROVE  NotifierInv(m)'
  <1> DEFINE x == notifier[m]
  <1>1. /\ NotifierInv(m) /\ x \in Notification /\ notifier'[m] = x
    BY DEF IssuesInv, IssuesTypeOK
  <1>2. TitleOf(x)' = TitleOf(notifier'[m]) /\ NextIn(x)' = NextIn(notifier'[m])
        /\ Pending(x)' = Pending(notifier'[m])
    BY DEF TitleOf, NextIn, Pending
  <1>3. x.phase \in {"edit", "reopen", "close"} => x.at \in DOMAIN issue'[TitleOf(x)]
    BY <1>1, NextIsPending DEF NotifierInv
  <1> QED  BY <1>1, <1>2, <1>3 DEF NotifierInv, Planned, Pending, NextIn, TitleOf

(* A step of one job leaves the others where they are.                     *)
LEMMA OtherNotifiers ==
  ASSUME IssuesInv, NEW n \in Notifiers, \A m \in Notifiers \ {n} : notifier'[m] = notifier[m],
         \A t \in Title : DOMAIN issue[t] \subseteq DOMAIN issue'[t]
  PROVE  \A m \in Notifiers \ {n} : NotifierInv(m)'
  BY NotifierStays

(* A job stays alone when the issues do not change.                        *)
LEMMA StaysAlone ==
  ASSUME IssuesInv, NEW n \in Notifiers, \A m \in Notifiers \ {n} : notifier'[m] = notifier[m],
         issue' = issue, Writing(n)' => Writing(n)
  PROVE  \A m \in alone \ {n} : AloneInv(m)'
  <1> SUFFICES ASSUME NEW m \in alone \ {n} PROVE AloneInv(m)'
    OBVIOUS
  <1>1. AloneInv(m) /\ m \in Notifiers /\ notifier'[m] = notifier[m]
    BY DEF IssuesInv, IssuesTypeOK
  <1>2. \A k \in Notifiers : Writing(k)' => Writing(k)
    BY DEF Writing
  <1> QED  BY <1>1, <1>2 DEF AloneInv, Planned, Handled, Reported, NotOpen, InState, TitleOf,
     NextIn, Pending

(* The end of a write: the job has done one more of its issues.            *)
LEMMA IssueWritten ==
  ASSUME IssuesInv, NEW n \in Notifiers, NEW e \in {0, 1}, Writing(n), Pending(notifier[n]) # {},
         Written(n, e), issue' \in [Title -> Seq(Issue)], mishaps' \in Nat,
         \A t \in Title : /\ t # TitleOf(notifier[n]) => issue'[t] = issue[t]
                          /\ DOMAIN issue[t] \subseteq DOMAIN issue'[t],
         n \in alone /\ notifier[n].errors = 0 /\ e = 0
           => Handled(issue', notifier[n], {NextIn(notifier[n])})
  PROVE  IssuesInv'
  <1> DEFINE x == notifier[n]
             c == NextIn(x)
             y == [x EXCEPT !.phase = "find", !.at = 0, !.errors = @ + e, !.done = @ \cup {c}]
  <1>1. x \in Notification /\ x.errors \in Nat
    BY DEF IssuesInv, IssuesTypeOK, Notification
  <1>2. /\ c \in Listed /\ c \notin x.done /\ TitleOf(x) = <<x.kind, c>>
        /\ c \in x.open \/ c \in x.close
    BY <1>1, NextIsPending
  <1>3. /\ notifier' = [notifier EXCEPT ![n] = y] /\ documents' = documents /\ alone' = alone
        /\ notifications' = notifications
    BY DEF Written, Becomes
  <1>4. x.errors + e \in Nat
    BY <1>1
  <1>5. /\ y \in Notification /\ y.phase = "find" /\ y.kind = x.kind /\ y.rows = x.rows
        /\ y.open = x.open /\ y.close = x.close /\ y.done = x.done \cup {c}
        /\ y.errors = x.errors + e /\ y.seen = x.seen
    BY <1>1, <1>2, <1>4 DEF Notification
  <1>6. c \in y.done
    BY <1>5
  <1> HIDE DEF y, c
  <1>7. notifier'[n] = y /\ \A m \in Notifiers \ {n} : notifier'[m] = notifier[m]
    BY <1>3 DEF IssuesInv, IssuesTypeOK
  <1>8. IssuesTypeOK'
    BY <1>3, <1>5 DEF IssuesInv, IssuesTypeOK
  <1>9. NotifierInv(n)'
    <2>1. NotifierInv(n) /\ Planned(x)
      BY DEF IssuesInv, Writing, Planned
    <2> QED  BY <1>5, <1>7, <2>1 DEF NotifierInv, Planned
  <1>10. \A m \in Notifiers : NotifierInv(m)'
    BY <1>7, <1>9, OtherNotifiers
  <1>11. ASSUME NEW m \in alone PROVE AloneInv(m)'
    <2>1. AloneInv(m) /\ m \in Notifiers /\ m = n
      BY DEF IssuesInv, IssuesTypeOK, AloneInv
    <2>2. \A k \in Notifiers : Writing(k)' => k = n
      BY <1>7, <2>1 DEF AloneInv, Writing
    <2>3. ASSUME y.errors = 0 PROVE Handled(issue', y, y.done)
      <3>1. x.errors = 0 /\ e = 0
        BY <1>1, <1>5, <2>3
      <3>2. Handled(issue, x, x.done) /\ Handled(issue', x, {c})
        BY <2>1, <3>1 DEF AloneInv, Planned, Writing, c
      <3>3. ASSUME NEW d \in x.done PROVE issue'[<<x.kind, d>>] = issue[<<x.kind, d>>]
        <4>1. d \in Listed /\ d # c /\ x.kind \in IssueKind
          BY <1>1, <1>2 DEF Notification
        <4> QED  BY <1>2, <4>1 DEF Title
      <3>4. Handled(issue', x, x.done)
        <4> SUFFICES ASSUME NEW d \in x.done
                     PROVE  /\ d \in x.open => Reported(issue', x.kind, x.rows, d)
                            /\ d \in x.close => NotOpen(issue', x.kind, d)
          BY DEF Handled
        <4>1. /\ d \in x.open => Reported(issue, x.kind, x.rows, d)
              /\ d \in x.close => NotOpen(issue, x.kind, d)
          BY <3>2 DEF Handled
        <4>2. issue'[<<x.kind, d>>] = issue[<<x.kind, d>>]
          BY <3>3
        <4> QED  BY <4>1, <4>2 DEF Reported, NotOpen
      <3> QED  BY <1>5, <3>2, <3>4 DEF Handled
    <2> QED  BY <1>5, <1>7, <2>1, <2>2, <2>3 DEF AloneInv, Planned
  <1> QED  BY <1>3, <1>8, <1>10, <1>11 DEF IssuesInv

(* A step of one job that writes no issue.                                 *)
LEMMA NotifierMoves ==
  ASSUME IssuesInv, NEW n \in Notifiers, NEW y \in Notification,
         notifier' = [notifier EXCEPT ![n] = y], issue' = issue, documents' = documents,
         mishaps' \in Nat, alone' \subseteq Notifiers, NotifierInv(n)',
         n \in alone' => AloneInv(n)',
         \A m \in alone' \ {n} : m \in alone /\ (Writing(n)' => Writing(n))
  PROVE  IssuesInv'
  <1>1. notifier'[n] = y /\ \A m \in Notifiers \ {n} : notifier'[m] = notifier[m]
    BY DEF IssuesInv, IssuesTypeOK
  <1>2. IssuesTypeOK'
    BY DEF IssuesInv, IssuesTypeOK
  <1>3. \A m \in Notifiers : NotifierInv(m)'
    BY <1>1, OtherNotifiers
  <1>4. \A m \in alone' : AloneInv(m)'
    BY <1>1, StaysAlone
  <1> QED  BY <1>2, <1>3, <1>4 DEF IssuesInv

(* The job that begins to write while no other does is alone.              *)
LEMMA AloneAtTheStart ==
  ASSUME IssuesInv, NEW n \in Notifiers, BeginWriting(n), issue' = issue, NEW y \in Notification,
         notifier' = [notifier EXCEPT ![n] = y], y.phase = "find", y.done = {}
  PROVE  alone' \subseteq {n} /\ (n \in alone' => AloneInv(n)')
  <1>1. notifier'[n] = y /\ \A m \in Notifiers \ {n} : notifier'[m] = notifier[m]
    BY DEF IssuesInv, IssuesTypeOK
  <1>2. alone' \subseteq {n}
    BY DEF BeginWriting
  <1>3. ASSUME n \in alone' PROVE \A m \in Notifiers : Writing(m)' => m = n
    <2>1. \A m \in Notifiers : ~Writing(m)
      BY <1>3 DEF BeginWriting
    <2> QED  BY <1>1, <2>1 DEF Writing
  <1> QED  BY <1>1, <1>2, <1>3 DEF AloneInv, Handled

(* At the start nothing has been reported.                                 *)
LEMMA IssuesStart ==
  ASSUME IssuesInit
  PROVE  IssuesInv
  <1>1. NoNotifier \in Notification
    BY DEF NoNotifier, Notification, IssueKind
  <1>2. \A t \in Title : issue[t] \in Seq(Issue)
    BY DEF IssuesInit
  <1>3. IssuesTypeOK
    BY <1>1, <1>2, FS_EmptySet DEF IssuesTypeOK, IssuesInit
  <1>4. \A n \in Notifiers : NotifierInv(n)
    BY DEF IssuesInit, NotifierInv, NoNotifier, Planned
  <1> QED  BY <1>3, <1>4 DEF IssuesInv, IssuesInit

(* The results of a run are finitely many.                                 *)
LEMMA ResultsPublished ==
  ASSUME IssuesInv, NEW cell \in Cells, NEW tested \in Reports, PublishResults(cell, tested)
  PROVE  IssuesInv'
  <1>1. PICK n \in 1 .. MaxTestRuns, outcome \in [tested -> Outcomes] :
          documents' = documents \cup
            {[component |-> c, cell |-> cell, run |-> n, result |-> outcome[c]] : c \in tested}
    BY DEF PublishResults
  <1> DEFINE D == {[component |-> c, cell |-> cell, run |-> n, result |-> outcome[c]] :
                     c \in tested}
             f == [c \in tested |->
                     [component |-> c, cell |-> cell, run |-> n, result |-> outcome[c]]]
  <1>2. tested \subseteq Listed \cup CiGroups /\ IsFiniteSet(tested)
    BY ResultIssuesAssumption, FS_Subset DEF Reports
  <1>3. D \subseteq Document
    BY <1>2 DEF Document
  <1>4. IsFiniteSet(D)
    <2>1. D = {f[c] : c \in tested}
      OBVIOUS
    <2>2. f \in Surjection(tested, D)
      BY <2>1 DEF Surjection
    <2> QED  BY <1>2, <2>2, FS_Surjection
  <1>5. documents' \subseteq Document /\ IsFiniteSet(documents')
    BY <1>1, <1>3, <1>4, FS_Union DEF IssuesInv, IssuesTypeOK
  <1>6. UNCHANGED <<issue, notifier, alone, mishaps>>
    BY DEF PublishResults
  <1>7. IssuesTypeOK'
    BY <1>5, <1>6 DEF IssuesInv, IssuesTypeOK
  <1>8. \A m \in Notifiers : NotifierInv(m)'
    BY <1>6 DEF IssuesInv, NotifierInv, Planned, Pending, TitleOf, NextIn
  <1>9. \A m \in alone' : AloneInv(m)'
    BY <1>6 DEF IssuesInv, AloneInv, Writing, Planned, TitleOf, NextIn, Pending
  <1> QED  BY <1>7, <1>8, <1>9 DEF IssuesInv

(* A query that is not cut off returns every component that it asks for.   *)
LEMMA QueryFinds ==
  ASSUME IssuesInv, NEW verdict, NEW found \in Found(verdict)
  PROVE  /\ found \subseteq Listed \cup CiGroups
         /\ \/ Cardinality(With(verdict)) > QuerySize
            \/ \A d \in With(verdict) : d.component \in found
  <1> DEFINE T == With(verdict)
             total == Cardinality(T)
             size == IF total < QuerySize THEN total ELSE QuerySize
  <1>1. T \subseteq Document /\ IsFiniteSet(T) /\ total \in Nat
    BY FS_Subset, FS_CardinalityType DEF IssuesInv, IssuesTypeOK, With
  <1>2. QuerySize \in Nat
    BY ResultIssuesAssumption
  <1>3. PICK S \in kSubset(size, T) : found = {d.component : d \in S}
    BY DEF Found
  <1>4. S \subseteq T /\ Cardinality(S) = size
    BY <1>3 DEF kSubset
  <1>5. found \subseteq Listed \cup CiGroups
    BY <1>1, <1>3, <1>4 DEF Document
  <1>6. ASSUME ~(total > QuerySize) PROVE S = T
    <2>1. size = total
      BY <1>1, <1>2, <1>6
    <2> QED  BY <1>1, <1>4, <2>1, FS_Subset
  <1> QED  BY <1>3, <1>5, <1>6

(* The rows of a component are cells, and the results that a job has seen  *)
(* are results.                                                            *)
LEMMA RowsAreCells ==
  ASSUME IssuesInv
  PROVE  /\ \A c : FailedRows(c) \subseteq Cells
         /\ \A verdict : With(verdict) \subseteq Document
  BY DEF IssuesInv, IssuesTypeOK, FailedRows, With

(* The queries.                                                            *)
LEMMA PassedQueried ==
  ASSUME IssuesInv, NEW n \in Notifiers, QueryPassed(n)
  PROVE  IssuesInv'
  <1>1. PICK found \in Found("passed") :
          StartNotifier(n, [NoNotifier EXCEPT !.phase = "passed", !.passed = found])
    BY DEF QueryPassed
  <1> DEFINE y == [NoNotifier EXCEPT !.phase = "passed", !.passed = found]
  <1>2. y \in Notification /\ y.phase = "passed" /\ y.done = {}
    BY QueryFinds DEF NoNotifier, Notification, IssueKind
  <1> HIDE DEF y
  <1>3. /\ notifier' = [notifier EXCEPT ![n] = y]
        /\ UNCHANGED <<issue, documents, alone, mishaps>>
    BY <1>1 DEF StartNotifier, Becomes, QueryPassed, y
  <1>4. notifier'[n] = y /\ \A m \in Notifiers \ {n} : notifier'[m] = notifier[m]
    BY <1>3 DEF IssuesInv, IssuesTypeOK
  <1>5. mishaps' \in Nat /\ alone' \subseteq Notifiers
    BY <1>3 DEF IssuesInv, IssuesTypeOK
  <1>6. NotifierInv(n)'
    BY <1>2, <1>4 DEF NotifierInv, Planned, NoNotifier
  <1>7. ~Writing(n)'
    BY <1>2, <1>4 DEF Writing
  <1>8. n \in alone' => AloneInv(n)'
    BY <1>2, <1>3, <1>4 DEF IssuesInv, AloneInv, Writing, Planned
  <1> QED  BY <1>2, <1>3, <1>5, <1>6, <1>7, <1>8, NotifierMoves

(* The failed components, with the results they were taken from.           *)
LEMMA FailedQueried ==
  ASSUME IssuesInv, NEW n \in Notifiers, QueryFailed(n)
  PROVE  IssuesInv'
  <1>1. PICK found \in Found("failed") :
          Becomes(n, [notifier[n] EXCEPT !.phase = "rows", !.failed = found,
                                         !.seen = With("failed")])
    BY DEF QueryFailed
  <1> DEFINE x == notifier[n]
             y == [x EXCEPT !.phase = "rows", !.failed = found, !.seen = With("failed")]
  <1>2. x \in Notification
    BY DEF IssuesInv, IssuesTypeOK
  <1>3. found \subseteq Listed \cup CiGroups /\ With("failed") \subseteq Document
    BY QueryFinds, RowsAreCells
  <1>4. /\ y \in Notification /\ y.phase = "rows" /\ y.failed = found
        /\ y.seen = With("failed") /\ y.done = {}
    <2>1. x.done = {}
      BY DEF IssuesInv, NotifierInv, Planned, QueryFailed
    <2> QED  BY <1>2, <1>3, <2>1 DEF Notification
  <1> HIDE DEF y
  <1>5. /\ notifier' = [notifier EXCEPT ![n] = y]
        /\ UNCHANGED <<issue, documents, alone, mishaps>>
    BY <1>1 DEF Becomes, QueryFailed, y
  <1>6. notifier'[n] = y /\ \A m \in Notifiers \ {n} : notifier'[m] = notifier[m]
    BY <1>5 DEF IssuesInv, IssuesTypeOK
  <1>7. mishaps' \in Nat /\ alone' \subseteq Notifiers
    BY <1>5 DEF IssuesInv, IssuesTypeOK
  <1>8. Cardinality(y.seen) > QuerySize \/ \A d \in y.seen : d.component \in y.failed
    BY <1>4, QueryFinds
  <1>9. NotifierInv(n)'
    BY <1>4, <1>6, <1>8 DEF NotifierInv, Planned
  <1>10. ~Writing(n)'
    BY <1>4, <1>6 DEF Writing
  <1>11. n \in alone' => AloneInv(n)'
    BY <1>4, <1>5, <1>6 DEF IssuesInv, AloneInv, Writing, Planned
  <1> QED  BY <1>4, <1>5, <1>7, <1>9, <1>10, <1>11, NotifierMoves

(* A plan: what to open and what to close are apart, and an integration    *)
(* test issue is to be closed only when the job saw no failure.            *)
LEMMA PlanStarts ==
  ASSUME IssuesInv, NEW n \in Notifiers, NEW y \in Notification, BeginWriting(n),
         notifier' = [notifier EXCEPT ![n] = y], issue' = issue, documents' = documents,
         mishaps' \in Nat, y.phase = "find", y.done = {}, y.open \cap y.close = {},
         y.kind = "integ-test" =>
           Cardinality(y.seen) > QuerySize \/ \A d \in y.seen : d.component \notin y.close
  PROVE  IssuesInv'
  <1>1. alone' \subseteq {n} /\ (n \in alone' => AloneInv(n)')
    BY AloneAtTheStart
  <1>2. notifier'[n] = y
    BY DEF IssuesInv, IssuesTypeOK
  <1>3. NotifierInv(n)'
    BY <1>2 DEF NotifierInv, Planned
  <1>4. alone' \subseteq Notifiers
    BY <1>1
  <1>5. \A m \in alone' \ {n} : m \in alone /\ (Writing(n)' => Writing(n))
    BY <1>1
  <1> QED  BY <1>1, <1>3, <1>4, <1>5, NotifierMoves

(* The plan of an integration test: a component that failed is not closed. *)
LEMMA RowsQueried ==
  ASSUME IssuesInv, NEW n \in Notifiers, QueryRows(n)
  PROVE  IssuesInv'
  <1> DEFINE x == notifier[n]
  <1>1. PICK unread \in SUBSET (x.failed \cap Listed) :
          LET rows == [c \in Listed |-> IF c \in x.failed \ unread THEN FailedRows(c) ELSE {}]
          IN  /\ IF unread = {} THEN UNCHANGED mishaps ELSE Mishap
              /\ Becomes(n, [x EXCEPT !.phase = "find", !.rows = rows,
                               !.passed = {}, !.failed = {},
                               !.open = {c \in Listed : rows[c] # {}},
                               !.close = ToClose(x)])
    BY DEF QueryRows
  <1> DEFINE rows == [c \in Listed |-> IF c \in x.failed \ unread THEN FailedRows(c) ELSE {}]
             y == [x EXCEPT !.phase = "find", !.rows = rows, !.passed = {}, !.failed = {},
                            !.open = {c \in Listed : rows[c] # {}}, !.close = ToClose(x)]
  <1>2. x \in Notification /\ x.phase = "rows" /\ NotifierInv(n)
    BY DEF IssuesInv, IssuesTypeOK, QueryRows
  <1>3. rows \in [Listed -> SUBSET Cells]
    BY RowsAreCells
  <1>4. ToClose(x) \subseteq Listed /\ ToClose(x) \cap x.failed = {}
    BY DEF ToClose
  <1>5. \A c \in Listed : rows[c] # {} => c \in x.failed
    OBVIOUS
  <1> HIDE DEF rows
  <1>6. /\ y \in Notification /\ y.phase = "find" /\ y.done = x.done /\ y.seen = x.seen
        /\ y.kind = x.kind /\ y.open = {c \in Listed : rows[c] # {}} /\ y.close = ToClose(x)
    BY <1>2, <1>3, <1>4 DEF Notification
  <1>7. notifier' = [notifier EXCEPT ![n] = y] /\ UNCHANGED documents
    BY <1>1 DEF Becomes, rows
  <1>8. mishaps' \in Nat
    BY <1>1 DEF Mishap, IssuesInv, IssuesTypeOK
  <1> HIDE DEF y
  <1>9. y.open \cap y.close = {}
    BY <1>4, <1>5, <1>6
  <1>10. x.done = {}
    BY <1>2 DEF NotifierInv, Planned
  <1>11. Cardinality(x.seen) > QuerySize \/ \A d \in x.seen : d.component \in x.failed
    BY <1>2 DEF NotifierInv
  <1>12. Cardinality(y.seen) > QuerySize \/ \A d \in y.seen : d.component \notin y.close
    BY <1>4, <1>6, <1>11
  <1>13. BeginWriting(n) /\ UNCHANGED issue
    BY DEF QueryRows
  <1> QED  BY <1>6, <1>7, <1>8, <1>9, <1>10, <1>12, <1>13, PlanStarts

(* The plans of the other producers.                                       *)
LEMMA PlanMade ==
  ASSUME IssuesInv, NEW n \in Notifiers, NEW kind \in IssueKind \ {"integ-test"},
         NEW toOpen \in SUBSET Listed, NEW toClose \in SUBSET Listed, NEW rows \in SUBSET Cells,
         PlanFrom(n, kind, toOpen, toClose, rows)
  PROVE  IssuesInv'
  <1> DEFINE y == [NoNotifier EXCEPT !.phase = "find", !.kind = kind,
                     !.open = toOpen, !.close = toClose \ toOpen,
                     !.rows = [c \in Listed |-> IF c \in toOpen THEN rows ELSE {}]]
  <1>1. /\ y \in Notification /\ y.phase = "find" /\ y.done = {} /\ y.open = toOpen
        /\ y.close = toClose \ toOpen /\ y.kind = kind
    BY DEF NoNotifier, Notification, IssueKind
  <1>2. /\ notifier' = [notifier EXCEPT ![n] = y] /\ BeginWriting(n)
        /\ UNCHANGED <<documents, issue, mishaps>>
    BY DEF PlanFrom, StartNotifier, Becomes
  <1>3. mishaps' \in Nat
    BY <1>2 DEF IssuesInv, IssuesTypeOK
  <1> HIDE DEF y
  <1> QED  BY <1>1, <1>2, <1>3, PlanStarts

(* Both of them: a build's failures, and the flaky tests.                  *)
LEMMA PlansMade ==
  ASSUME IssuesInv, NEW n \in Notifiers, PlanBuildIssues(n) \/ PlanFlakyIssues(n)
  PROVE  IssuesInv'
  <1>1. CASE PlanBuildIssues(n)
    <2>1. PICK results \in [Listed -> SUBSET {"passed", "failed"}] :
            PlanFrom(n, "distribution-build", {c \in Listed : "failed" \in results[c]},
                     {c \in Listed : "passed" \in results[c]}, {})
      BY <1>1 DEF PlanBuildIssues
    <2>2. "distribution-build" \in IssueKind \ {"integ-test"}
      BY DEF IssueKind
    <2> QED  BY <2>1, <2>2, PlanMade
  <1>2. CASE PlanFlakyIssues(n)
    <2>1. PICK classes \in SUBSET Listed, rows \in SUBSET Cells :
            PlanFrom(n, "flaky-test", classes, {}, rows)
      BY <1>2 DEF PlanFlakyIssues
    <2>2. "flaky-test" \in IssueKind \ {"integ-test"}
      BY DEF IssueKind
    <2> QED  BY <2>1, <2>2, PlanMade
  <1> QED  BY <1>1, <1>2

(* The job goes to write the issue it has looked up.                       *)
LEMMA GoesToWrite ==
  ASSUME IssuesInv, NEW n \in Notifiers, notifier[n].phase = "find", Pending(notifier[n]) # {},
         NEW phase \in {"edit", "reopen", "create", "close"}, NEW i \in Nat,
         notifier' = [notifier EXCEPT ![n] = [notifier[n] EXCEPT !.phase = phase, !.at = i]],
         UNCHANGED <<issue, documents, alone, mishaps>>,
         phase # "create" => i \in DOMAIN issue[TitleOf(notifier[n])],
         phase = "close" <=> NextIn(notifier[n]) \notin notifier[n].open,
         phase = "edit" => issue[TitleOf(notifier[n])][i].state = "open"
  PROVE  IssuesInv'
  <1> DEFINE x == notifier[n]
             y == [x EXCEPT !.phase = phase, !.at = i]
  <1>1. x \in Notification /\ NotifierInv(n)
    BY DEF IssuesInv, IssuesTypeOK
  <1>2. /\ y \in Notification /\ y.phase = phase /\ y.at = i /\ y.kind = x.kind
        /\ y.open = x.open /\ y.close = x.close /\ y.done = x.done /\ y.seen = x.seen
        /\ y.rows = x.rows /\ y.errors = x.errors
    BY <1>1 DEF Notification
  <1> HIDE DEF y
  <1>3. NextIn(y) = NextIn(x) /\ TitleOf(y) = TitleOf(x) /\ Pending(y) = Pending(x)
    BY <1>2, SameTitle
  <1>4. notifier' = [notifier EXCEPT ![n] = y]
    BY DEF y
  <1>5. notifier'[n] = y /\ \A m \in Notifiers \ {n} : notifier'[m] = notifier[m]
    BY <1>4 DEF IssuesInv, IssuesTypeOK
  <1>6. TitleOf(notifier[n])' = TitleOf(y) /\ NextIn(notifier[n])' = NextIn(y)
        /\ Pending(notifier[n])' = Pending(y)
    BY <1>5 DEF TitleOf, NextIn, Pending
  <1>7. NotifierInv(n)'
    <2>1. Planned(x)
      BY DEF Planned
    <2> QED  BY <1>1, <1>2, <1>3, <1>5, <1>6, <2>1 DEF NotifierInv, Planned
  <1>8. ASSUME n \in alone PROVE AloneInv(n)'
    <2>1. AloneInv(n) /\ Planned(x)
      BY <1>8 DEF IssuesInv, Planned
    <2>2. \A m \in Notifiers : Writing(m)' => m = n
      BY <1>5, <2>1 DEF AloneInv, Writing
    <2>3. y.errors = 0 => Handled(issue, y, y.done)
      BY <1>2, <2>1 DEF AloneInv, Handled
    <2>4. y.phase = "edit" => issue[TitleOf(y)][y.at].state = "open"
      BY <1>2, <1>3
    <2> QED  BY <1>5, <1>6, <2>2, <2>3, <2>4 DEF AloneInv
  <1>9. Writing(n)
    BY DEF Writing
  <1>10. mishaps' \in Nat /\ alone' \subseteq Notifiers
    BY DEF IssuesInv, IssuesTypeOK
  <1> QED  BY <1>2, <1>4, <1>7, <1>8, <1>9, <1>10, NotifierMoves

(* Looking up: the issue to write, or nothing to close.                    *)
LEMMA IssueFound ==
  ASSUME IssuesInv, NEW n \in Notifiers, Find(n)
  PROVE  IssuesInv'
  <1> DEFINE x == notifier[n]
             t == TitleOf(x)
             open == InState(t, {"open"})
             closed == InState(t, IF x.kind = "flaky-test" THEN {"recent", "old"} ELSE {"recent"})
  <1>1. x \in Notification /\ x.phase = "find" /\ Pending(x) # {} /\ x.at \in Nat
    BY DEF IssuesInv, IssuesTypeOK, Find, Notification
  <1>2. /\ NextIn(x) \in Listed /\ NextIn(x) \notin x.done
        /\ NextIn(x) \in x.open \/ NextIn(x) \in x.close
        /\ t = <<x.kind, NextIn(x)>> /\ t \in Title
    BY <1>1, NextIsPending
  <1>3. UNCHANGED <<issue, documents, alone, mishaps>>
    BY DEF Find, Becomes
  <1>4. \A i \in DOMAIN issue[t] : i \in Nat
    BY <1>2 DEF IssuesTypeOK, IssuesInv
  <1>5. open \subseteq DOMAIN issue[t] /\ closed \subseteq DOMAIN issue[t]
    BY DEF InState
  <1>6. CASE open # {}
    <2>1. PICK i \in open :
            Becomes(n, [x EXCEPT !.phase = IF NextIn(x) \in x.open THEN "edit" ELSE "close",
                                 !.at = i])
      BY <1>6 DEF Find
    <2>2. i \in DOMAIN issue[t] /\ issue[t][i].state = "open" /\ i \in Nat
      BY <1>4, <2>1 DEF InState
    <2>3. CASE NextIn(x) \in x.open
      <3>1. notifier' = [notifier EXCEPT ![n] = [x EXCEPT !.phase = "edit", !.at = i]]
        BY <2>1, <2>3 DEF Becomes
      <3> QED  BY <1>1, <1>3, <2>2, <2>3, <3>1, GoesToWrite
    <2>4. CASE NextIn(x) \notin x.open
      <3>1. notifier' = [notifier EXCEPT ![n] = [x EXCEPT !.phase = "close", !.at = i]]
        BY <2>1, <2>4 DEF Becomes
      <3> QED  BY <1>1, <1>3, <2>2, <2>4, <3>1, GoesToWrite
    <2> QED  BY <2>3, <2>4
  <1>7. CASE open = {} /\ NextIn(x) \notin x.open
    <2> DEFINE c == NextIn(x)
               y == [x EXCEPT !.done = @ \cup {c}]
    <2>1. notifier' = [notifier EXCEPT ![n] = y]
      BY <1>7 DEF Find, Becomes
    <2>2. /\ y \in Notification /\ y.phase = x.phase /\ y.kind = x.kind /\ y.open = x.open
          /\ y.close = x.close /\ y.done = x.done \cup {c} /\ y.seen = x.seen
          /\ y.rows = x.rows /\ y.errors = x.errors
      BY <1>1, <1>2 DEF Notification
    <2> HIDE DEF y
    <2>3. notifier'[n] = y /\ \A m \in Notifiers \ {n} : notifier'[m] = notifier[m]
      BY <2>1 DEF IssuesInv, IssuesTypeOK
    <2>4. NotifierInv(n)'
      <3>1. NotifierInv(n) /\ Planned(x)
        BY <1>1 DEF IssuesInv, Planned
      <3> QED  BY <1>1, <2>2, <2>3, <3>1 DEF NotifierInv, Planned
    <2>5. ASSUME n \in alone PROVE AloneInv(n)'
      <3>1. AloneInv(n) /\ Planned(x)
        BY <1>1, <2>5 DEF IssuesInv, Planned
      <3>2. \A m \in Notifiers : Writing(m)' => m = n
        BY <2>3, <3>1 DEF AloneInv, Writing
      <3>3. NotOpen(issue, x.kind, c)
        <4>1. \A i \in DOMAIN issue[t] : issue[t][i].state # "open"
          BY <1>7 DEF InState
        <4> QED  BY <1>2, <4>1 DEF NotOpen
      <3>4. ASSUME x.errors = 0 PROVE Handled(issue, y, y.done)
        <4>1. Handled(issue, x, x.done)
          BY <3>1, <3>4 DEF AloneInv
        <4> QED  BY <1>7, <2>2, <3>3, <4>1 DEF Handled
      <3> QED  BY <1>1, <1>3, <2>2, <2>3, <3>2, <3>4 DEF AloneInv
    <2>6. mishaps' \in Nat /\ alone' \subseteq Notifiers /\ Writing(n)
      BY <1>1, <1>3 DEF IssuesInv, IssuesTypeOK, Writing
    <2> QED  BY <1>3, <2>1, <2>2, <2>4, <2>5, <2>6, NotifierMoves
  <1>8. CASE open = {} /\ NextIn(x) \in x.open /\ closed # {}
    <2>1. PICK i \in closed : Becomes(n, [x EXCEPT !.phase = "reopen", !.at = i])
      BY <1>8 DEF Find
    <2>2. i \in DOMAIN issue[t] /\ i \in Nat
      BY <1>4, <1>5
    <2>3. notifier' = [notifier EXCEPT ![n] = [x EXCEPT !.phase = "reopen", !.at = i]]
      BY <2>1 DEF Becomes
    <2> QED  BY <1>1, <1>3, <1>8, <2>2, <2>3, GoesToWrite
  <1>9. CASE open = {} /\ NextIn(x) \in x.open /\ closed = {}
    <2>1. Becomes(n, [x EXCEPT !.phase = "create"])
      BY <1>9 DEF Find
    <2>2. [x EXCEPT !.phase = "create"] = [x EXCEPT !.phase = "create", !.at = x.at]
      BY <1>1 DEF Notification
    <2>3. notifier' = [notifier EXCEPT ![n] = [x EXCEPT !.phase = "create", !.at = x.at]]
      BY <2>1, <2>2 DEF Becomes
    <2> QED  BY <1>1, <1>3, <1>9, <2>3, GoesToWrite
  <1> QED  BY <1>6, <1>7, <1>8, <1>9

(* An issue that was found is written.                                     *)
LEMMA FoundIssueWritten ==
  ASSUME IssuesInv, NEW n \in Notifiers, notifier[n].phase \in {"edit", "reopen", "close"},
         NEW v \in Issue, NEW e \in {0, 1}, SetIssue(notifier[n], v), Written(n, e),
         mishaps' \in Nat,
         n \in alone /\ e = 0 /\ NextIn(notifier[n]) \in notifier[n].open =>
           \/ v.state = "open" /\ v.body = notifier[n].rows[NextIn(notifier[n])]
           \/ /\ notifier[n].kind = "flaky-test"
              /\ notifier[n].rows[NextIn(notifier[n])] \subseteq v.body,
         e = 0 /\ NextIn(notifier[n]) \notin notifier[n].open => v.state # "open"
  PROVE  IssuesInv'
  <1> DEFINE x == notifier[n]
             c == NextIn(x)
             t == TitleOf(x)
             i == x.at
  <1>1. x \in Notification /\ NotifierInv(n) /\ Writing(n) /\ Pending(x) # {} /\ Planned(x)
    BY DEF IssuesInv, IssuesTypeOK, NotifierInv, Writing, Planned
  <1>2. /\ t = <<x.kind, c>> /\ t \in Title /\ i \in DOMAIN issue[t]
        /\ x.open \cap x.close = {} /\ issue[t] \in Seq(Issue)
    BY <1>1, NextIsPending DEF NotifierInv, IssuesInv, IssuesTypeOK
  <1>3. /\ issue' \in [Title -> Seq(Issue)]
        /\ \A u \in Title : u # t => issue'[u] = issue[u]
        /\ \A u \in Title : DOMAIN issue'[u] = DOMAIN issue[u]
        /\ issue'[t][i] = v /\ Len(issue'[t]) = Len(issue[t])
    <2>1. IssuesTypeOK /\ issue' = [issue EXCEPT ![t][i] = v]
      BY DEF IssuesInv, SetIssue
    <2> QED  BY <1>2, <2>1, OneIssueSet
  <1> HIDE DEF c, t, i
  <1>4. ASSUME n \in alone, e = 0 PROVE Handled(issue', x, {c})
    <2>1. ASSUME c \in x.open PROVE Reported(issue', x.kind, x.rows, c)
      BY <1>2, <1>3, <1>4, <2>1 DEF Reported, c
    <2>2. ASSUME c \in x.close PROVE NotOpen(issue', x.kind, c)
      <3>1. v.state # "open"
        BY <1>2, <1>4, <2>2 DEF c
      <3>2. ASSUME ~(Len(issue'[t]) > 1) PROVE \A j \in DOMAIN issue'[t] : j = i
        <4>1. /\ DOMAIN issue[t] = 1 .. Len(issue[t]) /\ Len(issue[t]) \in Nat
              /\ DOMAIN issue'[t] = DOMAIN issue[t] /\ Len(issue[t]) <= 1
          BY <1>2, <1>3, <3>2
        <4> QED  BY <1>2, <4>1
      <3> QED  BY <1>2, <1>3, <3>1, <3>2 DEF NotOpen
    <2> QED  BY <2>1, <2>2 DEF Handled
  <1>5. \A u \in Title : /\ u # TitleOf(notifier[n]) => issue'[u] = issue[u]
                         /\ DOMAIN issue[u] \subseteq DOMAIN issue'[u]
    BY <1>3 DEF t
  <1>6. n \in alone /\ notifier[n].errors = 0 /\ e = 0
          => Handled(issue', notifier[n], {NextIn(notifier[n])})
    BY <1>4 DEF c
  <1> QED  BY <1>1, <1>3, <1>5, <1>6, IssueWritten

(* What a found issue is before it is written.                             *)
LEMMA FoundIssue ==
  ASSUME IssuesInv, NEW n \in Notifiers, notifier[n].phase \in {"edit", "reopen", "close"}
  PROVE  /\ issue[TitleOf(notifier[n])][notifier[n].at] \in Issue
         /\ NextIn(notifier[n]) \in Listed /\ notifier[n].rows \in [Listed -> SUBSET Cells]
         /\ notifier[n].phase = "close" <=> NextIn(notifier[n]) \notin notifier[n].open
         /\ mishaps \in Nat
  <1> DEFINE x == notifier[n]
             t == TitleOf(x)
  <1>1. x \in Notification /\ NotifierInv(n)
    BY DEF IssuesInv, IssuesTypeOK
  <1>2. Pending(x) # {} /\ x.at \in DOMAIN issue[t]
    BY <1>1 DEF NotifierInv
  <1>3. NextIn(x) \in Listed /\ t \in Title
    BY <1>1, <1>2, NextIsPending
  <1>4. issue[t] \in Seq(Issue)
    BY <1>3 DEF IssuesInv, IssuesTypeOK
  <1>5. issue[t][x.at] \in Issue
    BY <1>2, <1>4
  <1> QED  BY <1>1, <1>3, <1>5 DEF NotifierInv, Notification, IssuesInv, IssuesTypeOK

(* An open issue gets the rows of the report.                              *)
LEMMA IssueEdited ==
  ASSUME IssuesInv, NEW n \in Notifiers, Edit(n)
  PROVE  IssuesInv'
  <1> DEFINE x == notifier[n]
             was == issue[TitleOf(x)][x.at]
             v == [was EXCEPT !.body = x.rows[NextIn(x)]]
  <1>1. /\ SetIssue(x, v) /\ Written(n, 0) /\ mishaps' = mishaps /\ x.phase = "edit"
    BY DEF Edit
  <1>2. /\ was \in Issue /\ NextIn(x) \in x.open /\ x.rows[NextIn(x)] \subseteq Cells
        /\ mishaps \in Nat
    BY <1>1, FoundIssue
  <1> DEFINE rows == x.rows[NextIn(x)]
  <1>3. v \in Issue /\ v.body = rows /\ v.state = was.state
    BY <1>2 DEF Issue
  <1>4. n \in alone => was.state = "open"
    BY <1>1 DEF IssuesInv, AloneInv
  <1> HIDE DEF v
  <1> QED  BY <1>1, <1>2, <1>3, <1>4, FoundIssueWritten

(* A closed issue is open again, with the rows, or lists them already.     *)
LEMMA IssueReopened ==
  ASSUME IssuesInv, NEW n \in Notifiers, Reopen(n)
  PROVE  IssuesInv'
  <1> DEFINE x == notifier[n]
             was == issue[TitleOf(x)][x.at]
             rows == x.rows[NextIn(x)]
             same == x.kind = "flaky-test" /\ Differences(rows, was.body) = {}
             v == IF same THEN was ELSE [state |-> "open", body |-> rows]
  <1>1. SetIssue(x, v) /\ Written(n, 0) /\ mishaps' = mishaps /\ x.phase = "reopen"
    BY DEF Reopen
  <1>2. /\ was \in Issue /\ NextIn(x) \in x.open /\ rows \in SUBSET Cells /\ mishaps \in Nat
    BY <1>1, FoundIssue
  <1>3. [state |-> "open", body |-> rows] \in Issue
    BY <1>2 DEF Issue
  <1>4. v \in Issue
    BY <1>2, <1>3
  <1>5. \/ v.state = "open" /\ v.body = rows
        \/ x.kind = "flaky-test" /\ rows \subseteq v.body
    BY DEF Differences
  <1> HIDE DEF v
  <1> QED  BY <1>1, <1>2, <1>4, <1>5, FoundIssueWritten

(* The issue of a component that passed is no longer open.                 *)
LEMMA IssueClosed ==
  ASSUME IssuesInv, NEW n \in Notifiers, Close(n)
  PROVE  IssuesInv'
  <1> DEFINE x == notifier[n]
             was == issue[TitleOf(x)][x.at]
             v == [was EXCEPT !.state = "recent"]
  <1>1. SetIssue(x, v) /\ Written(n, 0) /\ mishaps' = mishaps /\ x.phase = "close"
    BY DEF Close
  <1>2. was \in Issue /\ NextIn(x) \notin x.open /\ mishaps \in Nat
    BY <1>1, FoundIssue
  <1>3. v \in Issue /\ v.state # "open"
    BY <1>2 DEF Issue
  <1> HIDE DEF v
  <1> QED  BY <1>1, <1>2, <1>3, FoundIssueWritten

(* A new issue comes after the others of its title.                        *)
LEMMA IssueCreated ==
  ASSUME IssuesInv, NEW n \in Notifiers, Create(n)
  PROVE  IssuesInv'
  <1> DEFINE x == notifier[n]
             c == NextIn(x)
             t == TitleOf(x)
             v == [state |-> "open", body |-> x.rows[c]]
             new == Append(issue[t], v)
  <1>1. /\ issue' = [issue EXCEPT ![t] = new] /\ Written(n, 0) /\ mishaps' = mishaps
        /\ x.phase = "create"
    BY DEF Create
  <1>2. /\ x \in Notification /\ NotifierInv(n) /\ Writing(n) /\ mishaps \in Nat
        /\ Pending(x) # {} /\ c \in x.open /\ x.open \cap x.close = {}
    BY <1>1 DEF IssuesInv, IssuesTypeOK, NotifierInv, Writing, Planned
  <1>3. t = <<x.kind, c>> /\ t \in Title /\ c \in Listed /\ x.rows[c] \in SUBSET Cells
    BY <1>2, NextIsPending DEF Notification
  <1>4. v \in Issue
    BY <1>3 DEF Issue
  <1>5. issue[t] \in Seq(Issue) /\ Len(issue[t]) \in Nat
    BY <1>3 DEF IssuesInv, IssuesTypeOK
  <1>6. /\ new \in Seq(Issue) /\ DOMAIN issue[t] \subseteq DOMAIN new
        /\ Len(issue[t]) + 1 \in DOMAIN new /\ new[Len(issue[t]) + 1] = v
    BY <1>4, <1>5
  <1> HIDE DEF new, t, c
  <1>7. /\ issue' \in [Title -> Seq(Issue)] /\ issue'[t] = new
        /\ \A u \in Title : u # t => issue'[u] = issue[u]
    BY <1>1, <1>3, <1>6 DEF IssuesInv, IssuesTypeOK
  <1>8. Reported(issue', x.kind, x.rows, c)
    BY <1>3, <1>6, <1>7 DEF Reported
  <1>9. Handled(issue', x, {c})
    BY <1>2, <1>8 DEF Handled
  <1>10. \A u \in Title : /\ u # t => issue'[u] = issue[u]
                          /\ DOMAIN issue[u] \subseteq DOMAIN issue'[u]
    BY <1>6, <1>7
  <1> QED  BY <1>1, <1>2, <1>7, <1>9, <1>10, IssueWritten DEF c, t

(* A write that fails is counted, and whoever has errors promises nothing. *)
LEMMA IssueFails ==
  ASSUME IssuesInv, NEW n \in Notifiers, WriteFails(n)
  PROVE  IssuesInv'
  <1> DEFINE x == notifier[n]
             was == issue[TitleOf(x)][x.at]
             v == [was EXCEPT !.state = "open"]
  <1>1. /\ Written(n, 1) /\ Writing(n) /\ Pending(x) # {} /\ mishaps \in Nat
        /\ mishaps' = mishaps + 1
    BY DEF WriteFails, Mishap, IssuesInv, IssuesTypeOK
  <1>2. mishaps' \in Nat
    BY <1>1
  <1>3. CASE UNCHANGED issue
    <2>1. issue' \in [Title -> Seq(Issue)]
      BY <1>3 DEF IssuesInv, IssuesTypeOK
    <2>2. \A u \in Title : /\ u # TitleOf(x) => issue'[u] = issue[u]
                           /\ DOMAIN issue[u] \subseteq DOMAIN issue'[u]
      BY <1>3
    <2>3. 1 \in {0, 1} /\ ~(1 = 0)
      OBVIOUS
    <2> QED  BY <1>1, <1>2, <2>1, <2>2, <2>3, IssueWritten
  <1>4. CASE x.phase = "reopen" /\ SetIssue(x, v)
    <2>1. was \in Issue
      BY <1>4, FoundIssue
    <2>2. v \in Issue
      BY <2>1 DEF Issue
    <2> HIDE DEF v
    <2> QED  BY <1>1, <1>2, <1>4, <2>2, FoundIssueWritten
  <1> QED  BY <1>3, <1>4 DEF WriteFails

(* The end of a job.                                                       *)
LEMMA NotifierEnds ==
  ASSUME IssuesInv, NEW n \in Notifiers, Notified(n) \/ NotifierLeaves(n)
  PROVE  IssuesInv'
  <1> DEFINE x == notifier[n]
  <1>1. x \in Notification /\ NotifierInv(n) /\ mishaps \in Nat /\ alone \subseteq Notifiers
    BY DEF IssuesInv, IssuesTypeOK
  <1>2. CASE Notified(n)
    <2> DEFINE y == [x EXCEPT !.phase = "done"]
    <2>1. /\ x.phase = "find" /\ Pending(x) = {} /\ notifier' = [notifier EXCEPT ![n] = y]
          /\ UNCHANGED <<documents, issue, alone, mishaps>>
      BY <1>2 DEF Notified, Becomes
    <2>2. /\ y \in Notification /\ y.phase = "done" /\ y.kind = x.kind /\ y.open = x.open
          /\ y.close = x.close /\ y.done = x.done /\ y.seen = x.seen
          /\ y.rows = x.rows /\ y.errors = x.errors
      BY <1>1 DEF Notification
    <2> HIDE DEF y
    <2>3. notifier'[n] = y /\ \A m \in Notifiers \ {n} : notifier'[m] = notifier[m]
      BY <2>1 DEF IssuesInv, IssuesTypeOK
    <2>4. Pending(y) = {} /\ Pending(notifier[n])' = Pending(y)
      BY <2>1, <2>2, <2>3 DEF Pending
    <2>5. NotifierInv(n)'
      <3>1. Planned(x)
        BY <2>1 DEF Planned
      <3> QED  BY <1>1, <2>2, <2>3, <2>4, <3>1 DEF NotifierInv, Planned
    <2>6. ~Writing(n)'
      BY <2>2, <2>3 DEF Writing
    <2>7. ASSUME n \in alone PROVE AloneInv(n)'
      <3>1. AloneInv(n) /\ Planned(x)
        BY <2>1, <2>7 DEF IssuesInv, Planned
      <3>2. \A m \in Notifiers : Writing(m)' => m = n
        BY <2>3, <3>1 DEF AloneInv, Writing
      <3>3. y.errors = 0 => Handled(issue, y, y.done)
        BY <2>2, <3>1 DEF AloneInv, Handled
      <3> QED  BY <2>1, <2>2, <2>3, <3>2, <3>3 DEF AloneInv
    <2> QED  BY <1>1, <2>1, <2>2, <2>5, <2>6, <2>7, NotifierMoves
  <1>3. CASE NotifierLeaves(n)
    <2>1. /\ notifier' = [notifier EXCEPT ![n] = NoNotifier] /\ alone' = alone \ {n}
          /\ UNCHANGED <<documents, issue, mishaps>>
      BY <1>3 DEF NotifierLeaves, Becomes
    <2>2. NoNotifier \in Notification
      BY DEF NoNotifier, Notification, IssueKind
    <2>3. notifier'[n] = NoNotifier
      BY <2>1 DEF IssuesInv, IssuesTypeOK
    <2>4. NotifierInv(n)'
      BY <2>3 DEF NotifierInv, NoNotifier, Planned
    <2>5. ~Writing(n)'
      BY <2>3 DEF Writing, NoNotifier
    <2> QED  BY <1>1, <2>1, <2>2, <2>4, <2>5, NotifierMoves
  <1> QED  BY <1>2, <1>3

(* An issue closed by a person: nobody is alone any more.                  *)
LEMMA IssueClosedByHand ==
  ASSUME IssuesInv, NEW t \in Title, CloseByHand(t)
  PROVE  IssuesInv'
  <1>1. PICK i \in InState(t, {"open"}) : issue' = [issue EXCEPT ![t][i].state = "recent"]
    BY DEF CloseByHand
  <1> DEFINE v == [issue[t][i] EXCEPT !.state = "recent"]
  <1>2. i \in DOMAIN issue[t] /\ issue[t] \in Seq(Issue)
    BY DEF InState, IssuesInv, IssuesTypeOK
  <1>3. issue[t][i] \in Issue
    BY <1>2
  <1>4. v \in Issue
    BY <1>3 DEF Issue
  <1>5. issue' = [issue EXCEPT ![t][i] = v]
    BY <1>1
  <1> HIDE DEF v
  <1>6. /\ issue' \in [Title -> Seq(Issue)]
        /\ \A u \in Title : DOMAIN issue'[u] = DOMAIN issue[u]
    <2>1. IssuesTypeOK
      BY DEF IssuesInv
    <2> QED  BY <1>2, <1>4, <1>5, <2>1, OneIssueSet
  <1>7. /\ notifier' = notifier /\ documents' = documents /\ alone' = {} /\ mishaps' \in Nat
    BY DEF CloseByHand, Mishap, IssuesInv, IssuesTypeOK
  <1>8. IssuesTypeOK'
    BY <1>6, <1>7 DEF IssuesInv, IssuesTypeOK
  <1>9. \A m \in Notifiers : NotifierInv(m)'
    BY <1>6, <1>7, NotifierStays
  <1> QED  BY <1>7, <1>8, <1>9 DEF IssuesInv

(* Days go by: what is open stays open, and only that.                     *)
LEMMA DaysGoBy ==
  ASSUME IssuesInv, DaysPass
  PROVE  IssuesInv'
  <1> DEFINE Aged(i) == [i EXCEPT !.state = IF @ = "recent" THEN "old" ELSE @]
  <1>1. ASSUME NEW i \in Issue
        PROVE  /\ Aged(i) \in Issue /\ Aged(i).body = i.body
               /\ Aged(i).state = "open" <=> i.state = "open"
    BY DEF Issue
  <1>2. issue' = [t \in Title |-> [i \in DOMAIN issue[t] |-> Aged(issue[t][i])]]
    BY DEF DaysPass
  <1> HIDE DEF Aged
  <1>3. ASSUME NEW t \in Title
        PROVE  /\ issue'[t] \in Seq(Issue) /\ DOMAIN issue'[t] = DOMAIN issue[t]
               /\ Len(issue'[t]) = Len(issue[t])
               /\ \A i \in DOMAIN issue[t] :
                    /\ issue'[t][i].body = issue[t][i].body
                    /\ issue'[t][i].state = "open" <=> issue[t][i].state = "open"
    <2>1. /\ issue[t] \in Seq(Issue) /\ DOMAIN issue[t] = 1 .. Len(issue[t])
          /\ Len(issue[t]) \in Nat
      BY DEF IssuesInv, IssuesTypeOK
    <2>2. \A i \in 1 .. Len(issue[t]) : issue[t][i] \in Issue
      BY <2>1
    <2>3. issue'[t] = [i \in 1 .. Len(issue[t]) |-> Aged(issue[t][i])]
      BY <1>2, <2>1
    <2>4. issue'[t] \in Seq(Issue) /\ Len(issue'[t]) = Len(issue[t])
      BY <1>1, <2>1, <2>2, <2>3
    <2> QED  BY <1>1, <2>1, <2>2, <2>3, <2>4
  <1>4. UNCHANGED <<documents, notifier, alone, mishaps>>
    BY DEF DaysPass
  <1>5. DOMAIN issue' = Title /\ issue' = [t \in Title |-> issue'[t]]
    BY <1>2
  <1>6. issue' \in [Title -> Seq(Issue)]
    BY <1>3, <1>5
  <1>7. IssuesTypeOK'
    BY <1>4, <1>6 DEF IssuesInv, IssuesTypeOK
  <1>8. \A m \in Notifiers : NotifierInv(m)'
    BY <1>3, <1>4, NotifierStays
  <1>9. ASSUME NEW m \in alone PROVE AloneInv(m)'
    <2> DEFINE x == notifier[m]
    <2>1. AloneInv(m) /\ NotifierInv(m) /\ m \in Notifiers /\ x \in Notification
      BY DEF IssuesInv, IssuesTypeOK
    <2>2. ASSUME Planned(x), x.errors = 0 PROVE Handled(issue', x, x.done)
      <3>1. ASSUME NEW c \in x.done
            PROVE  /\ c \in x.open => Reported(issue', x.kind, x.rows, c)
                   /\ c \in x.close => NotOpen(issue', x.kind, c)
        <4>1. /\ c \in x.open => Reported(issue, x.kind, x.rows, c)
              /\ c \in x.close => NotOpen(issue, x.kind, c)
          BY <2>1, <2>2 DEF AloneInv, Handled
        <4>2. <<x.kind, c>> \in Title
          BY <2>1 DEF Notification, Title
        <4> QED  BY <1>3, <4>1, <4>2 DEF Reported, NotOpen
      <3> QED  BY <3>1 DEF Handled
    <2>3. x.phase = "edit" => issue'[TitleOf(x)][x.at].state = "open"
      <3>1. ASSUME x.phase = "edit"
            PROVE  TitleOf(x) \in Title /\ x.at \in DOMAIN issue[TitleOf(x)]
        BY <2>1, <3>1, NextIsPending DEF NotifierInv
      <3> QED  BY <1>3, <2>1, <3>1 DEF AloneInv
    <2>4. \A k \in Notifiers : Writing(k)' => k = m
      BY <1>4, <2>1 DEF AloneInv, Writing
    <2> QED  BY <1>4, <2>2, <2>3, <2>4 DEF AloneInv, Planned, TitleOf, NextIn, Pending
  <1> QED  BY <1>4, <1>7, <1>8, <1>9 DEF IssuesInv

(* Every step keeps the invariant.                                         *)
LEMMA IssueSteps ==
  ASSUME IssuesInv, [IssuesNext]_issueVars
  PROVE  IssuesInv'
  <1>1. ASSUME NEW cell \in Cells, NEW tested \in Reports, PublishResults(cell, tested)
        PROVE  IssuesInv'
    BY <1>1, ResultsPublished
  <1>2. ASSUME NEW n \in Notifiers,
               \/ QueryPassed(n) \/ QueryFailed(n) \/ QueryRows(n)
               \/ PlanBuildIssues(n) \/ PlanFlakyIssues(n)
        PROVE  IssuesInv'
    BY <1>2, PassedQueried, FailedQueried, RowsQueried, PlansMade
  <1>3. ASSUME NEW n \in Notifiers,
               \/ Find(n) \/ Edit(n) \/ Reopen(n) \/ Create(n) \/ Close(n)
               \/ WriteFails(n) \/ Notified(n) \/ NotifierLeaves(n)
        PROVE  IssuesInv'
    BY <1>3, IssueFound, IssueEdited, IssueReopened, IssueCreated, IssueClosed, IssueFails,
       NotifierEnds
  <1>4. ASSUME NEW t \in Title, CloseByHand(t) PROVE IssuesInv'
    BY <1>4, IssueClosedByHand
  <1>5. CASE DaysPass
    BY <1>5, DaysGoBy
  <1>6. CASE UNCHANGED issueVars
    <2>1. UNCHANGED <<documents, issue, notifier, alone, mishaps>>
      BY <1>6 DEF issueVars
    <2>2. IssuesTypeOK'
      BY <2>1 DEF IssuesInv, IssuesTypeOK
    <2>3. \A m \in Notifiers : NotifierInv(m)'
      BY <2>1, NotifierStays
    <2>4. \A m \in alone : AloneInv(m)'
      BY <2>1 DEF IssuesInv, AloneInv, Writing, Planned, TitleOf, NextIn, Pending
    <2> QED  BY <2>1, <2>2, <2>3, <2>4 DEF IssuesInv
  <1> QED  BY <1>1, <1>2, <1>3, <1>4, <1>5, <1>6 DEF IssuesNext

(* The results, the issues and the jobs that write them agree: nothing is  *)
(* both opened and closed, and what a job that is alone has handled is as  *)
(* its plan wants it.                                                      *)
THEOREM IssuesConsistent == IssuesSpec => []IssuesInv
  BY IssuesStart, IssueSteps, PTL DEF IssuesSpec

(* Every failure of a job that nobody disturbed has its open issue, and    *)
(* what passed has none: FailuresAreReported, for every input manifest.    *)
THEOREM FailuresGetIssues == IssuesSpec => []FailuresAreReported
  <1>1. IssuesInv => FailuresAreReported
    <2> SUFFICES ASSUME IssuesInv, NEW n \in alone, notifier[n].phase = "done",
                        notifier[n].errors = 0
                 PROVE  LET x == notifier[n]
                            Of(c) == issue[<<x.kind, c>>]
                        IN  /\ \A c \in x.open : \E i \in DOMAIN Of(c) :
                                  \/ Of(c)[i].state = "open" /\ Of(c)[i].body = x.rows[c]
                                  \/ x.kind = "flaky-test" /\ x.rows[c] \subseteq Of(c)[i].body
                            /\ \A c \in x.close :
                                  Len(Of(c)) > 1 \/ InState(<<x.kind, c>>, {"open"}) = {}
      BY DEF FailuresAreReported
    <2> DEFINE x == notifier[n]
    <2>1. NotifierInv(n) /\ AloneInv(n)
      BY DEF IssuesInv, IssuesTypeOK
    <2>2. Handled(issue, x, x.done)
      BY <2>1 DEF AloneInv, Planned
    <2>3. x.open \subseteq x.done /\ x.close \subseteq x.done
      BY <2>1 DEF NotifierInv, Pending
    <2>4. \A c \in x.open : Reported(issue, x.kind, x.rows, c)
      BY <2>2, <2>3 DEF Handled
    <2>5. \A c \in x.close : NotOpen(issue, x.kind, c)
      BY <2>2, <2>3 DEF Handled
    <2> QED  BY <2>4, <2>5 DEF Reported, NotOpen, InState
  <1> QED  BY <1>1, IssuesConsistent, PTL

(* An integration test issue is closed by a job only when that job had     *)
(* seen no failure: ClosedOnlyWhenPassed.                                  *)
THEOREM OnlyPassedIsClosed == IssuesSpec => ClosedOnlyWhenPassed
  <1>1. IssuesInv /\ [IssuesNext]_issueVars
          => [\A n \in Notifiers :
                LET x == notifier[n]
                IN  x.phase = "close" /\ notifier'[n].done # x.done
                      /\ x.kind = "integ-test" /\ issue' # issue
                      => \/ Cardinality(x.seen) > QuerySize
                         \/ \A d \in x.seen : d.component # NextIn(x)]_issueVars
    <2> SUFFICES ASSUME IssuesInv, NEW n \in Notifiers, notifier[n].phase = "close",
                        notifier[n].kind = "integ-test"
                 PROVE  \/ Cardinality(notifier[n].seen) > QuerySize
                        \/ \A d \in notifier[n].seen : d.component # NextIn(notifier[n])
      OBVIOUS
    <2> DEFINE x == notifier[n]
    <2>1. NotifierInv(n) /\ Planned(x) /\ x \in Notification
      BY DEF IssuesInv, IssuesTypeOK, Planned
    <2>2. NextIn(x) \in x.close
      BY <2>1, NextIsPending DEF NotifierInv
    <2> QED  BY <2>1, <2>2 DEF NotifierInv
  <1> QED  BY <1>1, IssuesConsistent, PTL DEF IssuesSpec, ClosedOnlyWhenPassed

-----------------------------------------------------------------------------
(* ValidationRun.                                                          *)

RunOutcome == {"running", "passed", "failed", "raised"}
Ending == {"passed", "failed", "raised"}
Tested == UNION {[S -> 1 .. MaxValidations] : S \in SUBSET ProductName}
Validation == [request : ValidationRequests, outcome : RunOutcome, tested : Tested]
ServiceRecord ==
  [project : ProductName, run : Nat \ {0}, packaged : BOOLEAN, listens : BOOLEAN]
StepRecord ==
  [phase : {"idle", "download", "install", "start", "ready", "plugins", "again", "api",
            "cleanup"},
   todo : Seq(ProductName), sources : Seq({"dockerhub", "ecr"}), after : Ending]

RequestOf(i) == validations[i].request

(* A process on the host belongs to a run that did not pass, or has not    *)
(* ended, and to one of the products it was asked for.                     *)
ServiceOk(s) ==
  /\ s.run \in 1 .. run /\ validations[s.run].outcome # "passed"
  /\ s.project \in ToSet(RequestOf(s.run).projects)
  /\ s.packaged <=> RequestOf(s.run).dist \in Package
  /\ ~(RequestOf(s.run).dist = "docker" /\ RequestOf(s.run).digest)
PackageOk(p, i) ==
  /\ i \in 1 .. run /\ validations[i].outcome # "passed"
  /\ p \in ToSet(RequestOf(i).projects) /\ RequestOf(i).dist \in Package
HostOk(found, installed) ==
  /\ found \subseteq ServiceRecord /\ \A s \in found : ServiceOk(s)
  /\ installed \in [ProductName -> Nat]
  /\ \A p \in ProductName : installed[p] # 0 => PackageOk(p, installed[p])

(* A package that was replaced has no service of an earlier run; a product *)
(* that was cleaned up has nothing of this run.                            *)
OwnOnly(p, found) == \A s \in found : s.project = p /\ s.packaged => s.run = run
Gone(p, found, installed) ==
  installed[p] # run /\ \A s \in found : s.run = run => s.project # p
StepOk(step, found, installed) ==
  /\ step \in StepRecord
  /\ step.phase # "idle" =>
       /\ run # 0 /\ step.todo \in Seq(Probed) /\ step.todo # <<>>
       /\ step.phase = "install" /\ Wanted.dist \in Package =>
            \A p \in Probed \ ToSet(step.todo) : OwnOnly(p, found)
       /\ step.phase \notin {"download", "install", "cleanup"} /\ Wanted.dist \in Package =>
            \A p \in Probed : OwnOnly(p, found)
       /\ step.phase = "cleanup" =>
            \A p \in Probed \ ToSet(step.todo) : Gone(p, found, installed)

(* What answered a run's tests was its own, or a run's before it that did  *)
(* not pass, and both did not install packages.                            *)
TestedOk(i) ==
  \A p \in DOMAIN validations[i].tested :
    LET j == validations[i].tested[p] IN
    \/ j = i
    \/ /\ j \in 1 .. i - 1 /\ validations[j].outcome # "passed"
       /\ {RequestOf(i).dist, RequestOf(j).dist} \ Package # {}

ValidInv ==
  /\ validations \in Seq(Validation) /\ run <= MaxValidations
  /\ \A i \in 1 .. run : validations[i].outcome = "running" <=> i = run /\ vstep.phase # "idle"
  /\ HostOk(services, packages)
  /\ StepOk(vstep, services, packages)
  /\ \A i \in 1 .. run : TestedOk(i)

(* What a run was asked for.                                               *)
LEMMA RequestFacts ==
  ASSUME ValidInv, NEW i \in 1 .. run
  PROVE  /\ run \in Nat /\ RequestOf(i) \in ValidationRequest
         /\ validations[i] \in Validation
         /\ RequestOf(i).projects \in Seq(ToSet(RequestOf(i).projects))
         /\ RequestOf(i).projects # <<>>
         /\ ToSet(RequestOf(i).projects) \subseteq ProductName
         /\ RequestOf(i).projects \in Seq(ProductName)
         /\ RequestOf(i).sources \in Seq({"dockerhub", "ecr"})
  <1>1. validations \in Seq(Validation) /\ run \in Nat
    BY DEF ValidInv, run
  <1>2. validations[i] \in Validation
    BY <1>1 DEF run
  <1>3. RequestOf(i) \in ValidationRequest /\ RequestOf(i).projects # <<>>
    BY <1>2, ValidationAssumption DEF RequestOf, Validation
  <1>4. /\ RequestOf(i).projects \in Seq(ProductName)
        /\ RequestOf(i).sources \in Seq({"dockerhub", "ecr"})
    BY <1>3 DEF ValidationRequest
  <1>5. /\ RequestOf(i).projects \in Seq(ToSet(RequestOf(i).projects))
        /\ ToSet(RequestOf(i).projects) \subseteq ProductName
    BY <1>4 DEF ToSet
  <1> QED  BY <1>1, <1>2, <1>3, <1>4, <1>5

(* The run that goes on.                                                   *)
LEMMA WantedFacts ==
  ASSUME ValidInv, vstep.phase # "idle"
  PROVE  /\ run \in Nat /\ run \in 1 .. run /\ Wanted = RequestOf(run)
         /\ Probed = ToSet(RequestOf(run).projects)
         /\ Probed \subseteq ProductName /\ Wanted \in ValidationRequest
         /\ Wanted.projects \in Seq(Probed) /\ Wanted.projects # <<>>
         /\ vstep.todo \in Seq(Probed) /\ vstep.todo # <<>>
         /\ Head(vstep.todo) \in Probed /\ Tail(vstep.todo) \in Seq(Probed)
         /\ ToSet(vstep.todo) = {Head(vstep.todo)} \cup ToSet(Tail(vstep.todo))
         /\ Len(vstep.todo) > 1 => Tail(vstep.todo) # <<>>
         /\ ~(Len(vstep.todo) > 1) => ToSet(vstep.todo) = {Head(vstep.todo)}
         /\ validations[run].outcome = "running" /\ validations[run] \in Validation
  <1>1. run # 0 /\ vstep.todo \in Seq(Probed) /\ vstep.todo # <<>>
    BY DEF ValidInv, StepOk
  <1>2. run \in Nat
    BY DEF ValidInv, run
  <1>3. run \in 1 .. run
    BY <1>1, <1>2
  <1>4. Wanted = RequestOf(run)
    BY DEF Wanted, RequestOf
  <1>5. /\ Probed \subseteq ProductName /\ Wanted \in ValidationRequest
        /\ Wanted.projects \in Seq(Probed) /\ Wanted.projects # <<>>
        /\ validations[run] \in Validation
    BY <1>3, <1>4, RequestFacts DEF Probed
  <1>6. /\ Head(vstep.todo) \in Probed /\ Tail(vstep.todo) \in Seq(Probed)
        /\ ToSet(vstep.todo) = {Head(vstep.todo)} \cup ToSet(Tail(vstep.todo))
    BY <1>1, HeadAndTail
  <1>7. /\ Len(vstep.todo) > 1 => Tail(vstep.todo) # <<>>
        /\ ~(Len(vstep.todo) > 1) => ToSet(vstep.todo) = {Head(vstep.todo)}
    <2>1. Len(vstep.todo) \in Nat /\ Len(vstep.todo) # 0 /\ DOMAIN vstep.todo = 1 .. Len(vstep.todo)
      BY <1>1
    <2>2. Len(Tail(vstep.todo)) = Len(vstep.todo) - 1
      BY <1>1
    <2>3. Len(vstep.todo) > 1 => Tail(vstep.todo) # <<>>
      <3>1. \A n \in Nat : n > 1 => n - 1 # 0
        OBVIOUS
      <3>2. Len(vstep.todo) > 1 => Len(Tail(vstep.todo)) # 0
        BY <2>1, <2>2, <3>1
      <3>3. Len(<<>>) = 0
        OBVIOUS
      <3> QED  BY <3>2, <3>3
    <2>4. ASSUME ~(Len(vstep.todo) > 1) PROVE ToSet(vstep.todo) = {Head(vstep.todo)}
      <3>1. Len(vstep.todo) = 1 /\ DOMAIN vstep.todo = {1}
        <4>1. \A n \in Nat : n # 0 /\ ~(n > 1) => n = 1 /\ 1 .. n = {1}
          OBVIOUS
        <4>2. Len(vstep.todo) = 1 /\ 1 .. Len(vstep.todo) = {1}
          BY <2>1, <2>4, <4>1
        <4> QED  BY <2>1, <4>2
      <3>2. Head(vstep.todo) = vstep.todo[1]
        BY <1>1
      <3> QED  BY <3>1, <3>2 DEF ToSet
    <2> QED  BY <2>3, <2>4
  <1>8. validations[run].outcome = "running"
    BY <1>3 DEF ValidInv
  <1> QED  BY <1>1, <1>2, <1>3, <1>4, <1>5, <1>6, <1>7, <1>8 DEF Probed

(* While no run ends, begins or tests, the records of the runs stay.       *)
LEMMA StepTaken ==
  ASSUME ValidInv, vstep.phase # "idle", UNCHANGED validations, vstep'.phase # "idle",
         HostOk(services', packages'), StepOk(vstep', services', packages')
  PROVE  ValidInv'
  <1>1. run' = run /\ Wanted' = Wanted /\ Probed' = Probed
    BY DEF run, Wanted, Probed
  <1>2. /\ \A i : RequestOf(i)' = RequestOf(i)
        /\ \A s : ServiceOk(s)' <=> ServiceOk(s)
    BY <1>1 DEF RequestOf, ServiceOk
  <1>3. \A p, i : PackageOk(p, i)' <=> PackageOk(p, i)
    BY <1>1 DEF RequestOf, PackageOk
  <1>4. HostOk(services, packages)'
    BY <1>2, <1>3 DEF HostOk
  <1>5. StepOk(vstep, services, packages)'
    BY <1>1 DEF StepOk, OwnOnly, Gone
  <1>6. \A i \in 1 .. run : TestedOk(i)'
    BY <1>1 DEF ValidInv, TestedOk, RequestOf
  <1> QED  BY <1>1, <1>4, <1>5, <1>6 DEF ValidInv

(* A run ends, or goes on with its next source; one that passed has left   *)
(* nothing.                                                                *)
LEMMA RunEnds ==
  ASSUME ValidInv, vstep.phase # "idle", NEW outcome \in Ending, EndRun(outcome),
         HostOk(services', packages'),
         outcome = "passed" => /\ \A s \in services' : s.run # run
                               /\ \A p \in ProductName : packages'[p] # run
  PROVE  ValidInv'
  <1>1. /\ run \in Nat /\ run \in 1 .. run /\ Wanted = RequestOf(run)
        /\ Probed \subseteq ProductName /\ Wanted.projects \in Seq(Probed)
        /\ Wanted.projects # <<>> /\ Wanted \in ValidationRequest
        /\ validations[run].outcome = "running" /\ validations[run] \in Validation
    BY WantedFacts
  <1>2. CASE outcome # "raised" /\ Len(vstep.sources) > 1
    <2> DEFINE next == [NoStep EXCEPT !.phase = "download", !.todo = Wanted.projects,
                                     !.sources = Tail(vstep.sources)]
    <2>1. vstep' = next /\ UNCHANGED validations
      BY <1>2 DEF EndRun
    <2>2. Tail(vstep.sources) \in Seq({"dockerhub", "ecr"})
      <3>1. vstep.sources \in Seq({"dockerhub", "ecr"}) /\ vstep.sources # <<>>
        BY <1>2 DEF ValidInv, StepOk, StepRecord
      <3> QED  BY <3>1, HeadTailProperties
    <2>3. Wanted.projects \in Seq(ProductName)
      BY <1>1 DEF ValidationRequest
    <2>4. next \in StepRecord /\ next.phase = "download" /\ next.todo = Wanted.projects
      BY <2>2, <2>3 DEF NoStep, StepRecord, Ending
    <2>5. StepOk(vstep', services', packages')
      BY <1>1, <2>1, <2>4 DEF StepOk
    <2> QED  BY <2>1, <2>4, <2>5, StepTaken
  <1>3. CASE ~(outcome # "raised" /\ Len(vstep.sources) > 1)
    <2>1. vstep' = NoStep /\ validations' = [validations EXCEPT ![run].outcome = outcome]
      BY <1>3 DEF EndRun
    <2>2. validations \in Seq(Validation) /\ run <= MaxValidations /\ run = Len(validations)
      BY DEF ValidInv, run
    <2>3. /\ validations' \in Seq(Validation) /\ Len(validations') = run
          /\ validations'[run] = [validations[run] EXCEPT !.outcome = outcome]
          /\ \A i \in 1 .. run : i # run => validations'[i] = validations[i]
      <3>1. [validations[run] EXCEPT !.outcome = outcome] \in Validation
        BY <1>1 DEF Validation, RunOutcome, Ending
      <3>2. validations' =
              [validations EXCEPT ![run] = [validations[run] EXCEPT !.outcome = outcome]]
        BY <2>1
      <3> QED  BY <1>1, <2>2, <3>1, <3>2, ExceptSeq
    <2>4. /\ validations'[run].outcome = outcome
          /\ validations'[run].request = validations[run].request
          /\ validations'[run].tested = validations[run].tested
      BY <1>1, <2>3 DEF Validation
    <2>5. run' = run
      BY <2>3 DEF run
    <2>6. \A i \in 1 .. run : /\ RequestOf(i)' = RequestOf(i)
                              /\ validations'[i].tested = validations[i].tested
                              /\ i # run => validations'[i].outcome = validations[i].outcome
      BY <2>3, <2>4 DEF RequestOf
    <2>7. vstep'.phase = "idle"
      BY <2>1 DEF NoStep
    <2>8. \A i \in 1 .. run :
            validations'[i].outcome = "running" <=> i = run' /\ vstep'.phase # "idle"
      BY <2>3, <2>4, <2>7 DEF Ending, ValidInv
    <2>9. \A s \in services' : ServiceOk(s)'
      <3> TAKE s \in services'
      <3>1. ServiceOk(s) /\ s.run \in 1 .. run
        BY DEF HostOk, ServiceOk
      <3>2. validations'[s.run].outcome # "passed"
        BY <2>4, <2>6, <3>1 DEF ServiceOk
      <3> QED  BY <2>5, <2>6, <3>1, <3>2 DEF ServiceOk
    <2>10. \A p, i : PackageOk(p, i) /\ (outcome = "passed" => i # run) => PackageOk(p, i)'
      <3> SUFFICES ASSUME NEW p, NEW i, PackageOk(p, i), outcome = "passed" => i # run
                   PROVE  PackageOk(p, i)'
        OBVIOUS
      <3>1. i \in 1 .. run
        BY DEF PackageOk
      <3>2. validations'[i].outcome # "passed"
        BY <2>4, <2>6, <3>1 DEF PackageOk
      <3> QED  BY <2>5, <2>6, <3>1, <3>2 DEF PackageOk
    <2>11. HostOk(services, packages)'
      BY <2>9, <2>10 DEF HostOk
    <2>12. StepOk(vstep, services, packages)'
      <3>1. NoStep \in StepRecord
        BY DEF NoStep, StepRecord, Ending
      <3> QED  BY <2>1, <2>7, <3>1 DEF StepOk
    <2>13. ASSUME NEW i \in 1 .. run PROVE TestedOk(i)'
      <3>1. TestedOk(i)
        BY DEF ValidInv
      <3>2. \A j \in 1 .. i - 1 : /\ j \in 1 .. run /\ j # run
                                  /\ validations'[j].outcome = validations[j].outcome
                                  /\ RequestOf(j)' = RequestOf(j)
        BY <1>1, <2>6
      <3> QED  BY <2>6, <3>1, <3>2 DEF TestedOk, RequestOf
    <2> QED  BY <2>2, <2>3, <2>5, <2>8, <2>11, <2>12, <2>13 DEF ValidInv
  <1> QED  BY <1>2, <1>3

(* What is taken off the host leaves it in order.                          *)
LEMMA HostShrinks ==
  ASSUME ValidInv, NEW found, found \subseteq services, NEW installed \in [ProductName -> Nat],
         \A p \in ProductName : installed[p] \in {packages[p], 0}
  PROVE  HostOk(found, installed)
  <1>1. HostOk(services, packages)
    BY DEF ValidInv
  <1>2. \A p \in ProductName : installed[p] # 0 => PackageOk(p, installed[p])
    BY <1>1 DEF HostOk
  <1> QED  BY <1>1, <1>2 DEF HostOk

(* A package is replaced, or taken off, with the services it has.          *)
LEMMA PackageReplaced ==
  ASSUME ValidInv, vstep.phase # "idle", NEW p \in Probed, Wanted.dist \in Package,
         NEW installed \in BOOLEAN, Replace(p, installed)
  PROVE  /\ HostOk(services', packages') /\ services' \subseteq services
         /\ \A s \in services' : ~(s.project = p /\ s.packaged)
         /\ ~installed => packages'[p] = 0
         /\ \A q \in ProductName : q # p => packages'[q] = packages[q]
  <1>1. /\ run \in Nat /\ run \in 1 .. run /\ Wanted = RequestOf(run) /\ p \in ProductName
        /\ p \in ToSet(RequestOf(run).projects) /\ validations[run].outcome = "running"
    BY WantedFacts
  <1>2. /\ services' = services \ Packaged(p)
        /\ packages' = [packages EXCEPT ![p] = IF installed THEN run ELSE 0]
    BY DEF Replace
  <1>3. HostOk(services, packages)
    BY DEF ValidInv
  <1>4. PackageOk(p, run)
    BY <1>1 DEF PackageOk
  <1>5. /\ packages' \in [ProductName -> Nat] /\ packages'[p] = (IF installed THEN run ELSE 0)
        /\ \A q \in ProductName : q # p => packages'[q] = packages[q]
    BY <1>1, <1>2, <1>3 DEF HostOk
  <1>6. ASSUME NEW q \in ProductName, packages'[q] # 0 PROVE PackageOk(q, packages'[q])
    BY <1>3, <1>4, <1>5, <1>6 DEF HostOk
  <1>7. services' \subseteq services /\ \A s \in services' : ~(s.project = p /\ s.packaged)
    BY <1>2 DEF Packaged
  <1>8. HostOk(services', packages')
    BY <1>3, <1>5, <1>6, <1>7 DEF HostOk
  <1> QED  BY <1>5, <1>7, <1>8

(* What a run starts is its own.                                           *)
LEMMA OwnService ==
  ASSUME ValidInv, vstep.phase # "idle", NEW p \in Probed, NEW packaged \in BOOLEAN,
         NEW listens \in BOOLEAN, packaged <=> Wanted.dist \in Package,
         ~(Wanted.dist = "docker" /\ Wanted.digest)
  PROVE  LET s == Service(p, run, packaged, listens)
         IN  s \in ServiceRecord /\ ServiceOk(s) /\ s.run = run
  <1>1. /\ run \in Nat /\ run \in 1 .. run /\ Wanted = RequestOf(run) /\ p \in ProductName
        /\ p \in ToSet(RequestOf(run).projects) /\ validations[run].outcome = "running"
    BY WantedFacts
  <1> DEFINE s == Service(p, run, packaged, listens)
  <1>2. s.project = p /\ s.run = run /\ s.packaged = packaged /\ s.listens = listens
    BY DEF Service
  <1>3. s \in ServiceRecord
    BY <1>1 DEF Service, ServiceRecord
  <1> HIDE DEF s
  <1>4. ServiceOk(s)
    BY <1>1, <1>2 DEF ServiceOk
  <1> QED  BY <1>2, <1>3, <1>4 DEF s

(* A process comes up, or does not.                                        *)
LEMMA CameUp ==
  ASSUME ValidInv, vstep.phase # "idle", NEW p \in Probed, NEW packaged \in BOOLEAN,
         packaged <=> Wanted.dist \in Package, Wanted.dist # "docker", ComeUp(p, packaged)
  PROVE  /\ HostOk(services', packages)
         /\ \A s \in services' : s \in services \/ s.run = run
  <1>1. HostOk(services, packages)
    BY DEF ValidInv
  <1>2. CASE UNCHANGED services
    BY <1>1, <1>2
  <1>3. CASE services' = services \cup {Service(p, run, packaged, Listeners(p) = {})}
    <2> DEFINE s == Service(p, run, packaged, Listeners(p) = {})
    <2>1. s \in ServiceRecord /\ ServiceOk(s) /\ s.run = run
      <3>1. (Listeners(p) = {}) \in BOOLEAN
        OBVIOUS
      <3> QED  BY <3>1, OwnService
    <2> HIDE DEF s
    <2>2. services' = services \cup {s}
      BY <1>3 DEF s
    <2> QED  BY <1>1, <2>1, <2>2 DEF HostOk
  <1> QED  BY <1>2, <1>3 DEF ComeUp

(* A run enters its next phase, or its clean-up.                           *)
LEMMA PhaseEntered ==
  ASSUME ValidInv, vstep.phase # "idle", UNCHANGED validations, HostOk(services', packages'),
         NEW phase \in {"install", "start", "ready", "plugins", "again", "api", "cleanup"},
         \/ Enter(phase)
         \/ phase = "cleanup" /\ \E after \in Ending : CleanUp(after),
         phase \notin {"install", "cleanup"} /\ Wanted.dist \in Package =>
           \A p \in Probed : OwnOnly(p, services')
  PROVE  ValidInv'
  <1>1. /\ run \in Nat /\ run \in 1 .. run /\ Probed \subseteq ProductName
        /\ Wanted.projects \in Seq(Probed) /\ Wanted.projects # <<>>
        /\ Probed = ToSet(Wanted.projects) /\ Wanted \in ValidationRequest
    BY WantedFacts DEF Probed
  <1>2. vstep \in StepRecord /\ Wanted.projects \in Seq(ProductName)
    BY <1>1 DEF ValidInv, StepOk, ValidationRequest
  <1>3. /\ vstep' \in StepRecord /\ vstep'.phase = phase /\ vstep'.todo = Wanted.projects
    <2>1. CASE Enter(phase)
      BY <1>2, <2>1 DEF Enter, StepRecord
    <2>2. CASE phase = "cleanup" /\ \E after \in Ending : CleanUp(after)
      BY <1>2, <2>2 DEF CleanUp, StepRecord
    <2> QED  BY <2>1, <2>2
  <1>4. StepOk(vstep', services', packages')
    BY <1>1, <1>3 DEF StepOk
  <1> QED  BY <1>3, <1>4, StepTaken

(* A product is installed, or started.                                     *)
LEMMA ProjectDone ==
  ASSUME ValidInv, UNCHANGED validations, HostOk(services', packages'),
         NEW phase, NextProject(phase),
         \/ vstep.phase = "install" /\ phase = "start"
         \/ vstep.phase = "start" /\ phase = "ready",
         Wanted.dist \in Package =>
           \A p \in Probed : \/ OwnOnly(p, services')
                             \/ /\ vstep.phase = "install" /\ p # Head(vstep.todo)
                                /\ p \in ToSet(vstep.todo)
  PROVE  ValidInv'
  <1>1. /\ run \in Nat /\ run \in 1 .. run /\ Tail(vstep.todo) \in Seq(Probed)
        /\ ToSet(vstep.todo) = {Head(vstep.todo)} \cup ToSet(Tail(vstep.todo))
        /\ Len(vstep.todo) > 1 => Tail(vstep.todo) # <<>>
        /\ ~(Len(vstep.todo) > 1) => ToSet(vstep.todo) = {Head(vstep.todo)}
        /\ Probed \subseteq ProductName
    BY WantedFacts
  <1>2. CASE Len(vstep.todo) > 1
    <2>1. vstep' = [vstep EXCEPT !.todo = Tail(@)]
      BY <1>2 DEF NextProject
    <2>2. vstep \in StepRecord /\ Tail(vstep.todo) \in Seq(ProductName)
      <3>1. vstep \in StepRecord /\ vstep.todo \in Seq(Probed) /\ vstep.todo # <<>>
        BY DEF ValidInv, StepOk
      <3>2. vstep.todo \in Seq(ProductName)
        BY <3>1 DEF StepRecord
      <3> QED  BY <3>1, <3>2, HeadTailProperties
    <2>3. /\ vstep' \in StepRecord /\ vstep'.phase = vstep.phase
          /\ vstep'.todo = Tail(vstep.todo)
      BY <2>1, <2>2 DEF StepRecord
    <2>4. StepOk(vstep', services', packages')
      BY <1>1, <1>2, <2>3 DEF StepOk
    <2> QED  BY <2>3, <2>4, StepTaken
  <1>3. CASE ~(Len(vstep.todo) > 1)
    <2>1. Enter(phase)
      BY <1>3 DEF NextProject
    <2>2. Wanted.dist \in Package => \A p \in Probed : OwnOnly(p, services')
      BY <1>1, <1>3
    <2> QED  BY <2>1, <2>2, PhaseEntered
  <1> QED  BY <1>2, <1>3

(* The steps that change nothing on the host.                              *)
LEMMA HostUntouched ==
  ASSUME ValidInv
  PROVE  /\ DownloadArtifacts \/ DaemonDown \/ PullImages \/ InstallTar \/ InstallZip => ValidInv'
         /\ RefusePackage \/ CompareDigests \/ AwaitReadiness \/ ArchiveNotReady => ValidInv'
         /\ NotReady \/ AwaitAgain => ValidInv'
  <1>1. HostOk(services, packages) /\ StepOk(vstep, services, packages)
    BY DEF ValidInv
  <1>2. ASSUME vstep.phase # "idle", UNCHANGED <<services, packages>>, EndRun("raised")
        PROVE  ValidInv'
    BY <1>1, <1>2, RunEnds DEF Ending
  <1>3. ASSUME vstep.phase # "idle", UNCHANGED <<services, packages>>, EndRun("failed")
        PROVE  ValidInv'
    BY <1>1, <1>3, RunEnds DEF Ending
  <1>4. ASSUME vstep.phase # "idle", UNCHANGED <<validations, services, packages>>,
               NEW phase \in {"install", "start", "ready", "plugins", "again", "api"},
               Enter(phase), phase # "install" => Wanted.dist \notin Package
        PROVE  ValidInv'
    BY <1>1, <1>4, PhaseEntered
  <1>5. ASSUME vstep.phase # "idle", UNCHANGED <<validations, services, packages>>,
               NEW after \in Ending, CleanUp(after)
        PROVE  ValidInv'
    BY <1>1, <1>5, PhaseEntered
  <1>6. ASSUME DownloadArtifacts PROVE ValidInv'
    BY <1>2, <1>4, <1>6 DEF DownloadArtifacts, At
  <1>7. ASSUME DaemonDown PROVE ValidInv'
    BY <1>3, <1>7 DEF DaemonDown, At
  <1>8. ASSUME PullImages PROVE ValidInv'
    BY <1>2, <1>4, <1>8 DEF PullImages, At, Package
  <1>9. ASSUME InstallTar PROVE ValidInv'
    BY <1>3, <1>4, <1>9 DEF InstallTar, At, Package
  <1>10. ASSUME InstallZip PROVE ValidInv'
    BY <1>2, <1>4, <1>10 DEF InstallZip, At, Package
  <1>11. ASSUME RefusePackage PROVE ValidInv'
    BY <1>2, <1>11 DEF RefusePackage, At
  <1>12. ASSUME CompareDigests PROVE ValidInv'
    <2>1. /\ vstep.phase # "idle" /\ Wanted.dist = "docker" /\ Wanted.digest
          /\ UNCHANGED <<services, packages>>
      BY <1>12 DEF CompareDigests, At
    <2>2. Wanted = RequestOf(run)
      BY <2>1, WantedFacts
    <2>3. \A s \in services : s.run # run
      BY <1>1, <2>1, <2>2 DEF HostOk, ServiceOk
    <2>4. run # 0
      BY <1>1, <2>1 DEF StepOk
    <2>5. \A p \in ProductName : packages[p] # run
      BY <1>1, <2>1, <2>2, <2>4 DEF HostOk, PackageOk, Package
    <2>6. PICK same \in BOOLEAN : EndRun(IF same THEN "passed" ELSE "raised")
      BY <1>12 DEF CompareDigests
    <2>7. CASE same
      BY <1>1, <2>1, <2>3, <2>5, <2>6, <2>7, RunEnds DEF Ending
    <2>8. CASE ~same
      BY <1>2, <2>1, <2>6, <2>8
    <2> QED  BY <2>7, <2>8
  <1>13. ASSUME AwaitReadiness PROVE ValidInv'
    <2> DEFINE phase == IF Wanted.dist = "docker" /\ Wanted.native THEN "plugins" ELSE "api"
    <2>1. /\ vstep.phase = "ready" /\ Enter(phase) /\ phase \in {"plugins", "api"}
          /\ UNCHANGED <<validations, services, packages>>
      BY <1>13 DEF AwaitReadiness
    <2>2. Wanted.dist \in Package => \A p \in Probed : OwnOnly(p, services)
      BY <1>1, <2>1 DEF StepOk
    <2> HIDE DEF phase
    <2> QED  BY <1>1, <2>1, <2>2, PhaseEntered
  <1>14. ASSUME ArchiveNotReady PROVE ValidInv'
    BY <1>5, <1>14 DEF ArchiveNotReady, At, Ending
  <1>15. ASSUME NotReady PROVE ValidInv'
    BY <1>2, <1>15 DEF NotReady
  <1>16. ASSUME AwaitAgain PROVE ValidInv'
    BY <1>4, <1>5, <1>16 DEF AwaitAgain, At, Package, Ending
  <1> QED  BY <1>6, <1>7, <1>8, <1>9, <1>10, <1>11, <1>12, <1>13, <1>14, <1>15, <1>16

(* After a package its plugins; the run goes on to its next project.       *)
LEMMA PluginsInstalled ==
  ASSUME ValidInv, vstep.phase = "install", Wanted.dist \in Package,
         HostOk(services', packages'), services' \subseteq services,
         \A s \in services' : ~(s.project = Head(vstep.todo) /\ s.packaged), NativePlugins
  PROVE  ValidInv'
  <1>1. CASE EndRun("raised")
    BY <1>1, RunEnds DEF Ending
  <1>2. CASE NextProject("start") /\ UNCHANGED validations
    <2>1. \A p \in Probed \ ToSet(vstep.todo) : OwnOnly(p, services)
      BY DEF ValidInv, StepOk
    <2>2. \A p \in Probed : \/ OwnOnly(p, services')
                            \/ p # Head(vstep.todo) /\ p \in ToSet(vstep.todo)
      BY <2>1 DEF OwnOnly
    <2> QED  BY <1>2, <2>2, ProjectDone
  <1> QED  BY <1>1, <1>2 DEF NativePlugins

(* One package, whether its tool says that it failed or not.               *)
LEMMA PackageInstalled ==
  ASSUME ValidInv, InstallRpm \/ InstallYum \/ InstallDeb
  PROVE  ValidInv'
  <1>1. vstep.phase = "install" /\ Wanted.dist \in Package
    BY DEF InstallRpm, InstallYum, InstallDeb, At, Package
  <1>2. PICK installed \in BOOLEAN :
          Replace(Head(vstep.todo), installed) /\ (NativePlugins \/ EndRun("raised"))
    BY DEF InstallRpm, InstallYum, InstallDeb
  <1>3. Head(vstep.todo) \in Probed
    BY <1>1, WantedFacts
  <1>4. /\ HostOk(services', packages') /\ services' \subseteq services
        /\ \A s \in services' : ~(s.project = Head(vstep.todo) /\ s.packaged)
    BY <1>1, <1>2, <1>3, PackageReplaced
  <1>5. CASE EndRun("raised")
    BY <1>1, <1>4, <1>5, RunEnds DEF Ending
  <1>6. CASE NativePlugins
    BY <1>1, <1>4, <1>6, PluginsInstalled
  <1> QED  BY <1>2, <1>5, <1>6

(* Starting: the port may be taken, and the unit may not be there.         *)
LEMMA ProductStarted ==
  ASSUME ValidInv, StartProcess \/ StartUnit
  PROVE  ValidInv'
  <1> DEFINE packaged == Wanted.dist \in Package
  <1>1. /\ vstep.phase = "start" /\ Wanted.dist # "docker" /\ UNCHANGED packages
        /\ ComeUp(Head(vstep.todo), packaged) \/ UNCHANGED services
        /\ (NextProject("ready") /\ UNCHANGED validations) \/ EndRun("raised")
    <2>1. CASE StartProcess
      <3>1. packaged = FALSE /\ Wanted.dist # "docker"
        BY <2>1 DEF StartProcess, At, Archive, Package
      <3> QED  BY <2>1, <3>1 DEF StartProcess, At
    <2>2. CASE StartUnit
      <3>1. packaged = TRUE /\ Wanted.dist # "docker"
        BY <2>2 DEF StartUnit, At, Package
      <3> QED  BY <2>2, <3>1 DEF StartUnit, At
    <2> QED  BY <2>1, <2>2
  <1>2. Head(vstep.todo) \in Probed /\ packaged \in BOOLEAN
    BY <1>1, WantedFacts
  <1>3. HostOk(services, packages)
    BY DEF ValidInv
  <1>4. /\ HostOk(services', packages')
        /\ \A s \in services' : s \in services \/ s.run = run
    BY <1>1, <1>2, <1>3, CameUp
  <1>5. CASE EndRun("raised")
    BY <1>1, <1>4, <1>5, RunEnds DEF Ending
  <1>6. CASE NextProject("ready") /\ UNCHANGED validations
    <2>1. Wanted.dist \in Package => \A p \in Probed : OwnOnly(p, services)
      BY <1>1 DEF ValidInv, StepOk
    <2>2. Wanted.dist \in Package => \A p \in Probed : OwnOnly(p, services')
      BY <1>4, <2>1 DEF OwnOnly
    <2> QED  BY <1>1, <1>4, <1>6, <2>2, ProjectDone
  <1> QED  BY <1>1, <1>5, <1>6

(* Containers take the place of the run's own, or find a port taken.       *)
LEMMA ContainersStarted ==
  ASSUME ValidInv, ComposeUp \/ RestartContainers
  PROVE  ValidInv'
  <1>0. HostOk(services, packages) /\ packages \in [ProductName -> Nat]
    BY DEF ValidInv, HostOk
  <1>1. vstep.phase # "idle" /\ Wanted.dist = "docker" /\ UNCHANGED packages
    BY DEF ComposeUp, RestartContainers, At
  <1>2. HostOk(services', packages')
    <2>1. CASE ComposeUp
      <3>1. ~Wanted.digest
        BY <2>1 DEF ComposeUp
      <3>2. PICK up \in SUBSET Probed :
              services' = (services \ Mine) \cup {Service(p, run, FALSE, TRUE) : p \in up}
        BY <2>1 DEF ComposeUp, Probed
      <3>3. ASSUME NEW p \in up
            PROVE  LET s == Service(p, run, FALSE, TRUE) IN s \in ServiceRecord /\ ServiceOk(s)
        <4>1. p \in Probed /\ FALSE \in BOOLEAN /\ TRUE \in BOOLEAN
          BY <3>2
        <4>2. FALSE <=> Wanted.dist \in Package
          BY <1>1 DEF Package
        <4> QED  BY <1>1, <3>1, <4>1, <4>2, OwnService
      <3>4. \A s \in services' : s \in services \/ \E p \in up : s = Service(p, run, FALSE, TRUE)
        BY <3>2
      <3>5. \A s \in services' : s \in ServiceRecord /\ ServiceOk(s)
        BY <1>0, <3>3, <3>4 DEF HostOk
      <3> QED  BY <1>0, <1>1, <3>5 DEF HostOk
    <2>2. CASE RestartContainers
      <3>1. services' \subseteq services
        BY <2>2 DEF RestartContainers
      <3> QED  BY <1>0, <1>1, <3>1 DEF HostOk
    <2> QED  BY <2>1, <2>2
  <1>3. CASE EndRun("raised")
    BY <1>1, <1>2, <1>3, RunEnds DEF Ending
  <1>4. CASE Enter("ready") /\ UNCHANGED validations
    BY <1>1, <1>2, <1>4, PhaseEntered DEF Package
  <1>5. CASE Enter("again") /\ UNCHANGED validations
    BY <1>1, <1>2, <1>5, PhaseEntered DEF Package
  <1> QED  BY <1>3, <1>4, <1>5 DEF ComposeUp, RestartContainers

(* The tests are answered by what listens.                                 *)
LEMMA ApisTested ==
  ASSUME ValidInv, TestApis
  PROVE  ValidInv'
  <1> DEFINE S == {x \in Probed : Listeners(x) # {}}
             found == [p \in S |-> (CHOOSE s \in Listeners(p) : TRUE).run]
             mine == [validations[run] EXCEPT !.tested = found]
  <1>1. /\ vstep.phase = "api" /\ validations' = [validations EXCEPT ![run] = mine]
        /\ (\E after \in Ending : CleanUp(after)) /\ UNCHANGED <<services, packages>>
    BY DEF TestApis, Ending
  <1>2. /\ run \in Nat /\ run \in 1 .. run /\ Wanted = RequestOf(run)
        /\ Probed = ToSet(RequestOf(run).projects) /\ Probed \subseteq ProductName
        /\ validations[run].outcome = "running" /\ validations[run] \in Validation
        /\ Wanted.projects \in Seq(Probed) /\ Wanted.projects # <<>>
        /\ Wanted \in ValidationRequest
    BY <1>1, WantedFacts
  <1>3. /\ validations \in Seq(Validation) /\ run = Len(validations) /\ run <= MaxValidations
        /\ HostOk(services, packages) /\ StepOk(vstep, services, packages)
    BY DEF ValidInv, run
  <1>4. ASSUME NEW p \in S
        PROVE  LET j == found[p]
               IN  /\ j \in 1 .. run /\ validations[j].outcome # "passed"
                   /\ j # run => {Wanted.dist, RequestOf(j).dist} \ Package # {}
    <2> DEFINE s == CHOOSE s \in Listeners(p) : TRUE
    <2>1. s \in Listeners(p) /\ found[p] = s.run /\ p \in Probed
      BY <1>4
    <2> HIDE DEF s, found
    <2>2. s \in services /\ s.project = p
      BY <2>1 DEF Listeners
    <2>3. ServiceOk(s)
      BY <1>3, <2>2 DEF HostOk
    <2>4. ASSUME s.run # run, Wanted.dist \in Package, RequestOf(s.run).dist \in Package
          PROVE  FALSE
      <3>1. s.packaged
        BY <2>3, <2>4 DEF ServiceOk
      <3>2. OwnOnly(p, services)
        BY <1>1, <1>3, <2>1, <2>4 DEF StepOk
      <3> QED  BY <2>2, <2>4, <3>1, <3>2 DEF OwnOnly
    <2> QED  BY <2>1, <2>3, <2>4 DEF ServiceOk
  <1>5. found \in Tested
    <2>1. \A p \in S : found[p] \in 1 .. MaxValidations
      <3>1. MaxValidations \in Nat
        BY ValidationAssumption
      <3> HIDE DEF found, S
      <3>2. \A p \in S : found[p] \in 1 .. run
        BY <1>4
      <3> QED  BY <1>2, <1>3, <3>1, <3>2
    <2>2. S \in SUBSET ProductName
      BY <1>2
    <2>3. found = [p \in S |-> found[p]]
      OBVIOUS
    <2> HIDE DEF found, S
    <2>4. found \in [S -> 1 .. MaxValidations]
      BY <2>1, <2>3
    <2> QED  BY <2>2, <2>4 DEF Tested
  <1>6. DOMAIN found = S
    OBVIOUS
  <1> HIDE DEF found, S
  <1>7. /\ mine \in Validation /\ mine.tested = found /\ mine.outcome = "running"
        /\ mine.request = validations[run].request
    BY <1>2, <1>5 DEF Validation
  <1> HIDE DEF mine
  <1>8. /\ validations' \in Seq(Validation) /\ Len(validations') = run /\ validations'[run] = mine
        /\ \A i \in 1 .. run : i # run => validations'[i] = validations[i]
    BY <1>1, <1>2, <1>3, <1>7, ExceptSeq
  <1>9. run' = run
    BY <1>8 DEF run
  <1>10. \A i \in 1 .. run : /\ RequestOf(i)' = RequestOf(i)
                             /\ validations'[i].outcome = validations[i].outcome
                             /\ i # run => validations'[i].tested = validations[i].tested
    BY <1>2, <1>7, <1>8 DEF RequestOf
  <1>11. Wanted' = Wanted /\ Probed' = Probed
    BY <1>2, <1>9, <1>10 DEF Wanted, Probed, RequestOf
  <1>12. HostOk(services, packages)'
    <2>1. \A s \in services : ServiceOk(s)'
      BY <1>3, <1>9, <1>10 DEF HostOk, ServiceOk
    <2>2. \A p, i : PackageOk(p, i) => PackageOk(p, i)'
      BY <1>9, <1>10 DEF PackageOk
    <2> QED  BY <1>1, <1>3, <2>1, <2>2 DEF HostOk
  <1>13. vstep' \in StepRecord /\ vstep'.phase = "cleanup" /\ vstep'.todo = Wanted.projects
    <2>1. vstep \in StepRecord /\ Wanted.projects \in Seq(ProductName)
      BY <1>2, <1>3 DEF StepOk, ValidationRequest
    <2> QED  BY <1>1, <2>1 DEF CleanUp, StepRecord
  <1>14. StepOk(vstep, services, packages)'
    <2>1. Probed \ ToSet(Wanted.projects) = {} /\ run # 0
      BY <1>2 DEF Probed
    <2> QED  BY <1>2, <1>9, <1>11, <1>13, <2>1 DEF StepOk
  <1>15. ASSUME NEW i \in 1 .. run PROVE TestedOk(i)'
    <2>1. CASE i = run
      <3>1. ASSUME NEW p \in DOMAIN found, NEW j, j = found[p]
            PROVE  j = run \/ /\ j \in 1 .. run - 1 /\ validations'[j].outcome # "passed"
                              /\ {RequestOf(run)'.dist, RequestOf(j)'.dist} \ Package # {}
        <4>1. /\ j \in 1 .. run /\ validations[j].outcome # "passed"
              /\ j # run => {Wanted.dist, RequestOf(j).dist} \ Package # {}
          BY <1>4, <1>6, <3>1
        <4>2. j # run => j \in 1 .. run - 1
          BY <1>2, <4>1
        <4> QED  BY <1>2, <1>9, <1>10, <4>1, <4>2
      <3>2. validations'[i].tested = found
        BY <1>7, <1>8, <2>1
      <3>3. \A p \in DOMAIN found : \A j : j = found[p] =>
              j = run \/ /\ j \in 1 .. run - 1 /\ validations'[j].outcome # "passed"
                         /\ {RequestOf(run)'.dist, RequestOf(j)'.dist} \ Package # {}
        BY <3>1
      <3> QED  BY <1>9, <2>1, <3>2, <3>3 DEF TestedOk, RequestOf
    <2>2. CASE i # run
      <3>1. TestedOk(i)
        BY DEF ValidInv
      <3>2. \A j \in 1 .. i - 1 : j \in 1 .. run
        BY <1>2
      <3> QED  BY <1>10, <2>2, <3>1, <3>2 DEF TestedOk, RequestOf
    <2> QED  BY <2>1, <2>2
  <1>16. \A i \in 1 .. run :
           validations'[i].outcome = "running" <=> i = run' /\ vstep'.phase # "idle"
    BY <1>1, <1>9, <1>10, <1>13 DEF ValidInv
  <1> QED  BY <1>3, <1>8, <1>9, <1>12, <1>14, <1>15, <1>16 DEF ValidInv

(* A product is cleaned up; after the last one the run ends.               *)
LEMMA ProjectCleaned ==
  ASSUME ValidInv, vstep.phase = "cleanup", HostOk(services', packages'), Cleaned,
         services' \subseteq services,
         \A p \in ProductName : packages'[p] \in {packages[p], 0},
         Gone(Head(vstep.todo), services', packages')
  PROVE  ValidInv'
  <1>1. /\ run \in Nat /\ run \in 1 .. run /\ Tail(vstep.todo) \in Seq(Probed)
        /\ ToSet(vstep.todo) = {Head(vstep.todo)} \cup ToSet(Tail(vstep.todo))
        /\ Len(vstep.todo) > 1 => Tail(vstep.todo) # <<>>
        /\ ~(Len(vstep.todo) > 1) => ToSet(vstep.todo) = {Head(vstep.todo)}
        /\ Probed \subseteq ProductName /\ Probed = ToSet(RequestOf(run).projects)
    BY WantedFacts
  <1>2. /\ \A p \in Probed \ ToSet(vstep.todo) : Gone(p, services, packages)
        /\ vstep \in StepRecord /\ vstep.todo \in Seq(Probed) /\ vstep.todo # <<>>
    BY DEF ValidInv, StepOk
  <1>3. ASSUME NEW p \in ProductName, Gone(p, services, packages)
        PROVE  Gone(p, services', packages')
    BY <1>1, <1>3 DEF Gone
  <1>4. CASE Len(vstep.todo) > 1
    <2>1. vstep' = [vstep EXCEPT !.todo = Tail(@)] /\ UNCHANGED validations
      BY <1>4 DEF Cleaned
    <2>2. Tail(vstep.todo) \in Seq(ProductName)
      <3>1. vstep.todo \in Seq(ProductName)
        BY <1>2 DEF StepRecord
      <3> QED  BY <1>2, <3>1, HeadTailProperties
    <2>3. /\ vstep' \in StepRecord /\ vstep'.phase = "cleanup"
          /\ vstep'.todo = Tail(vstep.todo)
      BY <1>2, <2>1, <2>2 DEF StepRecord
    <2>4. \A p \in Probed \ ToSet(Tail(vstep.todo)) : Gone(p, services', packages')
      BY <1>1, <1>2, <1>3
    <2>5. StepOk(vstep', services', packages')
      BY <1>1, <1>4, <2>3, <2>4 DEF StepOk
    <2> QED  BY <2>1, <2>3, <2>5, StepTaken
  <1>5. CASE ~(Len(vstep.todo) > 1)
    <2>1. EndRun(vstep.after) /\ vstep.after \in Ending
      BY <1>2, <1>5 DEF Cleaned, StepRecord
    <2>2. \A p \in Probed : Gone(p, services', packages')
      BY <1>1, <1>2, <1>3, <1>5
    <2>3. \A s \in services' : s.run # run
      BY <1>1, <2>2 DEF Gone, HostOk, ServiceOk
    <2>4. \A p \in ProductName : packages'[p] # run
      <3> TAKE p \in ProductName
      <3>1. CASE p \in Probed
        BY <2>2, <3>1 DEF Gone
      <3>2. CASE p \notin Probed
        BY <1>1, <3>2 DEF HostOk, PackageOk
      <3> QED  BY <3>1, <3>2
    <2> QED  BY <2>1, <2>3, <2>4, RunEnds
  <1> QED  BY <1>4, <1>5

(* The clean-up of each kind of distribution, or its failure.              *)
LEMMA HostCleaned ==
  ASSUME ValidInv, TerminateProcesses \/ RemovePackages \/ PurgePackages \/ ComposeDown
  PROVE  ValidInv'
  <1>1. /\ vstep.phase = "cleanup"
    BY DEF TerminateProcesses, RemovePackages, PurgePackages, ComposeDown, At
  <1>2. /\ run \in Nat /\ run \in 1 .. run /\ Wanted = RequestOf(run)
        /\ Head(vstep.todo) \in Probed /\ Probed \subseteq ProductName
    BY <1>1, WantedFacts
  <1>3. HostOk(services, packages) /\ vstep.after \in Ending
    BY DEF ValidInv, StepOk, StepRecord
  <1>4. packages \in [ProductName -> Nat] /\ run # 0
    BY <1>2, <1>3 DEF HostOk
  <1>5. ASSUME services' \subseteq services, UNCHANGED packages
        PROVE  HostOk(services', packages')
    BY <1>4, <1>5, HostShrinks
  <1>6. ASSUME services' \subseteq services, UNCHANGED packages, EndRun("raised")
        PROVE  ValidInv'
    BY <1>1, <1>5, <1>6, RunEnds DEF Ending
  <1>7. Wanted.dist \notin Package => \A p \in ProductName : packages[p] # run
    BY <1>2, <1>3, <1>4 DEF HostOk, PackageOk
  <1>8. CASE TerminateProcesses
    <2>1. Wanted.dist \notin Package /\ UNCHANGED packages
      BY <1>8 DEF TerminateProcesses, At, Archive, Package
    <2>2. CASE /\ services' = services \ {s \in Mine : s.project = Head(vstep.todo)}
               /\ Cleaned
      <3>1. Gone(Head(vstep.todo), services', packages')
        BY <1>2, <1>7, <2>1, <2>2 DEF Gone, Mine
      <3>2. services' \subseteq services
        BY <2>2
      <3> QED  BY <1>1, <1>5, <2>1, <2>2, <3>1, <3>2, ProjectCleaned
    <2>3. CASE EndRun("raised") /\ UNCHANGED services
      BY <1>6, <2>1, <2>3
    <2> QED  BY <1>8, <2>2, <2>3 DEF TerminateProcesses
  <1>9. ASSUME Wanted.dist \in Package, Replace(Head(vstep.todo), FALSE), Cleaned
        PROVE  ValidInv'
    <2>1. /\ HostOk(services', packages') /\ services' \subseteq services
          /\ \A s \in services' : ~(s.project = Head(vstep.todo) /\ s.packaged)
          /\ packages'[Head(vstep.todo)] = 0
          /\ \A q \in ProductName : q # Head(vstep.todo) => packages'[q] = packages[q]
      BY <1>1, <1>2, <1>9, PackageReplaced
    <2>2. \A s \in services' : s.run = run => s.packaged
      BY <1>2, <1>9, <2>1 DEF HostOk, ServiceOk
    <2>3. Gone(Head(vstep.todo), services', packages')
      BY <1>4, <2>1, <2>2 DEF Gone
    <2>4. \A p \in ProductName : packages'[p] \in {packages[p], 0}
      BY <2>1
    <2> QED  BY <1>1, <1>9, <2>1, <2>3, <2>4, ProjectCleaned
  <1>10. CASE RemovePackages
    <2>1. Wanted.dist \in Package
      BY <1>10 DEF RemovePackages, At, Package
    <2>2. CASE Replace(Head(vstep.todo), FALSE) /\ Cleaned
      BY <1>9, <2>1, <2>2
    <2>3. CASE UNCHANGED packages /\ services' \subseteq services /\ EndRun("raised")
      BY <1>6, <2>3
    <2> QED  BY <1>10, <2>2, <2>3 DEF RemovePackages
  <1>11. CASE PurgePackages
    <2>1. Wanted.dist \in Package
      BY <1>11 DEF PurgePackages, At, Package
    <2>2. CASE Replace(Head(vstep.todo), FALSE) /\ Cleaned
      BY <1>9, <2>1, <2>2
    <2>3. CASE UNCHANGED <<services, packages>> /\ EndRun("raised")
      BY <1>6, <2>3
    <2> QED  BY <1>11, <2>2, <2>3 DEF PurgePackages
  <1>12. CASE ComposeDown
    <2>1. Wanted.dist \notin Package /\ UNCHANGED packages
      BY <1>12 DEF ComposeDown, At, Package
    <2>2. CASE services' = services \ Mine /\ EndRun(vstep.after)
      <3>1. /\ services' \subseteq services /\ \A s \in services' : s.run # run
        BY <2>2 DEF Mine
      <3>2. \A p \in ProductName : packages'[p] # run
        BY <1>7, <2>1
      <3>3. HostOk(services', packages')
        BY <1>5, <2>1, <3>1
      <3> QED  BY <1>1, <1>3, <2>2, <3>1, <3>2, <3>3, RunEnds
    <2>3. CASE EndRun(IF vstep.after = "passed" THEN "failed" ELSE vstep.after)
               /\ UNCHANGED services
      <3> DEFINE outcome == IF vstep.after = "passed" THEN "failed" ELSE vstep.after
      <3>1. outcome \in Ending /\ outcome # "passed"
        BY <1>3 DEF Ending
      <3>2. EndRun(outcome)
        BY <2>3
      <3>3. HostOk(services', packages')
        BY <1>3, <2>1, <2>3
      <3> HIDE DEF outcome
      <3> QED  BY <1>1, <3>1, <3>2, <3>3, RunEnds
    <2> QED  BY <1>12, <2>2, <2>3 DEF ComposeDown
  <1> QED  BY <1>8, <1>10, <1>11, <1>12

(* A new run finds what the runs before it left.                           *)
LEMMA ValidationStarts ==
  ASSUME ValidInv, NEW q \in ValidationRequests, StartValidation(q)
  PROVE  ValidInv'
  <1> DEFINE new == [request |-> q, outcome |-> "running", tested |-> [p \in {} |-> 0]]
             step == [NoStep EXCEPT !.phase = "download", !.todo = q.projects,
                                    !.sources = q.sources]
             n == run + 1
  <1>1. /\ vstep.phase = "idle" /\ run < MaxValidations /\ validations' = Append(validations, new)
        /\ vstep' = step /\ UNCHANGED <<services, packages>>
    BY DEF StartValidation
  <1>2. /\ validations \in Seq(Validation) /\ run = Len(validations) /\ run \in Nat
        /\ HostOk(services, packages) /\ MaxValidations \in Nat
    BY ValidationAssumption DEF ValidInv, run
  <1>3. new \in Validation /\ new.request = q /\ new.outcome = "running" /\ DOMAIN new.tested = {}
    <2>1. [p \in {} |-> 0] \in [{} -> 1 .. MaxValidations] /\ {} \in SUBSET ProductName
      OBVIOUS
    <2>2. [p \in {} |-> 0] \in Tested
      BY <2>1 DEF Tested
    <2> QED  BY <2>2 DEF Validation, RunOutcome
  <1>4. /\ q.projects \in Seq(ProductName) /\ q.projects # <<>>
        /\ q.sources \in Seq({"dockerhub", "ecr"})
    BY ValidationAssumption DEF ValidationRequest
  <1>5. step \in StepRecord /\ step.phase = "download" /\ step.todo = q.projects
    BY <1>4 DEF NoStep, StepRecord, Ending
  <1> HIDE DEF new, step
  <1>6. /\ validations' \in Seq(Validation) /\ Len(validations') = n /\ validations'[n] = new
        /\ \A i \in 1 .. run : validations'[i] = validations[i]
    BY <1>1, <1>2, <1>3, AppendProperties
  <1>7. run' = n /\ n \in Nat /\ n # 0 /\ n <= MaxValidations /\ 1 .. n = 1 .. run \cup {n}
    BY <1>1, <1>2, <1>6 DEF run
  <1>8. n \notin 1 .. run
    BY <1>2
  <1> HIDE DEF n
  <1>9. \A i \in 1 .. run : /\ RequestOf(i)' = RequestOf(i)
                            /\ validations'[i].outcome = validations[i].outcome
                            /\ validations'[i].tested = validations[i].tested
    BY <1>6 DEF RequestOf
  <1>10. HostOk(services, packages)'
    <2>1. \A s \in services : ServiceOk(s)'
      BY <1>2, <1>7, <1>9 DEF HostOk, ServiceOk
    <2>2. \A p, i : PackageOk(p, i) => PackageOk(p, i)'
      BY <1>7, <1>9 DEF PackageOk
    <2> QED  BY <1>1, <1>2, <2>1, <2>2 DEF HostOk
  <1>11. StepOk(vstep, services, packages)'
    <2>1. Probed' = ToSet(q.projects)
      BY <1>3, <1>6, <1>7 DEF Probed, Wanted
    <2>2. q.projects \in Seq(ToSet(q.projects))
      BY <1>4 DEF ToSet
    <2> QED  BY <1>1, <1>4, <1>5, <1>7, <2>1, <2>2 DEF StepOk
  <1>12. ASSUME NEW i \in 1 .. n PROVE TestedOk(i)'
    <2>1. CASE i = n
      BY <1>3, <1>6, <2>1 DEF TestedOk
    <2>2. CASE i \in 1 .. run
      <3>1. TestedOk(i)
        BY <2>2 DEF ValidInv
      <3>2. \A j \in 1 .. i - 1 : j \in 1 .. run
        BY <1>2, <2>2
      <3> QED  BY <1>9, <2>2, <3>1, <3>2 DEF TestedOk, RequestOf
    <2> QED  BY <1>7, <2>1, <2>2
  <1>13. \A i \in 1 .. n : validations'[i].outcome = "running" <=> i = n /\ vstep'.phase # "idle"
    BY <1>1, <1>3, <1>5, <1>6, <1>7, <1>8, <1>9 DEF ValidInv
  <1> QED  BY <1>6, <1>7, <1>10, <1>11, <1>12, <1>13 DEF ValidInv

(* No run yet.                                                             *)
LEMMA ValidationBegins == ValidationInit => ValidInv
  <1> SUFFICES ASSUME ValidationInit PROVE ValidInv
    OBVIOUS
  <1>1. validations = <<>> /\ run = 0 /\ 1 .. run = {} /\ MaxValidations \in Nat
    BY ValidationAssumption DEF ValidationInit, run
  <1>2. vstep \in StepRecord /\ vstep.phase = "idle"
    BY DEF ValidationInit, NoStep, StepRecord, Ending
  <1>3. HostOk(services, packages)
    BY DEF ValidationInit, HostOk
  <1>4. <<>> \in Seq(Validation)
    OBVIOUS
  <1> QED  BY <1>1, <1>2, <1>3, <1>4 DEF ValidInv, StepOk

(* One step per action, or its kind.                                       *)
LEMMA ValidationStep ==
  ASSUME ValidInv, [ValidationNext]_validationVars
  PROVE  ValidInv'
  <1>1. ASSUME UNCHANGED validationVars PROVE ValidInv'
    <2>1. UNCHANGED <<validations, vstep, services, packages>> /\ run' = run
      BY <1>1 DEF validationVars, run
    <2>2. HostOk(services, packages)'
      BY <2>1 DEF ValidInv, HostOk, ServiceOk, PackageOk, RequestOf
    <2>3. StepOk(vstep, services, packages)'
      BY <2>1 DEF ValidInv, StepOk, OwnOnly, Gone, Probed, Wanted
    <2>4. \A i \in 1 .. run : TestedOk(i)'
      BY <2>1 DEF ValidInv, TestedOk, RequestOf
    <2> QED  BY <2>1, <2>2, <2>3, <2>4 DEF ValidInv
  <1> QED  BY <1>1, ValidationStarts, HostUntouched, PackageInstalled, ProductStarted,
              ContainersStarted, ApisTested, HostCleaned DEF ValidationNext

(* What is on the host belongs to runs that did not pass, and to products  *)
(* they were asked for; a package that was installed has replaced the      *)
(* services of the one before.                                             *)
THEOREM ValidationConsistent == ValidationSpec => []ValidInv
  BY ValidationBegins, ValidationStep, PTL DEF ValidationSpec

(* A validation that passed left nothing behind and tested its own         *)
(* services, or those of a run that did not pass and was no package like   *)
(* its own.                                                                *)
THEOREM PassesAreBelievable == ValidationSpec => []PassesAreTrue
  <1>1. ASSUME ValidInv PROVE PassesAreTrue
    <2> SUFFICES ASSUME NEW i \in 1 .. run, validations[i].outcome = "passed"
                 PROVE  /\ \A s \in services : s.run # i
                        /\ \A p \in ProductName : packages[p] # i
                        /\ \A p \in DOMAIN validations[i].tested :
                             LET j == validations[i].tested[p] IN
                             \/ j = i
                             \/ /\ j < i /\ validations[j].outcome # "passed"
                                /\ {validations[i].request.dist, validations[j].request.dist}
                                     \ Package # {}
      BY DEF PassesAreTrue
    <2>1. HostOk(services, packages) /\ TestedOk(i) /\ run \in Nat
      BY <1>1 DEF ValidInv, run
    <2>2. \A s \in services : s.run # i
      BY <2>1 DEF HostOk, ServiceOk
    <2>3. \A p \in ProductName : packages[p] # i
      <3>1. i # 0
        BY <2>1
      <3> QED  BY <2>1, <3>1 DEF HostOk, PackageOk
    <2>4. \A j \in 1 .. i - 1 : j < i
      BY <2>1
    <2> QED  BY <2>1, <2>2, <2>3, <2>4 DEF TestedOk, RequestOf
  <1> QED  BY <1>1, ValidationConsistent, PTL
=============================================================================
