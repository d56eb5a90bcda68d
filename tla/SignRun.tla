------------------------------- MODULE SignRun -------------------------------
(***************************************************************************)
(* Runs of run_sign.py over one tree of artifacts: each file of the        *)
(* target that the platform's signer accepts is signed and verified; the   *)
(* first failure ends the run and leaves the tree as it is.  On linux the  *)
(* signature is a file of its own (.sig or .asc), elsewhere it is put into *)
(* the artifact or into a copy of it.                                      *)
(***************************************************************************)
EXTENDS Naturals, FiniteSets

CONSTANTS
  SignRequests,  \* what a run may be asked for: see SignRequest
  TypeOf,        \* the file type of each artifact of the tree
  MaxSignings,   \* bound: runs over the tree
  MaxRebuilds  \* bound: new builds of an artifact

Artifacts == DOMAIN TypeOf

(* The signers' ACCEPTED_FILE_TYPES; a .jar is accepted by two of them.    *)
AcceptedTypes ==
  [linux |-> {"tar", "jar"}, windows |-> {"msi"}, mac |-> {"pkg"}, jar_signer |-> {"jar"}]

(* The target is the directory (everything in it when it is walked) or     *)
(* named: the artifacts a build manifest lists, or one file.               *)
SignRequest ==
  [platform : DOMAIN AcceptedTypes, sigtype : {".sig", ".asc"}, overwrite : BOOLEAN,
   directory : BOOLEAN, named : SUBSET Artifacts]

ASSUME SignAssumption ==
  /\ SignRequests \subseteq SignRequest
  /\ MaxSignings \in Nat /\ MaxRebuilds \in Nat

VARIABLES
  contents,    \* of the files that are not signatures: [build, seals]
  signatures,  \* the signature files: see Signature
  signing,     \* the last run: see StartSigning
  signings     \* the number of runs

signVars == <<contents, signatures, signing, signings>>

(* The name of a file: an artifact's, with so many "signed_" before it.    *)
File(a, n) == [artifact |-> a, prefixes |-> n]
SignedCopy(f) == [f EXCEPT !.prefixes = @ + 1]
Signature(f, type, of) == [file |-> f, type |-> type, of |-> of]
OfType(f, type) == {s \in signatures : s.file = f /\ s.type = type}

SignInit ==
  /\ contents = [f \in {File(a, 0) : a \in Artifacts} |-> [build |-> 1, seals |-> 0]]
  /\ signatures = {} /\ signings = 0
  /\ signing = [step |-> "none", request |-> <<>>, targets |-> {}, todo |-> {}, file |-> <<>>]

Signs == signing.request
Current == signing.file
Ended == signing.step \in {"none", "over", "failed"}

(* A build puts a new artifact in the place of the old one.                *)
Rebuild(a) ==
  /\ Ended /\ contents[File(a, 0)].build <= MaxRebuilds
  /\ contents' = [contents EXCEPT ![File(a, 0)] = [build |-> @.build + 1, seals |-> 0]]
  /\ signing' = [signing EXCEPT !.step = "none"]
  /\ UNCHANGED <<signatures, signings>>

Targets(q) ==
  {f \in DOMAIN contents : q.directory \/ f \in {File(a, 0) : a \in q.named}}

(* is_valid_file_type()                                                    *)
Accepts(platform, f) == TypeOf[f.artifact] \in AcceptedTypes[platform]

(* Fault: what has a signature file is skipped.                            *)
ToSignOnce(q) ==
  {f \in Targets(q) : Accepts(q.platform, f) /\ OfType(f, q.sigtype) = {}}

ToSign(q) == {f \in Targets(q) : Accepts(q.platform, f)}

StartSigning(q) ==
  /\ Ended /\ signings < MaxSignings /\ signings' = signings + 1
  /\ signing' = [step |-> IF ToSign(q) = {} THEN "over" ELSE "next", request |-> q,
                 targets |-> Targets(q), todo |-> ToSign(q), file |-> <<>>]
  /\ UNCHANGED <<contents, signatures>>

FailSigning == signing' = [signing EXCEPT !.step = "failed"]

(* Without --overwrite an old .sig goes first.                             *)
NextFile(f) ==
  /\ signing.step = "next" /\ f \in signing.todo
  /\ signing' = [signing EXCEPT !.step = "client", !.file = f, !.todo = @ \ {f}]
  /\ signatures' = IF Signs.platform = "linux" /\ ~Signs.overwrite
                     THEN signatures \ OfType(f, ".sig") ELSE signatures
  /\ UNCHANGED <<contents, signings>>

Detach ==
  /\ signing.step = "client" /\ Signs.platform = "linux"
  /\ \/ /\ signatures' = (signatures \ OfType(Current, ".sig"))
                           \cup {Signature(Current, ".sig", contents[Current])}
        /\ signing' = [signing EXCEPT !.step = IF Signs.sigtype = ".asc" THEN "convert" ELSE "verify"]
     \/ FailSigning /\ UNCHANGED signatures
  /\ UNCHANGED <<contents, signings>>

(* The old .asc goes; the shell makes the new one before gpg fills it; the *)
(* .sig goes when that has succeeded.                                      *)
ConvertToAsc ==
  LET others == signatures \ OfType(Current, ".asc") IN
  /\ signing.step = "convert"
  /\ \/ /\ signatures' = (others \ OfType(Current, ".sig"))
                           \cup {Signature(Current, ".asc", contents[Current])}
        /\ signing' = [signing EXCEPT !.step = "verify"]
     \/ /\ \E of \in {contents[Current], [build |-> 0, seals |-> 0]} :
             signatures' = others \cup {Signature(Current, ".asc", of)}
        /\ FailSigning
  /\ UNCHANGED <<contents, signings>>

(* The other signers' client: the output is the input with --overwrite.    *)
Seal ==
  LET out == IF Signs.overwrite THEN Current ELSE SignedCopy(Current)
      sealed == [contents[Current] EXCEPT !.seals = @ + 1] IN
  /\ signing.step = "client" /\ Signs.platform # "linux"
  /\ \/ /\ contents' = [f \in DOMAIN contents \cup {out} |->
                          IF f = out THEN sealed ELSE contents[f]]
        /\ signing' = [signing EXCEPT !.step = "verify"]
     \/ FailSigning /\ UNCHANGED contents
  /\ UNCHANGED <<signatures, signings>>

(* gpg --verify-files, jarsigner -verify, osslsigncode verify, pkgutil.    *)
Verify ==
  /\ signing.step = "verify"
  /\ \/ signing' = [signing EXCEPT !.step = IF signing.todo = {} THEN "over" ELSE "next"]
     \/ FailSigning
  /\ UNCHANGED <<contents, signatures, signings>>

(* The job is killed between two commands.                                 *)
KillSigning ==
  /\ ~Ended /\ FailSigning
  /\ UNCHANGED <<contents, signatures, signings>>

SignNext ==
  \/ \E a \in Artifacts : Rebuild(a)
  \/ \E q \in SignRequests : StartSigning(q)
  \/ \E f \in signing.todo : NextFile(f)
  \/ Detach \/ ConvertToAsc \/ Seal \/ Verify \/ KillSigning

SignSpec == SignInit /\ [][SignNext]_signVars

-----------------------------------------------------------------------------
(* After a run that ended well, and until the next build, every artifact   *)
(* of its target has a signature of the kind asked for, made of what the   *)
(* artifact is now, wherever the runs before it stopped: of the detached   *)
(* kinds exactly one file, with no .sig beside an .asc.  (The copies       *)
(* "signed_..." of an earlier run are left out: a run over the directory   *)
(* signs them again and may replace them afterwards.)                      *)
SignedAsAsked ==
  signing.step = "over" =>
    \A f \in signing.targets : f.prefixes = 0 /\ Accepts(Signs.platform, f) =>
      IF Signs.platform = "linux"
        THEN /\ OfType(f, Signs.sigtype) = {Signature(f, Signs.sigtype, contents[f])}
             /\ Signs.sigtype = ".asc" => OfType(f, ".sig") = {}
        ELSE LET out == IF Signs.overwrite THEN f ELSE SignedCopy(f) IN
             /\ out \in DOMAIN contents
             /\ contents[out].build = contents[f].build
             /\ contents[out].seals > 0

=============================================================================
