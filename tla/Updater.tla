------------------------------- MODULE Updater -------------------------------
(***************************************************************************)
(* terraphim_update: the self-update of a Terraphim binary.  Several       *)
(* processes run the same executable and update it, each through one of    *)
(* the public operations of TerraphimUpdater: from the R2 manifest, with   *)
(* GitHub as the fallback when the transport fails.  Meanwhile releases    *)
(* are published on the two hosts and a package manager may take the       *)
(* executable over.                                                        *)
(*                                                                         *)
(* An archive is its version and what signature verification says of it;   *)
(* bytes that were damaged on the way fail the size, the checksum or the   *)
(* signature, and any of the three is a rejection.                         *)
(***************************************************************************)
EXTENDS Naturals, FiniteSets

CONSTANTS
    Procs,        \* processes running the executable
    MaxVersion,   \* releases are numbered 1..MaxVersion
    FirstVersion, \* the installed release in the initial state
    LibVersion,   \* the version of the terraphim_update crate itself
    Commands,     \* the calls the program makes: set of Command
    MaxPublish,   \* bound on the releases published
    MaxOps        \* bound on the operations begun

Versions == 1..MaxVersion
Sigs == {"valid", "missing", "invalid"}
Archive == [ver : Versions, sig : Sigs]

\* A call site: the operation, whether it chains with_version (own) or leaves
\* the default version of the library, whether its bin_name is spelled as in
\* the release assets (exact), and the backend.
Ops == {"check", "check_auto", "update", "check_and_update", "verified"}
Command == [op : Ops, own : BOOLEAN, exact : BOOLEAN, backend : {"r2", "github"}]

ASSUME UpdaterAssumption ==
    /\ MaxVersion \in Nat \ {0}
    /\ FirstVersion \in Versions /\ LibVersion \in Versions
    /\ Commands \subseteq Command
    /\ MaxPublish \in Nat /\ MaxOps \in Nat

VARIABLES
    exe,      \* the archive the executable came from
    receipt,  \* a package-manager receipt names the executable
    host,     \* the newest release each host offers
    pc,       \* where the operation of each process is
    built,    \* the version each process runs
    cmd,      \* the command in hand
    hint,     \* config.policy is PackageManaged
    got,      \* the downloaded archive
    status,   \* the UpdateStatus returned last
    \* history
    rejected, \* update_r2 returned Failed for the archive it downloaded
    known,    \* a receipt existed when the archive had been verified
    published, begun

procVars == <<pc, built, cmd, hint, got, status, rejected, known>>
vars == <<exe, receipt, host, procVars, published, begun>>

-----------------------------------------------------------------------------
PCs == {"gone", "idle", "r2check", "ghcheck", "r2fetch", "r2download",
        "r2verify", "r2install", "r2rename", "vfetch", "vverify", "vinstall",
        "vrename", "ghfetch", "ghdownload", "ghreplace"}
Statuses == {"none", "managed", "available", "uptodate", "updated", "failed"}

TypeOK ==
    /\ exe \in Archive
    /\ receipt \in BOOLEAN
    /\ host \in [{"r2", "github"} -> Archive]
    /\ pc \in [Procs -> PCs]
    /\ built \in [Procs -> Versions]
    /\ cmd \in [Procs -> Command]
    /\ hint \in [Procs -> BOOLEAN]
    /\ got \in [Procs -> Archive]
    /\ status \in [Procs -> Statuses]
    /\ rejected \in [Procs -> BOOLEAN]
    /\ known \in [Procs -> BOOLEAN]
    /\ published \in Nat /\ begun \in Nat

\* config.current_version
Current(p) == IF cmd[p].own THEN built[p] ELSE LibVersion

\* managed_status: the configured policy, else the receipt as it is now.
Managed(p) == hint[p] \/ receipt

\* What can arrive when archive a is downloaded.
Bytes(a) == {a, [a EXCEPT !.sig = "invalid"], [a EXCEPT !.sig = "missing"]}

Goto(p, l) ==
    /\ pc' = [pc EXCEPT ![p] = l]
    /\ UNCHANGED status

Finish(p, s) ==
    /\ pc' = [pc EXCEPT ![p] = "idle"]
    /\ status' = [status EXCEPT ![p] = s]

Init ==
    /\ exe = [ver |-> FirstVersion, sig |-> "valid"]
    /\ receipt = FALSE
    /\ host = [h \in {"r2", "github"} |-> exe]
    /\ pc = [p \in Procs |-> "idle"]
    /\ built = [p \in Procs |-> FirstVersion]
    /\ cmd \in [Procs -> Commands]
    /\ hint = [p \in Procs |-> FALSE]
    /\ got = [p \in Procs |-> exe]
    /\ status = [p \in Procs |-> "none"]
    /\ rejected = [p \in Procs |-> FALSE]
    /\ known = [p \in Procs |-> FALSE]
    /\ published = 0 /\ begun = 0

-----------------------------------------------------------------------------
(* The hosts and the package manager                                       *)

\* A release is published, on one host or on both, or hosts are pointed back to
\* an older one.
Publish ==
    /\ published < MaxPublish
    /\ published' = published + 1
    /\ \E hosts \in SUBSET {"r2", "github"}, a \in Archive :
         host' = [h \in {"r2", "github"} |-> IF h \in hosts THEN a ELSE host[h]]
    /\ UNCHANGED <<exe, receipt, procVars, begun>>

PackageInstalled ==
    /\ ~receipt
    /\ receipt' = TRUE
    /\ UNCHANGED <<exe, host, procVars, published, begun>>

-----------------------------------------------------------------------------
(* Processes                                                               *)

\* The process dies wherever it is: a rename has happened or has not.
Exit(p) ==
    /\ pc[p] # "gone"
    /\ pc' = [pc EXCEPT ![p] = "gone"]
    /\ UNCHANGED <<exe, receipt, host, built, cmd, hint, got, status, rejected,
                   known, published, begun>>

\* The executable is started again.
Start(p) ==
    /\ pc[p] = "gone"
    /\ begun < MaxOps
    /\ Goto(p, "idle")
    /\ built' = [built EXCEPT ![p] = exe.ver]
    /\ UNCHANGED <<exe, receipt, host, cmd, hint, got, rejected, known,
                   published, begun>>

FirstStep(c) ==
    CASE c.op = "verified" -> "vfetch"
      [] c.op = "update" -> IF c.backend = "r2" THEN "r2fetch" ELSE "ghfetch"
      [] c.op = "check_auto" -> "ghcheck"
      [] OTHER -> IF c.backend = "r2" THEN "r2check" ELSE "ghcheck"

\* UpdaterConfig::new, then the check_update, update, check_and_update,
\* update_with_verification or check_for_updates_auto of the command.
Begin(p) ==
    /\ pc[p] = "idle" /\ begun < MaxOps
    /\ begun' = begun + 1
    /\ \E c \in Commands :
         /\ cmd' = [cmd EXCEPT ![p] = c]
         /\ hint' = [hint EXCEPT ![p] = receipt]
         /\ IF receipt THEN Finish(p, "managed")
            ELSE /\ pc' = [pc EXCEPT ![p] = FirstStep(c)]
                 /\ status' = [status EXCEPT ![p] = "none"]
    /\ rejected' = [rejected EXCEPT ![p] = FALSE]
    /\ known' = [known EXCEPT ![p] = FALSE]
    /\ UNCHANGED <<exe, receipt, host, built, got, published>>

\* A step that only reads: the executable and the archive stay.
Reads(p) ==
    UNCHANGED <<exe, receipt, host, built, cmd, hint, got, rejected, known,
                published, begun>>

\* A step that downloads.
Downloads(p) ==
    UNCHANGED <<exe, receipt, host, built, cmd, hint, rejected, known,
                published, begun>>

-----------------------------------------------------------------------------
(* check_update_r2 and check_update_github                                 *)

\* Available: a check ends, check_and_update goes on to install.
Found(p, install) ==
    IF cmd[p].op = "check_and_update" THEN Goto(p, install)
    ELSE Finish(p, "available")

R2Check(p) ==
    /\ pc[p] = "r2check"
    /\ \/ Managed(p) /\ Finish(p, "managed")
       \/ /\ ~Managed(p) /\ cmd[p].exact
          /\ IF host["r2"].ver > Current(p) THEN Found(p, "r2fetch")
             ELSE Finish(p, "uptodate")
       \/ ~Managed(p) /\ Goto(p, "ghcheck")       \* fetch_manifest failed
    /\ Reads(p)

GithubCheck(p) ==
    /\ pc[p] = "ghcheck"
    /\ \/ Managed(p) /\ Finish(p, "managed")
       \/ /\ ~Managed(p)
          /\ IF host["github"].ver > Current(p) THEN Found(p, "vfetch")
             ELSE Finish(p, "uptodate")
       \/ ~Managed(p) /\ Finish(p, "failed")
    /\ Reads(p)

-----------------------------------------------------------------------------
(* update_r2: an Err goes to update_github, a Failed is final              *)

\* fetch_manifest, the version comparison and resolve_asset
R2Fetch(p) ==
    /\ pc[p] = "r2fetch"
    /\ \/ Managed(p) /\ Finish(p, "managed") /\ UNCHANGED got
       \/ /\ ~Managed(p) /\ cmd[p].exact
          /\ \/ /\ host["r2"].ver > Current(p)
                /\ Goto(p, "r2download")
                /\ got' = [got EXCEPT ![p] = host["r2"]]
             \/ host["r2"].ver > Current(p) /\ Finish(p, "failed") /\ UNCHANGED got
             \/ host["r2"].ver <= Current(p) /\ Finish(p, "uptodate") /\ UNCHANGED got
       \/ ~Managed(p) /\ Goto(p, "ghfetch") /\ UNCHANGED got
    /\ Downloads(p)

R2Download(p) ==
    /\ pc[p] = "r2download"
    /\ \/ \E a \in Bytes(got[p]) :
             Goto(p, "r2verify") /\ got' = [got EXCEPT ![p] = a]
       \/ Goto(p, "ghfetch") /\ UNCHANGED got
    /\ Downloads(p)

\* Mutant of R2Verify: a rejected archive is retried from GitHub.
R2VerifyFallsBack(p) ==
    /\ pc[p] = "r2verify"
    /\ IF got[p].sig = "valid" THEN Goto(p, "r2install") /\ UNCHANGED rejected
       ELSE Goto(p, "ghfetch") /\ rejected' = [rejected EXCEPT ![p] = TRUE]
    /\ known' = [known EXCEPT ![p] = receipt]
    /\ UNCHANGED <<exe, receipt, host, built, cmd, hint, got, published, begun>>

\* Mutant of R2Verify: an archive without signature passes.
R2VerifyUnsigned(p) ==
    /\ pc[p] = "r2verify"
    /\ IF got[p].sig # "invalid" THEN Goto(p, "r2install") /\ UNCHANGED rejected
       ELSE Finish(p, "failed") /\ rejected' = [rejected EXCEPT ![p] = TRUE]
    /\ known' = [known EXCEPT ![p] = receipt]
    /\ UNCHANGED <<exe, receipt, host, built, cmd, hint, got, published, begun>>

\* Size, checksum and signature.  A file that cannot be read is an Err.
R2Verify(p) ==
    /\ pc[p] = "r2verify"
    /\ \/ got[p].sig = "valid" /\ Goto(p, "r2install") /\ UNCHANGED rejected
       \/ /\ got[p].sig # "valid"
          /\ Finish(p, "failed")
          /\ rejected' = [rejected EXCEPT ![p] = TRUE]
       \/ Goto(p, "ghfetch") /\ UNCHANGED rejected
    /\ known' = [known EXCEPT ![p] = receipt]
    /\ UNCHANGED <<exe, receipt, host, built, cmd, hint, got, published, begun>>

-----------------------------------------------------------------------------
(* update_with_verification: every failure is a Failed                     *)

\* get_latest_release_info and download_release_archive
VerifiedFetch(p) ==
    /\ pc[p] = "vfetch"
    /\ \/ Managed(p) /\ Finish(p, "managed") /\ UNCHANGED got
       \/ /\ ~Managed(p) /\ host["github"].ver > Current(p)
          /\ \E a \in Bytes(host["github"]) :
               Goto(p, "vverify") /\ got' = [got EXCEPT ![p] = a]
       \/ ~Managed(p) /\ Finish(p, "failed") /\ UNCHANGED got
    /\ Downloads(p)

VerifiedVerify(p) ==
    /\ pc[p] = "vverify"
    /\ \/ got[p].sig = "valid" /\ Goto(p, "vinstall")
       \/ Finish(p, "failed")
    /\ known' = [known EXCEPT ![p] = receipt]
    /\ UNCHANGED <<exe, receipt, host, built, cmd, hint, got, rejected, published, begun>>

-----------------------------------------------------------------------------
(* install_verified_archive, called by both                                *)

InstallPCs == {"r2install", "vinstall"}
RenamePCs == {"r2rename", "vrename"}

\* An install error: update_r2 returns Err, update_with_verification Failed.
InstallFails(p) ==
    IF pc[p] \in {"r2install", "r2rename"} THEN Goto(p, "ghfetch")
    ELSE Finish(p, "failed")

\* Mutant of Stage: the policy is not detected again.
StageBlindly(p) ==
    /\ pc[p] \in InstallPCs
    /\ \/ Goto(p, IF pc[p] = "r2install" THEN "r2rename" ELSE "vrename")
       \/ InstallFails(p)
    /\ Reads(p)

\* detect_update_policy_default, detect_update_policy, then the extraction
\* into the staging directory
Stage(p) ==
    /\ pc[p] \in InstallPCs
    /\ \/ receipt /\ Finish(p, "managed")
       \/ ~receipt /\ Goto(p, IF pc[p] = "r2install" THEN "r2rename" ELSE "vrename")
       \/ ~receipt /\ InstallFails(p)
    /\ Reads(p)

\* promote_staged_binaries.  The tarball was searched for an entry named
\* bin_name: when the archive spells it otherwise nothing was staged, nothing
\* is renamed and the result is Updated all the same.
Promote(p) ==
    /\ pc[p] \in RenamePCs
    /\ \/ exe' = (IF cmd[p].exact THEN got[p] ELSE exe) /\ Finish(p, "updated")
       \/ InstallFails(p) /\ UNCHANGED exe
    /\ UNCHANGED <<receipt, host, built, cmd, hint, got, rejected, known,
                   published, begun>>

-----------------------------------------------------------------------------
(* update_github: self_update compares, downloads, verifies and replaces   *)

\* Mutant of GithubFetch: no version comparison.
GithubFetchAny(p) ==
    /\ pc[p] = "ghfetch"
    /\ \/ Managed(p) /\ Finish(p, "managed") /\ UNCHANGED got
       \/ /\ ~Managed(p)
          /\ Goto(p, "ghdownload") /\ got' = [got EXCEPT ![p] = host["github"]]
    /\ Downloads(p)

\* Mutant of GithubFetch: an error goes back to the R2 backend.
GithubFetchToR2(p) ==
    /\ pc[p] = "ghfetch"
    /\ \/ Managed(p) /\ Finish(p, "managed") /\ UNCHANGED got
       \/ /\ ~Managed(p) /\ host["github"].ver > Current(p)
          /\ Goto(p, "ghdownload") /\ got' = [got EXCEPT ![p] = host["github"]]
       \/ ~Managed(p) /\ Goto(p, "r2fetch") /\ UNCHANGED got
    /\ Downloads(p)

GithubFetch(p) ==
    /\ pc[p] = "ghfetch"
    /\ \/ Managed(p) /\ Finish(p, "managed") /\ UNCHANGED got
       \/ /\ ~Managed(p) /\ host["github"].ver > Current(p)
          /\ Goto(p, "ghdownload") /\ got' = [got EXCEPT ![p] = host["github"]]
       \/ /\ ~Managed(p) /\ host["github"].ver <= Current(p)
          /\ Finish(p, "uptodate") /\ UNCHANGED got
       \/ ~Managed(p) /\ Finish(p, "failed") /\ UNCHANGED got
    /\ Downloads(p)

\* verifying_keys is set: self_update only replaces with a signed archive.
GithubDownload(p) ==
    /\ pc[p] = "ghdownload"
    /\ \/ got[p].sig = "valid" /\ Goto(p, "ghreplace")
       \/ Finish(p, "failed")
    /\ known' = [known EXCEPT ![p] = receipt]
    /\ UNCHANGED <<exe, receipt, host, built, cmd, hint, got, rejected, published, begun>>

\* The install path is get_binary_path: the running executable when bin_name
\* is its name and its directory is writable, else another directory.
GithubReplace(p) ==
    /\ pc[p] = "ghreplace"
    /\ \/ cmd[p].exact /\ exe' = got[p] /\ Finish(p, "updated")
       \/ UNCHANGED exe /\ Finish(p, "updated")
       \/ UNCHANGED exe /\ Finish(p, "failed")
    /\ UNCHANGED <<receipt, host, built, cmd, hint, got, rejected, known,
                   published, begun>>

-----------------------------------------------------------------------------
Step(p) ==
    \/ R2Check(p) \/ GithubCheck(p)
    \/ R2Fetch(p) \/ R2Download(p) \/ R2Verify(p)
    \/ VerifiedFetch(p) \/ VerifiedVerify(p)
    \/ Stage(p) \/ Promote(p)
    \/ GithubFetch(p) \/ GithubDownload(p) \/ GithubReplace(p)

Next ==
    \/ Publish \/ PackageInstalled
    \/ \E p \in Procs : Exit(p) \/ Start(p) \/ Begin(p) \/ Step(p)

Spec == Init /\ [][Next]_vars

\* Every blocking task runs on, and every request has an answer or a timeout.
FairSpec == Spec /\ \A p \in Procs : WF_vars(Step(p))

-----------------------------------------------------------------------------
(* Properties                                                              *)

\* The step ends an operation of p with Updated.
Updates(p) == pc[p] \in RenamePCs \cup {"ghreplace"} /\ status'[p] = "updated"

\* Whichever of the three install paths wrote it, the executable comes from an
\* archive whose signature was verified.
OnlySigned == exe.sig = "valid"

\* update_r2's contract: after it rejected an archive the same operation does
\* not install one from the fallback.
RejectionIsFinal ==
    [][\A p \in Procs : Updates(p) => ~rejected[p]]_vars

\* The verified install path writes nothing when a package manager had taken
\* the executable over by the time its archive was verified, however long ago
\* the policy was first detected.
PackagedNotPromoted ==
    [][\A p \in Procs : pc[p] \in RenamePCs /\ Updates(p) => ~known[p]]_vars

\* With concurrent updates, releases withdrawn from a host, and a fallback that
\* looks at another host, a process only replaces the executable by a release
\* newer than the one it runs; also where the call names the library's version.
NewerThanRunning ==
    [][\A p \in Procs : pc'[p] # pc[p] /\ exe' # exe => exe'.ver > built[p]]_vars

\* Fallbacks form no cycle: every operation ends, or its process does.
OperationEnds ==
    \A p \in Procs :
        pc[p] \notin {"idle", "gone"} ~> pc[p] \in {"idle", "gone"}

=============================================================================
