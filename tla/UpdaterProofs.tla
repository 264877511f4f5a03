---------------------------- MODULE UpdaterProofs ----------------------------
(***************************************************************************)
(* Theorems about module Updater, for every set of processes, of commands  *)
(* and of releases: what is installed was verified, a rejection is final,  *)
(* the verified path respects the package manager, a process installs      *)
(* nothing older than what it runs, and its fallbacks come to an end.      *)
(***************************************************************************)
EXTENDS Updater, TLAPS

\* Where the archive in hand has been verified, and where it has been chosen.
VerifiedPCs == {"r2install", "vinstall", "r2rename", "vrename", "ghreplace"}
ChosenPCs == VerifiedPCs \cup {"r2download", "r2verify", "vverify", "ghdownload"}

SignedInv == \A p \in Procs : pc[p] \in VerifiedPCs => got[p].sig = "valid"
FinalInv == \A p \in Procs : rejected[p] => pc[p] \in {"idle", "gone"}
PackagedInv ==
    \A p \in Procs :
        /\ known[p] => receipt
        /\ pc[p] \in RenamePCs => ~known[p]
ChosenInv ==
    /\ cmd \in [Procs -> Commands]
    /\ \A p \in Procs : pc[p] \in ChosenPCs => got[p].ver > Current(p)

UInv == TypeOK /\ OnlySigned /\ SignedInv /\ FinalInv /\ PackagedInv /\ ChosenInv

\* A download keeps the release and may lose the signature.
LEMMA BytesType ==
    ASSUME NEW a \in Archive, NEW b \in Bytes(a)
    PROVE  b \in Archive /\ b.ver = a.ver
<1>1. CASE b = a
  BY <1>1
<1>2. CASE b = [a EXCEPT !.sig = "invalid"]
  BY <1>2 DEF Archive, Sigs
<1>3. CASE b = [a EXCEPT !.sig = "missing"]
  BY <1>3 DEF Archive, Sigs
<1> QED BY <1>1, <1>2, <1>3 DEF Bytes

LEMMA InitUInv == Init => UInv
<1> SUFFICES ASSUME Init PROVE UInv
  OBVIOUS
<1> USE DEF Init
<1>1. exe \in Archive
  BY UpdaterAssumption DEF Archive, Sigs
<1>2. cmd \in [Procs -> Command]
  BY UpdaterAssumption
<1>3. TypeOK
  BY <1>1, <1>2, UpdaterAssumption DEF TypeOK, PCs, Statuses
<1>4. OnlySigned /\ SignedInv /\ FinalInv /\ PackagedInv /\ ChosenInv
  BY DEF OnlySigned, SignedInv, FinalInv, PackagedInv, ChosenInv, VerifiedPCs,
         ChosenPCs, RenamePCs
<1> QED BY <1>3, <1>4 DEF UInv

LEMMA FirstStepType ==
    ASSUME NEW c \in Command
    PROVE  FirstStep(c) \in {"vfetch", "r2fetch", "ghfetch", "ghcheck", "r2check"}
BY DEF FirstStep

LEMMA TypeStep == TypeOK /\ cmd \in [Procs -> Commands] /\ [Next]_vars
                    => TypeOK' /\ cmd' \in [Procs -> Commands]
<1> SUFFICES ASSUME TypeOK, cmd \in [Procs -> Commands], [Next]_vars
             PROVE  TypeOK' /\ cmd' \in [Procs -> Commands]
  OBVIOUS
<1>0. Commands \subseteq Command
  BY UpdaterAssumption
<1> USE DEF TypeOK, PCs, Statuses
<1>1. CASE Publish
  BY <1>1 DEF Publish, procVars
<1>2. CASE PackageInstalled
  BY <1>2 DEF PackageInstalled, procVars
<1>3. CASE \E p \in Procs : Exit(p)
  BY <1>3 DEF Exit
<1>4. CASE \E p \in Procs : Start(p)
  BY <1>4 DEF Start, Goto, Archive
<1>5. CASE \E p \in Procs : Begin(p)
  <2>1. PICK p \in Procs : Begin(p)
    BY <1>5
  <2>2. PICK c \in Commands :
            /\ cmd' = [cmd EXCEPT ![p] = c]
            /\ hint' = [hint EXCEPT ![p] = receipt]
            /\ IF receipt THEN Finish(p, "managed")
               ELSE /\ pc' = [pc EXCEPT ![p] = FirstStep(c)]
                    /\ status' = [status EXCEPT ![p] = "none"]
    BY <2>1 DEF Begin
  <2>3. FirstStep(c) \in {"vfetch", "r2fetch", "ghfetch", "ghcheck", "r2check"}
    BY <1>0, FirstStepType
  <2>4. pc' \in [Procs -> PCs] /\ status' \in [Procs -> Statuses]
    BY <2>2, <2>3 DEF Finish
  <2>5. cmd' \in [Procs -> Commands] /\ hint' \in [Procs -> BOOLEAN]
    BY <2>2
  <2> QED BY <1>0, <2>1, <2>4, <2>5 DEF Begin
<1>6. CASE \E p \in Procs : R2Check(p) \/ GithubCheck(p)
  BY <1>6 DEF R2Check, GithubCheck, Reads, Goto, Finish, Found
<1>7. CASE \E p \in Procs : R2Fetch(p)
  BY <1>7 DEF R2Fetch, Downloads, Goto, Finish
<1>8. CASE \E p \in Procs : R2Download(p)
  <2>1. PICK p \in Procs : R2Download(p)
    BY <1>8
  <2>2. \A a \in Bytes(got[p]) : a \in Archive
    BY BytesType
  <2> QED BY <2>1, <2>2 DEF R2Download, Downloads, Goto
<1>9. CASE \E p \in Procs : R2Verify(p)
  BY <1>9, ZenonT(40) DEF R2Verify, Goto, Finish
<1>10. CASE \E p \in Procs : VerifiedFetch(p)
  <2>1. PICK p \in Procs : VerifiedFetch(p)
    BY <1>10
  <2>2. \A a \in Bytes(host["github"]) : a \in Archive
    BY BytesType
  <2> QED BY <2>1, <2>2 DEF VerifiedFetch, Downloads, Goto, Finish
<1>11. CASE \E p \in Procs : VerifiedVerify(p)
  BY <1>11 DEF VerifiedVerify, Goto, Finish
<1>12. CASE \E p \in Procs : Stage(p)
  BY <1>12 DEF Stage, Reads, InstallFails, InstallPCs, Goto, Finish
<1>13. CASE \E p \in Procs : Promote(p)
  BY <1>13 DEF Promote, InstallFails, RenamePCs, Goto, Finish
<1>14. CASE \E p \in Procs : GithubFetch(p)
  BY <1>14 DEF GithubFetch, Downloads, Goto, Finish
<1>15. CASE \E p \in Procs : GithubDownload(p)
  BY <1>15 DEF GithubDownload, Goto, Finish
<1>16. CASE \E p \in Procs : GithubReplace(p)
  BY <1>16 DEF GithubReplace, Goto, Finish
<1>17. CASE UNCHANGED vars
  BY <1>17 DEF vars, procVars
<1> QED
  BY <1>1, <1>2, <1>3, <1>4, <1>5, <1>6, <1>7, <1>8, <1>9, <1>10, <1>11, <1>12,
     <1>13, <1>14, <1>15, <1>16, <1>17 DEF Next, Step

-----------------------------------------------------------------------------
(* The other conjuncts, for any process q when process p makes a step      *)

LEMMA ProcStep == UInv /\ [Next]_vars
                    => SignedInv' /\ FinalInv' /\ PackagedInv' /\ OnlySigned'
<1> SUFFICES ASSUME UInv, [Next]_vars
             PROVE  SignedInv' /\ FinalInv' /\ PackagedInv' /\ OnlySigned'
  OBVIOUS
<1>0. TypeOK /\ Commands \subseteq Command
  BY UpdaterAssumption DEF UInv
<1> USE DEF UInv, SignedInv, FinalInv, PackagedInv, OnlySigned, VerifiedPCs,
            RenamePCs
<1>1. CASE Publish
  BY <1>1 DEF Publish, procVars
<1>2. CASE PackageInstalled
  BY <1>2 DEF PackageInstalled, procVars
<1>3. CASE \E p \in Procs : Exit(p)
  BY <1>0, <1>3 DEF Exit, TypeOK
<1>4. CASE \E p \in Procs : Start(p)
  BY <1>0, <1>4 DEF Start, Goto, TypeOK
<1>5. CASE \E p \in Procs : Begin(p)
  <2>1. PICK p \in Procs, c \in Commands :
            /\ \/ Finish(p, "managed")
               \/ pc' = [pc EXCEPT ![p] = FirstStep(c)]
            /\ rejected' = [rejected EXCEPT ![p] = FALSE]
            /\ known' = [known EXCEPT ![p] = FALSE]
            /\ UNCHANGED <<exe, receipt, got>>
    BY <1>5 DEF Begin
  <2>2. FirstStep(c) \in {"vfetch", "r2fetch", "ghfetch", "ghcheck", "r2check"}
    BY <1>0, FirstStepType
  <2>3. pc' = [pc EXCEPT ![p] = pc'[p]]
        /\ pc'[p] \in {"idle", "vfetch", "r2fetch", "ghfetch", "ghcheck", "r2check"}
    BY <1>0, <2>1, <2>2 DEF Finish, TypeOK
  <2> QED BY <1>0, <2>1, <2>3 DEF TypeOK
<1>6. CASE \E p \in Procs : R2Check(p) \/ GithubCheck(p)
  BY <1>0, <1>6 DEF R2Check, GithubCheck, Reads, Goto, Finish, Found, TypeOK
<1>7. CASE \E p \in Procs : R2Fetch(p)
  BY <1>0, <1>7 DEF R2Fetch, Downloads, Goto, Finish, TypeOK
<1>8. CASE \E p \in Procs : R2Download(p)
  BY <1>0, <1>8 DEF R2Download, Downloads, Goto, TypeOK
<1>9. CASE \E p \in Procs : R2Verify(p)
  BY <1>0, <1>9 DEF R2Verify, Goto, Finish, TypeOK
<1>10. CASE \E p \in Procs : VerifiedFetch(p)
  BY <1>0, <1>10 DEF VerifiedFetch, Downloads, Goto, Finish, TypeOK
<1>11. CASE \E p \in Procs : VerifiedVerify(p)
  BY <1>0, <1>11 DEF VerifiedVerify, Goto, Finish, TypeOK
<1>12. CASE \E p \in Procs : Stage(p)
  BY <1>0, <1>12 DEF Stage, Reads, InstallFails, InstallPCs, Goto, Finish, TypeOK
<1>13. CASE \E p \in Procs : Promote(p)
  BY <1>0, <1>13 DEF Promote, InstallFails, Goto, Finish, TypeOK
<1>14. CASE \E p \in Procs : GithubFetch(p)
  BY <1>0, <1>14 DEF GithubFetch, Downloads, Goto, Finish, TypeOK
<1>15. CASE \E p \in Procs : GithubDownload(p)
  BY <1>0, <1>15 DEF GithubDownload, Goto, Finish, TypeOK
<1>16. CASE \E p \in Procs : GithubReplace(p)
  BY <1>0, <1>16 DEF GithubReplace, Goto, Finish, TypeOK
<1>17. CASE UNCHANGED vars
  BY <1>17 DEF vars, procVars
<1> QED
  BY <1>1, <1>2, <1>3, <1>4, <1>5, <1>6, <1>7, <1>8, <1>9, <1>10, <1>11, <1>12,
     <1>13, <1>14, <1>15, <1>16, <1>17 DEF Next, Step

\* The release in hand is newer than the version the process compares with.
LEMMA ChosenStep == UInv /\ [Next]_vars => ChosenInv'
<1> SUFFICES ASSUME UInv, [Next]_vars
             PROVE  ChosenInv'
  OBVIOUS
<1>0. TypeOK /\ Commands \subseteq Command
  BY UpdaterAssumption DEF UInv
<1>t. cmd' \in [Procs -> Commands]
  BY TypeStep DEF UInv, ChosenInv
<1> USE DEF ChosenInv, ChosenPCs, VerifiedPCs, Current
<1> SUFFICES ASSUME NEW q \in Procs, pc'[q] \in ChosenPCs
             PROVE  got'[q].ver > Current(q)'
  BY <1>t
<1>1. CASE Publish
  BY <1>1 DEF Publish, procVars, UInv
<1>2. CASE PackageInstalled
  BY <1>2 DEF PackageInstalled, procVars, UInv
<1>3. CASE \E p \in Procs : Exit(p)
  BY <1>0, <1>3 DEF Exit, TypeOK, UInv
<1>4. CASE \E p \in Procs : Start(p)
  BY <1>0, <1>4 DEF Start, Goto, TypeOK, UInv
<1>5. CASE \E p \in Procs : Begin(p)
  <2>1. PICK p \in Procs, c \in Commands :
            /\ \/ Finish(p, "managed")
               \/ pc' = [pc EXCEPT ![p] = FirstStep(c)]
            /\ cmd' = [cmd EXCEPT ![p] = c]
            /\ UNCHANGED <<built, got>>
    BY <1>5 DEF Begin
  <2>2. FirstStep(c) \in {"vfetch", "r2fetch", "ghfetch", "ghcheck", "r2check"}
    BY <1>0, FirstStepType
  <2>3. pc' = [pc EXCEPT ![p] = pc'[p]]
        /\ pc'[p] \in {"idle", "vfetch", "r2fetch", "ghfetch", "ghcheck", "r2check"}
    BY <1>0, <2>1, <2>2 DEF Finish, TypeOK
  <2> QED BY <1>0, <2>1, <2>3 DEF TypeOK, UInv
<1>6. CASE \E p \in Procs : R2Check(p) \/ GithubCheck(p)
  BY <1>0, <1>6 DEF R2Check, GithubCheck, Reads, Goto, Finish, Found, TypeOK, UInv
<1>7. CASE \E p \in Procs : R2Fetch(p)
  BY <1>0, <1>7 DEF R2Fetch, Downloads, Goto, Finish, TypeOK, UInv
<1>8. CASE \E p \in Procs : R2Download(p)
  <2>1. PICK p \in Procs : R2Download(p)
    BY <1>8
  <2>2. \A a \in Bytes(got[p]) : a.ver = got[p].ver
    BY <1>0, BytesType DEF TypeOK
  <2> QED BY <1>0, <2>1, <2>2 DEF R2Download, Downloads, Goto, TypeOK, UInv
<1>9. CASE \E p \in Procs : R2Verify(p)
  BY <1>0, <1>9 DEF R2Verify, Goto, Finish, TypeOK, UInv
<1>10. CASE \E p \in Procs : VerifiedFetch(p)
  <2>1. PICK p \in Procs : VerifiedFetch(p)
    BY <1>10
  <2>2. \A a \in Bytes(host["github"]) : a.ver = host["github"].ver
    BY <1>0, BytesType DEF TypeOK
  <2> QED BY <1>0, <2>1, <2>2 DEF VerifiedFetch, Downloads, Goto, Finish, TypeOK, UInv
<1>11. CASE \E p \in Procs : VerifiedVerify(p)
  BY <1>0, <1>11 DEF VerifiedVerify, Goto, Finish, TypeOK, UInv
<1>12. CASE \E p \in Procs : Stage(p)
  BY <1>0, <1>12 DEF Stage, Reads, InstallFails, InstallPCs, Goto, Finish, TypeOK, UInv
<1>13. CASE \E p \in Procs : Promote(p)
  BY <1>0, <1>13 DEF Promote, InstallFails, RenamePCs, Goto, Finish, TypeOK, UInv
<1>14. CASE \E p \in Procs : GithubFetch(p)
  BY <1>0, <1>14 DEF GithubFetch, Downloads, Goto, Finish, TypeOK, UInv
<1>15. CASE \E p \in Procs : GithubDownload(p)
  BY <1>0, <1>15 DEF GithubDownload, Goto, Finish, TypeOK, UInv
<1>16. CASE \E p \in Procs : GithubReplace(p)
  BY <1>0, <1>16 DEF GithubReplace, Goto, Finish, TypeOK, UInv
<1>17. CASE UNCHANGED vars
  BY <1>17 DEF vars, procVars, UInv
<1> QED
  BY <1>1, <1>2, <1>3, <1>4, <1>5, <1>6, <1>7, <1>8, <1>9, <1>10, <1>11, <1>12,
     <1>13, <1>14, <1>15, <1>16, <1>17 DEF Next, Step

-----------------------------------------------------------------------------
LEMMA Invariance == Spec => []UInv
<1>1. UInv /\ [Next]_vars => UInv'
  BY TypeStep, ProcStep, ChosenStep DEF UInv, ChosenInv
<1> QED BY InitUInv, <1>1, PTL DEF Spec

\* The variables keep their types.
THEOREM TypeCorrect == Spec => []TypeOK
<1>1. UInv => TypeOK
  BY DEF UInv
<1> QED BY Invariance, <1>1, PTL

\* Whatever releases are published and however downloads are damaged, the
\* executable always comes from an archive that was verified.
THEOREM AlwaysSigned == Spec => []OnlySigned
<1>1. UInv => OnlySigned
  BY DEF UInv
<1> QED BY Invariance, <1>1, PTL

\* No operation installs after it rejected an archive.
THEOREM NoInstallAfterRejection == Spec => RejectionIsFinal
<1>1. UInv /\ [Next]_vars
        => [\A p \in Procs : Updates(p) => ~rejected[p]]_vars
  BY DEF UInv, FinalInv, Updates, RenamePCs
<1> QED BY Invariance, <1>1, PTL DEF Spec, RejectionIsFinal

\* The verified path promotes nothing over an executable a package manager
\* owned when the archive had been verified.
THEOREM PackagedKept == Spec => PackagedNotPromoted
<1>1. UInv /\ [Next]_vars
        => [\A p \in Procs : pc[p] \in RenamePCs /\ Updates(p) => ~known[p]]_vars
  BY DEF UInv, PackagedInv
<1> QED BY Invariance, <1>1, PTL DEF Spec, PackagedNotPromoted

\* When every call site that names the executable chains with_version, only a
\* newer release replaces the program that makes the call.
THEOREM NoOlderRelease ==
    ASSUME \A c \in Commands : c.exact => c.own
    PROVE  Spec => NewerThanRunning
<1>1. UInv /\ [Next]_vars
        => [\A p \in Procs : pc'[p] # pc[p] /\ exe' # exe => exe'.ver > built[p]]_vars
  <2> SUFFICES ASSUME UInv, [Next]_vars, NEW p \in Procs, pc'[p] # pc[p], exe' # exe
               PROVE  exe'.ver > built[p]
    OBVIOUS
  <2>1. PICK q \in Procs : Promote(q) \/ GithubReplace(q)
    BY DEF Next, vars, procVars, Publish, PackageInstalled, Exit, Start, Begin, Step, Reads,
           Downloads, R2Check, GithubCheck, R2Fetch, R2Download, R2Verify, VerifiedFetch,
           VerifiedVerify, Stage, GithubFetch, GithubDownload
  <2>2. q = p
    BY <2>1 DEF Promote, GithubReplace, InstallFails, Finish, Goto, UInv, TypeOK
  <2>3. pc[p] \in ChosenPCs
    BY <2>1, <2>2 DEF Promote, GithubReplace, RenamePCs, ChosenPCs, VerifiedPCs
  <2>4. exe' = got[p] /\ cmd[p].exact /\ cmd[p] \in Commands
    BY <2>1, <2>2, <2>3 DEF Promote, GithubReplace, UInv, ChosenInv
  <2>5. cmd[p].own
    BY <2>4
  <2> QED BY <2>3, <2>4, <2>5 DEF UInv, ChosenInv, Current
<1> QED BY Invariance, <1>1, PTL DEF Spec, NewerThanRunning

\* The most steps that an operation can still take from each place.
StepsLeft(l) ==
    CASE l = "r2check" -> 9
      [] l = "r2fetch" -> 8
      [] l = "r2download" -> 7
      [] l = "r2verify" -> 6
      [] l \in {"r2install", "ghcheck"} -> 5
      [] l \in {"r2rename", "vfetch"} -> 4
      [] l \in {"ghfetch", "vverify"} -> 3
      [] l \in {"ghdownload", "vinstall"} -> 2
      [] l \in {"ghreplace", "vrename"} -> 1
      [] OTHER -> 0

\* The fallbacks between the two hosts and the three install paths form no
\* cycle, whatever the hosts, the package manager and other processes do
\* meanwhile: every step of an operation leaves it fewer steps, of nine at
\* most, and nothing else moves it but the death of its process.
THEOREM FallbacksDescend ==
    Spec => [][\A p \in Procs :
                 /\ Step(p) => StepsLeft(pc'[p]) < StepsLeft(pc[p])
                 /\ pc[p] \notin {"idle", "gone"} /\ ~Step(p)
                      => pc'[p] \in {pc[p], "gone"}]_vars
<1> DEFINE Descends(p) ==
             /\ Step(p) => StepsLeft(pc'[p]) < StepsLeft(pc[p])
             /\ pc[p] \notin {"idle", "gone"} /\ ~Step(p) => pc'[p] \in {pc[p], "gone"}
<1>1. ASSUME TypeOK, NEW p \in Procs, Step(p) PROVE StepsLeft(pc'[p]) < StepsLeft(pc[p])
  <2>0. pc \in [Procs -> PCs]
    BY <1>1 DEF TypeOK
  <2>1. ASSUME NEW l, Goto(p, l) PROVE pc'[p] = l
    BY <2>0, <2>1 DEF Goto
  <2>2. ASSUME NEW s, Finish(p, s) PROVE pc'[p] = "idle"
    BY <2>0, <2>2 DEF Finish
  <2>3. CASE R2Check(p)
    BY <2>1, <2>2, <2>3 DEF R2Check, Found, StepsLeft
  <2>4. CASE GithubCheck(p)
    BY <2>1, <2>2, <2>4 DEF GithubCheck, Found, StepsLeft
  <2>5. CASE R2Fetch(p)
    BY <2>1, <2>2, <2>5 DEF R2Fetch, StepsLeft
  <2>6. CASE R2Download(p)
    BY <2>1, <2>2, <2>6 DEF R2Download, StepsLeft
  <2>7. CASE R2Verify(p)
    BY <2>1, <2>2, <2>7 DEF R2Verify, StepsLeft
  <2>8. CASE VerifiedFetch(p)
    BY <2>1, <2>2, <2>8 DEF VerifiedFetch, StepsLeft
  <2>9. CASE VerifiedVerify(p)
    BY <2>1, <2>2, <2>9 DEF VerifiedVerify, StepsLeft
  <2>10. CASE Stage(p)
    <3>1. CASE pc[p] = "r2install"
      BY <2>1, <2>2, <2>10, <3>1 DEF Stage, InstallFails, StepsLeft
    <3>2. CASE pc[p] = "vinstall"
      BY <2>1, <2>2, <2>10, <3>2 DEF Stage, InstallFails, StepsLeft
    <3> QED BY <2>10, <3>1, <3>2 DEF Stage, InstallPCs
  <2>11. CASE Promote(p)
    <3>1. CASE pc[p] = "r2rename"
      BY <2>1, <2>2, <2>11, <3>1 DEF Promote, InstallFails, StepsLeft
    <3>2. CASE pc[p] = "vrename"
      BY <2>1, <2>2, <2>11, <3>2 DEF Promote, InstallFails, StepsLeft
    <3> QED BY <2>11, <3>1, <3>2 DEF Promote, RenamePCs
  <2>12. CASE GithubFetch(p)
    BY <2>1, <2>2, <2>12 DEF GithubFetch, StepsLeft
  <2>13. CASE GithubDownload(p)
    BY <2>1, <2>2, <2>13 DEF GithubDownload, StepsLeft
  <2>14. CASE GithubReplace(p)
    BY <2>1, <2>2, <2>14 DEF GithubReplace, StepsLeft
  <2> QED
    BY <1>1, <2>3, <2>4, <2>5, <2>6, <2>7, <2>8, <2>9, <2>10, <2>11, <2>12, <2>13, <2>14 DEF Step
<1>2. ASSUME TypeOK, Next, NEW p \in Procs, pc[p] \notin {"idle", "gone"}, ~Step(p)
      PROVE  pc'[p] \in {pc[p], "gone"}
  <2>1. CASE Publish \/ PackageInstalled
    BY <2>1 DEF Publish, PackageInstalled, procVars
  <2>2. ASSUME NEW q \in Procs, Exit(q) PROVE pc'[p] \in {pc[p], "gone"}
    BY <1>2, <2>2 DEF Exit, TypeOK
  <2>3. ASSUME NEW q \in Procs, \E l : pc' = [pc EXCEPT ![q] = l], q # p
        PROVE  pc'[p] = pc[p]
    BY <1>2, <2>3 DEF TypeOK
  <2>4. ASSUME NEW q \in Procs, Start(q) \/ Begin(q) PROVE pc'[p] = pc[p]
    <3>1. q # p
      BY <1>2, <2>4 DEF Start, Begin
    <3>2. \E l : pc' = [pc EXCEPT ![q] = l]
      BY <2>4 DEF Start, Begin, Goto, Finish
    <3> QED BY <2>3, <3>1, <3>2
  <2>5. ASSUME NEW q \in Procs, Step(q) PROVE pc'[p] = pc[p]
    <3>1. q # p
      BY <1>2, <2>5
    <3>2. \E l : pc' = [pc EXCEPT ![q] = l]
      <4>1. CASE R2Check(q) \/ GithubCheck(q)
        BY <4>1 DEF R2Check, GithubCheck, Found, Goto, Finish
      <4>2. CASE R2Fetch(q) \/ R2Download(q) \/ R2Verify(q)
        BY <4>2 DEF R2Fetch, R2Download, R2Verify, Goto, Finish
      <4>3. CASE VerifiedFetch(q) \/ VerifiedVerify(q)
        BY <4>3 DEF VerifiedFetch, VerifiedVerify, Goto, Finish
      <4>4. CASE Stage(q) \/ Promote(q)
        BY <4>4 DEF Stage, Promote, InstallFails, Goto, Finish
      <4>5. CASE GithubFetch(q) \/ GithubDownload(q) \/ GithubReplace(q)
        BY <4>5 DEF GithubFetch, GithubDownload, GithubReplace, Goto, Finish
      <4> QED BY <2>5, <4>1, <4>2, <4>3, <4>4, <4>5 DEF Step
    <3> QED BY <2>3, <3>1, <3>2
  <2> QED BY <1>2, <2>1, <2>2, <2>4, <2>5 DEF Next
<1>3. TypeOK /\ [Next]_vars => [\A p \in Procs : Descends(p)]_vars
  BY <1>1, <1>2
<1> QED BY <1>3, TypeCorrect, PTL DEF Spec
=============================================================================
