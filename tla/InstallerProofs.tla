---------------------------- MODULE InstallerProofs ----------------------------
(***************************************************************************)
(* Proofs about Installer, for any versions, interpreters, files and       *)
(* directories, any host, and any number of runs, failures and upgrades.   *)
(***************************************************************************)
EXTENDS Installer, FiniteSetTheorems, WellFoundedInduction, TLAPS

-------------------------------------------------------------------------------
(***************************************************************************)
(* The first known directory of a set.                                     *)
(***************************************************************************)

\* The least of some naturals: their intervals are ordered by inclusion, and a
\* finite set has no infinite descent of subsets.
LEMMA LeastOf ==
  ASSUME NEW top \in Nat, NEW I \in SUBSET (1..top), I # {}
  PROVE  \E n \in I : \A m \in I : ~(m < n)
<1> DEFINE T == {1..i : i \in I}
<1>1. /\ IsFiniteSet(1..top)
      /\ IsWellFoundedOn(StrictSubsetOrdering(1..top), FiniteSubsetsOf(1..top))
  BY FS_Interval, FS_StrictSubsetOrderingWellFounded
<1>2. T # {} OBVIOUS
<1>3. T \subseteq FiniteSubsetsOf(1..top)
  <2> SUFFICES ASSUME NEW i \in I PROVE 1..i \in FiniteSubsetsOf(1..top)
    OBVIOUS
  <2>1. IsFiniteSet(1..i) BY FS_Interval
  <2>2. 1..i \subseteq 1..top OBVIOUS
  <2> QED BY <2>1, <2>2 DEF FiniteSubsetsOf
<1>4. \E x \in T : \A y \in T : <<y, x>> \notin StrictSubsetOrdering(1..top)
  BY <1>1, <1>2, <1>3, WFMin
<1>5. PICK n \in I : \A y \in T : <<y, 1..n>> \notin StrictSubsetOrdering(1..top)
  BY <1>4
<1>6. ASSUME NEW m \in I, m < n PROVE FALSE
  <2>1. 1..m \in SUBSET (1..top) /\ 1..n \in SUBSET (1..top) OBVIOUS
  <2>2. 1..m \subseteq 1..n /\ n \in 1..n /\ n \notin 1..m BY <1>6
  <2>3. <<1..m, 1..n>> \in StrictSubsetOrdering(1..top)
    BY <2>1, <2>2 DEF StrictSubsetOrdering
  <2> QED BY <1>5, <2>3
<1> QED BY <1>6

LEMMA FirstOfSet ==
  ASSUME NEW D, D \cap Known # {}
  PROVE  First(D) \in D \cap Known
<1> DEFINE I == {i \in DOMAIN KnownDirs : KnownDirs[i] \in D}
<1>1. Len(KnownDirs) \in Nat /\ DOMAIN KnownDirs = 1..Len(KnownDirs)
  BY InstallerAssumption
<1>2. I # {} /\ I \in SUBSET (1..Len(KnownDirs))
  BY <1>1 DEF Known
<1>3. PICK n \in I : \A m \in I : ~(m < n)
  <2> HIDE DEF I
  <2> QED BY <1>1, <1>2, LeastOf
<1> DEFINE IsFirst(i) ==
      KnownDirs[i] \in D /\ \A j \in 1..(i - 1) : KnownDirs[j] \notin D
<1>4. n \in DOMAIN KnownDirs /\ IsFirst(n)
  <2>1. n \in 1..Len(KnownDirs) BY <1>1, <1>3
  <2>2. \A j \in 1..(n - 1) : j \in 1..Len(KnownDirs) /\ j < n BY <1>1, <2>1
  <2> QED BY <1>1, <1>3, <2>1, <2>2
<1>5. LET k == CHOOSE i \in DOMAIN KnownDirs : IsFirst(i)
      IN  k \in DOMAIN KnownDirs /\ IsFirst(k)
  BY <1>4
<1> QED BY <1>5 DEF First, Known

-------------------------------------------------------------------------------
(***************************************************************************)
(* Types.                                                                  *)
(***************************************************************************)

\* A directory is never one of the markers, and the one that is used is named
\* by the host or found in the list.
LEMMA InstalledDirType ==
  ASSUME site \in Site
  PROVE  /\ InstalledDir \in Dirs \cup {None}
         /\ None \notin Dirs
         /\ Known \subseteq Dirs
         /\ site.external = None /\ site.config = None /\ InstalledDir # None
            => InstalledDir \in Known
         /\ site.external = None /\ site.config # None /\ InstalledDir # None
            => InstalledDir = site.config
<1>1. None \notin Dirs /\ Known \subseteq Dirs
  BY InstallerAssumption DEF Known
<1>2. site.known \subseteq Known BY DEF Site
<1>3. site.known # {} => First(site.known) \in Known
  BY <1>2, FirstOfSet
<1> QED BY <1>1, <1>3 DEF InstalledDir

LEMMA InitType == Init => InstallerTypeOK
BY InstallerAssumption DEF Init, InstallerTypeOK, Rest, Site

\* While a run is on it has a version to install and, once it has made sure of
\* one, an interpreter; the directory is chosen before it is used.
Equipped ==
  /\ at \notin Rest => source \in Versions /\ via # None
  /\ at \in {"failed", "completed"} => source \in Versions
  /\ at \notin Rest \cup {"python", "venv"} => python \in Pythons
  /\ at \in {"link", "permissions", "smoke", "completed", "deployed", "rejected"} =>
       dir \in Dirs

LEMMA StepType ==
  ASSUME InstallerTypeOK, Equipped, [Next]_installerVars
  PROVE  InstallerTypeOK' /\ Equipped'
<1> USE InstallerAssumption
    DEF InstallerTypeOK, Equipped, Rest, None, installerVars, venv, program, run
<1>1. CASE Start \/ FallBack
  <2>1. PICK how \in {"hand", "rsync", "pipe", "clone"}, version \in Versions :
          Starts(how, version)
    BY <1>1 DEF Start, FallBack
  <2> QED BY <2>1 DEF Starts
<1>2. CASE Interrupted
  <2>1. lib' \in [LibFiles -> Versions \cup {None}] BY <1>2 DEF Interrupted
  <2> QED BY <1>2, <2>1 DEF Interrupted
<1>3. CASE UpgradeOs \/ Drift
  <2>1. CASE UpgradeOs
    <3>1. python' \in Pythons BY <2>1 DEF UpgradeOs
    <3> QED BY <2>1, <3>1 DEF UpgradeOs, Disturbed
  <2>2. CASE Drift
    <3>1. open' \in BOOLEAN BY <2>2 DEF Drift
    <3> QED BY <2>2, <3>1 DEF Drift, Disturbed
  <2> QED BY <1>3, <2>1, <2>2
<1>4. CASE InstallPython BY <1>4 DEF InstallPython
<1>5. CASE EnsureVenv
  <2>1. open' \in BOOLEAN BY <1>5, Zenon DEF EnsureVenv, CreatesFiles
  <2> QED BY <1>5, <2>1 DEF EnsureVenv
<1>6. CASE VenvGetsPip BY <1>6 DEF VenvGetsPip, CreatesFiles
<1>7. CASE EnsurePip \/ InstallDeps
  <2>1. open' \in BOOLEAN BY <1>7, Zenon DEF EnsurePip, InstallDeps, CreatesFiles
  <2> QED BY <1>7, <2>1 DEF EnsurePip, InstallDeps
<1>8. CASE DeployFile BY <1>8 DEF DeployFile
<1>9. CASE DeployEntry \/ RewriteShebang BY <1>9 DEF DeployEntry, RewriteShebang
<1>10. CASE ResolveDir BY <1>10, InstalledDirType DEF ResolveDir
<1>11. CASE LinkEntry
  <2>1. site' \in Site BY <1>11 DEF LinkEntry, Site
  <2>2. dir \in Dirs BY <1>11 DEF LinkEntry
  <2> QED BY <1>11, <2>1, <2>2 DEF LinkEntry
<1>12. CASE FixPermissions \/ SmokeTest \/ RemoteSmokeTest
  <2>1. open' \in BOOLEAN
    BY <1>12, Zenon DEF FixPermissions, SmokeTest, RemoteSmokeTest
  <2>2. /\ at' \in {"smoke", "completed", "failed", "deployed", "rejected"}
        /\ at' \in {"deployed", "rejected"} => at = "completed"
        /\ at' = "smoke" => at = "permissions"
        /\ at \in {"permissions", "smoke", "completed"}
    BY <1>12 DEF FixPermissions, SmokeTest, RemoteSmokeTest
  <2>3. UNCHANGED <<site, python, venv, program, run, dir, todo, faulted>>
    BY <1>12 DEF FixPermissions, SmokeTest, RemoteSmokeTest
  <2> QED BY <2>1, <2>2, <2>3
<1>13. CASE UNCHANGED installerVars BY <1>13
<1> QED
  BY <1>1, <1>2, <1>3, <1>4, <1>5, <1>6, <1>7, <1>8, <1>9, <1>10, <1>11, <1>12, <1>13
  DEF Next

-------------------------------------------------------------------------------
(***************************************************************************)
(* The virtual environment.                                                *)
(***************************************************************************)

\* From the venv on, a run has one.
InVenv == {"venv_pip", "deps", "pip", "lib", "shebang", "dir", "link", "permissions",
           "smoke"}

\* What is in the venv has come in order, its interpreter first.  The
\* distribution only goes forward: what it has once dropped never comes back, so
\* that a venv that still answers has had its pip from its own interpreter.
VenvHistory ==
  /\ link = None => pip = None
  /\ pip = None => deps = {}
  /\ link = python => pip \in {None, python}
  /\ link # None => link \in Pythons /\ python \in Pythons
  /\ link # None /\ link # python => python \in LaterPythons[link]
  /\ at \in InVenv => link # None
  /\ at = "venv_pip" /\ link = python => deps = {}

LEMMA VenvHistoryStep ==
  ASSUME InstallerTypeOK, Equipped, VenvHistory, [Next]_installerVars
  PROVE  VenvHistory'
<1> USE InstallerAssumption
    DEF InstallerTypeOK, Equipped, VenvHistory, InVenv, Rest, installerVars, venv, program,
        run, VenvAnswers
<1>1. None \notin Pythons OBVIOUS
<1>2. CASE Start \/ FallBack
  <2>1. at' = "python" /\ UNCHANGED <<python, venv>>
    BY <1>2 DEF Start, FallBack, Starts
  <2> QED BY <2>1
<1>3. CASE UpgradeOs
  <2>1. /\ at' = "idle" /\ UNCHANGED venv
        /\ python \in Pythons /\ python' \in LaterPythons[python] /\ python' \in Pythons
    BY <1>3 DEF UpgradeOs, Disturbed
  <2>2. python # python' /\ LaterPythons[python'] \subseteq LaterPythons[python] \ {python}
    BY <2>1
  <2>3. ASSUME link # None, link # python
        PROVE  python' \in LaterPythons[link] /\ python' # link
    <3>1. link \in Pythons /\ python \in LaterPythons[link] BY <2>3
    <3>2. LaterPythons[python] \subseteq LaterPythons[link] \ {link} BY <3>1
    <3> QED BY <2>1, <3>2
  <2> QED BY <1>1, <2>1, <2>2, <2>3
<1>4. CASE Drift BY <1>4 DEF Drift, Disturbed
<1>5. CASE Interrupted
  <2>1. at' = "failed" /\ UNCHANGED <<python, venv>> BY <1>5 DEF Interrupted
  <2> QED BY <2>1
<1>6. CASE InstallPython BY <1>1, <1>6 DEF InstallPython
<1>7. CASE EnsureVenv
  <2>1. /\ at = "venv" /\ UNCHANGED <<python, pip, deps>>
        /\ \/ at' = "failed" /\ link' = link
           \/ python \in Pythons /\ link = python /\ at' = "deps" /\ link' = link
           \/ python \in Pythons /\ link # python /\ at' = "venv_pip"
              /\ link' = IF link = None THEN python ELSE link
    BY <1>7 DEF EnsureVenv
  <2> QED BY <1>1, <2>1
<1>8. CASE VenvGetsPip BY <1>1, <1>8 DEF VenvGetsPip
<1>9. CASE EnsurePip
  <2>1. /\ at = "deps" /\ at' \in {"pip", "failed"} /\ UNCHANGED <<python, link, deps>>
        /\ \/ pip' = pip
           \/ pip = None /\ link = python /\ pip' = link
    BY <1>9 DEF EnsurePip
  <2> QED BY <1>1, <2>1
<1>10. CASE InstallDeps
  <2>1. /\ at = "pip" /\ at' \in {"lib", "failed"} /\ UNCHANGED <<python, link, pip>>
        /\ deps' = deps \/ (pip = python /\ python \in Pythons)
    BY <1>10 DEF InstallDeps
  <2> QED BY <1>1, <2>1
<1>11. CASE DeployFile \/ DeployEntry \/ RewriteShebang \/ ResolveDir \/ LinkEntry
            \/ FixPermissions \/ SmokeTest \/ RemoteSmokeTest
  <2>1. /\ UNCHANGED <<python, venv>> /\ at' # "venv_pip"
        /\ at' \in InVenv => at \in InVenv
    BY <1>11
    DEF DeployFile, DeployEntry, RewriteShebang, ResolveDir, LinkEntry, FixPermissions,
        SmokeTest, RemoteSmokeTest
  <2> QED BY <2>1
<1>12. CASE UNCHANGED installerVars BY <1>12
<1> QED
  BY <1>2, <1>3, <1>4, <1>5, <1>6, <1>7, <1>8, <1>9, <1>10, <1>11, <1>12 DEF Next

-------------------------------------------------------------------------------
(***************************************************************************)
(* The program.                                                            *)
(***************************************************************************)

Installed == {"completed", "deployed", "rejected"}
Linked == Installed \cup {"permissions", "smoke"}
WithDir == Linked \cup {"link"}
WithShebang == WithDir \cup {"dir"}
WithEntry == WithShebang \cup {"shebang"}
WithDeps == WithEntry \cup {"lib"}

\* What a run has done by the time it gets somewhere, and why it has failed.
RunHistory ==
  /\ at \in {"python", "venv", "venv_pip", "deps", "pip"} => todo = LibFiles
  /\ at = "pip" => pip # None
  /\ at \in WithDeps => python \in deps
  /\ at = "lib" => \A f \in LibFiles \ todo : lib[f] = source
  /\ at \in WithEntry => entry = source /\ \A f \in LibFiles : lib[f] = source
  /\ at \in WithShebang => shebang = "venv"
  /\ at \in WithDir /\ site.external = None =>
       IF site.config = None THEN dir \in Known ELSE dir = site.config
  /\ at \in Linked => dir \in links
  /\ at = "smoke" => open = TRUE
  /\ at \in Installed => open = TRUE /\ link = python

LEMMA RunHistoryStep ==
  ASSUME InstallerTypeOK, Equipped, VenvHistory, RunHistory, RerunRepairs,
         [Next]_installerVars
  PROVE  RunHistory' /\ RerunRepairs'
<1> USE InstallerAssumption
    DEF InstallerTypeOK, Equipped, RunHistory, RerunRepairs, Installed, Linked, WithDir,
        WithShebang, WithEntry, WithDeps, Rest, installerVars, venv, program, run
<1>1. None \notin Pythons /\ None \notin Versions OBVIOUS
<1>2. CASE Start \/ FallBack
  <2>1. at' = "python" /\ todo' = LibFiles BY <1>2 DEF Start, FallBack, Starts
  <2> QED BY <2>1
<1>3. CASE UpgradeOs \/ Drift
  <2>1. at' = "idle" BY <1>3 DEF UpgradeOs, Drift, Disturbed
  <2> QED BY <2>1
<1>4. CASE Interrupted
  <2>1. at' = "failed" /\ faulted' BY <1>4 DEF Interrupted
  <2> QED BY <2>1
<1>5. CASE InstallPython \/ EnsureVenv \/ VenvGetsPip
  <2>1. \/ at' \in {"venv", "venv_pip", "deps"} /\ todo' = LibFiles
        \/ at' = "failed" /\ python' = None
    BY <1>5 DEF InstallPython, EnsureVenv, VenvGetsPip
  <2> QED BY <2>1
<1>6. CASE EnsurePip
  <2>1. \/ at' = "pip" /\ pip' # None /\ todo' = LibFiles
        \/ at' = "failed" /\ link # python /\ link # None /\ UNCHANGED <<link, python>>
    BY <1>6 DEF EnsurePip, VenvAnswers, VenvHistory, InVenv
  <2> QED BY <2>1
<1>7. CASE InstallDeps
  <2>1. CASE pip = python
    BY <1>7, <2>1 DEF InstallDeps
  <2>2. CASE pip # python
    <3>1. at' = "failed" /\ UNCHANGED <<link, python>> BY <1>7, <2>2 DEF InstallDeps
    <3>2. pip # None BY <1>7 DEF InstallDeps
    <3>3. link # python /\ link # None
      BY <1>7, <2>2, <3>2 DEF VenvHistory, InVenv, InstallDeps
    <3> QED BY <3>1, <3>3
  <2> QED BY <2>1, <2>2
<1>8. CASE DeployFile
  <2>1. PICK f \in todo : lib' = [lib EXCEPT ![f] = source] /\ todo' = todo \ {f}
    BY <1>8 DEF DeployFile
  <2>2. \A g \in LibFiles \ todo' : lib'[g] = source BY <1>8, <2>1 DEF DeployFile
  <2> QED BY <1>8, <2>2 DEF DeployFile
<1>9. CASE DeployEntry \/ RewriteShebang
  BY <1>9 DEF DeployEntry, RewriteShebang
<1>10. CASE ResolveDir
  <2>1. CASE InstalledDir = None
    <3>1. at' = "failed" /\ InstalledDir' = None
      BY <1>10, <2>1 DEF ResolveDir, InstalledDir, First
    <3> QED BY <3>1
  <2>2. CASE InstalledDir # None
    BY <1>10, <2>2, InstalledDirType DEF ResolveDir
  <2> QED BY <2>1, <2>2
<1>11. CASE LinkEntry
  <2>1. UNCHANGED <<site.external, site.config>> BY <1>11 DEF LinkEntry, Site
  <2> QED BY <1>11, <2>1 DEF LinkEntry
<1>12. CASE FixPermissions BY <1>12 DEF FixPermissions
<1>13. CASE SmokeTest
  <2>1. /\ at = "smoke" /\ open = TRUE /\ shebang = "venv" /\ link # None
        /\ \A f \in LibFiles : lib[f] # None
    BY <1>1, <1>13 DEF SmokeTest, VenvHistory, InVenv
  <2>2. at' = IF link = python THEN "completed" ELSE "failed"
    BY <1>13, <2>1, Zenon DEF SmokeTest, VenvAnswers
  <2>3. UNCHANGED <<site, python, venv, program, open, run, dir, todo, faulted>>
    BY <1>13 DEF SmokeTest
  <2> QED BY <2>1, <2>2, <2>3
<1>14. CASE RemoteSmokeTest
  <2>1. ASSUME site.external = None PROVE SmokeDir \in links
    <3>1. dir \in links /\ dir \in Dirs BY <1>14 DEF RemoteSmokeTest
    <3>2. CASE site.config # None
      BY <1>14, <2>1, <3>1, <3>2 DEF RemoteSmokeTest, SmokeDir
    <3>3. CASE site.config = None
      <4>1. dir \in links \cap Known BY <1>14, <2>1, <3>1, <3>3 DEF RemoteSmokeTest
      <4>2. First(links \cap Known) \in links BY <4>1, FirstOfSet
      <4> QED BY <3>3, <4>1, <4>2 DEF SmokeDir
    <3> QED BY <3>2, <3>3
  <2> QED BY <1>14, <2>1 DEF RemoteSmokeTest
<1>15. CASE UNCHANGED installerVars
  <2>1. InstalledDir' = InstalledDir BY <1>15 DEF InstalledDir, First
  <2> QED BY <1>15, <2>1
<1> QED
  BY <1>2, <1>3, <1>4, <1>5, <1>6, <1>7, <1>8, <1>9, <1>10, <1>11, <1>12, <1>13, <1>14,
     <1>15
  DEF Next

InstallerInv ==
  InstallerTypeOK /\ Equipped /\ VenvHistory /\ RunHistory /\ RerunRepairs

LEMMA InstallerInvariant == InstallerSpec => []InstallerInv
<1>1. Init => InstallerInv
  <2>1. Init => InstallerTypeOK /\ Equipped
    BY InitType DEF Init, Equipped, Rest
  <2>2. Init => VenvHistory BY InstallerAssumption DEF Init, VenvHistory, InVenv
  <2>3. Init => RunHistory /\ RerunRepairs
    BY DEF Init, RunHistory, RerunRepairs, Installed, Linked, WithDir, WithShebang,
           WithEntry, WithDeps
  <2> QED BY <2>1, <2>2, <2>3 DEF InstallerInv
<1>2. InstallerInv /\ [Next]_installerVars => InstallerInv'
  BY StepType, VenvHistoryStep, RunHistoryStep DEF InstallerInv
<1> QED BY <1>1, <1>2, PTL DEF InstallerSpec

\* Type correctness.
THEOREM InstallerTypeCorrect == InstallerSpec => []InstallerTypeOK
<1>1. InstallerInv => InstallerTypeOK BY DEF InstallerInv
<1> QED BY <1>1, InstallerInvariant, PTL

\* A run that completes has left what it should, whatever it has found.
THEOREM CompletedIsUsableCorrect == InstallerSpec => []CompletedIsUsable
<1>1. InstallerInv => CompletedIsUsable
  BY DEF InstallerInv, RunHistory, CompletedIsUsable, Usable, Installed, Linked, WithDir,
         WithShebang, WithEntry, WithDeps
<1> QED BY <1>1, InstallerInvariant, PTL

\* An undisturbed run fails on nothing that an earlier one has left, but for a
\* venv whose interpreter is gone.
THEOREM RerunRepairsCorrect == InstallerSpec => []RerunRepairs
<1>1. InstallerInv => RerunRepairs BY DEF InstallerInv
<1> QED BY <1>1, InstallerInvariant, PTL

-------------------------------------------------------------------------------
(***************************************************************************)
(* A working installation.                                                 *)
(***************************************************************************)

Early == {"python", "venv", "venv_pip", "deps", "pip"}

\* A run that finds the venv working goes through its first half without a
\* change to it.
LEMMA UsableStays ==
  ASSUME InstallerInv, NEW version \in Versions, Usable(version), at \in Early,
         [Next]_installerVars
  PROVE  (Usable(version))'
<1> USE InstallerAssumption DEF InstallerInv, Usable, Early, program, venv, run
<1>1. python \in Pythons /\ python # None /\ link = python /\ pip # None
  BY DEF InstallerTypeOK, VenvHistory
<1>2. at # "venv_pip" BY <1>1 DEF VenvHistory
<1>3. SUFFICES UNCHANGED <<python, link, lib, entry, shebang>> /\ deps \subseteq deps'
               /\ open' = open
  OBVIOUS
<1>4. CASE Start \/ FallBack
  <2>1. at \in Rest BY <1>4 DEF Start, FallBack, Rest
  <2> QED BY <2>1 DEF Rest
<1>5. CASE Interrupted BY <1>5 DEF Interrupted
<1>6. CASE InstallPython BY <1>1, <1>6 DEF InstallPython
<1>7. CASE EnsureVenv BY <1>1, <1>7 DEF EnsureVenv, VenvAnswers
<1>8. CASE EnsurePip BY <1>1, <1>8 DEF EnsurePip
<1>9. CASE InstallDeps
  <2>1. CASE pip = python
    <3>1. pip \in deps BY <2>1
    <3>2. deps' = deps \cup {pip} /\ open' = open BY <1>9, <2>1, <3>1 DEF InstallDeps
    <3> QED BY <1>9, <3>2 DEF InstallDeps
  <2>2. CASE pip # python BY <1>9, <2>2 DEF InstallDeps
  <2> QED BY <2>1, <2>2
<1>10. CASE UNCHANGED installerVars BY <1>10 DEF installerVars
<1>11. ~(\/ UpgradeOs \/ Drift \/ VenvGetsPip \/ DeployFile \/ DeployEntry
         \/ RewriteShebang \/ ResolveDir \/ LinkEntry \/ FixPermissions \/ SmokeTest
         \/ RemoteSmokeTest)
  BY <1>2
  DEF UpgradeOs, Drift, Disturbed, Rest, VenvGetsPip, DeployFile, DeployEntry,
      RewriteShebang, ResolveDir, LinkEntry, FixPermissions, SmokeTest, RemoteSmokeTest
<1> QED BY <1>4, <1>5, <1>6, <1>7, <1>8, <1>9, <1>10, <1>11 DEF Next

\* A run that does not get as far as the program's files leaves a working
\* installation working.
THEOREM KeepsWorkingCorrect == InstallerSpec => KeepsWorking
<1>1. ASSUME InstallerInv, [Next]_installerVars
      PROVE  [\A version \in Versions :
                Usable(version) /\ at \in {"python", "venv", "venv_pip", "deps", "pip"}
                => (Usable(version))']_installerVars
  BY <1>1, UsableStays DEF Early
<1> QED BY <1>1, InstallerInvariant, PTL DEF InstallerSpec, KeepsWorking

===============================================================================
