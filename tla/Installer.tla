------------------------------- MODULE Installer -------------------------------
(***************************************************************************)
(* deploy/install-prober.sh, run over whatever earlier runs have left, and *)
(* deploy/deploy-to.sh, which runs it from afar.  Any command of a run may *)
(* fail and a run may be killed between any two; between runs the          *)
(* distribution may replace its Python and the permissions may drift.      *)
(*                                                                         *)
(* A version of the program is a member of Versions, an interpreter        *)
(* (python3.11, 3.12, 3.13) one of Pythons, and LaterPythons says which a  *)
(* distribution may replace it by.  KnownDirs lists directories            *)
(* of external scripts in the order the scripts try them; Dirs has others, *)
(* too, that a host may name.                                              *)
(***************************************************************************)
EXTENDS Integers, Sequences

CONSTANTS Versions, Pythons, LaterPythons, LibFiles, Dirs, KnownDirs, Sites

None == "NONE"

Known == {KnownDirs[i] : i \in DOMAIN KnownDirs}

\* What a host tells about its external scripts: EXTERNAL_DIR, the value that
\* the first readable configuration has, which known directories exist.
Site == [external : Dirs \cup {None, "relative"}, config : Dirs \cup {None, "relative"},
         known : SUBSET Known]

ASSUME InstallerAssumption ==
  /\ None \notin Versions \cup Pythons \cup Dirs
  /\ LaterPythons \in [Pythons -> SUBSET Pythons]
  /\ \A p \in Pythons : \A q \in LaterPythons[p] :
       p # q /\ LaterPythons[q] \subseteq LaterPythons[p] \ {p}
  /\ KnownDirs \in Seq(Dirs)
  /\ Sites \subseteq Site

VARIABLES
  site,    \* this host
  python,  \* the interpreter the distribution offers; None: it has none that will do
  link,    \* the interpreter venv/bin/python leads to, which may be gone
  pip,     \* the interpreter that venv/bin/pip runs on
  deps,    \* the interpreters that find cryptography in the venv
  lib,     \* the version of each file of probe/lib
  entry,   \* the version of the script dpi_probe
  shebang, \* who runs it: "env" as in the checkout, or "venv"
  links,   \* the directories with a link to it
  open,    \* whether the user zabbix can get at all of it
  at,      \* where the run is, or how the last one ended
  via,     \* who has started it
  source,  \* the version it installs
  dir,     \* EXT_DIR
  todo,    \* files of probe/lib it has still to write
  faulted  \* a command of this run has failed, or it was killed

venv == <<link, pip, deps>>
program == <<lib, entry, shebang, links>>
run == <<via, source>>
installerVars == <<site, python, venv, program, open, at, run, dir, todo, faulted>>

Rest == {"idle", "completed", "failed", "deployed", "rejected"}

Init ==
  /\ site \in Sites
  /\ python \in Pythons \cup {None}
  /\ link = None /\ pip = None /\ deps = {}
  /\ lib = [f \in LibFiles |-> None] /\ entry = None /\ shebang = None
  /\ links = {}
  /\ open = TRUE
  /\ at = "idle" /\ via = None /\ source = None
  /\ dir = None /\ todo = {} /\ faulted = FALSE

-------------------------------------------------------------------------------
(***************************************************************************)
(* Runs, and what goes on between them.                                    *)
(***************************************************************************)

Starts(how, version) ==
  /\ at' = "python" /\ via' = how /\ source' = version
  /\ dir' = None /\ todo' = LibFiles /\ faulted' = FALSE
  /\ UNCHANGED <<site, python, venv, program, open>>

\* By hand, or by deploy-to from a checkout or from the download.
Start ==
  /\ at \in Rest
  /\ \E how \in {"hand", "rsync", "pipe"}, version \in Versions : Starts(how, version)

\* deploy-to: the piped installer failed, so one from a clone is run.
FallBack == at = "failed" /\ via = "pipe" /\ Starts("clone", source)

\* What `install` has unlinked and not yet written anew is gone.
Interrupted ==
  /\ at \notin Rest
  /\ at' = "failed" /\ faulted' = TRUE
  /\ \/ UNCHANGED <<lib, entry, shebang>>
     \/ /\ at = "lib"
        /\ \E f \in todo : lib' = [lib EXCEPT ![f] = None]
        /\ UNCHANGED <<entry, shebang>>
     \/ at = "lib" /\ todo = {} /\ entry' = None /\ shebang' = None /\ UNCHANGED lib
  /\ UNCHANGED <<site, python, venv, links, open, run, dir, todo>>

Disturbed == at \in Rest /\ at' = "idle"

UpgradeOs ==
  /\ Disturbed /\ python # None
  /\ python' \in LaterPythons[python]
  /\ UNCHANGED <<site, venv, program, open, run, dir, todo, faulted>>

Drift ==
  /\ Disturbed
  /\ open' = FALSE
  /\ UNCHANGED <<site, python, venv, program, run, dir, todo, faulted>>

-------------------------------------------------------------------------------
(***************************************************************************)
(* The interpreter, the virtual environment and the dependencies.          *)
(***************************************************************************)

\* -x venv/bin/python, and its version.
VenvAnswers == link = python

\* It gives up on a family it does not know; what apt falls back to may be older
\* than 3.11, which is found out in EnsureVenv.
InstallPython ==
  /\ at = "python"
  /\ \/ python # None /\ at' = "venv" /\ UNCHANGED python
     \/ python = None /\ at' = "venv" /\ python' \in Pythons \cup {None}
     \/ python = None /\ at' = "failed" /\ UNCHANGED python
  /\ UNCHANGED <<site, venv, program, open, run, dir, todo, faulted>>

\* root's umask may keep zabbix out of what is new.
CreatesFiles == open' \in {open, FALSE}

\* Faulty variant: the venv is made anew by every run.
EnsureVenvAnew ==
  /\ at = "venv" /\ python # None
  /\ at' = "venv_pip" /\ link' = python /\ pip' = None /\ deps' = {}
  /\ CreatesFiles
  /\ UNCHANGED <<site, python, program, run, dir, todo, faulted>>

\* `python -m venv` leaves a bin/python alone that is a link, wherever to.
EnsureVenv ==
  /\ at = "venv"
  /\ \/ python = None /\ at' = "failed" /\ UNCHANGED <<link, open>>
     \/ python # None /\ VenvAnswers /\ at' = "deps" /\ UNCHANGED <<link, open>>
     \/ /\ python # None /\ ~VenvAnswers
        /\ at' = "venv_pip" /\ link' = (IF link = None THEN python ELSE link)
        /\ CreatesFiles
  /\ UNCHANGED <<site, python, pip, deps, program, run, dir, todo, faulted>>

\* Its second half: pip, for the interpreter that runs it.
VenvGetsPip ==
  /\ at = "venv_pip"
  /\ at' = "deps" /\ pip' = python
  /\ CreatesFiles
  /\ UNCHANGED <<site, python, link, deps, program, run, dir, todo, faulted>>

\* Faulty variant: pip is taken to come with the venv.
EnsurePipPlain ==
  /\ at = "deps"
  /\ at' = IF pip = None THEN "failed" ELSE "pip"
  /\ UNCHANGED <<site, python, venv, program, open, run, dir, todo, faulted>>

EnsurePip ==
  /\ at = "deps"
  /\ IF pip = None
       THEN IF VenvAnswers THEN at' = "pip" /\ pip' = link /\ CreatesFiles
                           ELSE at' = "failed" /\ UNCHANGED <<pip, open>>
       ELSE at' = "pip" /\ UNCHANGED <<pip, open>>
  /\ UNCHANGED <<site, python, link, deps, program, run, dir, todo, faulted>>

InstallDeps ==
  /\ at = "pip"
  /\ IF pip = python
       THEN at' = "lib" /\ deps' = deps \cup {pip}
            /\ IF pip \in deps THEN UNCHANGED open ELSE CreatesFiles
       ELSE at' = "failed" /\ UNCHANGED <<deps, open>>
  /\ UNCHANGED <<site, python, link, pip, program, run, dir, todo, faulted>>

-------------------------------------------------------------------------------
(***************************************************************************)
(* The program.                                                            *)
(***************************************************************************)

\* `install`, see Interrupted.
DeployFile ==
  /\ at = "lib" /\ todo # {}
  /\ \E f \in todo : lib' = [lib EXCEPT ![f] = source] /\ todo' = todo \ {f}
  /\ UNCHANGED <<site, python, venv, entry, shebang, links, open, at, run, dir, faulted>>

DeployEntry ==
  /\ at = "lib" /\ todo = {}
  /\ entry' = source /\ shebang' = "env" /\ at' = "shebang"
  /\ UNCHANGED <<site, python, venv, lib, links, open, run, dir, todo, faulted>>

\* Faulty variant: only a script that has none yet gets the venv's interpreter.
RewriteShebangOnce ==
  /\ at = "shebang"
  /\ shebang' = (IF links = {} THEN "venv" ELSE shebang) /\ at' = "dir"
  /\ UNCHANGED <<site, python, venv, lib, entry, links, open, run, dir, todo, faulted>>

RewriteShebang ==
  /\ at = "shebang"
  /\ shebang' = "venv" /\ at' = "dir"
  /\ UNCHANGED <<site, python, venv, lib, entry, links, open, run, dir, todo, faulted>>

First(D) ==
  LET n == CHOOSE i \in DOMAIN KnownDirs :
             KnownDirs[i] \in D /\ \A j \in 1..(i - 1) : KnownDirs[j] \notin D
  IN  KnownDirs[n]

\* Faulty variant: a path that is not absolute is accepted.
InstalledDirUnchecked ==
  IF site.external # None THEN site.external
  ELSE IF site.config # None THEN site.config
  ELSE IF site.known # {} THEN First(site.known) ELSE None

\* resolve_externalscripts_dir; None where accept or fail gives up.
InstalledDir ==
  LET named == IF site.external # None THEN site.external ELSE site.config
  IN  IF named # None
        THEN IF named \in Dirs THEN named ELSE None
        ELSE IF site.known # {} THEN First(site.known) ELSE None

ResolveDir ==
  /\ at = "dir"
  /\ dir' = InstalledDir
  /\ at' = IF InstalledDir = None THEN "failed" ELSE "link"
  /\ UNCHANGED <<site, python, venv, program, open, run, todo, faulted>>

\* The directory is made if need be; ln -sf.
LinkEntry ==
  /\ at = "link"
  /\ site' = [site EXCEPT !.known = @ \cup ({dir} \cap Known)]
  /\ links' = links \cup {dir}
  /\ at' = "permissions"
  /\ UNCHANGED <<python, venv, lib, entry, shebang, open, run, dir, todo, faulted>>

FixPermissions ==
  /\ at = "permissions"
  /\ open' = TRUE /\ at' = "smoke"
  /\ UNCHANGED <<site, python, venv, program, run, dir, todo, faulted>>

\* --help, as zabbix: the interpreter, and what dpi_probe imports at its head.
SmokeTest ==
  /\ at = "smoke"
  /\ at' = IF /\ open
              /\ shebang = "venv" => VenvAnswers
              /\ \A f \in LibFiles : lib[f] # None
             THEN "completed" ELSE "failed"
  /\ UNCHANGED <<site, python, venv, program, open, run, dir, todo, faulted>>

\* Where deploy-to expects dpi_probe.
SmokeDir ==
  IF site.config # None THEN site.config
  ELSE LET found == links \cap Known
       IN  IF found # {} THEN First(found) ELSE None

RemoteSmokeTest ==
  /\ at = "completed" /\ via # "hand"
  /\ at' = IF SmokeDir \in links THEN "deployed" ELSE "rejected"
  /\ UNCHANGED <<site, python, venv, program, open, run, dir, todo, faulted>>

Next ==
  \/ Start \/ FallBack \/ Interrupted \/ UpgradeOs \/ Drift
  \/ InstallPython \/ EnsureVenv \/ VenvGetsPip \/ EnsurePip \/ InstallDeps
  \/ DeployFile \/ DeployEntry \/ RewriteShebang
  \/ ResolveDir \/ LinkEntry \/ FixPermissions \/ SmokeTest \/ RemoteSmokeTest

InstallerSpec == Init /\ [][Next]_installerVars

-------------------------------------------------------------------------------
(***************************************************************************)
(* Properties.                                                             *)
(***************************************************************************)

\* Type invariant.
InstallerTypeOK ==
  /\ site \in Site
  /\ python \in Pythons \cup {None} /\ link \in Pythons \cup {None}
  /\ pip \in Pythons \cup {None} /\ deps \subseteq Pythons
  /\ lib \in [LibFiles -> Versions \cup {None}]
  /\ entry \in Versions \cup {None} /\ shebang \in {None, "env", "venv"}
  /\ links \subseteq Dirs
  /\ open \in BOOLEAN /\ faulted \in BOOLEAN
  /\ at \in Rest \cup {"python", "venv", "venv_pip", "deps", "pip", "lib", "shebang",
                       "dir", "link", "permissions", "smoke"}
  /\ via \in {None, "hand", "rsync", "pipe", "clone"}
  /\ source \in Versions \cup {None}
  /\ dir \in Dirs \cup {None}
  /\ todo \subseteq LibFiles

\* Every kind of probe of this version runs, as zabbix, on the venv.
Usable(version) ==
  /\ entry = version /\ shebang = "venv"
  /\ \A f \in LibFiles : lib[f] = version
  /\ link = python /\ python \in deps
  /\ open

\* "install run completed OK": every file is of this run's version, on its
\* interpreter with its dependencies, and linked where it was to be, whatever
\* interrupted runs of other versions have left; the smoke test alone would
\* not notice a dependency or the version of a file.
CompletedIsUsable ==
  at \in {"completed", "deployed", "rejected"} => Usable(source) /\ dir \in links

\* "Re-running the installer is safe": a run of which no command fails and that
\* is not killed gets through on whatever it finds, half of a venv included.
\* What it cannot repair are a distribution without a Python from 3.11 on, a venv
\* whose interpreter the distribution has dropped, and a host without a directory
\* for the scripts; and deploy-to rejects what it has installed only where
\* EXTERNAL_DIR, which its smoke test does not read, says otherwise.
RerunRepairs ==
  /\ at = "failed" /\ ~faulted =>
       python = None \/ InstalledDir = None \/ (link # python /\ link # None)
  /\ at = "rejected" => site.external # None

\* A run that does not get as far as the files of the program, for want of a
\* download, a package or the network, leaves a working installation working.
KeepsWorking ==
  [][\A version \in Versions :
       Usable(version) /\ at \in {"python", "venv", "venv_pip", "deps", "pip"}
       => (Usable(version))']_installerVars
===============================================================================
