------------------------------- MODULE Upgrade -------------------------------
(***************************************************************************)
(* The upgrade module (upgrade_interface.cpp, version_manager.cpp) and the *)
(* scripts that it runs (bin/upgrade_daemon.sh, bin/upgrade_viruslib.sh,   *)
(* bin/upgrade_daemon_viruslib.sh, bin/download_upgrade_version_file.sh):  *)
(* they kill the daemon, exchange its directory or the virus library in it *)
(* and start the daemon again, or go back.  Every command that writes to   *)
(* the disk, downloads or starts the daemon may fail, whether the script   *)
(* looks at its result or not, and the machine may go down between any two *)
(* of them.                                                                *)
(*                                                                         *)
(* A daemon version is the sequence of its tokens ("0.0.2" is <<0,0,2>>),  *)
(* a library version is a number.                                          *)
(***************************************************************************)
EXTENDS Integers, Sequences

CONSTANTS
  DaemonVersions, LibVersions,   \* versions released: three tokens, a number
  Requests,       \* subset of {"daemon", "viruslib", "both"}
  LibInPackage,   \* whether the daemon's package contains a library
  MayGarble,      \* whether run_cmd's uninitialised buffer holds garbage
  MaxFaults,      \* bound: commands that fail
  MaxCrashes      \* bound: crashes of the machine

NoLib == 0
PartLib == -1
NoVersion == << >>
PartVersion == <<0>>

ASSUME UpgradeAssumption ==
  /\ DaemonVersions # {} /\ NoVersion \notin DaemonVersions
  /\ \A v \in DaemonVersions : v \in Seq(Nat) /\ Len(v) = 3
  /\ LibVersions # {} /\ LibVersions \subseteq Nat \ {NoLib}
  /\ Requests \subseteq {"daemon", "viruslib", "both"}
  /\ LibInPackage \in BOOLEAN /\ MayGarble \in BOOLEAN
  /\ MaxFaults \in Nat /\ MaxCrashes \in Nat

(* version.txt: the versions of the daemon and of the library.             *)
VersionFile == [daemon : DaemonVersions, viruslib : LibVersions]
NoFile == [daemon |-> NoVersion, viruslib |-> NoLib]

(* A daemon directory: its contents, the library in it and its backup,     *)
(* each whole, in part or not there, and etc/version.txt.                  *)
Daemons == DaemonVersions \cup {NoVersion, PartVersion}
Libs == LibVersions \cup {NoLib, PartLib}
Dir == [daemon : Daemons, lib : Libs, lib_backup : Libs,
        version_file : VersionFile \cup {NoFile}]
NoDir == [daemon |-> NoVersion, lib |-> NoLib, lib_backup |-> NoLib,
          version_file |-> NoFile]

VARIABLES
  release,     \* what the web server offers
  downloaded,  \* /tmp/version.txt
  package,     \* what curl has fetched
  daemon_dir, backup_dir,
  daemon,      \* versions that the running daemon has read, NoFile if none runs
  scripts,     \* scripts that are yet to end
  pc,          \* next command of the first one
  faults,      \* failures that the script looks at (and of the version file's download)
  unchecked,   \* failures of rm, mv and cp, which it does not look at
  crashes

failVars == <<faults, unchecked>>
dirVars == <<daemon_dir, backup_dir>>
vars == <<release, downloaded, package, dirVars, daemon, scripts, pc, failVars, crashes>>
-----------------------------------------------------------------------------
(* tok: the i-th token, and the last one where there are fewer.            *)
tok(v, i) == IF i <= Len(v) THEN v[i] ELSE v[Len(v)]

(* Mutant: any token that is greater will do.                              *)
compare_AnyToken(curr, dest) == \E i \in 1 .. 3 : tok(curr, i) < tok(dest, i)

(* DaemonVersionManager::compare.                                          *)
compare(curr, dest) ==
  \E i \in 1 .. 3 : /\ tok(curr, i) < tok(dest, i)
                    /\ \A j \in 1 .. i - 1 : tok(curr, j) = tok(dest, j)

(* check_upgrade of both managers, with the downloaded file.               *)
UpgradeDaemon(file) == file # NoFile /\ compare(daemon.daemon, file.daemon)
UpgradeVirusLib(file) == file # NoFile /\ file.viruslib > daemon.viruslib

Wants(request, part) == request \in {part, "both"}

(* The script for what is out of date; upgrade_daemon_viruslib.sh runs the *)
(* two others.                                                             *)
ScriptsFor(request, file) ==
  LET d == Wants(request, "daemon") /\ UpgradeDaemon(file)
      v == Wants(request, "viruslib") /\ UpgradeVirusLib(file)
  IN  CASE d /\ v -> <<"daemon", "viruslib">>
        [] d /\ ~v -> <<"daemon">>
        [] ~d /\ v -> <<"viruslib">>
        [] OTHER -> << >>

Ok == UNCHANGED failVars

MayFail == faults + unchecked < MaxFaults

Fails == MayFail /\ faults' = faults + 1 /\ UNCHANGED unchecked

FailsUnchecked == MayFail /\ unchecked' = unchecked + 1 /\ UNCHANGED faults

(* assign: the version file is downloaded - only exit status 1 would be a  *)
(* failure, and the script's is 255 - and the script for what is out of    *)
(* date is run.                                                            *)
assign(request) ==
  /\ daemon # NoFile /\ pc = "idle"
  /\ \/ downloaded' = release /\ Ok
     \/ Fails /\ UNCHANGED downloaded
  /\ scripts' = ScriptsFor(request, downloaded')
  /\ pc' = IF scripts' = << >> THEN "idle" ELSE "kill"
  /\ UNCHANGED <<release, package, dirVars, daemon, crashes>>

(* run_cmd: with garbage before the command, the shell runs nothing, and   *)
(* the daemon exits all the same.                                          *)
Garbled ==
  /\ pc = "kill" /\ daemon # NoFile /\ MayGarble
  /\ daemon' = NoFile /\ scripts' = << >> /\ pc' = "idle"
  /\ UNCHANGED <<release, downloaded, package, dirVars, failVars, crashes>>
-----------------------------------------------------------------------------
(* A command of the script s succeeds or fails, and control goes on.       *)
At(s, place) == scripts # << >> /\ Head(scripts) = s /\ pc = place

Go(place) == pc' = place /\ UNCHANGED <<release, downloaded, scripts, crashes>>

(* What is left where rm -rf fails: all, or what it has not come to.       *)
Remains(dir) == {dir, [dir EXCEPT !.daemon = PartVersion]}

(* mv, which is a rename: onto what is not there.  Something that is there *)
(* is a directory, and what is moved ends up in it, or stays where it is   *)
(* if that has the name already.                                           *)
Moved(from, to, none) ==
  IF to = none THEN {<<none, from>>} ELSE {<<none, to>>, <<from, to>>}

(* The end of a script.                                                    *)
ScriptEnds ==
  /\ scripts' = Tail(scripts)
  /\ pc' = IF Tail(scripts) = << >> THEN "idle" ELSE "kill"
  /\ UNCHANGED <<release, downloaded, crashes>>

Usable(dir) == dir.daemon \in DaemonVersions /\ dir.version_file # NoFile

(* main_daemon starts; create of the upgrade module asserts that there is  *)
(* a version file.                                                         *)
Starts == Usable(daemon_dir) /\ Ok /\ daemon' = daemon_dir.version_file
StartFails == (Fails \/ (~Usable(daemon_dir) /\ Ok)) /\ daemon' = NoFile

KillDaemonProcess ==
  /\ pc = "kill" /\ scripts # << >>
  /\ daemon' = NoFile
  /\ Go("backup") /\ Ok
  /\ UNCHANGED <<package, dirVars>>

(* curl -O, in both scripts.                                               *)
DownloadPackage(s) ==
  /\ At(s, "download")
  /\ \/ package' = release /\ Go("decompress") /\ Ok
     \/ Go("revert") /\ Fails /\ UNCHANGED package
  /\ UNCHANGED <<dirVars, daemon>>
-----------------------------------------------------------------------------
(* upgrade_daemon.sh                                                       *)

(* backup_daemon_dir: the last backup goes...                              *)
RemoveBackup ==
  /\ At("daemon", "backup")
  /\ \/ backup_dir' = NoDir /\ Ok
     \/ backup_dir # NoDir /\ backup_dir' \in Remains(backup_dir) /\ FailsUnchecked
  /\ Go("move")
  /\ UNCHANGED <<package, daemon_dir, daemon>>

(* Mutant: the directory is emptied and the package is unpacked into it.   *)
BackupDaemonDir_None ==
  /\ At("daemon", "move")
  /\ daemon_dir' = NoDir
  /\ Go("download") /\ Ok
  /\ UNCHANGED <<package, backup_dir, daemon>>

(* ...and the directory becomes the backup.                                *)
BackupDaemonDir ==
  /\ At("daemon", "move")
  /\ \/ /\ \E m \in Moved(daemon_dir, backup_dir, NoDir) :
             daemon_dir' = m[1] /\ backup_dir' = m[2]
        /\ Ok
     \/ UNCHANGED dirVars /\ FailsUnchecked
  /\ Go("download")
  /\ UNCHANGED <<package, daemon>>

(* What is there already, when it could not be moved away, is overwritten. *)
DecompressDaemon ==
  /\ At("daemon", "decompress")
  /\ \/ /\ daemon_dir' = [daemon_dir EXCEPT !.daemon = package.daemon,
                            !.lib = IF LibInPackage THEN package.viruslib ELSE @]
        /\ Go("copy") /\ Ok
     \/ /\ \E v \in {daemon_dir.daemon, PartVersion, package.daemon},
             l \in {daemon_dir.lib, PartLib} :
             daemon_dir' = [daemon_dir EXCEPT !.daemon = v, !.lib = l]
        /\ Go("revert") /\ Fails
  /\ UNCHANGED <<package, backup_dir, daemon>>

(* cp -f of the version file; compile_systemtap does not matter.           *)
CopyFiles ==
  /\ At("daemon", "copy")
  /\ \/ daemon_dir' = [daemon_dir EXCEPT !.version_file = downloaded] /\ Ok
     \/ /\ daemon_dir' \in {daemon_dir, [daemon_dir EXCEPT !.version_file = NoFile]}
        /\ FailsUnchecked
  /\ Go("start")
  /\ UNCHANGED <<package, backup_dir, daemon>>

StartDaemonProcess ==
  /\ At("daemon", "start")
  /\ \/ Starts /\ ScriptEnds
     \/ StartFails /\ Go("revert")
  /\ UNCHANGED <<package, dirVars>>

(* revert_daemon_dir: out of the way with the new directory, if there is   *)
(* one, in place of or into what is left of the last one that failed...    *)
RevertRemove ==
  /\ At("daemon", "revert")
  /\ \/ daemon_dir' = NoDir /\ Ok
     \/ daemon_dir # NoDir /\ FailsUnchecked /\ UNCHANGED daemon_dir
  /\ Go("restore")
  /\ UNCHANGED <<package, backup_dir, daemon>>

(* ...and back with the old one...                                         *)
RevertRestore ==
  /\ At("daemon", "restore")
  /\ \/ /\ \E m \in Moved(backup_dir, daemon_dir, NoDir) :
             backup_dir' = m[1] /\ daemon_dir' = m[2]
        /\ Ok
     \/ UNCHANGED dirVars /\ FailsUnchecked
  /\ Go("restart")
  /\ UNCHANGED <<package, daemon>>

(* Mutant: the exit comes before revert_daemon_proc.                       *)
RevertDaemonProc_Exits ==
  /\ At("daemon", "restart")
  /\ Ok /\ UNCHANGED daemon
  /\ ScriptEnds
  /\ UNCHANGED <<package, dirVars>>

(* ...which revert_daemon_proc starts.                                     *)
RevertDaemonProc ==
  /\ At("daemon", "restart")
  /\ Starts \/ StartFails
  /\ ScriptEnds
  /\ UNCHANGED <<package, dirVars>>
-----------------------------------------------------------------------------
(* upgrade_viruslib.sh                                                     *)

(* backup_virus_library: the last backup goes...                           *)
RemoveLibBackup ==
  /\ At("viruslib", "backup")
  /\ \/ daemon_dir' = [daemon_dir EXCEPT !.lib_backup = NoLib] /\ Ok
     \/ /\ daemon_dir.lib_backup # NoLib /\ FailsUnchecked
        /\ daemon_dir' \in {daemon_dir, [daemon_dir EXCEPT !.lib_backup = PartLib]}
  /\ Go("move")
  /\ UNCHANGED <<package, backup_dir, daemon>>

(* ...and the library becomes the backup.                                  *)
BackupVirusLibrary ==
  /\ At("viruslib", "move")
  /\ \/ /\ \E m \in Moved(daemon_dir.lib, daemon_dir.lib_backup, NoLib) :
             daemon_dir' = [daemon_dir EXCEPT !.lib = m[1], !.lib_backup = m[2]]
        /\ Ok
     \/ daemon_dir.lib # NoLib /\ FailsUnchecked /\ UNCHANGED daemon_dir
  /\ Go("download")
  /\ UNCHANGED <<package, backup_dir, daemon>>

(* Mutant: a failure to decompress is not looked at.                       *)
DecompressVirusLib_Unchecked ==
  /\ At("viruslib", "decompress")
  /\ \/ Ok /\ daemon_dir' = [daemon_dir EXCEPT !.lib = package.viruslib]
     \/ Fails /\ UNCHANGED daemon_dir
  /\ Go("start")
  /\ UNCHANGED <<package, backup_dir, daemon>>

(* tar needs the directory that it is to unpack into.                      *)
DecompressVirusLib ==
  /\ At("viruslib", "decompress")
  /\ \/ /\ daemon_dir # NoDir
        /\ daemon_dir' = [daemon_dir EXCEPT !.lib = package.viruslib]
        /\ Go("start") /\ Ok
     \/ /\ daemon_dir # NoDir /\ Fails
        /\ \E l \in {daemon_dir.lib, PartLib} :
             daemon_dir' = [daemon_dir EXCEPT !.lib = l]
        /\ Go("revert")
     \/ daemon_dir = NoDir /\ Go("revert") /\ Ok /\ UNCHANGED daemon_dir
  /\ UNCHANGED <<package, backup_dir, daemon>>

(* The result of start_daemon_process is not looked at.                    *)
StartAfterVirusLib ==
  /\ At("viruslib", "start")
  /\ Starts \/ StartFails
  /\ ScriptEnds
  /\ UNCHANGED <<package, dirVars>>

(* revert_virus_library, if there is a backup: the new library goes...     *)
RemoveNewLib ==
  /\ At("viruslib", "revert") /\ daemon_dir.lib_backup # NoLib
  /\ \/ daemon_dir' = [daemon_dir EXCEPT !.lib = NoLib] /\ Ok
     \/ /\ daemon_dir.lib # NoLib /\ FailsUnchecked
        /\ daemon_dir' \in {daemon_dir, [daemon_dir EXCEPT !.lib = PartLib]}
  /\ Go("restore")
  /\ UNCHANGED <<package, backup_dir, daemon>>

(* ...and the old one comes back; nobody starts the daemon that was killed.*)
RevertVirusLibrary ==
  /\ At("viruslib", "restore")
  /\ \/ /\ \E m \in Moved(daemon_dir.lib_backup, daemon_dir.lib, NoLib) :
             daemon_dir' = [daemon_dir EXCEPT !.lib_backup = m[1], !.lib = m[2]]
        /\ Ok
     \/ UNCHANGED daemon_dir /\ FailsUnchecked
  /\ ScriptEnds
  /\ UNCHANGED <<package, backup_dir, daemon>>

NoLibToRevert ==
  /\ At("viruslib", "revert") /\ daemon_dir.lib_backup = NoLib
  /\ ScriptEnds /\ Ok
  /\ UNCHANGED <<package, dirVars, daemon>>
-----------------------------------------------------------------------------
(* The web server's versions change, not under a script's hands.           *)
Release ==
  /\ pc = "idle"
  /\ release' \in VersionFile \ {release}
  /\ UNCHANGED <<downloaded, package, dirVars, daemon, scripts, pc, failVars, crashes>>

(* The machine goes down, or the script is killed.                         *)
Crash ==
  /\ crashes < MaxCrashes
  /\ crashes' = crashes + 1
  /\ daemon' = NoFile /\ scripts' = << >> /\ pc' = "idle"
  /\ UNCHANGED <<release, downloaded, package, dirVars, failVars>>

(* Somebody starts main_daemon.                                            *)
Boot ==
  /\ pc = "idle" /\ daemon = NoFile
  /\ Starts
  /\ UNCHANGED <<release, downloaded, package, dirVars, scripts, pc, crashes>>

Init ==
  /\ release \in VersionFile
  /\ downloaded = NoFile /\ package = NoFile
  /\ \E file \in VersionFile :
       /\ daemon_dir = [daemon |-> file.daemon, lib |-> file.viruslib,
                        lib_backup |-> NoLib, version_file |-> file]
       /\ daemon = file
  /\ backup_dir = NoDir
  /\ scripts = << >> /\ pc = "idle"
  /\ faults = 0 /\ unchecked = 0 /\ crashes = 0

ScriptStep ==
  \/ KillDaemonProcess \/ RemoveBackup \/ BackupDaemonDir
  \/ \E s \in {"daemon", "viruslib"} : DownloadPackage(s)
  \/ DecompressDaemon \/ CopyFiles \/ StartDaemonProcess
  \/ RevertRemove \/ RevertRestore \/ RevertDaemonProc
  \/ RemoveLibBackup \/ BackupVirusLibrary \/ DecompressVirusLib \/ StartAfterVirusLib
  \/ RemoveNewLib \/ RevertVirusLibrary \/ NoLibToRevert

Next ==
  \/ \E request \in Requests : assign(request)
  \/ Garbled \/ ScriptStep \/ Release \/ Crash \/ Boot

Spec == Init /\ [][Next]_vars

(* A script that runs goes on; nobody need start the daemon.               *)
FairSpec == Spec /\ WF_vars(ScriptStep)
-----------------------------------------------------------------------------
TypeOK ==
  /\ release \in VersionFile /\ downloaded \in VersionFile \cup {NoFile}
  /\ package \in VersionFile \cup {NoFile}
  /\ daemon_dir \in Dir /\ backup_dir \in Dir
  /\ daemon \in VersionFile \cup {NoFile}
  /\ scripts \in {<< >>, <<"daemon">>, <<"viruslib">>, <<"daemon", "viruslib">>}
  /\ pc \in {"idle", "kill", "backup", "move", "download", "decompress", "copy",
             "start", "revert", "restore", "restart"}
  /\ faults \in Nat /\ unchecked \in Nat /\ faults + unchecked <= MaxFaults
  /\ crashes \in 0 .. MaxCrashes

(* What the scripts are made for: any failures that they look at, or a     *)
(* single one that they do not look at.                                    *)
Foreseen == unchecked = 0 \/ (unchecked = 1 /\ faults = 0)

(* upgrade_daemon.sh: as long as rm, mv and cp, whose results it does not  *)
(* look at, do their work, the daemon's directory or its backup is an      *)
(* installation that can be started, whatever else fails and whenever the  *)
(* machine goes down.  And when the scripts have ended, without a crash,   *)
(* it is the directory, also after one failure of a rm, mv or cp if that   *)
(* is all that fails.  (All variables have their types.)                   *)
InstallationSurvives ==
  /\ TypeOK
  /\ unchecked = 0 => Usable(daemon_dir) \/ Usable(backup_dir)
  /\ Foreseen /\ crashes = 0 /\ pc = "idle" => Usable(daemon_dir)

(* upgrade_viruslib.sh and upgrade_daemon.sh: when they have ended, well   *)
(* or badly, there is a library, with the same exceptions: two failures of *)
(* which the script does not look at one, and a crash (a script that is    *)
(* run again after it removes the backup, which may be the only one).      *)
LibrarySurvives ==
  Foreseen /\ crashes = 0 /\ pc = "idle" => daemon_dir.lib \in LibVersions

(* The order of versions.                                                  *)
Newer(v, w) ==
  \E i \in 1 .. 3 : v[i] > w[i] /\ \A j \in 1 .. i - 1 : v[j] = w[j]

(* check_upgrade and the scripts: as long as nothing has failed (after a   *)
(* failed download an old version file decides, and a failed cp leaves an  *)
(* old one beside a new daemon), the installed daemon is never older than  *)
(* its backup, through crashes too.                                        *)
NoDowngrade ==
  faults + unchecked = 0 /\ Usable(daemon_dir) /\ Usable(backup_dir)
    => ~Newer(backup_dir.daemon, daemon_dir.daemon)

(* upgrade_daemon.sh: a daemon that was killed for its own upgrade runs    *)
(* again, the new one or the old one, whichever command fails, unless a    *)
(* second one fails too or the machine goes down.                          *)
RunsAgain ==
  (scripts = <<"daemon">> /\ pc = "backup")
    ~> (daemon # NoFile \/ crashes > 0 \/ faults + unchecked > 1)
=============================================================================
