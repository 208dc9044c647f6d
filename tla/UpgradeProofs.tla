---------------------------- MODULE UpgradeProofs ----------------------------
(***************************************************************************)
(* Proofs about Upgrade, for any set of released versions and any number   *)
(* of faults and crashes.                                                  *)
(***************************************************************************)
EXTENDS Upgrade, TLAPS

ScriptSeqs == {<< >>, <<"daemon">>, <<"viruslib">>, <<"daemon", "viruslib">>}

Places == {"idle", "kill", "backup", "move", "download", "decompress", "copy",
           "start", "revert", "restore", "restart"}

(* The first script, if there is one.                                      *)
Job == IF scripts = << >> THEN "none" ELSE Head(scripts)

(* What remains of scripts when the first one has ended.                   *)
LEMMA ScriptSeq ==
  ASSUME scripts \in ScriptSeqs, scripts # << >>
  PROVE  /\ Tail(scripts) \in ScriptSeqs
         /\ Tail(scripts) # << >> => Head(Tail(scripts)) = "viruslib"
         /\ Head(scripts) \in {"daemon", "viruslib"}
<1>1. CASE scripts = <<"daemon">>
  BY <1>1 DEF ScriptSeqs
<1>2. CASE scripts = <<"viruslib">>
  BY <1>2 DEF ScriptSeqs
<1>3. CASE scripts = <<"daemon", "viruslib">>
  <2>1. Tail(scripts) = <<"viruslib">> BY <1>3
  <2> QED BY <1>3, <2>1 DEF ScriptSeqs
<1> QED
  BY <1>1, <1>2, <1>3 DEF ScriptSeqs

(* assign runs the daemon's script only when the daemon is out of date.    *)
LEMMA ScriptsForType ==
  ASSUME NEW request, NEW file
  PROVE  /\ ScriptsFor(request, file) \in ScriptSeqs
         /\ (/\ ScriptsFor(request, file) # << >>
             /\ Head(ScriptsFor(request, file)) = "daemon") => UpgradeDaemon(file)
         /\ ScriptsFor(request, file) # << >> => file # NoFile
<1> DEFINE a == Wants(request, "daemon") /\ UpgradeDaemon(file)
           b == Wants(request, "viruslib") /\ UpgradeVirusLib(file)
           s == ScriptsFor(request, file)
<1>1. CASE a /\ b
  <2>1. s = <<"daemon", "viruslib">> BY <1>1 DEF ScriptsFor
  <2> QED BY <1>1, <2>1 DEF ScriptSeqs, UpgradeDaemon
<1>2. CASE a /\ ~b
  <2>1. s = <<"daemon">> BY <1>2 DEF ScriptsFor
  <2> QED BY <1>2, <2>1 DEF ScriptSeqs, UpgradeDaemon
<1>3. CASE ~a /\ b
  <2>1. s = <<"viruslib">> BY <1>3 DEF ScriptsFor
  <2> QED BY <1>3, <2>1 DEF ScriptSeqs, UpgradeVirusLib
<1>4. CASE ~a /\ ~b
  <2>1. s = << >> BY <1>4 DEF ScriptsFor
  <2> QED BY <2>1 DEF ScriptSeqs
<1> QED
  BY <1>1, <1>2, <1>3, <1>4
-----------------------------------------------------------------------------
(* A directory with other contents and another library.                    *)
LEMMA DirWith ==
  ASSUME NEW d \in Dir, NEW v \in Daemons, NEW l \in Libs
  PROVE  [d EXCEPT !.daemon = v] \in Dir /\ [d EXCEPT !.daemon = v, !.lib = l] \in Dir
  BY DEF Dir

(* What directories and version files are made of.                         *)
LEMMA Parts ==
  /\ NoDir \in Dir /\ ~Usable(NoDir)
  /\ \A f \in VersionFile : f # NoFile /\ f.daemon \in DaemonVersions /\ f.viruslib \in LibVersions
  /\ \A f \in VersionFile \cup {NoFile} : f.daemon \in Daemons /\ f.viruslib \in Libs
  /\ \A d \in Dir : /\ d.daemon \in Daemons /\ d.lib \in Libs /\ d.lib_backup \in Libs
                    /\ d.version_file \in VersionFile \cup {NoFile}
  /\ PartVersion \in Daemons /\ NoVersion \in Daemons /\ PartLib \in Libs /\ NoLib \in Libs
<1>1. \A f \in VersionFile : f # NoFile /\ f.daemon \in DaemonVersions /\ f.viruslib \in LibVersions
  BY UpgradeAssumption DEF VersionFile, NoFile
<1>2. NoFile.daemon = NoVersion /\ NoFile.viruslib = NoLib
  BY DEF NoFile
<1>3. NoDir \in Dir /\ ~Usable(NoDir)
  BY DEF NoDir, Dir, Usable, Daemons, Libs
<1>4. \A d \in Dir : /\ d.daemon \in Daemons /\ d.lib \in Libs /\ d.lib_backup \in Libs
                     /\ d.version_file \in VersionFile \cup {NoFile}
  BY DEF Dir
<1> QED
  BY <1>1, <1>2, <1>3, <1>4 DEF Daemons, Libs
-----------------------------------------------------------------------------
(* Where the installation is that can be started.  A script only begins    *)
(* under a daemon that runs, and upgrade_daemon.sh has the old directory   *)
(* in the backup from the move until it is moved back.                     *)
AwayPlaces == {"download", "decompress", "copy", "start", "revert", "restore"}

(* While rm, mv and cp do their work...                                    *)
Unfailing ==
  /\ IF Job = "daemon" /\ pc \in AwayPlaces THEN Usable(backup_dir)
     ELSE pc # "idle" => Usable(daemon_dir)
  /\ Usable(daemon_dir) \/ Usable(backup_dir)
  /\ crashes = 0 /\ pc = "idle" => Usable(daemon_dir)
  /\ Job = "daemon" /\ pc = "move" => backup_dir = NoDir
  /\ Job = "daemon" /\ pc = "restore" => daemon_dir = NoDir

(* ...and where only one of them has failed, or none, and nothing else:    *)
(* going back is only for a daemon that does not start.                    *)
OneFailure == faults = 0 /\ unchecked <= 1 /\ crashes = 0

Failing ==
  /\ Job # "daemon" \/ pc \in {"kill", "backup", "move", "restart"} => Usable(daemon_dir)
  /\ Job = "viruslib" => pc \notin {"revert", "restore"}
  /\ Job = "daemon" /\ pc = "copy" => daemon_dir.daemon \in DaemonVersions
  /\ Job = "daemon" /\ pc = "start"
       => Usable(daemon_dir) \/ (unchecked = 1 /\ Usable(backup_dir))
  /\ Job = "daemon" /\ pc \in {"revert", "restore"}
       => unchecked = 1 /\ Usable(backup_dir)
  /\ Job = "daemon" /\ pc = "restore" => daemon_dir = NoDir
  /\ pc = "decompress" => package # NoFile
  /\ pc # "idle" => downloaded # NoFile

InstallationInv ==
  /\ TypeOK
  /\ pc = "idle" <=> scripts = << >>
  /\ daemon # NoFile => /\ pc \in {"idle", "kill"}
                       /\ Usable(daemon_dir) /\ daemon = daemon_dir.version_file
  /\ unchecked = 0 => Unfailing
  /\ OneFailure => Failing

(* The first installation can be started.                                  *)
LEMMA InstallationInit == Init => InstallationInv
<1> SUFFICES ASSUME Init PROVE InstallationInv
  OBVIOUS
<1>1. PICK file \in VersionFile :
        /\ daemon_dir = [daemon |-> file.daemon, lib |-> file.viruslib,
                         lib_backup |-> NoLib, version_file |-> file]
        /\ daemon = file
  BY DEF Init
<1>2. file.daemon \in DaemonVersions /\ file.viruslib \in LibVersions /\ file # NoFile
  BY Parts
<1>3. daemon_dir \in Dir /\ NoDir \in Dir
  BY <1>1, <1>2, Parts DEF Dir, Daemons, Libs
<1>4. TypeOK
  BY <1>1, <1>3, UpgradeAssumption DEF Init, TypeOK
<1>5. Usable(daemon_dir)
  BY <1>1, <1>2 DEF Usable
<1>6. Unfailing /\ Failing
  BY <1>5 DEF Init, Unfailing, Failing, Job
<1> QED
  BY <1>1, <1>4, <1>5, <1>6 DEF Init, InstallationInv

(* A command that succeeds, or fails while failures are left.              *)
LEMMA FailureTypes ==
  ASSUME TypeOK, Ok \/ Fails \/ FailsUnchecked
  PROVE  faults' \in Nat /\ unchecked' \in Nat /\ faults' + unchecked' <= MaxFaults
  BY UpgradeAssumption DEF TypeOK, Ok, Fails, FailsUnchecked, MayFail, failVars

(* Steps of the scripts keep the types.                                    *)
LEMMA TypeStep == ASSUME TypeOK, [Next]_vars PROVE TypeOK'
<1> USE UpgradeAssumption DEF TypeOK, dirVars, vars, ScriptSeqs
<1>1. ASSUME NEW request \in Requests, assign(request) PROVE TypeOK'
  <2>1. scripts' \in ScriptSeqs
    BY <1>1, ScriptsForType DEF assign
  <2>2. faults' \in Nat /\ unchecked' \in Nat /\ faults' + unchecked' <= MaxFaults
    BY <1>1, FailureTypes DEF assign
  <2> QED
    BY <1>1, <2>1, <2>2 DEF assign
<1>2. ASSUME NEW place \in Places, Go(place), Ok \/ Fails \/ FailsUnchecked
      PROVE  /\ pc' \in Places /\ UNCHANGED <<release, downloaded, scripts, crashes>>
             /\ faults' \in Nat /\ unchecked' \in Nat /\ faults' + unchecked' <= MaxFaults
  BY <1>2, FailureTypes DEF Go
<1>3. ASSUME ScriptEnds, Ok \/ Fails \/ FailsUnchecked, scripts # << >>
      PROVE  /\ pc' \in Places /\ scripts' \in ScriptSeqs
             /\ UNCHANGED <<release, downloaded, crashes>>
             /\ faults' \in Nat /\ unchecked' \in Nat /\ faults' + unchecked' <= MaxFaults
  BY <1>3, FailureTypes, ScriptSeq DEF ScriptEnds, Places
<1>4. ASSUME Starts \/ StartFails
      PROVE  (Ok \/ Fails) /\ daemon' \in VersionFile \cup {NoFile}
  BY Parts, <1>4 DEF Starts, StartFails
<1>5. CASE Garbled
  BY <1>5 DEF Garbled, failVars
<1>6. CASE KillDaemonProcess
  BY <1>2, <1>6 DEF KillDaemonProcess, Places
<1>7. ASSUME NEW s, DownloadPackage(s) PROVE TypeOK'
  BY <1>2, <1>7 DEF DownloadPackage, Places
<1>8. CASE RemoveBackup
  <2>1. backup_dir' \in Dir
    BY Parts, <1>8, DirWith DEF RemoveBackup, Remains
  <2> QED
    BY <1>2, <1>8, <2>1 DEF RemoveBackup, Places
<1>9. CASE BackupDaemonDir
  <2>1. daemon_dir' \in Dir /\ backup_dir' \in Dir
    BY Parts, <1>9 DEF BackupDaemonDir, Moved
  <2> QED
    BY <1>2, <1>9, <2>1 DEF BackupDaemonDir, Places
<1>10. CASE DecompressDaemon
  <2>1. daemon_dir' \in Dir
    <3>1. /\ package.daemon \in Daemons /\ daemon_dir.daemon \in Daemons
          /\ package.viruslib \in Libs /\ daemon_dir.lib \in Libs
          /\ PartVersion \in Daemons /\ PartLib \in Libs
      BY Parts
    <3>2. PICK v \in Daemons, l \in Libs :
            daemon_dir' = [daemon_dir EXCEPT !.daemon = v, !.lib = l]
      BY <1>10, <3>1 DEF DecompressDaemon
    <3> QED
      BY Parts, <3>2, DirWith
  <2> QED
    BY <1>2, <1>10, <2>1 DEF DecompressDaemon, Places
<1>11. CASE CopyFiles
  <2>1. daemon_dir' \in Dir
    <3>1. PICK f \in VersionFile \cup {NoFile} :
            daemon_dir' = daemon_dir \/ daemon_dir' = [daemon_dir EXCEPT !.version_file = f]
      BY <1>11 DEF CopyFiles
    <3> QED
      BY <3>1 DEF Dir
  <2> QED
    BY <1>2, <1>11, <2>1 DEF CopyFiles, Places
<1>12. CASE StartDaemonProcess
  BY <1>2, <1>3, <1>4, <1>12 DEF StartDaemonProcess, Places, At
<1>13. CASE RevertRemove
  BY Parts, <1>2, <1>13 DEF RevertRemove, Places
<1>14. CASE RevertRestore
  <2>1. daemon_dir' \in Dir /\ backup_dir' \in Dir
    BY Parts, <1>14 DEF RevertRestore, Moved
  <2> QED
    BY <1>2, <1>14, <2>1 DEF RevertRestore, Places
<1>15. CASE RevertDaemonProc
  BY <1>3, <1>4, <1>15 DEF RevertDaemonProc, Places, At
<1>16. CASE RemoveLibBackup
  <2>1. daemon_dir' \in Dir
    <3>1. PICK l \in Libs : daemon_dir' = daemon_dir \/ daemon_dir' = [daemon_dir EXCEPT !.lib_backup = l]
      BY Parts, <1>16 DEF RemoveLibBackup
    <3> QED
      BY <3>1 DEF Dir
  <2> QED
    BY <1>2, <1>16, <2>1 DEF RemoveLibBackup, Places
<1>17. CASE BackupVirusLibrary
  <2>1. daemon_dir' \in Dir
    <3>1. daemon_dir.lib \in Libs /\ daemon_dir.lib_backup \in Libs /\ NoLib \in Libs
      BY Parts
    <3>2. \A m \in Moved(daemon_dir.lib, daemon_dir.lib_backup, NoLib) : m[1] \in Libs /\ m[2] \in Libs
      BY <3>1 DEF Moved
    <3>3. CASE \E m \in Moved(daemon_dir.lib, daemon_dir.lib_backup, NoLib) :
                 daemon_dir' = [daemon_dir EXCEPT !.lib = m[1], !.lib_backup = m[2]]
      BY <3>2, <3>3 DEF Dir
    <3> QED
      BY <1>17, <3>3 DEF BackupVirusLibrary
  <2> QED
    BY <1>2, <1>17, <2>1 DEF BackupVirusLibrary, Places
<1>18. CASE DecompressVirusLib
  <2>1. daemon_dir' \in Dir
    <3>1. PICK l \in Libs : daemon_dir' = daemon_dir \/ daemon_dir' = [daemon_dir EXCEPT !.lib = l]
      BY Parts, <1>18 DEF DecompressVirusLib
    <3> QED
      BY <3>1 DEF Dir
  <2> QED
    BY <1>2, <1>18, <2>1 DEF DecompressVirusLib, Places
<1>19. CASE StartAfterVirusLib
  BY <1>3, <1>4, <1>19 DEF StartAfterVirusLib, Places, At
<1>20. CASE RemoveNewLib
  <2>1. daemon_dir' \in Dir
    <3>1. PICK l \in Libs : daemon_dir' = daemon_dir \/ daemon_dir' = [daemon_dir EXCEPT !.lib = l]
      BY Parts, <1>20 DEF RemoveNewLib
    <3> QED
      BY <3>1 DEF Dir
  <2> QED
    BY <1>2, <1>20, <2>1 DEF RemoveNewLib, Places
<1>21. CASE RevertVirusLibrary
  <2>1. daemon_dir' \in Dir
    <3>1. daemon_dir.lib \in Libs /\ daemon_dir.lib_backup \in Libs /\ NoLib \in Libs
      BY Parts
    <3>2. \A m \in Moved(daemon_dir.lib_backup, daemon_dir.lib, NoLib) : m[1] \in Libs /\ m[2] \in Libs
      BY <3>1 DEF Moved
    <3>3. CASE \E m \in Moved(daemon_dir.lib_backup, daemon_dir.lib, NoLib) :
                 daemon_dir' = [daemon_dir EXCEPT !.lib_backup = m[1], !.lib = m[2]]
      BY <3>2, <3>3 DEF Dir
    <3> QED
      BY <1>21, <3>3 DEF RevertVirusLibrary
  <2> QED
    BY <1>3, <1>21, <2>1 DEF RevertVirusLibrary, Places, At
<1>22. CASE NoLibToRevert
  BY <1>3, <1>22 DEF NoLibToRevert, Places, At
<1>23. CASE Release
  BY <1>23 DEF Release, failVars
<1>24. CASE Crash
  BY <1>24 DEF Crash, failVars
<1>25. CASE Boot
  BY Parts, <1>25 DEF Boot, Starts, Ok, failVars
<1>26. CASE UNCHANGED vars
  BY <1>26 DEF failVars
<1> QED
  BY <1>1, <1>5, <1>6, <1>7, <1>8, <1>9, <1>10, <1>11, <1>12, <1>13, <1>14, <1>15, <1>16,
     <1>17, <1>18, <1>19, <1>20, <1>21, <1>22, <1>23, <1>24, <1>25, <1>26 DEF Next, ScriptStep

(* The next script, when one ends, is not the daemon's.                    *)
LEMMA ScriptEndsAt ==
  ASSUME TypeOK, ScriptEnds, scripts # << >>
  PROVE  /\ pc' \in {"idle", "kill"}
         /\ pc' = "idle" <=> scripts' = << >>
         /\ scripts' # << >> => Job' = "viruslib"
  BY ScriptSeq DEF TypeOK, ScriptSeqs, ScriptEnds, Job

(* Failures are only counted up.                                           *)
LEMMA FailuresGrow ==
  ASSUME TypeOK, [Next]_vars
  PROVE  /\ faults' >= faults /\ unchecked' >= unchecked /\ crashes' >= crashes
         /\ faults \in Nat /\ unchecked \in Nat /\ crashes \in Nat
         /\ faults' \in Nat /\ unchecked' \in Nat /\ crashes' \in Nat
<1>1. faults \in Nat /\ unchecked \in Nat /\ crashes \in Nat
  BY DEF TypeOK
<1>2. ASSUME Ok \/ Fails \/ FailsUnchecked
      PROVE  /\ faults' >= faults /\ unchecked' >= unchecked
             /\ faults' \in Nat /\ unchecked' \in Nat
  BY <1>1, <1>2 DEF Ok, Fails, FailsUnchecked, failVars
<1>3. CASE ScriptStep
  <2>1. Ok \/ Fails \/ FailsUnchecked
    BY <1>3
    DEF ScriptStep, KillDaemonProcess, DownloadPackage, RemoveBackup, BackupDaemonDir,
        DecompressDaemon, CopyFiles, StartDaemonProcess, RevertRemove, RevertRestore,
        RevertDaemonProc, RemoveLibBackup, BackupVirusLibrary, DecompressVirusLib,
        StartAfterVirusLib, RemoveNewLib, RevertVirusLibrary, NoLibToRevert, Starts, StartFails
  <2>2. UNCHANGED crashes
    BY <1>3
    DEF ScriptStep, KillDaemonProcess, DownloadPackage, RemoveBackup, BackupDaemonDir,
        DecompressDaemon, CopyFiles, StartDaemonProcess, RevertRemove, RevertRestore,
        RevertDaemonProc, RemoveLibBackup, BackupVirusLibrary, DecompressVirusLib,
        StartAfterVirusLib, RemoveNewLib, RevertVirusLibrary, NoLibToRevert, Go, ScriptEnds
  <2> QED
    BY <1>1, <1>2, <2>1, <2>2
<1>4. ASSUME NEW request \in Requests, assign(request)
      PROVE  (Ok \/ Fails) /\ UNCHANGED crashes
  BY <1>4 DEF assign
<1>5. CASE Boot
  BY <1>1, <1>2, <1>5 DEF Boot, Starts
<1>6. CASE Crash
  BY <1>1, <1>6 DEF Crash, failVars
<1>7. CASE Garbled \/ Release \/ UNCHANGED vars
  BY <1>1, <1>7 DEF Garbled, Release, vars, failVars
<1> QED
  BY <1>1, <1>2, <1>3, <1>4, <1>5, <1>6, <1>7 DEF Next
-----------------------------------------------------------------------------
VirusLibStep ==
  \/ RemoveLibBackup \/ BackupVirusLibrary \/ DecompressVirusLib \/ StartAfterVirusLib
  \/ RemoveNewLib \/ RevertVirusLibrary \/ NoLibToRevert

(* upgrade_viruslib.sh only exchanges libraries, and goes back only from a *)
(* failure or a directory that is not there.                               *)
LEMMA VirusLibKeeps ==
  ASSUME TypeOK, pc = "idle" <=> scripts = << >>, VirusLibStep
  PROVE  /\ Job = "viruslib" /\ pc # "idle"
         /\ daemon_dir'.daemon = daemon_dir.daemon
         /\ daemon_dir'.version_file = daemon_dir.version_file
         /\ UNCHANGED <<backup_dir, release, downloaded, package, crashes>>
         /\ Job' # "daemon" /\ (pc' = "idle" <=> scripts' = << >>)
         /\ pc' # "decompress"
         /\ pc' \in {"revert", "restore"} => Fails \/ daemon_dir = NoDir \/ pc = "revert"
<1> USE DEF dirVars
<1>1. daemon_dir \in Dir
  BY DEF TypeOK
<1>2. ASSUME NEW place \in {"move", "download", "start", "revert", "restore"},
             At("viruslib", pc), Go(place), pc # "idle"
      PROVE  /\ Job = "viruslib" /\ Job' # "daemon" /\ (pc' = "idle" <=> scripts' = << >>)
             /\ pc' # "decompress" /\ UNCHANGED <<release, downloaded, crashes>>
  BY <1>2 DEF At, Go, Job
<1>3. ASSUME At("viruslib", pc), ScriptEnds
      PROVE  /\ Job = "viruslib" /\ Job' # "daemon" /\ (pc' = "idle" <=> scripts' = << >>)
             /\ pc' \in {"idle", "kill"} /\ UNCHANGED <<release, downloaded, crashes>>
  <2>1. Job = "viruslib" /\ scripts # << >>
    BY <1>3 DEF At, Job
  <2>2. /\ pc' \in {"idle", "kill"} /\ (pc' = "idle" <=> scripts' = << >>)
        /\ scripts' # << >> => Job' = "viruslib"
    BY <1>3, <2>1, ScriptEndsAt
  <2>3. scripts' = << >> => Job' = "none"
    BY DEF Job
  <2> QED
    BY <1>3, <2>1, <2>2, <2>3 DEF ScriptEnds
<1>4. CASE RemoveLibBackup
  BY <1>1, <1>2, <1>4 DEF RemoveLibBackup, At, Go, Dir
<1>5. CASE BackupVirusLibrary
  <2>1. At("viruslib", pc) /\ Go("download") /\ pc = "move" /\ UNCHANGED <<package, backup_dir>>
    BY <1>5 DEF BackupVirusLibrary, At
  <2>2. /\ daemon_dir'.daemon = daemon_dir.daemon
        /\ daemon_dir'.version_file = daemon_dir.version_file
    BY <1>1, <1>5 DEF BackupVirusLibrary, Dir
  <2> QED
    BY <1>2, <2>1, <2>2 DEF Go
<1>6. CASE DecompressVirusLib
  BY <1>1, <1>2, <1>6 DEF DecompressVirusLib, At, Go, Dir
<1>7. CASE StartAfterVirusLib
  <2>1. /\ At("viruslib", pc) /\ ScriptEnds /\ pc = "start"
        /\ UNCHANGED <<package, daemon_dir, backup_dir>>
    BY <1>7 DEF StartAfterVirusLib, At
  <2> QED
    BY <1>3, <2>1
<1>8. CASE RemoveNewLib
  BY <1>1, <1>2, <1>8 DEF RemoveNewLib, At, Go, Dir
<1>9. CASE RevertVirusLibrary
  <2>1. /\ At("viruslib", pc) /\ ScriptEnds /\ pc = "restore"
        /\ UNCHANGED <<package, backup_dir>>
    BY <1>9 DEF RevertVirusLibrary, At
  <2>2. /\ daemon_dir'.daemon = daemon_dir.daemon
        /\ daemon_dir'.version_file = daemon_dir.version_file
    BY <1>1, <1>9 DEF RevertVirusLibrary, Dir
  <2> QED
    BY <1>3, <2>1, <2>2
<1>10. CASE NoLibToRevert
  <2>1. /\ At("viruslib", pc) /\ ScriptEnds /\ pc = "revert"
        /\ UNCHANGED <<package, daemon_dir, backup_dir>>
    BY <1>10 DEF NoLibToRevert, At
  <2> QED
    BY <1>3, <2>1
<1> QED
  BY <1>4, <1>5, <1>6, <1>7, <1>8, <1>9, <1>10 DEF VirusLibStep
-----------------------------------------------------------------------------
(* A daemon that runs has read the version file beside it, which nobody    *)
(* changes before it is killed; and a script that is to run has a place.   *)
Running ==
  /\ pc = "idle" <=> scripts = << >>
  /\ daemon # NoFile => /\ pc \in {"idle", "kill"}
                       /\ Usable(daemon_dir) /\ daemon = daemon_dir.version_file

LEMMA RunningStep == ASSUME TypeOK, Running, [Next]_vars PROVE Running'
<1> USE DEF Running, dirVars
<1>1. ASSUME NEW request \in Requests, assign(request) PROVE Running'
  BY <1>1 DEF assign, Usable
<1>2. CASE Garbled
  BY <1>2 DEF Garbled
<1>3. CASE KillDaemonProcess
  BY <1>3 DEF KillDaemonProcess, Go
<1>4. ASSUME NEW s \in {"daemon", "viruslib"}, DownloadPackage(s) PROVE Running'
  BY <1>4 DEF DownloadPackage, Go, At
<1>5. CASE RemoveBackup \/ BackupDaemonDir \/ DecompressDaemon \/ CopyFiles
  <2>1. /\ scripts # << >> /\ pc \notin {"idle", "kill"} /\ UNCHANGED <<daemon, scripts>>
        /\ pc' # "idle"
    BY <1>5 DEF RemoveBackup, BackupDaemonDir, DecompressDaemon, CopyFiles, At, Go
  <2> QED
    BY <2>1
<1>6. ASSUME At(Job, pc), pc # "idle", Starts \/ StartFails, ScriptEnds, UNCHANGED dirVars
      PROVE  Running'
  <2>1. daemon' # NoFile => Usable(daemon_dir) /\ daemon' = daemon_dir.version_file
    BY <1>6 DEF Starts, StartFails
  <2>2. pc' \in {"idle", "kill"} /\ (pc' = "idle" <=> scripts' = << >>)
    BY <1>6, ScriptEndsAt DEF At
  <2>3. UNCHANGED <<daemon_dir, backup_dir>>
    BY <1>6
  <2>4. Usable(daemon_dir') <=> Usable(daemon_dir)
    BY <2>3
  <2> QED
    BY <2>1, <2>2, <2>3, <2>4
<1>7. CASE StartDaemonProcess
  <2>1. CASE Starts /\ ScriptEnds
    BY <1>6, <1>7, <2>1 DEF StartDaemonProcess, At, Job
  <2>2. CASE StartFails /\ Go("revert")
    BY <1>7, <2>2 DEF StartDaemonProcess, StartFails, At, Go
  <2> QED
    BY <1>7, <2>1, <2>2 DEF StartDaemonProcess
<1>8. CASE RevertRemove \/ RevertRestore
  <2>1. /\ scripts # << >> /\ pc \notin {"idle", "kill"} /\ UNCHANGED <<daemon, scripts>>
        /\ pc' # "idle"
    BY <1>8 DEF RevertRemove, RevertRestore, At, Go
  <2> QED
    BY <2>1
<1>9. CASE RevertDaemonProc
  BY <1>6, <1>9 DEF RevertDaemonProc, At, Job
<1>10. CASE StartAfterVirusLib
  BY <1>6, <1>10 DEF StartAfterVirusLib, At, Job
<1>11. CASE VirusLibStep /\ ~StartAfterVirusLib
  <2>1. pc' = "idle" <=> scripts' = << >>
    BY <1>11, VirusLibKeeps
  <2>2. pc \notin {"idle", "kill"} /\ UNCHANGED daemon
    BY <1>11
    DEF VirusLibStep, RemoveLibBackup, BackupVirusLibrary, DecompressVirusLib, RemoveNewLib,
        RevertVirusLibrary, NoLibToRevert, At
  <2> QED
    BY <2>1, <2>2
<1>12. CASE Release
  BY <1>12 DEF Release, Usable
<1>13. CASE Crash
  BY <1>13 DEF Crash
<1>14. CASE Boot
  BY <1>14 DEF Boot, Starts, Usable
<1>15. CASE UNCHANGED vars
  BY <1>15 DEF vars, Usable
<1> QED
  BY <1>1, <1>2, <1>3, <1>4, <1>5, <1>7, <1>8, <1>9, <1>10, <1>11, <1>12, <1>13, <1>14,
     <1>15 DEF Next, ScriptStep, VirusLibStep

(* While rm, mv and cp do their work, no step takes the last usable        *)
(* directory away, whatever else fails.                                    *)
LEMMA UnfailingStep ==
  ASSUME TypeOK, Running, Unfailing, [Next]_vars, unchecked' = unchecked
  PROVE  Unfailing'
<1> USE DEF Unfailing, AwayPlaces, dirVars
<1>0. ~FailsUnchecked /\ ~Usable(NoDir)
  BY Parts DEF FailsUnchecked, TypeOK
<1>1. ASSUME NEW request \in Requests, assign(request) PROVE Unfailing'
  <2>1. Usable(daemon_dir) /\ pc' \in {"idle", "kill"} /\ UNCHANGED <<daemon_dir, backup_dir>>
    BY <1>1 DEF assign, Running
  <2> QED
    BY <2>1 DEF Usable
<1>2. CASE Garbled
  BY <1>2 DEF Garbled, Usable, Running, Job
<1>3. CASE KillDaemonProcess
  BY <1>3 DEF KillDaemonProcess, Go, Usable, Job
<1>4. ASSUME NEW s \in {"daemon", "viruslib"}, DownloadPackage(s) PROVE Unfailing'
  BY <1>4 DEF DownloadPackage, Go, At, Usable, Job
<1>5. CASE RemoveBackup
  BY <1>0, <1>5 DEF RemoveBackup, Go, At, Usable, Job
<1>6. CASE BackupDaemonDir
  BY <1>0, <1>6 DEF BackupDaemonDir, Moved, Go, At, Usable, Job
<1>7. CASE DecompressDaemon
  <2>1. /\ Job = "daemon" /\ Job' = "daemon" /\ pc \in AwayPlaces /\ pc' \in {"copy", "revert"}
        /\ UNCHANGED backup_dir
    BY <1>7 DEF DecompressDaemon, Go, At, Job
  <2> QED
    BY <2>1
<1>8. CASE CopyFiles
  <2>1. /\ Job = "daemon" /\ Job' = "daemon" /\ pc \in AwayPlaces /\ pc' = "start"
        /\ UNCHANGED backup_dir
    BY <1>8 DEF CopyFiles, Go, At, Job
  <2> QED
    BY <2>1
<1>9. ASSUME Usable(daemon_dir), scripts # << >>, ScriptEnds, UNCHANGED dirVars
      PROVE  Unfailing'
  <2>1. pc' \in {"idle", "kill"} /\ UNCHANGED <<daemon_dir, backup_dir>>
    BY <1>9, ScriptEndsAt
  <2> QED
    BY <1>9, <2>1 DEF Usable
<1>10. CASE StartDaemonProcess
  <2>1. CASE Starts /\ ScriptEnds
    BY <1>9, <1>10, <2>1 DEF StartDaemonProcess, Starts, At
  <2>2. CASE StartFails /\ Go("revert")
    <3>1. /\ Job = "daemon" /\ Job' = "daemon" /\ pc \in AwayPlaces /\ pc' = "revert"
          /\ UNCHANGED <<daemon_dir, backup_dir>>
      BY <1>10, <2>2 DEF StartDaemonProcess, Go, At, Job
    <3> QED
      BY <3>1 DEF Usable
  <2> QED
    BY <1>10, <2>1, <2>2 DEF StartDaemonProcess
<1>11. CASE RevertRemove
  BY <1>0, <1>11 DEF RevertRemove, Go, At, Usable, Job
<1>12. CASE RevertRestore
  BY <1>0, <1>12 DEF RevertRestore, Moved, Go, At, Usable, Job
<1>13. CASE RevertDaemonProc
  <2>1. scripts # << >> /\ Usable(daemon_dir) /\ ScriptEnds /\ UNCHANGED dirVars
    BY <1>13 DEF RevertDaemonProc, At, Job
  <2> QED
    BY <1>9, <2>1
<1>14. CASE VirusLibStep
  <2>1. /\ Job = "viruslib" /\ Job' # "daemon" /\ pc # "idle"
        /\ daemon_dir'.daemon = daemon_dir.daemon
        /\ daemon_dir'.version_file = daemon_dir.version_file
    BY <1>14, VirusLibKeeps DEF Running
  <2>2. Usable(daemon_dir)
    BY <2>1
  <2>3. Usable(daemon_dir')
    BY <2>1, <2>2 DEF Usable
  <2> QED
    BY <2>1, <2>3
<1>15. CASE Release
  BY <1>15 DEF Release, Usable, Job
<1>16. CASE Crash
  <2>1. /\ pc' = "idle" /\ crashes' # 0 /\ Job' = "none" /\ UNCHANGED <<daemon_dir, backup_dir>>
    BY <1>16 DEF Crash, TypeOK, Job
  <2> QED
    BY <2>1 DEF Usable
<1>17. CASE Boot
  BY <1>17 DEF Boot, Starts, Usable, Job
<1>18. CASE UNCHANGED vars
  BY <1>18 DEF vars, Usable, Job
<1> QED
  BY <1>1, <1>2, <1>3, <1>4, <1>5, <1>6, <1>7, <1>8, <1>10, <1>11, <1>12, <1>13, <1>14,
     <1>15, <1>16, <1>17, <1>18 DEF Next, ScriptStep, VirusLibStep

(* When the first failure is that of a rm, mv or cp, and the only one, the *)
(* script either leaves the directory in its place and unpacks into it, or *)
(* has the backup to go back to.                                           *)
LEMMA FailingStep ==
  ASSUME TypeOK, Running, unchecked = 0 => Unfailing, Failing, OneFailure, [Next]_vars,
         OneFailure'
  PROVE  Failing'
<1> USE DEF Failing, dirVars
<1>0. /\ ~Fails /\ ~Usable(NoDir) /\ (FailsUnchecked => unchecked = 0 /\ unchecked' = 1)
      /\ unchecked = 1 => unchecked' = 1
  BY Parts, FailuresGrow DEF Fails, FailsUnchecked, OneFailure
<1>1. ASSUME NEW request \in Requests, assign(request) PROVE Failing'
  <2>1. Usable(daemon_dir) /\ pc' \in {"idle", "kill"} /\ UNCHANGED daemon_dir
    BY <1>1 DEF assign, Running
  <2>2. scripts' = ScriptsFor(request, downloaded') /\ (pc' # "idle" => scripts' # << >>)
    BY <1>1 DEF assign
  <2>3. pc' # "idle" => downloaded' # NoFile
    BY <2>2, ScriptsForType
  <2> QED
    BY <2>1, <2>3 DEF Usable
<1>2. CASE Garbled
  BY <1>2 DEF Garbled, Usable, Running, Job
<1>3. CASE KillDaemonProcess
  BY <1>3 DEF KillDaemonProcess, Go, Usable, Job
<1>4. ASSUME NEW s \in {"daemon", "viruslib"}, DownloadPackage(s) PROVE Failing'
  <2>1. release # NoFile
    BY Parts DEF TypeOK
  <2> QED
    BY <1>0, <1>4, <2>1 DEF DownloadPackage, Go, At, Usable, Job
<1>5. CASE RemoveBackup
  BY <1>0, <1>5 DEF RemoveBackup, Go, At, Usable, Job
<1>6. CASE BackupDaemonDir
  <2>1. Job' = "daemon" /\ pc' = "download" /\ UNCHANGED downloaded
    BY <1>6 DEF BackupDaemonDir, Go, At, Job
  <2>2. downloaded # NoFile
    BY <1>6 DEF BackupDaemonDir, At
  <2> QED
    BY <2>1, <2>2
<1>7. CASE DecompressDaemon
  <2>1. /\ Job' = "daemon" /\ pc' = "copy" /\ UNCHANGED downloaded
        /\ daemon_dir' = [daemon_dir EXCEPT !.daemon = package.daemon,
                            !.lib = IF LibInPackage THEN package.viruslib ELSE @]
        /\ package # NoFile /\ downloaded # NoFile
    BY <1>0, <1>7 DEF DecompressDaemon, Go, At, Job
  <2>2. package.daemon \in DaemonVersions
    BY <2>1, Parts DEF TypeOK
  <2>3. daemon_dir'.daemon = package.daemon
    BY <2>1 DEF TypeOK, Dir
  <2> QED
    BY <2>1, <2>2, <2>3
<1>8. CASE CopyFiles
  <2>1. /\ Job = "daemon" /\ Job' = "daemon" /\ pc = "copy" /\ pc' = "start"
        /\ UNCHANGED <<downloaded, backup_dir>>
    BY <1>8 DEF CopyFiles, Go, At, Job
  <2>2. downloaded # NoFile /\ daemon_dir.daemon \in DaemonVersions
    BY <2>1
  <2>3. CASE FailsUnchecked
    <3>1. unchecked' = 1 /\ Usable(backup_dir)
      BY <1>0, <2>1, <2>3 DEF Unfailing, AwayPlaces
    <3>2. Usable(backup_dir')
      BY <2>1, <3>1 DEF Usable
    <3> QED
      BY <2>1, <2>2, <3>1, <3>2
  <2>4. CASE daemon_dir' = [daemon_dir EXCEPT !.version_file = downloaded]
    <3>1. Usable(daemon_dir')
      BY <2>2, <2>4 DEF Usable, TypeOK, Dir
    <3> QED
      BY <2>1, <2>2, <3>1
  <2> QED
    BY <1>8, <2>3, <2>4 DEF CopyFiles
<1>9. ASSUME Usable(daemon_dir), scripts # << >>, downloaded # NoFile, ScriptEnds,
             UNCHANGED dirVars
      PROVE  Failing'
  <2>1. /\ pc' \in {"idle", "kill"} /\ UNCHANGED <<daemon_dir, backup_dir>>
        /\ UNCHANGED downloaded
    BY <1>9, ScriptEndsAt DEF ScriptEnds
  <2> QED
    BY <1>9, <2>1 DEF Usable
<1>10. CASE StartDaemonProcess
  <2>1. CASE Starts /\ ScriptEnds
    BY <1>9, <1>10, <2>1 DEF StartDaemonProcess, Starts, At
  <2>2. CASE StartFails /\ Go("revert")
    <3>1. ~Usable(daemon_dir) /\ Job = "daemon" /\ pc = "start"
      BY <1>0, <1>10, <2>2 DEF StartDaemonProcess, StartFails, At, Job
    <3>2. unchecked' = 1 /\ Usable(backup_dir)
      BY <1>0, <3>1
    <3>3. /\ Job' = "daemon" /\ pc' = "revert" /\ UNCHANGED <<downloaded, backup_dir>>
      BY <1>10, <2>2 DEF StartDaemonProcess, At, Go, Job
    <3>4. Usable(backup_dir')
      BY <3>2, <3>3 DEF Usable
    <3> QED
      BY <3>1, <3>2, <3>3, <3>4
  <2> QED
    BY <1>10, <2>1, <2>2 DEF StartDaemonProcess
<1>11. CASE RevertRemove
  <2>1. unchecked = 1 /\ Usable(backup_dir) /\ Job = "daemon" /\ pc = "revert"
    BY <1>11 DEF RevertRemove, At, Job
  <2>2. /\ daemon_dir' = NoDir /\ pc' = "restore" /\ Job' = "daemon"
        /\ UNCHANGED <<downloaded, backup_dir>> /\ downloaded # NoFile
    BY <1>0, <1>11, <2>1 DEF RevertRemove, Go, At, Job
  <2>3. Usable(backup_dir')
    BY <2>1, <2>2 DEF Usable
  <2> QED
    BY <1>0, <2>1, <2>2, <2>3
<1>12. CASE RevertRestore
  <2>1. /\ unchecked = 1 /\ Usable(backup_dir) /\ daemon_dir = NoDir
        /\ Job = "daemon" /\ pc = "restore"
    BY <1>12 DEF RevertRestore, At, Job
  <2>2. /\ daemon_dir' = backup_dir /\ pc' = "restart" /\ Job' = "daemon"
        /\ UNCHANGED downloaded /\ downloaded # NoFile
    BY <1>0, <1>12, <2>1 DEF RevertRestore, Moved, Go, At, Job
  <2>3. Usable(daemon_dir')
    BY <2>1, <2>2 DEF Usable
  <2> QED
    BY <2>2, <2>3
<1>13. CASE RevertDaemonProc
  <2>1. /\ scripts # << >> /\ Usable(daemon_dir) /\ ScriptEnds /\ UNCHANGED dirVars
        /\ downloaded # NoFile
    BY <1>13 DEF RevertDaemonProc, At, Job
  <2> QED
    BY <1>9, <2>1
<1>14. CASE VirusLibStep
  <2>1. /\ Job = "viruslib" /\ Job' # "daemon" /\ pc # "idle"
        /\ daemon_dir'.daemon = daemon_dir.daemon
        /\ daemon_dir'.version_file = daemon_dir.version_file
        /\ UNCHANGED downloaded /\ pc' # "decompress"
        /\ pc' \in {"revert", "restore"} => Fails \/ daemon_dir = NoDir \/ pc = "revert"
    BY <1>14, VirusLibKeeps DEF Running
  <2>2. Usable(daemon_dir) /\ pc # "revert" /\ downloaded # NoFile
    BY <2>1
  <2>3. Usable(daemon_dir')
    BY <2>1, <2>2 DEF Usable
  <2> QED
    BY <1>0, <2>1, <2>2, <2>3
<1>15. CASE Release
  BY <1>15 DEF Release, Usable, Job
<1>16. CASE Crash
  BY <1>16 DEF Crash, OneFailure
<1>17. CASE Boot
  BY <1>17 DEF Boot, Starts, Usable, Job
<1>18. CASE UNCHANGED vars
  <2>1. UNCHANGED <<downloaded, package, daemon_dir, backup_dir, scripts, pc, unchecked>>
    BY <1>18 DEF vars, failVars
  <2> QED
    BY <2>1 DEF Usable, Job
<1> QED
  BY <1>1, <1>2, <1>3, <1>4, <1>5, <1>6, <1>7, <1>8, <1>10, <1>11, <1>12, <1>13, <1>14,
     <1>15, <1>16, <1>17, <1>18 DEF Next, ScriptStep, VirusLibStep

LEMMA InstallationStep == ASSUME InstallationInv, [Next]_vars PROVE InstallationInv'
<1>1. TypeOK /\ TypeOK' /\ Running /\ Running'
  BY TypeStep, RunningStep DEF InstallationInv, Running
<1>2. unchecked' = 0 => unchecked = 0
  BY <1>1, FailuresGrow
<1>3. OneFailure' => OneFailure
  BY <1>1, FailuresGrow DEF OneFailure
<1>4. unchecked' = 0 => Unfailing'
  BY <1>1, <1>2, UnfailingStep DEF InstallationInv
<1>5. OneFailure' => Failing'
  BY <1>1, <1>3, FailingStep DEF InstallationInv
<1> QED
  BY <1>1, <1>4, <1>5 DEF InstallationInv, Running

(* The invariant of the installation.                                      *)
LEMMA InstallationInvHolds == Spec => []InstallationInv
  BY InstallationInit, InstallationStep, PTL DEF Spec

(* As long as rm, mv and cp do their work, an installation that can be     *)
(* started is left, however often the other commands fail and the machine  *)
(* goes down, in whatever place; and it is in its place when the scripts   *)
(* have ended without a crash, also if one rm, mv or cp is all that fails. *)
THEOREM InstallationSurvivesHolds == Spec => []InstallationSurvives
<1>1. InstallationInv => InstallationSurvives
  <2> SUFFICES ASSUME InstallationInv PROVE InstallationSurvives
    OBVIOUS
  <2>1. TypeOK /\ (unchecked = 0 => Usable(daemon_dir) \/ Usable(backup_dir))
    BY DEF InstallationInv, Unfailing
  <2>2. ASSUME Foreseen, crashes = 0, pc = "idle" PROVE Usable(daemon_dir)
    <3>1. CASE unchecked = 0
      BY <2>2, <3>1 DEF InstallationInv, Unfailing
    <3>2. CASE unchecked = 1 /\ faults = 0
      <4>1. OneFailure /\ Job # "daemon"
        BY <2>2, <3>2 DEF OneFailure, InstallationInv, Job
      <4> QED
        BY <4>1 DEF InstallationInv, Failing
    <3> QED
      BY <2>2, <3>1, <3>2 DEF Foreseen
  <2> QED
    BY <2>1, <2>2 DEF InstallationSurvives
<1> QED
  BY <1>1, InstallationInvHolds, PTL
-----------------------------------------------------------------------------
(* Where the library is, while the machine has not gone down: in the       *)
(* directory, but for the time in which a script has moved it away...      *)
HasLib(dir) == dir.lib \in LibVersions

LibUnfailing ==
  /\ pc \in {"idle", "kill", "backup", "move", "restart"} => HasLib(daemon_dir)
  /\ Job = "daemon" /\ pc \in AwayPlaces => HasLib(backup_dir)
  /\ Job = "daemon" /\ pc \in {"copy", "start"} => HasLib(daemon_dir)
  /\ Job = "viruslib" =>
       /\ pc = "move" => daemon_dir.lib_backup = NoLib
       /\ pc \in {"download", "decompress", "revert", "restore"}
            => daemon_dir.lib_backup \in LibVersions
       /\ pc = "restore" => daemon_dir.lib = NoLib
       /\ pc = "start" => HasLib(daemon_dir)

(* ...and if one rm, mv or cp failed, the package brings one.              *)
LibFailing ==
  /\ pc \in {"idle", "kill", "backup", "move", "restart", "copy", "start"}
       => HasLib(daemon_dir)
  /\ Job = "daemon" /\ pc = "start" /\ ~Usable(daemon_dir) => HasLib(backup_dir)
  /\ Job = "daemon" /\ pc \in {"revert", "restore"} => HasLib(backup_dir)

LibraryInv ==
  /\ pc = "decompress" => package # NoFile
  /\ unchecked = 0 => LibUnfailing
  /\ OneFailure => LibFailing

(* The first installation has its library.                                 *)
LEMMA LibraryInit == Init => LibraryInv
<1> SUFFICES ASSUME Init PROVE LibraryInv
  OBVIOUS
<1>1. PICK file \in VersionFile :
        daemon_dir = [daemon |-> file.daemon, lib |-> file.viruslib,
                      lib_backup |-> NoLib, version_file |-> file]
  BY DEF Init
<1>2. HasLib(daemon_dir)
  BY <1>1, Parts DEF HasLib
<1> QED
  BY <1>2 DEF Init, LibraryInv, LibUnfailing, LibFailing, Job

(* Only a download that has succeeded is decompressed.                     *)
LEMMA PackageStep ==
  ASSUME InstallationInv, LibraryInv, [Next]_vars
  PROVE  pc' = "decompress" => package' # NoFile
<1>0. TypeOK /\ Running
  BY DEF InstallationInv, Running
<1> SUFFICES ASSUME pc' = "decompress" PROVE package' # NoFile
  OBVIOUS
<1>1. release # NoFile
  BY <1>0, Parts DEF TypeOK
<1>2. ASSUME NEW s \in {"daemon", "viruslib"}, DownloadPackage(s) PROVE package' # NoFile
  BY <1>1, <1>2 DEF DownloadPackage, Go
<1>3. CASE \E request \in Requests : assign(request)
  BY <1>3 DEF assign
<1>4. CASE \/ KillDaemonProcess \/ RemoveBackup \/ BackupDaemonDir \/ DecompressDaemon
           \/ CopyFiles \/ RevertRemove \/ RevertRestore
  BY <1>4 DEF KillDaemonProcess, RemoveBackup, BackupDaemonDir, DecompressDaemon, CopyFiles,
              RevertRemove, RevertRestore, Go
<1>5. CASE StartDaemonProcess \/ RevertDaemonProc
  <2>1. pc' = "revert" \/ (ScriptEnds /\ scripts # << >>)
    BY <1>5 DEF StartDaemonProcess, RevertDaemonProc, At, Go
  <2> QED
    BY <1>0, <2>1, ScriptEndsAt
<1>6. CASE VirusLibStep
  BY <1>0, <1>6, VirusLibKeeps DEF Running
<1>7. CASE Garbled \/ Release \/ Crash \/ Boot \/ UNCHANGED vars
  BY <1>7 DEF Garbled, Release, Crash, Boot, vars, LibraryInv
<1> QED
  BY <1>2, <1>3, <1>4, <1>5, <1>6, <1>7 DEF Next, ScriptStep, VirusLibStep

(* While rm, mv and cp do their work, and but for a crash, every step      *)
(* leaves a library where it belongs, if the daemon's package contains one.*)
LEMMA LibUnfailingStep ==
  ASSUME LibInPackage, InstallationInv, LibraryInv, [Next]_vars, ~Crash,
         unchecked = 0, unchecked' = 0
  PROVE  LibUnfailing'
<1>0. TypeOK /\ TypeOK' /\ Running /\ ~FailsUnchecked /\ Unfailing /\ LibUnfailing
  BY TypeStep DEF InstallationInv, Running, FailsUnchecked, LibraryInv
<1>a. daemon_dir \in Dir /\ backup_dir \in Dir /\ (pc = "idle" <=> scripts = << >>)
  BY <1>0 DEF TypeOK, Running
<1> USE <1>0 DEF LibUnfailing, AwayPlaces, dirVars, HasLib
<1>1. ASSUME NEW request \in Requests, assign(request) PROVE LibUnfailing'
  <2>1. HasLib(daemon_dir) /\ pc' \in {"idle", "kill"} /\ UNCHANGED <<daemon_dir, backup_dir>>
    BY <1>1 DEF assign
  <2> QED
    BY <2>1
<1>2. CASE Garbled
  BY <1>2 DEF Garbled
<1>3. CASE KillDaemonProcess
  BY <1>3 DEF KillDaemonProcess, Go
<1>4. ASSUME NEW s \in {"daemon", "viruslib"}, DownloadPackage(s) PROVE LibUnfailing'
  BY <1>4 DEF DownloadPackage, Go, At, Job
<1>5. CASE RemoveBackup
  BY <1>5 DEF RemoveBackup, Go, At, Job
<1>6. CASE BackupDaemonDir
  <2>1. backup_dir = NoDir /\ HasLib(daemon_dir)
    BY <1>6 DEF BackupDaemonDir, Unfailing, At, Job
  <2>2. Job' = "daemon" /\ pc' = "download" /\ backup_dir' = daemon_dir
    BY <1>6, <2>1 DEF BackupDaemonDir, Moved, Go, At, Job
  <2> QED
    BY <2>1, <2>2
<1>7. CASE DecompressDaemon
  <2>1. /\ Job = "daemon" /\ Job' = "daemon" /\ pc = "decompress" /\ pc' \in {"copy", "revert"}
        /\ HasLib(backup_dir) /\ backup_dir' = backup_dir
    BY <1>7 DEF DecompressDaemon, Go, At, Job
  <2>2. pc' = "copy" => HasLib(daemon_dir')
    <3>1. package.viruslib \in LibVersions
      BY <2>1, Parts DEF LibraryInv, TypeOK
    <3> QED
      BY <1>7, <1>a, <3>1 DEF DecompressDaemon, Go, Dir
  <2> QED
    BY <2>1, <2>2
<1>8. CASE CopyFiles
  BY <1>8, <1>a DEF CopyFiles, Go, At, Job, Dir
<1>9. ASSUME HasLib(daemon_dir), scripts # << >>, ScriptEnds, UNCHANGED dirVars
      PROVE  LibUnfailing'
  <2>1. pc' \in {"idle", "kill"} /\ daemon_dir' = daemon_dir
    BY <1>9, ScriptEndsAt
  <2> QED
    BY <1>9, <2>1
<1>10. CASE StartDaemonProcess
  <2>1. Job = "daemon" /\ pc = "start" /\ scripts # << >> /\ UNCHANGED dirVars
    BY <1>10 DEF StartDaemonProcess, At, Job
  <2>2. HasLib(daemon_dir) /\ HasLib(backup_dir)
    BY <2>1
  <2>3. CASE ScriptEnds
    BY <1>9, <2>1, <2>2, <2>3
  <2>4. CASE Go("revert")
    BY <2>1, <2>2, <2>4 DEF Go, Job
  <2> QED
    BY <1>10, <2>3, <2>4 DEF StartDaemonProcess
<1>11. CASE RevertRemove
  BY <1>11 DEF RevertRemove, Go, At, Job
<1>12. CASE RevertRestore
  BY <1>12 DEF RevertRestore, Unfailing, Moved, Go, At, Job
<1>13. CASE RevertDaemonProc
  BY <1>9, <1>13 DEF RevertDaemonProc, At
<1>14. CASE RemoveLibBackup
  BY <1>14, <1>a DEF RemoveLibBackup, Go, At, Job, Dir
<1>15. CASE BackupVirusLibrary
  <2>1. daemon_dir.lib_backup = NoLib /\ HasLib(daemon_dir)
    BY <1>15 DEF BackupVirusLibrary, At, Job
  <2>2. daemon_dir' = [daemon_dir EXCEPT !.lib = NoLib, !.lib_backup = daemon_dir.lib]
    BY <1>15, <2>1 DEF BackupVirusLibrary, Moved
  <2>3. daemon_dir'.lib_backup = daemon_dir.lib
    BY <1>a, <2>2 DEF Dir
  <2>4. Job' = "viruslib" /\ pc' = "download"
    BY <1>15 DEF BackupVirusLibrary, Go, At, Job
  <2> QED
    BY <2>1, <2>3, <2>4
<1>16. CASE DecompressVirusLib
  <2>1. /\ Job = "viruslib" /\ Job' = "viruslib" /\ pc = "decompress"
        /\ pc' \in {"start", "revert"}
    BY <1>16 DEF DecompressVirusLib, Go, At, Job
  <2>2. daemon_dir.lib_backup \in LibVersions /\ package.viruslib \in LibVersions
    BY <2>1, Parts DEF LibraryInv, TypeOK
  <2>3. daemon_dir'.lib_backup = daemon_dir.lib_backup
    BY <1>16, <1>a DEF DecompressVirusLib, Dir
  <2>4. pc' = "start" => HasLib(daemon_dir')
    BY <1>16, <1>a, <2>2 DEF DecompressVirusLib, Go, Dir
  <2> QED
    BY <2>1, <2>2, <2>3, <2>4
<1>17. CASE StartAfterVirusLib
  <2>1. HasLib(daemon_dir) /\ scripts # << >>
    BY <1>17 DEF StartAfterVirusLib, At, Job
  <2>2. ScriptEnds /\ UNCHANGED dirVars
    BY <1>17 DEF StartAfterVirusLib
  <2> QED
    BY <1>9, <2>1, <2>2
<1>18. CASE RemoveNewLib
  <2>1. /\ Job' = "viruslib" /\ pc' = "restore" /\ daemon_dir.lib_backup \in LibVersions
        /\ daemon_dir' = [daemon_dir EXCEPT !.lib = NoLib]
    BY <1>18 DEF RemoveNewLib, Go, At, Job
  <2>2. daemon_dir'.lib = NoLib /\ daemon_dir'.lib_backup = daemon_dir.lib_backup
    BY <1>a, <2>1 DEF Dir
  <2> QED
    BY <2>1, <2>2
<1>19. CASE RevertVirusLibrary
  <2>1. /\ daemon_dir.lib_backup \in LibVersions /\ daemon_dir.lib = NoLib /\ scripts # << >>
        /\ ScriptEnds
    BY <1>19 DEF RevertVirusLibrary, At, Job
  <2>2. daemon_dir' = [daemon_dir EXCEPT !.lib_backup = NoLib, !.lib = daemon_dir.lib_backup]
    BY <1>19, <2>1 DEF RevertVirusLibrary, Moved
  <2>3. HasLib(daemon_dir')
    BY <1>a, <2>1, <2>2 DEF Dir
  <2>4. pc' \in {"idle", "kill"}
    BY <2>1, ScriptEndsAt
  <2> QED
    BY <2>3, <2>4
<1>20. CASE NoLibToRevert
  <2>1. Job = "viruslib" /\ pc = "revert" /\ daemon_dir.lib_backup = NoLib
    BY <1>20 DEF NoLibToRevert, At, Job
  <2> QED
    BY <2>1, UpgradeAssumption
<1>21. CASE Release
  BY <1>21 DEF Release, Job
<1>22. CASE Boot
  BY <1>22 DEF Boot
<1>23. CASE UNCHANGED vars
  BY <1>23 DEF vars, Job
<1> QED
  BY <1>1, <1>2, <1>3, <1>4, <1>5, <1>6, <1>7, <1>8, <1>10, <1>11, <1>12, <1>13, <1>14,
     <1>15, <1>16, <1>17, <1>18, <1>19, <1>20, <1>21, <1>22, <1>23 DEF Next, ScriptStep

(* ...and so it does where one rm, mv or cp is all that fails.             *)
LEMMA LibFailingStep ==
  ASSUME LibInPackage, InstallationInv, LibraryInv, [Next]_vars, ~Crash,
         OneFailure, OneFailure'
  PROVE  LibFailing'
<1>0. /\ TypeOK /\ TypeOK' /\ Running /\ Failing /\ LibFailing
      /\ unchecked = 0 => Unfailing /\ LibUnfailing
  BY TypeStep DEF InstallationInv, Running, LibraryInv
<1>a. daemon_dir \in Dir /\ backup_dir \in Dir /\ (pc = "idle" <=> scripts = << >>)
  BY <1>0 DEF TypeOK, Running
<1>b. ~Fails /\ (FailsUnchecked => unchecked = 0)
  BY <1>0, FailuresGrow DEF Fails, FailsUnchecked, OneFailure
<1> USE <1>0 DEF LibFailing, dirVars, HasLib
<1>1. ASSUME HasLib(daemon_dir'), Job' # "daemon" \/ pc' \notin {"start", "revert", "restore"}
      PROVE  LibFailing'
  BY <1>1
<1>2. ASSUME NEW request \in Requests, assign(request) PROVE LibFailing'
  BY <1>1, <1>2 DEF assign
<1>3. CASE Garbled
  BY <1>1, <1>3 DEF Garbled
<1>4. CASE KillDaemonProcess
  BY <1>1, <1>4 DEF KillDaemonProcess, Go
<1>5. ASSUME NEW s \in {"daemon", "viruslib"}, DownloadPackage(s) PROVE LibFailing'
  BY <1>b, <1>5 DEF DownloadPackage, Go
<1>6. CASE RemoveBackup
  BY <1>1, <1>6 DEF RemoveBackup, Go, At
<1>7. CASE BackupDaemonDir
  BY <1>7 DEF BackupDaemonDir, Go
<1>8. CASE DecompressDaemon
  <2>1. /\ daemon_dir' = [daemon_dir EXCEPT !.daemon = package.daemon,
                            !.lib = IF LibInPackage THEN package.viruslib ELSE @]
        /\ pc = "decompress" /\ pc' = "copy"
    BY <1>b, <1>8 DEF DecompressDaemon, Go, At
  <2>2. package.viruslib \in LibVersions
    BY <2>1, Parts DEF LibraryInv, TypeOK
  <2>3. HasLib(daemon_dir')
    BY <1>a, <2>1, <2>2 DEF Dir
  <2> QED
    BY <2>1, <2>3
<1>9. CASE CopyFiles
  <2>1. /\ Job = "daemon" /\ pc = "copy" /\ pc' = "start" /\ backup_dir' = backup_dir
        /\ downloaded # NoFile /\ daemon_dir.daemon \in DaemonVersions
    BY <1>9 DEF CopyFiles, Go, At, Job, Failing
  <2>2. HasLib(daemon_dir')
    BY <1>9, <1>a, <2>1 DEF CopyFiles, Dir
  <2>3. CASE FailsUnchecked
    BY <1>b, <2>1, <2>2, <2>3 DEF LibUnfailing, AwayPlaces
  <2>4. CASE daemon_dir' = [daemon_dir EXCEPT !.version_file = downloaded]
    <3>1. Usable(daemon_dir')
      BY <1>a, <2>1, <2>4 DEF Usable, Dir
    <3> QED
      BY <2>1, <2>2, <3>1
  <2> QED
    BY <1>9, <2>3, <2>4 DEF CopyFiles
<1>10. ASSUME HasLib(daemon_dir'), scripts # << >>, ScriptEnds
       PROVE  LibFailing'
  <2>1. pc' \in {"idle", "kill"}
    BY <1>10, ScriptEndsAt
  <2> QED
    BY <1>1, <1>10, <2>1
<1>11. CASE StartDaemonProcess
  <2>1. /\ Job = "daemon" /\ pc = "start" /\ scripts # << >>
        /\ daemon_dir' = daemon_dir /\ backup_dir' = backup_dir
    BY <1>11 DEF StartDaemonProcess, At, Job
  <2>2. CASE Starts /\ ScriptEnds
    BY <1>10, <2>1, <2>2
  <2>3. CASE StartFails /\ Go("revert")
    <3>1. ~Usable(daemon_dir) /\ pc' = "revert"
      BY <1>b, <2>3 DEF StartFails, Go
    <3> QED
      BY <2>1, <3>1
  <2> QED
    BY <1>11, <2>2, <2>3 DEF StartDaemonProcess
<1>12. CASE RevertRemove
  BY <1>12 DEF RevertRemove, Go, At, Job
<1>13. CASE RevertRestore
  <2>1. Job = "daemon" /\ pc = "restore" /\ pc' = "restart"
    BY <1>13 DEF RevertRestore, Go, At, Job
  <2>2. unchecked = 1 /\ daemon_dir = NoDir /\ HasLib(backup_dir)
    BY <2>1 DEF Failing
  <2>3. daemon_dir' = backup_dir
    BY <1>13, <1>b, <2>2 DEF RevertRestore, Moved
  <2> QED
    BY <1>1, <2>1, <2>2, <2>3
<1>14. CASE RevertDaemonProc
  BY <1>10, <1>14 DEF RevertDaemonProc, At
<1>15. ASSUME VirusLibStep
       PROVE  /\ Job = "viruslib" /\ Job' # "daemon" /\ Usable(daemon_dir)
              /\ pc \notin {"revert", "restore"}
  BY <1>15, VirusLibKeeps DEF Running, Failing
<1>16. CASE RemoveLibBackup
  BY <1>1, <1>15, <1>16, <1>a DEF VirusLibStep, RemoveLibBackup, Go, At, Dir
<1>17. CASE BackupVirusLibrary
  <2>1. Job' # "daemon" /\ pc' = "download"
    BY <1>15, <1>17 DEF VirusLibStep, BackupVirusLibrary, Go
  <2> QED
    BY <2>1
<1>18. CASE DecompressVirusLib
  <2>1. Usable(daemon_dir) /\ Job' # "daemon" /\ pc = "decompress"
    BY <1>15, <1>18 DEF VirusLibStep, DecompressVirusLib, At
  <2>2. daemon_dir # NoDir
    BY <2>1, Parts
  <2>3. daemon_dir' = [daemon_dir EXCEPT !.lib = package.viruslib]
    BY <1>18, <1>b, <2>2 DEF DecompressVirusLib
  <2>4. package.viruslib \in LibVersions
    BY <2>1, Parts DEF LibraryInv, TypeOK
  <2>5. HasLib(daemon_dir')
    BY <1>a, <2>3, <2>4 DEF Dir
  <2> QED
    BY <1>1, <2>1, <2>5
<1>19. CASE StartAfterVirusLib
  <2>1. HasLib(daemon_dir') /\ scripts # << >> /\ ScriptEnds
    BY <1>19 DEF StartAfterVirusLib, At
  <2> QED
    BY <1>10, <2>1
<1>20. CASE RemoveNewLib \/ RevertVirusLibrary \/ NoLibToRevert
  BY <1>15, <1>20 DEF VirusLibStep, RemoveNewLib, RevertVirusLibrary, NoLibToRevert, At
<1>21. CASE Release
  BY <1>1, <1>21 DEF Release
<1>22. CASE Boot
  BY <1>1, <1>22 DEF Boot
<1>23. CASE UNCHANGED vars
  <2>1. UNCHANGED <<daemon_dir, backup_dir, pc, scripts>>
    BY <1>23 DEF vars
  <2> QED
    BY <2>1 DEF Usable, Job
<1> QED
  BY <1>2, <1>3, <1>4, <1>5, <1>6, <1>7, <1>8, <1>9, <1>11, <1>12, <1>13, <1>14, <1>16,
     <1>17, <1>18, <1>19, <1>20, <1>21, <1>22, <1>23 DEF Next, ScriptStep

(* While the machine does not go down, every script that ends leaves a     *)
(* library, if the daemon's package contains one, whatever fails where rm, *)
(* mv and cp do their work, and also if one of those is all that fails.    *)
THEOREM LibrarySurvivesHolds == ASSUME LibInPackage PROVE Spec => []LibrarySurvives
<1> DEFINE I == InstallationInv /\ (crashes = 0 => LibraryInv)
<1>1. Init => I
  BY InstallationInit, LibraryInit
<1>2. I /\ [Next]_vars => I'
  <2> SUFFICES ASSUME I, [Next]_vars, crashes' = 0 PROVE LibraryInv'
    BY InstallationStep
  <2>1. crashes = 0 /\ (unchecked' = 0 => unchecked = 0) /\ (OneFailure' => OneFailure)
    BY FailuresGrow DEF InstallationInv, OneFailure
  <2>2. ~Crash
    BY <2>1 DEF Crash
  <2> QED
    BY <2>1, <2>2, PackageStep, LibUnfailingStep, LibFailingStep DEF LibraryInv
<1>3. I => LibrarySurvives
  <2> SUFFICES ASSUME I, Foreseen, crashes = 0, pc = "idle" PROVE HasLib(daemon_dir)
    BY DEF LibrarySurvives, HasLib
  <2>1. CASE unchecked = 0
    BY <2>1 DEF LibraryInv, LibUnfailing
  <2>2. CASE unchecked = 1 /\ faults = 0
    BY <2>2 DEF LibraryInv, LibFailing, OneFailure
  <2> QED
    BY <2>1, <2>2 DEF Foreseen
<1> QED
  BY <1>1, <1>2, <1>3, PTL DEF Spec
-----------------------------------------------------------------------------
(* A version has three tokens, which are numbers.                          *)
LEMMA TokensOf ==
  ASSUME NEW v \in DaemonVersions
  PROVE  Len(v) = 3 /\ \A i \in 1 .. 3 : v[i] \in Nat
<1>1. v \in Seq(Nat) /\ Len(v) = 3
  BY UpgradeAssumption
<1> QED
  BY <1>1, SMTT(30)

(* compare is the order of the versions: tok reads token i, as all have    *)
(* three.                                                                  *)
LEMMA CompareIsNewer ==
  ASSUME NEW v \in DaemonVersions, NEW w \in DaemonVersions
  PROVE  compare(v, w) <=> Newer(w, v)
<1>0. /\ Len(v) = 3 /\ \A i \in 1 .. 3 : v[i] \in Nat
      /\ Len(w) = 3 /\ \A i \in 1 .. 3 : w[i] \in Nat
  BY TokensOf
<1>1. \A i \in 1 .. 3 : tok(v, i) = v[i] /\ tok(w, i) = w[i] /\ v[i] \in Nat /\ w[i] \in Nat
  BY <1>0 DEF tok
<1> QED
  BY <1>1 DEF compare, Newer

(* Of two versions, at most one is the newer.                              *)
LEMMA NewerIsAsymmetric ==
  ASSUME NEW v \in DaemonVersions, NEW w \in DaemonVersions, Newer(v, w)
  PROVE  ~Newer(w, v)
<1>1. \A i \in 1 .. 3 : v[i] \in Nat /\ w[i] \in Nat
  BY TokensOf
<1>2. SUFFICES ASSUME Newer(w, v) PROVE FALSE
  OBVIOUS
<1>3. PICK i \in 1 .. 3 : v[i] > w[i] /\ \A j \in 1 .. i - 1 : v[j] = w[j]
  BY DEF Newer
<1>4. PICK k \in 1 .. 3 : w[k] > v[k] /\ \A j \in 1 .. k - 1 : w[j] = v[j]
  BY <1>2 DEF Newer
<1>5. i < k \/ i = k \/ k < i
  BY <1>3, <1>4
<1>6. CASE i < k
  BY <1>1, <1>3, <1>4, <1>6
<1>7. CASE k < i
  BY <1>1, <1>3, <1>4, <1>7
<1>8. CASE i = k
  BY <1>1, <1>3, <1>4, <1>8
<1> QED
  BY <1>5, <1>6, <1>7, <1>8

(* The versions, while nothing has failed: a version file is right about   *)
(* the daemon beside it, the daemon's script runs for a newer version, and *)
(* needs not go back.                                                      *)
Says(dir) == Usable(dir) => dir.version_file.daemon = dir.daemon

VersionInv ==
  /\ Says(daemon_dir) /\ Says(backup_dir)
  /\ pc # "idle" => downloaded = release
  /\ pc = "decompress" => package = release
  /\ Job = "daemon" =>
       /\ pc \in {"kill", "backup", "move"} => Newer(downloaded.daemon, daemon_dir.daemon)
       /\ pc \in {"download", "decompress", "copy", "start"}
            => Newer(downloaded.daemon, backup_dir.daemon)
       /\ pc \in {"download", "decompress", "copy"} => daemon_dir.version_file = NoFile
       /\ pc \in {"copy", "start"} => daemon_dir.daemon = downloaded.daemon
       /\ pc = "start" => daemon_dir.version_file = downloaded
       /\ pc \notin {"revert", "restore", "restart"}
  /\ Usable(daemon_dir) /\ Usable(backup_dir)
       => ~Newer(backup_dir.daemon, daemon_dir.daemon)

(* The version file tells the first installation.                          *)
LEMMA VersionInit == Init => VersionInv
<1> SUFFICES ASSUME Init PROVE VersionInv
  OBVIOUS
<1>1. PICK file \in VersionFile :
        daemon_dir = [daemon |-> file.daemon, lib |-> file.viruslib,
                      lib_backup |-> NoLib, version_file |-> file]
  BY DEF Init
<1>2. backup_dir = NoDir /\ pc = "idle" /\ scripts = << >>
  BY DEF Init
<1> QED
  BY <1>1, <1>2 DEF VersionInv, Job, Says, Usable, NoDir

(* Without a fault, only a newer version is installed.                     *)
LEMMA VersionStep ==
  ASSUME InstallationInv, VersionInv, [Next]_vars,
         faults + unchecked = 0, faults' + unchecked' = 0
  PROVE  VersionInv'
<1>0. TypeOK /\ TypeOK'
  BY TypeStep DEF InstallationInv
<1>a. daemon_dir \in Dir /\ backup_dir \in Dir /\ (pc = "idle" <=> scripts = << >>)
  BY DEF TypeOK, InstallationInv
<1>b. ~Fails /\ ~FailsUnchecked /\ unchecked = 0
  <2>1. faults = 0 /\ unchecked = 0 /\ faults' = 0 /\ unchecked' = 0
    BY FailuresGrow, <1>0
  <2> QED
    BY <2>1 DEF Fails, FailsUnchecked
<1>c. ~Usable(NoDir) /\ Says(NoDir) /\ NoDir.version_file = NoFile
  BY DEF NoDir, Usable, Says
<1>d. release.daemon \in DaemonVersions /\ release # NoFile /\ release.daemon # NoVersion
  BY <1>0, UpgradeAssumption DEF TypeOK, VersionFile, NoFile
<1>e. /\ Usable(daemon_dir) => daemon_dir.daemon \in DaemonVersions
      /\ Usable(backup_dir) => backup_dir.daemon \in DaemonVersions
  BY <1>a DEF Dir, Usable
<1> USE DEF VersionInv, dirVars
<1>1. ASSUME NEW request \in Requests, assign(request) PROVE VersionInv'
  <2>1. downloaded' = release /\ UNCHANGED <<release, daemon_dir, backup_dir>>
    BY <1>1, <1>b DEF assign
  <2>2. Usable(daemon_dir) /\ daemon = daemon_dir.version_file
    BY <1>1 DEF assign, InstallationInv
  <2>3. UpgradeDaemon(release) => Newer(release.daemon, daemon_dir.daemon)
    BY <1>d, <1>e, <2>2, CompareIsNewer DEF UpgradeDaemon, Says
  <2>4. Job' = "daemon" => UpgradeDaemon(release)
    BY <1>1, <2>1, ScriptsForType DEF assign, Job
  <2>5. pc' \in {"idle", "kill"}
    BY <1>1 DEF assign
  <2> QED
    BY <2>1, <2>3, <2>4, <2>5
<1>2. CASE Garbled
  BY <1>2 DEF Garbled, Job
<1>3. CASE KillDaemonProcess
  BY <1>3 DEF KillDaemonProcess, Go, Job
<1>4. ASSUME NEW s \in {"daemon", "viruslib"}, DownloadPackage(s) PROVE VersionInv'
  BY <1>4, <1>b DEF DownloadPackage, Go, At, Job
<1>5. CASE RemoveBackup
  BY <1>5, <1>b, <1>c DEF RemoveBackup, Go, At, Job
<1>6. CASE BackupDaemonDir
  <2>1. backup_dir = NoDir /\ Job = "daemon" /\ pc = "move"
    BY <1>6, <1>b DEF BackupDaemonDir, At, Job, InstallationInv, Unfailing
  <2>2. /\ daemon_dir' = NoDir /\ backup_dir' = daemon_dir /\ pc' = "download"
        /\ UNCHANGED <<release, downloaded, scripts>>
    BY <1>6, <1>b, <2>1 DEF BackupDaemonDir, Moved, Go
  <2>3. Newer(downloaded.daemon, daemon_dir.daemon)
    BY <2>1
  <2> QED
    BY <1>c, <2>1, <2>2, <2>3 DEF Job
<1>7. CASE DecompressDaemon
  <2>1. /\ daemon_dir'.daemon = release.daemon /\ daemon_dir'.version_file = NoFile
        /\ pc' = "copy" /\ UNCHANGED <<release, downloaded, scripts, backup_dir>>
    <3>1. /\ daemon_dir' = [daemon_dir EXCEPT !.daemon = package.daemon,
                              !.lib = IF LibInPackage THEN package.viruslib ELSE @]
          /\ Go("copy") /\ UNCHANGED backup_dir /\ pc = "decompress" /\ Job = "daemon"
      BY <1>7, <1>b DEF DecompressDaemon, At, Job
    <3>2. package = release /\ daemon_dir.version_file = NoFile
      BY <3>1
    <3> QED
      BY <1>a, <3>1, <3>2 DEF Go, Dir
  <2>2. downloaded = release /\ Newer(downloaded.daemon, backup_dir.daemon)
    BY <1>7 DEF DecompressDaemon, At, Job
  <2> QED
    BY <2>1, <2>2 DEF Says, Usable
<1>8. CASE CopyFiles
  <2>1. /\ daemon_dir'.daemon = daemon_dir.daemon /\ daemon_dir'.version_file = downloaded
        /\ pc' = "start" /\ UNCHANGED <<release, downloaded, scripts, backup_dir>>
    BY <1>8, <1>a, <1>b DEF CopyFiles, Go, Dir
  <2>2. /\ downloaded = release /\ Newer(downloaded.daemon, backup_dir.daemon)
        /\ daemon_dir.daemon = downloaded.daemon
    BY <1>8, <1>a DEF CopyFiles, At, Job
  <2>3. Usable(backup_dir) => ~Newer(backup_dir.daemon, downloaded.daemon)
    BY <1>d, <1>e, <2>2, NewerIsAsymmetric
  <2> QED
    BY <2>1, <2>2, <2>3 DEF Says, Usable
<1>9. CASE StartDaemonProcess
  <2>1. Usable(daemon_dir) /\ scripts # << >>
    BY <1>9, <1>a, <1>d DEF StartDaemonProcess, At, Job, Usable
  <2>2. ScriptEnds /\ UNCHANGED <<daemon_dir, backup_dir>>
    BY <1>9, <1>b, <2>1 DEF StartDaemonProcess, StartFails
  <2> QED
    BY <1>0, <1>9, <2>1, <2>2, ScriptEndsAt DEF StartDaemonProcess, At, ScriptEnds, Job
<1>10. CASE RevertRemove
  BY <1>10, <1>a DEF RevertRemove, At, Job
<1>11. CASE RevertRestore
  BY <1>11, <1>a DEF RevertRestore, At, Job
<1>12. CASE RevertDaemonProc
  BY <1>12, <1>a DEF RevertDaemonProc, At, Job
<1>13. CASE VirusLibStep
  <2>1. /\ Job' # "daemon" /\ pc # "idle" /\ pc' # "decompress"
        /\ UNCHANGED <<release, downloaded, package, backup_dir>>
        /\ daemon_dir'.daemon = daemon_dir.daemon
        /\ daemon_dir'.version_file = daemon_dir.version_file
    BY <1>0, <1>13, VirusLibKeeps DEF InstallationInv
  <2> QED
    BY <2>1 DEF Says, Usable
<1>14. CASE Release
  BY <1>14, <1>a DEF Release, Job
<1>15. CASE Crash
  BY <1>15 DEF Crash, Job
<1>16. CASE Boot
  BY <1>16 DEF Boot, Job
<1>17. CASE UNCHANGED vars
  BY <1>17 DEF vars, Job
<1> QED
  BY <1>1, <1>2, <1>3, <1>4, <1>5, <1>6, <1>7, <1>8, <1>9, <1>10, <1>11, <1>12, <1>13, <1>14,
     <1>15, <1>16, <1>17 DEF Next, ScriptStep, VirusLibStep

(* While no download and no command has failed, an upgrade never leaves a  *)
(* daemon older than the one it has put into the backup, for any releases  *)
(* and any crashes.                                                        *)
THEOREM NoDowngradeHolds == Spec => []NoDowngrade
<1> DEFINE I == InstallationInv /\ (faults + unchecked = 0 => VersionInv)
<1>1. Init => I
  BY InstallationInit, VersionInit
<1>2. I /\ [Next]_vars => I'
  <2> SUFFICES ASSUME I, [Next]_vars, faults' + unchecked' = 0 PROVE VersionInv'
    BY InstallationStep
  <2> QED
    <3>1. faults + unchecked = 0
      BY FailuresGrow DEF InstallationInv
    <3> QED
      BY <3>1, VersionStep
<1>3. I => NoDowngrade
  BY DEF VersionInv, NoDowngrade
<1> QED
  BY <1>1, <1>2, <1>3, PTL DEF Spec
=============================================================================
