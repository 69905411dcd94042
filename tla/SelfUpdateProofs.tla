-------------------------- MODULE SelfUpdateProofs --------------------------
(***************************************************************************)
(* Proofs about SelfUpdate, for every set of versions and every bound.     *)
(***************************************************************************)
EXTENDS SelfUpdate, TLAPS

\* Where the symlink points, given the marker and the step systemd is at; and
\* the revert target is always the version that staged the update, another one.
SymlinkInv ==
  /\ marker # NoMarker => marker.from = marker.prev /\ marker.prev # marker.to
  /\ marker.phase = "pending" => current \in {marker.prev, marker.to}
  /\ marker.phase = "reverting" /\ ~LateFailure => current = marker.prev
  /\ unit = "swappedIn" => marker.phase = "pending" /\ current = marker.to
  /\ unit = "swappedBack" =>
       marker.phase \in {"swapped", "revert_requested"} /\ current = marker.prev
  /\ unit = "clearing" => marker.phase \in {"swapped", "reverting"}

\* Only a serving daemon installs, never the version it runs, and what it is
\* about to stage is on disk.
InstallInv ==
  /\ unit # "serving" => \A c \in Callers : /\ installing[c] = NotInstalling
                                           /\ fetching[c] = "no"
  /\ \A c \in Callers :
       /\ installing[c] # NotInstalling /\ fetching[c] = "no"
            => installing[c] \in dirs
       /\ fetching[c] # "no" => installing[c] # NotInstalling
       /\ installing[c] # NotInstalling => installing[c] # current

\* Each start of the marked version is an attempt on record or a failed write or
\* swap, unless the preflight failed late.
BootsInv ==
  ~LateFailure =>
    /\ UnblessedBootsBounded
    /\ marker.phase = "pending" => boots <= diskFails
    /\ marker.phase = "swapped" => boots <= marker.attempts + diskFails

UpdateInv == /\ TypeOK /\ RevertTargetKept
             /\ SymlinkInv /\ InstallInv /\ BootsInv

\* A file with a phase is a whole UpdateMarker.
LEMMA MarkerKnown ==
  ASSUME TypeOK, marker.phase # "none"
  PROVE  marker \in Marker /\ marker # NoMarker
  BY DEF TypeOK, NoMarker

\* A failure of the disk leaves room for one start more.
LEMMA DiskFailsOnce ==
  ASSUME TypeOK, DiskFails
  PROVE  /\ diskFails' \in 0..MaxDiskFails
         /\ BootsInv /\ boots' = boots /\ marker' = marker => BootsInv'
  <1> USE LimitsAssumption DEF DiskFails
  <1>1. /\ diskFails \in Nat /\ diskFails' = diskFails + 1
        /\ diskFails' \in 0..MaxDiskFails /\ boots \in Nat
    BY DEF TypeOK
  <1>2. marker.phase = "swapped" => marker.attempts \in Nat
    BY MarkerKnown DEF Marker
  <1> QED BY <1>1, <1>2 DEF BootsInv, UnblessedBootsBounded

\* versionsToGC removes neither the current nor the previous version.
LEMMA GCProtects ==
  /\ GC \subseteq dirs
  /\ current \notin GC /\ marker.prev \notin GC
  BY DEF GC

\* The installation satisfies UpdateInv.
LEMMA InitUpdateInv == Init => UpdateInv
  <1> SUFFICES ASSUME Init PROVE UpdateInv
    OBVIOUS
  <1> USE VersionsAssumption, LimitsAssumption DEF Init, NoMarker, NotInstalling
  <1>1. TypeOK
    <2>1. boots \in 0..(MaxAttempts + MaxDiskFails + 1)
      OBVIOUS
    <2>2. diskFails \in 0..MaxDiskFails /\ crashes \in 0..MaxCrashes
      OBVIOUS
    <2>3. installing \in [Callers -> Versions \cup {NotInstalling}]
      OBVIOUS
    <2> QED BY <2>1, <2>2, <2>3 DEF TypeOK, Units
  <1>2. RevertTargetKept
    BY DEF RevertTargetKept
  <1>3. SymlinkInv /\ InstallInv /\ BootsInv
    BY DEF SymlinkInv, InstallInv, BootsInv, UnblessedBootsBounded
  <1> QED BY <1>1, <1>2, <1>3 DEF UpdateInv

\* The preflight keeps UpdateInv, step by step between its renames.
LEMMA PreflightKeepsUpdateInv == UpdateInv /\ Preflight => UpdateInv'
  <1> SUFFICES ASSUME UpdateInv, Preflight PROVE UpdateInv'
    OBVIOUS
  <1> USE LimitsAssumption
      DEF UpdateInv, TypeOK, RevertTargetKept, UnblessedBootsBounded,
          SymlinkInv, InstallInv, BootsInv, NoMarker, Marker, Units, disk,
          fetch, faults, StartDaemon, MaxBoots, Loops
  <1>1. CASE PreflightNothing
    BY <1>1 DEF PreflightNothing
  <1>2. CASE PreflightSwapIn
    BY <1>2 DEF PreflightSwapIn
  <1>3. CASE PreflightMarkSwapped
    <2>1. TypeOK'
      <3>1. marker \in Marker /\ 1 \in 0..MaxAttempts
        BY <1>3, MarkerKnown DEF PreflightMarkSwapped
      <3>2. marker' \in Marker
        BY <1>3, <3>1 DEF PreflightMarkSwapped
      <3>3. boots' \in 0..(MaxAttempts + MaxDiskFails + 1)
        BY <1>3 DEF PreflightMarkSwapped
      <3> QED BY <1>3, <3>2, <3>3 DEF PreflightMarkSwapped
    <2>2. RevertTargetKept'
      BY <1>3, MarkerKnown DEF PreflightMarkSwapped
    <2>4. SymlinkInv'
      BY <1>3, MarkerKnown DEF PreflightMarkSwapped
    <2>5. InstallInv'
      BY <1>3, MarkerKnown DEF PreflightMarkSwapped
    <2>6. BootsInv'
      BY <1>3, MarkerKnown DEF PreflightMarkSwapped
    <2> QED BY <2>1, <2>2, <2>4, <2>5, <2>6
  <1>4. CASE PreflightGivesUp
    BY <1>4 DEF PreflightGivesUp
  <1>5. CASE PreflightCount
    BY <1>5 DEF PreflightCount
  <1>6. CASE PreflightSwapBack
    BY <1>6 DEF PreflightSwapBack
  <1>7. CASE PreflightStuck
    <2>1. TypeOK'
      BY <1>7 DEF PreflightStuck, DiskFails
    <2>2. RevertTargetKept'
      BY <1>7 DEF PreflightStuck, DiskFails
    <2>4. SymlinkInv'
      BY <1>7 DEF PreflightStuck, DiskFails
    <2>5. InstallInv'
      BY <1>7 DEF PreflightStuck, DiskFails
    <2>6. BootsInv'
      BY <1>7, MarkerKnown DEF PreflightStuck, DiskFails
    <2> QED BY <2>1, <2>2, <2>4, <2>5, <2>6
  <1>8. CASE PreflightMarkReverting
    BY <1>8 DEF PreflightMarkReverting
  <1> QED BY <1>1, <1>2, <1>3, <1>4, <1>5, <1>6, <1>7, <1>8 DEF Preflight

\* The daemon's boot keeps UpdateInv.
LEMMA BootKeepsUpdateInv == UpdateInv /\ Boot => UpdateInv'
  <1> SUFFICES ASSUME UpdateInv, Boot PROVE UpdateInv'
    OBVIOUS
  <1> USE LimitsAssumption
      DEF UpdateInv, TypeOK, RevertTargetKept, UnblessedBootsBounded,
          SymlinkInv, InstallInv, BootsInv, NoMarker, Marker, Units, disk,
          fetch, faults, Running, Judging, Tell, Report
  <1>1. CASE BootCrashes
    <2>1. TypeOK'
      BY <1>1 DEF BootCrashes
    <2>2. RevertTargetKept'
      BY <1>1 DEF BootCrashes
    <2>4. SymlinkInv'
      BY <1>1 DEF BootCrashes
    <2>5. InstallInv'
      BY <1>1 DEF BootCrashes
    <2>6. BootsInv'
      BY <1>1 DEF BootCrashes
    <2> QED BY <2>1, <2>2, <2>4, <2>5, <2>6
  <1>2. CASE BootPasses
    BY <1>2 DEF BootPasses
  <1>3. CASE ReportReverted
    <2>1. TypeOK'
      BY <1>3, MarkerKnown DEF ReportReverted
    <2>2. RevertTargetKept'
      BY <1>3, MarkerKnown DEF ReportReverted
    <2>4. SymlinkInv'
      BY <1>3, MarkerKnown DEF ReportReverted
    <2>5. InstallInv'
      BY <1>3, MarkerKnown DEF ReportReverted
    <2>6. BootsInv'
      BY <1>3, MarkerKnown DEF ReportReverted
    <2> QED BY <2>1, <2>2, <2>4, <2>5, <2>6
  <1>4. CASE SwapFailed
    <2>1. TypeOK'
      BY <1>4, MarkerKnown DEF SwapFailed
    <2>2. RevertTargetKept'
      BY <1>4, MarkerKnown DEF SwapFailed
    <2>4. SymlinkInv'
      BY <1>4, MarkerKnown DEF SwapFailed
    <2>5. InstallInv'
      BY <1>4, MarkerKnown DEF SwapFailed
    <2>6. BootsInv'
      BY <1>4, MarkerKnown DEF SwapFailed
    <2> QED BY <2>1, <2>2, <2>4, <2>5, <2>6
  <1>5. CASE Bless
    <2>1. TypeOK'
      BY <1>5, MarkerKnown, GCProtects DEF Bless, Collect
    <2>2. RevertTargetKept'
      BY <1>5, MarkerKnown, GCProtects DEF Bless, Collect
    <2>4. SymlinkInv'
      BY <1>5, MarkerKnown, GCProtects DEF Bless, Collect
    <2>5. InstallInv'
      BY <1>5, MarkerKnown, GCProtects DEF Bless, Collect
    <2>6. BootsInv'
      BY <1>5, MarkerKnown, GCProtects DEF Bless, Collect
    <2> QED BY <2>1, <2>2, <2>4, <2>5, <2>6
  <1>6. CASE RequestRevert
    <2>1. TypeOK'
      BY <1>6, MarkerKnown DEF RequestRevert
    <2>2. RevertTargetKept'
      BY <1>6, MarkerKnown DEF RequestRevert
    <2>4. SymlinkInv'
      BY <1>6, MarkerKnown DEF RequestRevert
    <2>5. InstallInv'
      BY <1>6, MarkerKnown DEF RequestRevert
    <2>6. BootsInv'
      BY <1>6, MarkerKnown DEF RequestRevert
    <2> QED BY <2>1, <2>2, <2>4, <2>5, <2>6
  <1>7. CASE ClearMarker
    BY <1>7 DEF ClearMarker
  <1>8. CASE RevertNotWritten \/ MarkerNotCleared
    <2>0. /\ UNCHANGED <<disk, fetch, restartDue, report, blessed, boots, crashes>>
          /\ \/ unit = "booting" /\ unit' = "stopped"
             \/ unit = "clearing" /\ unit' = "serving"
          /\ DiskFails
      BY <1>8 DEF RevertNotWritten, MarkerNotCleared, DiskFails
    <2>1. diskFails' \in 0..MaxDiskFails /\ BootsInv'
      BY <2>0, DiskFailsOnce
    <2>2. TypeOK'
      BY <2>0, <2>1
    <2>3. RevertTargetKept'
      BY <2>0
    <2>4. SymlinkInv'
      BY <2>0
    <2>5. InstallInv'
      BY <2>0
    <2> QED BY <2>1, <2>2, <2>3, <2>4, <2>5
  <1> QED BY <1>1, <1>2, <1>3, <1>4, <1>5, <1>6, <1>7, <1>8 DEF Boot

\* Staging, restarts and crashes keep UpdateInv.
LEMMA OthersKeepUpdateInv ==
  /\ UpdateInv
  /\ \/ Install \/ Restart \/ RestartFails \/ Crash \/ CollectionCut
     \/ UNCHANGED vars
  => UpdateInv'
  <1> SUFFICES ASSUME UpdateInv,
                      \/ Install \/ Restart \/ RestartFails \/ Crash
                      \/ CollectionCut \/ UNCHANGED vars
               PROVE  UpdateInv'
    OBVIOUS
  <1> USE VersionsAssumption, LimitsAssumption
      DEF UpdateInv, TypeOK, RevertTargetKept, UnblessedBootsBounded,
          SymlinkInv, InstallInv, BootsInv, NoMarker, Marker, Units, disk,
          fetch, faults, Running, NotInstalling, Down
  <1>1. ASSUME NEW c \in Callers, NEW v \in Versions, BeginInstall(c, v)
        PROVE  UpdateInv'
    <2>1. v \in dirs \/ v # NotInstalling
      BY <1>1 DEF BeginInstall, Offered, Newest
    <2>2. /\ installing' = [installing EXCEPT ![c] = v]
          /\ v \in dirs => fetching' = [fetching EXCEPT ![c] = "no"]
          /\ v \notin dirs => fetching' = [fetching EXCEPT ![c] = "downloading"]
      BY <1>1 DEF BeginInstall
    <2>0. v # current
      BY <1>1 DEF BeginInstall, Offered, Newest
    <2>3. InstallInv'
      <3>1. /\ UNCHANGED <<unit, dirs, current>> /\ unit = "serving"
            /\ \A d \in Callers \ {c} : /\ installing'[d] = installing[d]
                                       /\ fetching'[d] = fetching[d]
            /\ installing'[c] = v
            /\ fetching'[c] = IF v \in dirs THEN "no" ELSE "downloading"
        BY <1>1 DEF BeginInstall
      <3> QED BY <2>0, <2>1, <3>1
    <2>4. TypeOK'
      BY <1>1, <2>2 DEF BeginInstall
    <2> QED BY <1>1, <2>3, <2>4 DEF BeginInstall
  <1>2. ASSUME NEW c \in Callers, NEW known \in BOOLEAN, Stage(c, known)
        PROVE  UpdateInv'
    BY <1>2 DEF Stage, StageMarker
  <1>3. CASE Restart
    BY <1>3 DEF Restart
  <1>4. CASE RestartFails
    BY <1>4 DEF RestartFails
  <1>5. CASE Crash
    <2>1. TypeOK'
      <3>1. crashes' \in 0..MaxCrashes
        BY <1>5 DEF Crash
      <3>2. installing' \in [Callers -> Versions \cup {NotInstalling}]
        BY <1>5 DEF Crash
      <3> QED BY <1>5, <3>1, <3>2 DEF Crash
    <2>2. RevertTargetKept'
      BY <1>5 DEF Crash
    <2>4. SymlinkInv'
      BY <1>5 DEF Crash
    <2>5. InstallInv'
      BY <1>5 DEF Crash
    <2>6. BootsInv'
      BY <1>5 DEF Crash
    <2> QED BY <2>1, <2>2, <2>4, <2>5, <2>6
  <1>6. CASE UNCHANGED vars
    BY <1>6 DEF vars
  <1>7. ASSUME NEW c \in Callers, CancelInstall(c) PROVE UpdateInv'
    BY <1>7 DEF CancelInstall
  <1>8. ASSUME NEW c \in Callers, MakeStaging(c) PROVE UpdateInv'
    BY <1>8 DEF MakeStaging
  <1>9. ASSUME NEW c \in Callers, RenameStaged(c) PROVE UpdateInv'
    <2>1. TypeOK'
      <3>1. /\ dirs' = dirs \cup {installing[c]} /\ installing[c] \in Versions
            /\ partial' \subseteq partial \cup {installing[c]}
        BY <1>9 DEF RenameStaged
      <3>2. /\ maker' \in [Versions -> Callers \cup {Nobody}]
            /\ fetching' \in [Callers -> {"no", "downloading", "staging"}]
        BY <1>9 DEF RenameStaged
      <3>3. UNCHANGED <<marker, current, installing, unit, restartDue, report,
                        blessed, boots, faults>>
        BY <1>9 DEF RenameStaged
      <3> QED BY <3>1, <3>2, <3>3
    <2>2. RevertTargetKept'
      BY <1>9 DEF RenameStaged
    <2>4. SymlinkInv'
      BY <1>9 DEF RenameStaged
    <2>5. InstallInv'
      BY <1>9 DEF RenameStaged
    <2>6. BootsInv'
      BY <1>9 DEF RenameStaged
    <2> QED BY <2>1, <2>2, <2>4, <2>5, <2>6
  <1>10. ASSUME NEW c \in Callers, FetchFails(c) PROVE UpdateInv'
    <2>1. TypeOK'
      BY <1>10 DEF FetchFails
    <2>2. RevertTargetKept'
      BY <1>10 DEF FetchFails
    <2>4. SymlinkInv'
      BY <1>10 DEF FetchFails
    <2>5. InstallInv'
      BY <1>10 DEF FetchFails
    <2>6. BootsInv'
      BY <1>10 DEF FetchFails
    <2> QED BY <2>1, <2>2, <2>4, <2>5, <2>6
  <1>11. CASE CollectionCut
    <2> USE <1>11, MarkerKnown, GCProtects DEF CollectionCut, Collect, Judging
    <2>1. TypeOK'
      <3>1. crashes' \in 0..MaxCrashes
        OBVIOUS
      <3>2. installing' \in [Callers -> Versions \cup {NotInstalling}]
        OBVIOUS
      <3>3. dirs' \subseteq Versions /\ partial' \subseteq dirs'
        OBVIOUS
      <3> QED BY <3>1, <3>2, <3>3
    <2>2. RevertTargetKept'
      OBVIOUS
    <2>4. SymlinkInv'
      OBVIOUS
    <2>5. InstallInv'
      OBVIOUS
    <2>6. BootsInv'
      OBVIOUS
    <2> QED BY <2>1, <2>2, <2>4, <2>5, <2>6
  <1> HIDE DEF UpdateInv
  <1> QED BY <1>1, <1>2, <1>3, <1>4, <1>5, <1>6, <1>7, <1>8, <1>9, <1>10, <1>11
          DEF Install

\* UpdateInv holds in every reachable state.
THEOREM UpdateInvariance == Spec => []UpdateInv
  <1>1. UpdateInv /\ [Next]_vars => UpdateInv'
    BY PreflightKeepsUpdateInv, BootKeepsUpdateInv, OthersKeepUpdateInv
    DEF Next
  <1> QED BY InitUpdateInv, <1>1, PTL DEF Spec

\* TypeOK of the directories, the marker, the pending install and the process.
THEOREM UpdateTypeCorrect == Spec => []TypeOK
  <1>1. UpdateInv => TypeOK
    BY DEF UpdateInv
  <1> QED BY UpdateInvariance, <1>1, PTL

\* RevertTargetKept: there is always a directory to go back to, whatever
\* crashes, fails or is staged on top.
THEOREM WayBack == Spec => []RevertTargetKept
  <1>1. UpdateInv => RevertTargetKept
    BY DEF UpdateInv
  <1> QED BY UpdateInvariance, <1>1, PTL

\* UnblessedBootsBounded: unless the preflight fails after the symlink is swapped
\* and writes "reverting" all the same, every start of the version on trial is one
\* of MaxAttempts or follows a write or a swap that failed, whatever crashes.
THEOREM CrashLoopEnds ==
  ASSUME ~LateFailure
  PROVE  Spec => []UnblessedBootsBounded
  <1>1. UpdateInv => UnblessedBootsBounded
    BY DEF UpdateInv, BootsInv
  <1> QED BY UpdateInvariance, <1>1, PTL

\* ReportsAreTrue: unless the preflight fails after the symlink is swapped, what
\* blessOrRevertUpdate tells the owner is so.
THEOREM TrueReports ==
  ASSUME ~LateFailure
  PROVE  Spec => ReportsAreTrue
  <1>1. UpdateInv /\ [Next]_vars =>
          [report' # report =>
             CASE report'.kind = "updated"     -> Running = report'.to
               [] report'.kind = "rolled back" -> Running = report'.from
               [] report'.kind = "no effect"   -> Running # report'.to]_vars
    <2> SUFFICES ASSUME UpdateInv, [Next]_vars, report' # report
                 PROVE  CASE report'.kind = "updated"     -> Running = report'.to
                          [] report'.kind = "rolled back" -> Running = report'.from
                          [] report'.kind = "no effect"   -> Running # report'.to
      OBVIOUS
    <2>1. ReportReverted \/ SwapFailed \/ Bless
      BY DEF vars, Next, Preflight, Boot, Install, Restart, RestartFails, Crash,
             PreflightNothing, PreflightSwapIn, PreflightMarkSwapped,
             PreflightGivesUp, PreflightCount, PreflightSwapBack,
             PreflightStuck, PreflightMarkReverting, BootCrashes, BootPasses,
             RequestRevert, RevertNotWritten, ClearMarker, MarkerNotCleared,
             CollectionCut, DiskFails, BeginInstall, MakeStaging,
             RenameStaged, FetchFails, Stage, CancelInstall, disk
    <2>2. CASE ReportReverted
      BY <2>2, MarkerKnown
      DEF ReportReverted, Tell, UpdateInv, SymlinkInv, Running
    <2>3. CASE SwapFailed
      BY <2>3 DEF SwapFailed, Judging, Tell
    <2>4. CASE Bless
      BY <2>4 DEF Bless, Judging, Tell
    <2> QED BY <2>1, <2>2, <2>3, <2>4
  <1> QED BY UpdateInvariance, <1>1, PTL DEF Spec, ReportsAreTrue

-----------------------------------------------------------------------------
(* What stays in service, where the preflight, the restart and the swap     *)
(* back do what they are asked.                                             *)

\* A revert target is blessed; the symlink names it or the version on trial; a
\* serving daemon runs what is blessed, at most with an update staged on top.
BlessedInv ==
  /\ marker = NoMarker => Running \in blessed
  /\ marker # NoMarker => /\ marker.prev \in blessed
                          /\ Running \in {marker.prev, marker.to}
  /\ unit = "serving" => \/ marker = NoMarker
                         \/ marker.phase = "pending" /\ Running = marker.prev
  /\ unit = "booting" => marker.phase \notin {"pending", "revert_requested"}
  /\ unit = "clearing" => Running \in blessed

\* Every step keeps BlessedInv.
LEMMA NextKeepsBlessedInv ==
  ASSUME ~LateFailure, ~RestartMayFail, MaxDiskFails = 0,
         UpdateInv, BlessedInv, [Next]_vars
  PROVE  BlessedInv'
  <1> USE DEF BlessedInv, Running, disk, fetch, faults, NoMarker
  <1>1. ~PreflightStuck /\ ~RevertNotWritten /\ ~MarkerNotCleared
    BY DEF PreflightStuck, RevertNotWritten, MarkerNotCleared, DiskFails,
           UpdateInv, TypeOK
  <1>2. CASE Preflight
    <2> USE MarkerKnown
        DEF UpdateInv, SymlinkInv, StartDaemon, Marker
    <2>1. CASE PreflightNothing
      BY <2>1 DEF PreflightNothing
    <2>2. CASE PreflightSwapIn
      BY <2>2 DEF PreflightSwapIn
    <2>3. CASE PreflightMarkSwapped
      BY <2>3 DEF PreflightMarkSwapped
    <2>4. CASE PreflightGivesUp
      BY <2>4 DEF PreflightGivesUp
    <2>5. CASE PreflightCount
      BY <2>5 DEF PreflightCount
    <2>6. CASE PreflightSwapBack
      BY <2>6 DEF PreflightSwapBack, Loops
    <2>7. CASE PreflightMarkReverting
      BY <2>7 DEF PreflightMarkReverting
    <2> QED
      BY <1>1, <1>2, <2>1, <2>2, <2>3, <2>4, <2>5, <2>6, <2>7 DEF Preflight
  <1>3. CASE Boot
    <2> USE MarkerKnown DEF UpdateInv, SymlinkInv, Marker, Judging
    <2>1. CASE BootCrashes \/ BootPasses
      <3>1. marker.phase = "none" => marker = NoMarker
        BY DEF TypeOK
      <3> QED BY <2>1, <3>1 DEF BootCrashes, BootPasses
    <2>2. CASE ReportReverted
      BY <2>2 DEF ReportReverted
    <2>3. CASE SwapFailed \/ Bless
      BY <2>3 DEF SwapFailed, Bless
    <2>4. CASE RequestRevert
      BY <2>4 DEF RequestRevert
    <2>5. CASE ClearMarker
      BY <2>5 DEF ClearMarker
    <2> QED BY <1>1, <1>3, <2>1, <2>2, <2>3, <2>4, <2>5 DEF Boot
  <1>4. CASE Install
    BY <1>4
    DEF Install, BeginInstall, MakeStaging, RenameStaged, FetchFails, Stage,
        StageMarker, CancelInstall
  <1>5. CASE \/ Restart \/ RestartFails \/ Crash \/ CollectionCut
             \/ UNCHANGED vars
    BY <1>5 DEF Restart, RestartFails, Crash, CollectionCut, Down, vars
  <1> QED BY <1>2, <1>3, <1>4, <1>5 DEF Next

\* ServesOnlyBlessed: unless the preflight fails late, `systemctl restart` fails,
\* or a swap or a write of the marker does, no version stays in service that was
\* not judged.
THEOREM OnlyBlessedServe ==
  ASSUME ~LateFailure, ~RestartMayFail, MaxDiskFails = 0
  PROVE  Spec => []ServesOnlyBlessed
  <1>1. Init => BlessedInv
    BY DEF Init, BlessedInv, Running, NoMarker
  <1>2. UpdateInv /\ BlessedInv /\ [Next]_vars => BlessedInv'
    BY NextKeepsBlessedInv
  <1>3. BlessedInv => ServesOnlyBlessed
    BY DEF BlessedInv, ServesOnlyBlessed
  <1> QED BY UpdateInvariance, <1>1, <1>2, <1>3, PTL DEF Spec

-----------------------------------------------------------------------------
(* The refinement of VersionTrial.                                         *)

\* A step that leaves what VersionTrial sees, but that the daemon may stop.
LEMMA QuietStep ==
  ASSUME blessed' = blessed,
         \/ marker' = marker /\ (marker = NoMarker => current' = current)
         \/ /\ marker # NoMarker /\ marker' # NoMarker
            /\ marker'.prev = marker.prev /\ marker'.to = marker.to,
         \/ unit' # "serving"
         \/ unit' = unit /\ current' = current
  PROVE  [Trial!Next]_(Trial!vars)
  <1>1. CASE unit' # "serving"
    <2>1. Trial!Stop
      BY <1>1 DEF Trial!Stop
    <2> QED BY <2>1 DEF Trial!Next
  <1>2. CASE unit' = unit /\ current' = current
    BY <1>2 DEF Trial!vars
  <1> QED BY <1>1, <1>2

LEMMA TrialSimulation ==
  ASSUME ~LateFailure, ~RestartMayFail, MaxDiskFails = 0,
         UpdateInv, BlessedInv, BlessedInv', [Next]_vars
  PROVE  [Trial!Next]_(Trial!vars)
  <1> USE DEF disk, fetch, faults
  <1>0. marker.phase # "none" => marker \in Marker /\ marker # NoMarker
    BY MarkerKnown DEF UpdateInv
  <1>1. CASE Preflight
    <2>1. /\ unit' # "serving" /\ blessed' = blessed
      BY <1>1 DEF Preflight, PreflightNothing, PreflightSwapIn,
                  PreflightMarkSwapped, PreflightGivesUp, PreflightCount,
                  PreflightSwapBack, PreflightStuck, PreflightMarkReverting,
                  StartDaemon
    <2>2. CASE \/ PreflightNothing \/ PreflightSwapIn \/ PreflightSwapBack
               \/ PreflightStuck
      <3>1. marker' = marker /\ (marker = NoMarker => current' = current)
        BY <2>2 DEF PreflightNothing, PreflightSwapIn, PreflightSwapBack,
                    PreflightStuck, Loops, NoMarker
      <3> QED BY <2>1, <3>1, QuietStep
    <2>3. CASE \/ PreflightMarkSwapped \/ PreflightGivesUp \/ PreflightCount
               \/ PreflightMarkReverting
      <3>1. marker.phase # "none"
        BY <2>3 DEF PreflightMarkSwapped, PreflightGivesUp, PreflightCount,
                    PreflightMarkReverting, UpdateInv, SymlinkInv
      <3>2. marker'.prev = marker.prev /\ marker'.to = marker.to
            /\ marker'.phase # "none"
        BY <1>0, <2>3, <3>1
        DEF PreflightMarkSwapped, PreflightGivesUp, PreflightCount,
            PreflightMarkReverting, Marker
      <3>3. marker' # NoMarker
        BY <3>2 DEF NoMarker
      <3> QED BY <1>0, <2>1, <3>1, <3>2, <3>3, QuietStep
    <2> QED BY <1>1, <2>2, <2>3 DEF Preflight
  <1>2. CASE Boot
    <2>0. ~RevertNotWritten /\ ~MarkerNotCleared
      BY DEF RevertNotWritten, MarkerNotCleared, DiskFails, UpdateInv, TypeOK
    <2>1. CASE BootCrashes \/ ReportReverted \/ SwapFailed
      <3>1. /\ unit' # "serving" /\ blessed' = blessed
            /\ marker' = marker /\ current' = current
        BY <2>1 DEF BootCrashes, ReportReverted, SwapFailed
      <3> QED BY <3>1, QuietStep
    <2>2. CASE BootPasses
      <3>1. /\ unit = "booting" /\ unit' = "serving" /\ blessed' = blessed
            /\ marker' = marker /\ current' = current
            /\ marker.phase \in {"none", "pending", "revert_requested"}
        BY <2>2 DEF BootPasses
      <3>2. marker = NoMarker
        BY <3>1 DEF BlessedInv, UpdateInv, TypeOK, Marker
      <3>3. Trial!Resume
        BY <3>1, <3>2 DEF Trial!Resume
      <3> QED BY <3>3 DEF Trial!Next
    <2>3. CASE Bless
      <3>1. /\ unit = "booting" /\ unit' = "clearing" /\ current = marker.to
            /\ blessed' = blessed \cup {current}
            /\ marker' = marker /\ current' = current /\ marker.phase = "swapped"
        BY <2>3 DEF Bless, Judging, Running
      <3>2. marker # NoMarker
        BY <1>0, <3>1
      <3>3. Trial!Pass
        BY <3>1, <3>2 DEF Trial!Pass
      <3> QED BY <3>3 DEF Trial!Next
    <2>4. CASE RequestRevert
      <3>1. /\ unit' # "serving" /\ blessed' = blessed
            /\ marker.phase = "swapped"
            /\ marker' = [marker EXCEPT !.phase = "revert_requested"]
        BY <2>4 DEF RequestRevert, Judging
      <3>2. /\ marker # NoMarker
            /\ marker'.prev = marker.prev /\ marker'.to = marker.to
            /\ marker'.phase # "none"
        BY <1>0, <3>1 DEF Marker
      <3>3. marker' # NoMarker
        BY <3>2 DEF NoMarker
      <3> QED BY <3>1, <3>2, <3>3, QuietStep
    <2>5. CASE ClearMarker
      <3>1. /\ unit = "clearing" /\ unit' = "serving" /\ marker' = NoMarker
            /\ current' = current /\ blessed' = blessed
        BY <2>5 DEF ClearMarker
      <3>2. marker.phase # "none"
        BY <3>1 DEF UpdateInv, SymlinkInv
      <3>3. marker # NoMarker
        BY <1>0, <3>2
      <3>4. current \in {marker.prev, marker.to} /\ current \in blessed
        BY <3>1, <3>3 DEF BlessedInv, Running
      <3>5. Trial!Settle
        BY <3>1, <3>3, <3>4 DEF Trial!Settle
      <3> QED BY <3>5 DEF Trial!Next
    <2> QED BY <1>2, <2>0, <2>1, <2>2, <2>3, <2>4, <2>5 DEF Boot
  <1>3. CASE Install
    <2>1. ASSUME NEW c \in Callers, NEW known \in BOOLEAN, Stage(c, known)
          PROVE  \E v \in Versions : Trial!Begin(v)
      <3>1. /\ unit = "serving" /\ unit' = "serving" /\ blessed' = blessed
            /\ current' = current /\ marker' = StageMarker(c, known)
            /\ installing[c] # NotInstalling
        BY <2>1 DEF Stage
      <3>2. installing[c] \in Versions
        BY <3>1 DEF UpdateInv, TypeOK
      <3>3. marker'.prev = current /\ marker'.to = installing[c]
            /\ marker'.phase # "none"
        BY <3>1 DEF StageMarker
      <3>4. marker' # NoMarker
        BY <3>3 DEF NoMarker
      <3>5. marker # NoMarker => marker.prev = current
        BY <3>1 DEF BlessedInv, Running
      <3>6. Trial!Begin(installing[c])
        BY <3>1, <3>3, <3>4, <3>5 DEF Trial!Begin
      <3> QED BY <3>2, <3>6
    <2>2. CASE \A c \in Callers, known \in BOOLEAN : ~Stage(c, known)
      <3>1. /\ unit' = unit /\ blessed' = blessed
            /\ marker' = marker /\ current' = current
        BY <1>3, <2>2 DEF Install, BeginInstall, MakeStaging, RenameStaged,
                          FetchFails, CancelInstall
      <3> QED BY <3>1, QuietStep
    <2> QED BY <2>1, <2>2 DEF Trial!Next
  <1>4. CASE Restart \/ Crash \/ CollectionCut \/ UNCHANGED vars
    <2>1. /\ unit' # "serving" \/ unit' = unit
          /\ blessed' = blessed /\ marker' = marker /\ current' = current
      BY <1>4 DEF Restart, Crash, CollectionCut, Down, vars
    <2> QED BY <2>1, QuietStep
  <1>5. ~RestartFails
    BY DEF RestartFails
  <1> QED BY <1>1, <1>2, <1>3, <1>4, <1>5 DEF Next

\* ImplementsVersionTrial: with the symlink, the preflight, the attempts and the
\* crashes hidden, only the version at home serves and only a version that has
\* passed comes home, where the preflight, the restart and the disk do what they
\* are asked.
THEOREM UpdateIsATrial ==
  ASSUME ~LateFailure, ~RestartMayFail, MaxDiskFails = 0
  PROVE  Spec => ImplementsVersionTrial
  <1>1. Init => Trial!Init
    BY DEF Init, Trial!Init
  <1>2. Init => BlessedInv
    BY DEF Init, BlessedInv, Running, NoMarker
  <1>3. UpdateInv /\ BlessedInv /\ [Next]_vars => BlessedInv'
    BY NextKeepsBlessedInv
  <1>4. UpdateInv /\ BlessedInv /\ BlessedInv' /\ [Next]_vars
          => [Trial!Next]_(Trial!vars)
    BY TrialSimulation
  <1> QED
    BY UpdateInvariance, <1>1, <1>2, <1>3, <1>4, PTL
    DEF Spec, Trial!Spec, ImplementsVersionTrial

-----------------------------------------------------------------------------
(* What has a version's name.                                              *)

\* No two callers fetch the same version at once.
FetchesApart ==
  \A c, d \in Callers :
    fetching[c] # "no" /\ fetching[d] # "no" /\ installing[c] = installing[d]
      => c = d

\* The .staging- directory of a fetch is the caller's own.
StagingInv ==
  \A c \in Callers : fetching[c] = "staging" => maker[installing[c]] = c

LEMMA NextKeepsStagingInv ==
  ASSUME UpdateInv, StagingInv, FetchesApart, FetchesApart', [Next]_vars
  PROVE  StagingInv'
  <1> USE DEF UpdateInv
  <1>0. /\ installing \in [Callers -> Versions \cup {NotInstalling}]
        /\ fetching \in [Callers -> {"no", "downloading", "staging"}]
        /\ maker \in [Versions -> Callers \cup {Nobody}]
        /\ \A c \in Callers : fetching[c] # "no" => installing[c] \in Versions
    BY DEF TypeOK, InstallInv
  <1>1. ASSUME NEW c \in Callers, NEW v \in Versions, BeginInstall(c, v)
        PROVE  StagingInv'
    BY <1>0, <1>1 DEF BeginInstall, StagingInv
  <1>2. ASSUME NEW c \in Callers, MakeStaging(c)
        PROVE  StagingInv'
    <2>1. /\ maker' = [maker EXCEPT ![installing[c]] = c]
          /\ fetching' = [fetching EXCEPT ![c] = "staging"]
          /\ fetching[c] # "no" /\ installing' = installing
      BY <1>2 DEF MakeStaging
    <2>2. maker'[installing[c]] = c
      BY <1>0, <2>1
    <2>3. ASSUME NEW d \in Callers \ {c}, fetching'[d] = "staging"
          PROVE  maker'[installing'[d]] = d
      <3>1. fetching[d] = "staging"
        BY <1>0, <2>1, <2>3
      <3>2. installing[d] # installing[c]
        BY <2>1, <3>1 DEF FetchesApart
      <3> QED BY <1>0, <2>1, <3>1, <3>2 DEF StagingInv
    <2> QED BY <2>1, <2>2, <2>3 DEF StagingInv
  <1>3. ASSUME NEW c \in Callers, RenameStaged(c) \/ FetchFails(c)
        PROVE  StagingInv'
    <2>1. /\ maker' \in {maker, [maker EXCEPT ![installing[c]] = Nobody]}
          /\ fetching' = [fetching EXCEPT ![c] = "no"]
          /\ fetching[c] # "no"
          /\ \A d \in Callers \ {c} : installing'[d] = installing[d]
      BY <1>0, <1>3 DEF RenameStaged, FetchFails
    <2> SUFFICES ASSUME NEW d \in Callers, fetching'[d] = "staging"
                 PROVE  maker'[installing'[d]] = d
      BY DEF StagingInv
    <2>2. d # c /\ fetching[d] = "staging" /\ installing'[d] = installing[d]
      BY <1>0, <2>1
    <2>3. installing[d] # installing[c]
      BY <2>1, <2>2 DEF FetchesApart
    <2> QED BY <1>0, <2>1, <2>2, <2>3 DEF StagingInv
  <1>4. ASSUME NEW c \in Callers, NEW known \in BOOLEAN, Stage(c, known)
        PROVE  StagingInv'
    BY <1>0, <1>4 DEF Stage, StagingInv
  <1>5. ASSUME NEW c \in Callers, CancelInstall(c)
        PROVE  StagingInv'
    BY <1>0, <1>5 DEF CancelInstall, StagingInv
  <1>6. CASE Restart \/ Crash \/ CollectionCut
    BY <1>6 DEF Restart, Crash, CollectionCut, Down, StagingInv
  <1>7. CASE Preflight \/ Boot \/ RestartFails \/ UNCHANGED vars
    <2>1. UNCHANGED fetch
      BY <1>7
      DEF vars, Preflight, Boot, RestartFails,
          PreflightNothing, PreflightSwapIn, PreflightMarkSwapped,
          PreflightGivesUp, PreflightCount, PreflightSwapBack, PreflightStuck,
          PreflightMarkReverting, BootCrashes, BootPasses, ReportReverted,
          SwapFailed, Bless, RequestRevert, RevertNotWritten, ClearMarker,
          MarkerNotCleared, DiskFails
    <2> QED BY <2>1 DEF fetch, StagingInv
  <1> QED BY <1>1, <1>2, <1>3, <1>4, <1>5, <1>6, <1>7 DEF Next, Install

\* Only a rename, a collection or a failing fetch changes what is partial.
LEMMA PartialStep ==
  ASSUME [Next]_vars, partial' # partial
  PROVE  \/ \E c \in Callers : RenameStaged(c) \/ FetchFails(c)
         \/ /\ Bless \/ CollectionCut
            /\ \E gone \in SUBSET GC : \E torn \in SUBSET (GC \ gone) :
                 Collect(gone, torn)
  <1>1. \/ \E c \in Callers : RenameStaged(c) \/ FetchFails(c)
        \/ Bless \/ CollectionCut
    BY DEF vars, Next, Preflight, Boot, Install, Restart, RestartFails, Crash,
           PreflightNothing, PreflightSwapIn, PreflightMarkSwapped,
           PreflightGivesUp, PreflightCount, PreflightSwapBack, PreflightStuck,
           PreflightMarkReverting, BootCrashes, BootPasses, ReportReverted,
           SwapFailed, RequestRevert, RevertNotWritten, ClearMarker,
           MarkerNotCleared, BeginInstall, MakeStaging, Stage, CancelInstall,
           disk
  <1> QED BY <1>1 DEF Bless, CollectionCut

LEMMA InUseStep ==
  ASSUME UpdateInv, UpdateInv', [Next]_vars, NEW v \in partial' \ partial
  PROVE  /\ v # current'
         /\ marker' # NoMarker => v # marker'.prev
         /\ marker'.phase = "pending" => v # marker'.to
  <1>1. CASE \E c \in Callers : RenameStaged(c)
    <2>1. v \notin dirs /\ marker' = marker /\ current' = current
      BY <1>1 DEF RenameStaged
    <2> QED BY <2>1 DEF UpdateInv, RevertTargetKept
  <1>2. CASE /\ Bless \/ CollectionCut
             /\ \E gone \in SUBSET GC : \E torn \in SUBSET (GC \ gone) :
                  Collect(gone, torn)
    <2>1. v \in GC /\ marker' = marker /\ current' = current
      BY <1>2 DEF Collect, Bless, CollectionCut
    <2>2. marker.phase = "swapped"
      BY <1>2 DEF Bless, CollectionCut, Judging
    <2> QED BY <2>1, <2>2, GCProtects
  <1>3. \A c \in Callers : ~FetchFails(c)
    BY DEF FetchFails
  <1> QED BY <1>1, <1>2, <1>3, PartialStep

\* VersionsInUseStayWhole: whatever a collection leaves half removed, or a fetch
\* half unpacked, it is no version that runs, is to run, or is the way back.
THEOREM UsedVersionsAreWhole == Spec => VersionsInUseStayWhole
  <1>1. UpdateInv /\ UpdateInv' /\ [Next]_vars =>
          [\A v \in partial' \ partial :
             /\ v # current'
             /\ marker' # NoMarker => v # marker'.prev
             /\ marker'.phase = "pending" => v # marker'.to]_vars
    BY InUseStep
  <1> QED BY UpdateInvariance, <1>1, PTL DEF Spec, VersionsInUseStayWhole

\* FetchesLeaveWhole: where no two callers fetch the same version at once, the
\* .staging- directory that is renamed is the caller's own, unpacked and
\* installed, whatever fails or dies.
THEOREM FetchesApartAreWhole == Spec /\ []FetchesApart => FetchesLeaveWhole
  <1> DEFINE I == UpdateInv /\ FetchesApart
  <1>1. Init => StagingInv
    BY DEF Init, StagingInv
  <1>2. I /\ I' /\ StagingInv /\ [Next]_vars => StagingInv'
    BY NextKeepsStagingInv
  <1>3. StagingInv /\ [Next]_vars => [partial' \ partial \subseteq dirs]_vars
    <2> SUFFICES ASSUME StagingInv, [Next]_vars, partial' # partial
                 PROVE  partial' \ partial \subseteq dirs
      OBVIOUS
    <2>1. ASSUME NEW c \in Callers, RenameStaged(c) \/ FetchFails(c)
          PROVE  partial' \ partial = {}
      BY <2>1 DEF RenameStaged, FetchFails, StagingInv
    <2>2. ASSUME NEW gone \in SUBSET GC, NEW torn \in SUBSET (GC \ gone),
                 Collect(gone, torn)
          PROVE  partial' \ partial \subseteq dirs
      BY <2>2, GCProtects DEF Collect
    <2> QED BY <2>1, <2>2, PartialStep
  <1>4. I <=> UpdateInv /\ FetchesApart
    OBVIOUS
  <1> HIDE DEF I
  <1> QED BY UpdateInvariance, <1>1, <1>2, <1>3, <1>4, PTL
          DEF Spec, FetchesLeaveWhole

-----------------------------------------------------------------------------
(* The way of one update.                                                  *)

Rank(phase) == CASE phase = "pending"          -> 0
                 [] phase = "swapped"          -> 1
                 [] phase = "revert_requested" -> 2
                 [] OTHER                      -> 3

\* The same update, further on.
Advances(m, n) ==
  /\ n.from = m.from /\ n.to = m.to /\ n.prev = m.prev /\ n.known = m.known
  /\ \/ Rank(m.phase) < Rank(n.phase)
     \/ /\ m.phase = "swapped" /\ n.phase = "swapped"
        /\ n.attempts = m.attempts + 1

\* A marker is staged over, or goes forward, or is cleared once its update's
\* own verdict is told.
UpdatesGoForward ==
  [][marker # NoMarker /\ marker' # marker =>
       \/ \E c \in Callers, known \in BOOLEAN : Stage(c, known)
       \/ Advances(marker, marker')
       \/ /\ marker' = NoMarker
          /\ report.from = marker.from /\ report.to = marker.to]_vars

\* The symlink moves once in, while its update is pending, and once back, after
\* its trial.
SwapsFollowTheMarker ==
  [][current' # current =>
       /\ marker # NoMarker /\ marker' = marker
       /\ \/ /\ marker.phase = "pending"
             /\ current = marker.prev /\ current' = marker.to
          \/ /\ marker.phase \in {"swapped", "revert_requested"}
             /\ current = marker.to /\ current' = marker.prev]_vars

\* What is told is about the marker that is cleared, and the symlink is at one
\* end of the update in flight.
WayInv ==
  /\ unit = "clearing" => report.from = marker.from /\ report.to = marker.to
  /\ restartDue => unit \in {"serving", "restarting"}
  /\ marker # NoMarker => current \in {marker.prev, marker.to}

LEMMA NextKeepsWayInv ==
  ASSUME UpdateInv, WayInv, [Next]_vars
  PROVE  WayInv'
  <1> USE DEF WayInv, disk, fetch, faults, UpdateInv, SymlinkInv, StartDaemon
  <1>1. CASE Preflight
    <2>1. CASE PreflightNothing \/ PreflightSwapIn \/ PreflightStuck
      BY <2>1 DEF PreflightNothing, PreflightSwapIn, PreflightStuck, DiskFails
    <2>2. CASE \/ PreflightMarkSwapped \/ PreflightGivesUp \/ PreflightCount
               \/ PreflightMarkReverting
      <3>1. /\ marker.phase # "none" /\ unit' = "booting" /\ current' = current
            /\ restartDue' = restartDue /\ ~restartDue
        BY <2>2 DEF PreflightMarkSwapped, PreflightGivesUp, PreflightCount,
                    PreflightMarkReverting
      <3>2. marker \in Marker /\ marker # NoMarker
        BY <3>1, MarkerKnown
      <3>3. marker'.prev = marker.prev /\ marker'.to = marker.to
        BY <2>2, <3>2 DEF PreflightMarkSwapped, PreflightGivesUp,
                          PreflightCount, PreflightMarkReverting, Marker
      <3> QED BY <3>1, <3>2, <3>3
    <2>3. CASE PreflightSwapBack
      BY <2>3 DEF PreflightSwapBack
    <2> QED BY <1>1, <2>1, <2>2, <2>3 DEF Preflight
  <1>2. CASE Boot
    <2>1. CASE BootCrashes \/ BootPasses
      BY <2>1 DEF BootCrashes, BootPasses
    <2>2. CASE ReportReverted \/ SwapFailed \/ Bless
      <3>1. /\ unit' = "clearing" /\ unit = "booting" /\ \E kind : Tell(kind)
            /\ UNCHANGED <<marker, current, restartDue>>
        BY <2>2 DEF ReportReverted, SwapFailed, Bless, Judging
      <3>2. report'.from = marker.from /\ report'.to = marker.to
        BY <3>1 DEF Tell
      <3> QED BY <3>1, <3>2
    <2>3. CASE RequestRevert
      <3>1. marker \in Marker /\ marker # NoMarker
        BY <2>3, MarkerKnown DEF RequestRevert, Judging
      <3>2. marker'.prev = marker.prev /\ marker'.to = marker.to
        BY <2>3, <3>1 DEF RequestRevert, Marker
      <3> QED BY <2>3, <3>1, <3>2 DEF RequestRevert
    <2>4. CASE ClearMarker \/ RevertNotWritten \/ MarkerNotCleared
      BY <2>4 DEF ClearMarker, RevertNotWritten, MarkerNotCleared, DiskFails,
                  Judging
    <2> QED BY <1>2, <2>1, <2>2, <2>3, <2>4 DEF Boot
  <1>3. CASE Install
    BY <1>3 DEF Install, BeginInstall, MakeStaging, RenameStaged, FetchFails,
                CancelInstall, Stage, StageMarker
  <1>4. CASE \/ Restart \/ RestartFails \/ Crash \/ CollectionCut
             \/ UNCHANGED vars
    BY <1>4 DEF Restart, RestartFails, Crash, CollectionCut, Down, vars
  <1> QED BY <1>1, <1>2, <1>3, <1>4 DEF Next

LEMMA MarkerStep ==
  ASSUME UpdateInv, WayInv, [Next]_vars, marker # NoMarker, marker' # marker
  PROVE  \/ \E c \in Callers, known \in BOOLEAN : Stage(c, known)
         \/ Advances(marker, marker')
         \/ /\ marker' = NoMarker
            /\ report.from = marker.from /\ report.to = marker.to
  <1>1. marker \in Marker
    BY DEF UpdateInv, TypeOK
  <1>2. \/ PreflightMarkSwapped \/ PreflightGivesUp \/ PreflightCount
        \/ PreflightMarkReverting \/ RequestRevert \/ ClearMarker
        \/ \E c \in Callers, known \in BOOLEAN : Stage(c, known)
    BY DEF vars, Next, Preflight, Boot, Install, Restart, RestartFails, Crash,
           PreflightNothing, PreflightSwapIn, PreflightSwapBack, PreflightStuck,
           BootCrashes, BootPasses, ReportReverted, SwapFailed, Bless,
           RevertNotWritten, MarkerNotCleared, CollectionCut, DiskFails,
           BeginInstall, MakeStaging, RenameStaged, FetchFails, CancelInstall,
           disk
  <1>3. CASE \/ PreflightMarkSwapped \/ PreflightGivesUp
             \/ PreflightMarkReverting \/ RequestRevert
    <2>1. /\ marker'.from = marker.from /\ marker'.to = marker.to
          /\ marker'.prev = marker.prev /\ marker'.known = marker.known
      BY <1>1, <1>3 DEF PreflightMarkSwapped, PreflightGivesUp,
                        PreflightMarkReverting, RequestRevert, Marker
    <2>2. \/ marker.phase = "pending" /\ marker'.phase \in {"swapped", "reverting"}
          \/ marker.phase = "swapped"
               /\ marker'.phase \in {"revert_requested", "reverting"}
          \/ marker.phase = "revert_requested" /\ marker'.phase = "reverting"
      BY <1>1, <1>3 DEF PreflightMarkSwapped, PreflightGivesUp, Judging,
                        PreflightMarkReverting, RequestRevert, Marker,
                        UpdateInv, SymlinkInv
    <2> QED BY <2>1, <2>2 DEF Advances, Rank
  <1>4. CASE PreflightCount
    BY <1>1, <1>4 DEF PreflightCount, Advances, Marker
  <1>5. CASE ClearMarker
    BY <1>5 DEF ClearMarker, WayInv
  <1> QED BY <1>2, <1>3, <1>4, <1>5

LEMMA SymlinkStep ==
  ASSUME UpdateInv, WayInv, [Next]_vars, current' # current
  PROVE  /\ marker # NoMarker /\ marker' = marker
         /\ \/ /\ marker.phase = "pending"
               /\ current = marker.prev /\ current' = marker.to
            \/ /\ marker.phase \in {"swapped", "revert_requested"}
               /\ current = marker.to /\ current' = marker.prev
  <1>1. PreflightSwapIn \/ PreflightSwapBack
    BY DEF vars, Next, Preflight, Boot, Install, Restart, RestartFails, Crash,
           PreflightNothing, PreflightMarkSwapped, PreflightGivesUp,
           PreflightCount, PreflightStuck, PreflightMarkReverting, BootCrashes,
           BootPasses, ReportReverted, SwapFailed, Bless, RequestRevert,
           RevertNotWritten, ClearMarker, MarkerNotCleared, CollectionCut,
           DiskFails, BeginInstall, MakeStaging, RenameStaged, FetchFails,
           Stage, CancelInstall, disk
  <1>2. marker.phase # "none"
    BY <1>1 DEF PreflightSwapIn, PreflightSwapBack, Loops
  <1>3. marker # NoMarker /\ current \in {marker.prev, marker.to}
    BY <1>2, MarkerKnown DEF UpdateInv, WayInv
  <1> QED BY <1>1, <1>3 DEF PreflightSwapIn, PreflightSwapBack, Loops

\* UpdatesGoForward: marker.ts writes one update's phases in one direction and
\* counts its boots upwards, so a staged update makes at most MaxAttempts + 3
\* writes of the marker, wherever the power fails; only a new staging starts
\* over (which is what the loop of an auto-install does).
THEOREM UpdatesNeverGoBack == Spec => UpdatesGoForward
  <1>1. Init => WayInv
    BY DEF Init, WayInv, NoMarker
  <1>2. UpdateInv /\ WayInv /\ [Next]_vars => WayInv'
    BY NextKeepsWayInv
  <1>3. UpdateInv /\ WayInv /\ [Next]_vars =>
          [marker # NoMarker /\ marker' # marker =>
             \/ \E c \in Callers, known \in BOOLEAN : Stage(c, known)
             \/ Advances(marker, marker')
             \/ /\ marker' = NoMarker
                /\ report.from = marker.from /\ report.to = marker.to]_vars
    BY MarkerStep
  <1> QED BY UpdateInvariance, <1>1, <1>2, <1>3, PTL DEF Spec, UpdatesGoForward

\* SwapsFollowTheMarker: preflight.mjs swaps in only what is pending and back
\* only after a trial, so by UpdatesNeverGoBack a staged update moves the
\* symlink at most twice: in, and back.
THEOREM SwapsAreOrdered == Spec => SwapsFollowTheMarker
  <1>1. Init => WayInv
    BY DEF Init, WayInv, NoMarker
  <1>2. UpdateInv /\ WayInv /\ [Next]_vars => WayInv'
    BY NextKeepsWayInv
  <1>3. UpdateInv /\ WayInv /\ [Next]_vars =>
          [current' # current =>
             /\ marker # NoMarker /\ marker' = marker
             /\ \/ /\ marker.phase = "pending"
                   /\ current = marker.prev /\ current' = marker.to
                \/ /\ marker.phase \in {"swapped", "revert_requested"}
                   /\ current = marker.to /\ current' = marker.prev]_vars
    BY SymlinkStep
  <1> QED
    BY UpdateInvariance, <1>1, <1>2, <1>3, PTL DEF Spec, SwapsFollowTheMarker
=============================================================================
