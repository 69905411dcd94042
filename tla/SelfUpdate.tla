----------------------------- MODULE SelfUpdate -----------------------------
(***************************************************************************)
(* Self-update of mirod (apps/mirod/src/self-update/, preflight.mjs and    *)
(* the callers in index.ts and operation-tools.ts): a marker file shared   *)
(* by the daemon, which stages a version and judges it at its next boot,   *)
(* and by the ExecStartPre preflight, which swaps the `current` symlink    *)
(* before the daemon runs and counts the boots a new version needs.        *)
(*                                                                         *)
(* Every rename on disk is a step of its own: the power may fail between   *)
(* any two, and in the middle of a garbage collection.  A daemon step      *)
(* otherwise runs from await to await.                                     *)
(***************************************************************************)
EXTENDS Naturals, FiniteSets

CONSTANTS
  Versions,       \* version directories, ordered as Bun.semver.order does
  Initial,        \* the version install.sh put in place
  Released,       \* what the release channel ever offers as its newest
  Broken,         \* versions that die on boot before they can bless themselves
  Frail,          \* versions that do so when their directory is not whole
  MaxAttempts,    \* MAX of preflight.mjs
  KeepVersions,   \* KEEP_VERSIONS
  Callers,        \* who calls stageUpdate: the install_update tool ("owner"),
                  \* and updateCheckTick with update.auto_install on ("auto")
  LateFailure,    \* may the preflight fail once `current` is swapped already?
  RestartMayFail, \* may `systemctl restart mirod` fail?
  RemovalMayFail, \* may rmSync fail on a version's directory?
  MaxDiskFails,   \* bound on the failures counted in diskFails
  MaxCrashes      \* bound on the crashes of one behaviour

ASSUME VersionsAssumption ==
  /\ Versions \subseteq Nat /\ IsFiniteSet(Versions)
  /\ Released \subseteq Versions
  /\ Broken \subseteq Versions /\ Frail \subseteq Versions
  /\ Initial \in Versions \ Broken
ASSUME LimitsAssumption ==
  /\ MaxAttempts \in Nat \ {0}
  /\ KeepVersions \in Nat
  /\ MaxDiskFails \in Nat /\ MaxCrashes \in Nat
  /\ LateFailure \in BOOLEAN /\ RestartMayFail \in BOOLEAN
  /\ RemovalMayFail \in BOOLEAN
  /\ Callers \subseteq {"owner", "auto"}

VARIABLES
  marker,      \* update.json, NoMarker when there is no file
  current,     \* the version the `current` symlink names
  dirs,        \* the version directories on disk
  partial,     \* those of them that do not hold a whole release
  unit,        \* where systemd's start of the unit is
  installing,  \* per caller, the version it fetches or is about to stage
  fetching,    \* per caller, where fetchAndStage is suspended
  maker,       \* per version, who made the .staging- directory that is there
  restartDue,  \* somebody awaits `systemctl restart mirod`
  report,      \* the last verdict notify() was given
  (* history *)
  blessed,     \* versions that were in place before, or passed their judgement
  boots,       \* starts of the version in the marker since it was staged
  diskFails,   \* swaps and writes of the marker that failed since then
  crashes      \* how often the power failed or the daemon died

disk   == <<marker, current, dirs, partial>>
fetch  == <<installing, fetching, maker>>
faults == <<diskFails, crashes>>
vars == <<disk, unit, fetch, restartDue, report, blessed, boots, faults>>

NoMarker   == [phase |-> "none"]
NoReport   == [kind |-> "none"]
NotInstalling == 0
Nobody == "nobody"

\* UpdateMarker.  stagedDir is versions/<to>, prevDir is the target of current;
\* known: muPre could be measured.
Marker == [phase : {"pending", "swapped", "revert_requested", "reverting"},
           from : Versions, to : Versions, prev : Versions,
           known : BOOLEAN, attempts : 0..MaxAttempts]
Report == [kind : {"updated", "rolled back", "no effect"},
           from : Versions, to : Versions]

\* "swappedIn" and "swappedBack": the preflight is between the rename of the
\* symlink and the write of the marker.  "booting": the daemon runs its boot up
\* to the judgement.  "restarting": it awaits the restart for a revert.
Units == {"stopped", "swappedIn", "swappedBack", "booting", "clearing",
          "restarting", "serving"}

TypeOK ==
  /\ marker \in Marker \cup {NoMarker}
  /\ current \in Versions
  /\ dirs \subseteq Versions /\ partial \subseteq dirs
  /\ unit \in Units
  /\ installing \in [Callers -> Versions \cup {NotInstalling}]
  /\ fetching \in [Callers -> {"no", "downloading", "staging"}]
  /\ maker \in [Versions -> Callers \cup {Nobody}]
  /\ restartDue \in BOOLEAN
  /\ report \in Report \cup {NoReport}
  /\ blessed \subseteq Versions
  /\ boots \in 0..(MaxAttempts + MaxDiskFails + 1)
  /\ diskFails \in 0..MaxDiskFails
  /\ crashes \in 0..MaxCrashes

Init ==
  /\ marker = NoMarker
  /\ current = Initial
  /\ dirs = {Initial} /\ partial = {}
  /\ unit = "serving"
  /\ installing = [c \in Callers |-> NotInstalling]
  /\ fetching = [c \in Callers |-> "no"]
  /\ maker = [v \in Versions |-> Nobody]
  /\ restartDue = FALSE
  /\ report = NoReport
  /\ blessed = {Initial}
  /\ boots = 0
  /\ diskFails = 0 /\ crashes = 0

\* The wrapper exports MIRO_VERSION from `current` when it starts the daemon,
\* and only the preflight changes `current`.
Running == current

-----------------------------------------------------------------------------
(* preflight.mjs, before every start                                       *)

\* The daemon is started, perhaps in the version under judgement, whatever the
\* marker says by now.  The count of such starts stops past any number
\* UnblessedBootsBounded allows.
MaxBoots == MaxAttempts + MaxDiskFails + 1

StartDaemon(m) ==
  /\ unit' = "booting"
  /\ boots' = IF m.phase # "none" /\ current = m.to /\ boots < MaxBoots
                THEN boots + 1 ELSE boots

PreflightNothing ==
  /\ unit = "stopped"
  /\ marker.phase \in {"none", "reverting"}
  /\ StartDaemon(marker)
  /\ UNCHANGED <<disk, fetch, restartDue, report, blessed, faults>>

PreflightSwapIn ==
  /\ unit = "stopped"
  /\ marker.phase = "pending"
  /\ current' = marker.to
  /\ unit' = "swappedIn"
  /\ UNCHANGED <<marker, dirs, partial, fetch, restartDue, report, blessed, boots,
                 faults>>

PreflightMarkSwapped ==
  /\ unit = "swappedIn"
  /\ marker' = [marker EXCEPT !.phase = "swapped", !.attempts = 1]
  /\ StartDaemon(marker')
  /\ UNCHANGED <<current, dirs, partial, fetch, restartDue, report, blessed,
                 faults>>

\* The catch of the pending branch: the swap threw, or it was done, now or by
\* an earlier start, and something after it threw; the catch's own write goes
\* through.  current stays as it is.
PreflightGivesUp ==
  /\ unit \in {"stopped", "swappedIn"}
  /\ marker.phase = "pending"
  /\ current = marker.to => LateFailure
  /\ marker' = [marker EXCEPT !.phase = "reverting"]
  /\ StartDaemon(marker')
  /\ UNCHANGED <<current, dirs, partial, fetch, restartDue, report, blessed,
                 faults>>

\* A bug: the limit off by one.
LoopsTooLong(m) == m.phase = "swapped" /\ m.attempts > MaxAttempts

\* crashLoopNext: the marker has been through its last boot of the new version.
Loops(m) == m.phase = "swapped" /\ m.attempts + 1 > MaxAttempts

\* A bug: the boot is not counted.
PreflightCountLost ==
  /\ unit = "stopped"
  /\ marker.phase = "swapped" /\ ~Loops(marker)
  /\ StartDaemon(marker)
  /\ UNCHANGED <<disk, fetch, restartDue, report, blessed, faults>>

PreflightCount ==
  /\ unit = "stopped"
  /\ marker.phase = "swapped" /\ ~Loops(marker)
  /\ marker' = [marker EXCEPT !.attempts = @ + 1]
  /\ StartDaemon(marker')
  /\ UNCHANGED <<current, dirs, partial, fetch, restartDue, report, blessed,
                 faults>>

\* A bug: the marker will say "reverting", the symlink is not swapped.
PreflightSwapBackForgotten ==
  /\ unit = "stopped"
  /\ Loops(marker) \/ marker.phase = "revert_requested"
  /\ unit' = "swappedBack"
  /\ UNCHANGED <<disk, fetch, restartDue, report, blessed, boots, faults>>

PreflightSwapBack ==
  /\ unit = "stopped"
  /\ Loops(marker) \/ marker.phase = "revert_requested"
  /\ current' = marker.prev
  /\ unit' = "swappedBack"
  /\ UNCHANGED <<marker, dirs, partial, fetch, restartDue, report, blessed, boots,
                 faults>>

\* The disk fails once more, in the preflight or at boot.
DiskFails ==
  /\ diskFails < MaxDiskFails
  /\ diskFails' = diskFails + 1
  /\ UNCHANGED crashes

\* The outer catch: both writes of the pending branch threw, before or after its
\* swap, or the write of the count, the swap back, or the write after it.  The
\* boot goes on with the marker as it was and what is current.
PreflightStuck ==
  /\ \/ unit = "stopped" /\ marker.phase \in {"pending", "swapped",
                                              "revert_requested"}
     \/ unit \in {"swappedIn", "swappedBack"}
  /\ DiskFails
  /\ StartDaemon(marker)
  /\ UNCHANGED <<disk, fetch, restartDue, report, blessed>>

PreflightMarkReverting ==
  /\ unit = "swappedBack"
  /\ marker' = [marker EXCEPT !.phase = "reverting"]
  /\ StartDaemon(marker')
  /\ UNCHANGED <<current, dirs, partial, fetch, restartDue, report, blessed,
                 faults>>

-----------------------------------------------------------------------------
(* blessOrRevertUpdate, at boot, before the socket binds                   *)

Tell(kind) == report' = [kind |-> kind, from |-> marker.from, to |-> marker.to]

\* A bug: the previous version's directory is not protected.
GCForgetsPrev ==
  LET removable == dirs \ {current}
      keep == IF KeepVersions > 2 THEN KeepVersions - 2 ELSE 0
  IN  {d \in removable : Cardinality({e \in removable : e > d}) >= keep}

\* versionsToGC: the protected directories always stay, and of the others the
\* newest keep - 2 (both protected paths resolve, and they differ).
GC ==
  LET removable == dirs \ {current, marker.prev}
      keep == IF KeepVersions > 2 THEN KeepVersions - 2 ELSE 0
  IN  {d \in removable : Cardinality({e \in removable : e > d}) >= keep}

\* A collection removes, or removes a part of, one directory after the other.
Collect(gone, torn) ==
  /\ dirs' = dirs \ gone
  /\ partial' = (partial \ gone) \cup torn

\* It goes from the oldest to the newest, and stops in one of them.
InOrder(gone, torn) ==
  \E k \in GC : gone = {g \in GC : g < k} /\ torn \subseteq {k}

\* The running version does not live to its judgement.
Dies == Running \in Broken \/ Running \in partial \cap Frail

BootCrashes ==
  /\ unit = "booting" /\ Dies
  /\ unit' = "stopped"
  /\ UNCHANGED <<disk, fetch, restartDue, report, blessed, boots, faults>>

\* No marker, or one that is the preflight's to act on.
BootPasses ==
  /\ unit = "booting" /\ ~Dies
  /\ marker.phase \in {"none", "pending", "revert_requested"}
  /\ unit' = "serving"
  /\ UNCHANGED <<disk, fetch, restartDue, report, blessed, boots, faults>>

ReportReverted ==
  /\ unit = "booting" /\ ~Dies
  /\ marker.phase = "reverting"
  /\ Tell("rolled back")
  /\ unit' = "clearing"
  /\ UNCHANGED <<disk, fetch, restartDue, blessed, boots, faults>>

\* settleSeverity, then blessDecision.  worse: severity stayed above muPre.
Judging == unit = "booting" /\ ~Dies /\ marker.phase = "swapped"

SwapFailed ==
  /\ Judging /\ Running # marker.to
  /\ Tell("no effect")
  /\ unit' = "clearing"
  /\ UNCHANGED <<disk, fetch, restartDue, blessed, boots, faults>>

\* gcOldVersions, best effort, then the verdict.
Bless ==
  /\ Judging /\ Running = marker.to
  /\ \E gone \in SUBSET GC : \E torn \in SUBSET (GC \ gone) :
       (gone = GC \/ RemovalMayFail) /\ Collect(gone, torn)
  /\ Tell("updated")
  /\ blessed' = blessed \cup {Running}
  /\ unit' = "clearing"
  /\ UNCHANGED <<marker, current, fetch, restartDue, boots, faults>>

RequestRevert ==
  /\ Judging /\ Running = marker.to
  /\ marker.known
  /\ marker' = [marker EXCEPT !.phase = "revert_requested"]
  /\ restartDue' = TRUE
  /\ unit' = "restarting"
  /\ UNCHANGED <<current, dirs, partial, fetch, report, blessed, boots, faults>>

\* The write of "revert_requested" throws at the top level of index.ts: the
\* daemon exits.
RevertNotWritten ==
  /\ Judging /\ Running = marker.to
  /\ marker.known
  /\ DiskFails
  /\ unit' = "stopped"
  /\ UNCHANGED <<disk, fetch, restartDue, report, blessed, boots>>

\* A bug: the marker outlives its verdict.
ClearMarkerForgotten ==
  /\ unit = "clearing"
  /\ unit' = "serving"
  /\ UNCHANGED <<disk, fetch, restartDue, report, blessed, boots, faults>>

\* clearMarker after the report.
ClearMarker ==
  /\ unit = "clearing"
  /\ marker' = NoMarker
  /\ unit' = "serving"
  /\ UNCHANGED <<current, dirs, partial, fetch, restartDue, report, blessed, boots,
                 faults>>

\* It takes every failure for a marker that is gone already.
MarkerNotCleared ==
  /\ unit = "clearing"
  /\ DiskFails
  /\ unit' = "serving"
  /\ UNCHANGED <<disk, fetch, restartDue, report, blessed, boots>>

-----------------------------------------------------------------------------
(* fetchAndStage, stageUpdate and their callers                            *)

\* pickRelease: the release that is the newest now, if above the running one.
Newest(v) == v \in Released /\ v > Running

\* install_update offers every directory but the running version's; what is not
\* there is fetched, if it is the newest release.  The auto-install takes only
\* the newest release.
Offered(c, v) ==
  \/ Newest(v)
  \/ c = "owner" /\ v \in dirs \ {Running}

BeginInstall(c, v) ==
  /\ unit = "serving" /\ installing[c] = NotInstalling
  /\ Offered(c, v)
  /\ installing' = [installing EXCEPT ![c] = v]
  /\ fetching' = [fetching EXCEPT ![c] = IF v \in dirs THEN "no"
                                                     ELSE "downloading"]
  /\ UNCHANGED <<disk, maker, unit, restartDue, report, blessed, boots, faults>>

\* A bug: the release is unpacked straight into the version's directory.
MakeStagingInPlace(c) ==
  /\ fetching[c] = "downloading"
  /\ maker' = [maker EXCEPT ![installing[c]] = c]
  /\ fetching' = [fetching EXCEPT ![c] = "staging"]
  /\ dirs' = dirs \cup {installing[c]}
  /\ partial' = partial \cup {installing[c]}
  /\ UNCHANGED <<marker, current, installing, unit, restartDue, report, blessed,
                 boots, faults>>

\* The digest is right: whatever .staging-<v> there is is removed, and made anew.
MakeStaging(c) ==
  /\ fetching[c] = "downloading"
  /\ maker' = [maker EXCEPT ![installing[c]] = c]
  /\ fetching' = [fetching EXCEPT ![c] = "staging"]
  /\ UNCHANGED <<disk, installing, unit, restartDue, report, blessed, boots,
                 faults>>

\* tar and bun install are done: the rename takes the directory that has the name
\* by now.  Somebody else's may not be unpacked or installed yet.
RenameStaged(c) ==
  LET v == installing[c]
  IN  /\ fetching[c] = "staging"
      /\ v \notin dirs /\ maker[v] # Nobody
      /\ dirs' = dirs \cup {v}
      /\ \/ UNCHANGED partial
         \/ maker[v] # c /\ partial' = partial \cup {v}
      /\ maker' = [maker EXCEPT ![v] = Nobody]
      /\ fetching' = [fetching EXCEPT ![c] = "no"]
      /\ UNCHANGED <<marker, current, installing, unit, restartDue, report,
                     blessed, boots, faults>>

\* Download, digest, tar, bun install or the rename fails; the catch removes
\* .staging-<v>, whoever made it.  A tar whose directory was renamed under it has
\* gone on filling it.
FetchFails(c) ==
  LET v == installing[c]
  IN  /\ fetching[c] # "no"
      /\ maker' = IF fetching[c] = "staging" THEN [maker EXCEPT ![v] = Nobody]
                                             ELSE maker
      /\ \/ UNCHANGED partial
         \/ fetching[c] = "staging" /\ maker[v] # c /\ partial' = partial \ {v}
      /\ installing' = [installing EXCEPT ![c] = NotInstalling]
      /\ fetching' = [fetching EXCEPT ![c] = "no"]
      /\ UNCHANGED <<marker, current, dirs, unit, restartDue, report, blessed,
                     boots, faults>>

\* The owner answers install_update's question with anything but "approve", or
\* the marker cannot be written; a version that was fetched for it stays on disk.
CancelInstall(c) ==
  /\ unit = "serving"
  /\ installing[c] # NotInstalling /\ fetching[c] = "no"
  /\ installing' = [installing EXCEPT ![c] = NotInstalling]
  /\ UNCHANGED <<disk, fetching, maker, unit, restartDue, report, blessed, boots,
                 faults>>

\* A bug: the revert target is the directory being staged.
StageMarkerNoWayBack(c, known) ==
  [phase |-> "pending", from |-> Running, to |-> installing[c],
   prev |-> installing[c], known |-> known, attempts |-> 0]

StageMarker(c, known) ==
  [phase |-> "pending", from |-> Running, to |-> installing[c],
   prev |-> current, known |-> known, attempts |-> 0]

\* After the await of computeSeverity: write the marker, whatever file is there,
\* and ask for the restart.
Stage(c, known) ==
  /\ unit = "serving"
  /\ installing[c] # NotInstalling /\ fetching[c] = "no"
  /\ marker' = StageMarker(c, known)
  /\ installing' = [installing EXCEPT ![c] = NotInstalling]
  /\ restartDue' = TRUE
  /\ boots' = 0 /\ diskFails' = 0
  /\ UNCHANGED <<current, dirs, partial, fetching, maker, unit, report, blessed,
                 crashes>>

-----------------------------------------------------------------------------
(* systemd and the power                                                   *)

\* What a dead daemon leaves in .staging-<v> the next use of the name removes.
Down ==
  /\ unit' = "stopped"
  /\ installing' = [c \in Callers |-> NotInstalling]
  /\ fetching' = [c \in Callers |-> "no"]
  /\ maker' = [v \in Versions |-> Nobody]
  /\ restartDue' = FALSE

Restart ==
  /\ restartDue
  /\ Down
  /\ UNCHANGED <<disk, report, blessed, boots, faults>>

\* A failed restart of the judgement is swallowed, and the boot goes on; that of
\* stageUpdate is thrown to its caller.
RestartFails ==
  /\ RestartMayFail /\ restartDue
  /\ restartDue' = FALSE
  /\ unit' = "serving"
  /\ UNCHANGED <<disk, fetch, report, blessed, boots, faults>>

Crash ==
  /\ crashes < MaxCrashes
  /\ crashes' = crashes + 1
  /\ Down
  /\ UNCHANGED <<disk, report, blessed, boots, diskFails>>

\* In the middle of gcOldVersions, before the verdict is told.
CollectionCut ==
  /\ Judging /\ Running = marker.to
  /\ \E gone \in SUBSET GC : \E torn \in SUBSET (GC \ gone) :
       (InOrder(gone, torn) \/ RemovalMayFail) /\ Collect(gone, torn)
  /\ crashes < MaxCrashes
  /\ crashes' = crashes + 1
  /\ Down
  /\ UNCHANGED <<marker, current, report, blessed, boots, diskFails>>

-----------------------------------------------------------------------------
Preflight ==
  \/ PreflightNothing
  \/ PreflightSwapIn \/ PreflightMarkSwapped \/ PreflightGivesUp
  \/ PreflightCount
  \/ PreflightSwapBack \/ PreflightStuck \/ PreflightMarkReverting

Boot ==
  \/ BootCrashes \/ BootPasses
  \/ ReportReverted \/ SwapFailed \/ Bless
  \/ RequestRevert \/ RevertNotWritten
  \/ ClearMarker \/ MarkerNotCleared

Install ==
  \E c \in Callers : \/ \E v \in Versions : BeginInstall(c, v)
                     \/ MakeStaging(c) \/ RenameStaged(c) \/ FetchFails(c)
                     \/ CancelInstall(c)
                     \/ \E known \in BOOLEAN : Stage(c, known)

Next ==
  \/ Preflight \/ Boot \/ Install
  \/ Restart \/ RestartFails \/ Crash \/ CollectionCut

Spec == Init /\ [][Next]_vars

\* Restart=on-failure and the preflight's exit 0 start the unit again; the
\* judgement is bounded by SETTLE_MS, and `systemctl restart` by systemd.
Fairness == WF_vars(Preflight) /\ WF_vars(Boot) /\ WF_vars(Restart)
FairSpec == Spec /\ Fairness

-----------------------------------------------------------------------------
(* Properties *)

\* There is always a way back: while an update is in flight, the directory a
\* revert would make current, the one that is current, and the one still to be
\* made current are on disk, whatever versionsToGC removed.
RevertTargetKept ==
  /\ current \in dirs
  /\ marker # NoMarker => marker.prev \in dirs
  /\ marker.phase = "pending" => marker.to \in dirs

\* What the owner is told is so: "updated" by the new version, "rolled back" by
\* the old one (index.ts: "We are the old version, back after an auto-revert").
ReportsAreTrue ==
  [][report' # report =>
       CASE report'.kind = "updated"     -> Running = report'.to
         [] report'.kind = "rolled back" -> Running = report'.from
         [] report'.kind = "no effect"   -> Running # report'.to]_vars

\* "Revert on the 3rd un-blessed boot": wherever the power fails, the version on
\* trial is started at most MaxAttempts times, and once more for each write of
\* the marker or swap that failed and was swallowed, a lost count included.
UnblessedBootsBounded == boots <= MaxAttempts + diskFails

\* A collection, whole, cut off or failing, and a fetch that takes another's
\* .staging- directory, never leave a part of a version that is in use: the
\* current one, the one to go back to, the one still to be made current.
VersionsInUseStayWhole ==
  [][\A v \in partial' \ partial :
       /\ v # current'
       /\ marker' # NoMarker => v # marker'.prev
       /\ marker'.phase = "pending" => v # marker'.to]_vars

\* No version stays in service unjudged: once nothing is in flight, what runs
\* was there before or has been blessed.
ServesOnlyBlessed ==
  unit = "serving" /\ marker = NoMarker => Running \in blessed

\* What update.json, the symlink and the preflight are for: through crashes, only
\* the version at home serves, and another comes home once it has passed the
\* judgement of its boot (index.ts, blessOrRevertUpdate).
Trial == INSTANCE VersionTrial WITH
  home   <- IF marker = NoMarker THEN current ELSE marker.prev,
  trial  <- IF marker = NoMarker THEN {} ELSE {marker.to},
  passed <- blessed,
  served <- IF unit = "serving" THEN {current} ELSE {}
ImplementsVersionTrial == Trial!Spec

\* fetch.ts:94 "Any failure leaves NO partial dir behind": what gets a version's
\* name is a whole release, whatever fails or dies; only a collection leaves a
\* part of one.  Two callers that fetch the same release share its .staging-
\* directory, and break it.
FetchesLeaveWhole == [][partial' \ partial \subseteq dirs]_vars

\* preflight.mjs:4 "so a broken new version cannot break its own recovery": a
\* version that dies on boot, or a part of one, never takes the daemon away for
\* good.  A preflight that takes a late failure for an early one breaks it.
ServesAgain == []<>(unit = "serving")

\* "Every TERMINAL phase deletes the file": an update in flight comes to its
\* verdict, and the marker goes.
UpdateSettles == marker # NoMarker ~> marker = NoMarker

(* Statements of the repository that the code does not keep. *)

\* marker.ts:10 "an infinite swap/revert loop is impossible".
NoSwapRevertLoop == <>[](marker = NoMarker)
=============================================================================
