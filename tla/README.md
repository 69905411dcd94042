# Verification of Miro

Miro (`src/README.md`, `src/docs/protocol.md`) is a daemon, `mirod`, that
manages a Linux server for its owner: a language-model agent proposes changes,
the daemon plans, confirms, applies, verifies and, if need be, undoes them. This
directory holds TLA+ models of the parts of `mirod` that carry its safety
promises, the TLC runs that check them on small instances, and TLAPS proofs for
every value of their constants. `PROJECT.json` maps every definition to the
lines it models.

Run a model with `tlc -config <cfg> <module>`: the `Engine*` cfgs with
`MCOperationEngine`, `Update*` with `SelfUpdate`, `Extension*` with `Extensions`,
`Power` with `PowerMonitor`, `Connection*` with `Connections`. Check proofs with
`tlapm <module>Proofs.tla`.

## Inventory

Paths are below `src/apps/mirod/src/` unless they start with `src/`.

| Component | State it keeps | Operations | Interacts with | What makes it correct |
|---|---|---|---|---|
| Operation engine (`operations/engine.ts`, `store.ts`) | `operations` rows, the write lock's promise chain | `runOperation`, `reconcileOperations` | kinds, clients' answers, memory, notifications | one change at a time; no dangerous change unapproved; a terminal word that is true; a crash never undoes the wrong thing |
| Operation kinds (`operations/kinds/`) | captures in rows, per-params WeakMaps | describe, captureState, apply, verify, rollback, reconcile | the engine, docker, systemd, files, HTTP | rollback restores what capture saw; reboot is judged by the boot id |
| Self-update (`self-update/`, `src/apps/mirod/preflight.mjs`) | `update.json`, the `current` symlink, version directories | `stageUpdate`, preflight, `blessOrRevertUpdate`, GC, `updateCheckTick` | systemd, the severity oracle, notifications | always a way back; a crash loop ends; what the owner is told is true; no swap/revert loop |
| Prodtest, retry ledger, severity (`operations/`) | committed rows; per-turn failures | `reverifyCommitted`, `check`/`record`, `computeSeverity` | engine | only the latest commit per target is re-verified; no identical retry in a turn |
| Classification, sandbox, snapshot, trash (`operations/`) | none / snapshot directories | `classify`, `runSandboxed`, `restoreSnapshot` | shell-command kind | a dangerous command is classed as one (string processing) |
| Extensions (`extensions/`, `agent/extension-tools.ts`, `capabilities/extensions.ts`) | extension rows, live and staging directories, `inProgress`, host sessions, pins | call, probe, route, learn, repair, validate, promote, host start/reap | agent, child processes | the pin is that of the files; no session runs superseded code; a breaker that bounds repairs; nothing of a draft stays |
| Notifications (`notifications/`) | rows with delivery stamps | `notify`, `replayUndelivered` | everybody, phone sinks | nothing the owner should see is lost; a phone is not spammed |
| Capabilities (`capabilities/`) | cooldowns, usage counters | route, record usage | web search and fetch providers | budgets hold; a failing provider is left alone, then tried again |
| Connections, turns (`index.ts`, `agent/turn-guard.ts`) | per-connection state, pending answers, active turns | accept, answer, close, turn | clients, engine | every pending question is answered or closed; turns end |
| Power monitor (`index.ts` 502-568) | last UPS status, armed, triggered | tick | engine (system.shutdown) | one shutdown per low battery, announced; no shutdown loop at boot |
| Devices, transports (`devices/`, `iroh.ts`, `socket-guard.ts`, `web/`) | tokens, pairing codes | pair, authenticate, revoke | connections | no event before authentication; revoked means closed |
| Backup, memory, stacks, secrets, inventory, setup | own tables or git tree | push/restore, remember, CRUD, probes | engine hooks | mostly I/O |
| Protocol, TUI, web client, SDK | none / UI state | rendering | daemon | types |
| Vendored packages (`src/packages/agent-*`, `model-*`, ...) | - | - | - | third-party |

Hard behaviours: coroutines of several connections and timers interleave at
every `await`; the daemon may die at any await and the power at any rename, and
the next boot judges what it finds; questions race timeouts; gates are read
before waits and used after them; the preflight and the daemon share a file but
not a process. `PROJECT.json` lists each such place under `hazards`.

## What is modelled

### OperationEngine

One coroutine per operation (`pc`), all in one daemon; `phase`, `plan`, `auto`,
`error` and `captured` are the columns of the row; `queue` is the promise chain
of `withWriteLock`, its holder first. An action is the code between two awaits,
so `PlanGate`, for instance, evaluates the gate, stores the plan and joins the
lock's queue in one step, as JavaScript does. `server` says what each target
holds: its original content or the operation that wrote it last. That is all the
properties need of files, units, containers and URLs.

| Action | Code |
|---|---|
| `Submit`, `DescribeThrows`, `RefuseScope`, `PlanGate` | `runOperation` up to the question, with `badWriteScope`, `unattendedGate`, strict mode (an input), `setPlan` |
| `Approve`, `Cancel` | the answer to `op_confirm`, a closed connection included |
| `AcquireLock`, `CaptureFails`, `Capture` | `withWriteLock`, the severity baseline, `captureState`, `setCapturedAndApplying` |
| `ApplyEffect`, `ApplyReturns`, `ApplyThrows` | `kind.apply`: may fail before or after its effect; reboot and shutdown never return |
| `CommitVerified`, `AskReachability`, `VerifyFails`, `CommitUnverified`, `VerifyRejects` | `kind.verify` and the severity rule |
| `Keep`, `NotKept` | the reachability question and its window |
| `Undo`, `RecordUndo` | `kind.rollback` (may fail, its failure is swallowed), then `setPhase` and `onTerminal` |
| `Crash`, `Sweep`, `Judge...`, `BootRecord`, `BootDone` | death of daemon or box, `reconcileOperations` row by row, the socket binding |
| `HourPasses`, `CooldownPasses` | rows leaving the two windows the gate reads |

A kind is what the engine can see of it, the record `PlanType`: class,
irreversible, auto-approval, whether its verify observes the change, whether its
apply ends the daemon. The severity oracle is part of the nondeterminism of
`CommitVerified`/`VerifyFails`. Left out: messages to clients, `notify`,
`reflect`, `afterOperation` (no effect on this state), the retry ledger (it
refuses before anything is recorded), torn rows and unknown kinds (SQLite writes
one row atomically; kinds are compiled in). The answer "approve" comes from a
human, except in the UPS monitor's context, which answers for the owner.

`SerialChanges` is the abstract specification: changes happen one at a time,
each remembers what its target held, may put it back, and ends once. There is no
crash, lock or boot in it. `OperationEngine` implements it (`Serial`, with rows
between capture and outcome as the current change), if no verify rejects.

### SelfUpdate

`marker` is `update.json`, `current` the symlink, `dirs` the version
directories, `unit` the step systemd's start is at. Each rename of the preflight
is a step of its own, so the power may fail between symlink and marker
(`swappedIn`, `swappedBack`). What throws in it ends in one of its two catches:
`PreflightGivesUp` is the inner one, whose own write goes through, and
`PreflightStuck` the outer one, after which the daemon starts with the marker as
it was: both writes of the pending branch failed, or the write of the count, a
swap back, or the write after it. The boot has its verdict and the removal of
the marker in two steps; a "revert_requested" that cannot be written ends the
daemon (`RevertNotWritten`), and a marker that cannot be removed stays
(`MarkerNotCleared`). `diskFails` counts these failures for one staged update,
and `boots` every start of the version in the marker, whatever its phase. A
collection goes from directory to directory in place: the power may fail in the
middle of it (`CollectionCut`) and a removal may fail in a part of a directory
(`Bless`), which then keeps the version's name. Owner and auto-install are two
callers that may both be between their checks and `writeMarker`. `Broken`
versions die before they can judge themselves, `Frail` ones if their directory
is not whole (which files are missing is not modelled: a version always dies of
it or never does); health is a choice at the judgement. A version is a number,
ordered as `Bun.semver.order` orders. Releases may appear and be withdrawn at
any time. `fetchAndStage` is its awaits: the download (`BeginInstall`), the
making of `.staging-<v>` (`MakeStaging`), tar and bun install up to the rename
(`RenameStaged`), and its failures with their clean-up (`FetchFails`). `maker`
says whose directory has that name now, and `partial` which versions'
directories are not whole: torn by a collection, or renamed by one caller when
another had just remade it. What is in the tarball, Sigstore and GitHub are not
modelled.

`VersionTrial` is the abstract specification: one version is at home and only it
serves; another is at most on trial, comes home only after it has passed, and
nothing serves before the trial is settled. There is no symlink, preflight, count
of boots or power failure in it. `SelfUpdate` implements it (`Trial`: home is the
revert target while there is a marker, else `current`), where the preflight, the
restart and the swap back do what they are asked.

### Extensions

One learned app: `row` is its row in the extensions table, `live` and `staging`
what its two directories hold, `host` and `draftHost` the processes in the
sessions map keyed on them. Several actors share all that: each is one activity
that may be under way in the daemon, with the locals it carries over its awaits.
An action is the code between two awaits, so `TriggerRepair` records the failure,
asks the pin and the breaker and reaches the await of the model in one step,
while `StartRepair`, which raises the count, is another.

| Action | Code |
|---|---|
| `BeginCall`, `BeginRoute` | `execute` of an extension's tool, `reprobeExtensions`, a routed capability: `assertPinned` (routes skip it), `host.call` up to the request |
| `HostReady`, `HostTimeout`, `Reap` | `host.ts`: load and "ready", the request timeout or a dead process, `reapIdle`; `teardown` rejects whoever waits (`Cut`) |
| `HostAnswers`, `OperationEnds`, `CallFails`, `OperationRejects` | the ends of a call, `recordSuccess`, `maybeTriggerRepair` |
| `NoModel`, `StartRepair`, `RepairEnds` | `repair.ts` after its awaits, the breaker at the end, the retry of a read |
| `SessionRejects` | `spawnLearningAgent` rejects: the flow's finally, and neither hot-loading nor breaker |
| `BeginLearn`, `StartLearn`, `Regenerate`, `LearnEnds` | `runLearnFlow` and the hot-loading of the tools |
| `Write`, `WriteRejected`, `Inspect`, `Probed`, `ValidationFails`, `Promote`, `PromoteThrows` | `extension_write` and `validateExtension` |
| `NewTurn`, `EditOnDisk`, `Crash` | a new agent's list of tools; somebody edits the files; the daemon dies, perhaps inside a promotion |

A draft is good or not: the probes of a good one pass while the app answers. The
capability probes and dry runs are counted among the probes, the dead-app check
is `Probed`. Left out: learn flows that learn other apps on the way, the learning
agent's other tools and browser, `manifest.json` (written and hashed with the
code), the `prev` directory, which nothing reads.

### Notifications and PowerMonitor

`Notifications` is the bus: `notify` is an operator that callers make part of
their actions, as the code calls it without an await. A row is abstracted to what
is ever asked of the table: is a row of this title undelivered (`queue`), is one
younger than twelve hours (`recent`). What the database refuses, the read before
anything or the insert after the broadcast, is swallowed and skips the phone
(`DatabaseMayFail`). `Connect` puts the client in the broadcast set and replays;
a client may be `dying`, in the set with a socket that throws, which `broadcast`
does not count as reached. `Feedback` demotes or restores a class, `Configure`
adds a phone channel, also when the client that asked has left (`visited`).
`rang` and `muffled` are history. Not modelled: a replay that throws, which would
leave its sink in the set (see Findings), and a write to a closed socket that
does not throw, which counts as sent here as it does in the code.

`PowerMonitor` composes the bus with `powerMonitorTick`: one action per branch of
the tick, each with its notice, `Flushed` and `ShutdownFails` for the rest of an
emergency, `Down`/`Boot` for the box (the three module variables start anew, the
database stays), `UpsChanges`, `Settings`, and `Bus`, what clients and the clock
do meanwhile. A tick has its reading in 5 seconds and polls are 30 apart, so
readings are not overlapped; an emergency may outlive several ticks. The
shutdown is an operation of the engine's model.

### Connections

`state` and `pending` are the connections and their `pendingAnswers`; a job is a
tool call of a turn (several run in parallel) or an operation started by a
button, at the place where it may ask. `Ask` is `send` with `waitForAnswer`
(it overwrites what is registered under the id), `Answer` the client's message,
`WindowCloses` the lifeline timer with `cancelAnswer`, `Disconnect` the teardown
with `cancelPending`, in one turn of the event loop. Questions mint an id each
but for `codegen_policy`. The gates are abstracted to what they take for approval
(`Approves`). Left out: provider setup dialogs, views and pairing; replay on
connect is in `Notifications`.

## Runs

| Run | Instance | Shows |
|---|---|---|
| `engine_faults` | 2 operations, 8 plans (every class of plan the kinds return), budget 1, 2 crashes, rejecting verifies | types, exclusivity, consent, true outcomes, incidents, budget |
| `engine_serial` | 3 operations, 2 plans on one target, 2 crashes | `SerialChanges` is implemented; captures stay valid; no residue; commits are not erased |
| `engine_live` | 2 operations, 4 plans, 1 crash, fairness | an operation that asked for the lock ends |
| `update_faults` | 4 versions (one broken, one frail), 2 callers, 1 crash, 1 failing write or swap per update, failing removals and restarts, fairness | way back, and it is whole; bounded boots; true reports; the daemon serves again |
| `update_live` | 4 versions, owner, 2 crashes, failing removals, fairness | updates settle; `VersionTrial` is implemented, so only judged versions serve; a fetched version is whole when it gets its name |
| `extension_life` | 2 actors, a good and a bad draft, 1 edit or crash, fairness | pins and sessions in step with the promoted code, repairs bounded, no lock-out, nothing left of drafts, calls end |
| `power` | 1 client, the monitor's 5 titles, 3 changes of the UPS, 2 boots, 2 emergencies at once, a database that may refuse, fairness | no notice withheld or rung twice, no shutdown loop, every low battery after line power handled |
| `connection_questions` | 2 connections, 2 jobs | no teardown approves, nobody is stranded, no stale resolver |
| `engine_rejected_verify`, `update_loop`, `extension_overlap`, `connection_closed` | smallest instance | statements of the repository the code does not keep, see Findings |

Bounds. Two operations show every pairwise interleaving at the lock, three a
queue with a waiter behind a waiter; a second crash falls into the recovery from
the first, which is the only state a crash can find that one crash cannot. A
budget of 1 is reached by the first operation. Four versions let GC have a
directory to remove beside current and previous, with `MaxAttempts` 2 and
`KeepVersions` 3 as in the code; it removes one directory at most, so what a
collection does with several is left to the proofs. `MaxCrashes` and
`MaxDiskFails` bound only the environment; the second counts anew for each staged
update. One failing write and one crash show each place where one may happen
before, between and after the other; that more of them change nothing for the
safety properties is proved. `update_live` takes a second crash and no failing
write: `UpdateSettles` and `VersionTrial` do not survive a marker that cannot be
written or removed. Operations are symmetric and `engine_faults`/`engine_serial`
use that; `engine_live` does not, as symmetry is unsound for liveness.

Two actors show each overlap of a call, a repair and a learn flow with another;
that there may be more is left to the proofs. The thresholds of `extension_life`
are smaller than in the code (a repair at the second failure, one repair, one
write in a session, two sessions), so that each is reached and passed;
`extension_overlap` takes the code's own but for the threshold, which plays no
part in it. One fault is enough for a promotion that is cut off and everything
after it. Three changes of the UPS let a low battery come, go and come again;
two boots let the second come in the middle of it; `MaxInFlight` 2 lets an
emergency begin while an earlier one still waits for its backup. One client
comes, dies before its teardown and leaves; that one may be dying while another
lives is left to the proofs. Two connections and two jobs give parallel
questions on one connection and a job whose connection is gone while the other's
lives.

The engine and connection cfgs turn deadlock checking off because a finite set
of operations ends, and jobs may wait for ever for an answer nobody gives.

Fairness. Engine: weak fairness of each operation's unattended steps and of the
boot: the event loop runs what is runnable, command timeouts bound apply, verify
and rollback, the window bounds the reachability question, systemd restarts the
daemon (`Restart=on-failure`). None for humans, planning, crashes or clocks.
Update: weak fairness of preflight, boot and restart: `ExecStartPre` always
exits 0, `SETTLE_MS` bounds the judgement, and the failed starts, two and one
for each failing write, stay below `StartLimitBurst=8`. None for installs.
Extensions: weak fairness of the request timeout, of the reaper (an interval of
a minute) for a host that is not ready, and of what a call, a sweep or a repair
does next; none for a host getting ready, for learn flows and operations, which
ask a user. Power: weak fairness of the tick (an interval) and of the end of the
push, which git bounds; none for the UPS, the owner or the shutdown.
Connections: none, its properties are invariants.

Each property has a mutant: an operator marked "A bug" before the definition it
changes, which makes the property fail.

## Findings

With a run that shows them:

- `engine_rejected_verify`: `kind.verify` is awaited outside any try. A rejection
  (an HTTP verify that cannot connect) frees the lock with the row in
  `verifying`; the next boot rolls it back over whatever was committed since.
- `update_loop`: auto-install installs a reverted release again at the next boot.
- `extension_overlap`: two writers of an app share its staging directory; one's
  draft is promoted and pinned on the strength of the other's validation.
- `connection_closed`: a connection that drops at a masked prompt has the closing
  marker stored as the credential.

Met while modelling, visible in a definition, without a run (`PROJECT.json`
quotes the lines): one catch covers the preflight's swap and the write after it,
so that a write that fails leaves the new version current under a marker that
says it was rolled back, and if that version dies on boot nothing brings the old
one back (`LateFailure`); two callers that fetch the same release share its
`.staging-` directory, and a half-unpacked one may get the version's name
(`RenameStaged`); an insert that fails takes the phone push with it, so that
with nobody connected the emergency shutdown begins unsaid (`DatabaseMayFail`);
a collection that is cut off leaves a part of a version that is offered as
staged; a client whose socket throws makes the emergency's shutdown fail, and a
replay that throws leaves its sink in the broadcast set; an unanswered
reachability question calls an irreversible change rolled back; refused and
capture-failed operations start the cooldown, and the cooldown is not looked at
again after the wait for the lock; the fixed id `codegen_policy` strands the
first of two questions, and a dropped connection answers it for good; the pin is
not checked for a disabled row nor for a routed capability; the repair breaker
may be passed by as many as wait for their model, and a repair that gives up
disables whatever version is there by then; strict mode switched off does not
resume a shutdown; the UPS monitor arms on any reading without low battery, line
power or not; a title that could not ring the phone still keeps its next notice
off it.

`VerifyMayReject`, `LateFailure` and `DatabaseMayFail` separate three of these
from the rest. With them FALSE the affected properties hold:
`CommittedNotErased` and its like, `ServesAgain` with `CrashLoopEnds` and
`TrueReports`, and `NeverDownUnsaid`, which the passing runs and the theorems
show. With them TRUE TLC finds `CommittedNotErased`, `ServesAgain` and
`NeverDownUnsaid` violated, the first in `engine_rejected_verify`, the others
when `update_faults` is run with `LateFailure` TRUE and when `NeverDownUnsaid`
is put among the properties of `power`. `FetchesLeaveWhole` fails in the same
way when `update_live` is given a second caller. For the others a theorem names
the one cause, as a hypothesis on the behaviour: `LoneWriterIsSafe` (two
validations of an app at once), `FetchesApartAreWhole` (two fetches of a version
at once), `SecretsAreSafe` (a connection that closes over a masked prompt),
`OnlyPolicyStrands` (two policy questions of a connection at once). Where the
cause is absent, the property holds through every other interleaving, failure
and crash.

## Proofs

All theorems hold for every set of operations, targets, plans, versions, actors,
drafts, clients and jobs and every bound. Assumptions are those of the modules:
plans are of `PlanType`; the kinds that end the daemon plan an irreversible
lifeline change (as `reboot.ts` and `shutdown.ts` do); `Original` and `None` are
distinct from operations, and `None` from what a secret may be; versions are
numbers, and finitely many; the initial version is not broken; actors and
clients are finite sets; thresholds and bounds are positive; the monitor's
titles and source are among those of the bus.

- `OperationEngineProofs`. `IInv` is `TypeOK` and `ControlInv`: where a coroutine
  may be suspended given its row, that a row past capturing has plan and capture,
  that whoever is inside the lock is the head of its queue, and that no coroutine
  runs during the boot. `WriterExclusivity` is not inductive without the third
  (`Exclusion`). `Serialization` (if no verify rejects) adds `OneInFlight` and
  `CaptureStaysValid`: a row between capture and outcome is the lock holder's or
  the boot's, so an operation that captures is alone (`CapturerIsAlone`), and
  only the one row in flight writes its target (`OwnWriteKeepsSerialInv`).
- `OperationSafetyProofs`. `SafeInv` ties the histories to the rows: who is past
  the confirmation was approved or auto-approved under the rule, what was touched
  has a capture, what reached the reachability question is a verified lifeline.
  From it `QuietEnds`, `Consent`, `LifelinesConfirmed`, `RollbacksAreReal`,
  `RebootsAreJudged` and `IncidentsAreComplete`, also with rejecting verifies.
  `BudgetHolds` needs that a row has no auto_approve before its plan, and that the
  rows of the hour that have it are finitely many: the gate tests and `setPlan`
  counts in one stretch, so one row is added only below the limit.
- `OperationSerialProofs`. `ResidueInv` says whose content an operation may have
  captured: that of an earlier one of the same target, which is over and, if
  rolled back, failed to take its change away. It is why an undo, which writes a
  capture, brings nothing back (`RollbacksLeaveNothing`). `CommitsStay` needs only
  `SerialInv`: if the row in flight is to lose its target's content to an undo,
  that content is its own or its capture. `ReachInv` (whoever waits for the far
  side's answer holds the lock, so its change is still in place) gives
  `CommitsAreInPlace`, also with rejecting verifies. `EngineIsSerial` is the
  refinement: a capture is a `Begin` because the capturer is alone, apply is
  `Write`, a restoring undo `PutBack`, an outcome `Finish`, an end before the
  capture `Decline`, and everything else, a crash and a boot included, leaves
  rows, targets and the change in flight as they are (`QuietStepStutters`).
- `OperationProgressProofs` proves what safety contributes to progress, also with
  rejecting verifies. `LockChain` says that the lock's queue holds each operation
  at most once and exactly those that wait or work inside; with `IInv` it gives
  `NoDeadLink`: nobody waits behind an operation that is over. `RowsNeverGoBack`
  fixes the order of the phases and that plan and capture are written once, which
  `PlanInv` (no plan before `setPlan`) makes inductive, so what an undo after a
  crash puts back is what was captured before the apply. `NoRowIsForgotten`: only
  a rejected describe or verify leaves a row without a coroutine while the daemon
  is up.
- `SelfUpdateProofs`. `UpdateInv` says where the symlink points for each marker
  and start step, and that what is about to be staged is on disk. From it
  `WayBack`, and `TrueReports` if the preflight cannot fail after its swap. Under
  the same assumption `BootsInv` counts: each start of the version on trial is an
  attempt on record, or a write or swap that failed (`DiskFailsOnce`); a marker
  that says "reverting" has the old version current. From it `CrashLoopEnds`;
  without the assumption a version left current under "reverting" starts without
  bound. `PartialStep` says which steps leave less than a
  whole version: a collection, which tears only what it may remove, and the rename
  of another's `.staging-` directory, whose name was free. No version in use is
  either (`UsedVersionsAreWhole`), whatever fails. `StagingInv` (a fetch that is
  unpacking finds its own directory) is inductive if no two callers fetch one
  version at once, which gives `FetchesApartAreWhole`. `BlessedInv` (a revert target
  is blessed, a serving daemon runs what is blessed) gives `OnlyBlessedServe` where
  neither the late failure, nor a failed restart, nor a failed write or swap
  happens; with any of the three an unjudged version may stay, and then become the
  revert target of the next update.
  `UpdateIsATrial` is the refinement of `VersionTrial` from the same invariants:
  `Stage` begins a trial, `Bless` passes it, `ClearMarker` settles it, the end of a
  boot without a marker resumes, and all else leaves home and trial as they are,
  at most with the daemon stopped (`QuietStep`). `WayInv` (what is told is about
  the marker to be cleared, a marked symlink is at one of its two ends, a restart
  is due only to a daemon that runs) holds with every failure and gives `UpdatesNeverGoBack` and
  `SwapsAreOrdered`: one staging takes at most `MaxAttempts` + 3 writes of the
  marker and two moves of the symlink. It is the part of "an infinite swap/revert
  loop is impossible" that holds; the loop of `update_loop` stages anew each round.
- `ExtensionsProofs`. `MovesBy` reduces every action to what it does to its actor
  and that it leaves the others alone but for the session they waited for;
  `RowSteps` and `FileSteps` say what becomes of the row, the files and the live
  session. `PinIsTrue` and `NoStaleSession` need no more. `NoLockOut` needs that
  only a learn flow at work has a regeneration (`LearnInv`). `AttemptsBounded` is
  not inductive: `BreakerInv` adds those who have passed the breaker's test and
  not raised the count yet, by cardinality (`BreakerBounds`). `LoneWriterIsSafe`
  assumes that validations of the app do not overlap; then `CheckedInv` is
  inductive: what is staged is what the probes run against, and good after them.
- `PowerMonitorProofs`. `NotifyKeepsBusInv` states once what `notify` keeps and
  adds; each branch of the tick cites it. A title that rang has a row in the
  window (`RingInv`), from which `PhoneRings`. `ArmedInv` ties the three variables
  of the monitor to what was read since the last emergency: armed means calm since
  or already triggered, not triggered means line power or a boot since; from it
  `ShutdownsAreApart`. `EmergencyIsSaid` assumes that the database takes what
  `notify` writes; then it holds of every emergency of every boot, also with
  clients that are dying.
- `ConnectionsProofs`. `ResolversAreLive` is what makes the rest inductive: a
  teardown resolves exactly those who wait on its connection. `TypedConsent` and
  `NobodyStranded` follow. `SecretsAreSafe` needs that an answer or a teardown
  reaches only live questions; `OnlyPolicyStrands` extends `NobodyStranded` to the
  policy question.

Only model-checked: `LockedOperationsEnd`, `ServesAgain`, `UpdateSettles`,
`CallsEnd` and `LowBatteryIsHandled`: liveness under fairness is out of the
prover's reach. Every safety property and both refinements of the passing runs
are proved. `OnlyBlessedServe`, `NeverDownUnsaid`, the action properties of
`OperationProgressProofs` and those of the way of one update are stated for
their proofs and have no run of their own. No module uses a RECURSIVE operator;
there is no induction over data in them.

## Plan

Done, in order of importance: `OperationEngine` with `SerialChanges`;
`SelfUpdate` with `VersionTrial`; `Extensions`; `Notifications` composed with
`PowerMonitor`; `Connections`; their runs and theorems.

Next:

1. The boot's reports (`index.ts` 274-276) through `Notifications`, to state which
   verdicts reach the owner when the daemon dies again in between.
2. A `.staging-` directory that a crash leaves behind and `availableVersions`
   offers, in `SelfUpdate`.
3. `Connections` and `OperationEngine` composed: the answer of a human as a
   message of a connection instead of a choice.
4. The capability router (cooldowns and monthly budgets), `Devices` (pairing and
   what is served before authentication), the retry ledger.

## Not modelled

By lines, most of the repository is the vendored packages (`src/packages`, among
them a model catalogue, provider wire formats and a schema engine) and the two
clients: parsing, rendering and tables without a protocol of their own. What is
modelled is where `mirod` keeps its promises over awaits, crashes and several
parties. Left out besides:

- classification and sandbox arguments: string processing without state;
- inventory, memory, stacks, secrets, setup: stores of single statements and
  probes; backup beyond the push the power monitor awaits;
- the agent's decisions, which are a language model's: what it may call is a
  choice in every model;
- prodtest, the retry ledger, the capability router, devices and transports:
  small state machines of one party, see Plan;
- learning other apps on the way and provider dialogs: see the modules that leave
  them out.
