-------------------------- MODULE OperationEngine --------------------------
(***************************************************************************)
(* The operation engine of mirod (apps/mirod/src/operations/engine.ts and  *)
(* store.ts): every change Miro makes to the server is an operation with a *)
(* durable row, run as                                                     *)
(*   plan -> confirm -> lock -> capture -> apply -> verify -> commit / undo*)
(* by one coroutine per operation, all of them in one daemon that may die  *)
(* at any await and reconciles the rows it left behind at its next boot.   *)
(*                                                                         *)
(* A step of the model is the code between two awaits: JavaScript runs it  *)
(* to completion, so no other coroutine sees its middle.  A crash may fall *)
(* at every await.  What kind.apply, kind.verify and kind.rollback do is   *)
(* the environment's choice, within what their plan declares.              *)
(***************************************************************************)
EXTENDS Naturals, Sequences, FiniteSets

CONSTANTS Ops,              \* operation ids (crypto.randomUUID in the code)
          Targets,          \* what an operation changes: a file, a unit, a stack
          Plans,            \* the plans kind.describe may return
          Original,         \* a target's content before any operation
          None,             \* null
          MaxUnattended,    \* MAX_UNATTENDED_OPS_PER_HOUR
          VerifyMayReject,  \* may the promise of kind.verify reject?
          MaxCrashes        \* bound on the crashes of one behaviour

(***************************************************************************)
(* OperationPlan.  `checks`: verify observes the change itself (a shell    *)
(* command without a verify command does not).  `badScope`: badWriteScope  *)
(* refuses plan.writes.  `endsDaemon`: the kind has a reconcile hook,      *)
(* because its apply ends the daemon (system.reboot, system.shutdown).     *)
(***************************************************************************)
PlanType == [class : {"mutate", "destructive", "lifeline", "forbidden"},
             irreversible : BOOLEAN, autoApprove : BOOLEAN,
             badScope : BOOLEAN, checks : BOOLEAN, endsDaemon : BOOLEAN,
             target : Targets]

ASSUME PlansAssumption == Plans \subseteq PlanType
\* reboot.ts and shutdown.ts: both kinds with the hook plan an irreversible
\* lifeline change.
ASSUME EndsDaemonAssumption ==
  \A p \in Plans : p.endsDaemon => p.irreversible /\ p.class = "lifeline"
ASSUME OriginalAssumption == Original \notin Ops
ASSUME BoundsAssumption ==
  /\ MaxUnattended \in Nat
  /\ MaxCrashes \in Nat
  /\ VerifyMayReject \in BOOLEAN

\* null: no plan, no capture, no operation, no change in flight.
ASSUME NoneAssumption ==
  /\ None \notin Ops \cup {Original} \cup Plans
  /\ None \notin [op : Ops, target : Targets, saved : Ops \cup {Original}]

VARIABLES
  (* the operations table *)
  phase,      \* row.phase; "none": no row yet
  plan,       \* row.plan
  auto,       \* row.auto_approve
  error,      \* why a row is rolledback (row.error, by its kind)
  captured,   \* row.captured_state
  (* the other things on disk or on the box *)
  server,     \* what each target holds: Original, or the operation that wrote it
  incidents,  \* the operations with an incident memory row
  rebooted,   \* self-ending operations the box rebooted under
  young,      \* rows created within the last hour
  cooling,    \* rows rolledback within the last ROLLBACK_COOLDOWN_MS
  (* the daemon's memory *)
  daemon,     \* "up", or "boot" while reconcileOperations runs
  pc,         \* where each runOperation coroutine is suspended
  queue,      \* the write lock's promise chain, its holder first
  bootUndo,   \* the row reconcileOperations has undone and not yet recorded
  (* history *)
  touched,    \* operations whose apply has reached the server
  landed,     \* operations whose apply returned
  approved,   \* operations a human approved
  kept,       \* lifeline operations a human confirmed from the far side
  undoFailed, \* operations whose rollback did not restore the capture
  crashes     \* how often the daemon died

rows     == <<phase, plan, auto, error, captured>>
volatile == <<daemon, pc, queue, bootUndo>>
clock    == <<young, cooling>>
history  == <<touched, landed, approved, kept, undoFailed, crashes>>
vars     == <<rows, server, incidents, rebooted, clock, volatile, history>>

-----------------------------------------------------------------------------
(* Phases, program counters and the predicates the code computes from them *)

Early    == {"planning", "awaiting_confirmation", "capturing"}
Mid      == {"applying", "verifying"}
Terminal == {"committed", "rolledback"}
Phases   == {"none"} \cup Early \cup Mid \cup Terminal

Errors == {"none", "refused", "cancelled", "interrupted", "captureFailed",
           "undone"}

\* Where a coroutine awaits.  Those of Holding await inside withWriteLock.
Holding == {"capturing", "applying", "verifying", "reach", "undoing", "undone"}
PCs     == {"idle", "describing", "confirming", "queued", "threw", "ended"}
             \cup Holding

TypeOK ==
  /\ phase \in [Ops -> Phases]
  /\ plan \in [Ops -> Plans \cup {None}]
  /\ auto \in [Ops -> BOOLEAN]
  /\ error \in [Ops -> Errors]
  /\ captured \in [Ops -> Ops \cup {Original, None}]
  /\ server \in [Targets -> Ops \cup {Original}]
  /\ incidents \subseteq Ops /\ rebooted \subseteq Ops
  /\ young \subseteq Ops /\ cooling \subseteq Ops
  /\ daemon \in {"up", "boot"}
  /\ pc \in [Ops -> PCs]
  /\ queue \in Seq(Ops)
  /\ bootUndo \in Ops \cup {None}
  /\ touched \subseteq Ops /\ landed \subseteq Ops /\ approved \subseteq Ops
  /\ kept \subseteq Ops /\ undoFailed \subseteq Ops
  /\ crashes \in 0..MaxCrashes

\* A bug: a plan without an undo may run unattended.
EffectiveAutoApproveNoUndo(p) ==
  /\ p.class \notin {"destructive", "lifeline", "forbidden"}
  /\ p.autoApprove

\* effectiveAutoApprove: the engine's own rule, whatever the kind asked for.
EffectiveAutoApprove(p) ==
  /\ p.class \notin {"destructive", "lifeline", "forbidden"}
  /\ ~p.irreversible
  /\ p.autoApprove

\* store.countAutoApprovedSince(an hour ago).
AutoApprovedThisHour == {o \in young : auto[o]}

\* The rows store.lastRollbackAt's WHERE clause selects.
CountsAsRollback(o) ==
  phase[o] = "rolledback" /\ error[o] \notin {"cancelled", "interrupted"}

\* A bug: the limit off by one.
UnattendedGateOffByOne ==
  \/ Cardinality(AutoApprovedThisHour) > MaxUnattended
  \/ \E o \in cooling : CountsAsRollback(o)

\* unattendedGate: non-null when one of its two limits is reached.
UnattendedGate ==
  \/ Cardinality(AutoApprovedThisHour) >= MaxUnattended
  \/ \E o \in cooling : CountsAsRollback(o)

\* What a row's target holds, and whether kind.verify may answer true: a verify
\* that checks the change answers true only while the change is in place.
Content(o)    == server[plan[o].target]
CanVerify(o)  == plan[o].checks => Content(o) = o

-----------------------------------------------------------------------------
Init ==
  /\ phase = [o \in Ops |-> "none"]
  /\ plan = [o \in Ops |-> None]
  /\ auto = [o \in Ops |-> FALSE]
  /\ error = [o \in Ops |-> "none"]
  /\ captured = [o \in Ops |-> None]
  /\ server = [t \in Targets |-> Original]
  /\ incidents = {} /\ rebooted = {} /\ young = {} /\ cooling = {}
  /\ daemon = "up"
  /\ pc = [o \in Ops |-> "idle"]
  /\ queue = <<>>
  /\ bootUndo = None
  /\ touched = {} /\ landed = {} /\ approved = {} /\ kept = {}
  /\ undoFailed = {}
  /\ crashes = 0

-----------------------------------------------------------------------------
(* store.ts: the writes of a row.  setPhase also writes updated_at, which  *)
(* lastRollbackAt reads, and only of rolledback rows.                      *)

SetPhase(o, ph, err) ==
  /\ phase' = [phase EXCEPT ![o] = ph]
  /\ error' = [error EXCEPT ![o] = err]
  /\ cooling' = IF ph = "rolledback" THEN cooling \cup {o} ELSE cooling

\* A bug: the capture is stored without the phase that says so.
SetCapturedOnly(o) ==
  /\ captured' = [captured EXCEPT ![o] = Content(o)]
  /\ UNCHANGED phase

SetCapturedAndApplying(o) ==
  /\ captured' = [captured EXCEPT ![o] = Content(o)]
  /\ phase' = [phase EXCEPT ![o] = "applying"]

Goto(o, l)  == pc' = [pc EXCEPT ![o] = l]
Release     == queue' = Tail(queue)

\* The terminal steps: setPhase and onTerminal run without an await between.
Commit(o) ==
  /\ SetPhase(o, "committed", "none")
  /\ incidents' = incidents \cup {o}

RollBack(o, err) ==
  /\ SetPhase(o, "rolledback", err)
  /\ incidents' = incidents \cup {o}

\* kind.rollback(params, captured): restores the captured content, or fails and
\* the failure is swallowed.  An irreversible kind's rollback restores nothing.
Restore(o) ==
  \/ /\ ~plan[o].irreversible \/ plan[o].endsDaemon
     /\ server' = [server EXCEPT ![plan[o].target] = captured[o]]
     /\ undoFailed' = undoFailed \ {o}
  \/ /\ UNCHANGED server
     /\ undoFailed' = IF Content(o) = o THEN undoFailed \cup {o} ELSE undoFailed

-----------------------------------------------------------------------------
(* runOperation, one action per stretch between two awaits.                *)

Submit(o) ==
  /\ daemon = "up" /\ phase[o] = "none"
  /\ phase' = [phase EXCEPT ![o] = "planning"]
  /\ young' = young \cup {o}
  /\ Goto(o, "describing")
  /\ UNCHANGED <<plan, auto, error, captured, server, incidents, rebooted,
                 cooling, daemon, queue, bootUndo, history>>

\* kind.describe rejects: the exception leaves runOperation, the row stays.
DescribeThrows(o) ==
  /\ pc[o] = "describing"
  /\ Goto(o, "threw")
  /\ UNCHANGED <<rows, server, incidents, rebooted, clock, daemon, queue,
                 bootUndo, history>>

RefuseScope(o, p) ==
  /\ pc[o] = "describing"
  /\ p.badScope
  /\ SetPhase(o, "rolledback", "refused")
  /\ Goto(o, "ended")
  /\ UNCHANGED <<plan, auto, captured, server, incidents, rebooted, young,
                 daemon, queue, bootUndo, history>>

\* The gate, strict mode and setPlan run in one stretch; an auto-approved
\* operation joins the lock's queue in it too.
PlanGate(o, p, strict) ==
  /\ pc[o] = "describing"
  /\ ~p.badScope
  /\ LET autoApprove == EffectiveAutoApprove(p) /\ ~UnattendedGate /\ ~strict
     IN  /\ auto' = [auto EXCEPT ![o] = autoApprove]
         /\ Goto(o, IF autoApprove THEN "queued" ELSE "confirming")
         /\ queue' = IF autoApprove THEN Append(queue, o) ELSE queue
  /\ plan' = [plan EXCEPT ![o] = p]
  /\ phase' = [phase EXCEPT ![o] = "awaiting_confirmation"]
  /\ UNCHANGED <<error, captured, server, incidents, rebooted, clock, daemon,
                 bootUndo, history>>

Approve(o) ==
  /\ pc[o] = "confirming"
  /\ approved' = approved \cup {o}
  /\ queue' = Append(queue, o)
  /\ Goto(o, "queued")
  /\ UNCHANGED <<rows, server, incidents, rebooted, clock, daemon, bootUndo,
                 touched, landed, kept, undoFailed, crashes>>

\* Any other answer, a closed connection's CONNECTION_CLOSED included.
Cancel(o) ==
  /\ pc[o] = "confirming"
  /\ SetPhase(o, "rolledback", "cancelled")
  /\ Goto(o, "ended")
  /\ UNCHANGED <<plan, auto, captured, server, incidents, rebooted, young,
                 daemon, queue, bootUndo, history>>

\* A bug: the promise of the operation ahead is not awaited.
AcquireLockUnawaited(o) ==
  /\ pc[o] = "queued"
  /\ SetPhase(o, "capturing", "none")
  /\ Goto(o, "capturing")
  /\ UNCHANGED <<plan, auto, captured, server, incidents, rebooted, young,
                 daemon, queue, bootUndo, history>>

\* withWriteLock: the promise of the operation ahead has resolved.
AcquireLock(o) ==
  /\ pc[o] = "queued"
  /\ queue # <<>> /\ Head(queue) = o
  /\ SetPhase(o, "capturing", "none")
  /\ Goto(o, "capturing")
  /\ UNCHANGED <<plan, auto, captured, server, incidents, rebooted, young,
                 daemon, queue, bootUndo, history>>

\* A bug: a throwing capture leaves the lock taken and the row as it is.
CaptureFailsHoldingLock(o) ==
  /\ pc[o] = "capturing"
  /\ Goto(o, "threw")
  /\ UNCHANGED <<rows, server, incidents, rebooted, clock, daemon, queue,
                 bootUndo, history>>

CaptureFails(o) ==
  /\ pc[o] = "capturing"
  /\ SetPhase(o, "rolledback", "captureFailed")
  /\ Release
  /\ Goto(o, "ended")
  /\ UNCHANGED <<plan, auto, captured, server, incidents, rebooted, young,
                 daemon, bootUndo, history>>

Capture(o) ==
  /\ pc[o] = "capturing"
  /\ SetCapturedAndApplying(o)
  /\ Goto(o, "applying")
  /\ UNCHANGED <<plan, auto, error, server, incidents, rebooted, clock, daemon,
                 queue, bootUndo, history>>

\* kind.apply changes the server ...
ApplyEffect(o) ==
  /\ pc[o] = "applying" /\ o \notin touched
  /\ server' = [server EXCEPT ![plan[o].target] = o]
  /\ touched' = touched \cup {o}
  /\ UNCHANGED <<rows, incidents, rebooted, clock, volatile, landed, approved,
                 kept, undoFailed, crashes>>

\* ... and then returns; a self-ending one never does ...
ApplyReturns(o) ==
  /\ pc[o] = "applying" /\ o \in touched
  /\ ~plan[o].endsDaemon
  /\ landed' = landed \cup {o}
  /\ SetPhase(o, "verifying", "none")
  /\ Goto(o, "verifying")
  /\ UNCHANGED <<plan, auto, captured, server, incidents, rebooted, young,
                 daemon, queue, bootUndo, touched, approved, kept, undoFailed,
                 crashes>>

\* A bug: a throwing apply is taken to have changed nothing.
ApplyThrowsUntouched(o) ==
  /\ pc[o] = "applying"
  /\ Goto(o, "undone")
  /\ UNCHANGED <<rows, server, incidents, rebooted, clock, daemon, queue,
                 bootUndo, history>>

\* ... or rejects, before or after its effect.
ApplyThrows(o) ==
  /\ pc[o] = "applying"
  /\ Goto(o, "undoing")
  /\ UNCHANGED <<rows, server, incidents, rebooted, clock, daemon, queue,
                 bootUndo, history>>

\* A bug: the phase the client is told is stored in the row as well, and no
\* query of reconcileOperations knows it.
AskReachabilityStored(o) ==
  /\ pc[o] = "verifying"
  /\ CanVerify(o) /\ plan[o].class = "lifeline"
  /\ SetPhase(o, "awaiting_reachability", "none")
  /\ Goto(o, "reach")
  /\ UNCHANGED <<plan, auto, captured, server, incidents, rebooted, young,
                 daemon, queue, bootUndo, history>>

\* verify is true and the severity oracle saw no regression: a lifeline
\* operation asks whether the user is still there, any other commits.
AskReachability(o) ==
  /\ pc[o] = "verifying"
  /\ CanVerify(o) /\ plan[o].class = "lifeline"
  /\ Goto(o, "reach")
  /\ UNCHANGED <<rows, server, incidents, rebooted, clock, daemon, queue,
                 bootUndo, history>>

CommitVerified(o) ==
  /\ pc[o] = "verifying"
  /\ CanVerify(o) /\ plan[o].class # "lifeline"
  /\ Commit(o)
  /\ Release
  /\ Goto(o, "ended")
  /\ UNCHANGED <<plan, auto, captured, server, rebooted, young, daemon,
                 bootUndo, history>>

\* verify is false, or the box got worse.  What cannot be undone is recorded as
\* committed and reported as applied_unverified.
VerifyFails(o) ==
  /\ pc[o] = "verifying"
  /\ ~plan[o].irreversible
  /\ Goto(o, "undoing")
  /\ UNCHANGED <<rows, server, incidents, rebooted, clock, daemon, queue,
                 bootUndo, history>>

CommitUnverified(o) ==
  /\ pc[o] = "verifying"
  /\ plan[o].irreversible
  /\ Commit(o)
  /\ Release
  /\ Goto(o, "ended")
  /\ UNCHANGED <<plan, auto, captured, server, rebooted, young, daemon,
                 bootUndo, history>>

\* The await of kind.verify is in no try block: a rejection leaves
\* runOperation through withWriteLock's finally.
VerifyRejects(o) ==
  /\ VerifyMayReject
  /\ pc[o] = "verifying"
  /\ Release
  /\ Goto(o, "threw")
  /\ UNCHANGED <<rows, server, incidents, rebooted, clock, daemon, bootUndo,
                 history>>

\* The reachability question: "keep" ...
Keep(o) ==
  /\ pc[o] = "reach"
  /\ kept' = kept \cup {o}
  /\ Commit(o)
  /\ Release
  /\ Goto(o, "ended")
  /\ UNCHANGED <<plan, auto, captured, server, rebooted, young, daemon,
                 bootUndo, touched, landed, approved, undoFailed, crashes>>

\* ... or "rollback", a closed connection, or the window's timeout.
NotKept(o) ==
  /\ pc[o] = "reach"
  /\ Goto(o, "undoing")
  /\ UNCHANGED <<rows, server, incidents, rebooted, clock, daemon, queue,
                 bootUndo, history>>

Undo(o) ==
  /\ pc[o] = "undoing"
  /\ Restore(o)
  /\ Goto(o, "undone")
  /\ UNCHANGED <<rows, incidents, rebooted, clock, daemon, queue, bootUndo,
                 touched, landed, approved, kept, crashes>>

RecordUndo(o) ==
  /\ pc[o] = "undone"
  /\ RollBack(o, "undone")
  /\ Release
  /\ Goto(o, "ended")
  /\ UNCHANGED <<plan, auto, captured, server, rebooted, young, daemon,
                 bootUndo, history>>

-----------------------------------------------------------------------------
(* The daemon dies: its coroutines, its lock and its clock-free memory go. *)
(* box: the whole machine went down with it and comes back rebooted.       *)

Crash(box) ==
  /\ crashes < MaxCrashes
  /\ crashes' = crashes + 1
  /\ daemon' = "boot"
  /\ pc' = [o \in Ops |-> IF pc[o] = "idle" THEN "idle" ELSE "ended"]
  /\ queue' = <<>>
  /\ bootUndo' = None
  /\ rebooted' = IF box THEN rebooted \cup {o \in Ops : /\ phase[o] = "applying"
                                                        /\ plan[o].endsDaemon}
                        ELSE rebooted
  /\ UNCHANGED <<rows, server, incidents, clock, touched, landed, approved,
                 kept, undoFailed>>

(* reconcileOperations, one row at a time.                                 *)

NoEarlyRow == \A o \in Ops : phase[o] \notin Early

Sweep(o) ==
  /\ daemon = "boot" /\ phase[o] \in Early
  /\ SetPhase(o, "rolledback", "interrupted")
  /\ UNCHANGED <<plan, auto, captured, server, incidents, rebooted, young,
                 volatile, history>>

Judging(o) ==
  /\ daemon = "boot" /\ NoEarlyRow
  /\ bootUndo = None
  /\ phase[o] \in Mid

BootCommit(o) ==
  /\ Commit(o)
  /\ UNCHANGED <<plan, auto, captured, server, rebooted, young, volatile,
                 history>>

BootRestore(o) ==
  /\ Restore(o)
  /\ bootUndo' = o
  /\ UNCHANGED <<rows, incidents, rebooted, clock, daemon, pc, queue, touched,
                 landed, approved, kept, crashes>>

\* A bug: the reboot is taken to have happened.
JudgeOwnBlind(o) ==
  /\ Judging(o) /\ plan[o].endsDaemon
  /\ BootCommit(o)

\* kind.reconcile of reboot and shutdown: the boot id tells whether the box
\* really went down.  applied_unverified is stored as committed.
JudgeOwn(o) ==
  /\ Judging(o) /\ plan[o].endsDaemon
  /\ IF o \in rebooted THEN BootCommit(o) ELSE BootRestore(o)

\* The bug of audit E1: an irreversible row falls into the rollback branch.
JudgeIrreversibleRollback(o) ==
  /\ Judging(o) /\ plan[o].irreversible /\ ~plan[o].endsDaemon
  /\ BootRestore(o)

JudgeIrreversible(o) ==
  /\ Judging(o) /\ plan[o].irreversible /\ ~plan[o].endsDaemon
  /\ BootCommit(o)

\* The bug of audit E2: a lifeline change is committed at boot.
JudgeVerifiedHeadless(o) ==
  /\ Judging(o) /\ ~plan[o].irreversible
  /\ CanVerify(o)
  /\ BootCommit(o)

\* A bug: a row in applying is taken to have been applied.
JudgeVerifiedBlind(o) ==
  /\ Judging(o) /\ ~plan[o].irreversible
  /\ IF plan[o].class = "lifeline" THEN BootRestore(o) ELSE BootCommit(o)

JudgeVerified(o) ==
  /\ Judging(o) /\ ~plan[o].irreversible
  /\ CanVerify(o)
  /\ IF plan[o].class = "lifeline" THEN BootRestore(o) ELSE BootCommit(o)

\* verify answers false or rejects.
JudgeUnverified(o) ==
  /\ Judging(o) /\ ~plan[o].irreversible
  /\ BootRestore(o)

\* A bug: the boot path writes no incident.
BootRecordNoIncident(o) ==
  /\ daemon = "boot" /\ bootUndo = o
  /\ SetPhase(o, "rolledback", "undone")
  /\ bootUndo' = None
  /\ UNCHANGED <<plan, auto, captured, server, incidents, rebooted, young,
                 daemon, pc, queue, history>>

BootRecord(o) ==
  /\ daemon = "boot" /\ bootUndo = o
  /\ RollBack(o, "undone")
  /\ bootUndo' = None
  /\ UNCHANGED <<plan, auto, captured, server, rebooted, young, daemon, pc,
                 queue, history>>

\* A bug: the socket is bound before the crashed operations are reconciled.
BootDoneEarly ==
  /\ daemon = "boot" /\ bootUndo = None
  /\ NoEarlyRow
  /\ daemon' = "up"
  /\ UNCHANGED <<rows, server, incidents, rebooted, clock, pc, queue, bootUndo,
                 history>>

BootDone ==
  /\ daemon = "boot" /\ bootUndo = None
  /\ \A o \in Ops : phase[o] \notin Early \cup Mid
  /\ daemon' = "up"
  /\ UNCHANGED <<rows, server, incidents, rebooted, clock, pc, queue, bootUndo,
                 history>>

-----------------------------------------------------------------------------
(* Time: a row leaves the hour, or the cooldown window.  Only the age of   *)
(* rows that a query counts, or still may count, is ever read.             *)

HourPasses(o) ==
  /\ o \in young /\ (auto[o] \/ phase[o] = "planning")
  /\ young' = young \ {o}
  /\ UNCHANGED <<rows, server, incidents, rebooted, cooling, volatile, history>>

CooldownPasses(o) ==
  /\ o \in cooling /\ CountsAsRollback(o)
  /\ cooling' = cooling \ {o}
  /\ UNCHANGED <<rows, server, incidents, rebooted, young, volatile, history>>

-----------------------------------------------------------------------------
Planning(o) ==
  \/ Submit(o)
  \/ DescribeThrows(o)
  \/ \E p \in Plans : RefuseScope(o, p)
  \/ \E p \in Plans, strict \in BOOLEAN : PlanGate(o, p, strict)

Human(o) == Approve(o) \/ Cancel(o) \/ Keep(o)

\* The steps of an operation that no human has to take.
Running(o) ==
  \/ AcquireLock(o)
  \/ CaptureFails(o) \/ Capture(o)
  \/ ApplyEffect(o) \/ ApplyReturns(o) \/ ApplyThrows(o)
  \/ AskReachability(o) \/ CommitVerified(o)
  \/ VerifyFails(o) \/ CommitUnverified(o) \/ VerifyRejects(o)
  \/ NotKept(o)
  \/ Undo(o) \/ RecordUndo(o)

Booting(o) ==
  \/ Sweep(o)
  \/ JudgeOwn(o) \/ JudgeIrreversible(o) \/ JudgeVerified(o)
  \/ JudgeUnverified(o)
  \/ BootRecord(o)

Next ==
  \/ \E o \in Ops : \/ Planning(o) \/ Human(o) \/ Running(o) \/ Booting(o)
                    \/ HourPasses(o) \/ CooldownPasses(o)
  \/ \E box \in BOOLEAN : Crash(box)
  \/ BootDone

Spec == Init /\ [][Next]_vars

\* The event loop runs every coroutine whose await has settled; apply, verify
\* and rollback are bounded by command timeouts, the reachability question by
\* its window, and systemd restarts a dead daemon.  Nothing is assumed of the
\* humans, of crashes, or of the planner.
Fairness ==
  /\ \A o \in Ops : WF_vars(Running(o)) /\ WF_vars(Booting(o))
  /\ WF_vars(BootDone)

FairSpec == Spec /\ Fairness

-----------------------------------------------------------------------------
(* Properties *)

\* The row and the effects an operation has left where it can no longer act.
Reached(o) == captured[o] # None

\* Writer exclusivity (withWriteLock): never two coroutines inside the lock.
WriterExclusivity ==
  \A o, p \in Ops : pc[o] \in Holding /\ pc[p] \in Holding => o = p

\* Writer exclusivity as the rows tell it, crashes included: at most one
\* operation is between its capture and its terminal outcome.
OneInFlight ==
  \A o, p \in Ops : phase[o] \in Mid /\ phase[p] \in Mid => o = p

\* What rollback and reconcileOperations rely on: while an operation is between
\* capture and terminal outcome, its target holds its own change or what it
\* captured, never somebody else's.
CaptureStaysValid ==
  \A o \in Ops : phase[o] \in Mid => Content(o) \in {o, captured[o]}

\* "Restored to its captured state and honestly called rolledback": unless the
\* kind's own rollback failed, no target holds a rolledback operation's change.
NoResidue ==
  \A o \in Ops : phase[o] = "rolledback" /\ o \notin undoFailed
                   => \A t \in Targets : server[t] # o

\* "Nothing was changed": an operation that ended refused, cancelled,
\* interrupted or without a capture never reached the server.
QuietEndsTouchNothing ==
  \A o \in Ops : error[o] \in {"refused", "cancelled", "interrupted",
                                "captureFailed"} => o \notin touched

\* Anything that destroys data, can lock the user out, or cannot be rolled back
\* has been approved before it reaches the server: op_confirm was answered
\* "approve", by a human, or by the UPS monitor's context on low battery.
HumanInTheLoop ==
  \A o \in touched :
    \/ o \in approved
    \/ /\ plan[o].autoApprove /\ ~plan[o].irreversible
       /\ plan[o].class = "mutate"

\* A lifeline change is committed only once a human confirmed from the far side
\* of it; at boot, where nobody can, it is undone (audit E2).  A change without
\* an undo is exempt: it is recorded as applied (audit E1).
LifelineNeedsKeep ==
  \A o \in Ops : /\ phase[o] = "committed"
                  /\ plan[o].class = "lifeline" /\ ~plan[o].irreversible
                  => o \in kept

\* An irreversible change that was applied is not called rolledback, outside
\* the lifeline window, where engine.ts does not ask for plan.irreversible.
NoFalseRollback ==
  \A o \in landed : /\ phase[o] = "rolledback" /\ plan[o].irreversible
                     => plan[o].class = "lifeline"

\* A reboot or power-off is recorded as done only if the box went down.
RebootVerdictIsTrue ==
  \A o \in Ops : phase[o] = "committed" /\ plan[o].endsDaemon
                   => o \in rebooted

\* An incident is recorded for exactly those terminal operations that got as
\* far as the server, whichever path ended them.
IncidentIffReached ==
  \A o \in Ops : phase[o] \in Terminal => (o \in incidents <=> Reached(o))

\* The blast-radius budget holds however plans and clocks interleave.
UnattendedBudget == Cardinality(AutoApprovedThisHour) <= MaxUnattended

\* A reversible, checked change is in place at the moment it is committed, even
\* if a human's confirmation or a reboot lay between its verify and its commit.
CommitMeansInPlace ==
  [][\A o \in Ops :
        /\ phase'[o] = "committed" /\ phase[o] # "committed"
        /\ plan[o].checks /\ ~plan[o].irreversible
        => Content(o) = o]_vars

\* Only a later apply replaces a committed change; no rollback, live or at boot,
\* ever takes it away.
CommittedNotErased ==
  [][\A o \in Ops :
        /\ phase[o] = "committed" /\ Content(o) = o
        /\ server'[plan[o].target] # o
        => \E p \in Ops \ {o} : p \in touched' \ touched]_vars

\* Crashes and boots hidden, the engine performs serial changes.
InFlight == {o \in Ops : phase[o] \in Mid}
SerialState ==
  [o \in Ops |-> CASE phase[o] \in {"none"} \cup Early -> "new"
                   [] phase[o] \in Mid -> "open"
                   [] OTHER -> phase[o]]
SerialCurrent ==
  IF InFlight = {} THEN None
  ELSE LET o == CHOOSE p \in InFlight : TRUE
       IN [op |-> o, target |-> plan[o].target, saved |-> captured[o]]
Serial == INSTANCE SerialChanges WITH
  state <- SerialState, content <- server, current <- SerialCurrent
ImplementsSerialChanges == Serial!Spec

\* An operation that asked for the lock reaches its terminal outcome, through
\* queueing, failures, a lifeline window nobody answers, and crashes.
LockedOperationsEnd ==
  \A o \in Ops : pc[o] = "queued" ~> phase[o] \in Terminal

(* What WriterExclusivity, OneInFlight and CaptureStaysValid rest on.      *)

\* Where a coroutine may be suspended, given its row.
RowMatchesCoroutine ==
  \A o \in Ops :
    /\ pc[o] = "idle" <=> phase[o] = "none"
    /\ pc[o] = "describing" => phase[o] = "planning"
    /\ pc[o] \in {"confirming", "queued"} => phase[o] = "awaiting_confirmation"
    /\ pc[o] = "capturing" => phase[o] = "capturing"
    /\ pc[o] = "applying" => phase[o] = "applying"
    /\ pc[o] \in {"verifying", "reach"} => phase[o] = "verifying"
    /\ pc[o] \in {"undoing", "undone"} => phase[o] \in Mid
    /\ pc[o] = "threw" => \/ phase[o] = "planning"
                          \/ VerifyMayReject /\ phase[o] = "verifying"
    /\ pc[o] = "ended" => daemon = "boot" \/ phase[o] \in Terminal

\* Past planning a row has its plan, and past capturing its capture.
RowIsComplete ==
  \A o \in Ops :
    /\ phase[o] \in {"awaiting_confirmation", "capturing", "committed"} \cup Mid
         => plan[o] \in Plans
    /\ phase[o] \in Mid => captured[o] \in Ops \cup {Original}

\* Whoever is inside the lock is the head of its queue.
HolderIsHead ==
  \A o \in Ops : pc[o] \in Holding => queue # <<>> /\ Head(queue) = o

\* While reconcileOperations runs there is no coroutine, and the row it has
\* undone is still unrecorded.
BootIsQuiet ==
  /\ daemon = "boot" => \A o \in Ops : pc[o] \in {"idle", "ended"}
  /\ bootUndo # None => daemon = "boot" /\ phase[bootUndo] \in Mid

ControlInv == RowMatchesCoroutine /\ RowIsComplete /\ HolderIsHead /\ BootIsQuiet
=============================================================================
