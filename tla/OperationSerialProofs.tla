------------------------ MODULE OperationSerialProofs ------------------------
(***************************************************************************)
(* What the engine's changes do to each other: proofs of the invariants    *)
(* and action properties of OperationEngine about the content of targets,  *)
(* and of the refinement of SerialChanges.                                 *)
(***************************************************************************)
EXTENDS OperationSafetyProofs

\* An operation's change is nowhere on the server.
Gone(o) == \A t \in Targets : server[t] # o

\* Whose content an operation may have captured: an earlier operation's, of the
\* same target, that is over and, if rolled back, left it there.
Residue(p) ==
  /\ p \in touched
  /\ phase[p] \in Terminal
  /\ phase[p] = "rolledback" => p \in undoFailed

\* A target holds only what was applied to it; a capture only what was there
\* before; an undo, recorded or not yet, leaves nothing unless it failed.
ResidueInv ==
  /\ \A o \in Ops, t \in Targets :
       server[t] = o => o \in touched /\ plan[o].target = t
  /\ \A o, p \in Ops :
       phase[o] \in Mid /\ captured[o] = p
         => Residue(p) /\ plan[p].target = plan[o].target
  /\ \A o \in Ops :
       o \notin undoFailed /\ (pc[o] = "undone" \/ bootUndo = o) => Gone(o)
  /\ NoResidue

\* A step that writes no target, no capture of a row in Mid, no plan of a
\* touched operation, and undoes nothing, keeps ResidueInv.
LEMMA QuietStepKeepsResidueInv ==
  ASSUME ResidueInv,
         UNCHANGED <<server, touched, undoFailed>>,
         \A o \in touched : /\ plan'[o] = plan[o]
                            /\ phase[o] \in Terminal => phase'[o] = phase[o],
         \A o \in Ops :
           /\ phase'[o] \in Mid => /\ phase[o] \in Mid
                                   /\ UNCHANGED <<plan[o], captured[o]>>
           /\ pc'[o] = "undone" => pc[o] = "undone"
           /\ bootUndo' = o => bootUndo = o
           /\ phase'[o] = "rolledback" =>
                \/ phase[o] = "rolledback"
                \/ o \notin touched
                \/ pc[o] = "undone"
                \/ bootUndo = o
  PROVE  ResidueInv'
  <1>1. \A o \in Ops : Gone(o)' <=> Gone(o)
    BY DEF Gone
  <1>2. \A p \in Ops : Residue(p) => Residue(p)'
    BY DEF Residue
  <1>3. \A o \in Ops \ touched : Gone(o)
    BY DEF ResidueInv, Gone
  <1>4. NoResidue'
    BY <1>3 DEF ResidueInv, NoResidue, Gone
  <1>5. \A o \in Ops, t \in Targets :
          server'[t] = o => o \in touched' /\ plan'[o].target = t
    BY DEF ResidueInv
  <1>6. ASSUME NEW o \in Ops, NEW p \in Ops, phase'[o] \in Mid, captured'[o] = p
        PROVE  Residue(p)' /\ plan'[p].target = plan'[o].target
    <2>1. phase[o] \in Mid /\ captured[o] = p /\ plan'[o] = plan[o]
      BY <1>6
    <2>2. Residue(p) /\ plan[p].target = plan[o].target
      BY <2>1 DEF ResidueInv
    <2> QED BY <1>2, <2>1, <2>2 DEF Residue
  <1>7. \A o \in Ops :
          o \notin undoFailed' /\ (pc'[o] = "undone" \/ bootUndo' = o)
            => Gone(o)'
    BY <1>1 DEF ResidueInv
  <1> QED BY <1>4, <1>5, <1>6, <1>7 DEF ResidueInv

\* So does an undo of the row in flight that restores its capture, or fails and
\* says so.
LEMMA UndoKeepsResidueInv ==
  ASSUME IInv, SafeInv, SerialInv, ResidueInv, NEW o \in Ops, phase[o] \in Mid,
         Restore(o), UNCHANGED <<phase, plan, captured, touched>>,
         \A p \in Ops : /\ pc'[p] = "undone" => pc[p] = "undone" \/ p = o
                        /\ bootUndo' = p => bootUndo = p \/ p = o
  PROVE  ResidueInv'
  <1>1. /\ plan[o].target \in Targets /\ captured[o] \in Ops \cup {Original}
        /\ server \in [Targets -> Ops \cup {Original}]
    BY TargetKnown DEF IInv, TypeOK, ControlInv, RowIsComplete
  <1>2. \A p \in Ops : captured[o] = p =>
          p # o /\ Residue(p) /\ plan[p].target = plan[o].target
    BY DEF ResidueInv, Residue, Mid, Terminal
  <1>3. \A p \in Ops : p # o => (p \in undoFailed' <=> p \in undoFailed)
    BY DEF Restore
  <1>4. \A p \in Ops, t \in Targets :
          server'[t] = p =>
            \/ server[t] = p
            \/ t = plan[o].target /\ captured[o] = p
    BY <1>1 DEF Restore
  <1>5. ASSUME NEW p \in Ops, p # o, Gone(p), p \notin undoFailed,
               \/ phase[p] = "rolledback"
               \/ phase[p] \notin Terminal
        PROVE  Gone(p)'
    BY <1>2, <1>4, <1>5 DEF Gone, Residue
  <1>6. o \notin undoFailed' => Gone(o)'
    <2>1. CASE server' = [server EXCEPT ![plan[o].target] = captured[o]]
      BY <1>1, <1>2, <2>1, OriginalAssumption DEF Gone, ResidueInv
    <2>2. CASE /\ UNCHANGED server
               /\ undoFailed' = IF Content(o) = o THEN undoFailed \cup {o}
                                                  ELSE undoFailed
      BY <2>2 DEF Gone, ResidueInv, Content
    <2> QED BY <2>1, <2>2 DEF Restore
  <1>7. \A p \in Ops, t \in Targets :
          server'[t] = p => p \in touched' /\ plan'[p].target = t
    BY <1>2, <1>4 DEF ResidueInv, Residue
  <1>8. \A p, q \in Ops :
          phase'[p] \in Mid /\ captured'[p] = q
            => Residue(q)' /\ plan'[q].target = plan'[p].target
    BY <1>3 DEF ResidueInv, Residue, Mid, Terminal
  <1>9. NoResidue'
    <2>1. \A p \in Ops : phase[p] = "rolledback" => p # o
      BY DEF Mid
    <2> QED BY <1>3, <1>5, <2>1 DEF ResidueInv, NoResidue, Gone
  <1>10. \A p \in Ops :
          p \notin undoFailed' /\ (pc'[p] = "undone" \/ bootUndo' = p)
            => Gone(p)'
    <2>1. \A p \in Ops : pc[p] = "undone" \/ bootUndo = p => phase[p] \in Mid
      BY NoneAssumption DEF IInv, ControlInv, RowMatchesCoroutine, BootIsQuiet
    <2>2. \A p \in Ops : phase[p] \in Mid => p = o
      BY DEF SerialInv, OneInFlight
    <2> QED BY <1>6, <2>1, <2>2
  <1> QED BY <1>7, <1>8, <1>9, <1>10 DEF ResidueInv

\* Every step keeps ResidueInv.
LEMMA NextKeepsResidueInv ==
  ASSUME IInv, SafeInv, SerialInv, ResidueInv, ~VerifyMayReject, [Next]_vars
  PROVE  ResidueInv'
  <1> USE DEF rows, volatile, clock, history
  <1>1. ASSUME NEW o \in Ops, Planning(o) PROVE ResidueInv'
    <2>1. phase[o] \notin Mid \cup Terminal /\ o \notin touched
      BY <1>1 DEF Planning, Submit, DescribeThrows, RefuseScope, PlanGate, IInv,
         ControlInv, RowMatchesCoroutine, SafeInv, TouchedInv, Mid, Terminal
    <2> QED
      BY <1>1, <2>1, QuietStepKeepsResidueInv
      DEF Planning, Submit, DescribeThrows, RefuseScope, PlanGate, SetPhase,
          Goto, IInv, TypeOK, Mid, Terminal
  <1>2. ASSUME NEW o \in Ops, Human(o) PROVE ResidueInv'
    <2>1. phase[o] \notin Terminal
      BY <1>2 DEF Human, Approve, Cancel, Keep, IInv, ControlInv,
         RowMatchesCoroutine, Terminal
    <2>2. pc[o] = "confirming" => o \notin touched
      BY DEF IInv, ControlInv, RowMatchesCoroutine, SafeInv, TouchedInv, Mid,
         Terminal
    <2> QED
      BY <1>2, <2>1, <2>2, QuietStepKeepsResidueInv
      DEF Human, Approve, Cancel, Keep, Commit, SetPhase, Goto, IInv, TypeOK,
          Mid, Terminal
  <1>3. ASSUME NEW o \in Ops, Running(o) PROVE ResidueInv'
    <2>1. CASE Capture(o)
      <3>1. /\ phase[o] = "capturing" /\ o \notin touched
            /\ \A p \in Ops : phase[p] \notin Mid
        BY <2>1, CapturerIsAlone
        DEF Capture, IInv, ControlInv, RowMatchesCoroutine, SafeInv, TouchedInv,
            Mid, Terminal
      <3>2. /\ UNCHANGED <<server, touched, undoFailed, plan, bootUndo>>
            /\ phase' = [phase EXCEPT ![o] = "applying"]
            /\ captured' = [captured EXCEPT ![o] = Content(o)]
            /\ pc' = [pc EXCEPT ![o] = "applying"]
        BY <2>1 DEF Capture, SetCapturedAndApplying, Goto
      <3>3. plan[o].target \in Targets
        BY <3>1, TargetKnown DEF IInv, ControlInv
      <3>4. \A p \in Ops : Content(o) = p =>
              Residue(p) /\ plan[p].target = plan[o].target
        BY <3>1, <3>3
        DEF ResidueInv, NoResidue, Residue, Content, SafeInv, TouchedInv
      <3>5. \A p \in Ops : Residue(p) => Residue(p)'
        BY <3>1, <3>2 DEF Residue, IInv, TypeOK
      <3>6. \A p, q \in Ops :
              phase'[p] \in Mid /\ captured'[p] = q
                => Residue(q)' /\ plan'[q].target = plan'[p].target
        BY <3>1, <3>2, <3>4, <3>5 DEF IInv, TypeOK
      <3> QED
        BY <3>1, <3>2, <3>6 DEF ResidueInv, NoResidue, Gone, IInv, TypeOK
    <2>2. CASE ApplyEffect(o)
      <3>1. /\ phase[o] = "applying" /\ pc[o] # "undone" /\ bootUndo # o
            /\ plan[o].target \in Targets
        BY <2>2, TargetKnown, NoneAssumption
        DEF ApplyEffect, IInv, ControlInv, RowMatchesCoroutine, BootIsQuiet, Mid
      <3>2. \A t \in Targets :
              server'[t] = IF t = plan[o].target THEN o ELSE server[t]
        BY <2>2, <3>1 DEF ApplyEffect, IInv, TypeOK
      <3>3. /\ touched' = touched \cup {o}
            /\ UNCHANGED <<phase, plan, captured, pc, bootUndo, undoFailed>>
        BY <2>2 DEF ApplyEffect
      <3>4. \A p \in Ops : p # o /\ Gone(p) => Gone(p)'
        BY <3>2 DEF Gone
      <3>5. \A p \in Ops, t \in Targets :
              server'[t] = p => p \in touched' /\ plan'[p].target = t
        BY <3>2, <3>3 DEF ResidueInv
      <3>6. \A p, q \in Ops :
              phase'[p] \in Mid /\ captured'[p] = q
                => Residue(q)' /\ plan'[q].target = plan'[p].target
        BY <3>3 DEF ResidueInv, Residue
      <3>7. NoResidue'
        BY <3>1, <3>3, <3>4 DEF ResidueInv, NoResidue, Gone
      <3> QED BY <3>1, <3>3, <3>4, <3>5, <3>6, <3>7 DEF ResidueInv
    <2>3. CASE Undo(o)
      <3>1. phase[o] \in Mid
        BY <2>3 DEF Undo, IInv, ControlInv, RowMatchesCoroutine
      <3> QED
        BY <2>3, <3>1, UndoKeepsResidueInv DEF Undo, Goto, IInv, TypeOK
    <2>4. CASE AcquireLock(o) \/ CaptureFails(o)
      <3>1. o \notin touched /\ phase[o] \notin Mid \cup Terminal
        BY <2>4 DEF AcquireLock, CaptureFails, IInv, ControlInv,
           RowMatchesCoroutine, SafeInv, TouchedInv, Mid, Terminal
      <3> QED
        BY <2>4, <3>1, QuietStepKeepsResidueInv
        DEF AcquireLock, CaptureFails, SetPhase, Goto, IInv, TypeOK, Mid,
            Terminal
    <2>5. CASE \/ ApplyReturns(o) \/ CommitVerified(o) \/ CommitUnverified(o)
               \/ RecordUndo(o)
      <3>1. phase[o] \in Mid
        BY <2>5 DEF ApplyReturns, CommitVerified, CommitUnverified, RecordUndo,
           IInv, ControlInv, RowMatchesCoroutine, Mid
      <3> QED
        BY <2>5, <3>1, QuietStepKeepsResidueInv
        DEF ApplyReturns, CommitVerified, CommitUnverified, RecordUndo, Commit,
            RollBack, SetPhase, Goto, IInv, TypeOK, Mid, Terminal
    <2>6. CASE \/ ApplyThrows(o) \/ AskReachability(o) \/ VerifyFails(o)
               \/ VerifyRejects(o) \/ NotKept(o)
      BY <2>6, QuietStepKeepsResidueInv
      DEF ApplyThrows, AskReachability, VerifyFails, VerifyRejects, NotKept,
          Goto, IInv, TypeOK
    <2> QED BY <1>3, <2>1, <2>2, <2>3, <2>4, <2>5, <2>6 DEF Running
  <1>4. ASSUME NEW o \in Ops, Booting(o) PROVE ResidueInv'
    <2>1. CASE Sweep(o)
      <3>1. o \notin touched /\ phase[o] \notin Mid \cup Terminal
        BY <2>1 DEF Sweep, SafeInv, TouchedInv, Early, Mid, Terminal
      <3> QED
        BY <2>1, <3>1, QuietStepKeepsResidueInv
        DEF Sweep, SetPhase, IInv, TypeOK, Mid, Terminal
    <2>2. CASE BootRecord(o) \/ (Judging(o) /\ BootCommit(o))
      <3>1. phase[o] \in Mid
        BY <2>2, NoneAssumption
        DEF BootRecord, Judging, IInv, ControlInv, BootIsQuiet
      <3> QED
        BY <2>2, <3>1, QuietStepKeepsResidueInv, NoneAssumption
        DEF BootRecord, BootCommit, Commit, RollBack, SetPhase, IInv, TypeOK,
            Mid, Terminal
    <2>3. CASE Judging(o) /\ BootRestore(o)
      BY <2>3, UndoKeepsResidueInv DEF Judging, BootRestore
    <2> QED
      BY <1>4, <2>1, <2>2, <2>3
      DEF Booting, JudgeOwn, JudgeIrreversible, JudgeVerified, JudgeUnverified
  <1>5. ASSUME \/ \E box \in BOOLEAN : Crash(box)
               \/ BootDone
               \/ \E o \in Ops : HourPasses(o) \/ CooldownPasses(o)
               \/ UNCHANGED vars
        PROVE  ResidueInv'
    BY <1>5, QuietStepKeepsResidueInv, NoneAssumption
    DEF Crash, BootDone, HourPasses, CooldownPasses, vars, IInv, TypeOK
  <1> QED BY <1>1, <1>2, <1>3, <1>4, <1>5 DEF Next

\* NoResidue: what is called rolledback has left the server as it found it,
\* unless the kind's own rollback failed, through any number of crashes between
\* an undo and its record and of boots that undo again.
THEOREM RollbacksLeaveNothing ==
  ASSUME ~VerifyMayReject
  PROVE  Spec => []NoResidue
  <1>1. Init => SerialInv /\ ResidueInv
    BY OriginalAssumption, NoneAssumption
    DEF Init, SerialInv, OneInFlight, CaptureStaysValid, ResidueInv, NoResidue,
        Gone, Mid
  <1>2. IInv /\ SafeInv /\ SerialInv /\ ResidueInv /\ [Next]_vars
          => SerialInv' /\ ResidueInv'
    BY NextKeepsSerialInv, NextKeepsResidueInv
  <1> QED BY Invariance, SafeInvariance, <1>1, <1>2, PTL DEF Spec, ResidueInv

-----------------------------------------------------------------------------
(* Committed changes.                                                      *)

\* An undo of the row in flight takes no other operation's change away: what its
\* target holds is the row's own change, or is what the undo writes back.
LEMMA UndoSparesOthers ==
  ASSUME IInv, SerialInv, NEW o \in Ops, phase[o] \in Mid, Restore(o),
         NEW p \in Ops, phase[p] = "committed", Content(p) = p
  PROVE  server'[plan[p].target] = p
  <1>1. /\ plan[o].target \in Targets /\ plan[p].target \in Targets
        /\ server \in [Targets -> Ops \cup {Original}]
    BY PlansAssumption
    DEF IInv, TypeOK, ControlInv, RowIsComplete, PlanType, Mid
  <1>2. o # p /\ Content(o) \in {o, captured[o]}
    BY DEF SerialInv, CaptureStaysValid, Mid
  <1> QED BY <1>1, <1>2 DEF Restore, Content

\* CommittedNotErased: only another operation's apply replaces a committed
\* change; no rollback does, live or at boot.
THEOREM CommitsStay ==
  ASSUME ~VerifyMayReject
  PROVE  Spec => CommittedNotErased
  <1> DEFINE Erases(o) == /\ phase[o] = "committed" /\ Content(o) = o
                          /\ server'[plan[o].target] # o
  <1>1. ASSUME IInv, SerialInv, [Next]_vars, NEW o \in Ops, Erases(o)
        PROVE  \E p \in Ops \ {o} : p \in touched' \ touched
    <2>1. server' # server
      BY <1>1 DEF Content
    <2>2. PICK p \in Ops : \/ ApplyEffect(p) \/ Undo(p)
                           \/ (Judging(p) /\ BootRestore(p))
      BY <1>1, <2>1, SMTT(60)
      DEF Next, vars, rows, volatile, clock, history, Planning, Submit,
          DescribeThrows, RefuseScope, PlanGate, Human, Approve, Cancel, Keep,
          Running, AcquireLock, CaptureFails, Capture, ApplyReturns,
          ApplyThrows, AskReachability, CommitVerified, VerifyFails,
          CommitUnverified, VerifyRejects, NotKept, RecordUndo, Booting, Sweep,
          JudgeOwn, JudgeIrreversible, JudgeVerified, JudgeUnverified,
          BootCommit, BootRecord, Crash, BootDone, HourPasses, CooldownPasses
    <2>3. CASE ApplyEffect(p)
      <3>1. p # o
        BY <1>1, <2>3
        DEF ApplyEffect, IInv, ControlInv, RowMatchesCoroutine
      <3> QED BY <2>3, <3>1 DEF ApplyEffect
    <2>4. CASE Undo(p) \/ (Judging(p) /\ BootRestore(p))
      <3>1. phase[p] \in Mid /\ Restore(p)
        BY <1>1, <2>4
        DEF Undo, Judging, BootRestore, IInv, ControlInv, RowMatchesCoroutine
      <3> QED BY <1>1, <3>1, UndoSparesOthers
    <2> QED BY <2>2, <2>3, <2>4
  <1>2. IInv /\ SerialInv /\ [Next]_vars
          => \A o \in Ops : Erases(o) =>
                \E p \in Ops \ {o} : p \in touched' \ touched
    BY <1>1
  <1>3. IInv /\ SerialInv /\ [Next]_vars
          => [\A o \in Ops : Erases(o) =>
                \E p \in Ops \ {o} : p \in touched' \ touched]_vars
    BY <1>2
  <1> QED
    BY Invariance, Serialization, <1>3, PTL
    DEF Spec, CommittedNotErased, SerialInv

\* Whoever waits for the far side's answer has its change in place: it holds the
\* lock, so nobody wrote its target since its verify.
ReachInv == \A o \in Ops : pc[o] = "reach" => CanVerify(o)

\* A step that writes no target and asks no reachability question keeps ReachInv.
LEMMA QuietStepKeepsReachInv ==
  ASSUME IInv, ReachInv, server' = server,
         \A o \in Ops : pc'[o] = "reach" => pc[o] = "reach" /\ plan'[o] = plan[o]
  PROVE  ReachInv'
  BY DEF ReachInv, CanVerify, Content

\* Every step keeps ReachInv.
LEMMA NextKeepsReachInv ==
  ASSUME IInv, ReachInv, [Next]_vars
  PROVE  ReachInv'
  <1> USE DEF rows, volatile, clock, history
  <1>1. ASSUME NEW o \in Ops, Planning(o) PROVE ReachInv'
    BY <1>1, QuietStepKeepsReachInv
    DEF Planning, Submit, DescribeThrows, RefuseScope, PlanGate, Goto, IInv,
        TypeOK
  <1>2. ASSUME NEW o \in Ops, Human(o) PROVE ReachInv'
    BY <1>2, QuietStepKeepsReachInv
    DEF Human, Approve, Cancel, Keep, Goto, IInv, TypeOK
  <1>3. ASSUME NEW o \in Ops, Running(o) PROVE ReachInv'
    <2>1. CASE AskReachability(o)
      BY <2>1 DEF AskReachability, Goto, ReachInv, CanVerify, Content, IInv,
         TypeOK
    <2>2. CASE ApplyEffect(o) \/ Undo(o)
      <3>1. \A p \in Ops : pc'[p] # "reach"
        BY <2>2 DEF ApplyEffect, Undo, Goto, IInv, TypeOK, ControlInv,
           HolderIsHead, Holding
      <3> QED BY <3>1 DEF ReachInv
    <2>3. CASE ~(AskReachability(o) \/ ApplyEffect(o) \/ Undo(o))
      BY <1>3, <2>3, QuietStepKeepsReachInv
      DEF Running, AcquireLock, CaptureFails, Capture, ApplyReturns,
          ApplyThrows, CommitVerified, VerifyFails, CommitUnverified,
          VerifyRejects, NotKept, RecordUndo, Goto, IInv, TypeOK
    <2> QED BY <2>1, <2>2, <2>3
  <1>4. ASSUME NEW o \in Ops, Booting(o) PROVE ReachInv'
    <2>1. daemon = "boot" /\ UNCHANGED pc
      BY <1>4
      DEF Booting, Sweep, JudgeOwn, JudgeIrreversible, JudgeVerified,
          JudgeUnverified, Judging, BootCommit, BootRestore, BootRecord
    <2> QED BY <2>1 DEF IInv, ControlInv, BootIsQuiet, ReachInv
  <1>5. ASSUME \/ \E box \in BOOLEAN : Crash(box)
               \/ BootDone
               \/ \E o \in Ops : HourPasses(o) \/ CooldownPasses(o)
               \/ UNCHANGED vars
        PROVE  ReachInv'
    BY <1>5, QuietStepKeepsReachInv
    DEF Crash, BootDone, HourPasses, CooldownPasses, vars
  <1> QED BY <1>1, <1>2, <1>3, <1>4, <1>5 DEF Next

\* CommitMeansInPlace: a reversible, checked change is on the server at the
\* moment its row says committed, though a human's answer or a crash and a boot
\* lay between its verify and its commit.
THEOREM CommitsAreInPlace == Spec => CommitMeansInPlace
  <1> DEFINE Commits(o) == /\ phase'[o] = "committed" /\ phase[o] # "committed"
                           /\ plan[o].checks /\ ~plan[o].irreversible
  <1>1. Init => ReachInv
    BY DEF Init, ReachInv
  <1>2. IInv /\ ReachInv /\ [Next]_vars => ReachInv'
    BY NextKeepsReachInv
  <1>3. ASSUME IInv, ReachInv, [Next]_vars, NEW o \in Ops, Commits(o)
        PROVE  Content(o) = o
    <2> DEFINE Ends == \/ Keep(o) \/ CommitVerified(o) \/ CommitUnverified(o)
                       \/ JudgeOwn(o) \/ JudgeIrreversible(o)
                       \/ JudgeVerified(o)
    <2>1. Ends
      <3> USE DEF rows, volatile, clock, history, SetPhase
      <3>1. /\ phase \in [Ops -> Phases]
            /\ phase'[o] = "committed" /\ phase[o] # "committed"
        BY <1>3 DEF IInv, TypeOK
      <3>2. ASSUME NEW p \in Ops, Planning(p) PROVE Ends
        BY <3>1, <3>2
        DEF Planning, Submit, DescribeThrows, RefuseScope, PlanGate
      <3>3. ASSUME NEW p \in Ops, Human(p) PROVE Ends
        BY <3>1, <3>3 DEF Human, Approve, Cancel, Keep, Commit
      <3>4. ASSUME NEW p \in Ops, Running(p) PROVE Ends
        <4>1. CASE \/ AcquireLock(p) \/ CaptureFails(p) \/ Capture(p)
                   \/ ApplyEffect(p) \/ ApplyReturns(p) \/ ApplyThrows(p)
                   \/ AskReachability(p)
          BY <3>1, <4>1
          DEF AcquireLock, CaptureFails, Capture, SetCapturedAndApplying,
              ApplyEffect, ApplyReturns, ApplyThrows, AskReachability
        <4>2. CASE \/ VerifyFails(p) \/ VerifyRejects(p) \/ NotKept(p)
                   \/ Undo(p) \/ RecordUndo(p)
          BY <3>1, <4>2
          DEF VerifyFails, VerifyRejects, NotKept, Undo, RecordUndo, RollBack
        <4>3. CASE CommitVerified(p) \/ CommitUnverified(p)
          BY <3>1, <4>3 DEF CommitVerified, CommitUnverified, Commit
        <4> QED BY <3>4, <4>1, <4>2, <4>3 DEF Running
      <3>5. ASSUME NEW p \in Ops, Booting(p) PROVE Ends
        <4>1. CASE Sweep(p) \/ JudgeUnverified(p) \/ BootRecord(p)
          BY <3>1, <4>1
          DEF Sweep, Judging, JudgeUnverified, BootRestore, BootRecord, RollBack
        <4>2. CASE JudgeOwn(p) \/ JudgeIrreversible(p) \/ JudgeVerified(p)
          BY <3>1, <4>2
          DEF JudgeOwn, JudgeIrreversible, JudgeVerified, Judging, BootCommit,
              BootRestore, Commit
        <4> QED BY <3>5, <4>1, <4>2 DEF Booting
      <3>6. ASSUME \/ \E box \in BOOLEAN : Crash(box)
                   \/ BootDone
                   \/ \E p \in Ops : HourPasses(p) \/ CooldownPasses(p)
                   \/ UNCHANGED vars
            PROVE  Ends
        BY <3>1, <3>6 DEF Crash, BootDone, HourPasses, CooldownPasses, vars
      <3> QED
        BY <1>3, <3>2, <3>3, <3>4, <3>5, <3>6 DEF Next
    <2>2. CASE Keep(o)
      BY <1>3, <2>2 DEF Keep, ReachInv, CanVerify
    <2>3. CASE CommitVerified(o) \/ CommitUnverified(o)
      BY <1>3, <2>3 DEF CommitVerified, CommitUnverified, CanVerify
    <2>4. CASE JudgeOwn(o) \/ JudgeIrreversible(o) \/ JudgeVerified(o)
      <3>1. plan[o] \in Plans
        BY <1>3, <2>4
        DEF JudgeOwn, JudgeIrreversible, JudgeVerified, Judging, IInv,
            ControlInv, RowIsComplete
      <3> QED
        BY <1>3, <2>4, <3>1, EndsDaemonAssumption
        DEF JudgeOwn, JudgeIrreversible, JudgeVerified, CanVerify
    <2> QED BY <2>1, <2>2, <2>3, <2>4
  <1>4. IInv /\ ReachInv /\ [Next]_vars
          => [\A o \in Ops : Commits(o) => Content(o) = o]_vars
    BY <1>3
  <1> QED
    BY Invariance, <1>1, <1>2, <1>4, PTL DEF Spec, CommitMeansInPlace

-----------------------------------------------------------------------------
(* The refinement of SerialChanges.                                        *)

\* What SerialChanges sees of a row.
LEMMA StateOfRow ==
  ASSUME NEW o \in Ops
  PROVE  /\ phase[o] \in {"none"} \cup Early => SerialState[o] = "new"
         /\ phase[o] \in Mid => SerialState[o] = "open"
         /\ phase[o] \in Terminal => SerialState[o] = phase[o]
  BY DEF SerialState, Early, Mid, Terminal

\* With no row in Mid there is no change in flight.
LEMMA NothingInFlight ==
  ASSUME \A p \in Ops : phase[p] \notin Mid
  PROVE  SerialCurrent = None
  BY DEF SerialCurrent, InFlight

\* The row in Mid is the change in flight.
LEMMA RowInFlight ==
  ASSUME IInv, SerialInv, NEW o \in Ops, phase[o] \in Mid
  PROVE  /\ SerialCurrent = [op |-> o, target |-> plan[o].target,
                             saved |-> captured[o]]
         /\ SerialCurrent # None
  <1>1. InFlight = {o}
    BY DEF SerialInv, OneInFlight, InFlight
  <1>2. SerialCurrent = [op |-> o, target |-> plan[o].target,
                         saved |-> captured[o]]
    BY <1>1 DEF SerialCurrent
  <1>3. plan[o].target \in Targets /\ captured[o] \in Ops \cup {Original}
    BY TargetKnown DEF IInv, ControlInv, RowIsComplete
  <1> QED BY <1>2, <1>3, NoneAssumption

\* A step on no target, that leaves every row on its side of its change, is a
\* stutter of SerialChanges.
LEMMA QuietStepStutters ==
  ASSUME UNCHANGED server,
         \A p \in Ops :
           \/ phase'[p] = phase[p]
           \/ {phase[p], phase'[p]} \subseteq {"none"} \cup Early
           \/ {phase[p], phase'[p]} \subseteq Mid,
         \A p \in Ops : phase[p] \in Mid => UNCHANGED <<plan[p], captured[p]>>
  PROVE  UNCHANGED <<SerialState, server, SerialCurrent>>
  <1>1. \A p \in Ops :
          /\ phase'[p] \in {"none"} \cup Early <=> phase[p] \in {"none"} \cup Early
          /\ phase'[p] \in Mid <=> phase[p] \in Mid
          /\ phase'[p] \notin {"none"} \cup Early \cup Mid => phase'[p] = phase[p]
    BY DEF Early, Mid
  <1>2. SerialState' = SerialState
    BY <1>1 DEF SerialState
  <1>3. InFlight' = InFlight
    BY <1>1 DEF InFlight
  <1>4. SerialCurrent' = SerialCurrent
    <2>1. CASE InFlight = {}
      BY <1>3, <2>1 DEF SerialCurrent
    <2>2. CASE InFlight # {}
      <3> DEFINE o == CHOOSE p \in InFlight : TRUE
      <3>1. o \in InFlight /\ (CHOOSE p \in InFlight' : TRUE) = o
        BY <1>3, <2>2
      <3>2. UNCHANGED <<plan[o], captured[o]>>
        BY <3>1 DEF InFlight
      <3> HIDE DEF o
      <3> QED BY <1>3, <2>2, <3>1, <3>2 DEF SerialCurrent, o
    <2> QED BY <2>1, <2>2
  <1> QED BY <1>2, <1>4

\* A row refused, cancelled, swept or left without a capture is a Decline.
LEMMA EarlyEndDeclines ==
  ASSUME IInv, NEW o \in Ops, phase[o] \in {"none"} \cup Early,
         UNCHANGED <<server, plan, captured>>,
         phase' = [phase EXCEPT ![o] = "rolledback"]
  PROVE  Serial!Decline(o)
  <1>1. SerialState' = [SerialState EXCEPT ![o] = "rolledback"]
    BY DEF SerialState, IInv, TypeOK, Early, Mid
  <1>2. InFlight' = InFlight /\ SerialCurrent' = SerialCurrent
    BY DEF InFlight, SerialCurrent, IInv, TypeOK, Early, Mid
  <1> QED BY <1>1, <1>2, StateOfRow DEF Serial!Decline

\* A terminal outcome of the row in flight is a Finish.
LEMMA OutcomeFinishes ==
  ASSUME IInv, SerialInv, NEW o \in Ops, phase[o] \in Mid, UNCHANGED server,
         NEW outcome \in Terminal, phase' = [phase EXCEPT ![o] = outcome]
  PROVE  Serial!Finish(o)
  <1>1. SerialState' = [SerialState EXCEPT ![o] = outcome]
    BY DEF SerialState, IInv, TypeOK, Early, Mid, Terminal
  <1>2. \A p \in Ops : phase'[p] \notin Mid
    BY DEF IInv, TypeOK, SerialInv, OneInFlight, Mid, Terminal
  <1>3. SerialCurrent' = None
    BY <1>2 DEF SerialCurrent, InFlight
  <1>4. outcome \in {"committed", "rolledback"}
    BY DEF Terminal
  <1>5. SerialCurrent # None /\ SerialCurrent.op = o
    BY RowInFlight
  <1> QED BY <1>1, <1>3, <1>4, <1>5 DEF Serial!Finish

\* A capture is a Begin: whoever holds the lock finds no change in flight.
LEMMA CaptureBegins ==
  ASSUME IInv, SerialInv, ~VerifyMayReject, NEW o \in Ops, Capture(o)
  PROVE  \E t \in Targets : Serial!Begin(o, t)
  <1>1. /\ phase[o] = "capturing" /\ plan[o].target \in Targets
        /\ \A p \in Ops : phase[p] \notin Mid
    BY CapturerIsAlone, TargetKnown
    DEF Capture, IInv, ControlInv, RowMatchesCoroutine
  <1>2. /\ server' = server /\ plan' = plan
        /\ phase' = [phase EXCEPT ![o] = "applying"]
        /\ captured' = [captured EXCEPT ![o] = Content(o)]
    BY DEF Capture, SetCapturedAndApplying
  <1>3. SerialState' = [SerialState EXCEPT ![o] = "open"]
    BY <1>1, <1>2 DEF SerialState, IInv, TypeOK, Early, Mid
  <1>4. InFlight' = {o}
    BY <1>1, <1>2 DEF InFlight, IInv, TypeOK, Mid
  <1>5. SerialCurrent' = [op |-> o, target |-> plan[o].target,
                          saved |-> server[plan[o].target]]
    BY <1>2, <1>4 DEF SerialCurrent, IInv, TypeOK, Content
  <1>6. SerialState[o] = "new" /\ SerialCurrent = None
    BY <1>1, StateOfRow, NothingInFlight DEF Early
  <1> QED BY <1>1, <1>2, <1>3, <1>5, <1>6 DEF Serial!Begin

\* An undo of the row in flight is a PutBack or, having failed, a stutter.
LEMMA UndoPutsBack ==
  ASSUME IInv, SerialInv, NEW o \in Ops, phase[o] \in Mid, Restore(o),
         UNCHANGED <<phase, plan, captured>>
  PROVE  Serial!PutBack(o) \/ UNCHANGED <<SerialState, server, SerialCurrent>>
  <1>1. UNCHANGED <<SerialState, SerialCurrent>>
    BY DEF SerialState, SerialCurrent, InFlight
  <1> QED BY <1>1, RowInFlight DEF Restore, Serial!PutBack

\* Every step of the engine is a step of SerialChanges or none.
LEMMA StepSimulation ==
  ASSUME IInv, SerialInv, ~VerifyMayReject, [Next]_vars
  PROVE  [Serial!Next]_(Serial!vars)
  <1> DEFINE Quiet == UNCHANGED <<SerialState, server, SerialCurrent>>
  <1> USE DEF rows, volatile, clock, history
  <1>1. ASSUME NEW o \in Ops, Planning(o)
        PROVE  Serial!Decline(o) \/ Quiet
    <2>1. CASE \E p \in Plans : RefuseScope(o, p)
      BY <2>1, EarlyEndDeclines
      DEF RefuseScope, SetPhase, IInv, ControlInv, RowMatchesCoroutine, Early
    <2>2. CASE ~\E p \in Plans : RefuseScope(o, p)
      <3>1. phase[o] \in {"none", "planning"}
        BY <1>1, <2>2
        DEF Planning, Submit, DescribeThrows, PlanGate, IInv, ControlInv,
            RowMatchesCoroutine
      <3> QED
        BY <1>1, <2>2, <3>1, QuietStepStutters
        DEF Planning, Submit, DescribeThrows, PlanGate, IInv, TypeOK, Early, Mid
    <2> QED BY <2>1, <2>2
  <1>2. ASSUME NEW o \in Ops, Human(o)
        PROVE  Serial!Decline(o) \/ Serial!Finish(o) \/ Quiet
    <2>1. CASE Approve(o)
      BY <2>1, QuietStepStutters DEF Approve
    <2>2. CASE Cancel(o)
      BY <2>2, EarlyEndDeclines
      DEF Cancel, SetPhase, IInv, ControlInv, RowMatchesCoroutine, Early
    <2>3. CASE Keep(o)
      BY <2>3, OutcomeFinishes
      DEF Keep, Commit, SetPhase, IInv, ControlInv, RowMatchesCoroutine, Mid,
          Terminal
    <2> QED BY <1>2, <2>1, <2>2, <2>3 DEF Human
  <1>3. ASSUME NEW o \in Ops, Running(o)
        PROVE  \/ Serial!Decline(o) \/ \E t \in Targets : Serial!Begin(o, t)
               \/ Serial!Write(o) \/ Serial!PutBack(o) \/ Serial!Finish(o)
               \/ Quiet
    <2>1. CASE AcquireLock(o)
      BY <2>1, QuietStepStutters
      DEF AcquireLock, SetPhase, IInv, TypeOK, ControlInv, RowMatchesCoroutine,
          Early, Mid
    <2>2. CASE CaptureFails(o)
      BY <2>2, EarlyEndDeclines
      DEF CaptureFails, SetPhase, IInv, ControlInv, RowMatchesCoroutine, Early
    <2>3. CASE Capture(o)
      BY <2>3, CaptureBegins
    <2>4. CASE ApplyEffect(o)
      <3>1. phase[o] \in Mid
        BY <2>4 DEF ApplyEffect, IInv, ControlInv, RowMatchesCoroutine, Mid
      <3>2. UNCHANGED <<SerialState, SerialCurrent>>
        BY <2>4 DEF ApplyEffect, SerialState, SerialCurrent, InFlight
      <3>3. /\ SerialCurrent # None /\ SerialCurrent.op = o
            /\ SerialCurrent.target = plan[o].target
        BY <3>1, RowInFlight
      <3> QED BY <2>4, <3>2, <3>3 DEF ApplyEffect, Serial!Write
    <2>5. CASE Undo(o)
      BY <2>5, UndoPutsBack
      DEF Undo, IInv, ControlInv, RowMatchesCoroutine
    <2>6. CASE ApplyReturns(o)
      BY <2>6, QuietStepStutters
      DEF ApplyReturns, SetPhase, IInv, TypeOK, ControlInv, RowMatchesCoroutine,
          Mid
    <2>7. CASE CommitVerified(o) \/ CommitUnverified(o) \/ RecordUndo(o)
      BY <2>7, OutcomeFinishes
      DEF CommitVerified, CommitUnverified, RecordUndo, Commit, RollBack,
          SetPhase, IInv, ControlInv, RowMatchesCoroutine, Mid, Terminal
    <2>8. CASE \/ ApplyThrows(o) \/ AskReachability(o) \/ VerifyFails(o)
               \/ VerifyRejects(o) \/ NotKept(o)
      BY <2>8, QuietStepStutters
      DEF ApplyThrows, AskReachability, VerifyFails, VerifyRejects, NotKept
    <2> QED
      BY <1>3, <2>1, <2>2, <2>3, <2>4, <2>5, <2>6, <2>7, <2>8 DEF Running
  <1>4. ASSUME NEW o \in Ops, Booting(o)
        PROVE  Serial!Decline(o) \/ Serial!PutBack(o) \/ Serial!Finish(o) \/ Quiet
    <2>1. CASE Sweep(o)
      BY <2>1, EarlyEndDeclines DEF Sweep, SetPhase
    <2>2. CASE BootRecord(o)
      BY <2>2, OutcomeFinishes, NoneAssumption
      DEF BootRecord, RollBack, SetPhase, IInv, ControlInv, BootIsQuiet,
          Terminal
    <2>3. CASE Judging(o) /\ BootCommit(o)
      BY <2>3, OutcomeFinishes
      DEF Judging, BootCommit, Commit, SetPhase, Terminal
    <2>4. CASE Judging(o) /\ BootRestore(o)
      BY <2>4, UndoPutsBack DEF Judging, BootRestore
    <2> QED
      BY <1>4, <2>1, <2>2, <2>3, <2>4
      DEF Booting, JudgeOwn, JudgeIrreversible, JudgeVerified, JudgeUnverified
  <1>5. ASSUME \/ \E box \in BOOLEAN : Crash(box)
               \/ BootDone
               \/ \E o \in Ops : HourPasses(o) \/ CooldownPasses(o)
               \/ UNCHANGED vars
        PROVE  Quiet
    BY <1>5, QuietStepStutters
    DEF Crash, BootDone, HourPasses, CooldownPasses, vars
  <1>6. Serial!Next \/ Quiet
    BY <1>1, <1>2, <1>3, <1>4, <1>5 DEF Next, Serial!Next
  <1> QED BY <1>6 DEF Serial!vars

\* ImplementsSerialChanges: with its lock, its rows, its crashes and its boots
\* hidden, the engine performs one change at a time, each ended exactly once and
\* undone, if at all, with what it found when it began.
THEOREM EngineIsSerial ==
  ASSUME ~VerifyMayReject
  PROVE  Spec => ImplementsSerialChanges
  <1>1. Init => Serial!Init
    BY DEF Init, Serial!Init, SerialState, SerialCurrent, InFlight, Mid
  <1>2. IInv /\ SerialInv /\ [Next]_vars => [Serial!Next]_(Serial!vars)
    BY StepSimulation
  <1> QED
    BY Invariance, Serialization, <1>1, <1>2, PTL
    DEF Spec, Serial!Spec, ImplementsSerialChanges, SerialInv
=============================================================================
