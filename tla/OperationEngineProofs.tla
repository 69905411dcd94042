----------------------- MODULE OperationEngineProofs -----------------------
(***************************************************************************)
(* Proofs about OperationEngine, for every set of operations, targets and  *)
(* plans and every number of crashes.                                      *)
(***************************************************************************)
EXTENDS OperationEngine, TLAPS

USE PlansAssumption, EndsDaemonAssumption, OriginalAssumption,
    BoundsAssumption, NoneAssumption

IInv == TypeOK /\ ControlInv

\* An empty operations table and an idle daemon satisfy IInv.
LEMMA InitIInv == Init => IInv
  BY DEF Init, IInv, TypeOK, ControlInv, RowMatchesCoroutine, RowIsComplete,
         HolderIsHead, BootIsQuiet, Phases, Early, Mid, Terminal, Errors,
         Holding, PCs

\* Joining a promise chain leaves its head, and an empty one gets the newcomer.
LEMMA AppendHead ==
  ASSUME NEW q \in Seq(Ops), NEW o \in Ops
  PROVE  /\ Append(q, o) \in Seq(Ops)
         /\ Append(q, o) # <<>>
         /\ q # <<>> => Head(Append(q, o)) = Head(q)
  OBVIOUS

\* Planning an operation keeps IInv.
LEMMA PlanningKeepsIInv ==
  ASSUME IInv, NEW o \in Ops, Planning(o)
  PROVE  IInv'
  <1> USE DEF IInv, TypeOK, ControlInv, RowMatchesCoroutine, RowIsComplete,
              HolderIsHead, BootIsQuiet, Phases, Early, Mid, Terminal, Errors,
              Holding, PCs, Goto, SetPhase, rows, volatile, clock, history
  <1>1. CASE Submit(o)
    BY <1>1 DEF Submit
  <1>2. CASE DescribeThrows(o)
    BY <1>2 DEF DescribeThrows
  <1>3. ASSUME NEW p \in Plans, RefuseScope(o, p) PROVE IInv'
    BY <1>3 DEF RefuseScope
  <1>4. ASSUME NEW p \in Plans, NEW strict \in BOOLEAN, PlanGate(o, p, strict)
        PROVE IInv'
    <2> DEFINE aa == EffectiveAutoApprove(p) /\ ~UnattendedGate /\ ~strict
    <2>1. CASE aa
      <3>1. queue' = Append(queue, o) /\ pc' = [pc EXCEPT ![o] = "queued"]
        BY <1>4, <2>1 DEF PlanGate
      <3>2. auto' = [auto EXCEPT ![o] = TRUE]
        BY <1>4, <2>1, Zenon DEF PlanGate
      <3> QED BY <1>4, <3>1, <3>2, AppendHead DEF PlanGate
    <2>2. CASE ~aa
      <3>1. UNCHANGED queue /\ pc' = [pc EXCEPT ![o] = "confirming"]
        BY <1>4, <2>2 DEF PlanGate
      <3>2. auto' = [auto EXCEPT ![o] = FALSE]
        BY <1>4, <2>2, Zenon DEF PlanGate
      <3> QED BY <1>4, <3>1, <3>2 DEF PlanGate
    <2> QED BY <2>1, <2>2
  <1> HIDE DEF IInv
  <1> QED BY <1>1, <1>2, <1>3, <1>4 DEF Planning

\* An operation past planning has a target, and its content is well typed.
LEMMA TargetKnown ==
  ASSUME TypeOK, RowIsComplete, NEW o \in Ops,
         phase[o] \in {"awaiting_confirmation", "capturing"} \cup Mid
  PROVE  /\ plan[o] \in Plans
         /\ plan[o].target \in Targets
         /\ Content(o) \in Ops \cup {Original}
  BY DEF TypeOK, RowIsComplete, PlanType, Content, Mid

\* A human's answer keeps IInv.
LEMMA HumanKeepsIInv ==
  ASSUME IInv, NEW o \in Ops, Human(o)
  PROVE  IInv'
  <1> USE DEF IInv, TypeOK, ControlInv, RowMatchesCoroutine, RowIsComplete,
              HolderIsHead, BootIsQuiet, Phases, Early, Mid, Terminal, Errors,
              Holding, PCs, Goto, SetPhase, rows, volatile, clock, history,
              Commit, Release
  <1>1. CASE Approve(o)
    BY <1>1, AppendHead DEF Approve
  <1>2. CASE Cancel(o)
    BY <1>2 DEF Cancel
  <1>3. CASE Keep(o)
    BY <1>3 DEF Keep
  <1> QED BY <1>1, <1>2, <1>3 DEF Human

\* A step of a running operation keeps IInv.
LEMMA RunningKeepsIInv ==
  ASSUME IInv, NEW o \in Ops, Running(o)
  PROVE  IInv'
  <1> USE DEF IInv, TypeOK, ControlInv, RowMatchesCoroutine, RowIsComplete,
              HolderIsHead, BootIsQuiet, Phases, Early, Mid, Terminal, Errors,
              Holding, PCs, Goto, SetPhase, rows, volatile, clock, history,
              Commit, Release
  <1>1. CASE AcquireLock(o)
    BY <1>1 DEF AcquireLock
  <1>2. CASE CaptureFails(o)
    BY <1>2 DEF CaptureFails
  <1>3. CASE Capture(o)
    BY <1>3 DEF Capture, SetCapturedAndApplying, Content, PlanType
  <1>4. CASE ApplyEffect(o)
    BY <1>4 DEF ApplyEffect, PlanType
  <1>5. CASE ApplyReturns(o)
    BY <1>5 DEF ApplyReturns
  <1>6. CASE ApplyThrows(o)
    BY <1>6 DEF ApplyThrows
  <1>7. CASE AskReachability(o)
    BY <1>7 DEF AskReachability
  <1>8. CASE CommitVerified(o)
    BY <1>8 DEF CommitVerified
  <1>9. CASE VerifyFails(o)
    BY <1>9 DEF VerifyFails
  <1>10. CASE CommitUnverified(o)
    BY <1>10 DEF CommitUnverified
  <1>11. CASE VerifyRejects(o)
    BY <1>11 DEF VerifyRejects
  <1>12. CASE NotKept(o)
    BY <1>12 DEF NotKept
  <1>13. CASE Undo(o)
    <2>1. server' \in [Targets -> Ops \cup {Original}]
      <3>1. plan[o].target \in Targets /\ captured[o] \in Ops \cup {Original}
        BY <1>13, TargetKnown DEF Undo
      <3> QED BY <1>13, <3>1 DEF Undo, Restore
    <2>2. undoFailed' \subseteq Ops
      BY <1>13 DEF Undo, Restore
    <2> QED BY <1>13, <2>1, <2>2 DEF Undo
  <1>14. CASE RecordUndo(o)
    BY <1>14 DEF RecordUndo, RollBack
  <1> QED BY <1>1, <1>2, <1>3, <1>4, <1>5, <1>6, <1>7, <1>8, <1>9, <1>10,
             <1>11, <1>12, <1>13, <1>14 DEF Running

\* A step of reconcileOperations keeps IInv.
LEMMA BootingKeepsIInv ==
  ASSUME IInv, NEW o \in Ops, Booting(o)
  PROVE  IInv'
  <1> USE DEF IInv, TypeOK, ControlInv, RowMatchesCoroutine, RowIsComplete,
              HolderIsHead, BootIsQuiet, Phases, Early, Mid, Terminal, Errors,
              Holding, PCs, SetPhase, rows, volatile, clock, history, Commit
  <1>1. CASE Sweep(o)
    BY <1>1 DEF Sweep
  <1>2. ASSUME Judging(o), BootCommit(o) PROVE IInv'
    BY <1>2 DEF Judging, BootCommit
  <1>3. ASSUME Judging(o), BootRestore(o) PROVE IInv'
    BY <1>3 DEF Judging, BootRestore, Restore, PlanType
  <1>4. CASE BootRecord(o)
    BY <1>4 DEF BootRecord, RollBack
  <1> QED
    BY <1>1, <1>2, <1>3, <1>4
    DEF Booting, JudgeOwn, JudgeIrreversible, JudgeVerified, JudgeUnverified

\* Crashes, the end of the boot and the clock keep IInv.
LEMMA OthersKeepIInv ==
  ASSUME IInv,
         \/ \E box \in BOOLEAN : Crash(box)
         \/ BootDone
         \/ \E o \in Ops : HourPasses(o) \/ CooldownPasses(o)
         \/ UNCHANGED vars
  PROVE  IInv'
  <1> USE DEF IInv, TypeOK, ControlInv, RowMatchesCoroutine, RowIsComplete,
              HolderIsHead, BootIsQuiet, Phases, Early, Mid, Terminal, Errors,
              Holding, PCs, rows, volatile, clock, history
  <1>1. ASSUME NEW box \in BOOLEAN, Crash(box) PROVE IInv'
    BY <1>1 DEF Crash
  <1>2. CASE BootDone
    BY <1>2 DEF BootDone
  <1>3. ASSUME NEW o \in Ops, HourPasses(o) \/ CooldownPasses(o) PROVE IInv'
    BY <1>3 DEF HourPasses, CooldownPasses
  <1>4. CASE UNCHANGED vars
    BY <1>4 DEF vars
  <1> HIDE DEF IInv
  <1> QED BY <1>1, <1>2, <1>3, <1>4

\* The type invariant and the agreement of rows, coroutines and lock hold in
\* every reachable state.
THEOREM Invariance == Spec => []IInv
  <1>1. IInv /\ [Next]_vars => IInv'
    BY PlanningKeepsIInv, HumanKeepsIInv, RunningKeepsIInv, BootingKeepsIInv,
       OthersKeepIInv DEF Next
  <1> QED BY InitIInv, <1>1, PTL DEF Spec

\* TypeOK holds of every behaviour.
THEOREM TypeCorrect == Spec => []TypeOK
  BY Invariance, PTL DEF IInv

\* withWriteLock admits one coroutine at a time, whatever throws or dies.
THEOREM Exclusion == Spec => []WriterExclusivity
  <1>1. IInv => WriterExclusivity
    BY DEF IInv, ControlInv, HolderIsHead, WriterExclusivity
  <1> QED BY Invariance, <1>1, PTL

-----------------------------------------------------------------------------
(* Serial changes.  As long as no verify rejects, a row between capture and *)
(* terminal outcome belongs to the holder of the lock, or to the one row a  *)
(* dead daemon left behind.                                                 *)

SerialInv == OneInFlight /\ CaptureStaysValid

\* While the daemon is up, a row in Mid is the lock holder's.
LEMMA MidIsHeld ==
  ASSUME IInv, ~VerifyMayReject, daemon = "up", NEW o \in Ops, phase[o] \in Mid
  PROVE  pc[o] \in Holding \ {"capturing"}
  BY DEF IInv, TypeOK, ControlInv, RowMatchesCoroutine, PCs, Holding, Mid,
         Terminal

\* The operation that is about to capture finds no other row in Mid.
LEMMA CapturerIsAlone ==
  ASSUME IInv, ~VerifyMayReject, NEW o \in Ops, pc[o] = "capturing"
  PROVE  \A p \in Ops : phase[p] \notin Mid
  <1>1. daemon = "up" /\ phase[o] \notin Mid
    BY DEF IInv, TypeOK, ControlInv, BootIsQuiet, RowMatchesCoroutine, Mid
  <1>2. \A p \in Ops : pc[p] \in Holding => p = o
    BY DEF IInv, ControlInv, HolderIsHead, Holding
  <1> QED BY <1>1, <1>2, MidIsHeld

\* SerialInv is kept by every step that changes no phase, capture, plan or
\* content of a row in Mid and brings no row into Mid.
LEMMA QuietStepKeepsSerialInv ==
  ASSUME SerialInv, server' = server,
         \A p \in Ops : phase'[p] \in Mid =>
            phase[p] \in Mid /\ plan'[p] = plan[p] /\ captured'[p] = captured[p]
  PROVE  SerialInv'
  BY DEF SerialInv, OneInFlight, CaptureStaysValid, Content, Mid

\* So is it by a step of the only row in Mid that leaves its own change or its
\* own capture on its target.
LEMMA OwnWriteKeepsSerialInv ==
  ASSUME IInv, SerialInv, NEW o \in Ops, phase[o] \in Mid,
         UNCHANGED <<phase, plan, captured>>,
         \/ server' = server
         \/ server' = [server EXCEPT ![plan[o].target] = o]
         \/ server' = [server EXCEPT ![plan[o].target] = captured[o]]
  PROVE  SerialInv'
  <1>1. plan[o].target \in Targets
    BY TargetKnown DEF IInv, ControlInv
  <1>2. \A p \in Ops : phase[p] \in Mid => p = o
    BY DEF SerialInv, OneInFlight
  <1>3. OneInFlight'
    BY DEF SerialInv, OneInFlight
  <1>4. Content(o)' \in {o, captured[o]}
    BY <1>1 DEF IInv, TypeOK, SerialInv, CaptureStaysValid, Content
  <1> QED BY <1>2, <1>3, <1>4 DEF SerialInv, CaptureStaysValid

\* Every step keeps SerialInv.
LEMMA NextKeepsSerialInv ==
  ASSUME IInv, SerialInv, ~VerifyMayReject, [Next]_vars
  PROVE  SerialInv'
  <1> USE DEF rows, volatile, clock, history
  <1>1. ASSUME NEW o \in Ops, Planning(o) PROVE SerialInv'
    BY <1>1, QuietStepKeepsSerialInv
    DEF Planning, Submit, DescribeThrows, RefuseScope, PlanGate, SetPhase, IInv,
        TypeOK, Mid
  <1>2. ASSUME NEW o \in Ops, Human(o) PROVE SerialInv'
    BY <1>2, QuietStepKeepsSerialInv
    DEF Human, Approve, Cancel, Keep, Commit, SetPhase, IInv, TypeOK, Mid
  <1>3. ASSUME NEW o \in Ops, Running(o) PROVE SerialInv'
    <2>1. CASE Capture(o)
      <3>1. \A p \in Ops : phase[p] \notin Mid
        BY <2>1, CapturerIsAlone DEF Capture
      <3>2. /\ server' = server /\ plan' = plan
            /\ phase' = [phase EXCEPT ![o] = "applying"]
            /\ captured' = [captured EXCEPT ![o] = Content(o)]
        BY <2>1 DEF Capture, SetCapturedAndApplying
      <3>3. \A p \in Ops : phase'[p] \in Mid => p = o
        BY <3>1, <3>2 DEF IInv, TypeOK
      <3>4. Content(o)' = captured'[o]
        BY <3>2 DEF IInv, TypeOK, Content
      <3> QED BY <3>3, <3>4 DEF SerialInv, OneInFlight, CaptureStaysValid
    <2>2. CASE ApplyEffect(o)
      <3>1. phase[o] \in Mid
        BY <2>2 DEF ApplyEffect, IInv, ControlInv, RowMatchesCoroutine, Mid
      <3> QED BY <2>2, <3>1, OwnWriteKeepsSerialInv DEF ApplyEffect
    <2>3. CASE Undo(o)
      <3>1. phase[o] \in Mid
        BY <2>3 DEF Undo, IInv, ControlInv, RowMatchesCoroutine
      <3> QED BY <2>3, <3>1, OwnWriteKeepsSerialInv DEF Undo, Restore
    <2>4. CASE ApplyReturns(o)
      <3>1. phase[o] \in Mid
        BY <2>4 DEF ApplyReturns, IInv, ControlInv, RowMatchesCoroutine, Mid
      <3> QED BY <2>4, <3>1, QuietStepKeepsSerialInv
              DEF ApplyReturns, SetPhase, IInv, TypeOK
    <2>5. CASE AcquireLock(o) \/ CaptureFails(o)
      BY <2>5, QuietStepKeepsSerialInv
      DEF AcquireLock, CaptureFails, SetPhase, IInv, TypeOK, Mid
    <2>6. CASE CommitVerified(o) \/ CommitUnverified(o) \/ RecordUndo(o)
      BY <2>6, QuietStepKeepsSerialInv
      DEF CommitVerified, CommitUnverified, RecordUndo, Commit, RollBack,
          SetPhase, IInv, TypeOK, Mid
    <2>7. CASE \/ ApplyThrows(o) \/ AskReachability(o) \/ VerifyFails(o)
               \/ VerifyRejects(o) \/ NotKept(o)
      BY <2>7, QuietStepKeepsSerialInv
      DEF ApplyThrows, AskReachability, VerifyFails, VerifyRejects, NotKept
    <2> QED BY <1>3, <2>1, <2>2, <2>3, <2>4, <2>5, <2>6, <2>7 DEF Running
  <1>4. ASSUME NEW o \in Ops, Booting(o) PROVE SerialInv'
    <2>1. CASE Sweep(o) \/ BootRecord(o) \/ BootCommit(o)
      BY <2>1, QuietStepKeepsSerialInv
      DEF Sweep, BootRecord, BootCommit, Commit, RollBack, SetPhase, IInv,
          TypeOK, Mid
    <2>2. CASE Judging(o) /\ BootRestore(o)
      BY <2>2, OwnWriteKeepsSerialInv DEF Judging, BootRestore, Restore
    <2> QED
      BY <1>4, <2>1, <2>2
      DEF Booting, JudgeOwn, JudgeIrreversible, JudgeVerified, JudgeUnverified
  <1>5. ASSUME \/ \E box \in BOOLEAN : Crash(box)
               \/ BootDone
               \/ \E o \in Ops : HourPasses(o) \/ CooldownPasses(o)
               \/ UNCHANGED vars
        PROVE  SerialInv'
    BY <1>5, QuietStepKeepsSerialInv
    DEF Crash, BootDone, HourPasses, CooldownPasses, vars
  <1> QED BY <1>1, <1>2, <1>3, <1>4, <1>5 DEF Next

\* Unless a verify rejects, the rows too show one operation in flight, and what
\* it captured stays what an undo has to put back, crashes included.
THEOREM Serialization ==
  ASSUME ~VerifyMayReject
  PROVE  Spec => [](OneInFlight /\ CaptureStaysValid)
  <1>1. Init => SerialInv
    BY DEF Init, SerialInv, OneInFlight, CaptureStaysValid, Mid
  <1>2. IInv /\ SerialInv /\ [Next]_vars => SerialInv'
    BY NextKeepsSerialInv
  <1> QED BY Invariance, <1>1, <1>2, PTL DEF Spec, SerialInv
=============================================================================
