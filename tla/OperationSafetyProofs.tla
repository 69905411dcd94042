----------------------- MODULE OperationSafetyProofs -----------------------
(***************************************************************************)
(* What the engine tells its users about an operation is true: proofs of   *)
(* the safety invariants of OperationEngine that hold whatever throws,     *)
(* rejects or dies.                                                        *)
(***************************************************************************)
EXTENDS OperationEngineProofs, FiniteSetTheorems

QuietErrors == {"refused", "cancelled", "interrupted", "captureFailed"}

\* An operation that reached the server is past capturing, under the plan that
\* was approved, and is never labelled as one that changed nothing.
TouchedInv ==
  \A o \in Ops :
    /\ o \in touched => /\ phase[o] \in Mid \cup Terminal
                        /\ plan[o] \in Plans
                        /\ error[o] \notin QuietErrors
    /\ phase[o] \in {"capturing"} \cup Mid => error[o] = "none"

\* Consent precedes the lock's queue.
ConsentInv ==
  \A o \in Ops :
    pc[o] \in {"queued"} \cup Holding \/ o \in touched
      => o \in approved \/ EffectiveAutoApprove(plan[o])

\* An applied irreversible change gets to a rollback only through the lifeline
\* window; one that ends the daemon never gets past apply.
LandedInv ==
  \A o \in Ops :
    /\ o \in landed => phase[o] \in {"verifying"} \cup Terminal
    /\ o \in landed /\ pc[o] \in {"undoing", "undone"} /\ plan[o].irreversible
         => plan[o].class = "lifeline"
    /\ bootUndo = o /\ plan[o].irreversible => plan[o].class = "lifeline"
    /\ pc[o] \in {"verifying", "reach"} => ~plan[o].endsDaemon
    /\ pc[o] = "reach" => plan[o].class = "lifeline"

\* No capture and no incident before the change.
IncidentInv ==
  \A o \in Ops : phase[o] \in {"none"} \cup Early
                   => captured[o] = None /\ o \notin incidents

SafeInv == /\ TouchedInv /\ ConsentInv /\ LandedInv /\ IncidentInv
           /\ LifelineNeedsKeep /\ NoFalseRollback /\ RebootVerdictIsTrue
           /\ IncidentIffReached

\* SafeInv holds initially.
LEMMA InitSafeInv == Init => SafeInv
  BY NoneAssumption
  DEF Init, SafeInv, TouchedInv, ConsentInv, LandedInv, IncidentInv,
         LifelineNeedsKeep, NoFalseRollback, RebootVerdictIsTrue,
         IncidentIffReached, Reached, QuietErrors, Early, Mid, Terminal, Holding

\* Planning an operation keeps SafeInv.
LEMMA PlanningKeepsSafeInv ==
  ASSUME IInv, SafeInv, NEW o \in Ops, Planning(o)
  PROVE  SafeInv'
  <1> USE NoneAssumption, EndsDaemonAssumption
          DEF IInv, TypeOK, ControlInv, RowMatchesCoroutine, RowIsComplete,
              BootIsQuiet, SafeInv, TouchedInv, ConsentInv, LandedInv,
              IncidentInv, LifelineNeedsKeep, NoFalseRollback,
              RebootVerdictIsTrue, IncidentIffReached, Reached, QuietErrors,
              Early, Mid, Terminal, Holding, Goto, SetPhase, Commit, RollBack,
              rows, volatile, clock, history
  <1>1. CASE Submit(o)
    BY <1>1 DEF Submit
  <1>2. CASE DescribeThrows(o)
    BY <1>2 DEF DescribeThrows
  <1>3. ASSUME NEW p \in Plans, RefuseScope(o, p) PROVE SafeInv'
    BY <1>3 DEF RefuseScope
  <1>4. ASSUME NEW p \in Plans, NEW strict \in BOOLEAN, PlanGate(o, p, strict)
        PROVE SafeInv'
    BY <1>4 DEF PlanGate
  <1> HIDE DEF SafeInv
  <1> QED BY <1>1, <1>2, <1>3, <1>4
          DEF Planning

\* A human's answer keeps SafeInv.
LEMMA HumanKeepsSafeInv ==
  ASSUME IInv, SafeInv, NEW o \in Ops, Human(o)
  PROVE  SafeInv'
  <1> USE NoneAssumption, EndsDaemonAssumption
          DEF IInv, TypeOK, ControlInv, RowMatchesCoroutine, RowIsComplete,
              BootIsQuiet, SafeInv, TouchedInv, ConsentInv, LandedInv,
              IncidentInv, LifelineNeedsKeep, NoFalseRollback,
              RebootVerdictIsTrue, IncidentIffReached, Reached, QuietErrors,
              Early, Mid, Terminal, Holding, Goto, SetPhase, Commit, RollBack,
              rows, volatile, clock, history
  <1>1. CASE Approve(o)
    BY <1>1 DEF Approve
  <1>2. CASE Cancel(o)
    BY <1>2 DEF Cancel
  <1>3. CASE Keep(o)
    BY <1>3 DEF Keep
  <1> QED BY <1>1, <1>2, <1>3
          DEF Human

\* A step of a running operation keeps SafeInv.
LEMMA RunningKeepsSafeInv ==
  ASSUME IInv, SafeInv, NEW o \in Ops, Running(o)
  PROVE  SafeInv'
  <1> USE NoneAssumption, EndsDaemonAssumption
          DEF IInv, TypeOK, ControlInv, RowMatchesCoroutine, RowIsComplete,
              BootIsQuiet, SafeInv, TouchedInv, ConsentInv, LandedInv,
              IncidentInv, LifelineNeedsKeep, NoFalseRollback,
              RebootVerdictIsTrue, IncidentIffReached, Reached, QuietErrors,
              Early, Mid, Terminal, Holding, Goto, SetPhase, Commit, RollBack,
              rows, volatile, clock, history
  <1>1. CASE AcquireLock(o)
    BY <1>1 DEF AcquireLock
  <1>2. CASE CaptureFails(o)
    BY <1>2 DEF CaptureFails
  <1>3. CASE Capture(o)
    BY <1>3 DEF Capture, SetCapturedAndApplying
  <1>4. CASE ApplyEffect(o)
    BY <1>4 DEF ApplyEffect
  <1>5. CASE ApplyReturns(o)
    BY <1>5 DEF ApplyReturns
  <1>6. CASE ApplyThrows(o)
    BY <1>6 DEF ApplyThrows
  <1>7. CASE AskReachability(o)
    BY <1>7 DEF AskReachability
  <1>8. CASE CommitVerified(o)
    BY <1>8 DEF CommitVerified
  <1>9. CASE VerifyFails(o)
    BY <1>9 DEF VerifyFails
  <1>10. CASE CommitUnverified(o)
    BY <1>10 DEF CommitUnverified
  <1>11. CASE VerifyRejects(o)
    BY <1>11 DEF VerifyRejects
  <1>12. CASE NotKept(o)
    BY <1>12 DEF NotKept
  <1>13. CASE Undo(o)
    BY <1>13 DEF Undo, Restore
  <1>14. CASE RecordUndo(o)
    BY <1>14 DEF RecordUndo
  <1> QED BY <1>1, <1>2, <1>3, <1>4, <1>5, <1>6, <1>7, <1>8, <1>9, <1>10, <1>11, <1>12, <1>13, <1>14
          DEF Running

\* A step of reconcileOperations keeps SafeInv.
LEMMA BootingKeepsSafeInv ==
  ASSUME IInv, SafeInv, NEW o \in Ops, Booting(o)
  PROVE  SafeInv'
  <1> USE NoneAssumption, EndsDaemonAssumption
          DEF IInv, TypeOK, ControlInv, RowMatchesCoroutine, RowIsComplete,
              BootIsQuiet, SafeInv, TouchedInv, ConsentInv, LandedInv,
              IncidentInv, LifelineNeedsKeep, NoFalseRollback,
              RebootVerdictIsTrue, IncidentIffReached, Reached, QuietErrors,
              Early, Mid, Terminal, Holding, Goto, SetPhase, Commit, RollBack,
              rows, volatile, clock, history
  <1>1. CASE Sweep(o)
    BY <1>1 DEF Sweep
  <1>2. CASE JudgeOwn(o)
    BY <1>2 DEF JudgeOwn, Judging, BootCommit, BootRestore
  <1>3. CASE JudgeIrreversible(o)
    BY <1>3 DEF JudgeIrreversible, Judging, BootCommit, BootRestore
  <1>4. CASE JudgeVerified(o)
    BY <1>4 DEF JudgeVerified, Judging, BootCommit, BootRestore
  <1>5. CASE JudgeUnverified(o)
    BY <1>5 DEF JudgeUnverified, Judging, BootCommit, BootRestore
  <1>6. CASE BootRecord(o)
    BY <1>6 DEF BootRecord
  <1> QED BY <1>1, <1>2, <1>3, <1>4, <1>5, <1>6
          DEF Booting

\* Crashes, the end of the boot and the clock keep SafeInv.
LEMMA OthersKeepSafeInv ==
  ASSUME IInv, SafeInv,
         \/ \E box \in BOOLEAN : Crash(box)
         \/ BootDone
         \/ \E o \in Ops : HourPasses(o) \/ CooldownPasses(o)
         \/ UNCHANGED vars
  PROVE  SafeInv'
  <1> USE NoneAssumption, EndsDaemonAssumption
          DEF IInv, TypeOK, ControlInv, RowMatchesCoroutine, RowIsComplete,
              BootIsQuiet, SafeInv, TouchedInv, ConsentInv, LandedInv,
              IncidentInv, LifelineNeedsKeep, NoFalseRollback,
              RebootVerdictIsTrue, IncidentIffReached, Reached, QuietErrors,
              Early, Mid, Terminal, Holding, Goto, SetPhase, Commit, RollBack,
              rows, volatile, clock, history
  <1>1. ASSUME NEW box \in BOOLEAN, Crash(box) PROVE SafeInv'
    BY <1>1 DEF Crash
  <1>2. CASE BootDone
    BY <1>2 DEF BootDone
  <1>3. ASSUME NEW o \in Ops, HourPasses(o) \/ CooldownPasses(o)
        PROVE SafeInv'
    BY <1>3 DEF HourPasses, CooldownPasses
  <1>4. CASE UNCHANGED vars
    BY <1>4 DEF vars
  <1> HIDE DEF SafeInv
  <1> QED BY <1>1, <1>2, <1>3, <1>4

\* SafeInv holds in every reachable state.
THEOREM SafeInvariance == Spec => []SafeInv
  <1>1. IInv /\ SafeInv /\ [Next]_vars => SafeInv'
    BY PlanningKeepsSafeInv, HumanKeepsSafeInv, RunningKeepsSafeInv,
       BootingKeepsSafeInv, OthersKeepSafeInv DEF Next
  <1> QED BY InitSafeInv, Invariance, <1>1, PTL DEF Spec

-----------------------------------------------------------------------------
(* What a user may conclude.                                               *)

\* QuietEndsTouchNothing: "nothing was changed" is true on every path that
\* ends with such an error, in runOperation and in reconcileOperations' sweep.
THEOREM QuietEnds == Spec => []QuietEndsTouchNothing
  <1>1. SafeInv => QuietEndsTouchNothing
    BY DEF SafeInv, TouchedInv, QuietEndsTouchNothing, QuietErrors
  <1> QED BY SafeInvariance, <1>1, PTL

\* HumanInTheLoop: effectiveAutoApprove and the confirm question together keep
\* a human before every change that is not a reversible mutation.
THEOREM Consent == Spec => []HumanInTheLoop
  <1>1. IInv /\ SafeInv => HumanInTheLoop
    <2> SUFFICES ASSUME IInv, SafeInv, NEW o \in touched,
                        o \notin approved
                 PROVE  /\ plan[o].autoApprove /\ ~plan[o].irreversible
                        /\ plan[o].class = "mutate"
      BY DEF HumanInTheLoop
    <2>1. o \in Ops
      BY DEF IInv, TypeOK
    <2>2. plan[o] \in PlanType
      BY <2>1, PlansAssumption DEF SafeInv, TouchedInv
    <2>3. EffectiveAutoApprove(plan[o])
      BY <2>1 DEF SafeInv, ConsentInv
    <2> QED BY <2>2, <2>3 DEF EffectiveAutoApprove, PlanType
  <1> QED BY Invariance, SafeInvariance, <1>1, PTL

\* LifelineNeedsKeep: awaitLifelineConfirm answers before a lifeline
\* operation commits (audit E2).
THEOREM LifelinesConfirmed == Spec => []LifelineNeedsKeep
  <1>1. SafeInv => LifelineNeedsKeep
    BY DEF SafeInv
  <1> QED BY SafeInvariance, <1>1, PTL

\* NoFalseRollback: nothing irreversible is called rolledback,
\* whatever fails or crashes (audit E1).
THEOREM RollbacksAreReal == Spec => []NoFalseRollback
  <1>1. SafeInv => NoFalseRollback
    BY DEF SafeInv
  <1> QED BY SafeInvariance, <1>1, PTL

\* RebootVerdictIsTrue: the verdict of the first reconcile after a reboot
\* is what the box did.
THEOREM RebootsAreJudged == Spec => []RebootVerdictIsTrue
  <1>1. SafeInv => RebootVerdictIsTrue
    BY DEF SafeInv
  <1> QED BY SafeInvariance, <1>1, PTL

\* IncidentIffReached: incidents are recorded for exactly the terminal
\* operations that got as far as the server.
THEOREM IncidentsAreComplete == Spec => []IncidentIffReached
  <1>1. SafeInv => IncidentIffReached
    BY DEF SafeInv
  <1> QED BY SafeInvariance, <1>1, PTL

-----------------------------------------------------------------------------
(* The unattended budget.                                                  *)

\* A row earns its auto_approve together with its plan, and the rows of the last
\* hour that have it are finitely many.
BudgetInv ==
  /\ IsFiniteSet(AutoApprovedThisHour)
  /\ UnattendedBudget
  /\ \A o \in Ops : phase[o] \in {"none", "planning"} => ~auto[o]

\* A step that puts no row among the unattended ones of the hour keeps the
\* budget.
LEMMA QuietStepKeepsBudget ==
  ASSUME BudgetInv, AutoApprovedThisHour' \subseteq AutoApprovedThisHour,
         \A o \in Ops : phase'[o] \in {"none", "planning"} => ~auto'[o]
  PROVE  BudgetInv'
  <1> DEFINE A == AutoApprovedThisHour
  <1> HIDE DEF A
  <1>1. A' \in SUBSET A /\ IsFiniteSet(A) /\ Cardinality(A) <= MaxUnattended
    BY DEF BudgetInv, UnattendedBudget, A
  <1>2. /\ IsFiniteSet(A')
        /\ Cardinality(A') <= Cardinality(A)
    BY <1>1, FS_Subset
  <1>3. Cardinality(A) \in Nat /\ Cardinality(A') \in Nat
    BY <1>1, <1>2, FS_CardinalityType
  <1>4. Cardinality(A') <= MaxUnattended
    BY <1>1, <1>2, <1>3, BoundsAssumption
  <1> QED BY <1>2, <1>4 DEF BudgetInv, UnattendedBudget, A

\* The gate and the row's plan are one stretch: it lets one more row through only
\* below the limit.
LEMMA PlanGateKeepsBudget ==
  ASSUME IInv, BudgetInv, NEW o \in Ops, NEW p \in Plans, NEW strict \in BOOLEAN,
         PlanGate(o, p, strict)
  PROVE  BudgetInv'
  <1> DEFINE aa == EffectiveAutoApprove(p) /\ ~UnattendedGate /\ ~strict
             A == AutoApprovedThisHour
  <1> HIDE DEF A
  <1>1. /\ phase' = [phase EXCEPT ![o] = "awaiting_confirmation"]
        /\ young' = young /\ phase[o] = "planning"
    BY DEF PlanGate, clock, IInv, ControlInv, RowMatchesCoroutine
  <1>2. auto' = [auto EXCEPT ![o] = aa]
    BY Zenon DEF PlanGate
  <1>3. \A q \in Ops : phase'[q] \in {"none", "planning"} => ~auto'[q]
    BY <1>1, <1>2 DEF BudgetInv, IInv, TypeOK
  <1>4. CASE ~aa
    <2>1. auto' = [auto EXCEPT ![o] = FALSE]
      BY <1>2, <1>4, Zenon
    <2>2. A' \subseteq A
      BY <1>1, <2>1 DEF A, AutoApprovedThisHour, IInv, TypeOK
    <2> QED BY <1>3, <2>2, QuietStepKeepsBudget DEF A
  <1>5. CASE aa
    <2>1. auto' = [auto EXCEPT ![o] = TRUE]
      BY <1>2, <1>5, Zenon
    <2>2. A' \subseteq A \cup {o}
      BY <1>1, <2>1 DEF A, AutoApprovedThisHour, IInv, TypeOK
    <2>3. IsFiniteSet(A) /\ ~(Cardinality(A) >= MaxUnattended)
      BY <1>5 DEF BudgetInv, UnattendedGate, A
    <2>4. /\ IsFiniteSet(A \cup {o})
          /\ Cardinality(A \cup {o}) <= Cardinality(A) + 1
          /\ Cardinality(A) \in Nat
      <3>1. Cardinality(A) \in Nat
        BY <2>3, FS_CardinalityType
      <3>2. /\ IsFiniteSet(A \cup {o})
            /\ Cardinality(A \cup {o}) =
                 IF o \in A THEN Cardinality(A) ELSE Cardinality(A) + 1
        BY <2>3, FS_AddElement
      <3> QED BY <3>1, <3>2
    <2>5. IsFiniteSet(A') /\ Cardinality(A') <= Cardinality(A \cup {o})
      BY <2>2, <2>4, FS_Subset
    <2>6. Cardinality(A') \in Nat /\ Cardinality(A \cup {o}) \in Nat
      BY <2>4, <2>5, FS_CardinalityType
    <2>7. Cardinality(A') <= MaxUnattended
      BY <2>3, <2>4, <2>5, <2>6, BoundsAssumption
    <2> QED BY <1>3, <2>5, <2>7 DEF BudgetInv, UnattendedBudget, A
  <1> QED BY <1>4, <1>5

\* UnattendedBudget: however gates, clocks and crashes interleave, no more rows
\* of the last hour ran unattended than MAX_UNATTENDED_OPS_PER_HOUR.
THEOREM BudgetHolds == Spec => []UnattendedBudget
  <1>1. Init => BudgetInv
    <2>1. ASSUME Init PROVE AutoApprovedThisHour = {}
      BY <2>1 DEF Init, AutoApprovedThisHour
    <2>2. ASSUME Init PROVE /\ IsFiniteSet(AutoApprovedThisHour)
                            /\ Cardinality(AutoApprovedThisHour) = 0
      BY <2>1, <2>2, FS_EmptySet
    <2> QED
      BY <2>2, BoundsAssumption DEF Init, BudgetInv, UnattendedBudget
  <1>2. ASSUME IInv, BudgetInv, [Next]_vars PROVE BudgetInv'
    <2> USE DEF rows, volatile, clock, history
    <2>1. ASSUME NEW o \in Ops, Submit(o) PROVE BudgetInv'
      <3>1. /\ young' = young \cup {o} /\ auto' = auto
            /\ phase' = [phase EXCEPT ![o] = "planning"]
            /\ ~auto[o]
        BY <1>2, <2>1 DEF Submit, BudgetInv
      <3> QED
        BY <1>2, <3>1, QuietStepKeepsBudget
        DEF AutoApprovedThisHour, BudgetInv, IInv, TypeOK
    <2>2. ASSUME NEW o \in Ops, NEW p \in Plans, NEW strict \in BOOLEAN,
                 PlanGate(o, p, strict)
          PROVE  BudgetInv'
      BY <1>2, <2>2, PlanGateKeepsBudget
    <2>3. ASSUME auto' = auto, young' \subseteq young,
                 \A o \in Ops : phase'[o] \in {"none", "planning"} =>
                    phase'[o] = phase[o]
          PROVE  BudgetInv'
      BY <1>2, <2>3, QuietStepKeepsBudget DEF AutoApprovedThisHour, BudgetInv
    <2>4. ASSUME NEW o \in Ops,
                 \/ Human(o) \/ Running(o) \/ Booting(o)
                 \/ HourPasses(o) \/ CooldownPasses(o) \/ DescribeThrows(o)
                 \/ \E p \in Plans : RefuseScope(o, p)
          PROVE  BudgetInv'
      BY <1>2, <2>3, <2>4
      DEF RefuseScope, DescribeThrows, Human, Approve, Cancel, Keep, Running,
          AcquireLock, CaptureFails, Capture, SetCapturedAndApplying,
          ApplyEffect, ApplyReturns, ApplyThrows, AskReachability,
          CommitVerified, VerifyFails, CommitUnverified, VerifyRejects,
          NotKept, Undo, RecordUndo, Booting, Sweep, JudgeOwn,
          JudgeIrreversible, JudgeVerified, JudgeUnverified, BootCommit,
          BootRestore, BootRecord, Commit, RollBack, SetPhase, HourPasses,
          CooldownPasses, IInv, TypeOK
    <2>5. CASE (\E box \in BOOLEAN : Crash(box)) \/ BootDone \/ UNCHANGED vars
      BY <2>3, <2>5 DEF Crash, BootDone, vars
    <2> QED BY <1>2, <2>1, <2>2, <2>4, <2>5 DEF Next, Planning
  <1> QED BY Invariance, <1>1, <1>2, PTL DEF Spec, BudgetInv
=============================================================================
