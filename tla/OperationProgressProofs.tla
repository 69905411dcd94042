----------------------- MODULE OperationProgressProofs -----------------------
(***************************************************************************)
(* What the safety of OperationEngine contributes to its progress, for     *)
(* every number of operations and crashes and also where verify rejects:   *)
(* the write lock's chain holds nobody who is gone, a row goes through its *)
(* phases in one direction and stops at a terminal one, and while the      *)
(* daemon is up no row is without somebody who works on it.                *)
(***************************************************************************)
EXTENDS OperationSafetyProofs

-----------------------------------------------------------------------------
(* The chain of the write lock.                                            *)

InLine == {o \in Ops : pc[o] \in {"queued"} \cup Holding}

\* withWriteLock's promise chain is made of those who wait for the lock or are
\* inside it, each of them once.
LockChain == IsInjective(queue) /\ Range(queue) = InLine

\* A newcomer joins at the end.
LEMMA AppendJoins ==
  ASSUME NEW q \in Seq(Ops), NEW o \in Ops, IsInjective(q), o \notin Range(q)
  PROVE  /\ IsInjective(Append(q, o))
         /\ Range(Append(q, o)) = Range(q) \cup {o}
  <1> DEFINE r == Append(q, o)
  <1>1. /\ DOMAIN q = 1..Len(q) /\ Len(q) \in Nat
        /\ DOMAIN r = 1..(Len(q) + 1)
        /\ \A i \in 1..Len(q) : r[i] = q[i]
        /\ r[Len(q) + 1] = o
    OBVIOUS
  <1> HIDE DEF r
  <1>2. \A i \in 1..Len(q) : q[i] # o
    BY <1>1 DEF Range
  <1>3. \A i \in 1..(Len(q) + 1) : i \in 1..Len(q) \/ i = Len(q) + 1
    BY <1>1
  <1>4. IsInjective(r)
    BY <1>1, <1>2, <1>3 DEF IsInjective
  <1>5. Range(r) \subseteq Range(q) \cup {o}
    BY <1>1, <1>3 DEF Range
  <1>6. Range(q) \cup {o} \subseteq Range(r)
    <2>1. Len(q) + 1 \in DOMAIN r /\ DOMAIN q \subseteq DOMAIN r
      BY <1>1
    <2> QED BY <1>1, <2>1 DEF Range
  <1> QED BY <1>4, <1>5, <1>6 DEF r

\* The head, and nobody else, leaves.
LEMMA TailLeaves ==
  ASSUME NEW q \in Seq(Ops), q # <<>>, IsInjective(q)
  PROVE  /\ IsInjective(Tail(q))
         /\ Range(Tail(q)) = Range(q) \ {Head(q)}
  <1> DEFINE r == Tail(q)
  <1>1. /\ DOMAIN q = 1..Len(q) /\ Len(q) \in Nat /\ Len(q) >= 1
        /\ DOMAIN r = 1..(Len(q) - 1)
        /\ \A i \in 1..(Len(q) - 1) : r[i] = q[i + 1]
        /\ Head(q) = q[1]
    OBVIOUS
  <1> HIDE DEF r
  <1>2. \A i \in 1..(Len(q) - 1) : i + 1 \in DOMAIN q /\ i + 1 # 1
    BY <1>1
  <1>3. IsInjective(r)
    <2> SUFFICES ASSUME NEW i \in 1..(Len(q) - 1), NEW j \in 1..(Len(q) - 1),
                        r[i] = r[j]
                 PROVE  i = j
      BY <1>1 DEF IsInjective
    <2>1. q[i + 1] = q[j + 1]
      BY <1>1
    <2>2. i + 1 = j + 1
      BY <1>2, <2>1 DEF IsInjective
    <2> QED BY <1>1, <2>2
  <1>4. \A i \in 1..(Len(q) - 1) : r[i] # q[1]
    <2> SUFFICES ASSUME NEW i \in 1..(Len(q) - 1), q[i + 1] = q[1] PROVE FALSE
      BY <1>1
    <2>1. i + 1 \in DOMAIN q /\ 1 \in DOMAIN q
      BY <1>1
    <2>2. i + 1 = 1
      BY <2>1 DEF IsInjective
    <2> QED BY <1>1, <2>2
  <1>5. Range(r) \subseteq Range(q) \ {Head(q)}
    BY <1>1, <1>2, <1>4 DEF Range
  <1>6. Range(q) \ {Head(q)} \subseteq Range(r)
    <2> SUFFICES ASSUME NEW i \in DOMAIN q, q[i] # q[1] PROVE q[i] \in Range(r)
      BY <1>1 DEF Range
    <2>1. i - 1 \in 1..(Len(q) - 1) /\ (i - 1) + 1 = i
      BY <1>1
    <2>2. r[i - 1] = q[i] /\ i - 1 \in DOMAIN r
      BY <1>1, <2>1
    <2> QED BY <2>2 DEF Range
  <1> QED BY <1>3, <1>5, <1>6 DEF r

\* A step that leaves the queue and who is in line as they are.
LEMMA QuietStepKeepsChain ==
  ASSUME LockChain, queue' = queue, InLine' = InLine
  PROVE  LockChain'
  BY DEF LockChain

\* Somebody who was not in line joins the chain.
LEMMA JoinKeepsChain ==
  ASSUME IInv, LockChain, NEW o \in Ops, pc[o] \notin {"queued"} \cup Holding,
         queue' = Append(queue, o), pc' = [pc EXCEPT ![o] = "queued"]
  PROVE  LockChain'
  <1>1. queue \in Seq(Ops) /\ o \notin Range(queue)
    BY DEF IInv, TypeOK, LockChain, InLine
  <1>2. InLine' = InLine \cup {o}
    BY DEF IInv, TypeOK, InLine
  <1> QED BY <1>1, <1>2, AppendJoins DEF LockChain

\* The holder leaves by withWriteLock's finally.
LEMMA ReleaseKeepsChain ==
  ASSUME IInv, LockChain, NEW o \in Ops, pc[o] \in Holding,
         queue' = Tail(queue),
         NEW l \in {"ended", "threw"}, pc' = [pc EXCEPT ![o] = l]
  PROVE  LockChain'
  <1>1. queue \in Seq(Ops) /\ queue # <<>> /\ Head(queue) = o
    BY DEF IInv, TypeOK, ControlInv, HolderIsHead
  <1>2. InLine' = InLine \ {o}
    BY DEF IInv, TypeOK, InLine, Holding
  <1> QED BY <1>1, <1>2, TailLeaves DEF LockChain

\* A step of an operation inside the lock, or one that is not in line, that
\* stays where it is.
LEMMA OwnMoveKeepsChain ==
  ASSUME IInv, LockChain, NEW o \in Ops, NEW l \in PCs,
         queue' = queue, pc' = [pc EXCEPT ![o] = l],
         pc[o] \in {"queued"} \cup Holding <=> l \in {"queued"} \cup Holding
  PROVE  LockChain'
  <1>1. InLine' = InLine
    BY DEF IInv, TypeOK, InLine
  <1> QED BY <1>1, QuietStepKeepsChain

LEMMA PlanningKeepsChain ==
  ASSUME IInv, LockChain, NEW o \in Ops, Planning(o)
  PROVE  LockChain'
  <1>1. CASE Submit(o)
    <2>1. pc[o] = "idle"
      BY <1>1 DEF Submit, IInv, ControlInv, RowMatchesCoroutine
    <2> QED BY <1>1, <2>1, OwnMoveKeepsChain DEF Submit, Goto, Holding, PCs
  <1>2. CASE DescribeThrows(o)
    BY <1>2, OwnMoveKeepsChain DEF DescribeThrows, Goto, Holding, PCs
  <1>3. ASSUME NEW p \in Plans, RefuseScope(o, p) PROVE LockChain'
    BY <1>3, OwnMoveKeepsChain DEF RefuseScope, Goto, Holding, PCs
  <1>4. ASSUME NEW p \in Plans, NEW strict \in BOOLEAN, PlanGate(o, p, strict)
        PROVE  LockChain'
    <2> DEFINE aa == EffectiveAutoApprove(p) /\ ~UnattendedGate /\ ~strict
    <2>1. pc[o] \notin {"queued"} \cup Holding
      BY <1>4 DEF PlanGate, Holding
    <2>2. CASE aa
      <3>1. queue' = Append(queue, o) /\ pc' = [pc EXCEPT ![o] = "queued"]
        BY <1>4, <2>2 DEF PlanGate, Goto
      <3> QED BY <2>1, <3>1, JoinKeepsChain
    <2>3. CASE ~aa
      <3>1. UNCHANGED queue /\ pc' = [pc EXCEPT ![o] = "confirming"]
        BY <1>4, <2>3 DEF PlanGate, Goto
      <3> QED BY <2>1, <3>1, OwnMoveKeepsChain DEF Holding, PCs
    <2> QED BY <2>2, <2>3
  <1> QED BY <1>1, <1>2, <1>3, <1>4 DEF Planning

LEMMA HumanKeepsChain ==
  ASSUME IInv, LockChain, NEW o \in Ops, Human(o)
  PROVE  LockChain'
  <1>1. CASE Approve(o)
    BY <1>1, JoinKeepsChain DEF Approve, Goto, Holding
  <1>2. CASE Cancel(o)
    BY <1>2, OwnMoveKeepsChain DEF Cancel, Goto, Holding, PCs
  <1>3. CASE Keep(o)
    BY <1>3, ReleaseKeepsChain DEF Keep, Goto, Release, Holding
  <1> QED BY <1>1, <1>2, <1>3 DEF Human

LEMMA RunningKeepsChain ==
  ASSUME IInv, LockChain, NEW o \in Ops, Running(o)
  PROVE  LockChain'
  <1>1. CASE AcquireLock(o)
    BY <1>1, OwnMoveKeepsChain DEF AcquireLock, Goto, Holding, PCs
  <1>2. CASE Capture(o) \/ ApplyReturns(o) \/ ApplyThrows(o)
    BY <1>2, OwnMoveKeepsChain
    DEF Capture, ApplyReturns, ApplyThrows, Goto, Holding, PCs
  <1>3. CASE AskReachability(o) \/ VerifyFails(o) \/ NotKept(o) \/ Undo(o)
    BY <1>3, OwnMoveKeepsChain
    DEF AskReachability, VerifyFails, NotKept, Undo, Goto, Holding, PCs
  <1>4. CASE ApplyEffect(o)
    BY <1>4, QuietStepKeepsChain DEF ApplyEffect, volatile, InLine
  <1>5. CASE CaptureFails(o) \/ CommitVerified(o) \/ CommitUnverified(o)
    BY <1>5, ReleaseKeepsChain
    DEF CaptureFails, CommitVerified, CommitUnverified, Goto, Release, Holding
  <1>6. CASE VerifyRejects(o) \/ RecordUndo(o)
    BY <1>6, ReleaseKeepsChain
    DEF VerifyRejects, RecordUndo, Goto, Release, Holding
  <1> QED BY <1>1, <1>2, <1>3, <1>4, <1>5, <1>6 DEF Running

\* The daemon's death empties the chain, and at boot nobody is in line.
LEMMA OthersKeepChain ==
  ASSUME IInv, LockChain,
         \/ \E o \in Ops : Booting(o) \/ HourPasses(o) \/ CooldownPasses(o)
         \/ \E box \in BOOLEAN : Crash(box)
         \/ BootDone
         \/ UNCHANGED vars
  PROVE  LockChain'
  <1>1. ASSUME UNCHANGED <<pc, queue>> PROVE LockChain'
    BY <1>1, QuietStepKeepsChain DEF InLine
  <1>2. ASSUME NEW box \in BOOLEAN, Crash(box) PROVE LockChain'
    <2>1. queue' = <<>> /\ InLine' = {}
      BY <1>2 DEF Crash, InLine, Holding
    <2> QED BY <2>1 DEF LockChain, IsInjective, Range
  <1>3. ASSUME NEW o \in Ops, Booting(o) PROVE UNCHANGED <<pc, queue>>
    BY <1>3
    DEF Booting, Sweep, JudgeOwn, JudgeIrreversible, JudgeVerified,
        JudgeUnverified, BootCommit, BootRestore, BootRecord, volatile
  <1>4. ASSUME \/ \E o \in Ops : HourPasses(o) \/ CooldownPasses(o)
               \/ BootDone
               \/ UNCHANGED vars
        PROVE  UNCHANGED <<pc, queue>>
    BY <1>4 DEF HourPasses, CooldownPasses, BootDone, vars, volatile
  <1> QED BY <1>1, <1>2, <1>3, <1>4

\* LockChain: whatever throws, rejects or dies, the chain of the write lock has
\* no link that nobody will resolve, and nobody who waits for the lock has been
\* left out of it.
THEOREM ChainIsAlive == Spec => []LockChain
  <1>1. Init => LockChain
    BY DEF Init, LockChain, IsInjective, Range, InLine, Holding
  <1>2. IInv /\ LockChain /\ [Next]_vars => LockChain'
    BY PlanningKeepsChain, HumanKeepsChain, RunningKeepsChain, OthersKeepChain
    DEF Next
  <1> QED BY Invariance, <1>1, <1>2, PTL DEF Spec

\* Whoever is first holds the lock or may take it, and all others wait: with
\* ChainIsAlive, nobody waits for the lock behind an operation that is over.
LockIsPassedOn ==
  queue # <<>> => /\ daemon = "up"
                  /\ pc[Head(queue)] \in {"queued"} \cup Holding
                  /\ \A i \in 2..Len(queue) : pc[queue[i]] = "queued"

\* LockIsPassedOn: withWriteLock never blocks on a coroutine that ended.
THEOREM NoDeadLink == Spec => []LockIsPassedOn
  <1>1. ASSUME IInv, LockChain PROVE LockIsPassedOn
    <2> SUFFICES ASSUME queue # <<>>
                 PROVE  /\ daemon = "up"
                        /\ pc[Head(queue)] \in {"queued"} \cup Holding
                        /\ \A i \in 2..Len(queue) : pc[queue[i]] = "queued"
      BY DEF LockIsPassedOn
    <2>1. /\ queue \in Seq(Ops) /\ Len(queue) \in Nat /\ Len(queue) >= 1
          /\ DOMAIN queue = 1..Len(queue) /\ Head(queue) = queue[1]
      BY <1>1 DEF IInv, TypeOK
    <2>2. \A i \in 1..Len(queue) : queue[i] \in InLine
      BY <1>1, <2>1 DEF LockChain, Range
    <2>3. Head(queue) \in InLine /\ 1 \in DOMAIN queue
      BY <2>1, <2>2
    <2>4. ASSUME NEW i \in 2..Len(queue) PROVE pc[queue[i]] = "queued"
      <3>1. i \in DOMAIN queue /\ i # 1 /\ queue[i] \in InLine
        BY <2>1, <2>2
      <3>2. queue[i] # Head(queue)
        BY <1>1, <2>1, <2>3, <3>1 DEF LockChain, IsInjective
      <3>3. queue[i] \in Ops /\ pc[queue[i]] \notin Holding
        BY <1>1, <3>1, <3>2 DEF IInv, ControlInv, HolderIsHead, InLine
      <3> QED BY <3>1, <3>3 DEF InLine
    <2>5. daemon = "up"
      BY <1>1, <2>3 DEF IInv, TypeOK, ControlInv, BootIsQuiet, InLine, Holding
    <2> QED BY <2>3, <2>4, <2>5 DEF InLine
  <1> QED BY Invariance, ChainIsAlive, <1>1, PTL

-----------------------------------------------------------------------------
(* The way of a row.                                                       *)

\* store.ts, OperationPhase, in the order runOperation goes through it; every
\* phase may end in rolledback, and reconcileOperations commits from applying.
Follows ==
  {<<"none", "planning">>, <<"planning", "awaiting_confirmation">>,
   <<"awaiting_confirmation", "capturing">>, <<"capturing", "applying">>,
   <<"applying", "verifying">>, <<"applying", "committed">>,
   <<"verifying", "committed">>}
    \cup {<<ph, "rolledback">> : ph \in Early \cup Mid}

\* A row goes forward or stays.  Its plan and its capture are written once: what
\* an undo puts back after a crash is what was captured before the apply.  What a
\* terminal row says it says for good.
OnTheWay(o) ==
  /\ phase'[o] = phase[o] \/ <<phase[o], phase'[o]>> \in Follows
  /\ phase[o] \in Terminal => error'[o] = error[o] /\ auto'[o] = auto[o]
  /\ plan[o] # None => plan'[o] = plan[o]
  /\ captured[o] # None => captured'[o] = captured[o]

RowsGoForward == [][\A o \in Ops : OnTheWay(o)]_vars

\* A row has no plan before setPlan.
PlanInv == \A o \in Ops : phase[o] \in {"none", "planning"} => plan[o] = None

\* Every step but those of Planning, which write the plan, leaves the plans.
LEMMA PlansStay ==
  ASSUME [Next]_vars, ~\E o \in Ops : Planning(o)
  PROVE  plan' = plan
  BY DEF Next, vars, rows, volatile, clock, history, Human, Approve, Cancel,
         Keep, Running, AcquireLock, CaptureFails, Capture, ApplyEffect,
         ApplyReturns, ApplyThrows, AskReachability, CommitVerified,
         VerifyFails, CommitUnverified, VerifyRejects, NotKept, Undo,
         RecordUndo, Booting, Sweep, JudgeOwn, JudgeIrreversible,
         JudgeVerified, JudgeUnverified, BootCommit, BootRestore, BootRecord,
         HourPasses, CooldownPasses, Crash, BootDone

\* One row's step along Follows, or none.
LEMMA SetPhaseIsOnTheWay ==
  ASSUME IInv, NEW o \in Ops, NEW ph \in Phases, NEW err \in Errors,
         <<phase[o], ph>> \in Follows,
         phase' = [phase EXCEPT ![o] = ph],
         error' = [error EXCEPT ![o] = err] \/ error' = error,
         plan' = plan, auto' = auto,
         captured' = captured \/ /\ captured' = [captured EXCEPT ![o] = Content(o)]
                                 /\ captured[o] = None
  PROVE  \A p \in Ops : OnTheWay(p)
  <1>1. phase[o] \notin Terminal
    BY DEF Follows, Early, Mid, Terminal
  <1> QED BY <1>1 DEF OnTheWay, IInv, TypeOK

\* RowsGoForward and PlanInv, planning.
LEMMA PlanningIsOnTheWay ==
  ASSUME IInv, PlanInv, NEW o \in Ops, Planning(o)
  PROVE  PlanInv' /\ \A p \in Ops : OnTheWay(p)
  <1>1. CASE Submit(o)
    <2>1. <<"none", "planning">> \in Follows
      BY DEF Follows
    <2>2. /\ phase[o] = "none" /\ phase' = [phase EXCEPT ![o] = "planning"]
          /\ plan' = plan /\ auto' = auto /\ captured' = captured
          /\ error' = error
      BY <1>1 DEF Submit
    <2> QED
      BY <2>1, <2>2 DEF OnTheWay, PlanInv, IInv, TypeOK, Terminal
  <1>2. CASE DescribeThrows(o)
    BY <1>2 DEF DescribeThrows, rows, OnTheWay, PlanInv
  <1>3. ASSUME NEW p \in Plans, RefuseScope(o, p)
        PROVE  PlanInv' /\ \A q \in Ops : OnTheWay(q)
    <2>1. /\ phase[o] = "planning" /\ phase' = [phase EXCEPT ![o] = "rolledback"]
          /\ error' = [error EXCEPT ![o] = "refused"]
          /\ plan' = plan /\ auto' = auto /\ captured' = captured
      BY <1>3 DEF RefuseScope, SetPhase, IInv, ControlInv, RowMatchesCoroutine
    <2>2. <<"planning", "rolledback">> \in Follows
      BY DEF Follows, Early
    <2> QED
      BY <2>1, <2>2 DEF OnTheWay, PlanInv, IInv, TypeOK, Terminal
  <1>4. ASSUME NEW p \in Plans, NEW strict \in BOOLEAN, PlanGate(o, p, strict)
        PROVE  PlanInv' /\ \A q \in Ops : OnTheWay(q)
    <2>1. /\ phase[o] = "planning" /\ plan[o] = None
          /\ phase' = [phase EXCEPT ![o] = "awaiting_confirmation"]
          /\ plan' = [plan EXCEPT ![o] = p]
          /\ error' = error /\ captured' = captured
      BY <1>4 DEF PlanGate, IInv, ControlInv, RowMatchesCoroutine, PlanInv
    <2>2. \A q \in Ops \ {o} : auto'[q] = auto[q]
      BY <1>4 DEF PlanGate, IInv, TypeOK
    <2>3. <<"planning", "awaiting_confirmation">> \in Follows
      BY DEF Follows
    <2> QED
      BY <2>1, <2>2, <2>3 DEF OnTheWay, PlanInv, IInv, TypeOK, Terminal
  <1> QED BY <1>1, <1>2, <1>3, <1>4 DEF Planning

\* The human's answers.
LEMMA HumanIsOnTheWay ==
  ASSUME IInv, NEW o \in Ops, Human(o)
  PROVE  \A p \in Ops : OnTheWay(p)
  <1>1. CASE Approve(o)
    BY <1>1 DEF Approve, rows, OnTheWay
  <1>2. CASE Cancel(o)
    <2>1. <<phase[o], "rolledback">> \in Follows
      BY <1>2 DEF Cancel, IInv, ControlInv, RowMatchesCoroutine, Follows, Early
    <2> QED
      BY <1>2, <2>1, SetPhaseIsOnTheWay
      DEF Cancel, SetPhase, Phases, Terminal, Errors
  <1>3. CASE Keep(o)
    <2>1. <<phase[o], "committed">> \in Follows
      BY <1>3 DEF Keep, IInv, ControlInv, RowMatchesCoroutine, Follows
    <2> QED
      BY <1>3, <2>1, SetPhaseIsOnTheWay
      DEF Keep, Commit, SetPhase, Phases, Terminal, Errors
  <1> QED BY <1>1, <1>2, <1>3 DEF Human

\* runOperation inside the lock.
LEMMA RunningIsOnTheWay ==
  ASSUME IInv, SafeInv, NEW o \in Ops, Running(o)
  PROVE  \A p \in Ops : OnTheWay(p)
  <1> USE DEF IInv, ControlInv, RowMatchesCoroutine
  <1>1. CASE AcquireLock(o)
    <2>1. <<phase[o], "capturing">> \in Follows
      BY <1>1 DEF AcquireLock, Follows
    <2> QED
      BY <1>1, <2>1, SetPhaseIsOnTheWay
      DEF AcquireLock, SetPhase, Phases, Early, Errors
  <1>2. CASE CaptureFails(o)
    <2>1. <<phase[o], "rolledback">> \in Follows
      BY <1>2 DEF CaptureFails, Follows, Early
    <2> QED
      BY <1>2, <2>1, SetPhaseIsOnTheWay
      DEF CaptureFails, SetPhase, Phases, Terminal, Errors
  <1>3. CASE Capture(o)
    <2>1. phase[o] = "capturing" /\ captured[o] = None
      BY <1>3 DEF Capture, SafeInv, IncidentInv, Early
    <2>2. <<phase[o], "applying">> \in Follows
      BY <2>1 DEF Follows
    <2>3. /\ plan' = plan /\ auto' = auto /\ error' = error
          /\ phase' = [phase EXCEPT ![o] = "applying"]
          /\ captured' = [captured EXCEPT ![o] = Content(o)]
      BY <1>3 DEF Capture, SetCapturedAndApplying
    <2>4. "applying" \in Phases /\ "none" \in Errors
      BY DEF Phases, Mid, Errors
    <2> QED BY <2>1, <2>2, <2>3, <2>4, SetPhaseIsOnTheWay
  <1>4. CASE ApplyReturns(o)
    <2>1. <<phase[o], "verifying">> \in Follows
      BY <1>4 DEF ApplyReturns, Follows
    <2> QED
      BY <1>4, <2>1, SetPhaseIsOnTheWay
      DEF ApplyReturns, SetPhase, Phases, Mid, Errors
  <1>5. CASE CommitVerified(o) \/ CommitUnverified(o)
    <2>1. <<phase[o], "committed">> \in Follows
      BY <1>5 DEF CommitVerified, CommitUnverified, Follows
    <2> QED
      BY <1>5, <2>1, SetPhaseIsOnTheWay
      DEF CommitVerified, CommitUnverified, Commit, SetPhase, Phases, Terminal,
          Errors
  <1>6. CASE RecordUndo(o)
    <2>1. <<phase[o], "rolledback">> \in Follows
      BY <1>6 DEF RecordUndo, Follows, Mid
    <2> QED
      BY <1>6, <2>1, SetPhaseIsOnTheWay
      DEF RecordUndo, RollBack, SetPhase, Phases, Terminal, Errors
  <1>7. CASE \/ ApplyEffect(o) \/ ApplyThrows(o) \/ AskReachability(o)
             \/ VerifyFails(o) \/ VerifyRejects(o) \/ NotKept(o) \/ Undo(o)
    BY <1>7
    DEF ApplyEffect, ApplyThrows, AskReachability, VerifyFails, VerifyRejects,
        NotKept, Undo, rows, OnTheWay
  <1> QED BY <1>1, <1>2, <1>3, <1>4, <1>5, <1>6, <1>7 DEF Running

\* reconcileOperations.
LEMMA BootingIsOnTheWay ==
  ASSUME IInv, NEW o \in Ops, Booting(o)
  PROVE  \A p \in Ops : OnTheWay(p)
  <1>1. CASE Sweep(o)
    <2>1. <<phase[o], "rolledback">> \in Follows
      BY <1>1 DEF Sweep, Follows
    <2> QED
      BY <1>1, <2>1, SetPhaseIsOnTheWay
      DEF Sweep, SetPhase, Phases, Terminal, Errors
  <1>2. ASSUME Judging(o), BootCommit(o) PROVE \A p \in Ops : OnTheWay(p)
    <2>1. <<phase[o], "committed">> \in Follows
      BY <1>2 DEF Judging, Follows, Mid
    <2> QED
      BY <1>2, <2>1, SetPhaseIsOnTheWay
      DEF BootCommit, Commit, SetPhase, Phases, Terminal, Errors
  <1>3. CASE BootRestore(o)
    BY <1>3 DEF BootRestore, rows, OnTheWay
  <1>4. CASE BootRecord(o)
    <2>1. phase[o] \in Mid
      BY <1>4, NoneAssumption DEF BootRecord, IInv, ControlInv, BootIsQuiet
    <2>2. <<phase[o], "rolledback">> \in Follows
      BY <2>1 DEF Follows
    <2> QED
      BY <1>4, <2>2, SetPhaseIsOnTheWay
      DEF BootRecord, RollBack, SetPhase, Phases, Terminal, Errors
  <1> QED
    BY <1>1, <1>2, <1>3, <1>4
    DEF Booting, JudgeOwn, JudgeIrreversible, JudgeVerified, JudgeUnverified

\* RowsGoForward: neither runOperation, nor the sweep, nor a judgement after a
\* crash ever takes a row back or touches what is over, and none captures twice.
THEOREM RowsNeverGoBack == Spec => RowsGoForward
  <1>1. Init => PlanInv
    BY DEF Init, PlanInv
  <1>2. ASSUME IInv, SafeInv, PlanInv, [Next]_vars
        PROVE  PlanInv' /\ \A o \in Ops : OnTheWay(o)
    <2>1. CASE \E o \in Ops : Planning(o)
      BY <1>2, <2>1, PlanningIsOnTheWay
    <2>2. CASE ~\E o \in Ops : Planning(o)
      <3>1. plan' = plan
        BY <1>2, <2>2, PlansStay
      <3>2. ASSUME rows' = rows PROVE \A o \in Ops : OnTheWay(o)
        BY <3>2 DEF rows, OnTheWay
      <3>3. ASSUME \/ \E o \in Ops : HourPasses(o) \/ CooldownPasses(o)
                   \/ \E box \in BOOLEAN : Crash(box)
                   \/ BootDone
                   \/ UNCHANGED vars
            PROVE  rows' = rows
        BY <3>3 DEF HourPasses, CooldownPasses, Crash, BootDone, vars
      <3>4. \A o \in Ops : OnTheWay(o)
        BY <1>2, <2>2, <3>2, <3>3, HumanIsOnTheWay, RunningIsOnTheWay,
           BootingIsOnTheWay DEF Next
      <3>5. PlanInv'
        <4>1. \A o \in Ops : phase'[o] \in {"none", "planning"}
                               => phase[o] \in {"none", "planning"}
          BY <3>4 DEF OnTheWay, Follows
        <4> QED BY <1>2, <3>1, <4>1 DEF PlanInv
      <3> QED BY <3>4, <3>5
    <2> QED BY <2>1, <2>2
  <1>3. IInv /\ SafeInv /\ PlanInv /\ [Next]_vars
          => [\A o \in Ops : OnTheWay(o)]_vars
    BY <1>2
  <1> QED
    BY Invariance, SafeInvariance, <1>1, <1>2, <1>3, PTL DEF Spec, RowsGoForward

-----------------------------------------------------------------------------
(* Nobody is forgotten.                                                    *)

\* While the daemon is up, a row that is not over has its coroutine, but for the
\* two awaits that no catch surrounds: describe, before anything was captured,
\* and verify.
RowsAreLookedAfter ==
  daemon = "up" =>
    \A o \in Ops : phase[o] \in Early \cup Mid =>
      \/ pc[o] \in {"describing", "confirming", "queued"} \cup Holding
      \/ pc[o] = "threw" /\ phase[o] = "planning"
      \/ pc[o] = "threw" /\ phase[o] = "verifying" /\ VerifyMayReject

\* RowsAreLookedAfter: reconcileOperations leaves nothing of the dead daemon
\* unjudged before the socket is bound, and no path of runOperation drops a row.
THEOREM NoRowIsForgotten == Spec => []RowsAreLookedAfter
  <1>1. IInv => RowsAreLookedAfter
    BY DEF IInv, TypeOK, ControlInv, RowMatchesCoroutine, RowsAreLookedAfter,
           PCs, Early, Mid, Terminal
  <1> QED BY Invariance, <1>1, PTL
=============================================================================
