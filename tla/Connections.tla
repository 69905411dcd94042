----------------------------- MODULE Connections -----------------------------
(***************************************************************************)
(* The connections of mirod and the questions it asks over them            *)
(* (apps/mirod/src/index.ts: createConnectionState, waitForAnswer,         *)
(* cancelPending, disconnect, handleChat; agent/interaction-tools.ts).     *)
(*                                                                         *)
(* A chat turn runs its tool calls side by side, and a button of a client  *)
(* starts an operation beside the turn; each is a job here, and goes on    *)
(* when its connection is gone.  A job that needs a human puts a resolver  *)
(* under the question's id into pendingAnswers and waits for it.           *)
(***************************************************************************)
EXTENDS Integers, FiniteSets

CONSTANTS
  Clients,   \* names of connections
  Jobs,      \* the jobs that may be under way at once
  None       \* no resolver, no stored value

ASSUME JobsAssumption == /\ None \notin Jobs \cup {"typed", "closed"}
                         /\ "codegen_policy" \notin Jobs

VARIABLES
  state,       \* of each connection: "new", "open" or "closed"
  turnActive,  \* ConnState.turnActive
  pending,     \* ConnState.pendingAnswers: the job each id would resume
  job,         \* the jobs
  policySet,   \* is the setting codegen_policy stored?
  secret       \* what the secret store holds under the ref that was asked for

vars == <<state, turnActive, pending, job, policySet, secret>>

\* "confirm": op_confirm, plan_confirm, leakguard; "lifeline": lifeline_confirm;
\* "secret": a masked prompt whose value is stored; "policy": codegen_policy.
\* All but the last mint an id of their own: the job stands for it.
Questions == {"confirm", "lifeline", "secret", "policy"}
Ids == Jobs \cup {"codegen_policy"}
Id(j, q) == IF q = "policy" THEN "codegen_policy" ELSE j

\* What a question may be resolved with: the approving option, another one, or
\* CONNECTION_CLOSED, which no client can type.
Answers == {"approve", "other", "closed"}

\* on: the connection; inTurn: a tool call of its turn, or started by a button;
\* late: asked when the connection was closed; typed: the owner typed approval
\* of this job; approved: the job goes on as if they had.
Job == [pc : {"idle", "running", "waiting"}, on : Clients \cup {None},
        inTurn : BOOLEAN, q : Questions, late : BOOLEAN,
        typed : BOOLEAN, approved : BOOLEAN]
NoJob == [pc |-> "idle", on |-> None, inTurn |-> FALSE, q |-> "confirm",
          late |-> FALSE, typed |-> FALSE, approved |-> FALSE]

TypeOK ==
  /\ state \in [Clients -> {"new", "open", "closed"}]
  /\ turnActive \in [Clients -> BOOLEAN]
  /\ pending \in [Clients -> [Ids -> Jobs \cup {None}]]
  /\ job \in [Jobs -> Job]
  /\ \A j \in Jobs : job[j].pc # "idle" => job[j].on \in Clients
  /\ policySet \in BOOLEAN
  /\ secret \in {None, "typed", "closed"}

NoQuestions == [i \in Ids |-> None]

Init ==
  /\ state = [c \in Clients |-> "new"]
  /\ turnActive = [c \in Clients |-> FALSE]
  /\ pending = [c \in Clients |-> NoQuestions]
  /\ job = [j \in Jobs |-> NoJob]
  /\ policySet \in BOOLEAN
  /\ secret = None

-----------------------------------------------------------------------------
(* Connections, turns, jobs                                                *)

\* createConnectionState; a closed one nothing refers to any more is as good as
\* a new one.
Connect(c) ==
  /\ state[c] # "open" /\ ~turnActive[c]
  /\ \A j \in Jobs : job[j].on # c
  /\ state' = [state EXCEPT ![c] = "open"]
  /\ UNCHANGED <<turnActive, pending, job, policySet, secret>>

\* "chat": a second one is refused while a turn runs.
Chat(c) ==
  /\ state[c] = "open" /\ ~turnActive[c]
  /\ turnActive' = [turnActive EXCEPT ![c] = TRUE]
  /\ UNCHANGED <<state, pending, job, policySet, secret>>

Start(j, c, inTurn) ==
  /\ job[j].pc = "idle"
  /\ job' = [job EXCEPT ![j] = [NoJob EXCEPT !.pc = "running", !.on = c,
                                              !.inTurn = inTurn]]
  /\ UNCHANGED <<state, turnActive, pending, policySet, secret>>

\* A tool call of a turn, whoever still listens; "stack_action" of a client.
ToolCall(j, c)    == turnActive[c] /\ Start(j, c, TRUE)
StackAction(j, c) == state[c] = "open" /\ Start(j, c, FALSE)

JobEnds(j) ==
  /\ job[j].pc = "running"
  /\ job' = [job EXCEPT ![j] = NoJob]
  /\ UNCHANGED <<state, turnActive, pending, policySet, secret>>

\* handleChat settles once the model is done and every tool call returned.
TurnEnds(c) ==
  /\ turnActive[c]
  /\ \A j \in Jobs : job[j].inTurn => job[j].on # c
  /\ turnActive' = [turnActive EXCEPT ![c] = FALSE]
  /\ UNCHANGED <<state, pending, job, policySet, secret>>

-----------------------------------------------------------------------------
(* Questions                                                               *)

\* send does not fail on a closed connection, and waitForAnswer registers.
Ask(j, q) ==
  /\ job[j].pc = "running"
  /\ q = "policy" => ~policySet /\ job[j].inTurn
  /\ q = "secret" => job[j].inTurn
  /\ LET c == job[j].on
     IN /\ pending' = [pending EXCEPT ![c][Id(j, q)] = j]
        /\ job' = [job EXCEPT ![j].pc = "waiting", ![j].q = q,
                              ![j].late = (state[c] = "closed")]
  /\ UNCHANGED <<state, turnActive, policySet, secret>>

\* The gates of engine.ts and interaction-tools.ts.
\* A bug: whatever is not the cancelling option is taken for approval.
ApprovesUnlessCancelled(q, v) == q \in {"confirm", "lifeline"} /\ v # "other"
Approves(q, v) == q \in {"confirm", "lifeline"} /\ v = "approve"

\* The resolvers of the jobs in S are called with v, and the jobs run on.
Resolve(S, v, typed) ==
  /\ job' = [j \in Jobs |->
       IF j \in S THEN [job[j] EXCEPT !.pc = "running",
                          !.approved = Approves(job[j].q, v),
                          !.typed = (typed /\ v = "approve")]
                  ELSE job[j]]
  /\ policySet' = (policySet \/ \E j \in S : job[j].q = "policy")
  /\ secret' = IF \E j \in S : job[j].q = "secret"
               THEN IF v = "closed" THEN "closed" ELSE "typed" ELSE secret

\* "answer" with an id in pendingAnswers.
Answer(c, i) ==
  /\ state[c] = "open" /\ pending[c][i] # None
  /\ pending' = [pending EXCEPT ![c][i] = None]
  /\ \E v \in {"approve", "other"} : Resolve({pending[c][i]}, v, TRUE)
  /\ UNCHANGED <<state, turnActive>>

\* The onboarding asks for the same setting; its answer has no resolver.
AnswerOnboarding(c) ==
  /\ state[c] = "open" /\ pending[c]["codegen_policy"] = None
  /\ policySet' = TRUE
  /\ UNCHANGED <<state, turnActive, pending, job, secret>>

\* A bug: cancelAnswer is not called.
WindowClosesKeeping(j) ==
  /\ job[j].pc = "waiting" /\ job[j].q = "lifeline"
  /\ pending' = pending
  /\ job' = [job EXCEPT ![j].pc = "running", ![j].approved = FALSE]
  /\ UNCHANGED <<state, turnActive, policySet, secret>>
\* LIFELINE_CONFIRM_MS without an answer: cancelAnswer, and the job runs on.
WindowCloses(j) ==
  /\ job[j].pc = "waiting" /\ job[j].q = "lifeline"
  /\ pending' = [pending EXCEPT ![job[j].on][j] = None]
  /\ job' = [job EXCEPT ![j].pc = "running", ![j].approved = FALSE]
  /\ UNCHANGED <<state, turnActive, policySet, secret>>

\* disconnect: cancelPending, and out of the broadcast set.
\* A bug: the teardown of a transport forgets cancelPending.
DisconnectOnlyDeregisters(c) ==
  /\ state[c] = "open"
  /\ state' = [state EXCEPT ![c] = "closed"]
  /\ UNCHANGED <<turnActive, pending, job, policySet, secret>>
Disconnect(c) ==
  /\ state[c] = "open"
  /\ state' = [state EXCEPT ![c] = "closed"]
  /\ pending' = [pending EXCEPT ![c] = NoQuestions]
  /\ Resolve({pending[c][i] : i \in Ids} \ {None}, "closed", FALSE)
  /\ UNCHANGED turnActive

Next ==
  \/ \E c \in Clients :
       \/ Connect(c) \/ Chat(c) \/ TurnEnds(c) \/ Disconnect(c)
       \/ AnswerOnboarding(c)
       \/ \E i \in Ids : Answer(c, i)
       \/ \E j \in Jobs : ToolCall(j, c) \/ StackAction(j, c)
  \/ \E j \in Jobs : JobEnds(j) \/ WindowCloses(j) \/ \E q \in Questions : Ask(j, q)

Spec == Init /\ [][Next]_vars

-----------------------------------------------------------------------------
(* What must hold                                                          *)

\* A closed connection approves nothing: a job goes on as approved only if the
\* owner typed that to the question of this very job (index.ts: every gate
\* treats CONNECTION_CLOSED as a cancel).
ConsentIsTyped == \A j \in Jobs : job[j].approved => job[j].typed

\* Nobody is left waiting by a teardown or by another's question: a job that
\* asked in time, under an id of its own, can still be answered, or has been
\* resolved (index.ts, cancelPending).
AskersCanBeAnswered ==
  \A j \in Jobs :
    job[j].pc = "waiting" /\ ~job[j].late /\ job[j].q # "policy"
      => state[job[j].on] = "open" /\ pending[job[j].on][j] = j

\* An answer resumes only who asked: whatever is in pendingAnswers waits there,
\* for a question with that id, on that connection.
ResolversAreLive ==
  \A c \in Clients, i \in Ids : pending[c][i] # None =>
    LET j == pending[c][i]
    IN job[j].pc = "waiting" /\ job[j].on = c /\ Id(j, job[j].q) = i

\* interaction-tools.ts: "Never store the no-user marker as a credential".
SecretsWereTyped == secret # "closed"

=============================================================================
