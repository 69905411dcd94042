-------------------------- MODULE ConnectionsProofs --------------------------
(***************************************************************************)
(* Proofs of the safety invariants of Connections, for any number of       *)
(* connections and jobs: a resolver in pendingAnswers is live and unique,  *)
(* so a teardown reaches exactly those who wait on its connection.         *)
(***************************************************************************)
EXTENDS Connections, TLAPS

\* A connection that a turn or a job refers to was opened once: only then is
\* "not closed" the same as "open" when a question is asked.
Opened ==
  /\ \A c \in Clients : turnActive[c] => state[c] # "new"
  /\ \A j \in Jobs : job[j].pc # "idle" => state[job[j].on] # "new"

ConnInv == /\ TypeOK /\ Opened /\ ConsentIsTyped
           /\ AskersCanBeAnswered /\ ResolversAreLive

\* A question has an id; two jobs share one only if both ask for the policy.
LEMMA IdProperty ==
  ASSUME NEW j \in Jobs, NEW q \in Questions
  PROVE  /\ Id(j, q) \in Ids
         /\ q # "policy" => Id(j, q) = j
         /\ \A k \in Jobs : q = "policy" => Id(j, q) # k
  BY JobsAssumption DEF Id, Ids

LEMMA InitConnInv == Init => ConnInv
  <1> SUFFICES ASSUME Init PROVE ConnInv
    OBVIOUS
  <1> USE JobsAssumption DEF Init, NoJob, NoQuestions
  <1>1. TypeOK
    BY DEF TypeOK, Job, Questions
  <1>2. Opened /\ ConsentIsTyped /\ AskersCanBeAnswered /\ ResolversAreLive
    BY DEF Opened, ConsentIsTyped, AskersCanBeAnswered, ResolversAreLive
  <1> QED BY <1>1, <1>2 DEF ConnInv

\* Connections and turns: no job and no question changes.
LEMMA TurnsKeepConnInv ==
  ASSUME ConnInv, NEW c \in Clients, Connect(c) \/ Chat(c) \/ TurnEnds(c)
                                       \/ AnswerOnboarding(c)
  PROVE  ConnInv'
  <1> USE DEF ConnInv
  <1>1. TypeOK'
    BY DEF TypeOK, Connect, Chat, TurnEnds, AnswerOnboarding
  <1>2. Opened'
    BY DEF TypeOK, Opened, Connect, Chat, TurnEnds, AnswerOnboarding
  <1>3. ConsentIsTyped' /\ ResolversAreLive'
    BY DEF ConsentIsTyped, ResolversAreLive, Connect, Chat, TurnEnds,
           AnswerOnboarding
  <1>4. AskersCanBeAnswered'
    BY DEF TypeOK, AskersCanBeAnswered, Connect, Chat, TurnEnds,
           AnswerOnboarding
  <1> QED BY <1>1, <1>2, <1>3, <1>4

\* A job starts, or ends: no question refers to it.
LEMMA JobsKeepConnInv ==
  ASSUME ConnInv, NEW j \in Jobs, NEW c \in Clients,
         ToolCall(j, c) \/ StackAction(j, c) \/ JobEnds(j)
  PROVE  ConnInv'
  <1> USE DEF ConnInv
  <1>1. PICK v \in Job :
          /\ job' = [job EXCEPT ![j] = v] /\ job[j].pc # "waiting"
          /\ v.pc # "waiting" /\ v.approved = FALSE
          /\ v.pc # "idle" => v.on = c /\ state[c] # "new"
          /\ UNCHANGED <<state, turnActive, pending, policySet, secret>>
    <2>1. CASE JobEnds(j)
      <3>1. NoJob \in Job /\ NoJob.pc = "idle" /\ NoJob.approved = FALSE
        BY DEF Job, NoJob, Questions
      <3> QED BY <2>1, <3>1 DEF JobEnds
    <2>2. ASSUME NEW b \in BOOLEAN, Start(j, c, b), state[c] # "new"
          PROVE  \E v \in Job :
                   /\ job' = [job EXCEPT ![j] = v] /\ job[j].pc # "waiting"
                   /\ v.pc # "waiting" /\ v.approved = FALSE
                   /\ v.pc # "idle" => v.on = c /\ state[c] # "new"
                   /\ UNCHANGED <<state, turnActive, pending, policySet,
                                  secret>>
      <3> DEFINE v == [NoJob EXCEPT !.pc = "running", !.on = c, !.inTurn = b]
      <3>1. v \in Job /\ v.pc = "running" /\ v.on = c /\ v.approved = FALSE
        BY DEF Job, NoJob, Questions
      <3>2. job' = [job EXCEPT ![j] = v] /\ job[j].pc = "idle"
            /\ UNCHANGED <<state, turnActive, pending, policySet, secret>>
        BY <2>2 DEF Start
      <3> HIDE DEF v
      <3> QED BY <3>1, <3>2, <2>2
    <2>3. CASE ToolCall(j, c)
      BY <2>2, <2>3 DEF ToolCall, Opened
    <2>4. CASE StackAction(j, c)
      BY <2>2, <2>4 DEF StackAction
    <2> QED BY <2>1, <2>3, <2>4
  <1>2. job'[j] = v /\ \A k \in Jobs \ {j} : job'[k] = job[k]
    BY <1>1 DEF TypeOK
  <1>3. TypeOK'
    BY <1>1, <1>2 DEF TypeOK
  <1>4. Opened'
    BY <1>1, <1>2 DEF Opened
  <1>5. ConsentIsTyped' /\ AskersCanBeAnswered'
    BY <1>1, <1>2 DEF ConsentIsTyped, AskersCanBeAnswered
  <1>6. ResolversAreLive'
    BY <1>1, <1>2 DEF TypeOK, ResolversAreLive
  <1> QED BY <1>3, <1>4, <1>5, <1>6

\* waitForAnswer registers a job that was running, so under no other id.
LEMMA AskKeepsConnInv ==
  ASSUME ConnInv, NEW j \in Jobs, NEW q \in Questions, Ask(j, q)
  PROVE  ConnInv'
  <1> DEFINE c == job[j].on
  <1> USE DEF ConnInv
  <1>0. /\ c \in Clients /\ job[j] \in Job /\ Id(j, q) \in Ids
        /\ job[j].pc = "running"
        /\ job' = [job EXCEPT ![j].pc = "waiting", ![j].q = q,
                              ![j].late = (state[c] = "closed")]
        /\ pending' = [pending EXCEPT ![c][Id(j, q)] = j]
        /\ UNCHANGED <<state, turnActive, policySet, secret>>
    BY IdProperty DEF TypeOK, Ask
  <1>a. /\ job'[j] = [job[j] EXCEPT !.pc = "waiting", !.q = q,
                                    !.late = (state[c] = "closed")]
        /\ \A k \in Jobs \ {j} : job'[k] = job[k]
    BY <1>0 DEF TypeOK
  <1>f. /\ job'[j] \in Job
        /\ job'[j].pc = "waiting" /\ job'[j].q = q /\ job'[j].on = c
        /\ job'[j].late = (state[c] = "closed")
        /\ job'[j].typed = job[j].typed /\ job'[j].approved = job[j].approved
    <2> DEFINE b == state[c] = "closed"
    <2>1. b \in BOOLEAN /\ job[j] \in Job
      BY <1>0
    <2>2. job'[j] = [job[j] EXCEPT !.pc = "waiting", !.q = q, !.late = b]
      BY <1>a
    <2> HIDE DEF b, c
    <2>3. job'[j] \in Job
      BY <2>1, <2>2 DEF Job, Questions
    <2>4. job'[j].pc = "waiting" /\ job'[j].q = q /\ job'[j].on = job[j].on
      BY <2>1, <2>2 DEF Job
    <2>5. /\ job'[j].late = b /\ job'[j].typed = job[j].typed
          /\ job'[j].approved = job[j].approved
      BY <2>1, <2>2 DEF Job
    <2> QED BY <2>3, <2>4, <2>5 DEF b, c
  <1>b. /\ pending'[c][Id(j, q)] = j
        /\ \A d \in Clients, i \in Ids :
             d # c \/ i # Id(j, q) => pending'[d][i] = pending[d][i]
    BY <1>0 DEF TypeOK
  <1>1. TypeOK'
    <2>1. job' \in [Jobs -> Job]
      BY <1>0, <1>a, <1>f DEF TypeOK
    <2>2. pending' \in [Clients -> [Ids -> Jobs \cup {None}]]
      BY <1>0 DEF TypeOK
    <2>3. \A k \in Jobs : job'[k].pc # "idle" => job'[k].on \in Clients
      BY <1>0, <1>a, <1>f DEF TypeOK
    <2> QED BY <1>0, <2>1, <2>2, <2>3 DEF TypeOK
  <1>2. Opened'
    <2>1. \A k \in Jobs : job'[k].pc # "idle" =>
            job[k].pc # "idle" /\ job'[k].on = job[k].on
      BY <1>0, <1>a, <1>f
    <2> QED BY <1>0, <2>1 DEF Opened
  <1>3. ConsentIsTyped'
    BY <1>a, <1>f DEF ConsentIsTyped
  <1>4. AskersCanBeAnswered'
    <2> SUFFICES ASSUME NEW k \in Jobs, job'[k].pc = "waiting",
                        ~job'[k].late, job'[k].q # "policy"
                 PROVE  /\ state[job'[k].on] = "open"
                        /\ pending'[job'[k].on][k] = k
      BY <1>0 DEF AskersCanBeAnswered
    <2>1. CASE k = j
      <3>1. job'[j].on = c /\ job'[j].q = q /\ state[c] # "closed"
        BY <2>1, <1>f
      <3>2. state[c] = "open"
        BY <3>1, <1>0 DEF Opened, TypeOK
      <3> QED BY <2>1, <3>1, <3>2, <1>b, IdProperty
    <2>2. CASE k # j
      <3>1. Id(j, q) # k
        BY <2>2, IdProperty, JobsAssumption DEF Id
      <3>2. job'[k] = job[k] /\ job[k].on \in Clients /\ k \in Ids
        BY <2>2, <1>a DEF TypeOK, Ids
      <3> QED BY <3>1, <3>2, <1>b DEF AskersCanBeAnswered
    <2> QED BY <2>1, <2>2
  <1>5. ResolversAreLive'
    <2> SUFFICES ASSUME NEW d \in Clients, NEW i \in Ids,
                        pending'[d][i] # None
                 PROVE  /\ job'[pending'[d][i]].pc = "waiting"
                        /\ job'[pending'[d][i]].on = d
                        /\ Id(pending'[d][i], job'[pending'[d][i]].q) = i
      BY DEF ResolversAreLive
    <2>1. CASE d = c /\ i = Id(j, q)
      BY <2>1, <1>b, <1>f
    <2>2. CASE d # c \/ i # Id(j, q)
      <3>1. pending'[d][i] = pending[d][i] /\ pending[d][i] \in Jobs
        BY <2>2, <1>b DEF TypeOK
      <3>2. job[pending[d][i]].pc = "waiting"
        BY <3>1 DEF ResolversAreLive
      <3>3. job'[pending[d][i]] = job[pending[d][i]]
        BY <3>1, <3>2, <1>0, <1>a
      <3> QED BY <3>1, <3>3 DEF ResolversAreLive
    <2> QED BY <2>1, <2>2
  <1> QED BY <1>1, <1>2, <1>3, <1>4, <1>5

\* What Resolve does to the jobs, and to nothing else of interest.
LEMMA ResolveEffect ==
  ASSUME TypeOK, ConsentIsTyped, NEW S \in SUBSET Jobs, NEW v \in Answers,
         NEW typed \in BOOLEAN, v = "approve" => typed, Resolve(S, v, typed)
  PROVE  /\ job' \in [Jobs -> Job]
         /\ \A k \in Jobs \ S : job'[k] = job[k]
         /\ \A k \in S : job'[k].pc = "running" /\ job'[k].on = job[k].on
         /\ ConsentIsTyped'
         /\ policySet' \in BOOLEAN
         /\ secret' \in {None, "typed", "closed"}
  <1>1. \A k \in Jobs : job[k] \in Job
    BY DEF TypeOK
  <1>2. \A k \in S : job'[k] = [job[k] EXCEPT !.pc = "running",
                                  !.approved = Approves(job[k].q, v),
                                  !.typed = (typed /\ v = "approve")]
    BY DEF Resolve
  <1>3. \A k \in Jobs \ S : job'[k] = job[k]
    BY DEF Resolve
  <1>4. \A k \in Jobs : Approves(job[k].q, v) \in BOOLEAN
    BY DEF Approves
  <1>5. \A k \in S : /\ job'[k] \in Job
                     /\ job'[k].pc = "running" /\ job'[k].on = job[k].on
                     /\ job'[k].approved => job'[k].typed
    <2> SUFFICES ASSUME NEW k \in S
                 PROVE  /\ job'[k] \in Job
                        /\ job'[k].pc = "running" /\ job'[k].on = job[k].on
                        /\ job'[k].approved => job'[k].typed
      OBVIOUS
    <2> DEFINE b == Approves(job[k].q, v)
               t == typed /\ v = "approve"
    <2>1. b \in BOOLEAN /\ t \in BOOLEAN /\ (b => t)
      BY DEF Approves
    <2>2. job[k] \in Job
      BY <1>1
    <2>3. job'[k] = [job[k] EXCEPT !.pc = "running", !.approved = b, !.typed = t]
      BY <1>2
    <2> HIDE DEF b, t
    <2>4. job'[k] \in Job
      BY <2>1, <2>2, <2>3 DEF Job
    <2>5. job'[k].pc = "running" /\ job'[k].on = job[k].on
      BY <2>2, <2>3 DEF Job
    <2>6. job'[k].approved = b /\ job'[k].typed = t
      BY <2>1, <2>2, <2>3 DEF Job
    <2> QED BY <2>1, <2>4, <2>5, <2>6
  <1>6. job' \in [Jobs -> Job]
    <2>1. job' = [j \in Jobs |-> job'[j]]
      BY DEF Resolve
    <2> QED BY <2>1, <1>1, <1>3, <1>5
  <1>7. ConsentIsTyped'
    BY <1>3, <1>5 DEF ConsentIsTyped
  <1>8. policySet' \in BOOLEAN /\ secret' \in {None, "typed", "closed"}
    BY DEF Resolve, TypeOK
  <1> QED BY <1>3, <1>5, <1>6, <1>7, <1>8

\* An answer takes the only entry of who is resumed.
LEMMA AnswerKeepsConnInv ==
  ASSUME ConnInv, NEW c \in Clients, NEW i \in Ids, Answer(c, i)
  PROVE  ConnInv'
  <1> DEFINE w == pending[c][i]
  <1> USE DEF ConnInv
  <1>0. /\ w \in Jobs /\ job[w].pc = "waiting" /\ job[w].on = c
        /\ Id(w, job[w].q) = i
        /\ pending' = [pending EXCEPT ![c][i] = None]
        /\ UNCHANGED <<state, turnActive>>
    BY DEF TypeOK, Answer, ResolversAreLive
  <1>1. PICK v \in {"approve", "other"} : Resolve({w}, v, TRUE)
    BY DEF Answer
  <1>2. /\ job' \in [Jobs -> Job]
        /\ \A k \in Jobs \ {w} : job'[k] = job[k]
        /\ job'[w].pc = "running" /\ job'[w].on = c
        /\ ConsentIsTyped'
        /\ policySet' \in BOOLEAN /\ secret' \in {None, "typed", "closed"}
    <2>1. v \in Answers /\ {w} \in SUBSET Jobs
      BY <1>0 DEF Answers
    <2> QED BY <1>0, <1>1, <2>1, ResolveEffect
  <1>3. /\ pending'[c][i] = None
        /\ \A d \in Clients, n \in Ids :
             d # c \/ n # i => pending'[d][n] = pending[d][n]
    BY <1>0 DEF TypeOK
  <1>4. TypeOK'
    BY <1>0, <1>2 DEF TypeOK
  <1>5. Opened'
    BY <1>0, <1>2 DEF Opened
  <1>6. AskersCanBeAnswered'
    <2> SUFFICES ASSUME NEW k \in Jobs, job'[k].pc = "waiting",
                        ~job'[k].late, job'[k].q # "policy"
                 PROVE  /\ state[job'[k].on] = "open"
                        /\ pending'[job'[k].on][k] = k
      BY <1>0 DEF AskersCanBeAnswered
    <2>1. k # w /\ job'[k] = job[k] /\ k \in Ids /\ job[k].on \in Clients
      BY <1>2 DEF Ids, TypeOK
    <2>2. state[job[k].on] = "open" /\ pending[job[k].on][k] = k
      BY <2>1 DEF AskersCanBeAnswered
    <2> QED BY <2>1, <2>2, <1>3
  <1>7. ResolversAreLive'
    <2> SUFFICES ASSUME NEW d \in Clients, NEW n \in Ids,
                        pending'[d][n] # None
                 PROVE  /\ job'[pending'[d][n]].pc = "waiting"
                        /\ job'[pending'[d][n]].on = d
                        /\ Id(pending'[d][n], job'[pending'[d][n]].q) = n
      BY DEF ResolversAreLive
    <2>1. pending'[d][n] = pending[d][n] /\ pending[d][n] \in Jobs
          /\ (d # c \/ n # i)
      BY <1>3 DEF TypeOK
    <2>2. /\ job[pending[d][n]].on = d
          /\ Id(pending[d][n], job[pending[d][n]].q) = n
          /\ job[pending[d][n]].pc = "waiting"
      BY <2>1 DEF ResolversAreLive
    <2>3. pending[d][n] # w
      BY <2>1, <2>2, <1>0
    <2> QED BY <2>1, <2>2, <2>3, <1>2
  <1> QED BY <1>2, <1>4, <1>5, <1>6, <1>7

\* The window of a lifeline question closes: cancelAnswer removes the one entry.
LEMMA WindowKeepsConnInv ==
  ASSUME ConnInv, NEW j \in Jobs, WindowCloses(j)
  PROVE  ConnInv'
  <1> DEFINE c == job[j].on
  <1> USE DEF ConnInv
  <1>0. /\ c \in Clients /\ job[j] \in Job /\ j \in Ids
        /\ job[j].pc = "waiting" /\ job[j].q = "lifeline"
        /\ job' = [job EXCEPT ![j].pc = "running", ![j].approved = FALSE]
        /\ pending' = [pending EXCEPT ![c][j] = None]
        /\ UNCHANGED <<state, turnActive, policySet, secret>>
    BY DEF TypeOK, WindowCloses, Ids
  <1>1. /\ job'[j] = [job[j] EXCEPT !.pc = "running", !.approved = FALSE]
        /\ \A k \in Jobs \ {j} : job'[k] = job[k]
    BY <1>0 DEF TypeOK
  <1>2. /\ pending'[c][j] = None
        /\ \A d \in Clients, n \in Ids :
             d # c \/ n # j => pending'[d][n] = pending[d][n]
    BY <1>0 DEF TypeOK
  <1>f. /\ job'[j] \in Job /\ job'[j].pc = "running" /\ job'[j].on = c
        /\ job'[j].approved = FALSE
    <2> HIDE DEF c
    <2>1. job[j] \in Job
      BY <1>0
    <2>2. job'[j] = [job[j] EXCEPT !.pc = "running", !.approved = FALSE]
      BY <1>1
    <2>3. job'[j] \in Job
      BY <2>1, <2>2 DEF Job
    <2>4. job'[j].pc = "running" /\ job'[j].on = job[j].on
      BY <2>1, <2>2 DEF Job
    <2>5. job'[j].approved = FALSE
      BY <2>1, <2>2 DEF Job
    <2> QED BY <2>3, <2>4, <2>5 DEF c
  <1>3. TypeOK'
    <2>1. job' \in [Jobs -> Job]
      BY <1>0, <1>1, <1>f DEF TypeOK
    <2>2. pending' \in [Clients -> [Ids -> Jobs \cup {None}]]
      BY <1>0 DEF TypeOK
    <2>3. \A k \in Jobs : job'[k].pc # "idle" => job'[k].on \in Clients
      BY <1>0, <1>1, <1>f DEF TypeOK
    <2> QED BY <1>0, <2>1, <2>2, <2>3 DEF TypeOK
  <1>4. Opened'
    <2>1. \A k \in Jobs : job'[k].pc # "idle" =>
            job[k].pc # "idle" /\ job'[k].on = job[k].on
      BY <1>0, <1>1, <1>f
    <2> QED BY <1>0, <2>1 DEF Opened
  <1>5. ConsentIsTyped'
    BY <1>1, <1>f DEF ConsentIsTyped
  <1>6. AskersCanBeAnswered'
    <2> SUFFICES ASSUME NEW k \in Jobs, job'[k].pc = "waiting",
                        ~job'[k].late, job'[k].q # "policy"
                 PROVE  /\ state[job'[k].on] = "open"
                        /\ pending'[job'[k].on][k] = k
      BY <1>0 DEF AskersCanBeAnswered
    <2>1. k # j /\ job'[k] = job[k] /\ k \in Ids /\ job[k].on \in Clients
      BY <1>1, <1>f DEF Ids, TypeOK
    <2> QED BY <2>1, <1>2 DEF AskersCanBeAnswered
  <1>7. ResolversAreLive'
    <2> SUFFICES ASSUME NEW d \in Clients, NEW n \in Ids,
                        pending'[d][n] # None
                 PROVE  /\ job'[pending'[d][n]].pc = "waiting"
                        /\ job'[pending'[d][n]].on = d
                        /\ Id(pending'[d][n], job'[pending'[d][n]].q) = n
      BY DEF ResolversAreLive
    <2>1. pending'[d][n] = pending[d][n] /\ pending[d][n] \in Jobs
          /\ (d # c \/ n # j)
      BY <1>2 DEF TypeOK
    <2>2. /\ job[pending[d][n]].on = d
          /\ Id(pending[d][n], job[pending[d][n]].q) = n
          /\ job[pending[d][n]].pc = "waiting"
      BY <2>1 DEF ResolversAreLive
    <2>3. pending[d][n] # j
      BY <2>1, <2>2, <1>0 DEF Id
    <2> QED BY <2>1, <2>2, <2>3, <1>1
  <1> QED BY <1>3, <1>4, <1>5, <1>6, <1>7

\* cancelPending resumes all who wait on the connection, and nobody else.
LEMMA DisconnectKeepsConnInv ==
  ASSUME ConnInv, NEW c \in Clients, Disconnect(c)
  PROVE  ConnInv'
  <1> DEFINE S == {pending[c][i] : i \in Ids} \ {None}
  <1> USE DEF ConnInv
  <1>0. /\ state' = [state EXCEPT ![c] = "closed"]
        /\ pending' = [pending EXCEPT ![c] = NoQuestions]
        /\ Resolve(S, "closed", FALSE)
        /\ turnActive' = turnActive
    BY DEF Disconnect
  <1>1. S \in SUBSET Jobs
    BY DEF TypeOK
  <1>2. \A k \in S : job[k].on = c /\ job[k].pc = "waiting"
    BY <1>1 DEF ResolversAreLive
  <1>3. /\ job' \in [Jobs -> Job]
        /\ \A k \in Jobs \ S : job'[k] = job[k]
        /\ \A k \in S : job'[k].pc = "running" /\ job'[k].on = job[k].on
        /\ ConsentIsTyped'
        /\ policySet' \in BOOLEAN /\ secret' \in {None, "typed", "closed"}
    <2>1. "closed" \in Answers
      BY DEF Answers
    <2> HIDE DEF S
    <2> QED BY <1>0, <1>1, <2>1, ResolveEffect
  <1>4. /\ \A i \in Ids : pending'[c][i] = None
        /\ \A d \in Clients \ {c} : pending'[d] = pending[d]
    BY <1>0 DEF TypeOK, NoQuestions
  <1>5. TypeOK'
    <2>1. pending' \in [Clients -> [Ids -> Jobs \cup {None}]]
      BY <1>0 DEF TypeOK, NoQuestions
    <2>2. state' \in [Clients -> {"new", "open", "closed"}]
      BY <1>0 DEF TypeOK
    <2>3. \A k \in Jobs : job'[k].pc # "idle" => job'[k].on \in Clients
      BY <1>2, <1>3 DEF TypeOK
    <2> QED BY <2>1, <2>2, <2>3, <1>0, <1>3 DEF TypeOK
  <1>6. Opened'
    <2>1. \A d \in Clients : state[d] # "new" => state'[d] # "new"
      BY <1>0 DEF TypeOK
    <2>2. \A k \in Jobs : /\ job'[k].on = job[k].on
                          /\ job'[k].pc # "idle" => job[k].pc # "idle"
      BY <1>2, <1>3
    <2>3. \A k \in Jobs : job[k].pc # "idle" => job[k].on \in Clients
      BY DEF TypeOK
    <2> QED BY <2>1, <2>2, <2>3, <1>0 DEF Opened
  <1>7. AskersCanBeAnswered'
    <2> SUFFICES ASSUME NEW k \in Jobs, job'[k].pc = "waiting",
                        ~job'[k].late, job'[k].q # "policy"
                 PROVE  /\ state'[job'[k].on] = "open"
                        /\ pending'[job'[k].on][k] = k
      BY DEF AskersCanBeAnswered
    <2>1. k \notin S /\ job'[k] = job[k] /\ k \in Ids /\ job[k].on \in Clients
      BY <1>3 DEF Ids, TypeOK
    <2>2. state[job[k].on] = "open" /\ pending[job[k].on][k] = k
      BY <2>1 DEF AskersCanBeAnswered
    <2>3. job[k].on # c
      BY <2>1, <2>2, JobsAssumption
    <2> QED BY <2>1, <2>2, <2>3, <1>0, <1>4 DEF TypeOK
  <1>8. ResolversAreLive'
    <2> SUFFICES ASSUME NEW d \in Clients, NEW n \in Ids,
                        pending'[d][n] # None
                 PROVE  /\ job'[pending'[d][n]].pc = "waiting"
                        /\ job'[pending'[d][n]].on = d
                        /\ Id(pending'[d][n], job'[pending'[d][n]].q) = n
      BY DEF ResolversAreLive
    <2>1. d # c /\ pending'[d][n] = pending[d][n] /\ pending[d][n] \in Jobs
      BY <1>4 DEF TypeOK
    <2>2. /\ job[pending[d][n]].on = d
          /\ Id(pending[d][n], job[pending[d][n]].q) = n
          /\ job[pending[d][n]].pc = "waiting"
      BY <2>1 DEF ResolversAreLive
    <2>3. pending[d][n] \notin S
      BY <2>1, <2>2, <1>2
    <2> QED BY <2>1, <2>2, <2>3, <1>3
  <1> QED BY <1>3, <1>5, <1>6, <1>7, <1>8

\* ConnInv holds in every reachable state.
THEOREM ConnInvariance == Spec => []ConnInv
  <1>1. ConnInv /\ [Next]_vars => ConnInv'
    <2> SUFFICES ASSUME ConnInv, [Next]_vars PROVE ConnInv'
      OBVIOUS
    <2>1. ASSUME NEW c \in Clients,
                 Connect(c) \/ Chat(c) \/ TurnEnds(c) \/ AnswerOnboarding(c)
          PROVE  ConnInv'
      BY <2>1, TurnsKeepConnInv
    <2>2. ASSUME NEW c \in Clients, NEW j \in Jobs,
                 ToolCall(j, c) \/ StackAction(j, c)
          PROVE  ConnInv'
      BY <2>2, JobsKeepConnInv
    <2>3. ASSUME NEW j \in Jobs, JobEnds(j) PROVE ConnInv'
      <3>1. job[j].on \in Clients
        BY <2>3 DEF ConnInv, TypeOK, JobEnds
      <3> QED BY <2>3, <3>1, JobsKeepConnInv
    <2>4. CASE UNCHANGED vars
      BY <2>4 DEF vars, ConnInv, TypeOK, Opened, ConsentIsTyped,
                  AskersCanBeAnswered, ResolversAreLive
    <2> QED BY <2>1, <2>2, <2>3, <2>4, AskKeepsConnInv, AnswerKeepsConnInv,
               WindowKeepsConnInv, DisconnectKeepsConnInv DEF Next
  <1> QED BY InitConnInv, <1>1, PTL DEF Spec

\* ConsentIsTyped: no teardown, timeout or foreign answer approves a job
\* (the gates behind waitForAnswer, CONNECTION_CLOSED).
THEOREM TypedConsent == Spec => []ConsentIsTyped
  <1>1. ConnInv => ConsentIsTyped
    BY DEF ConnInv
  <1> QED BY ConnInvariance, <1>1, PTL

\* AskersCanBeAnswered: cancelPending strands nobody who asked in time.
THEOREM NobodyStranded == Spec => []AskersCanBeAnswered
  <1>1. ConnInv => AskersCanBeAnswered
    BY DEF ConnInv
  <1> QED BY ConnInvariance, <1>1, PTL

\* ResolversAreLive: pendingAnswers holds no resolver of a job that went on.
THEOREM LiveResolvers == Spec => []ResolversAreLive
  <1>1. ConnInv => ResolversAreLive
    BY DEF ConnInv
  <1> QED BY ConnInvariance, <1>1, PTL

\* TypeOK of Connections.
THEOREM ConnTypeCorrect == Spec => []TypeOK
  <1>1. ConnInv => TypeOK
    BY DEF ConnInv
  <1> QED BY ConnInvariance, <1>1, PTL

-----------------------------------------------------------------------------
(* The secret store                                                        *)

\* No connection closes while one of its jobs asks for a secret.
NoSecretCutOff ==
  \A c \in Clients : state[c] = "open" /\ state'[c] = "closed" =>
    \A j \in Jobs : job[j].pc = "waiting" /\ job[j].on = c
                       => job[j].q # "secret"

LEMMA SecretStep ==
  ASSUME TypeOK, ResolversAreLive, SecretsWereTyped, [Next]_vars, NoSecretCutOff
  PROVE  SecretsWereTyped'
  <1>1. ASSUME NEW c \in Clients, NEW i \in Ids, Answer(c, i)
        PROVE  SecretsWereTyped'
    BY <1>1 DEF Answer, Resolve, SecretsWereTyped
  <1>2. ASSUME NEW c \in Clients, Disconnect(c)
        PROVE  SecretsWereTyped'
    <2> DEFINE S == {pending[c][i] : i \in Ids} \ {None}
    <2>1. state[c] = "open" /\ state'[c] = "closed"
      BY <1>2 DEF Disconnect, TypeOK
    <2>2. \A k \in S : /\ k \in Jobs
                       /\ job[k].pc = "waiting" /\ job[k].on = c
      BY DEF TypeOK, ResolversAreLive
    <2>3. \A k \in S : job[k].q # "secret"
      BY <2>1, <2>2 DEF NoSecretCutOff
    <2>4. Resolve(S, "closed", FALSE)
      BY <1>2 DEF Disconnect
    <2> HIDE DEF S
    <2> QED BY <2>3, <2>4 DEF Resolve, SecretsWereTyped
  <1>3. CASE \/ \E c \in Clients :
                  \/ Connect(c) \/ Chat(c) \/ TurnEnds(c) \/ AnswerOnboarding(c)
                  \/ \E j \in Jobs : ToolCall(j, c) \/ StackAction(j, c)
             \/ \E j \in Jobs : \/ JobEnds(j) \/ WindowCloses(j)
                                 \/ \E q \in Questions : Ask(j, q)
             \/ UNCHANGED vars
    BY <1>3 DEF Connect, Chat, TurnEnds, AnswerOnboarding, ToolCall, StackAction,
                Start, JobEnds, WindowCloses, Ask, vars, SecretsWereTyped
  <1> QED BY <1>1, <1>2, <1>3 DEF Next

\* SecretsWereTyped: only cancelPending of a connection that closes over a
\* masked prompt stores the marker CONNECTION_CLOSED as a secret; answers,
\* timeouts, crossed ids and other teardowns never do.
THEOREM SecretsAreSafe ==
  Spec /\ [][NoSecretCutOff]_vars => []SecretsWereTyped
  <1>1. Init => SecretsWereTyped
    BY JobsAssumption DEF Init, SecretsWereTyped
  <1>2. ConnInv /\ SecretsWereTyped /\ [Next]_vars /\ [NoSecretCutOff]_vars
          => SecretsWereTyped'
    <2> SUFFICES ASSUME ConnInv, SecretsWereTyped, [Next]_vars,
                        [NoSecretCutOff]_vars
                 PROVE  SecretsWereTyped'
      OBVIOUS
    <2>1. CASE NoSecretCutOff
      BY <2>1, SecretStep DEF ConnInv
    <2>2. CASE UNCHANGED vars
      BY <2>2 DEF vars, SecretsWereTyped
    <2> QED BY <2>1, <2>2
  <1> QED BY ConnInvariance, <1>1, <1>2, PTL DEF Spec

-----------------------------------------------------------------------------
(* The one question whose id is not its own                                *)

AsksPolicy(j) == job[j].pc = "waiting" /\ job[j].q = "policy"

\* No two jobs of a connection wait for the codegen policy at once.
OnePolicyQuestion ==
  \A j, k \in Jobs :
    AsksPolicy(j) /\ AsksPolicy(k) /\ job[j].on = job[k].on => j = k

PolicyAskersCanBeAnswered ==
  \A j \in Jobs : AsksPolicy(j) /\ ~job[j].late =>
    state[job[j].on] = "open" /\ pending[job[j].on]["codegen_policy"] = j

\* AskersCanBeAnswered, with the policy question too.
NobodyIsOverwritten ==
  \A j \in Jobs : job[j].pc = "waiting" /\ ~job[j].late =>
    /\ state[job[j].on] = "open"
    /\ pending[job[j].on][Id(j, job[j].q)] = j

LEMMA PolicyStep ==
  ASSUME ConnInv, PolicyAskersCanBeAnswered, OnePolicyQuestion,
         OnePolicyQuestion', [Next]_vars
  PROVE  PolicyAskersCanBeAnswered'
  <1> USE DEF ConnInv
  <1> DEFINE P == "codegen_policy"
  <1>0. P \in Ids /\ P \notin Jobs
    BY JobsAssumption DEF Ids
  <1>1. \A k \in Jobs : job[k] \in Job /\ (job[k].pc # "idle" => job[k].on \in Clients)
    BY DEF TypeOK
  \* Whoever asked before and asks still keeps the entry.
  <1>2. ASSUME NEW k \in Jobs, AsksPolicy(k)', ~job'[k].late, job'[k] = job[k],
               state[job[k].on] = "open" => state'[job[k].on] = "open",
               pending[job[k].on][P] = k => pending'[job[k].on][P] = k
        PROVE  /\ state'[job'[k].on] = "open"
               /\ pending'[job'[k].on][P] = k
    BY <1>2 DEF AsksPolicy, PolicyAskersCanBeAnswered
  <1> DEFINE Fine == \A k \in Jobs : AsksPolicy(k)' /\ ~job'[k].late =>
               /\ state'[job'[k].on] = "open"
               /\ pending'[job'[k].on][P] = k
  <1>3. ASSUME NEW c \in Clients, Connect(c) \/ Chat(c) \/ TurnEnds(c)
                                                \/ AnswerOnboarding(c)
        PROVE  Fine
    <2>1. job' = job /\ pending' = pending
      BY <1>3 DEF Connect, Chat, TurnEnds, AnswerOnboarding
    <2>2. \A k \in Jobs : job[k].pc # "idle" => state'[job[k].on] = state[job[k].on]
      BY <1>1, <1>3 DEF TypeOK, Connect, Chat, TurnEnds, AnswerOnboarding
    <2> QED BY <1>2, <2>1, <2>2 DEF AsksPolicy
  <1>4. ASSUME NEW j \in Jobs, NEW c \in Clients,
               ToolCall(j, c) \/ StackAction(j, c) \/ JobEnds(j)
        PROVE  Fine
    <2>1. /\ job'[j].pc # "waiting" /\ \A k \in Jobs \ {j} : job'[k] = job[k]
          /\ pending' = pending /\ state' = state
      <3>1. CASE JobEnds(j)
        BY <3>1 DEF TypeOK, JobEnds, NoJob
      <3>2. ASSUME NEW b \in BOOLEAN, Start(j, c, b)
            PROVE  /\ job'[j].pc # "waiting"
                   /\ \A k \in Jobs \ {j} : job'[k] = job[k]
                   /\ pending' = pending /\ state' = state
        BY <3>2 DEF TypeOK, Start, NoJob
      <3> QED BY <1>4, <3>1, <3>2 DEF ToolCall, StackAction
    <2> QED BY <1>2, <2>1 DEF AsksPolicy
  <1>5. ASSUME NEW j \in Jobs, WindowCloses(j)
        PROVE  Fine
    <2>1. job'[j].pc # "waiting" /\ \A k \in Jobs \ {j} : job'[k] = job[k]
      BY <1>1, <1>5 DEF TypeOK, WindowCloses
    <2>2. state' = state /\ \A d \in Clients : pending'[d][P] = pending[d][P]
      BY <1>0, <1>5 DEF TypeOK, WindowCloses
    <2> QED BY <1>1, <1>2, <2>1, <2>2 DEF AsksPolicy
  <1>6. ASSUME NEW j \in Jobs, NEW q \in Questions, Ask(j, q)
        PROVE  Fine
    <2> DEFINE c == job[j].on
    <2>1. /\ c \in Clients /\ state[c] \in {"open", "closed"} /\ state' = state
      BY <1>1, <1>6 DEF Ask, TypeOK, Opened
    <2>2. /\ job'[j].pc = "waiting" /\ job'[j].q = q /\ job'[j].on = c
          /\ job'[j].late = (state[c] = "closed")
          /\ \A k \in Jobs \ {j} : job'[k] = job[k]
      BY <1>1, <1>6 DEF Ask, TypeOK, Job
    <2>3. \A d \in Clients :
            pending'[d][P] = IF d = c /\ q = "policy" THEN j ELSE pending[d][P]
      BY <1>0, <1>6, <2>1 DEF Ask, TypeOK, Id
    <2> HIDE DEF c
    <2>4. ASSUME NEW k \in Jobs \ {j}, AsksPolicy(k)', ~job'[k].late
          PROVE  /\ state'[job'[k].on] = "open" /\ pending'[job'[k].on][P] = k
      <3>1. job'[k] = job[k] /\ job[k].on \in Clients
        BY <1>1, <2>2, <2>4 DEF AsksPolicy
      <3>2. q = "policy" => job[k].on # c
        BY <2>2, <2>4, <3>1 DEF OnePolicyQuestion, AsksPolicy
      <3> QED BY <1>2, <2>1, <2>3, <2>4, <3>1, <3>2
    <2>5. AsksPolicy(j)' /\ ~job'[j].late =>
            state'[job'[j].on] = "open" /\ pending'[job'[j].on][P] = j
      BY <2>1, <2>2, <2>3 DEF AsksPolicy
    <2> QED BY <2>4, <2>5
  <1>7. ASSUME NEW c \in Clients, NEW i \in Ids, Answer(c, i)
        PROVE  Fine
    <2> DEFINE w == pending[c][i]
    <2>1. /\ w \in Jobs /\ job[w].pc = "waiting" /\ job[w].on = c
          /\ Id(w, job[w].q) = i
      BY <1>7 DEF TypeOK, Answer, ResolversAreLive
    <2>2. /\ job'[w].pc = "running" /\ \A k \in Jobs \ {w} : job'[k] = job[k]
      <3>1. PICK v \in {"approve", "other"} : Resolve({w}, v, TRUE)
        BY <1>7 DEF Answer
      <3>2. v \in Answers /\ {w} \in SUBSET Jobs
        BY <2>1 DEF Answers
      <3> HIDE DEF w
      <3> QED BY <3>1, <3>2, ResolveEffect
    <2>3. /\ state' = state
          /\ \A d \in Clients :
               pending'[d][P] = IF d = c /\ i = P THEN None ELSE pending[d][P]
      BY <1>0, <1>7 DEF Answer, TypeOK
    <2>4. i = P => AsksPolicy(w)
      BY <1>0, <2>1 DEF Id, AsksPolicy
    <2> HIDE DEF w
    <2> SUFFICES ASSUME NEW k \in Jobs, AsksPolicy(k)', ~job'[k].late
                 PROVE  /\ state'[job'[k].on] = "open"
                        /\ pending'[job'[k].on][P] = k
      OBVIOUS
    <2>5. k # w /\ job'[k] = job[k] /\ job[k].on \in Clients /\ AsksPolicy(k)
      BY <1>1, <2>2 DEF AsksPolicy
    <2>6. i = P => job[k].on # c
      BY <2>1, <2>4, <2>5 DEF OnePolicyQuestion
    <2> QED BY <1>2, <2>3, <2>5, <2>6
  <1>8. ASSUME NEW c \in Clients, Disconnect(c)
        PROVE  Fine
    <2> DEFINE S == {pending[c][i] : i \in Ids} \ {None}
    <2>1. S \in SUBSET Jobs /\ "closed" \in Answers
      BY DEF TypeOK, Answers
    <2>2. Resolve(S, "closed", FALSE)
      BY <1>8 DEF Disconnect
    <2>3. c \in Clients /\ (\A k \in Jobs : pending[c][P] = k => k \in S)
      BY <1>0, JobsAssumption
    <2> HIDE DEF S
    <2>4. /\ \A k \in S : job'[k].pc = "running"
          /\ \A k \in Jobs \ S : job'[k] = job[k]
      BY <2>1, <2>2, ResolveEffect
    <2>5. \A d \in Clients \ {c} : state'[d] = state[d] /\ pending'[d] = pending[d]
      BY <1>8 DEF Disconnect, TypeOK
    <2> SUFFICES ASSUME NEW k \in Jobs, AsksPolicy(k)', ~job'[k].late
                 PROVE  /\ state'[job'[k].on] = "open"
                        /\ pending'[job'[k].on][P] = k
      OBVIOUS
    <2>6. k \notin S /\ job'[k] = job[k] /\ job[k].on \in Clients /\ AsksPolicy(k)
      BY <1>1, <2>4 DEF AsksPolicy
    <2>7. job[k].on # c
      BY <2>3, <2>6 DEF PolicyAskersCanBeAnswered
    <2> QED BY <1>2, <2>5, <2>6, <2>7
  <1>9. CASE UNCHANGED vars
    BY <1>9 DEF vars, AsksPolicy, PolicyAskersCanBeAnswered
  <1>10. Fine => PolicyAskersCanBeAnswered'
    BY DEF PolicyAskersCanBeAnswered
  <1>11. ASSUME NEW j \in Jobs, JobEnds(j) PROVE Fine
    <2>1. job[j].on \in Clients
      BY <1>1, <1>11 DEF JobEnds
    <2> QED BY <1>4, <1>11, <2>1
  <1> HIDE DEF Fine
  <1> QED BY <1>3, <1>4, <1>5, <1>6, <1>7, <1>8, <1>9, <1>10, <1>11 DEF Next

\* The policy question goes by a fixed id, and a second one of the same
\* connection takes the resolver of the first.  That is the only way to be
\* stranded by another's question: where it does not happen, whoever asked in
\* time can be answered, whatever was asked.
THEOREM OnlyPolicyStrands ==
  Spec /\ []OnePolicyQuestion => []NobodyIsOverwritten
  <1>1. Init => PolicyAskersCanBeAnswered
    BY DEF Init, NoJob, AsksPolicy, PolicyAskersCanBeAnswered
  <1>2. ConnInv /\ PolicyAskersCanBeAnswered /\ OnePolicyQuestion
          /\ OnePolicyQuestion' /\ [Next]_vars => PolicyAskersCanBeAnswered'
    BY PolicyStep
  <1>3. ConnInv /\ PolicyAskersCanBeAnswered => NobodyIsOverwritten
    BY DEF ConnInv, AskersCanBeAnswered, PolicyAskersCanBeAnswered, AsksPolicy,
           NobodyIsOverwritten, Id
  <1> QED BY ConnInvariance, <1>1, <1>2, <1>3, PTL DEF Spec
=============================================================================
