--------------------------- MODULE ExtensionsProofs ---------------------------
(***************************************************************************)
(* Proofs of the safety properties of the life of an extension, for any    *)
(* actors, drafts and budgets: the pin of the row is that of the files, no *)
(* session runs code older than the promoted one, the breaker bounds the   *)
(* repairs, and neither an inProgress mark nor a draft is left behind.     *)
(***************************************************************************)
EXTENDS Extensions, FiniteSetTheorems, TLAPS

Working  == {"session", "listing", "probing", "checking"}
Drafting == {"listing", "probing", "checking"}

\* Only a learn flow whose agent works has a regeneration.
LearnInv ==
  \A a \in Actors :
    /\ act[a].regeneration > 0 => act[a].kind = "learn" /\ act[a].pc \in Working
    /\ act[a].pc = "locating" => act[a].kind = "learn"

\* Those who passed the breaker's test and have not raised the count yet.
Resolving == {a \in Actors : act[a].pc = "resolving"}

\* Whoever passes the test sees a count below the limit; each of those who wait
\* may raise it once more.
BreakerInv ==
  row.attempts + Cardinality(Resolving)
    <= MaxRepairAttempts + Cardinality(Actors) - 1

ExtInv == /\ TypeOK /\ PinMatchesDisk /\ SessionRunsPromotedCode
          /\ LearnInv /\ InProgressHasOwner /\ NothingLeftOfADraft
          /\ BreakerInv

-----------------------------------------------------------------------------
(* Facts about the constants and the operators                             *)

\* What the assumption on the budgets says of each.
LEMMA Budgets == /\ RepairThreshold \in Nat /\ RepairThreshold >= 1
                 /\ MaxRepairAttempts \in Nat /\ MaxRepairAttempts >= 1
                 /\ MaxWriteAttempts \in Nat /\ MaxWriteAttempts >= 1
                 /\ MaxRegenerations \in Nat /\ MaxRegenerations >= 1
                 /\ MaxFaults \in Nat
  BY BudgetsAssumption

LEMMA IdleFacts == /\ Idle \in Activity /\ Idle.kind = "read"
                   /\ Idle.pc = "idle" /\ Idle.regeneration = 0
  BY Budgets DEF Idle, Activity, Kinds, PCs

\* Changing one actor.
LEMMA Update ==
  ASSUME NEW f \in [Actors -> Activity], NEW a \in Actors, NEW x \in Activity
  PROVE  /\ [f EXCEPT ![a] = x] \in [Actors -> Activity]
         /\ [f EXCEPT ![a] = x][a] = x
         /\ \A b \in Actors \ {a} : [f EXCEPT ![a] = x][b] = f[b]
  OBVIOUS

\* Changing one field of an activity.
LEMMA Fields ==
  ASSUME NEW x \in Activity
  PROVE  /\ \A p \in PCs :
              /\ [x EXCEPT !.pc = p] \in Activity
              /\ [x EXCEPT !.pc = p].pc = p
              /\ [x EXCEPT !.pc = p].kind = x.kind
              /\ [x EXCEPT !.pc = p].on = x.on
              /\ [x EXCEPT !.pc = p].regeneration = x.regeneration
         /\ \A v \in BOOLEAN :
              /\ [x EXCEPT !.on = v] \in Activity
              /\ [x EXCEPT !.on = v].pc = x.pc
              /\ [x EXCEPT !.on = v].kind = x.kind
              /\ [x EXCEPT !.on = v].on = v
              /\ [x EXCEPT !.on = v].regeneration = x.regeneration
         /\ \A v \in BOOLEAN :
              /\ [x EXCEPT !.draft = v] \in Activity
              /\ [x EXCEPT !.draft = v].pc = x.pc
              /\ [x EXCEPT !.draft = v].kind = x.kind
              /\ [x EXCEPT !.draft = v].on = x.on
              /\ [x EXCEPT !.draft = v].regeneration = x.regeneration
         /\ \A v \in BOOLEAN :
              /\ [x EXCEPT !.promoted = v] \in Activity
              /\ [x EXCEPT !.promoted = v].pc = x.pc
              /\ [x EXCEPT !.promoted = v].kind = x.kind
              /\ [x EXCEPT !.promoted = v].on = x.on
              /\ [x EXCEPT !.promoted = v].regeneration = x.regeneration
         /\ \A v \in BOOLEAN :
              /\ [x EXCEPT !.again = v] \in Activity
              /\ [x EXCEPT !.again = v].pc = x.pc
              /\ [x EXCEPT !.again = v].kind = x.kind
              /\ [x EXCEPT !.again = v].on = x.on
              /\ [x EXCEPT !.again = v].regeneration = x.regeneration
         /\ \A k \in Kinds :
              /\ [x EXCEPT !.kind = k] \in Activity
              /\ [x EXCEPT !.kind = k].pc = x.pc
              /\ [x EXCEPT !.kind = k].kind = k
              /\ [x EXCEPT !.kind = k].on = x.on
              /\ [x EXCEPT !.kind = k].regeneration = x.regeneration
  BY DEF Activity

\* teardown changes nothing but whether the session is waited for.
LEMMA CutFacts ==
  ASSUME NEW f \in [Actors -> Activity], NEW pc
  PROVE  /\ Cut(f, pc) \in [Actors -> Activity]
         /\ \A b \in Actors :
              /\ Cut(f, pc)[b].kind = f[b].kind
              /\ Cut(f, pc)[b].pc = f[b].pc
              /\ Cut(f, pc)[b].regeneration = f[b].regeneration
              /\ f[b].pc # pc => Cut(f, pc)[b] = f[b]
              /\ f[b].pc = pc => ~Cut(f, pc)[b].on
  <1>1. \A b \in Actors : Cut(f, pc)[b] = IF f[b].pc = pc
                        THEN [f[b] EXCEPT !.on = FALSE] ELSE f[b]
    BY DEF Cut
  <1>2. \A b \in Actors : f[b] \in Activity
    OBVIOUS
  <1>3. \A b \in Actors : /\ [f[b] EXCEPT !.on = FALSE] \in Activity
                          /\ [f[b] EXCEPT !.on = FALSE].kind = f[b].kind
                          /\ [f[b] EXCEPT !.on = FALSE].pc = f[b].pc
                          /\ [f[b] EXCEPT !.on = FALSE].regeneration
                               = f[b].regeneration
                          /\ ~[f[b] EXCEPT !.on = FALSE].on
    BY <1>2, Fields
  <1>4. \A b \in Actors : Cut(f, pc)[b] \in Activity
    BY <1>1, <1>2, <1>3
  <1>5. Cut(f, pc) \in [Actors -> Activity]
    BY <1>4 DEF Cut
  <1> QED BY <1>1, <1>3, <1>5

\* What the writes of the store, but for promote, and the pin may do to a row.
Softened(r, s) == /\ s \in Row
                  /\ s.state = r.state \/ s.state = "disabled"
                  /\ s.hash = r.hash \/ s.hash = live
                  /\ s.attempts = r.attempts

LEMMA RowFacts ==
  ASSUME NEW r \in Row, live \in Drafts \cup {None}
  PROVE  /\ Softened(r, r) /\ Softened(r, recordFailure(r))
         /\ Softened(r, recordSuccess(r)) /\ Softened(r, disable(r))
         /\ Softened(r, Pinned(r))
         /\ \A s, t : Softened(r, s) /\ Softened(s, t) => Softened(r, t)
  <1>1. Softened(r, r)
    BY DEF Softened
  <1>2. Softened(r, recordFailure(r))
    BY Budgets DEF Softened, recordFailure, Row
  <1>3. Softened(r, recordSuccess(r))
    BY Budgets DEF Softened, recordSuccess, Row
  <1>4. Softened(r, disable(r))
    BY DEF Softened, disable, Row
  <1>5. Softened(r, Pinned(r))
    BY DEF Softened, Pinned, Row
  <1>6. \A s, t : Softened(r, s) /\ Softened(s, t) => Softened(r, t)
    BY DEF Softened
  <1> QED BY <1>1, <1>2, <1>3, <1>4, <1>5, <1>6

-----------------------------------------------------------------------------
(* What the actions do to the actors                                       *)

\* x is y, but perhaps for the session it waited for.
Alike(x, y) == /\ x.kind = y.kind /\ x.pc = y.pc
               /\ x.regeneration = y.regeneration
               /\ y.pc = "probing" => \/ x.on = y.on
                                      \/ ~x.on /\ draftHost' = None
Stays == /\ act' \in [Actors -> Activity]
         /\ \A b \in Actors : Alike(act'[b], act[b])
Moves(a, k, p, g) == /\ act' \in [Actors -> Activity]
                     /\ act'[a].kind = k /\ act'[a].pc = p
                     /\ act'[a].regeneration = g
                     /\ \A b \in Actors \ {a} : Alike(act'[b], act[b])

\* The four ways in which act is changed.
LEMMA MovesBy ==
  ASSUME TypeOK, NEW a \in Actors, NEW x \in Activity
  PROVE  /\ act' = [act EXCEPT ![a] = x]
              => Moves(a, x.kind, x.pc, x.regeneration) /\ act'[a] = x
         /\ act' = [Cut(act, "host") EXCEPT ![a] = x]
              => Moves(a, x.kind, x.pc, x.regeneration)
         /\ act' = Cut([act EXCEPT ![a] = x], "probing") /\ draftHost' = None
              => Moves(a, x.kind, x.pc, x.regeneration)
         /\ act' = Cut([Cut(act, "host") EXCEPT ![a] = x], "probing")
              /\ draftHost' = None
              => Moves(a, x.kind, x.pc, x.regeneration)
  <1>1. act \in [Actors -> Activity]
    BY DEF TypeOK
  <1> DEFINE c == Cut(act, "host")
  <1>2. /\ c \in [Actors -> Activity]
        /\ \A b \in Actors : /\ c[b].kind = act[b].kind /\ c[b].pc = act[b].pc
                             /\ c[b].regeneration = act[b].regeneration
                             /\ act[b].pc # "host" => c[b] = act[b]
    BY <1>1, CutFacts
  <1> HIDE DEF c
  <1>3. ASSUME act' = [act EXCEPT ![a] = x]
        PROVE  Moves(a, x.kind, x.pc, x.regeneration) /\ act'[a] = x
    BY <1>1, <1>3, Update DEF Moves, Alike
  <1>4. ASSUME act' = [c EXCEPT ![a] = x]
        PROVE  Moves(a, x.kind, x.pc, x.regeneration)
    BY <1>2, <1>4, Update DEF Moves, Alike
  <1>5. ASSUME act' = Cut([act EXCEPT ![a] = x], "probing"), draftHost' = None
        PROVE  Moves(a, x.kind, x.pc, x.regeneration)
    <2> DEFINE g == [act EXCEPT ![a] = x]
    <2>1. /\ g \in [Actors -> Activity] /\ g[a] = x
          /\ \A b \in Actors \ {a} : g[b] = act[b]
      BY <1>1, Update
    <2> HIDE DEF g
    <2>2. /\ Cut(g, "probing") \in [Actors -> Activity]
          /\ \A b \in Actors : /\ Cut(g, "probing")[b].kind = g[b].kind
                               /\ Cut(g, "probing")[b].pc = g[b].pc
                               /\ Cut(g, "probing")[b].regeneration
                                    = g[b].regeneration
                               /\ g[b].pc = "probing" =>
                                    ~Cut(g, "probing")[b].on
      BY <2>1, CutFacts
    <2>3. act' = Cut(g, "probing")
      BY <1>5 DEF g
    <2> QED BY <1>5, <2>1, <2>2, <2>3 DEF Moves, Alike
  <1>6. ASSUME act' = Cut([c EXCEPT ![a] = x], "probing"), draftHost' = None
        PROVE  Moves(a, x.kind, x.pc, x.regeneration)
    <2> DEFINE g == [c EXCEPT ![a] = x]
    <2>1. /\ g \in [Actors -> Activity] /\ g[a] = x
          /\ \A b \in Actors \ {a} : g[b] = c[b]
      BY <1>2, Update
    <2> HIDE DEF g
    <2>2. /\ Cut(g, "probing") \in [Actors -> Activity]
          /\ \A b \in Actors : /\ Cut(g, "probing")[b].kind = g[b].kind
                               /\ Cut(g, "probing")[b].pc = g[b].pc
                               /\ Cut(g, "probing")[b].regeneration
                                    = g[b].regeneration
                               /\ g[b].pc = "probing" =>
                                    ~Cut(g, "probing")[b].on
      BY <2>1, CutFacts
    <2>3. act' = Cut(g, "probing")
      BY <1>6 DEF g
    <2>4. \A b \in Actors \ {a} : /\ Cut(g, "probing")[b].kind = act[b].kind
                                  /\ Cut(g, "probing")[b].pc = act[b].pc
                                  /\ Cut(g, "probing")[b].regeneration
                                       = act[b].regeneration
                                  /\ act[b].pc = "probing" =>
                                       ~Cut(g, "probing")[b].on
      BY <1>2, <2>1, <2>2
    <2> QED BY <1>6, <2>1, <2>2, <2>3, <2>4 DEF Moves, Alike
  <1> QED BY <1>3, <1>4, <1>5, <1>6 DEF c

\* The activity of an actor that has just called the host.
Calling(k, o, n) == [Idle EXCEPT !.kind = k, !.pc = "host", !.on = o,
                                 !.again = n]

LEMMA CallingFacts ==
  ASSUME NEW k \in Kinds, NEW o \in BOOLEAN, NEW n \in BOOLEAN
  PROVE  /\ Calling(k, o, n) \in Activity
         /\ Calling(k, o, n).kind = k
         /\ Calling(k, o, n).pc = "host"
         /\ Calling(k, o, n).regeneration = 0
  <1> DEFINE y1 == [Idle EXCEPT !.kind = k]
             y2 == [y1 EXCEPT !.pc = "host"]
             y3 == [y2 EXCEPT !.on = o]
             y4 == [y3 EXCEPT !.again = n]
  <1>1. y1 \in Activity /\ y1.kind = k /\ y1.regeneration = 0
    BY IdleFacts, Fields
  <1> HIDE DEF y1
  <1>2. y2 \in Activity /\ y2.kind = k /\ y2.pc = "host" /\ y2.regeneration = 0
    BY <1>1, Fields DEF PCs
  <1> HIDE DEF y2
  <1>3. y3 \in Activity /\ y3.kind = k /\ y3.pc = "host" /\ y3.regeneration = 0
    BY <1>2, Fields
  <1> HIDE DEF y3
  <1>4. y4 \in Activity /\ y4.kind = k /\ y4.pc = "host" /\ y4.regeneration = 0
    BY <1>3, Fields
  <1>5. Calling(k, o, n) = y4
    BY DEF Calling, y1, y2, y3, y4
  <1> QED BY <1>4, <1>5

\* The actions that start, answer or give up calls.
LEMMA CallMoves ==
  ASSUME TypeOK, NEW a \in Actors
  PROVE  /\ BeginCall(a) => Stays \/ \E k \in {"read", "op", "probe"} :
                                         Moves(a, k, "host", 0)
         /\ BeginRoute(a) => Moves(a, "route", "host", 0)
         /\ HostAnswers(a) =>
              \/ Moves(a, act[a].kind, "operating", act[a].regeneration)
              \/ Moves(a, "read", "idle", 0)
         /\ OperationEnds(a) => Moves(a, "read", "idle", 0)
         /\ NoModel(a) => Moves(a, "read", "idle", 0)
         /\ LearnEnds(a) => Moves(a, "read", "idle", 0)
         /\ SessionRejects(a) => Moves(a, "read", "idle", 0)
         /\ RepairEnds(a) => \/ Moves(a, "read", "host", 0)
                             \/ Moves(a, "read", "idle", 0)
  <1>1. act[a] \in Activity /\ act \in [Actors -> Activity]
    BY DEF TypeOK
  <1>2. BeginCall(a) => Stays \/ \E k \in {"read", "op", "probe"} :
                                    Moves(a, k, "host", 0)
    <2>1. ASSUME NEW k \in {"read", "op", "probe"}, BeginPinned(a, k)
          PROVE  Stays \/ Moves(a, k, "host", 0)
      <3>1. CASE PinMismatch(row)
        BY <1>1, <2>1, <3>1 DEF BeginPinned, Stays, Alike
      <3>2. CASE ~PinMismatch(row)
        <4> DEFINE o == host' # None
                   x == Calling(k, o, FALSE)
        <4>1. act' = [act EXCEPT ![a] = x]
          BY <2>1, <3>2 DEF BeginPinned, Call, Calling
        <4>2. k \in Kinds /\ o \in BOOLEAN
          BY DEF Kinds
        <4> HIDE DEF o
        <4>3. x \in Activity /\ x.kind = k /\ x.pc = "host" /\ x.regeneration = 0
          BY <4>2, CallingFacts
        <4> HIDE DEF x
        <4> QED BY <4>1, <4>3, MovesBy DEF Moves
      <3> QED BY <3>1, <3>2
    <2> QED BY <2>1 DEF BeginCall
  <1>3. BeginRoute(a) => Moves(a, "route", "host", 0)
    <2> SUFFICES ASSUME BeginRoute(a) PROVE Moves(a, "route", "host", 0)
      OBVIOUS
    <2> DEFINE k == "route"
               o == host' # None
               x == Calling(k, o, FALSE)
    <2>1. act' = [act EXCEPT ![a] = x]
      BY DEF BeginRoute, Call, Calling
    <2>2. k \in Kinds /\ o \in BOOLEAN
      BY DEF Kinds
    <2> HIDE DEF k, o
    <2>3. x \in Activity /\ x.kind = k /\ x.pc = "host" /\ x.regeneration = 0
      BY <2>2, CallingFacts
    <2> HIDE DEF x
    <2> USE DEF k
    <2> QED BY <2>1, <2>3, MovesBy DEF Moves
  <1>4. act' = [act EXCEPT ![a] = Idle] => Moves(a, "read", "idle", 0)
    BY MovesBy, IdleFacts DEF Moves
  <1>5. HostAnswers(a) =>
              \/ Moves(a, act[a].kind, "operating", act[a].regeneration)
              \/ Moves(a, "read", "idle", 0)
    <2>1. CASE act' = [act EXCEPT ![a].pc = "operating"]
      <3> DEFINE x == [act[a] EXCEPT !.pc = "operating"]
      <3>1. x \in Activity /\ x.kind = act[a].kind /\ x.pc = "operating"
            /\ x.regeneration = act[a].regeneration
        BY <1>1, Fields DEF PCs
      <3>2. act' = [act EXCEPT ![a] = x]
        BY <2>1
      <3> HIDE DEF x
      <3> QED BY <3>1, <3>2, MovesBy
    <2> QED BY <1>4, <2>1 DEF HostAnswers
  <1>6. RepairEnds(a) => Moves(a, "read", "host", 0) \/ Moves(a, "read", "idle", 0)
    <2> SUFFICES ASSUME RepairEnds(a), act' # [act EXCEPT ![a] = Idle]
                 PROVE  Moves(a, "read", "host", 0)
      BY <1>4
    <2> DEFINE k == "read"
               o == host' # None
               x == Calling(k, o, TRUE)
    <2>1. act' = [Cut(act, "host") EXCEPT ![a] = x]
      BY DEF RepairEnds, Calling
    <2>2. k \in Kinds /\ o \in BOOLEAN
      BY DEF Kinds
    <2> HIDE DEF k, o
    <2>3. x \in Activity /\ x.kind = k /\ x.pc = "host" /\ x.regeneration = 0
      BY <2>2, CallingFacts
    <2> HIDE DEF x
    <2> USE DEF k
    <2> QED BY <2>1, <2>3, MovesBy DEF Moves
  <1>7. /\ OperationEnds(a) => Moves(a, "read", "idle", 0)
        /\ NoModel(a) => Moves(a, "read", "idle", 0)
        /\ LearnEnds(a) => Moves(a, "read", "idle", 0)
        /\ SessionRejects(a) => Moves(a, "read", "idle", 0)
    BY <1>4 DEF OperationEnds, NoModel, LearnEnds, SessionRejects
  <1> QED BY <1>2, <1>3, <1>5, <1>6, <1>7

\* The actions of repairs and learn flows between the calls and the writes.
LEMMA FlowMoves ==
  ASSUME TypeOK, NEW a \in Actors
  PROVE  /\ StartRepair(a) => Moves(a, act[a].kind, "session", act[a].regeneration)
         /\ BeginLearn(a) => Moves(a, "learn", "locating", 0)
         /\ StartLearn(a) => Moves(a, act[a].kind, "session", 1)
         /\ Regenerate(a) =>
              Moves(a, act[a].kind, act[a].pc, act[a].regeneration + 1)
  <1>1. act[a] \in Activity /\ act \in [Actors -> Activity]
    BY DEF TypeOK
  <1>2. ASSUME StartRepair(a)
        PROVE  Moves(a, act[a].kind, "session", act[a].regeneration)
    <2> DEFINE y == [act[a] EXCEPT !.pc = "session"]
               x == [y EXCEPT !.attempts = row'.attempts]
    <2>1. act' = [act EXCEPT ![a] = x]
      BY <1>2 DEF StartRepair
    <2>2. row'.attempts \in Nat
      BY <1>2 DEF StartRepair, incrementRepairAttempts, TypeOK, Row
    <2>3. y \in Activity /\ y.kind = act[a].kind /\ y.pc = "session"
          /\ y.regeneration = act[a].regeneration
      BY <1>1, Fields DEF PCs
    <2> HIDE DEF y
    <2>4. x \in Activity /\ x.kind = act[a].kind /\ x.pc = "session"
          /\ x.regeneration = act[a].regeneration
      BY <2>2, <2>3 DEF Activity
    <2> HIDE DEF x
    <2> QED BY <2>1, <2>4, MovesBy
  <1>3. ASSUME BeginLearn(a)
        PROVE  Moves(a, "learn", "locating", 0)
    <2> DEFINE y == [Idle EXCEPT !.kind = "learn"]
               x == [y EXCEPT !.pc = "locating"]
    <2>1. act' = [act EXCEPT ![a] = x]
      BY <1>3 DEF BeginLearn
    <2>2. y \in Activity /\ y.kind = "learn" /\ y.regeneration = 0
      BY IdleFacts, Fields DEF Kinds
    <2> HIDE DEF y
    <2>3. x \in Activity /\ x.kind = "learn" /\ x.pc = "locating"
          /\ x.regeneration = 0
      BY <2>2, Fields DEF PCs
    <2> HIDE DEF x
    <2> QED BY <2>1, <2>3, MovesBy DEF Moves
  <1>4. ASSUME StartLearn(a)
        PROVE  Moves(a, act[a].kind, "session", 1)
    <2> DEFINE y == [act[a] EXCEPT !.pc = "session"]
               x == [y EXCEPT !.regeneration = 1]
    <2>1. act' = [act EXCEPT ![a] = x]
      BY <1>4 DEF StartLearn
    <2>2. y \in Activity /\ y.kind = act[a].kind /\ y.pc = "session"
      BY <1>1, Fields DEF PCs
    <2> HIDE DEF y
    <2>3. x \in Activity /\ x.kind = act[a].kind /\ x.pc = "session"
          /\ x.regeneration = 1
      BY <2>2, Budgets DEF Activity
    <2> HIDE DEF x
    <2> QED BY <2>1, <2>3, MovesBy DEF Moves
  <1>5. ASSUME Regenerate(a)
        PROVE  Moves(a, act[a].kind, act[a].pc, act[a].regeneration + 1)
    <2> DEFINE n == act[a].regeneration + 1
               y == [act[a] EXCEPT !.regeneration = n]
               z == [y EXCEPT !.writes = 0]
               x == [z EXCEPT !.draft = FALSE]
    <2>1. act' = [act EXCEPT ![a] = x]
      BY <1>5 DEF Regenerate
    <2>2. n \in 0..MaxRegenerations
      BY <1>1, <1>5, Budgets DEF Regenerate, Regenerates, Activity
    <2> HIDE DEF n
    <2>3. y \in Activity /\ y.kind = act[a].kind /\ y.pc = act[a].pc
          /\ y.regeneration = n
      BY <1>1, <2>2 DEF Activity
    <2> HIDE DEF y
    <2>4. z \in Activity /\ z.kind = act[a].kind /\ z.pc = act[a].pc
          /\ z.regeneration = n
      BY <2>3, Budgets DEF Activity
    <2> HIDE DEF z
    <2>5. x \in Activity /\ x.kind = act[a].kind /\ x.pc = act[a].pc
          /\ x.regeneration = n
      BY <2>4, Fields
    <2> HIDE DEF x
    <2>6. Moves(a, act[a].kind, act[a].pc, n)
      BY <2>1, <2>5, MovesBy DEF Moves
    <2> QED BY <2>6 DEF n
  <1> QED BY <1>2, <1>3, <1>4, <1>5

\* The actions of extension_write.
LEMMA WriteMoves ==
  ASSUME TypeOK, NEW a \in Actors
  PROVE  /\ Write(a) => Moves(a, act[a].kind, "listing", act[a].regeneration)
         /\ WriteRejected(a) => Moves(a, act[a].kind, act[a].pc, act[a].regeneration)
         /\ Inspect(a) =>
              /\ Moves(a, act[a].kind, "probing", act[a].regeneration)
              /\ act'[a].on
         /\ Probed(a) => Moves(a, act[a].kind, "checking", act[a].regeneration)
         /\ ValidationFails(a) \/ Promote(a) \/ PromoteThrows(a) =>
              Moves(a, act[a].kind, "session", act[a].regeneration)
  <1>1. act[a] \in Activity /\ act \in [Actors -> Activity]
    BY DEF TypeOK
  <1>2. act[a].writes < MaxWriteAttempts
          => act[a].writes + 1 \in 0..MaxWriteAttempts
    BY <1>1, Budgets DEF Activity
  <1> DEFINE v == act[a].kind = "learn"
  <1>3. v \in BOOLEAN
    OBVIOUS
  <1>4. ASSUME Write(a)
        PROVE  Moves(a, act[a].kind, "listing", act[a].regeneration)
    <2> DEFINE y == [act[a] EXCEPT !.pc = "listing"]
               x == [y EXCEPT !.writes = @ + 1]
    <2>1. act' = [act EXCEPT ![a] = x]
      BY <1>4 DEF Write
    <2>2. y \in Activity /\ y.kind = act[a].kind /\ y.pc = "listing"
          /\ y.regeneration = act[a].regeneration /\ y.writes = act[a].writes
      BY <1>1 DEF Activity, PCs
    <2>3. act[a].writes + 1 \in 0..MaxWriteAttempts
      BY <1>2, <1>4 DEF Write
    <2> HIDE DEF y
    <2>4. x \in Activity /\ x.kind = act[a].kind /\ x.pc = "listing"
          /\ x.regeneration = act[a].regeneration
      BY <2>2, <2>3 DEF Activity
    <2> HIDE DEF x
    <2> QED BY <2>1, <2>4, MovesBy
  <1>5. ASSUME WriteRejected(a)
        PROVE  Moves(a, act[a].kind, act[a].pc, act[a].regeneration)
    <2> DEFINE y == [act[a] EXCEPT !.writes = @ + 1]
               x == [y EXCEPT !.draft = v]
    <2>1. act' = Cut([act EXCEPT ![a] = x], "probing") /\ draftHost' = None
      BY <1>5 DEF WriteRejected, DropDraftHost
    <2>2. act[a].writes + 1 \in 0..MaxWriteAttempts
      BY <1>2, <1>5 DEF WriteRejected
    <2>3. y \in Activity /\ y.kind = act[a].kind /\ y.pc = act[a].pc
          /\ y.regeneration = act[a].regeneration
      BY <1>1, <2>2 DEF Activity
    <2> HIDE DEF y, v
    <2>4. x \in Activity /\ x.kind = act[a].kind /\ x.pc = act[a].pc
          /\ x.regeneration = act[a].regeneration
      BY <1>3, <2>3, Fields
    <2> HIDE DEF x
    <2> QED BY <2>1, <2>4, MovesBy
  <1>6. ASSUME Inspect(a)
        PROVE  /\ Moves(a, act[a].kind, "probing", act[a].regeneration)
               /\ act'[a].on
    <2> DEFINE y == [act[a] EXCEPT !.pc = "probing"]
               x == [y EXCEPT !.on = TRUE]
    <2>1. act' = [act EXCEPT ![a] = x]
      BY <1>6 DEF Inspect
    <2>2. y \in Activity /\ y.kind = act[a].kind /\ y.pc = "probing"
          /\ y.regeneration = act[a].regeneration
      BY <1>1, Fields DEF PCs
    <2> HIDE DEF y
    <2>3. x \in Activity /\ x.kind = act[a].kind /\ x.pc = "probing"
          /\ x.regeneration = act[a].regeneration /\ x.on = TRUE
      BY <2>2, Fields
    <2> HIDE DEF x
    <2> QED BY <2>1, <2>3, MovesBy
  <1>7. ASSUME Probed(a)
        PROVE  Moves(a, act[a].kind, "checking", act[a].regeneration)
    <2> DEFINE y == [act[a] EXCEPT !.pc = "checking"]
               x == [y EXCEPT !.on = FALSE]
    <2>1. act' = [act EXCEPT ![a] = x]
      BY <1>7 DEF Probed
    <2>2. y \in Activity /\ y.kind = act[a].kind /\ y.pc = "checking"
          /\ y.regeneration = act[a].regeneration
      BY <1>1, Fields DEF PCs
    <2> HIDE DEF y
    <2>3. x \in Activity /\ x.kind = act[a].kind /\ x.pc = "checking"
          /\ x.regeneration = act[a].regeneration
      BY <2>2, Fields
    <2> HIDE DEF x
    <2> QED BY <2>1, <2>3, MovesBy
  <1> DEFINE s == [act[a] EXCEPT !.pc = "session"]
  <1>8. s \in Activity /\ s.kind = act[a].kind /\ s.pc = "session"
        /\ s.regeneration = act[a].regeneration
    BY <1>1, Fields DEF PCs
  <1>9. ASSUME ValidationFails(a)
        PROVE  Moves(a, act[a].kind, "session", act[a].regeneration)
    <2> DEFINE y == [s EXCEPT !.on = FALSE]
               x == [y EXCEPT !.draft = v]
    <2>1. act' = Cut([act EXCEPT ![a] = x], "probing") /\ draftHost' = None
      BY <1>9 DEF ValidationFails, DropDraftHost
    <2> HIDE DEF s
    <2>2. y \in Activity /\ y.kind = act[a].kind /\ y.pc = "session"
          /\ y.regeneration = act[a].regeneration
      BY <1>8, Fields
    <2> HIDE DEF y, v
    <2>3. x \in Activity /\ x.kind = act[a].kind /\ x.pc = "session"
          /\ x.regeneration = act[a].regeneration
      BY <1>3, <2>2, Fields
    <2> HIDE DEF x
    <2> QED BY <2>1, <2>3, MovesBy
  <1>10. ASSUME Promote(a)
         PROVE  Moves(a, act[a].kind, "session", act[a].regeneration)
    <2> DEFINE c == Cut(act, "host")
               r == [c[a] EXCEPT !.pc = "session"]
               y == [r EXCEPT !.promoted = TRUE]
               x == [y EXCEPT !.draft = FALSE]
    <2>1. act' = Cut([c EXCEPT ![a] = x], "probing") /\ draftHost' = None
      BY <1>10 DEF Promote, DropDraftHost
    <2>2. c[a] \in Activity /\ c[a].kind = act[a].kind
          /\ c[a].regeneration = act[a].regeneration
      BY <1>1, CutFacts
    <2> HIDE DEF c
    <2>3. r \in Activity /\ r.kind = act[a].kind /\ r.pc = "session"
          /\ r.regeneration = act[a].regeneration
      <3>1. "session" \in PCs
        BY DEF PCs
      <3>2. /\ r \in Activity /\ r.pc = "session" /\ r.kind = c[a].kind
            /\ r.regeneration = c[a].regeneration
        BY <2>2, <3>1, Fields
      <3> QED BY <2>2, <3>2
    <2> HIDE DEF r
    <2>4. y \in Activity /\ y.kind = act[a].kind /\ y.pc = "session"
          /\ y.regeneration = act[a].regeneration
      BY <2>3, Fields
    <2> HIDE DEF y
    <2>5. x \in Activity /\ x.kind = act[a].kind /\ x.pc = "session"
          /\ x.regeneration = act[a].regeneration
      BY <2>4, Fields
    <2> HIDE DEF x
    <2> QED BY <2>1, <2>5, MovesBy DEF c
  <1>11. ASSUME PromoteThrows(a)
         PROVE  Moves(a, act[a].kind, "session", act[a].regeneration)
    <2>1. act' = Cut([act EXCEPT ![a] = s], "probing") /\ draftHost' = None
      BY <1>11 DEF PromoteThrows, DropDraftHost
    <2> HIDE DEF s
    <2> QED BY <1>8, <2>1, MovesBy
  <1> QED BY <1>4, <1>5, <1>6, <1>7, <1>9, <1>10, <1>11

\* The triggers of a repair: the caller rests, or passed the breaker's test.
LEMMA TriggerMoves ==
  ASSUME TypeOK, NEW a \in Actors, CallFails(a) \/ OperationRejects(a)
  PROVE  /\ Softened(row, row')
         /\ \/ Moves(a, "read", "idle", 0)
            \/ /\ row.attempts < MaxRepairAttempts
               /\ \E k \in Kinds : Moves(a, k, "resolving", 0)
  <1>1. act[a] \in Activity /\ act \in [Actors -> Activity]
        /\ row \in Row /\ live \in Drafts \cup {None}
    BY DEF TypeOK
  <1>2. act' = [act EXCEPT ![a] = Idle] => Moves(a, "read", "idle", 0)
    BY MovesBy, IdleFacts DEF Moves
  <1>3. ASSUME NEW k \in Kinds, TriggerRepair(a, k)
        PROVE  /\ Softened(row, row')
               /\ \/ Moves(a, "read", "idle", 0)
                  \/ /\ row.attempts < MaxRepairAttempts
                     /\ Moves(a, k, "resolving", 0)
    <2> DEFINE r == recordFailure(row)
    <2>1. r \in Row /\ Softened(row, r) /\ r.attempts = row.attempts
      BY <1>1, RowFacts DEF Softened
    <2>2. \/ row' = r /\ act' = [act EXCEPT ![a] = Idle]
          \/ /\ row' = disable(r) \/ row' = disable(Pinned(r))
             /\ act' = [act EXCEPT ![a] = Idle]
          \/ /\ ~BreakerTrips(r) /\ row' = Pinned(r)
             /\ act' = [act EXCEPT ![a] = [Idle EXCEPT !.kind = k,
                                                       !.pc = "resolving"]]
      BY <1>3 DEF TriggerRepair
    <2> HIDE DEF r
    <2>3. Softened(r, disable(r)) /\ Softened(r, Pinned(r))
      BY <1>1, <2>1, RowFacts
    <2>4. Pinned(r) \in Row
      BY <2>3 DEF Softened
    <2>5. Softened(Pinned(r), disable(Pinned(r)))
      BY <1>1, <2>4, RowFacts
    <2>6. Softened(row, disable(r)) /\ Softened(row, Pinned(r))
          /\ Softened(row, disable(Pinned(r)))
      BY <2>1, <2>3, <2>5 DEF Softened
    <2>7. ASSUME act' = [act EXCEPT ![a] = [Idle EXCEPT !.kind = k,
                                                       !.pc = "resolving"]]
          PROVE  Moves(a, k, "resolving", 0)
      <3> DEFINE y == [Idle EXCEPT !.kind = k]
                 x == [y EXCEPT !.pc = "resolving"]
      <3>1. act' = [act EXCEPT ![a] = x]
        BY <2>7
      <3>2. y \in Activity /\ y.kind = k /\ y.regeneration = 0
        BY IdleFacts, Fields
      <3> HIDE DEF y
      <3>3. x \in Activity /\ x.kind = k /\ x.pc = "resolving"
            /\ x.regeneration = 0
        BY <3>2, Fields DEF PCs
      <3> HIDE DEF x
      <3> QED BY <3>1, <3>3, MovesBy DEF Moves
    <2>8. ~BreakerTrips(r) => row.attempts < MaxRepairAttempts
      BY <1>1, <2>1, Budgets DEF BreakerTrips, Row
    <2> QED BY <1>2, <2>1, <2>2, <2>6, <2>7, <2>8
  <1>4. CASE CallFails(a)
    <2>1. CASE act' = [act EXCEPT ![a] = Idle] /\ row' = row
      BY <1>1, <1>2, <2>1, RowFacts
    <2>2. CASE \E k \in Kinds : TriggerRepair(a, k)
      BY <1>3, <2>2
    <2>3. /\ act[a].kind \in Kinds /\ "detached" \in Kinds
      BY <1>1 DEF Activity, Kinds
    <2> QED BY <1>4, <2>1, <2>2, <2>3 DEF CallFails
  <1>5. CASE OperationRejects(a)
    <2>1. "detached" \in Kinds /\ TriggerRepair(a, "detached")
      BY <1>5 DEF OperationRejects, Kinds
    <2> QED BY <1>3, <2>1
  <1> QED BY <1>4, <1>5

\* Those that touch no actor, but for the sessions they wait for.
LEMMA OthersStay ==
  ASSUME TypeOK, HostReady \/ HostTimeout \/ Reap \/ NewTurn \/ EditOnDisk
                 \/ UNCHANGED vars
  PROVE  Stays
  <1>1. act \in [Actors -> Activity]
    BY DEF TypeOK
  <1>2. act' = act \/ act' = Cut(act, "host")
    BY DEF HostReady, HostTimeout, Reap, NewTurn, EditOnDisk, vars
  <1>3. CASE act' = act
    BY <1>1, <1>3 DEF Stays, Alike
  <1>4. CASE act' = Cut(act, "host")
    BY <1>1, <1>4, CutFacts DEF Stays, Alike
  <1> QED BY <1>2, <1>3, <1>4

LEMMA CrashMoves ==
  ASSUME Crash
  PROVE  /\ act' \in [Actors -> Activity]
         /\ \A b \in Actors : act'[b].pc = "idle" /\ act'[b].regeneration = 0
  BY IdleFacts DEF Crash

-----------------------------------------------------------------------------
(* What the moves keep                                                     *)

\* An inProgress mark has its flow, whatever moves.
LEMMA OwnerKept ==
  ASSUME LearnInv, InProgressHasOwner, act \in [Actors -> Activity],
         NEW a \in Actors, NEW k, NEW p, NEW g \in Nat, Moves(a, k, p, g),
         p = "locating" => k = "learn",
         g > 0 => k = "learn" /\ p \in Working,
         inProgress' => g > 0 \/ (inProgress /\ act[a].regeneration = 0)
  PROVE  LearnInv' /\ InProgressHasOwner'
  <1>1. LearnInv'
    BY DEF LearnInv, Moves, Alike
  <1>2. InProgressHasOwner'
    <2> SUFFICES ASSUME inProgress'
                 PROVE  \E b \in Actors : /\ act'[b].kind = "learn"
                                          /\ act'[b].regeneration > 0
      BY DEF InProgressHasOwner
    <2>1. CASE g > 0
      BY <2>1 DEF Moves
    <2>2. CASE inProgress /\ act[a].regeneration = 0
      <3>1. PICK b \in Actors : /\ act[b].kind = "learn"
                               /\ act[b].regeneration > 0
        BY <2>2 DEF InProgressHasOwner
      <3>2. b # a
        BY <2>2, <3>1
      <3> QED BY <3>1, <3>2 DEF Moves, Alike
    <2> QED BY <2>1, <2>2
  <1> QED BY <1>1, <1>2

\* A draft has its validation, whatever moves.
LEMMA DraftKept ==
  ASSUME NothingLeftOfADraft, NEW a \in Actors, NEW k, NEW p, NEW g,
         Moves(a, k, p, g),
         \/ draftHost' = None
         \/ p = "probing" /\ act'[a].on
         \/ p = "checking"
         \/ draftHost' = draftHost /\ act[a].pc \notin {"probing", "checking"},
         \/ staging' = None
         \/ p \in Drafting
         \/ /\ staging' = staging /\ (crashed => crashed')
            /\ act[a].pc \notin Drafting
  PROVE  NothingLeftOfADraft'
  <1>1. ASSUME draftHost' # None
        PROVE  \E b \in Actors : \/ act'[b].pc = "probing" /\ act'[b].on
                                 \/ act'[b].pc = "checking"
    <2>1. CASE (p = "probing" /\ act'[a].on) \/ p = "checking"
      BY <2>1 DEF Moves
    <2>2. CASE draftHost' = draftHost /\ act[a].pc \notin {"probing", "checking"}
      <3>1. PICK b \in Actors : \/ act[b].pc = "probing" /\ act[b].on
                               \/ act[b].pc = "checking"
        BY <1>1, <2>2 DEF NothingLeftOfADraft
      <3>2. b # a
        BY <2>2, <3>1
      <3> QED BY <1>1, <3>1, <3>2 DEF Moves, Alike
    <2> QED BY <1>1, <2>1, <2>2
  <1>2. ASSUME staging' # None, ~crashed'
        PROVE  \E b \in Actors : act'[b].pc \in Drafting
    <2>1. CASE p \in Drafting
      BY <2>1 DEF Moves
    <2>2. CASE staging' = staging /\ ~crashed /\ act[a].pc \notin Drafting
      <3>1. PICK b \in Actors : act[b].pc \in Drafting
        BY <1>2, <2>2 DEF NothingLeftOfADraft, Drafting
      <3>2. b # a
        BY <2>2, <3>1
      <3> QED BY <3>1, <3>2 DEF Moves, Alike
    <2> QED BY <1>2, <2>1, <2>2
  <1> QED BY <1>1, <1>2 DEF NothingLeftOfADraft, Drafting

\* The breaker's bound, whatever moves.
LEMMA BreakerKept ==
  ASSUME BreakerInv, row \in Row, row' \in Row,
         NEW a \in Actors, NEW k, NEW p, NEW g, Moves(a, k, p, g),
         \/ p # "resolving" /\ row'.attempts \in {0, row.attempts}
         \/ /\ p # "resolving" /\ act[a].pc = "resolving"
            /\ row'.attempts = row.attempts + 1
         \/ row'.attempts = row.attempts /\ row.attempts < MaxRepairAttempts
  PROVE  BreakerInv'
  <1>1. /\ IsFiniteSet(Actors) /\ IsFiniteSet(Resolving)
        /\ IsFiniteSet(Resolving') /\ Cardinality(Resolving') <= Cardinality(Actors)
    BY ActorsAssumption, FS_Subset DEF Resolving
  <1>2. /\ Cardinality(Actors) \in Nat /\ Cardinality(Resolving) \in Nat
        /\ Cardinality(Resolving') \in Nat
        /\ row.attempts \in Nat /\ row'.attempts \in Nat
    BY <1>1, FS_CardinalityType DEF Row
  <1>3. CASE row'.attempts = row.attempts /\ row.attempts < MaxRepairAttempts
    BY <1>1, <1>2, <1>3, Budgets DEF BreakerInv
  <1>4. CASE p # "resolving"
    <2>1. Resolving' = Resolving \ {a}
      BY <1>4 DEF Resolving, Moves, Alike
    <2>2. Cardinality(Resolving') = IF a \in Resolving
                                   THEN Cardinality(Resolving) - 1
                                   ELSE Cardinality(Resolving)
      BY <1>1, <2>1, FS_RemoveElement
    <2>3. act[a].pc = "resolving" => a \in Resolving
      BY DEF Resolving
    <2> QED BY <1>2, <1>3, <2>2, <2>3, Budgets DEF BreakerInv
  <1> QED BY <1>3, <1>4

\* And when nobody moves.
LEMMA StaysKept ==
  ASSUME LearnInv, InProgressHasOwner, NothingLeftOfADraft, BreakerInv, Stays,
         inProgress' = inProgress, staging' = staging, draftHost' = draftHost,
         crashed' = crashed, row'.attempts = row.attempts
  PROVE  LearnInv' /\ InProgressHasOwner' /\ NothingLeftOfADraft' /\ BreakerInv'
  <1>1. LearnInv'
    BY DEF LearnInv, Stays, Alike
  <1>2. InProgressHasOwner'
    BY DEF InProgressHasOwner, Stays, Alike
  <1>3. draftHost' # None =>
          \E b \in Actors : \/ act'[b].pc = "probing" /\ act'[b].on
                           \/ act'[b].pc = "checking"
    BY DEF NothingLeftOfADraft, Stays, Alike
  <1>4. staging' # None =>
          \/ \E b \in Actors : act'[b].pc \in {"listing", "probing", "checking"}
          \/ crashed'
    BY DEF NothingLeftOfADraft, Stays, Alike
  <1>5. Resolving' = Resolving
    BY DEF Resolving, Stays, Alike
  <1> QED BY <1>1, <1>2, <1>3, <1>4, <1>5 DEF NothingLeftOfADraft, BreakerInv

\* What becomes of the row in a step.
LEMMA RowSteps ==
  ASSUME TypeOK, [Next]_vars
  PROVE  \/ Softened(row, row')
         \/ \E a \in Actors : /\ StartRepair(a)
                             /\ row' \in Row
                             /\ row'.state = row.state /\ row'.hash = row.hash
                             /\ row'.attempts \in {row.attempts, row.attempts + 1}
         \/ \E a \in Actors : /\ Promote(a)
                             /\ row' \in Row
                             /\ row'.hash = staging /\ row'.attempts = 0
  <1>1. row \in Row /\ live \in Drafts \cup {None} /\ staging \in Drafts \cup {None}
    BY DEF TypeOK
  <1>2. /\ Softened(row, row) /\ Softened(row, recordSuccess(row))
        /\ Softened(row, disable(row)) /\ Softened(row, Pinned(row))
    BY <1>1, RowFacts
  <1>3. ASSUME NEW a \in Actors, StartRepair(a)
        PROVE  /\ row' \in Row
               /\ row'.state = row.state /\ row'.hash = row.hash
               /\ row'.attempts \in {row.attempts, row.attempts + 1}
    BY <1>1, <1>3 DEF StartRepair, incrementRepairAttempts, Row
  <1>4. ASSUME NEW a \in Actors, Promote(a)
        PROVE  row' \in Row /\ row'.hash = staging /\ row'.attempts = 0
    BY <1>1, <1>4, Budgets DEF Promote, promote, Row
  <1>5. ASSUME NEW a \in Actors, CallFails(a) \/ OperationRejects(a)
        PROVE  Softened(row, row')
    BY <1>5, TriggerMoves
  <1>6. ASSUME NEW a \in Actors,
               \/ BeginCall(a) \/ BeginRoute(a) \/ BeginLearn(a)
               \/ HostAnswers(a) \/ NoModel(a) \/ RepairEnds(a)
               \/ OperationEnds(a) \/ SessionRejects(a)
               \/ StartLearn(a) \/ Regenerate(a) \/ LearnEnds(a)
        PROVE  Softened(row, row')
    <2>1. row' \in {row, recordSuccess(row), disable(row), Pinned(row)}
      BY <1>6 DEF BeginCall, BeginPinned, BeginRoute, BeginLearn, HostAnswers,
                  NoModel, RepairEnds, OperationEnds, StartLearn, Regenerate,
                  LearnEnds, SessionRejects
    <2> QED BY <1>2, <2>1
  <1>7. ASSUME NEW a \in Actors,
               \/ Write(a) \/ WriteRejected(a) \/ Inspect(a) \/ Probed(a)
               \/ ValidationFails(a) \/ PromoteThrows(a)
        PROVE  row' = row
    BY <1>7 DEF Write, WriteRejected, Inspect, Probed, ValidationFails,
                PromoteThrows
  <1>8. HostReady \/ HostTimeout \/ Reap \/ NewTurn \/ EditOnDisk \/ Crash
          \/ UNCHANGED vars => row' = row
    BY DEF HostReady, HostTimeout, Reap, NewTurn, EditOnDisk, Crash, vars
  <1> QED BY <1>2, <1>3, <1>4, <1>5, <1>6, <1>7, <1>8 DEF Next, Proceed

\* What becomes of the files and the session of the live code.
LEMMA FileSteps ==
  ASSUME TypeOK, [Next]_vars
  PROVE  \/ /\ live' = live /\ touched' = touched
            /\ host' \in {host, None, Starting, live}
         \/ /\ live' = staging /\ host' = None
            /\ \E a \in Actors : Promote(a)
         \/ touched' /\ (EditOnDisk \/ Crash)
  <1>1. ASSUME NEW a \in Actors,
               \/ BeginCall(a) \/ BeginRoute(a) \/ BeginLearn(a)
               \/ Proceed(a) /\ ~Promote(a)
               \/ OperationEnds(a) \/ OperationRejects(a)
               \/ StartLearn(a) \/ Regenerate(a) \/ LearnEnds(a)
        PROVE  /\ live' = live /\ touched' = touched
               /\ host' \in {host, None, Starting, live}
    <2>1. CASE \/ BeginCall(a) \/ BeginRoute(a) \/ RepairEnds(a)
      BY <2>1 DEF BeginCall, BeginPinned, BeginRoute, Call, RepairEnds,
                  GetSession, files, history
    <2>2. CASE \/ BeginLearn(a) \/ HostAnswers(a) \/ CallFails(a) \/ NoModel(a)
               \/ StartRepair(a) \/ OperationEnds(a) \/ OperationRejects(a)
               \/ StartLearn(a) \/ Regenerate(a) \/ LearnEnds(a)
               \/ SessionRejects(a)
      BY <2>2 DEF BeginLearn, HostAnswers, CallFails, NoModel, StartRepair,
                  OperationEnds, OperationRejects, StartLearn, Regenerate,
                  LearnEnds, SessionRejects, files, sessions, history
    <2>3. CASE \/ Write(a) \/ WriteRejected(a) \/ Inspect(a) \/ Probed(a)
               \/ ValidationFails(a) \/ PromoteThrows(a)
      BY <2>3 DEF Write, WriteRejected, Inspect, Probed, ValidationFails,
                  PromoteThrows, files, sessions, history
    <2> QED BY <1>1, <2>1, <2>2, <2>3 DEF Proceed
  <1>2. ASSUME NEW a \in Actors, Promote(a)
        PROVE  live' = staging /\ host' = None
    BY <1>2 DEF Promote
  <1>3. HostReady \/ HostTimeout \/ Reap \/ NewTurn \/ UNCHANGED vars =>
          /\ live' = live /\ touched' = touched
          /\ host' \in {host, None, Starting, live}
    BY DEF HostReady, HostTimeout, Reap, NewTurn, vars, files, sessions, history
  <1>4. EditOnDisk => touched'
    BY DEF EditOnDisk
  <1>5. Crash => touched' \/ (live' = live /\ touched' = touched /\ host' = None)
    BY DEF Crash, files
  <1> QED BY <1>1, <1>2, <1>3, <1>4, <1>5 DEF Next

LEMMA PinKept ==
  ASSUME TypeOK, PinMatchesDisk, SessionRunsPromotedCode, [Next]_vars
  PROVE  PinMatchesDisk' /\ SessionRunsPromotedCode'
  <1>0. None \notin Drafts /\ Starting \notin Drafts
    BY DraftsAssumption
  <1>1. CASE touched'
    BY <1>1 DEF PinMatchesDisk, SessionRunsPromotedCode
  <1>2. CASE \E a \in Actors : Promote(a)
    <2>1. PICK a \in Actors : Promote(a)
      BY <1>2
    <2>2. row'.hash = staging /\ live' = staging /\ host' = None
      BY <2>1 DEF Promote, promote
    <2> QED BY <1>0, <2>2 DEF PinMatchesDisk, SessionRunsPromotedCode
  <1>3. CASE /\ live' = live /\ touched' = touched
             /\ host' \in {host, None, Starting, live}
             /\ ~\E a \in Actors : Promote(a)
    <2>1. SessionRunsPromotedCode'
      BY <1>0, <1>3 DEF SessionRunsPromotedCode
    <2>2. /\ row'.state \in {row.state, "disabled"}
          /\ row'.hash \in {row.hash, live}
      BY <1>3, RowSteps DEF Softened
    <2> QED BY <1>3, <2>1, <2>2 DEF PinMatchesDisk
  <1> QED BY <1>1, <1>2, <1>3, FileSteps

\* What an actor's step keeps of the flows, the drafts and the breaker.
FlowInv == LearnInv /\ InProgressHasOwner /\ NothingLeftOfADraft /\ BreakerInv

\* A step of one actor that leaves a mark, a draft and the count alone.
LEMMA PlainMove ==
  ASSUME TypeOK, FlowInv, row' \in Row, NEW a \in Actors, NEW k, NEW p,
         Moves(a, k, p, 0), act[a].regeneration = 0,
         p = "locating" => k = "learn",
         act[a].pc \notin Drafting,
         inProgress' => inProgress,
         draftHost' = draftHost, staging' = staging, crashed' = crashed,
         \/ p # "resolving" /\ row'.attempts = row.attempts
         \/ /\ p # "resolving" /\ act[a].pc = "resolving"
            /\ row'.attempts = row.attempts + 1
         \/ row'.attempts = row.attempts /\ row.attempts < MaxRepairAttempts
  PROVE  FlowInv'
  <1>1. act \in [Actors -> Activity] /\ row \in Row /\ 0 \in Nat
    BY DEF TypeOK
  <1>2. LearnInv' /\ InProgressHasOwner'
    BY <1>1, OwnerKept DEF FlowInv
  <1>3. NothingLeftOfADraft'
    BY DraftKept DEF FlowInv, Drafting
  <1>4. BreakerInv'
    BY <1>1, BreakerKept DEF FlowInv
  <1> QED BY <1>2, <1>3, <1>4 DEF FlowInv

\* A step of one writer.
LEMMA WriterMove ==
  ASSUME TypeOK, FlowInv, row' \in Row, NEW a \in Actors, NEW p \in Working,
         Moves(a, act[a].kind, p, act[a].regeneration),
         inProgress' = inProgress, row'.attempts \in {0, row.attempts},
         \/ draftHost' = None
         \/ p = "probing" /\ act'[a].on
         \/ p = "checking"
         \/ draftHost' = draftHost /\ act[a].pc \notin {"probing", "checking"},
         staging' = None \/ p \in Drafting
  PROVE  FlowInv'
  <1>1. act \in [Actors -> Activity] /\ row \in Row
    BY DEF TypeOK
  <1>2. act[a].regeneration \in Nat
    BY <1>1, Budgets DEF Activity
  <1>3. p # "locating" /\ p # "resolving"
    BY DEF Working
  <1>4. act[a].regeneration > 0 => act[a].kind = "learn"
    BY DEF FlowInv, LearnInv
  <1>5. act[a].regeneration > 0 \/ act[a].regeneration = 0
    BY <1>2
  <1>6. LearnInv' /\ InProgressHasOwner'
    BY <1>1, <1>2, <1>3, <1>4, <1>5, OwnerKept DEF FlowInv
  <1>7. NothingLeftOfADraft'
    BY DraftKept DEF FlowInv
  <1>8. BreakerInv'
    BY <1>1, <1>3, BreakerKept DEF FlowInv
  <1> QED BY <1>6, <1>7, <1>8 DEF FlowInv

LEMMA ActorKeepsFlow ==
  ASSUME TypeOK, FlowInv, [Next]_vars, NEW a \in Actors,
         \/ BeginCall(a) \/ BeginRoute(a) \/ BeginLearn(a)
         \/ Proceed(a)
         \/ OperationEnds(a) \/ OperationRejects(a)
         \/ StartLearn(a) \/ Regenerate(a) \/ LearnEnds(a)
  PROVE  FlowInv' /\ act' \in [Actors -> Activity]
  <1>1. act[a] \in Activity /\ act \in [Actors -> Activity] /\ row \in Row
        /\ act[a].regeneration \in Nat
    BY Budgets DEF TypeOK, Activity
  <1>2. act[a].pc \notin Working => act[a].regeneration = 0
    BY <1>1 DEF FlowInv, LearnInv
  <1>3. act[a].kind # "learn" => act[a].regeneration = 0
    BY <1>1 DEF FlowInv, LearnInv
  <1>4. row' \in Row
    BY RowSteps DEF Softened
  <1>5. CASE BeginCall(a)
    <2>1. /\ act[a].pc = "idle" /\ inProgress' = inProgress
          /\ draftHost' = draftHost /\ staging' = staging /\ crashed' = crashed
      BY <1>5 DEF BeginCall, BeginPinned, files, history
    <2>2. row'.attempts = row.attempts
      <3>1. row' \in {disable(row), Pinned(row)}
        BY <1>5 DEF BeginCall, BeginPinned
      <3> QED BY <3>1, <1>1, RowFacts DEF Softened, TypeOK
    <2>3. CASE Stays
      BY <2>1, <2>2, <2>3, StaysKept DEF FlowInv, Stays
    <2>4. ASSUME NEW k \in {"read", "op", "probe"}, Moves(a, k, "host", 0)
          PROVE  FlowInv' /\ act' \in [Actors -> Activity]
      <3>1. act[a].regeneration = 0 /\ act[a].pc \notin Drafting
        BY <1>2, <2>1 DEF Working, Drafting
      <3> QED BY <1>4, <2>1, <2>2, <2>4, <3>1, PlainMove DEF Moves
    <2> QED BY <1>5, <2>3, <2>4, CallMoves
  <1>6. CASE BeginRoute(a) \/ BeginLearn(a)
    <2>1. /\ act[a].pc = "idle" /\ inProgress' = inProgress /\ row' = row
          /\ draftHost' = draftHost /\ staging' = staging /\ crashed' = crashed
      BY <1>6 DEF BeginRoute, BeginLearn, files, sessions, history
    <2>2. act[a].regeneration = 0 /\ act[a].pc \notin Drafting
      BY <1>2, <2>1 DEF Working, Drafting
    <2>3. Moves(a, "route", "host", 0) \/ Moves(a, "learn", "locating", 0)
      BY <1>6, CallMoves, FlowMoves
    <2>4. CASE Moves(a, "route", "host", 0)
      BY <1>4, <2>1, <2>2, <2>4, PlainMove DEF Moves
    <2>5. CASE Moves(a, "learn", "locating", 0)
      BY <1>4, <2>1, <2>2, <2>5, PlainMove DEF Moves
    <2> QED BY <2>3, <2>4, <2>5
  <1>7. CASE HostAnswers(a) \/ OperationEnds(a) \/ NoModel(a)
    <2>1. /\ act[a].pc \in {"host", "operating", "resolving", "locating"}
          /\ inProgress' = inProgress /\ row' \in {row, recordSuccess(row)}
          /\ draftHost' = draftHost /\ staging' = staging /\ crashed' = crashed
      BY <1>7 DEF HostAnswers, Waiting, OperationEnds, NoModel, files,
                  sessions, history
    <2>2. act[a].regeneration = 0 /\ act[a].pc \notin Drafting
      BY <1>2, <2>1 DEF Working, Drafting
    <2>3. row'.attempts = row.attempts
      BY <1>1, <2>1, RowFacts DEF Softened, TypeOK
    <2>4. Moves(a, act[a].kind, "operating", 0) \/ Moves(a, "read", "idle", 0)
      BY <1>7, <2>2, CallMoves
    <2>5. CASE Moves(a, act[a].kind, "operating", 0)
      BY <1>4, <2>1, <2>2, <2>3, <2>5, PlainMove DEF Moves
    <2>6. CASE Moves(a, "read", "idle", 0)
      BY <1>4, <2>1, <2>2, <2>3, <2>6, PlainMove DEF Moves
    <2> QED BY <2>4, <2>5, <2>6
  <1>8. CASE CallFails(a) \/ OperationRejects(a)
    <2>1. /\ act[a].pc \in {"host", "operating"} /\ inProgress' = inProgress
          /\ draftHost' = draftHost /\ staging' = staging /\ crashed' = crashed
      BY <1>8 DEF CallFails, OperationRejects, files, sessions, history
    <2>2. act[a].regeneration = 0 /\ act[a].pc \notin Drafting
      BY <1>2, <2>1 DEF Working, Drafting
    <2>3. row'.attempts = row.attempts
      BY <1>8, TriggerMoves DEF Softened
    <2>4. CASE Moves(a, "read", "idle", 0)
      BY <1>4, <2>1, <2>2, <2>3, <2>4, PlainMove DEF Moves
    <2>5. ASSUME NEW k \in Kinds, row.attempts < MaxRepairAttempts,
                 Moves(a, k, "resolving", 0)
          PROVE  FlowInv' /\ act' \in [Actors -> Activity]
      BY <1>4, <2>1, <2>2, <2>3, <2>5, PlainMove DEF Moves
    <2> QED BY <1>8, <2>4, <2>5, TriggerMoves
  <1>9. CASE StartRepair(a)
    <2>1. /\ act[a].pc = "resolving" /\ inProgress' = inProgress
          /\ draftHost' = draftHost /\ staging' = staging /\ crashed' = crashed
          /\ row'.attempts \in {row.attempts, row.attempts + 1}
      BY <1>1, <1>9 DEF StartRepair, incrementRepairAttempts, Row, files,
                        sessions, history
    <2>2. act[a].regeneration = 0 /\ act[a].pc \notin Drafting
      BY <1>2, <2>1 DEF Working, Drafting
    <2>3. Moves(a, act[a].kind, "session", 0)
      BY <1>9, <2>2, FlowMoves
    <2> QED BY <1>4, <2>1, <2>2, <2>3, PlainMove DEF Moves
  <1>10. CASE RepairEnds(a)
    <2>1. /\ act[a].pc = "session" /\ act[a].kind # "learn"
          /\ inProgress' = inProgress /\ row' \in {row, disable(row)}
          /\ draftHost' = draftHost /\ staging' = staging /\ crashed' = crashed
      BY <1>10 DEF RepairEnds, files, history
    <2>2. act[a].regeneration = 0 /\ act[a].pc \notin Drafting
      BY <1>3, <2>1 DEF Drafting
    <2>3. row'.attempts = row.attempts
      BY <1>1, <2>1, RowFacts DEF Softened, TypeOK
    <2>4. CASE Moves(a, "read", "host", 0)
      BY <1>4, <2>1, <2>2, <2>3, <2>4, PlainMove DEF Moves
    <2>5. CASE Moves(a, "read", "idle", 0)
      BY <1>4, <2>1, <2>2, <2>3, <2>5, PlainMove DEF Moves
    <2> QED BY <1>10, <2>4, <2>5, CallMoves
  <1>11. CASE StartLearn(a) \/ Regenerate(a)
    <2> DEFINE g == IF StartLearn(a) THEN 1 ELSE act[a].regeneration + 1
    <2>1. /\ act[a].kind = "learn"
          /\ draftHost' = draftHost /\ staging' = staging /\ crashed' = crashed
          /\ row' = row
      BY <1>11 DEF StartLearn, Regenerate, FlowInv, LearnInv, files, sessions,
                   history
    <2>2. act[a].pc \notin Drafting /\ act[a].pc # "resolving"
      BY <1>11 DEF StartLearn, Regenerate, Drafting
    <2>3. Moves(a, "learn", "session", g)
      <3>1. CASE StartLearn(a)
        BY <2>1, <3>1, FlowMoves DEF Moves
      <3>2. CASE Regenerate(a) /\ ~StartLearn(a)
        <4>1. act[a].pc = "session"
          BY <3>2 DEF Regenerate
        <4> QED BY <2>1, <3>2, <4>1, FlowMoves DEF Moves
      <3> QED BY <1>11, <3>1, <3>2
    <2>4. g \in Nat /\ g > 0
      BY <1>1
    <2> HIDE DEF g
    <2>5. LearnInv' /\ InProgressHasOwner'
      BY <1>1, <2>3, <2>4, OwnerKept DEF FlowInv, Working
    <2>6. NothingLeftOfADraft'
      BY <2>1, <2>2, <2>3, DraftKept DEF FlowInv, Drafting
    <2>7. BreakerInv'
      BY <1>1, <1>4, <2>1, <2>3, BreakerKept DEF FlowInv
    <2> QED BY <2>3, <2>5, <2>6, <2>7 DEF FlowInv, Moves
  <1>12. CASE LearnEnds(a)
    <2>1. /\ inProgress' = FALSE /\ act[a].pc = "session"
          /\ draftHost' = draftHost /\ staging' = staging /\ crashed' = crashed
          /\ row' = row
      BY <1>12 DEF LearnEnds, files, sessions, history
    <2>2. Moves(a, "read", "idle", 0)
      BY <1>12, CallMoves
    <2>3. LearnInv' /\ InProgressHasOwner'
      BY <1>1, <2>1, <2>2, OwnerKept DEF FlowInv
    <2>4. NothingLeftOfADraft'
      BY <2>1, <2>2, DraftKept DEF FlowInv, Drafting
    <2>5. BreakerInv'
      BY <1>1, <1>4, <2>1, <2>2, BreakerKept DEF FlowInv
    <2> QED BY <2>2, <2>3, <2>4, <2>5 DEF FlowInv, Moves
  <1>13. CASE Write(a) \/ WriteRejected(a)
    <2>1. /\ act[a].pc = "session" /\ inProgress' = inProgress /\ row' = row
          /\ Write(a) => draftHost' = draftHost
          /\ WriteRejected(a) => draftHost' = None /\ staging' = None
      BY <1>13 DEF Write, WriteRejected, DropDraftHost, sessions
    <2>2. \/ /\ Moves(a, act[a].kind, "listing", act[a].regeneration)
             /\ Write(a)
          \/ /\ Moves(a, act[a].kind, "session", act[a].regeneration)
             /\ WriteRejected(a)
      BY <1>13, <2>1, WriteMoves
    <2>3. "listing" \in Working /\ "session" \in Working /\ "listing" \in Drafting
      BY DEF Working, Drafting
    <2> QED BY <1>4, <2>1, <2>2, <2>3, WriterMove DEF Moves
  <1>14. CASE Inspect(a) \/ Probed(a)
    <2>1. inProgress' = inProgress /\ row' = row
      BY <1>14 DEF Inspect, Probed
    <2>2. \/ /\ Moves(a, act[a].kind, "probing", act[a].regeneration)
             /\ act'[a].on
          \/ Moves(a, act[a].kind, "checking", act[a].regeneration)
      BY <1>14, WriteMoves
    <2>3. /\ "probing" \in Working /\ "checking" \in Working
          /\ "probing" \in Drafting /\ "checking" \in Drafting
      BY DEF Working, Drafting
    <2> QED BY <1>4, <2>1, <2>2, <2>3, WriterMove DEF Moves
  <1>15. CASE ValidationFails(a) \/ Promote(a) \/ PromoteThrows(a)
    <2>1. /\ inProgress' = inProgress /\ staging' = None /\ draftHost' = None
          /\ row' = row \/ row'.attempts = 0
      BY <1>15 DEF ValidationFails, Promote, PromoteThrows, DropDraftHost,
                   promote, files
    <2>2. Moves(a, act[a].kind, "session", act[a].regeneration)
      BY <1>15, WriteMoves
    <2>3. "session" \in Working
      BY DEF Working
    <2> QED BY <1>4, <2>1, <2>2, <2>3, WriterMove DEF Moves
  <1>16. CASE SessionRejects(a)
    <2>1. /\ act[a].pc = "session" /\ row' = row
          /\ inProgress' = (inProgress /\ act[a].kind # "learn")
          /\ draftHost' = draftHost /\ staging' = staging /\ crashed' = crashed
      BY <1>16 DEF SessionRejects, files, sessions, history
    <2>2. Moves(a, "read", "idle", 0)
      BY <1>16, CallMoves
    <2>3. CASE act[a].kind = "learn"
      <3>1. ~inProgress'
        BY <2>1, <2>3
      <3>2. LearnInv' /\ InProgressHasOwner'
        BY <1>1, <2>2, <3>1, OwnerKept DEF FlowInv
      <3>3. NothingLeftOfADraft'
        BY <2>1, <2>2, DraftKept DEF FlowInv, Drafting
      <3>4. BreakerInv'
        BY <1>1, <1>4, <2>1, <2>2, BreakerKept DEF FlowInv
      <3> QED BY <2>2, <3>2, <3>3, <3>4 DEF FlowInv, Moves
    <2>4. CASE act[a].kind # "learn"
      <3>1. act[a].regeneration = 0 /\ act[a].pc \notin Drafting
        BY <1>3, <2>1, <2>4 DEF Drafting
      <3>2. inProgress' => inProgress
        BY <2>1
      <3> QED BY <1>4, <2>1, <2>2, <3>1, <3>2, PlainMove DEF Moves
    <2> QED BY <2>3, <2>4
  <1> QED BY <1>5, <1>6, <1>7, <1>8, <1>9, <1>10, <1>11, <1>12, <1>13, <1>14,
             <1>15, <1>16 DEF Proceed

LEMMA OthersKeepFlow ==
  ASSUME TypeOK, FlowInv,
         \/ HostReady \/ HostTimeout \/ Reap \/ NewTurn \/ EditOnDisk \/ Crash
         \/ UNCHANGED vars
  PROVE  FlowInv' /\ act' \in [Actors -> Activity]
  <1>1. CASE Crash
    <2>1. /\ act' \in [Actors -> Activity]
          /\ \A b \in Actors : act'[b].pc = "idle" /\ act'[b].regeneration = 0
      BY <1>1, CrashMoves
    <2>2. /\ inProgress' = FALSE /\ draftHost' = None /\ crashed' /\ row' = row
      BY <1>1 DEF Crash
    <2>3. LearnInv'
      BY <2>1 DEF LearnInv
    <2>4. InProgressHasOwner' /\ NothingLeftOfADraft'
      BY <2>2 DEF InProgressHasOwner, NothingLeftOfADraft
    <2>5. BreakerInv'
      <3>1. /\ IsFiniteSet(Resolving) /\ Cardinality(Actors) \in Nat
            /\ Cardinality(Resolving) \in Nat
        BY ActorsAssumption, FS_Subset, FS_CardinalityType DEF Resolving
      <3>2. Resolving' = {}
        BY <2>1 DEF Resolving
      <3>3. row.attempts \in Nat
        BY DEF TypeOK, Row
      <3> QED BY <2>2, <3>1, <3>2, <3>3, FS_EmptySet, Budgets
                 DEF FlowInv, BreakerInv
    <2> QED BY <2>1, <2>3, <2>4, <2>5 DEF FlowInv
  <1>2. CASE \/ HostReady \/ HostTimeout \/ Reap \/ NewTurn \/ EditOnDisk
             \/ UNCHANGED vars
    <2>1. Stays
      BY <1>2, OthersStay
    <2>2. /\ inProgress' = inProgress /\ staging' = staging /\ row' = row
          /\ draftHost' = draftHost /\ crashed' = crashed
      BY <1>2 DEF HostReady, HostTimeout, Reap, NewTurn, EditOnDisk, vars,
                  files, sessions, history
    <2> QED BY <2>1, <2>2, StaysKept DEF FlowInv, Stays
  <1> QED BY <1>1, <1>2

-----------------------------------------------------------------------------
(* The invariant                                                           *)

LEMMA TypeKept ==
  ASSUME TypeOK, FlowInv, [Next]_vars
  PROVE  TypeOK' /\ FlowInv'
  <1>1. FlowInv' /\ act' \in [Actors -> Activity]
    BY ActorKeepsFlow, OthersKeepFlow DEF Next
  <1>2. row' \in Row
    BY RowSteps DEF Softened
  <1>3. host' \in Drafts \cup {None, Starting} /\ live' \in Drafts \cup {None}
    BY FileSteps DEF TypeOK, EditOnDisk, Crash, sessions, files
  <1>4. staging' \in Drafts \cup {None} /\ draftHost' \in Drafts \cup {None}
        /\ inProgress' \in BOOLEAN /\ wired' \in BOOLEAN
        /\ touched' \in BOOLEAN /\ crashed' \in BOOLEAN
    <2>1. ASSUME NEW a \in Actors,
                 \/ BeginCall(a) \/ BeginRoute(a) \/ BeginLearn(a)
                 \/ HostAnswers(a) \/ CallFails(a) \/ NoModel(a)
                 \/ StartRepair(a) \/ RepairEnds(a)
                 \/ OperationEnds(a) \/ OperationRejects(a)
                 \/ StartLearn(a) \/ Regenerate(a) \/ LearnEnds(a)
                 \/ SessionRejects(a)
          PROVE  /\ staging' = staging /\ draftHost' = draftHost
                 /\ inProgress' \in BOOLEAN /\ wired' \in BOOLEAN
                 /\ touched' = touched /\ crashed' = crashed
      BY <2>1 DEF TypeOK, BeginCall, BeginPinned, BeginRoute, BeginLearn,
                  HostAnswers, CallFails, NoModel, StartRepair, RepairEnds,
                  OperationEnds, OperationRejects, StartLearn, Regenerate,
                  LearnEnds, SessionRejects, files, sessions, history
    <2>2. ASSUME NEW a \in Actors,
                 \/ Write(a) \/ WriteRejected(a) \/ Inspect(a) \/ Probed(a)
                 \/ ValidationFails(a) \/ Promote(a) \/ PromoteThrows(a)
          PROVE  /\ staging' \in Drafts \cup {None}
                 /\ draftHost' \in {draftHost, staging, None}
                 /\ inProgress' = inProgress /\ wired' = wired
                 /\ touched' \in BOOLEAN /\ crashed' = crashed
      BY <2>2 DEF TypeOK, Write, WriteRejected, Inspect, Probed,
                  ValidationFails, Promote, PromoteThrows, DropDraftHost,
                  files, sessions, history
    <2>3. ASSUME \/ HostReady \/ HostTimeout \/ Reap \/ NewTurn \/ EditOnDisk
                 \/ Crash \/ UNCHANGED vars
          PROVE  /\ staging' \in {staging, None}
                 /\ draftHost' \in {draftHost, None}
                 /\ inProgress' \in BOOLEAN /\ wired' \in BOOLEAN
                 /\ touched' \in BOOLEAN /\ crashed' \in BOOLEAN
      BY <2>3 DEF TypeOK, HostReady, HostTimeout, Reap, NewTurn, EditOnDisk,
                  Crash, vars, files, sessions, history
    <2> QED BY <2>1, <2>2, <2>3 DEF TypeOK, Next, Proceed
  <1>5. faults' \in 0..MaxFaults
    <2>1. faults' = faults \/ (faults < MaxFaults /\ faults' = faults + 1)
      <3>1. ASSUME NEW a \in Actors,
                   \/ BeginCall(a) \/ BeginRoute(a) \/ BeginLearn(a)
                   \/ Proceed(a)
                   \/ OperationEnds(a) \/ OperationRejects(a)
                   \/ StartLearn(a) \/ Regenerate(a) \/ LearnEnds(a)
            PROVE  faults' = faults
        BY <3>1 DEF Proceed, BeginCall, BeginPinned, BeginRoute, BeginLearn,
                    HostAnswers, CallFails, NoModel, StartRepair, RepairEnds,
                    OperationEnds, OperationRejects, StartLearn, Regenerate,
                    LearnEnds, SessionRejects, Write, WriteRejected, Inspect, Probed,
                    ValidationFails, Promote, PromoteThrows, history
      <3> QED BY <3>1 DEF Next, HostReady, HostTimeout, Reap, NewTurn,
                 EditOnDisk, Crash, vars, history
    <2> QED BY <2>1, Budgets DEF TypeOK
  <1> QED BY <1>1, <1>2, <1>3, <1>4, <1>5 DEF TypeOK

LEMMA InitExtInv == Init => ExtInv
  <1> SUFFICES ASSUME Init PROVE ExtInv
    OBVIOUS
  <1>1. act = [a \in Actors |-> Idle] /\ act \in [Actors -> Activity]
        /\ \A a \in Actors : act[a] = Idle
    BY IdleFacts DEF Init
  <1>2. /\ row \in Row /\ row.attempts = 0
        /\ row.state = "enabled" => row.hash \in {None, live}
        /\ live \in Drafts \cup {None}
    <2>1. NoRow \in Row /\ NoRow.attempts = 0 /\ NoRow.state = "none"
      BY Budgets DEF NoRow, Row
    <2>2. ASSUME NEW d \in Good, NEW h \in Drafts \cup {None}, h \in {d, None}
          PROVE  LET r == [NoRow EXCEPT !.state = "enabled", !.hash = h]
                 IN r \in Row /\ r.attempts = 0 /\ r.hash = h
      <3> DEFINE y == [NoRow EXCEPT !.state = "enabled"]
                 x == [y EXCEPT !.hash = h]
      <3>1. y \in Row /\ y.attempts = 0
        BY <2>1 DEF Row
      <3> HIDE DEF y
      <3>2. x \in Row /\ x.attempts = 0 /\ x.hash = h
        BY <3>1 DEF Row
      <3> QED BY <3>2 DEF y
    <2>3. Good \subseteq Drafts
      BY DraftsAssumption
    <2> QED BY <2>1, <2>2, <2>3 DEF Init
  <1>3. TypeOK
    <2>1. faults \in 0..MaxFaults
      <3>1. faults = 0
        BY DEF Init
      <3> QED BY <3>1, Budgets
    <2>2. /\ staging = None /\ host = None /\ draftHost = None
          /\ inProgress = FALSE /\ wired = FALSE
          /\ touched = FALSE /\ crashed = FALSE
      BY DEF Init
    <2> QED BY <1>1, <1>2, <2>1, <2>2 DEF TypeOK
  <1>4. PinMatchesDisk /\ SessionRunsPromotedCode /\ InProgressHasOwner
        /\ NothingLeftOfADraft
    BY <1>2, DraftsAssumption DEF Init, PinMatchesDisk,
       SessionRunsPromotedCode, InProgressHasOwner, NothingLeftOfADraft
  <1>5. LearnInv
    BY <1>1, IdleFacts DEF LearnInv
  <1>6. BreakerInv
    <2>1. Resolving = {}
      BY <1>1, IdleFacts DEF Resolving
    <2>2. Cardinality(Actors) \in Nat /\ Cardinality(Actors) # 0
      BY ActorsAssumption, FS_CardinalityType, FS_EmptySet
    <2> QED BY <1>2, <2>1, <2>2, FS_EmptySet, Budgets DEF BreakerInv
  <1> QED BY <1>3, <1>4, <1>5, <1>6 DEF ExtInv

\* ExtInv holds in every reachable state.
THEOREM ExtInvariance == Spec => []ExtInv
  <1>1. ExtInv /\ [Next]_vars => ExtInv'
    BY TypeKept, PinKept DEF ExtInv, FlowInv
  <1> QED BY InitExtInv, <1>1, PTL DEF Spec

\* TypeOK of the row, the files, the sessions and what the actors do.
THEOREM ExtTypeCorrect == Spec => []TypeOK
  <1>1. ExtInv => TypeOK
    BY DEF ExtInv
  <1> QED BY ExtInvariance, <1>1, PTL

\* PinMatchesDisk: hashing, renaming and promoting without an await between
\* keep the pin true, whoever overlaps.
THEOREM PinIsTrue == Spec => []PinMatchesDisk
  <1>1. ExtInv => PinMatchesDisk
    BY DEF ExtInv
  <1> QED BY ExtInvariance, <1>1, PTL

\* SessionRunsPromotedCode: hostMgr.invalidate in every promotion leaves no
\* process of an older version.
THEOREM NoStaleSession == Spec => []SessionRunsPromotedCode
  <1>1. ExtInv => SessionRunsPromotedCode
    BY DEF ExtInv
  <1> QED BY ExtInvariance, <1>1, PTL

\* AttemptsBounded: the circuit breaker, though it is tested before an await
\* and the count raised after it, bounds the repairs of one version.
THEOREM BreakerBounds == Spec => []AttemptsBounded
  <1>1. ExtInv => AttemptsBounded
    <2> SUFFICES ASSUME ExtInv PROVE AttemptsBounded
      OBVIOUS
    <2>1. Cardinality(Resolving) \in Nat /\ Cardinality(Actors) \in Nat
      BY ActorsAssumption, FS_Subset, FS_CardinalityType DEF Resolving
    <2>2. row.attempts \in Nat
      BY DEF ExtInv, TypeOK, Row
    <2> QED BY <2>1, <2>2, Budgets DEF ExtInv, BreakerInv, AttemptsBounded
  <1> QED BY ExtInvariance, <1>1, PTL

\* InProgressHasOwner: learn.ts takes the app out again in a finally.
THEOREM NoLockOut == Spec => []InProgressHasOwner
  <1>1. ExtInv => InProgressHasOwner
    BY DEF ExtInv
  <1> QED BY ExtInvariance, <1>1, PTL

\* NothingLeftOfADraft: every end of a validation discards the directory and
\* drops the session.
THEOREM DraftsAreDiscarded == Spec => []NothingLeftOfADraft
  <1>1. ExtInv => NothingLeftOfADraft
    BY DEF ExtInv
  <1> QED BY ExtInvariance, <1>1, PTL

-----------------------------------------------------------------------------
(* Without two validations at a time                                       *)

\* No two writers have a draft under validation.
OneValidation ==
  \A a, b \in Actors : act[a].pc \in Drafting /\ act[b].pc \in Drafting => a = b

\* What is staged is what the probes run against, and after them it is good.
CheckedInv ==
  \A a \in Actors :
    /\ act[a].pc = "probing" /\ act[a].on => staging \in {draftHost, None}
    /\ act[a].pc = "checking" => staging \in Good \cup {None}

\* A step that leaves the draft alone, and nobody with one.
LEMMA CheckedKept ==
  ASSUME CheckedInv, staging' = staging, draftHost' = draftHost,
         \/ Stays
         \/ \E a \in Actors : \E k, p, g : /\ Moves(a, k, p, g)
                                          /\ p \notin {"probing", "checking"}
  PROVE  CheckedInv'
  <1>1. ASSUME NEW b \in Actors, Alike(act'[b], act[b])
        PROVE  /\ act'[b].pc = "probing" /\ act'[b].on
                    => staging' \in {draftHost', None}
               /\ act'[b].pc = "checking" => staging' \in Good \cup {None}
    <2>1. CASE act'[b].on => act[b].on
      BY <1>1, <2>1 DEF Alike, CheckedInv
    <2>2. CASE ~(act'[b].on => act[b].on)
      BY <1>1, <2>2 DEF Alike, CheckedInv
    <2> QED BY <2>1, <2>2
  <1>2. CASE Stays
    BY <1>1, <1>2 DEF Stays, CheckedInv
  <1>3. ASSUME NEW a \in Actors, NEW k, NEW p, NEW g, Moves(a, k, p, g),
               p \notin {"probing", "checking"}
        PROVE  CheckedInv'
    BY <1>1, <1>3 DEF Moves, CheckedInv
  <1> QED BY <1>2, <1>3

\* A step of the one who validates.
LEMMA ValidationKept ==
  ASSUME TypeOK, NothingLeftOfADraft, CheckedInv, OneValidation, OneValidation',
         NEW a \in Actors, Write(a) \/ Inspect(a) \/ Probed(a)
  PROVE  CheckedInv'
  <1>1. act'[a].pc \in Drafting
    BY WriteMoves DEF Moves, Drafting
  <1>2. \A b \in Actors \ {a} : act'[b].pc \notin Drafting
    BY <1>1 DEF OneValidation
  <1>3. /\ act'[a].pc = "probing" /\ act'[a].on => staging' \in {draftHost', None}
        /\ act'[a].pc = "checking" => staging' \in Good \cup {None}
    <2>1. CASE Write(a)
      BY <2>1, WriteMoves DEF Moves
    <2>2. CASE Inspect(a)
      <3>1. act[a].pc = "listing"
        BY <2>2 DEF Inspect
      <3>2. draftHost = None
        BY <3>1 DEF NothingLeftOfADraft, OneValidation, Drafting
      <3>3. draftHost' = staging /\ staging' = staging
        BY <2>2, <3>2 DEF Inspect, files
      <3>4. act'[a].pc = "probing"
        BY <2>2, WriteMoves DEF Moves
      <3> QED BY <3>3, <3>4
    <2>3. CASE Probed(a)
      <3>1. staging \in {draftHost, None} /\ draftHost \in Good
        BY <2>3 DEF Probed, CheckedInv
      <3>2. staging' = staging /\ act'[a].pc = "checking"
        BY <2>3, WriteMoves DEF Probed, files, Moves
      <3> QED BY <3>1, <3>2
    <2> QED BY <2>1, <2>2, <2>3
  <1> QED BY <1>2, <1>3 DEF CheckedInv, Drafting

LEMMA CheckedStep ==
  ASSUME TypeOK, LearnInv, NothingLeftOfADraft, CheckedInv,
         OneValidation, OneValidation', [Next]_vars
  PROVE  CheckedInv'
  <1> DEFINE Draftless == staging' = staging /\ draftHost' = draftHost
  <1>1. CASE staging' = None
    BY <1>1 DEF CheckedInv
  <1>2. CASE Crash
    BY <1>2, CrashMoves DEF CheckedInv
  <1>3. CASE \/ HostReady \/ HostTimeout \/ Reap \/ NewTurn \/ EditOnDisk
             \/ UNCHANGED vars
    <2>1. Stays
      BY <1>3, OthersStay
    <2>2. Draftless
      BY <1>3 DEF HostReady, HostTimeout, Reap, NewTurn, EditOnDisk, vars,
                  files, sessions
    <2> QED BY <2>1, <2>2, CheckedKept
  <1>4. ASSUME NEW a \in Actors, Write(a) \/ Inspect(a) \/ Probed(a)
        PROVE  CheckedInv'
    BY <1>4, ValidationKept
  <1>5. ASSUME NEW a \in Actors,
               \/ WriteRejected(a) \/ ValidationFails(a)
               \/ Promote(a) \/ PromoteThrows(a)
        PROVE  staging' = None
    BY <1>5 DEF WriteRejected, ValidationFails, Promote, PromoteThrows, files
  <1>6. ASSUME NEW a \in Actors,
               \/ BeginCall(a) \/ BeginRoute(a) \/ HostAnswers(a)
               \/ OperationEnds(a) \/ NoModel(a) \/ LearnEnds(a)
               \/ RepairEnds(a) \/ SessionRejects(a)
        PROVE  CheckedInv'
    <2>1. Draftless
      BY <1>6 DEF BeginCall, BeginPinned, BeginRoute, Call, HostAnswers,
                  OperationEnds, NoModel, LearnEnds, RepairEnds,
                  SessionRejects, files, sessions
    <2>2. \/ Stays
          \/ \E k, p, g : /\ Moves(a, k, p, g)
                          /\ p \notin {"probing", "checking"}
      BY <1>6, CallMoves
    <2> QED BY <2>1, <2>2, CheckedKept
  <1>7. ASSUME NEW a \in Actors, CallFails(a) \/ OperationRejects(a)
        PROVE  CheckedInv'
    <2>1. Draftless
      BY <1>7 DEF CallFails, OperationRejects, files, sessions
    <2>2. \E k, p, g : /\ Moves(a, k, p, g)
                      /\ p \notin {"probing", "checking"}
      BY <1>7, TriggerMoves
    <2> QED BY <2>1, <2>2, CheckedKept
  <1>8. ASSUME NEW a \in Actors,
               StartRepair(a) \/ BeginLearn(a) \/ StartLearn(a) \/ Regenerate(a)
        PROVE  CheckedInv'
    <2>1. Draftless
      BY <1>8 DEF StartRepair, BeginLearn, StartLearn, Regenerate, files, sessions
    <2>2. Regenerate(a) => act[a].pc = "session"
      BY DEF Regenerate
    <2>3. \E k, p, g : /\ Moves(a, k, p, g)
                      /\ p \notin {"probing", "checking"}
      BY <1>8, <2>2, FlowMoves
    <2> QED BY <2>1, <2>3, CheckedKept
  <1> QED BY <1>1, <1>2, <1>3, <1>4, <1>5, <1>6, <1>7, <1>8 DEF Next, Proceed

LEMMA ValidatedStep ==
  ASSUME TypeOK, CheckedInv, LiveWasValidated, [Next]_vars
  PROVE  LiveWasValidated'
  <1>1. CASE touched'
    BY <1>1 DEF LiveWasValidated
  <1>2. ASSUME NEW a \in Actors, Promote(a)
        PROVE  LiveWasValidated'
    BY <1>2 DEF Promote, Validated, CheckedInv, LiveWasValidated
  <1>3. CASE /\ live' = live /\ touched' = touched
             /\ ~\E a \in Actors : Promote(a)
    <2>1. row'.state \in {row.state, "disabled"}
      BY <1>3, RowSteps DEF Softened
    <2> QED BY <1>3, <2>1 DEF LiveWasValidated
  <1> QED BY <1>1, <1>2, <1>3, FileSteps

\* LiveWasValidated: two validations that overlap break it (both use the one
\* staging directory and the one session keyed on it), and nothing else does.
\* Where writers of the app take turns, only probed code is ever promoted.
THEOREM LoneWriterIsSafe == Spec /\ []OneValidation => []LiveWasValidated
  <1> DEFINE I == ExtInv /\ OneValidation
             J == CheckedInv /\ LiveWasValidated
  <1>1. Init => J
    <2> SUFFICES ASSUME Init PROVE J
      OBVIOUS
    <2>1. CheckedInv
      BY DEF Init, CheckedInv
    <2>2. LiveWasValidated
      <3>1. row = NoRow \/ live \in Good
        BY DEF Init
      <3> QED BY <3>1 DEF NoRow, LiveWasValidated
    <2> QED BY <2>1, <2>2
  <1>2. I /\ I' /\ J /\ [Next]_vars => J'
    BY CheckedStep, ValidatedStep DEF ExtInv
  <1>3. J => LiveWasValidated
    OBVIOUS
  <1> HIDE DEF J
  <1>4. I <=> ExtInv /\ OneValidation
    OBVIOUS
  <1> HIDE DEF I
  <1> QED BY ExtInvariance, <1>1, <1>2, <1>3, <1>4, PTL DEF Spec
=============================================================================
