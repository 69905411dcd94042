----------------------------- MODULE Extensions -----------------------------
(***************************************************************************)
(* The life of one learned app's extension (apps/mirod/src/extensions/,    *)
(* agent/extension-tools.ts, capabilities/extensions.ts): its row in the   *)
(* extensions table, its directories on disk, the host processes that run  *)
(* its code, and the activities that touch them: tool calls, the sweep of  *)
(* diagnostics, routed capability calls, repairs and learn flows.          *)
(*                                                                         *)
(* mirod is one event loop: an action runs from one await to the next, and *)
(* between two awaits anybody else may run.  Nothing here takes a lock.    *)
(***************************************************************************)
EXTENDS Integers, FiniteSets

CONSTANTS
  Actors,             \* what may be under way at once: each does one thing
  Drafts,             \* texts of extension.ts that compile
  Good,               \* the drafts whose probes pass while the app answers
  None,               \* no directory, no process, no hash
  Starting,           \* a host process that has not sent "ready"
  RepairThreshold,    \* REPAIR_THRESHOLD
  MaxRepairAttempts,  \* MAX_REPAIR_ATTEMPTS
  MaxWriteAttempts,   \* MAX_WRITE_ATTEMPTS
  MaxRegenerations,   \* MAX_REGENERATIONS
  MaxFaults           \* bound on the edits of the live directory by others
                      \* and the crashes of the daemon in one behaviour

ASSUME ActorsAssumption == IsFiniteSet(Actors) /\ Actors # {}
ASSUME DraftsAssumption ==
  /\ Good \subseteq Drafts
  /\ None \notin Drafts /\ Starting \notin Drafts /\ None # Starting
ASSUME BudgetsAssumption ==
  /\ RepairThreshold \in Nat \ {0} /\ MaxRepairAttempts \in Nat \ {0}
  /\ MaxWriteAttempts \in Nat \ {0} /\ MaxRegenerations \in Nat \ {0}
  /\ MaxFaults \in Nat

VARIABLES
  row,         \* the row of the app
  live,        \* what <app>/extension.ts holds
  staging,     \* what <app>.staging/extension.ts holds
  host,        \* the session keyed on the live directory: the code it loaded
  draftHost,   \* the session keyed on the staging directory
  act,         \* what each actor is doing
  inProgress,  \* is the app in learn.ts's inProgress set?
  wired,       \* are its tools in the running agent's list?
  (* history *)
  touched,     \* the live directory was changed other than by a promotion
  crashed,     \* the daemon died once
  faults       \* how many faults there were

files    == <<live, staging>>
sessions == <<host, draftHost>>
history  == <<touched, crashed, faults>>
vars == <<row, files, sessions, act, inProgress, wired, history>>

Row == [state : {"none", "enabled", "disabled"}, hash : Drafts \cup {None},
        failures : 0..RepairThreshold, attempts : Nat]
NoRow == [state |-> "none", hash |-> None, failures |-> 0, attempts |-> 0]

\* "read", "op": a tool of the agent; "probe": the sweep; "route": web.search or
\* web.fetch routed here; "detached": a repair that no tool call awaits; "learn".
Kinds == {"read", "op", "probe", "route", "detached", "learn"}

\* "host": awaits an answer of the live session; "operating": runOperation;
\* "resolving": a repair awaits its model; "locating": a learn flow awaits its
\* model and discovery; "session": a learning agent runs; "listing", "probing"
\* and "checking": its extension_write awaits the validator.
PCs == {"idle", "host", "operating", "resolving", "locating", "session",
        "listing", "probing", "checking"}

\* on: the process waited for is the one in the sessions map, not torn down.
\* again: the retry after a repair.  attempts, writes, regeneration, promoted,
\* draft: the locals of the repair and of the learning session (a repair makes
\* no use of its last draft).
Activity == [kind : Kinds, pc : PCs, on : BOOLEAN, again : BOOLEAN,
             attempts : Nat, writes : 0..MaxWriteAttempts,
             regeneration : 0..MaxRegenerations,
             promoted : BOOLEAN, draft : BOOLEAN]
Idle == [kind |-> "read", pc |-> "idle", on |-> FALSE, again |-> FALSE,
         attempts |-> 0, writes |-> 0, regeneration |-> 0,
         promoted |-> FALSE, draft |-> FALSE]

TypeOK ==
  /\ row \in Row
  /\ live \in Drafts \cup {None} /\ staging \in Drafts \cup {None}
  /\ host \in Drafts \cup {None, Starting} /\ draftHost \in Drafts \cup {None}
  /\ act \in [Actors -> Activity]
  /\ inProgress \in BOOLEAN /\ wired \in BOOLEAN /\ touched \in BOOLEAN
  /\ crashed \in BOOLEAN /\ faults \in 0..MaxFaults

\* A fresh daemon, or one that finds an extension promoted earlier; a row from
\* before hash-pinning existed has no hash.
Init ==
  /\ \/ row = NoRow /\ live = None
     \/ \E d \in Good, h \in Drafts \cup {None} :
          /\ h \in {d, None}
          /\ live = d
          /\ row = [NoRow EXCEPT !.state = "enabled", !.hash = h]
  /\ staging = None /\ host = None /\ draftHost = None
  /\ act = [a \in Actors |-> Idle]
  /\ inProgress = FALSE /\ wired = FALSE
  /\ touched = FALSE /\ crashed = FALSE /\ faults = 0

-----------------------------------------------------------------------------
(* store.ts: one UPDATE each, which changes nothing where there is no row. *)

\* Only >= RepairThreshold is ever asked of the counter: it stops there.
recordFailure(r) ==
  IF r.state = "none" \/ r.failures = RepairThreshold
  THEN r ELSE [r EXCEPT !.failures = @ + 1]
recordSuccess(r) == [r EXCEPT !.failures = 0]
incrementRepairAttempts(r) ==
  IF r.state = "none" THEN r ELSE [r EXCEPT !.attempts = @ + 1]
disable(r) == IF r.state = "none" THEN r ELSE [r EXCEPT !.state = "disabled"]

\* A bug: the hash is set once and survives a promotion.
promoteKeepsHash(r, code) ==
  [state |-> "enabled", hash |-> IF r.hash = None THEN code ELSE r.hash,
   failures |-> 0, attempts |-> 0]
promote(r, code) ==
  [state |-> "enabled", hash |-> code, failures |-> 0, attempts |-> 0]

-----------------------------------------------------------------------------
(* pin.ts, assertPinned: it says nothing of a row that is not enabled.     *)

PinThrows(r) == r.state = "enabled" /\ live = None
PinMismatch(r) ==
  r.state = "enabled" /\ live # None /\ r.hash \notin {None, live}
Pinned(r) ==
  IF r.state = "enabled" /\ r.hash = None THEN [r EXCEPT !.hash = live] ELSE r

-----------------------------------------------------------------------------
(* host.ts                                                                 *)

\* teardown: whoever waited on the session is rejected, or sees it exit.
Cut(f, pc) == [a \in Actors |-> IF f[a].pc = pc
                                THEN [f[a] EXCEPT !.on = FALSE] ELSE f[a]]

\* getSession: reuse the session in the map or spawn one in the directory.
GetSession(h, dir) == IF h # None THEN h ELSE IF dir = None THEN None
                                                            ELSE Starting
Waiting(a) == act[a].pc = "host" /\ act[a].on

\* loadExtension, then "ready"; with no file to import the process exits.
HostReady ==
  /\ host = Starting
  /\ host' = live
  /\ act' = IF live = None THEN Cut(act, "host") ELSE act
  /\ UNCHANGED <<row, files, draftHost, inProgress, wired, history>>

\* A request timed out, or the process died under it.
HostTimeout ==
  /\ host \in Drafts
  /\ \E a \in Actors : Waiting(a)
  /\ host' = None
  /\ act' = Cut(act, "host")
  /\ UNCHANGED <<row, files, draftHost, inProgress, wired, history>>

\* reapIdle: five minutes without a call.  No request is that old, but the wait
\* for "ready" has no timeout of its own.
\* A bug: a session that is not ready yet is spared.
ReapReadyOnly ==
  /\ host \in Drafts /\ \A a \in Actors : ~Waiting(a)
  /\ host' = None
  /\ act' = Cut(act, "host")
  /\ UNCHANGED <<row, files, draftHost, inProgress, wired, history>>
Reap ==
  /\ host = Starting \/ (host \in Drafts /\ \A a \in Actors : ~Waiting(a))
  /\ host' = None
  /\ act' = Cut(act, "host")
  /\ UNCHANGED <<row, files, draftHost, inProgress, wired, history>>

-----------------------------------------------------------------------------
(* Calls: extension-tools.ts, reprobeExtensions, capabilities/extensions.ts *)

Call(a, kind, again) ==
  /\ host' = GetSession(host, live)
  /\ act' = [act EXCEPT ![a] = [Idle EXCEPT !.kind = kind, !.pc = "host",
                                   !.on = (host' # None), !.again = again]]

\* execute of a tool, or the sweep: the pin is checked and the call made in one
\* go.  The agent's list of tools may be older than the row.
BeginPinned(a, kind) ==
  /\ act[a].pc = "idle"
  /\ IF kind = "probe" THEN row.state = "enabled" ELSE wired
  /\ ~PinThrows(row)
  /\ IF PinMismatch(row)
     THEN row' = disable(row) /\ UNCHANGED <<host, act>>
     ELSE row' = Pinned(row) /\ Call(a, kind, FALSE)

BeginCall(a) ==
  /\ \E kind \in {"read", "op", "probe"} : BeginPinned(a, kind)
  /\ UNCHANGED <<files, draftHost, inProgress, wired, history>>

\* A routed capability: available() looks at the state, nobody at the pin.
BeginRoute(a) ==
  /\ act[a].pc = "idle"
  /\ row.state = "enabled"
  /\ Call(a, "route", FALSE)
  /\ UNCHANGED <<row, files, draftHost, inProgress, wired, history>>

HostAnswers(a) ==
  /\ Waiting(a) /\ host \in Drafts
  /\ IF act[a].kind = "op"
     THEN act' = [act EXCEPT ![a].pc = "operating"] /\ UNCHANGED row
     ELSE /\ act' = [act EXCEPT ![a] = Idle]
          /\ row' = IF act[a].kind = "route" THEN row ELSE recordSuccess(row)
  /\ UNCHANGED <<files, sessions, inProgress, wired, history>>

\* runOperation comes to its outcome; only a verified commit counts.
OperationEnds(a) ==
  /\ act[a].pc = "operating"
  /\ act' = [act EXCEPT ![a] = Idle]
  /\ row' \in {row, recordSuccess(row)}
  /\ UNCHANGED <<files, sessions, inProgress, wired, history>>

-----------------------------------------------------------------------------
(* repair.ts                                                               *)

\* The breaker's test, on the row read when the failure was recorded.
\* A bug: the limit off by one.
BreakerTripsLate(r) == r.attempts > MaxRepairAttempts
BreakerTrips(r) == r.attempts >= MaxRepairAttempts

\* maybeTriggerRepair up to its first await; kind goes on as the caller.
TriggerRepair(a, kind) ==
  LET r    == recordFailure(row)
      give == act' = [act EXCEPT ![a] = Idle]
  IN IF r.failures < RepairThreshold \/ r.state # "enabled" \/ PinThrows(r)
     THEN row' = r /\ give
     ELSE IF PinMismatch(r) \/ BreakerTrips(r)
     THEN row' = disable(IF PinMismatch(r) THEN r ELSE Pinned(r)) /\ give
     ELSE /\ row' = Pinned(r)
          /\ act' = [act EXCEPT ![a] = [Idle EXCEPT !.kind = kind,
                                                    !.pc = "resolving"]]

\* The call is rejected: by the extension, or with its session.  Of the kinds
\* that do not repair, bind is called outside the try, the retry inside the
\* catch, and a route goes on to the next implementation.
CallFails(a) ==
  /\ act[a].pc = "host"
  /\ act[a].on => host \in Drafts
  /\ IF act[a].kind \in {"op", "route"} \/ act[a].again
     THEN act' = [act EXCEPT ![a] = Idle] /\ UNCHANGED row
     ELSE TriggerRepair(a, IF act[a].kind = "probe" THEN "detached"
                                                    ELSE act[a].kind)
  /\ UNCHANGED <<files, sessions, inProgress, wired, history>>

\* runOperation rejects: the repair is started and not awaited.
OperationRejects(a) ==
  /\ act[a].pc = "operating"
  /\ TriggerRepair(a, "detached")
  /\ UNCHANGED <<files, sessions, inProgress, wired, history>>

NoModel(a) ==
  /\ act[a].pc \in {"resolving", "locating"}
  /\ act' = [act EXCEPT ![a] = Idle]
  /\ UNCHANGED <<row, files, sessions, inProgress, wired, history>>

StartRepair(a) ==
  /\ act[a].pc = "resolving"
  /\ row' = incrementRepairAttempts(row)
  /\ act' = [act EXCEPT ![a].pc = "session", ![a].attempts = row'.attempts]
  /\ UNCHANGED <<files, sessions, inProgress, wired, history>>

\* spawnLearningAgent returned: the breaker again, with the count of then.
RepairEnds(a) ==
  /\ act[a].pc = "session" /\ act[a].kind # "learn"
  /\ row' = IF ~act[a].promoted /\ act[a].attempts >= MaxRepairAttempts
            THEN disable(row) ELSE row
  /\ IF act[a].promoted /\ act[a].kind = "read"
     THEN /\ host' = GetSession(None, live)
          /\ act' = [Cut(act, "host") EXCEPT ![a] =
                      [Idle EXCEPT !.kind = "read", !.pc = "host",
                                   !.on = (host' # None), !.again = TRUE]]
     ELSE act' = [act EXCEPT ![a] = Idle] /\ UNCHANGED host
  /\ UNCHANGED <<files, draftHost, inProgress, wired, history>>

-----------------------------------------------------------------------------
(* learn.ts                                                                *)

\* runLearnFlow up to its first await.
BeginLearn(a) ==
  /\ act[a].pc = "idle"
  /\ ~inProgress
  /\ act' = [act EXCEPT ![a] = [Idle EXCEPT !.kind = "learn",
                                            !.pc = "locating"]]
  /\ UNCHANGED <<row, files, sessions, inProgress, wired, history>>

StartLearn(a) ==
  /\ act[a].pc = "locating"
  /\ inProgress' = TRUE
  /\ act' = [act EXCEPT ![a].pc = "session", ![a].regeneration = 1]
  /\ UNCHANGED <<row, files, sessions, wired, history>>

\* The session left a draft that failed: a fresh one starts from it.
Regenerates(a) == /\ ~act[a].promoted /\ act[a].draft
                  /\ act[a].regeneration < MaxRegenerations

Regenerate(a) ==
  /\ act[a].pc = "session" /\ act[a].kind = "learn"
  /\ Regenerates(a)
  /\ act' = [act EXCEPT ![a].regeneration = @ + 1, ![a].writes = 0,
                        ![a].draft = FALSE]
  /\ UNCHANGED <<row, files, sessions, inProgress, wired, history>>

\* A bug: the app is taken out of inProgress only after a promotion.
LearnEndsLeaking(a) ==
  /\ act[a].pc = "session" /\ act[a].kind = "learn"
  /\ ~Regenerates(a)
  /\ inProgress' = IF act[a].promoted THEN FALSE ELSE inProgress
  /\ act' = [act EXCEPT ![a] = Idle]
  /\ wired' = (wired \/ (act[a].promoted /\ row.state = "enabled"))
  /\ UNCHANGED <<row, files, sessions, history>>
\* The flow returns, and app_learn hot-loads the tools of an enabled row.
LearnEnds(a) ==
  /\ act[a].pc = "session" /\ act[a].kind = "learn"
  /\ ~Regenerates(a)
  /\ inProgress' = FALSE
  /\ act' = [act EXCEPT ![a] = Idle]
  /\ wired' = (wired \/ (act[a].promoted /\ row.state = "enabled"))
  /\ UNCHANGED <<row, files, sessions, history>>

\* The agent's turn throws: runLearnFlow has its finally, and nothing after
\* spawnLearningAgent is reached, neither app_learn's hot-load nor, in a repair,
\* the breaker.
SessionRejects(a) ==
  /\ act[a].pc = "session"
  /\ inProgress' = (inProgress /\ act[a].kind # "learn")
  /\ act' = [act EXCEPT ![a] = Idle]
  /\ UNCHANGED <<row, files, sessions, wired, history>>

-----------------------------------------------------------------------------
(* extension_write (learn-agent.ts) and validateExtension (validate.ts).   *)
(* Every writer of the app uses the one staging directory, and the session *)
(* that is keyed on it.                                                    *)

\* The end of every validation: its session is dropped, whoever else uses it.
DropDraftHost(f) == draftHost' = None /\ act' = Cut(f, "probing")

\* A bug: the write budget is not looked at.
WriteUnbudgeted(a) ==
  /\ act[a].pc = "session"
  /\ \E d \in Drafts : staging' = d
  /\ act' = [act EXCEPT ![a].pc = "listing", ![a].writes = @ + 1]
  /\ UNCHANGED <<row, live, sessions, inProgress, wired, history>>
Write(a) ==
  /\ act[a].pc = "session"
  /\ act[a].writes < MaxWriteAttempts
  /\ \E d \in Drafts : staging' = d
  /\ act' = [act EXCEPT ![a].pc = "listing", ![a].writes = @ + 1]
  /\ UNCHANGED <<row, live, sessions, inProgress, wired, history>>

\* The draft does not compile, or imports what it must not: no await is reached.
WriteRejected(a) ==
  /\ act[a].pc = "session"
  /\ act[a].writes < MaxWriteAttempts
  /\ staging' = None
  /\ DropDraftHost([act EXCEPT ![a].writes = @ + 1,
                               ![a].draft = (act[a].kind = "learn")])
  /\ UNCHANGED <<row, live, host, inProgress, wired, history>>

\* listModule answered, from a process of its own; the probes share a session,
\* which loads what is staged when it is spawned.
Inspect(a) ==
  /\ act[a].pc = "listing"
  /\ staging # None
  /\ draftHost' = IF draftHost # None THEN draftHost ELSE staging
  /\ act' = [act EXCEPT ![a].pc = "probing", ![a].on = TRUE]
  /\ UNCHANGED <<row, files, host, inProgress, wired, history>>

\* The probes passed, on the code the session has loaded.  The dead-app check,
\* in a process of its own, does not need the session.  (The capability probes
\* and the dry runs come after it and do: they are counted among the probes.)
Probed(a) ==
  /\ act[a].pc = "probing" /\ act[a].on
  /\ draftHost \in Good
  /\ act' = [act EXCEPT ![a].pc = "checking", ![a].on = FALSE]
  /\ UNCHANGED <<row, files, sessions, inProgress, wired, history>>

\* The validator says no, or its session was dropped: the draft is kept in
\* lastAttempt and the directory removed.
\* A bug: the failed draft stays on disk.
ValidationFailsKeeping(a) ==
  /\ act[a].pc \in {"listing", "probing", "checking"}
  /\ staging' = staging
  /\ DropDraftHost([act EXCEPT ![a].pc = "session", ![a].on = FALSE,
                               ![a].draft = (act[a].kind = "learn")])
  /\ UNCHANGED <<row, live, host, inProgress, wired, history>>
ValidationFails(a) ==
  /\ act[a].pc \in {"listing", "probing", "checking"}
  /\ staging' = None
  /\ DropDraftHost([act EXCEPT ![a].pc = "session", ![a].on = FALSE,
                               ![a].draft = (act[a].kind = "learn")])
  /\ UNCHANGED <<row, live, host, inProgress, wired, history>>

Validated(a) == act[a].pc = "checking"

\* The manifest is written beside the draft, both are hashed as they lie there,
\* renamed into place and promoted, with no await in between.
\* A bug: the session of the old code is not dropped.
PromoteKeepsHost(a) ==
  /\ Validated(a) /\ staging # None
  /\ live' = staging /\ staging' = None
  /\ row' = promote(row, staging)
  /\ DropDraftHost([act EXCEPT ![a].pc = "session",
             ![a].promoted = TRUE, ![a].draft = FALSE])
  /\ touched' = FALSE
  /\ UNCHANGED <<host, inProgress, wired, crashed, faults>>
Promote(a) ==
  /\ Validated(a) /\ staging # None
  /\ live' = staging /\ staging' = None
  /\ row' = promote(row, staging)
  /\ host' = None
  /\ DropDraftHost([Cut(act, "host") EXCEPT ![a].pc = "session",
             ![a].promoted = TRUE, ![a].draft = FALSE])
  /\ touched' = FALSE
  /\ UNCHANGED <<inProgress, wired, crashed, faults>>

\* Another writer discarded or promoted the directory: the write throws.
PromoteThrows(a) ==
  /\ Validated(a) /\ staging = None
  /\ DropDraftHost([act EXCEPT ![a].pc = "session"])
  /\ UNCHANGED <<row, files, host, inProgress, wired, history>>

-----------------------------------------------------------------------------
(* The surroundings                                                        *)

\* A chat turn builds its agent anew; those in the last one are over.
NewTurn ==
  /\ \A a \in Actors : \/ act[a].pc = "idle"
                       \/ act[a].kind \in {"probe", "detached"}
  /\ wired' = (row.state = "enabled" /\ live # None)
  /\ UNCHANGED <<row, files, sessions, act, inProgress, history>>

\* Somebody changes the promoted files.
EditOnDisk ==
  /\ faults < MaxFaults
  /\ live # None
  /\ \E d \in Drafts \ {live} : live' = d
  /\ touched' = TRUE
  /\ faults' = faults + 1
  /\ UNCHANGED <<row, staging, sessions, act, inProgress, wired, crashed>>

\* The daemon dies, perhaps inside a promotion: after its first rename, or
\* before the row is written.
Crash ==
  /\ faults < MaxFaults
  /\ faults' = faults + 1 /\ crashed' = TRUE
  /\ host' = None /\ draftHost' = None
  /\ act' = [a \in Actors |-> Idle]
  /\ inProgress' = FALSE /\ wired' = FALSE
  /\ \/ UNCHANGED <<files, touched>>
     \/ /\ \E a \in Actors : Validated(a) /\ staging # None
        /\ touched' = TRUE
        /\ \/ live' = None /\ UNCHANGED staging
           \/ live' = staging /\ staging' = None
  /\ UNCHANGED row

\* What an actor does once begun, whatever its callers.
Proceed(a) ==
  \/ HostAnswers(a) \/ CallFails(a)
  \/ NoModel(a) \/ StartRepair(a) \/ RepairEnds(a) \/ SessionRejects(a)
  \/ Write(a) \/ WriteRejected(a) \/ Inspect(a) \/ Probed(a)
  \/ ValidationFails(a) \/ Promote(a) \/ PromoteThrows(a)

Next ==
  \/ \E a \in Actors :
       \/ BeginCall(a) \/ BeginRoute(a) \/ BeginLearn(a)
       \/ Proceed(a)
       \/ OperationEnds(a) \/ OperationRejects(a)
       \/ StartLearn(a) \/ Regenerate(a) \/ LearnEnds(a)
  \/ HostReady \/ HostTimeout \/ Reap
  \/ NewTurn \/ EditOnDisk \/ Crash

Spec == Init /\ [][Next]_vars

\* The event loop goes on, requests time out and the reaper runs every minute.
\* Whether a host process ever gets ready, and what a user answers to a learn
\* flow or to an operation, is not assumed.
FairSpec ==
  /\ Spec
  /\ WF_vars(HostTimeout) /\ WF_vars(host = Starting /\ Reap)
  /\ \A a \in Actors :
       WF_vars(act[a].kind \in {"read", "probe", "detached"} /\ Proceed(a))

-----------------------------------------------------------------------------
(* What must hold                                                          *)

\* The hash in the row is that of the files (learn-agent.ts hashes the staging
\* directory and renames it with no await between): only an outside edit or a
\* crash inside a promotion makes assertPinned disable an extension, never a
\* promotion that overlaps calls, repairs or another writer.
PinMatchesDisk ==
  row.state = "enabled" /\ ~touched => row.hash \in {None, live}

\* A session never runs code older than the promoted one: every promotion drops
\* the session in the map (learn-agent.ts, hostMgr.invalidate), also one still
\* starting, and whatever calls wait on it.
SessionRunsPromotedCode ==
  ~touched /\ host \in Drafts => host = live

\* Repairs that start on one promoted version: the breaker is tested before the
\* await of the model and the count raised after it (repair.ts), so those who
\* wait may exceed the limit, by at most one each but the first.
AttemptsBounded ==
  row.attempts <= MaxRepairAttempts + Cardinality(Actors) - 1

\* An app is never locked out of learning: whenever it is in the inProgress set
\* of learn.ts, some flow is running that will take it out.
InProgressHasOwner ==
  inProgress => \E a \in Actors : /\ act[a].kind = "learn"
                                  /\ act[a].regeneration > 0

\* Nothing of a draft outlives its validation, however writers overlap: no host
\* process that has it loaded, and, but for a crash, no directory
\* (learn-agent.ts, hostMgr.invalidate and discardStaging).
NothingLeftOfADraft ==
  /\ draftHost # None =>
       \E a \in Actors : \/ act[a].pc = "probing" /\ act[a].on
                        \/ act[a].pc = "checking"
  /\ staging # None =>
       \/ \E a \in Actors : act[a].pc \in {"listing", "probing", "checking"}
       \/ crashed

\* A tool call or a probe ends, through a host that hangs, a repair that fails
\* and a retry (host.ts, request and reapIdle; repair.ts).
CallsEnd ==
  \A a \in Actors :
    act[a].kind \in {"read", "probe", "detached"} /\ act[a].pc # "idle"
      ~> act[a].pc = "idle"

\* pin.ts: "The code the validator passed is the code that runs".
LiveWasValidated == row.state = "enabled" /\ ~touched => live \in Good

=============================================================================
