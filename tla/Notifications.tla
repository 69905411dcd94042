---------------------------- MODULE Notifications ----------------------------
(***************************************************************************)
(* The notification bus of mirod (apps/mirod/src/notifications/): notify,  *)
(* the queue that waits for the owner's next connection, the rule for the  *)
(* phone and the owner's feedback on a class of notices.  Callers compose  *)
(* their actions with notify, which runs to its end without an await.      *)
(*                                                                         *)
(* A row of the table is abstracted to what is ever asked of it: is there  *)
(* one of this title that nobody was sent (queue), and is there one        *)
(* younger than PHONE_DEDUP_MS (recent).                                   *)
(***************************************************************************)
EXTENDS Integers, FiniteSets

CONSTANTS
  Clients,   \* those who may connect
  Titles,    \* the titles of notifications
  Sources,   \* their classes, for the feedback
  DatabaseMayFail  \* may a read or the insert of notify throw?

ASSUME ClientsAssumption ==
  IsFiniteSet(Clients) /\ DatabaseMayFail \in BOOLEAN

VARIABLES
  connections,  \* the clients in the broadcast set
  dying,        \* those whose socket throws: their teardown is still to come
  visited,      \* somebody connected since boot, and may have left a turn running
  queue,        \* titles with a row shown to nobody, worth_knowing or above
  recent,       \* titles with a row inside the window
  demote,       \* the setting notify.demote.<source>
  sink,         \* a phone channel is configured
  (* history *)
  rang,         \* how often a title went to the phone inside its window
  muffled       \* titles whose notice, in the window, found no channel or was demoted

busHistory == <<rang, muffled>>
clients == <<connections, dying, visited>>
busVars == <<clients, queue, recent, demote, sink, busHistory>>

Tiers == {"routine", "worth_knowing", "needs_attention"}
MaxDemote == 2

BusTypeOK ==
  /\ connections \subseteq Clients /\ dying \subseteq connections
  /\ visited \in BOOLEAN
  /\ queue \subseteq Titles /\ recent \subseteq Titles
  /\ demote \in [Sources -> 0..MaxDemote]
  /\ sink \in BOOLEAN
  /\ muffled \subseteq Titles
  /\ rang \in [Titles -> Nat]

BusInit ==
  /\ connections = {} /\ dying = {} /\ visited = FALSE
  /\ queue = {} /\ recent = {}
  /\ demote = [s \in Sources |-> 0]
  /\ sink \in BOOLEAN
  /\ rang = [t \in Titles |-> 0] /\ muffled = {}

-----------------------------------------------------------------------------
(* notify                                                                  *)

demoteTier(tier, steps) ==
  CASE tier = "needs_attention" /\ steps = 0 -> "needs_attention"
    [] tier = "needs_attention" /\ steps = 1 -> "worth_knowing"
    [] tier = "worth_knowing" /\ steps = 0   -> "worth_knowing"
    [] OTHER                                 -> "routine"

\* The phone push is decided before the row is inserted.
\* A bug: the row just inserted is found, too.
phoneSelf(title, tier) == tier = "needs_attention" /\ title \notin recent \cup {title}
phone(title, tier) == tier = "needs_attention" /\ title \notin recent

\* Whom broadcast reaches: a send that throws is not counted.
live == connections \ dying

\* The phone is decided, the clients are told, the row is inserted, the phone
\* rings.  What throws on the way is swallowed and the rest does not happen: a
\* read before anything, or the insert, when the clients have been told.
notify(title, tier, source) ==
  LET t     == demoteTier(tier, demote[source])
      shown == t # "routine" /\ live # {}
      rings == phone(title, t) /\ sink
  IN /\ \/ /\ queue' = IF t = "routine" \/ shown THEN queue
                         ELSE queue \cup {title}
           /\ recent' = recent \cup {title}
           /\ rang' = IF rings THEN [rang EXCEPT ![title] = @ + 1] ELSE rang
           /\ muffled' = IF t = "needs_attention" /\ sink THEN muffled
                         ELSE muffled \cup {title}
        \/ DatabaseMayFail /\ UNCHANGED <<queue, recent, rang, muffled>>
     /\ UNCHANGED <<clients, demote, sink>>

-----------------------------------------------------------------------------
(* Clients and settings                                                    *)

Joins(c) ==
  /\ c \notin connections
  /\ connections' = connections \cup {c} /\ visited' = TRUE
  /\ UNCHANGED <<dying, recent, demote, sink, busHistory>>

\* A bug: the queue is replayed and the rows are left undelivered.
ConnectKeepsQueue(c) == Joins(c) /\ UNCHANGED queue
\* createConnectionState: in the set first, then replayUndelivered, which is taken
\* to succeed: a client does not die in it and the database is read.
Connect(c) == Joins(c) /\ queue' = {}

\* Its socket is gone, its teardown has not run.
Dies(c) ==
  /\ c \in live
  /\ dying' = dying \cup {c}
  /\ UNCHANGED <<connections, visited, queue, recent, demote, sink, busHistory>>

Disconnect(c) ==
  /\ c \in connections
  /\ connections' = connections \ {c} /\ dying' = dying \ {c}
  /\ UNCHANGED <<visited, queue, recent, demote, sink, busHistory>>

\* A bug: "quiet" goes on counting.
FeedbackUncapped(s) ==
  /\ live # {}
  /\ \E d \in {0, demote[s] + 1} :
       d # demote[s] /\ demote' = [demote EXCEPT ![s] = d]
  /\ UNCHANGED <<clients, queue, recent, sink, busHistory>>
\* applyNoticeFeedback: "quiet" and "keep", from a connected client.
Feedback(s) ==
  /\ live # {}
  /\ \E d \in {0, IF demote[s] < MaxDemote THEN demote[s] + 1 ELSE MaxDemote} :
       d # demote[s] /\ demote' = [demote EXCEPT ![s] = d]
  /\ UNCHANGED <<clients, queue, recent, sink, busHistory>>

\* testAndConfigure: settings are saved once the channel took a test message; the
\* client who asked for it may have gone.
Configure ==
  /\ visited /\ ~sink
  /\ sink' = TRUE
  /\ UNCHANGED <<clients, queue, recent, demote, busHistory>>

\* Twelve hours without a notice of this title.
WindowPasses(t) ==
  /\ t \in recent
  /\ recent' = recent \ {t}
  /\ rang' = [rang EXCEPT ![t] = 0]
  /\ muffled' = muffled \ {t}
  /\ UNCHANGED <<clients, queue, demote, sink>>

BusNext ==
  \/ \E c \in Clients : Connect(c) \/ Dies(c) \/ Disconnect(c)
  \/ \E s \in Sources : Feedback(s)
  \/ Configure
  \/ \E t \in Titles : WindowPasses(t)

-----------------------------------------------------------------------------
(* What the bus promises                                                   *)

\* Nothing worth knowing is withheld from a connected owner: while anybody whose
\* socket takes it is connected, no row waits for the next connection (notify
\* marks what broadcast reached, createConnectionState replays in the same turn of
\* the event loop).
NothingWithheld == live # {} => queue = {}

\* A title rings the phone at most once in a window of PHONE_DEDUP_MS, and
\* unless a channel was missing or the class was quieted, it does ring
\* (notifications/index.ts: the push is decided before the row is persisted).
RingsOncePerWindow(attention) ==
  \A t \in Titles : /\ rang[t] <= 1
                    /\ t \in recent \cap attention =>
                         rang[t] = 1 \/ t \in muffled

=============================================================================
