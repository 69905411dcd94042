----------------------------- MODULE PowerMonitor -----------------------------
(***************************************************************************)
(* The UPS monitor of mirod (apps/mirod/src/index.ts, powerMonitorTick)    *)
(* with the notification bus it speaks through: a poll every 30 seconds, a *)
(* notice on each change of the status, and on low battery a push of the   *)
(* backup followed by system.shutdown, with nobody asked.  The box may go  *)
(* down at any moment, by that shutdown or by the battery's end, and comes *)
(* back with what is in the database.                                      *)
(***************************************************************************)
EXTENDS Notifications

CONSTANTS
  None,          \* no reading since boot
  MaxChanges,    \* bound on the changes of the UPS in one behaviour
  MaxBoots,      \* bound on the boots
  MaxInFlight    \* bound on the emergencies under way at once

ASSUME PowerAssumption ==
  /\ MaxChanges \in Nat /\ MaxBoots \in Nat \ {0} /\ MaxInFlight \in Nat \ {0}
  /\ None \notin {"", "OL", "OB", "OB LB", "OL LB"}
  /\ {"powering off", "shutdown needed", "still on low battery",
      "on battery", "back on line power"} \subseteq Titles
  /\ "ups" \in Sources

VARIABLES
  ups,        \* what upsc reports: ups.status, "" when upsd does not answer
  named,      \* is power.ups set?
  strict,     \* the setting mode.strict
  up,         \* does mirod run?
  last,       \* lastUpsStatus
  armed,      \* upsArmed
  triggered,  \* upsShutdownTriggered
  flushing,   \* emergencies that await pushBackup
  shutting,   \* emergencies that await runOperation of system.shutdown
  (* history *)
  since,      \* what has happened since the last emergency began
  changes, boots

box   == <<up, last, armed, triggered, flushing, shutting, boots>>
world == <<ups, changes>>
vars  == <<busVars, box, world, named, strict, since>>

Statuses == {"OL", "OB", "OB LB", "OL LB"}
lowBattery(s) == s \in {"OB LB", "OL LB"}
onBattery(s)  == s \in {"OB", "OB LB"}

TypeOK ==
  /\ BusTypeOK
  /\ ups \in Statuses \cup {""}
  /\ named \in BOOLEAN /\ strict \in BOOLEAN /\ up \in BOOLEAN
  /\ last \in Statuses \cup {None}
  /\ armed \in BOOLEAN /\ triggered \in BOOLEAN
  /\ flushing \in 0..MaxInFlight /\ shutting \in 0..MaxInFlight
  /\ since \subseteq {"calm", "line", "boot"}
  /\ changes \in 0..MaxChanges /\ boots \in 1..MaxBoots

Init ==
  /\ BusInit
  /\ ups \in Statuses /\ named \in BOOLEAN /\ strict \in BOOLEAN
  /\ up = TRUE /\ last = None /\ armed = FALSE /\ triggered = FALSE
  /\ flushing = 0 /\ shutting = 0
  /\ since = {"boot"} /\ changes = 0 /\ boots = 1

-----------------------------------------------------------------------------
(* powerMonitorTick, one branch an action.  A tick has its reading within  *)
(* 5 seconds, so readings do not overlap; an emergency outlives its tick.  *)

\* A status that differs from the last one was read.
Reads(s) ==
  /\ up /\ named
  /\ s = ups /\ s # "" /\ s # last
  /\ last' = s
  /\ armed' = (armed \/ ~lowBattery(s))

\* The history of what was read.
Note(s) ==
  since' = since \cup (IF lowBattery(s) THEN {} ELSE {"calm"})
                 \cup (IF s = "OL" THEN {"line"} ELSE {})

Steady == UNCHANGED <<flushing, shutting, up, boots, world, named, strict>>

\* Strict mode: the owner is told, and nothing else.
TickStrict ==
  /\ Reads(ups) /\ lowBattery(ups) /\ strict
  /\ IF triggered
     THEN UNCHANGED <<busVars, triggered>>
     ELSE /\ triggered' = TRUE
          /\ notify("shutdown needed", "needs_attention", "ups")
  /\ UNCHANGED since
  /\ Steady

TickEmergency ==
  /\ Reads(ups) /\ lowBattery(ups) /\ ~strict
  /\ armed' /\ ~triggered
  /\ flushing + shutting < MaxInFlight
  /\ triggered' = TRUE
  /\ notify("powering off", "needs_attention", "ups")
  /\ flushing' = flushing + 1
  /\ since' = {}
  /\ UNCHANGED <<shutting, up, boots, world, named, strict>>

\* Low since the boot: a shutdown now would be the second in a row.
TickUnarmed ==
  /\ Reads(ups) /\ lowBattery(ups) /\ ~strict
  /\ ~armed'
  /\ notify("still on low battery", "needs_attention", "ups")
  /\ UNCHANGED <<triggered, since>>
  /\ Steady

\* Low, and already dealt with.
TickTriggered ==
  /\ Reads(ups) /\ lowBattery(ups) /\ ~strict
  /\ armed' /\ triggered
  /\ UNCHANGED <<busVars, triggered, since>>
  /\ Steady

TickOnBattery ==
  /\ Reads(ups) /\ ~lowBattery(ups) /\ onBattery(ups)
  /\ notify("on battery", "worth_knowing", "ups")
  /\ Note(ups)
  /\ UNCHANGED triggered
  /\ Steady

\* A bug: the trigger is not reset.
TickOnLineStillTriggered ==
  /\ Reads(ups) /\ ~lowBattery(ups) /\ ~onBattery(ups)
  /\ IF last = None THEN UNCHANGED busVars
                    ELSE notify("back on line power", "worth_knowing", "ups")
  /\ Note(ups)
  /\ UNCHANGED triggered
  /\ Steady
TickOnLine ==
  /\ Reads(ups) /\ ~lowBattery(ups) /\ ~onBattery(ups)
  /\ IF last = None
     THEN UNCHANGED <<busVars, triggered>>
     ELSE /\ triggered' = FALSE
          /\ notify("back on line power", "worth_knowing", "ups")
  /\ Note(ups)
  /\ Steady

Tick == \/ TickStrict \/ TickEmergency \/ TickUnarmed \/ TickTriggered
        \/ TickOnBattery \/ TickOnLine

\* pushBackup returned, or failed: the shutdown is run either way.
Flushed ==
  /\ up /\ flushing > 0
  /\ flushing' = flushing - 1 /\ shutting' = shutting + 1
  /\ UNCHANGED <<busVars, up, last, armed, triggered, boots, world, named,
                 strict, since>>

\* runOperation ends without the box going down (a client whose socket throws is
\* enough: powerOpCtx.send has no catch), and is not run again.
ShutdownFails ==
  /\ up /\ shutting > 0
  /\ shutting' = shutting - 1
  /\ UNCHANGED <<busVars, up, last, armed, triggered, flushing, boots, world,
                 named, strict, since>>

-----------------------------------------------------------------------------
(* Down and up again                                                       *)

\* By the shutdown, by the end of the battery or by a crash.
Down ==
  /\ up /\ boots < MaxBoots
  /\ up' = FALSE /\ connections' = {} /\ dying' = {} /\ visited' = FALSE
  /\ flushing' = 0 /\ shutting' = 0
  /\ UNCHANGED <<queue, recent, demote, sink, busHistory, last, armed,
                 triggered, boots, world, named, strict, since>>

\* A bug: the box is taken for armed at its first reading.
BootArmed ==
  /\ ~up
  /\ up' = TRUE /\ boots' = boots + 1
  /\ last' = None /\ armed' = TRUE /\ triggered' = FALSE
  /\ since' = since \cup {"boot"}
  /\ UNCHANGED <<busVars, flushing, shutting, world, named, strict>>
\* The module's variables start anew.
Boot ==
  /\ ~up
  /\ up' = TRUE /\ boots' = boots + 1
  /\ last' = None /\ armed' = FALSE /\ triggered' = FALSE
  /\ since' = since \cup {"boot"}
  /\ UNCHANGED <<busVars, flushing, shutting, world, named, strict>>

UpsChanges ==
  /\ changes < MaxChanges /\ changes' = changes + 1
  /\ \E s \in (Statuses \cup {""}) \ {ups} : ups' = s
  /\ UNCHANGED <<busVars, box, named, strict, since>>

\* The owner: mode.strict is switched, nut_install sets power.ups, perhaps after
\* the client has gone.
Settings ==
  /\ up /\ visited
  /\ \/ strict' = ~strict /\ UNCHANGED named
     \/ ~named /\ named' = TRUE /\ UNCHANGED strict
  /\ UNCHANGED <<busVars, box, world, since>>

Bus ==
  /\ up
  /\ BusNext
  /\ UNCHANGED <<box, world, named, strict, since>>

Next == Tick \/ Flushed \/ ShutdownFails \/ Down \/ Boot \/ UpsChanges
          \/ Settings \/ Bus

Spec == Init /\ [][Next]_vars

\* setInterval polls while mirod runs, and git gives up in the end; what the
\* shutdown does, the owner and the UPS are not assumed to do anything.
FairSpec == Spec /\ WF_vars(Tick) /\ WF_vars(Flushed)

-----------------------------------------------------------------------------
(* What must hold                                                          *)

\* The phone hears of a low battery, once in twelve hours.
PhoneHears == RingsOncePerWindow({"powering off", "shutdown needed",
                                  "still on low battery"})

\* A low battery never shuts the box down twice: between two emergencies the
\* UPS was read without low battery, and line power or a boot came between
\* (index.ts: "must NOT immediately shut down again").
NoShutdownLoop ==
  [][flushing' > flushing => "calm" \in since
                             /\ since \cap {"line", "boot"} # {}]_vars

\* After line power every low battery has its emergency, also the second one of
\* a boot, unless strict mode is on, the status changes or the box goes down.
LowBatteryIsHandled ==
  up /\ named /\ last = "OL" /\ lowBattery(ups)
    ~> shutting > 0 \/ strict \/ ~lowBattery(ups) \/ ~up

(* Statements of the repository that the code does not keep. *)

\* index.ts:517 "the box is going down regardless; the notify below is how the
\* owner hears about it": no emergency begins, the second or third of a box either,
\* unless its notice is in the queue for the next connection, has been sent to a
\* live client, or the owner quieted the class to the log.
NeverDownUnsaid ==
  [][flushing' > flushing =>
       \/ "powering off" \in queue'
       \/ live # {}
       \/ demoteTier("needs_attention", demote["ups"]) = "routine"]_vars
=============================================================================
