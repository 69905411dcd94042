------------------------- MODULE PowerMonitorProofs -------------------------
(***************************************************************************)
(* Proofs of the safety properties of the UPS monitor and of the bus it    *)
(* speaks through, for any clients, titles, sources and bounds: no notice  *)
(* is withheld or rings twice, no low battery shuts the box down twice,    *)
(* and no emergency begins unsaid while the database takes the notice.     *)
(***************************************************************************)
EXTENDS PowerMonitor, TLAPS

\* A title that rang has a row inside the window, which keeps the next one off
\* the phone.
RingInv == \A t \in Titles : rang[t] <= 1 /\ (rang[t] > 0 => t \in recent)

\* Why no emergency follows another: armed outside an emergency, the UPS was
\* read without low battery; not triggered, line power or a boot came since.
ArmedInv == /\ armed => "calm" \in since \/ triggered
            /\ ~triggered => since \cap {"line", "boot"} # {}

BusInv == BusTypeOK /\ NothingWithheld /\ RingInv /\ PhoneHears
BoxTypeOK ==
  /\ ups \in Statuses \cup {""}
  /\ named \in BOOLEAN /\ strict \in BOOLEAN /\ up \in BOOLEAN
  /\ last \in Statuses \cup {None}
  /\ armed \in BOOLEAN /\ triggered \in BOOLEAN
  /\ since \subseteq {"calm", "line", "boot"}
CountInv ==
  /\ flushing \in 0..MaxInFlight /\ shutting \in 0..MaxInFlight
  /\ changes \in 0..MaxChanges /\ boots \in 1..MaxBoots
  /\ flushing + shutting <= MaxInFlight /\ (~up => boots < MaxBoots)
PowInv == BusInv /\ BoxTypeOK /\ CountInv /\ ArmedInv

\* What the assumption says of the bounds and of the titles.
LEMMA Bounds == /\ MaxChanges \in Nat
                /\ MaxBoots \in Nat /\ MaxBoots >= 1
                /\ MaxInFlight \in Nat /\ MaxInFlight >= 1
  <1>1. MaxChanges \in Nat /\ MaxBoots \in Nat \ {0} /\ MaxInFlight \in Nat \ {0}
    BY PowerAssumption
  <1> QED BY <1>1
LEMMA Said == /\ "powering off" \in Titles /\ "shutdown needed" \in Titles
              /\ "still on low battery" \in Titles
              /\ "on battery" \in Titles /\ "back on line power" \in Titles
  BY PowerAssumption

LEMMA InitPowInv == Init => PowInv
  <1> SUFFICES ASSUME Init PROVE PowInv
    OBVIOUS
  <1>1. BusTypeOK
    <2>1. BusInit
      BY DEF Init
    <2>2. demote \in [Sources -> 0..MaxDemote] /\ rang \in [Titles -> Nat]
      BY <2>1 DEF BusInit, MaxDemote
    <2>3. /\ connections \subseteq Clients /\ dying \subseteq connections
          /\ visited \in BOOLEAN /\ sink \in BOOLEAN
          /\ queue \subseteq Titles /\ recent \subseteq Titles
          /\ muffled \subseteq Titles
      BY <2>1 DEF BusInit
    <2> QED BY <2>2, <2>3 DEF BusTypeOK
  <1>2. NothingWithheld /\ RingInv
    BY DEF Init, BusInit, NothingWithheld, RingInv
  <1>3. PhoneHears
    BY DEF Init, BusInit, PhoneHears, RingsOncePerWindow
  <1>4. BoxTypeOK /\ CountInv
    <2>1. BoxTypeOK
      BY DEF Init, BoxTypeOK
    <2>2. CountInv
      BY Bounds DEF Init, CountInv
    <2> QED BY <2>1, <2>2
  <1>5. ArmedInv
    BY DEF Init, ArmedInv
  <1> QED BY <1>1, <1>2, <1>3, <1>4, <1>5 DEF PowInv, BusInv

\* The bus keeps its promises when nothing of it changes.
LEMMA BusStutters ==
  ASSUME BusInv, UNCHANGED busVars
  PROVE  BusInv'
  BY DEF BusInv, busVars, busHistory, clients, BusTypeOK, NothingWithheld, live,
         RingInv, PhoneHears, RingsOncePerWindow

\* notify keeps what the bus promises, also where it fails on the way.
LEMMA NotifyKeepsBusInv ==
  ASSUME BusInv, NEW title \in Titles, NEW tier, NEW source,
         notify(title, tier, source)
  PROVE  BusInv'
  <1> DEFINE t     == demoteTier(tier, demote[source])
             shown == t # "routine" /\ live # {}
             rings == phone(title, t) /\ sink
  <1>0. CASE UNCHANGED <<queue, recent, rang, muffled>>
    <2>1. UNCHANGED busVars
      BY <1>0 DEF notify, busVars, busHistory
    <2> QED BY <2>1, BusStutters
  <1> SUFFICES ASSUME ~UNCHANGED <<queue, recent, rang, muffled>>
               PROVE  BusInv'
    BY <1>0
  <1>1. /\ queue' = IF t = "routine" \/ shown THEN queue
                    ELSE queue \cup {title}
        /\ recent' = recent \cup {title}
        /\ rang' = IF rings THEN [rang EXCEPT ![title] = @ + 1] ELSE rang
        /\ muffled' = IF t = "needs_attention" /\ sink THEN muffled
                      ELSE muffled \cup {title}
        /\ UNCHANGED <<connections, dying, visited, demote, sink>>
    BY DEF notify, clients
  <1>2. rings <=> t = "needs_attention" /\ sink /\ title \notin recent
    BY DEF phone
  <1> HIDE DEF t
  <1>3. rang' \in [Titles -> Nat]
        /\ rang'[title] = (IF rings THEN rang[title] + 1 ELSE rang[title])
        /\ \A n \in Titles \ {title} : rang'[n] = rang[n]
    <2> HIDE DEF rings
    <2> QED BY <1>1 DEF BusInv, BusTypeOK
  <1>4. BusTypeOK'
    BY <1>1, <1>3 DEF BusInv, BusTypeOK
  <1>5. NothingWithheld'
    BY <1>1 DEF BusInv, NothingWithheld, live
  <1>6. RingInv'
    <2>1. \A n \in Titles : rang[n] \in Nat
      BY DEF BusInv, BusTypeOK
    <2>2. rings => rang[title] = 0
      BY <1>2, <2>1 DEF BusInv, RingInv
    <2>3. recent' = recent \cup {title}
      BY <1>1
    <2> HIDE DEF rings
    <2> QED BY <1>3, <2>1, <2>2, <2>3 DEF BusInv, RingInv
  <1>7. PhoneHears'
    <2> DEFINE A == {"powering off", "shutdown needed", "still on low battery"}
    <2>1. \A n \in Titles : rang'[n] <= 1
      BY <1>6 DEF RingInv
    <2>2. \A n \in Titles : /\ n \in recent \cap A => rang[n] = 1 \/ n \in muffled
                            /\ rang[n] \in Nat
      BY DEF BusInv, BusTypeOK, PhoneHears, RingsOncePerWindow
    <2> HIDE DEF A
    <2>3. ASSUME NEW n \in Titles, n \in recent' \cap A
          PROVE  rang'[n] = 1 \/ n \in muffled'
      <3>1. CASE n # title
        BY <3>1, <2>2, <2>3, <1>1, <1>3
      <3>2. CASE n = title /\ title \in recent
        BY <3>2, <2>2, <2>3, <1>1, <1>2, <1>3
      <3>3. CASE n = title /\ rings
        <4>1. rang[title] = 0
          BY <3>3, <1>2, <2>2 DEF BusInv, RingInv
        <4> QED BY <3>3, <4>1, <1>3
      <3>4. CASE n = title /\ title \notin recent /\ ~rings
        BY <3>4, <1>1, <1>2
      <3> QED BY <3>1, <3>2, <3>3, <3>4
    <2> QED BY <2>1, <2>3 DEF PhoneHears, RingsOncePerWindow, A
  <1> QED BY <1>4, <1>5, <1>6, <1>7 DEF BusInv

\* What clients and the clock do keeps what the bus promises.
LEMMA BusKeepsBusInv ==
  ASSUME BusInv, BusNext
  PROVE  BusInv'
  <1> USE DEF BusInv
  <1>1. ASSUME NEW c \in Clients, Connect(c) \/ Dies(c) \/ Disconnect(c)
        PROVE  BusInv'
    BY <1>1 DEF Joins, Connect, Dies, Disconnect, BusTypeOK, busHistory,
                NothingWithheld, live, RingInv, PhoneHears, RingsOncePerWindow
  <1>2. ASSUME NEW s \in Sources, Feedback(s)
        PROVE  BusInv'
    <2>1. demote' \in [Sources -> 0..MaxDemote]
      BY <1>2 DEF Feedback, BusTypeOK, MaxDemote
    <2> QED BY <1>2, <2>1 DEF Feedback, BusTypeOK, busHistory, clients,
               NothingWithheld, live, RingInv, PhoneHears, RingsOncePerWindow
  <1>3. ASSUME Configure
        PROVE  BusInv'
    BY <1>3 DEF Configure, BusTypeOK, busHistory, clients, NothingWithheld,
                live, RingInv, PhoneHears, RingsOncePerWindow
  <1>4. ASSUME NEW t \in Titles, WindowPasses(t)
        PROVE  BusInv'
    <2>1. /\ rang' \in [Titles -> Nat] /\ rang'[t] = 0
          /\ \A n \in Titles \ {t} : rang'[n] = rang[n]
          /\ recent' = recent \ {t} /\ muffled' = muffled \ {t}
          /\ UNCHANGED <<connections, dying, visited, queue, demote, sink>>
      BY <1>4 DEF WindowPasses, BusTypeOK, clients
    <2>2. BusTypeOK' /\ NothingWithheld'
      BY <2>1, Zenon DEF BusTypeOK, NothingWithheld, live
    <2>3. RingInv' /\ PhoneHears'
      <3> DEFINE A == {"powering off", "shutdown needed", "still on low battery"}
      <3>1. \A n \in Titles : /\ rang[n] <= 1 /\ (rang[n] > 0 => n \in recent)
                              /\ n \in recent \cap A => rang[n] = 1 \/ n \in muffled
        BY DEF RingInv, PhoneHears, RingsOncePerWindow
      <3> HIDE DEF A
      <3>2. \A n \in Titles :
              /\ rang'[n] <= 1 /\ (rang'[n] > 0 => n \in recent')
              /\ n \in recent' \cap A => rang'[n] = 1 \/ n \in muffled'
        BY <2>1, <3>1
      <3> QED BY <3>2 DEF A, RingInv, PhoneHears, RingsOncePerWindow
    <2> QED BY <2>1, <2>2, <2>3
  <1> QED BY <1>1, <1>2, <1>3, <1>4 DEF BusNext

\* A tick keeps PowInv: it tells, and only an emergency forgets what was read.
LEMMA TickKeepsPowInv ==
  ASSUME PowInv, Tick
  PROVE  PowInv'
  <1> USE DEF PowInv
  <1>0. CountInv'
    <2>1. UNCHANGED <<flushing, shutting, up, boots, changes>> \/ TickEmergency
      BY DEF Tick, TickStrict, TickUnarmed, TickTriggered, TickOnBattery,
             TickOnLine, Steady, world
    <2>2. UNCHANGED <<flushing, shutting, up, boots, changes>> => CountInv'
      BY DEF CountInv
    <2>3. CASE TickEmergency
      <3>1. /\ flushing + shutting < MaxInFlight /\ flushing' = flushing + 1
            /\ UNCHANGED <<shutting, up, boots, changes>>
        BY <2>3 DEF TickEmergency, world
      <3> QED BY <3>1, Bounds DEF CountInv
    <2> QED BY <2>1, <2>2, <2>3
  <1>1. CASE TickStrict
    <2>1. BusInv'
      BY <1>1, BusStutters, NotifyKeepsBusInv, Said DEF TickStrict
    <2>2. BoxTypeOK'
      BY <1>1 DEF TickStrict, Reads, Steady, BoxTypeOK, world
    <2>3. ArmedInv'
      BY <1>1, <2>1 DEF TickStrict, Reads, Steady, BoxTypeOK, world, ArmedInv
    <2> QED BY <1>0, <2>1, <2>2, <2>3
  <1>2. CASE TickEmergency
    <2>1. BusInv'
      BY <1>2, NotifyKeepsBusInv, Said DEF TickEmergency
    <2>2. BoxTypeOK'
      BY <1>2 DEF TickEmergency, Reads, BoxTypeOK, world
    <2>3. ArmedInv'
      BY <1>2, <2>1 DEF TickEmergency, ArmedInv
    <2> QED BY <1>0, <2>1, <2>2, <2>3
  <1>3. CASE TickUnarmed
    <2>1. BusInv'
      BY <1>3, NotifyKeepsBusInv, Said DEF TickUnarmed
    <2>2. BoxTypeOK'
      BY <1>3 DEF TickUnarmed, Reads, Steady, BoxTypeOK, world
    <2>3. ArmedInv'
      BY <1>3, <2>1 DEF TickUnarmed, Reads, Steady, BoxTypeOK, world, ArmedInv
    <2> QED BY <1>0, <2>1, <2>2, <2>3
  <1>4. CASE TickTriggered
    <2>1. BusInv'
      BY <1>4, BusStutters DEF TickTriggered
    <2>2. BoxTypeOK'
      BY <1>4 DEF TickTriggered, Reads, Steady, BoxTypeOK, world
    <2>3. ArmedInv'
      BY <1>4, <2>1 DEF TickTriggered, Reads, Steady, BoxTypeOK, world, ArmedInv
    <2> QED BY <1>0, <2>1, <2>2, <2>3
  <1>5. CASE TickOnBattery
    <2>1. BusInv'
      BY <1>5, NotifyKeepsBusInv, Said DEF TickOnBattery
    <2>2. BoxTypeOK'
      BY <1>5 DEF TickOnBattery, Note, Reads, Steady, BoxTypeOK, world
    <2>3. ArmedInv'
      BY <1>5, <2>1 DEF TickOnBattery, Note, Reads, Steady, BoxTypeOK, world, ArmedInv
    <2> QED BY <1>0, <2>1, <2>2, <2>3
  <1>6. CASE TickOnLine
    <2>1. BusInv'
      BY <1>6, BusStutters, NotifyKeepsBusInv, Said DEF TickOnLine
    <2>2. BoxTypeOK'
      BY <1>6 DEF TickOnLine, Note, Reads, Steady, BoxTypeOK, world
    <2>3. ups = "OL"
      BY <1>6 DEF TickOnLine, Reads, BoxTypeOK, Statuses, lowBattery, onBattery
    <2>4. ArmedInv'
      BY <1>6, <2>1, <2>3 DEF TickOnLine, Note, Reads, Steady, BoxTypeOK,
                              world, lowBattery, ArmedInv
    <2> QED BY <1>0, <2>1, <2>2, <2>4
  <1> QED BY <1>1, <1>2, <1>3, <1>4, <1>5, <1>6 DEF Tick

\* Everything else keeps PowInv.
LEMMA OthersKeepPowInv ==
  ASSUME PowInv,
         \/ Flushed \/ ShutdownFails \/ Down \/ Boot \/ UpsChanges
         \/ Settings \/ Bus \/ UNCHANGED vars
  PROVE  PowInv'
  <1> USE DEF PowInv
  <1>1. BusInv'
    <2>1. CASE Bus
      BY <2>1, BusKeepsBusInv DEF Bus
    <2>2. CASE Down
      BY <2>2 DEF Down, BusInv, busHistory, BusTypeOK, NothingWithheld, live,
                  RingInv, PhoneHears, RingsOncePerWindow
    <2>3. CASE \/ Flushed \/ ShutdownFails \/ Boot \/ UpsChanges \/ Settings
               \/ UNCHANGED vars
      <3>1. UNCHANGED busVars
        BY <2>3 DEF Flushed, ShutdownFails, Boot, UpsChanges, Settings, vars
      <3> QED BY <3>1, BusStutters
    <2> QED BY <2>1, <2>2, <2>3
  <1>2. BoxTypeOK'
    BY DEF Bus, Down, Flushed, ShutdownFails, Boot, UpsChanges, Settings,
           vars, box, world, BoxTypeOK
  <1>3. CountInv' /\ (flushing' + shutting' > 0 => flushing + shutting > 0)
    <2>1. CASE Flushed
      BY <2>1, Bounds DEF Flushed, world, CountInv
    <2>2. CASE ShutdownFails
      BY <2>2, Bounds DEF ShutdownFails, world, CountInv
    <2>3. CASE Down
      BY <2>3, Bounds DEF Down, world, CountInv
    <2>4. CASE Boot
      BY <2>4, Bounds DEF Boot, world, CountInv
    <2>5. CASE UpsChanges
      <3>1. /\ changes < MaxChanges /\ changes' = changes + 1
            /\ UNCHANGED <<flushing, shutting, up, boots>>
        BY <2>5 DEF UpsChanges, box
      <3> QED BY <3>1, Bounds DEF CountInv
    <2>6. CASE Settings \/ Bus \/ UNCHANGED vars
      BY <2>6 DEF Settings, Bus, vars, box, world, CountInv
    <2> QED BY <2>1, <2>2, <2>3, <2>4, <2>5, <2>6
  <1>4. ArmedInv'
    <2>1. CASE Boot
      BY <2>1 DEF Boot, ArmedInv
    <2>2. UNCHANGED <<armed, triggered, since>> \/ Boot
      BY DEF Bus, Down, Flushed, ShutdownFails, UpsChanges, Settings,
             vars, box
    <2> QED BY <2>1, <2>2 DEF ArmedInv
  <1> QED BY <1>1, <1>2, <1>3, <1>4

\* PowInv holds in every reachable state.
THEOREM PowInvariance == Spec => []PowInv
  <1>1. PowInv /\ [Next]_vars => PowInv'
    BY TickKeepsPowInv, OthersKeepPowInv DEF Next
  <1> QED BY InitPowInv, <1>1, PTL DEF Spec

\* TypeOK of the monitor and the bus.
THEOREM PowTypeCorrect == Spec => []TypeOK
  <1>1. PowInv => TypeOK
    BY DEF PowInv, BusInv, BoxTypeOK, CountInv, TypeOK
  <1> QED BY PowInvariance, <1>1, PTL

\* NothingWithheld: notify and replayUndelivered leave nothing in the queue
\* while a client is connected.
THEOREM NoNoticeWithheld == Spec => []NothingWithheld
  <1>1. PowInv => NothingWithheld
    BY DEF PowInv, BusInv
  <1> QED BY PowInvariance, <1>1, PTL

\* PhoneHears: the push decided before the insert rings once in the window.
THEOREM PhoneRings == Spec => []PhoneHears
  <1>1. PowInv => PhoneHears
    BY DEF PowInv, BusInv
  <1> QED BY PowInvariance, <1>1, PTL

\* No step but the emergency's tick begins an emergency.
LEMMA OnlyEmergenciesCount ==
  ASSUME PowInv, [Next]_vars, flushing' > flushing
  PROVE  TickEmergency
  <1>1. flushing \in Int
    BY Bounds DEF PowInv, CountInv
  <1>2. ~UNCHANGED flushing
    BY <1>1
  <1>3. ~Flushed /\ ~Down
    BY <1>1, Bounds DEF PowInv, CountInv, Flushed, Down
  <1> QED BY <1>2, <1>3 DEF vars, box, Next, Tick, TickStrict, TickUnarmed,
         TickTriggered, TickOnBattery, TickOnLine, Steady, ShutdownFails,
         Boot, UpsChanges, Settings, Bus

\* NeverDownUnsaid holds of every emergency of every boot as long as the database
\* takes what notify writes: powerMonitorTick notifies in the turn of the event
\* loop in which it begins to await the backup.  What the database refuses is the
\* only cause of an emergency nobody hears of.
THEOREM EmergencyIsSaid ==
  ASSUME ~DatabaseMayFail
  PROVE  Spec => NeverDownUnsaid
  <1> DEFINE Said1 == \/ "powering off" \in queue'
                      \/ live # {}
                      \/ demoteTier("needs_attention", demote["ups"]) = "routine"
  <1>1. PowInv /\ [Next]_vars => [flushing' > flushing => Said1]_vars
    <2> SUFFICES ASSUME PowInv, [Next]_vars, flushing' > flushing
                 PROVE  Said1
      OBVIOUS
    <2>1. notify("powering off", "needs_attention", "ups")
      BY OnlyEmergenciesCount DEF TickEmergency
    <2> QED BY <2>1 DEF notify
  <1> QED BY PowInvariance, <1>1, PTL DEF Spec, NeverDownUnsaid

\* NoShutdownLoop: upsArmed and upsShutdownTriggered keep two emergencies
\* apart, across boots and strict mode.
THEOREM ShutdownsAreApart == Spec => NoShutdownLoop
  <1>1. PowInv /\ [Next]_vars =>
          [flushing' > flushing => "calm" \in since
                                   /\ since \cap {"line", "boot"} # {}]_vars
    <2> SUFFICES ASSUME PowInv, [Next]_vars, flushing' > flushing
                 PROVE  "calm" \in since /\ since \cap {"line", "boot"} # {}
      OBVIOUS
    <2>1. TickEmergency
      BY OnlyEmergenciesCount
    <2>2. armed /\ ~triggered
      BY <2>1 DEF TickEmergency, Reads, PowInv, BoxTypeOK
    <2> QED BY <2>2 DEF PowInv, ArmedInv
  <1> QED BY PowInvariance, <1>1, PTL DEF Spec, NoShutdownLoop
=============================================================================
