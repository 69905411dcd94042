---------------------------- MODULE VersionTrial ----------------------------
(***************************************************************************)
(* What self-update promises to whoever uses the daemon: one version is at *)
(* home, and only that one serves.  Another is at most on trial; it comes  *)
(* home only after it has passed, and nothing serves before the trial is   *)
(* settled.  There is no symlink, no preflight, no count of boots and no   *)
(* power failure here: SelfUpdate has to hide them.                        *)
(***************************************************************************)
CONSTANTS Versions, Initial

VARIABLES home,    \* the version to serve, and to go back to
          trial,   \* the version on trial, if any: at most one
          passed,  \* the versions that may be at home
          served   \* what the daemon serves, {} while it is down or judged

vars == <<home, trial, passed, served>>

Init == home = Initial /\ trial = {} /\ passed = {Initial} /\ served = {Initial}

\* Chosen while home serves, perhaps in place of an earlier choice.
Begin(v) ==
  /\ served = {home}
  /\ trial' = {v}
  /\ UNCHANGED <<home, passed, served>>

Pass ==
  /\ trial # {} /\ served = {}
  /\ passed' = passed \cup trial
  /\ UNCHANGED <<home, trial, served>>

Settle ==
  /\ trial # {} /\ served = {}
  /\ home' \in {home} \cup (trial \cap passed)
  /\ trial' = {} /\ served' = {home'}
  /\ UNCHANGED passed

Stop ==
  /\ served' = {}
  /\ UNCHANGED <<home, trial, passed>>

Resume ==
  /\ trial = {} /\ served = {}
  /\ served' = {home}
  /\ UNCHANGED <<home, trial, passed>>

Next == (\E v \in Versions : Begin(v)) \/ Pass \/ Settle \/ Stop \/ Resume

Spec == Init /\ [][Next]_vars
=============================================================================
