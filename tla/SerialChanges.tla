---------------------------- MODULE SerialChanges ----------------------------
(***************************************************************************)
(* What the operation engine promises to whoever looks at the server and   *)
(* at the final word on each operation: changes happen one at a time.  A   *)
(* change remembers what its target held when it began, writes that target *)
(* and no other, may put the remembered content back, and ends exactly     *)
(* once.  There is no crash, no lock, no queue and no boot here: the       *)
(* engine has to hide them (engine.ts: "writer exclusivity ... from        *)
(* captureState through its terminal outcome").                            *)
(***************************************************************************)
CONSTANTS Ops, Targets, Original, None

VARIABLES state,    \* per operation: "new", "open", "committed", "rolledback"
          content,  \* what each target holds
          current   \* the change in flight, or None

vars == <<state, content, current>>

Init ==
  /\ state = [o \in Ops |-> "new"]
  /\ content = [t \in Targets |-> Original]
  /\ current = None

\* An operation ends without having begun its change.
Decline(o) ==
  /\ state[o] = "new"
  /\ state' = [state EXCEPT ![o] = "rolledback"]
  /\ UNCHANGED <<content, current>>

Begin(o, t) ==
  /\ state[o] = "new"
  /\ current = None
  /\ state' = [state EXCEPT ![o] = "open"]
  /\ current' = [op |-> o, target |-> t, saved |-> content[t]]
  /\ UNCHANGED content

Write(o) ==
  /\ current # None /\ current.op = o
  /\ content' = [content EXCEPT ![current.target] = o]
  /\ UNCHANGED <<state, current>>

PutBack(o) ==
  /\ current # None /\ current.op = o
  /\ content' = [content EXCEPT ![current.target] = current.saved]
  /\ UNCHANGED <<state, current>>

Finish(o) ==
  /\ current # None /\ current.op = o
  /\ \E outcome \in {"committed", "rolledback"} :
        state' = [state EXCEPT ![o] = outcome]
  /\ current' = None
  /\ UNCHANGED content

Next ==
  \E o \in Ops : \/ Decline(o)
                 \/ \E t \in Targets : Begin(o, t)
                 \/ Write(o) \/ PutBack(o) \/ Finish(o)

Spec == Init /\ [][Next]_vars
=============================================================================
