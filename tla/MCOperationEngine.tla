-------------------------- MODULE MCOperationEngine --------------------------
(* Small instances of OperationEngine for TLC. *)
EXTENDS OperationEngine, TLC

CONSTANTS o1, o2, o3, t1, t2

Plan(class, irreversible, autoApprove, checks, target) ==
  [class |-> class, irreversible |-> irreversible, autoApprove |-> autoApprove,
   badScope |-> FALSE, checks |-> checks, endsDaemon |-> FALSE,
   target |-> target]

\* systemd.restart of an ordinary unit, and of another one
Restart1 == Plan("mutate", FALSE, TRUE, TRUE, t1)
Restart2 == Plan("mutate", FALSE, TRUE, TRUE, t2)
\* a shell command without a verify command
Shell    == Plan("mutate", FALSE, FALSE, FALSE, t1)
\* an HTTP PUT that captured the previous body
Put      == Plan("mutate", FALSE, FALSE, TRUE, t1)
\* an HTTP POST with no undo
Post     == Plan("mutate", TRUE, TRUE, TRUE, t1)
\* an sshd unit or a firewall file
Firewall == Plan("lifeline", FALSE, TRUE, TRUE, t1)
\* a lifeline shell command whose roots exceed the snapshot cap
BigShell == Plan("lifeline", TRUE, FALSE, FALSE, t1)
Reboot   == [Plan("lifeline", TRUE, FALSE, TRUE, t1) EXCEPT !.endsDaemon = TRUE]
Root     == [Shell EXCEPT !.badScope = TRUE]

AllPlans  == {Restart1, Restart2, Shell, Post, Firewall, BigShell, Reboot, Root}
SerialPlans  == {Shell, Firewall}
LivePlans    == {Restart1, Firewall, Post, Reboot}
PutOnly      == {Put}

Symmetry == Permutations(Ops)
=============================================================================
