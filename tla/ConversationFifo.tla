-------------------------- MODULE ConversationFifo --------------------------
(***************************************************************************)
(* What the durable queue promises about the order of work (ADR 0018): the *)
(* jobs of one Conversation are taken up strictly in the order in which    *)
(* they were accepted, one at a time, and a closed job is never taken up   *)
(* again.  Workers, leases, retries and crashes are not visible here.      *)
(***************************************************************************)
EXTENDS Naturals

CONSTANTS
  Jobs,
  Conv,        \* [Jobs -> conversation or NoConv]
  NoConv       \* a job outside every Conversation

VARIABLES
  phase,       \* absent, waiting, active or closed
  position     \* rank in the order of acceptance (0: not accepted yet)

abstractVars == <<phase, position>>

FifoTypeOK ==
  /\ phase \in [Jobs -> {"absent", "waiting", "active", "closed"}]
  /\ position \in [Jobs -> Nat]

FifoInit ==
  /\ phase = [j \in Jobs |-> "absent"]
  /\ position = [j \in Jobs |-> 0]

Precedes(i, j) ==
  i # j /\ Conv[i] # NoConv /\ Conv[i] = Conv[j] /\ position[i] < position[j]

Pending == {"waiting", "active"}

\* Some jobs are accepted, behind all the others; a restart may at the same
\* time give work back.
Enter(j) ==
  /\ phase[j] = "absent"
  /\ phase'[j] = "waiting"
  /\ \A i \in Jobs : position[i] < position'[j]

\* Work is given back or closed.
GiveBackOrClose(j) ==
  /\ phase[j] \in Pending
  /\ phase'[j] \in {"waiting", "closed"}
  /\ position'[j] = position[j]

\* A job is taken up when no earlier job of its Conversation is pending.
TakeUp(j) ==
  /\ phase[j] = "waiting"
  /\ phase'[j] = "active"
  /\ position'[j] = position[j]
  /\ \A i \in Jobs : Precedes(i, j) => phase'[i] \notin Pending

Stay(j) == phase'[j] = phase[j] /\ position'[j] = position[j]

FifoNext ==
  /\ phase' \in [Jobs -> {"absent", "waiting", "active", "closed"}]
  /\ position' \in [Jobs -> Nat]
  /\ \A j \in Jobs : Enter(j) \/ GiveBackOrClose(j) \/ TakeUp(j) \/ Stay(j)
  /\ \A i, j \in Jobs : TakeUp(i) /\ TakeUp(j) => i = j
  /\ \A i, j \in Jobs : Enter(i) /\ Enter(j) /\ position'[i] = position'[j] => i = j

FifoSpec == FifoInit /\ [][FifoNext]_abstractVars
=============================================================================
