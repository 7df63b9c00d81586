----------------------------- MODULE MCEventLog -----------------------------
(* Small instances of EventLog. *)
EXTENDS EventLog, TLC

CONSTANTS t1, t2, t3, c1

MCConvShared == [t \in Tasks |-> c1]
MCConvMixed == [t \in Tasks |-> IF t = t3 THEN NoConv ELSE c1]
SymTasks == Permutations(Tasks)
=============================================================================
