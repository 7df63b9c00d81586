--------------------------- MODULE MCDurableQueue ---------------------------
(* Instances of DurableQueue for TLC. *)
EXTENDS DurableQueue, TLC

CONSTANTS t1, t2, w1, w2, w3, p1, p2, c1

\* Both tasks belong to one Conversation.
MCConvShared == [t \in Tasks |-> c1]

\* All loops in one worker process, the deployment of the launcher script.
MCOneProcess == [w \in Workers |-> p1]

\* A combined process next to a worker process.
MCTwoProcesses == (w1 :> p1) @@ (w2 :> p2)

\* A worker process with two loops next to a combined process with one.
MCThreeLoops == (w1 :> p1) @@ (w2 :> p1) @@ (w3 :> p2)

SymWorkers == Permutations(Workers)

\* The two loops of the first process are interchangeable.
SymLoops == Permutations({w1, w2})

\* The two processes with their loops are interchangeable.
SymProcesses ==
  {[x \in {w1, w2, p1, p2} |-> x],
   (w1 :> w2) @@ (w2 :> w1) @@ (p1 :> p2) @@ (p2 :> p1)}
=============================================================================
