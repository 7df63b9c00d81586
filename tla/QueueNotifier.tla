---------------------------- MODULE QueueNotifier ----------------------------
(***************************************************************************)
(* How the workers of one process learn of queued items: an event they share,  *)
(* set by the publishers of the process and, through Redis, by those of other  *)
(* processes.  A wake-up is a hint; the claim decides (DurableQueue).         *)
(***************************************************************************)
EXTENDS Naturals, FiniteSets

CONSTANTS Workers, Local, Remote    \* items enqueued by this and by other processes

VARIABLES
  item,      \* "none", "committed", "published" or "claimed"
  event,     \* the event of the queue is set
  worker,    \* stage of each worker
  listener,  \* the subscription to Redis is up
  channel    \* a message is on its way to the listener

vars == <<item, event, worker, listener, channel>>

-----------------------------------------------------------------------------
Items == Local \union Remote

Init ==
  /\ item = [i \in Items |-> "none"]
  /\ event = FALSE
  /\ worker = [w \in Workers |-> "loop"]
  /\ listener = FALSE
  /\ channel = FALSE

\* Event.set resolves every waiter.
SetEvent ==
  /\ event' = TRUE
  /\ worker' = [w \in Workers |-> IF worker[w] = "waiting" THEN "woken" ELSE worker[w]]

-----------------------------------------------------------------------------
\* The row is committed before anything is published.
Enqueue(i) ==
  /\ item[i] = "none"
  /\ item' = [item EXCEPT ![i] = "committed"]
  /\ UNCHANGED <<event, worker, listener, channel>>


\* The item may have been claimed by then.
Published(i) == [item EXCEPT ![i] = IF @ = "committed" THEN "published" ELSE @]

PublishHere(i) ==
  /\ i \in Local /\ item[i] \in {"committed", "claimed"}
  /\ item' = Published(i)
  /\ SetEvent
  /\ UNCHANGED <<listener, channel>>

\* Redis drops the message when the listener is not subscribed.
PublishThere(i) ==
  /\ i \in Remote /\ item[i] \in {"committed", "claimed"}
  /\ item' = Published(i)
  /\ channel' = (channel \/ listener)
  /\ UNCHANGED <<event, worker, listener>>

\* _listen_forever: a message sets the event; a lost connection loses messages.
Listen ==
  /\ listener /\ channel
  /\ channel' = FALSE
  /\ SetEvent
  /\ UNCHANGED <<item, listener>>

Reconnect ==
  /\ listener' = ~listener
  /\ channel' = FALSE
  /\ UNCHANGED <<item, event, worker>>

-----------------------------------------------------------------------------
Unclaimed == {i \in Items : item[i] \in {"committed", "published"}}

Look(w) ==
  /\ worker[w] = "loop"
  /\ IF Unclaimed = {}
     THEN worker' = [worker EXCEPT ![w] = "idle"] /\ UNCHANGED item
     ELSE \E i \in Unclaimed :
            /\ item' = [item EXCEPT ![i] = "claimed"]
            /\ worker' = [worker EXCEPT ![w] = "executing"]
  /\ UNCHANGED <<event, listener, channel>>

Execute(w) ==
  /\ worker[w] = "executing"
  /\ worker' = [worker EXCEPT ![w] = "loop"]
  /\ UNCHANGED <<item, event, listener, channel>>

\* A mutant: the event is cleared before the worker waits for it.
ClearsFirst == [set |-> FALSE, kept |-> FALSE]

\* The event is cleared when the wait ends.
AtWait == [set |-> event, kept |-> FALSE]

\* wait: an event that is set ends it at once.
Wait(w) ==
  /\ worker[w] = "idle"
  /\ worker' = [worker EXCEPT ![w] = IF AtWait.set THEN "loop" ELSE "waiting"]
  /\ event' = AtWait.kept
  /\ UNCHANGED <<item, listener, channel>>

\* poll_seconds pass; until the worker resumes the event may still be set.
Timeout(w) ==
  /\ worker[w] = "waiting"
  /\ worker' = [worker EXCEPT ![w] = "woken"]
  /\ UNCHANGED <<item, event, listener, channel>>

\* The finally clause clears the event of all workers.
Resume(w) ==
  /\ worker[w] = "woken"
  /\ worker' = [worker EXCEPT ![w] = "loop"]
  /\ event' = FALSE
  /\ UNCHANGED <<item, listener, channel>>

Next ==
  \/ \E i \in Items : Enqueue(i) \/ PublishHere(i) \/ PublishThere(i)
  \/ Listen \/ Reconnect
  \/ \E w \in Workers : Look(w) \/ Execute(w) \/ Wait(w) \/ Timeout(w) \/ Resume(w)

Spec == Init /\ [][Next]_vars

-----------------------------------------------------------------------------
\* Every worker that executes has claimed an item of its own.
TypeOK ==
  /\ item \in [Items -> {"none", "committed", "published", "claimed"}]
  /\ event \in BOOLEAN /\ listener \in BOOLEAN /\ channel \in BOOLEAN
  /\ worker \in [Workers -> {"loop", "idle", "waiting", "woken", "executing"}]
  /\ channel => listener
  /\ Cardinality({w \in Workers : worker[w] = "executing"})
       <= Cardinality({i \in Items : item[i] = "claimed"})

\* A wake-up of this process is not lost, although every worker clears the event
\* of all: as long as an item it announced is unclaimed, the event is set or a
\* worker is going to look again before it sleeps.
WakeUpsAreNotLost ==
  \A i \in Local : item[i] = "published" =>
    event \/ \E w \in Workers : worker[w] \in {"loop", "woken", "executing"}
=============================================================================
