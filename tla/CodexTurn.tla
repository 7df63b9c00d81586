------------------------------ MODULE CodexTurn ------------------------------
(***************************************************************************)
(* CodexAppServerRuntime.execute: one turn on a child process that speaks     *)
(* JSON lines over its pipes.  The client sends its requests one by one,      *)
(* answers those of the server and collects what the server notifies of the   *)
(* turn.  The process may fall silent, exit or fail at any point, and the     *)
(* task may be cancelled.                                                    *)
(***************************************************************************)
EXTENDS Naturals, Sequences

CONSTANT MaxItems    \* bound on the lines of a server that answer no request

VARIABLES
  child,    \* the process, what it has served, and the items of the turn it reported
  pipe,     \* lines it has written that were not read
  client,   \* stage of the client and the items it has collected
  asked     \* the requests of the server and their answers

vars == <<child, pipe, client, asked>>

-----------------------------------------------------------------------------
\* initialize, account/read, thread/start or thread/resume, turn/start.
TurnStart == 4

Init ==
  /\ child = [runs |-> TRUE, served |-> 0, open |-> FALSE, items |-> 0, reported |-> <<>>]
  /\ pipe = <<>>
  /\ client = [stage |-> "request", step |-> 1, collected |-> <<>>, request |-> 0, outcome |-> "none"]
  /\ asked = <<>>

Line(kind, turn, value) == [kind |-> kind, turn |-> turn, value |-> value]

-----------------------------------------------------------------------------
(* The server: it answers in order and reports the turn after its response  *)
(* to turn/start; a resumed thread also reports other turns.                *)

Write(line) == child.runs /\ pipe' = Append(pipe, line)

Respond ==
  /\ child.served < client.step /\ client.stage # "ended"
  /\ \E outcome \in {"result", "error"} :
       Write(Line("response", "none", outcome))
  /\ child' = [child EXCEPT !.served = @ + 1, !.open = (child.served + 1 = TurnStart)]
  /\ UNCHANGED <<client, asked>>

NewItem == child.items < MaxItems /\ child.served > 0

ReportItem ==
  /\ NewItem
  /\ \E turn \in IF child.open THEN {"own", "other", "none"} ELSE {"other"} :
       /\ Write(Line("item", turn, child.items + 1))
       /\ child' = [child EXCEPT !.items = @ + 1,
                      !.reported = IF turn = "other" THEN @ ELSE Append(@, child.items + 1)]
  /\ UNCHANGED <<client, asked>>

\* Approvals are asked within the turn; other requests at any time.
AskClient ==
  /\ NewItem
  /\ \E type \in IF child.open THEN {"approval", "other"} ELSE {"other"} :
       /\ Write(Line("request", "none", Len(asked) + 1))
       /\ asked' = Append(asked, [type |-> type, inTurn |-> child.open, answers |-> <<>>])
  /\ child' = [child EXCEPT !.items = @ + 1]
  /\ UNCHANGED client

CompleteTurn ==
  /\ \/ /\ child.open
        /\ \E outcome \in {"completed", "failed"} : Write(Line("end", "own", outcome))
        /\ child' = [child EXCEPT !.open = FALSE]
     \/ /\ NewItem
        /\ Write(Line("end", "other", "completed"))
        /\ child' = [child EXCEPT !.items = @ + 1]
  /\ UNCHANGED <<client, asked>>

Exit ==
  /\ child.runs
  /\ child' = [child EXCEPT !.runs = FALSE, !.open = FALSE]
  /\ UNCHANGED <<pipe, client, asked>>

-----------------------------------------------------------------------------
(* The client.                                                              *)

\* The finally clause terminates the process, or kills it after five seconds.
Ended(outcome) ==
  /\ client' = [client EXCEPT !.stage = "ended", !.outcome = outcome]
  /\ child' = [child EXCEPT !.runs = FALSE, !.open = FALSE]
  /\ asked' = asked

Reading == client.stage \in {"request", "turn"} /\ pipe # <<>>

FirstLine == Head(pipe)



Waits(type) == type = "approval"

\* handle_server_request: an approval waits for the operator; every other
\* request is answered at once.
ReadRequest ==
  /\ Reading /\ FirstLine.kind = "request"
  /\ pipe' = Tail(pipe)
  /\ IF Waits(asked[FirstLine.value].type)
     THEN /\ client' = [client EXCEPT !.request = FirstLine.value,
                          !.stage = IF @ = "turn" THEN "turn approval" ELSE "request approval"]
          /\ UNCHANGED asked
     ELSE /\ asked' = [asked EXCEPT ![FirstLine.value].answers = Append(@, "empty")]
          /\ UNCHANGED client
  /\ UNCHANGED child

Deciding == client.stage \in {"turn approval", "request approval"}

\* The decision is sent; without the capability to ask it is "decline".
Decide ==
  /\ Deciding
  /\ \E decision \in {"accept", "decline"} :
       asked' = [asked EXCEPT ![client.request].answers = Append(@, decision)]
  /\ client' = [client EXCEPT !.stage = IF @ = "turn approval" THEN "turn" ELSE "request"]
  /\ UNCHANGED <<child, pipe>>

\* request: any line but the response is skipped.
ReadWhileRequesting ==
  /\ Reading /\ client.stage = "request" /\ FirstLine.kind # "request"
  /\ pipe' = Tail(pipe)
  /\ IF FirstLine.kind # "response" THEN UNCHANGED <<child, client, asked>>
     ELSE IF FirstLine.value = "error" THEN Ended("failed")
     ELSE /\ client' = IF client.step = TurnStart THEN [client EXCEPT !.stage = "turn"]
                       ELSE [client EXCEPT !.step = @ + 1]
          /\ UNCHANGED <<child, asked>>

\* A mutant: the lines of every turn are taken.
AnyTurn == TRUE

\* Lines that name no turn are taken for the own one.
OwnTurn == FirstLine.turn \in {"own", "none"}


EndsTurn == FirstLine.kind = "end" /\ OwnTurn

ReadNotification ==
  /\ Reading /\ client.stage = "turn" /\ FirstLine.kind # "request"
  /\ pipe' = Tail(pipe)
  /\ IF EndsTurn THEN Ended(IF FirstLine.value = "failed" THEN "failed" ELSE "completed")
     ELSE /\ client' = IF FirstLine.kind = "item" /\ OwnTurn
                       THEN [client EXCEPT !.collected = Append(@, FirstLine.value)] ELSE client
          /\ UNCHANGED <<child, asked>>

\* The read times out or meets the end of the output; an event cannot be
\* stored; the task is cancelled, also while the operator decides.
Fail ==
  /\ client.stage # "ended"
  /\ Ended("failed")
  /\ UNCHANGED pipe

Next ==
  \/ Respond \/ ReportItem \/ AskClient \/ CompleteTurn \/ Exit
  \/ ReadRequest \/ Decide \/ ReadWhileRequesting \/ ReadNotification \/ Fail

Spec == Init /\ [][Next]_vars

-----------------------------------------------------------------------------
\* The turn advances within its steps, and while the client decides, the request
\* it decides is an approval without an answer.
TypeOK ==
  /\ child.served \in 0..TurnStart /\ child.items \in 0..MaxItems
  /\ client.step \in 1..TurnStart
  /\ client.stage \in {"request", "turn", "turn approval", "request approval", "ended"}
  /\ Deciding => asked[client.request].type = "approval" /\ asked[client.request].answers = <<>>

\* A completed turn has collected what the server reported of it, in order:
\* nothing of another turn of the thread, nothing lost around the requests the
\* client answered in between.
ResultIsTheTurn == client.outcome = "completed" => client.collected = child.reported

\* No request of the server is answered twice; when the turn completes every
\* request it made within the turn has its answer, an approval the decision.
RequestsAreAnswered ==
  \A i \in DOMAIN asked :
    /\ Len(asked[i].answers) <= 1
    /\ client.outcome = "completed" /\ asked[i].inTurn =>
         /\ Len(asked[i].answers) = 1
         /\ asked[i].type = "approval" => asked[i].answers[1] \in {"accept", "decline"}

\* The client and the server agree on the turn when it has completed.
TurnIsShared == ResultIsTheTurn /\ RequestsAreAnswered
=============================================================================
