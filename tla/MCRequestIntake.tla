-------------------------- MODULE MCRequestIntake --------------------------
(* A small instance of RequestIntake: for each endpoint a request, retries   *)
(* of it and a request that reuses the key for another body.                 *)
EXTENDS RequestIntake

CONSTANTS post, retry, misuse, open, reopen, clash, key, b1, b2

MCKeyOf == [r \in Requests |-> key]
MCBodyOf == [r \in Requests |-> IF r \in {misuse, clash} THEN b2 ELSE b1]
=============================================================================
