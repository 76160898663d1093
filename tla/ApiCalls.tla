------------------------------ MODULE ApiCalls ------------------------------
(***************************************************************************)
(* What the integration may count on of a call of its KlereoAPI, with no   *)
(* token in sight: the server carries it out once or not at all; it is     *)
(* answered only if it was carried out; KlereoAuthError means that it was  *)
(* not; and any other error leaves open whether it was.  Commands builds   *)
(* on exactly this: a write may be in the queue although its call raised,  *)
(* and is never there twice.                                               *)
(***************************************************************************)
EXTENDS Naturals

CONSTANT Callers

VARIABLES
  stage,        \* idle, called; then answered, failed, unauthorized
  carried       \* how many times the server carried the call out

vars == <<stage, carried>>

Init ==
  /\ stage = [t \in Callers |-> "idle"]
  /\ carried = [t \in Callers |-> 0]

(* A caller makes one call after another.                                  *)
Begins(t) ==
  /\ stage[t] # "called"
  /\ stage' = [stage EXCEPT ![t] = "called"]
  /\ carried' = [carried EXCEPT ![t] = 0]

Ends(t, outcome) ==
  /\ stage[t] = "called"
  /\ carried[t] = 0
  /\ stage' = [stage EXCEPT ![t] = outcome]

Answered(t) == Ends(t, "answered") /\ carried' = [carried EXCEPT ![t] = 1]

Failed(t) ==
  /\ Ends(t, "failed")
  /\ \E n \in 0..1 : carried' = [carried EXCEPT ![t] = n]

Unauthorized(t) == Ends(t, "unauthorized") /\ UNCHANGED carried

Next ==
  \E t \in Callers : Begins(t) \/ Answered(t) \/ Failed(t) \/ Unauthorized(t)

Spec == Init /\ [][Next]_vars
=============================================================================
