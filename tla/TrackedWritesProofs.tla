------------------------- MODULE TrackedWritesProofs -------------------------
(***************************************************************************)
(* What follows from TrackedWrites alone, and so holds of whatever         *)
(* implements it: whoever reads a control or hears of a refusal need know  *)
(* no more than that promise.                                              *)
(***************************************************************************)
EXTENDS TrackedWrites, TLAPS

(* An entity follows one write at a time, and while it does it shows that  *)
(* write's value or a reading (OneConfirmation and VerdictIsOwn are this   *)
(* of the tasks and handles).                                              *)
OneFollowed ==
  \A c \in Calls :
    write[c] = "followed" =>
      /\ shows[EntityOf[c]] \in {c, NoCall}
      /\ \A d \in Calls : write[d] = "followed" /\ EntityOf[d] = EntityOf[c] => d = c

(* What is reported was followed to its end and refused by the pod, even   *)
(* long after (EventsAreRefusals).                                         *)
ToldOfRefusals == \A c \in told : write[c] = "concluded" /\ fate[c] = "failed"

(* A value shown was accepted, by the entity that shows it; and one that   *)
(* still is when its confirmation has concluded was applied by the pod     *)
(* (AccountedFor, while the entity is there).                              *)
ShownIsAccepted ==
  \A e \in Entities :
    LET c == shows[e] IN
      c # NoCall =>
        /\ c \in Calls /\ EntityOf[c] = e
        /\ fate[c] # "unknown"
        /\ write[c] \in {"followed", "blind", "concluded", "dropped"}
        /\ write[c] = "concluded" => fate[c] = "done"

Tells == OneFollowed /\ ToldOfRefusals /\ ShownIsAccepted

Stages == {"new", "sent", "failed", "followed", "blind", "concluded", "dropped"}
Fates == {"unknown", "pending", "done", "failed"}

(* Nothing is followed, reported or shown before its command is in the     *)
(* queue, which is what keeps the three true.                              *)
PromiseInv ==
  /\ write \in [Calls -> Stages] /\ fate \in [Calls -> Fates]
  /\ shows \in [Entities -> Calls \cup {NoCall}] /\ told \subseteq Calls
  /\ \A c \in Calls : write[c] = "followed" => fate[c] # "unknown"
  /\ Tells

(* The promise alone makes these hold, for any entities and writes: what   *)
(* the invariants of Commands say of its confirmations is not lost in it.  *)
THEOREM PromiseTells ==
  ASSUME EntityOf \in [Calls -> Entities], NoCall \notin Calls
  PROVE  Spec => []Tells
  <1>1. Init => PromiseInv
    BY DEF Init, PromiseInv, Tells, OneFollowed, ToldOfRefusals, ShownIsAccepted,
           Stages, Fates
  <1>2. PromiseInv /\ [Next]_vars => PromiseInv'
    <2> SUFFICES ASSUME PromiseInv, [Next]_vars PROVE PromiseInv'
      OBVIOUS
    <2> USE DEF PromiseInv, Tells, OneFollowed, ToldOfRefusals, ShownIsAccepted,
                Stages, Fates
    <2>1. ASSUME NEW c \in Calls, Send(c) PROVE PromiseInv'
      BY <2>1 DEF Send
    <2>2. ASSUME NEW c \in Calls, Fail(c) PROVE PromiseInv'
      BY <2>2 DEF Fail
    <2>3. ASSUME NEW c \in Calls, Meets(c) PROVE PromiseInv'
      BY <2>3 DEF Meets
    <2>4. ASSUME NEW c \in Calls, Return(c) PROVE PromiseInv'
      BY <2>4 DEF Return
    <2>5. ASSUME NEW c \in Calls, Conclude(c) PROVE PromiseInv'
      BY <2>5 DEF Conclude, Landed, Refused, GivenUp, Withdraw
    <2>6. ASSUME NEW heard \in SUBSET Entities, Reading(heard)
          PROVE  PromiseInv'
      BY <2>6 DEF Reading
    <2>7. ASSUME NEW gone \in SUBSET Calls, Drop(gone) PROVE PromiseInv'
      BY <2>7 DEF Drop
    <2>8. CASE UNCHANGED vars
      BY <2>8 DEF vars
    <2> QED BY <2>1, <2>2, <2>3, <2>4, <2>5, <2>6, <2>7, <2>8 DEF Next
  <1>3. PromiseInv => Tells
    BY DEF PromiseInv
  <1> QED BY <1>1, <1>2, <1>3, PTL DEF Spec
==============================================================================
