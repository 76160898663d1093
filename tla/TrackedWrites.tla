---------------------------- MODULE TrackedWrites ----------------------------
(***************************************************************************)
(* What a control entity promises about a write, with no task, poll, queue *)
(* or handle in sight.  A write that was accepted takes its entity over;   *)
(* it is followed until its fate is known, until it is given up, or until  *)
(* a later write or the end of the entity drops it; its own verdict, and a *)
(* reading, are all that can take its value away; and the user is told of  *)
(* a refusal, at the moment the write concludes, and of nothing else.      *)
(***************************************************************************)
CONSTANTS
  Entities,
  Calls,        \* the writes; each stands for the value it asks for
  EntityOf,
  NoCall

VARIABLES
  write,        \* new, sent, failed; followed, blind; concluded, dropped
  fate,         \* what became of it: unknown, pending, done, failed
  shows,        \* the write whose value the entity shows, or NoCall
  told          \* the writes whose refusal was reported

vars == <<write, fate, shows, told>>

Init ==
  /\ write = [c \in Calls |-> "new"]
  /\ fate = [c \in Calls |-> "unknown"]
  /\ shows = [e \in Entities |-> NoCall]
  /\ told = {}

Send(c) ==
  /\ write[c] = "new"
  /\ write' = [write EXCEPT ![c] = "sent"]
  /\ UNCHANGED <<fate, shows, told>>

(* The caller is told at once: nothing is shown and nothing is followed,   *)
(* whatever becomes of the command.                                        *)
Fail(c) ==
  /\ write[c] = "sent"
  /\ write' = [write EXCEPT ![c] = "failed"]
  /\ UNCHANGED <<fate, shows, told>>

(* A command meets its fate once, whether or not anybody still follows it. *)
Meets(c) ==
  /\ \/ fate[c] = "unknown" /\ write[c] = "sent" /\ fate' = [fate EXCEPT ![c] = "pending"]
     \/ /\ fate[c] = "pending"
        /\ \E f \in {"done", "failed"} : fate' = [fate EXCEPT ![c] = f]
  /\ UNCHANGED <<write, shows, told>>

(* An accepted write is shown, and the one its entity followed is dropped. *)
Return(c) ==
  /\ write[c] = "sent"
  /\ fate[c] # "unknown"
  /\ \E how \in {"followed", "blind"} :
       write' = [d \in Calls |->
                   IF d = c THEN how
                   ELSE IF EntityOf[d] = EntityOf[c] /\ write[d] = "followed"
                        THEN "dropped"
                   ELSE write[d]]
  /\ shows' = [shows EXCEPT ![EntityOf[c]] = c]
  /\ UNCHANGED <<fate, told>>

(* The value of c, and of no other write, is given up.                     *)
Withdraw(c) == shows' = [shows EXCEPT ![EntityOf[c]] = IF @ = c THEN NoCall ELSE @]

Landed(c) == fate[c] = "done" /\ UNCHANGED <<shows, told>>
Refused(c) == fate[c] = "failed" /\ Withdraw(c) /\ told' = told \cup {c}
GivenUp(c) == Withdraw(c) /\ UNCHANGED told

Conclude(c) ==
  /\ write[c] = "followed"
  /\ write' = [write EXCEPT ![c] = "concluded"]
  /\ Landed(c) \/ Refused(c) \/ GivenUp(c)
  /\ UNCHANGED fate

(* The entities that hear of a reading show it.                            *)
Reading(heard) ==
  /\ shows' = [e \in Entities |-> IF e \in heard THEN NoCall ELSE shows[e]]
  /\ UNCHANGED <<write, fate, told>>

(* The end of an entity, or of the entry, ends what it follows.            *)
Drop(gone) ==
  /\ \A c \in gone : write[c] = "followed"
  /\ write' = [c \in Calls |-> IF c \in gone THEN "dropped" ELSE write[c]]
  /\ UNCHANGED <<fate, shows, told>>

Next ==
  \/ \E c \in Calls : Send(c) \/ Fail(c) \/ Meets(c) \/ Return(c) \/ Conclude(c)
  \/ \E heard \in SUBSET Entities : Reading(heard)
  \/ \E gone \in SUBSET Calls : Drop(gone)

Spec == Init /\ [][Next]_vars
=============================================================================
