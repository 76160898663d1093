----------------------------- MODULE OutControl -----------------------------
(***************************************************************************)
(* The controls of one out: its switch, its mode select and, on the        *)
(* filtration, the speed.  All three write the same SetOut (state, mode)   *)
(* pair, each completing what the user asked for from the last payload,    *)
(* while writes wait in the server's queue and the pod is changed by its   *)
(* schedules and by other applications.  What each decides is in OutRules; *)
(* how a write is shown and followed is in Commands.                       *)
(***************************************************************************)
EXTENDS OutRules, Sequences

CONSTANTS
  Equipments,   \* the outs considered, one in each behaviour
  Others,       \* whether anything but Home Assistant changes the pod
  MaxWrites     \* bound: writes waiting at a time

ASSUME EquipmentsAssumption ==
  Equipments \subseteq [index : Nat, heater : Int, trait : Int, maxSpeed : Int,
                        access : Int]
ASSUME OthersAssumption == Others \in BOOLEAN
ASSUME MaxWritesAssumption == MaxWrites \in Nat \ {0}

VARIABLES
  eq,           \* what the payload declares of the out
  pod,          \* the out's mode and status on the pod
  payload,      \* the same in coordinator.data
  reachable,    \* coordinator.last_update_success
  up,           \* the entities exist
  lastSpeed,    \* the switch's _last_speed
  saved,        \* the LastSpeed Home Assistant keeps while they do not
  sent,         \* the writes queued for the pod, oldest first
  seen,         \* ghost: the last speed a payload showed the pump running at
  forgotten     \* ghost: an unavailable switch was stopped since

speedVars == <<lastSpeed, saved, seen, forgotten>>
controlVars == <<payload, reachable, up, speedVars>>
vars == <<eq, pod, payload, reachable, up, lastSpeed, saved, sent, seen,
          forgotten>>

(* A mode no table names.                                                  *)
ReservedMode == 7

(* The filtration's status is a speed, any other's is off, on or unknown.  *)
Statuses(e) ==
  IF e.index = FiltrationIndex /\ PumpSpeeds(e.maxSpeed) < 2 THEN {Off, On}
  ELSE IF e.index = FiltrationIndex THEN 0..PumpSpeeds(e.maxSpeed)
  ELSE {Off, On, Keep}

Readings(e) ==
  [mode : DOMAIN ModeStates(e) \cup {ReservedMode}, status : Statuses(e)]

(* _learn_speed: 0 is "stopped", not a speed to resume.                    *)
Learn(speed, reading) ==
  IF eq.index = FiltrationIndex /\ reading.status > Off
  THEN reading.status ELSE speed

(* What the ghosts make of a payload.                                      *)
Sees(reading) ==
  LET runs == eq.index = FiltrationIndex /\ reading.status \in 1..MaxPumpSpeed
  IN  /\ seen' = IF runs THEN reading.status ELSE seen
      /\ forgotten' = (forgotten /\ ~runs)

----------------------------------------------------------------------------
(* Setup's first refresh has succeeded and the switch has learned from it. *)
Init ==
  /\ eq \in Equipments
  /\ pod \in Readings(eq)
  /\ payload = pod
  /\ reachable = TRUE
  /\ up = TRUE
  /\ seen = IF eq.index = FiltrationIndex THEN pod.status ELSE NoSpeed
  /\ lastSpeed = seen
  /\ saved = NoSpeed
  /\ forgotten = FALSE
  /\ sent = <<>>

(* Home Assistant runs no service on an entity that is unavailable.        *)
Usable == up /\ reachable /\ Len(sent) < MaxWrites

(* SetOut takes the write the control decided on, if it decided on one.    *)
(* Ghosts: the control that sent it, and whether the reading it was        *)
(* completed from is still what the pod has.                               *)
Sends(control, decision) ==
  /\ Usable
  /\ \E w \in decision :
       sent' = Append(sent, [by |-> control, state |-> w.state,
                             mode |-> w.mode, fresh |-> payload = pod])
  /\ UNCHANGED <<eq, pod, controlVars>>

TurnOn == Sends("on", SwitchOn(eq, payload, lastSpeed))
TurnOff == Sends("off", SwitchOff(eq, payload))
AskSpeed(speed) == Sends("speed", SetSpeed(eq, payload, speed))
AskMode(mode) == Sends("mode", SelectMode(eq, payload, mode))

----------------------------------------------------------------------------
(* The pod becomes `reading`; the writes in `waiting` were decided before. *)
Becomes(reading, waiting) ==
  /\ pod' = reading
  /\ sent' = [i \in DOMAIN waiting |->
                [waiting[i] EXCEPT !.fresh = @ /\ reading = pod]]
  /\ UNCHANGED <<eq, controlVars>>

(* The pod takes the oldest write: the keep state of its mode leaves the   *)
(* output as it is, any other state drives it (external).                  *)
PodApplies ==
  /\ sent # <<>>
  /\ LET w == Head(sent)
         keeps == w.state = ModeStates(eq)[w.mode].keep
     IN  Becomes([mode |-> w.mode,
                  status |-> IF keeps THEN pod.status ELSE w.state], Tail(sent))

(* Or refuses it (external).                                               *)
PodRefuses ==
  /\ sent # <<>>
  /\ sent' = Tail(sent)
  /\ UNCHANGED <<eq, pod, controlVars>>

(* A schedule, a regulation, the front panel or the mobile app (external). *)
OutsideChange ==
  /\ Others
  /\ \E reading \in Readings(eq) \ {pod} : Becomes(reading, sent)

----------------------------------------------------------------------------
(* A poll brings the payload, and the switch learns the speed from it.     *)
Poll ==
  /\ up
  /\ payload' = pod
  /\ reachable' = TRUE
  /\ lastSpeed' = Learn(lastSpeed, pod)
  /\ Sees(pod)
  /\ UNCHANGED <<eq, pod, up, saved, sent>>

(* A failed one leaves the payload, and the entities unavailable.          *)
PollFails ==
  /\ up
  /\ reachable' = FALSE
  /\ UNCHANGED <<eq, pod, payload, up, speedVars, sent>>

(* Home Assistant stops, or the entry is unloaded.  What is kept of the    *)
(* switch is the state it shows, and an unavailable entity shows no        *)
(* attributes (external).                                                  *)
Stop ==
  /\ up
  /\ up' = FALSE
  /\ saved' = IF reachable THEN lastSpeed ELSE NoSpeed
  /\ lastSpeed' = NoSpeed
  /\ forgotten' = (forgotten \/ ~reachable)
  /\ UNCHANGED <<eq, pod, payload, reachable, sent, seen>>

(* Mutant: the state kept from before the restart is not read back.        *)
StartForgetful ==
  /\ ~up
  /\ up' = TRUE
  /\ payload' = pod
  /\ reachable' = TRUE
  /\ lastSpeed' = Learn(NoSpeed, pod)
  /\ saved' = NoSpeed
  /\ Sees(pod)
  /\ UNCHANGED <<eq, pod, sent>>

(* Setup again: __init__ learns from the first payload, and when the pump  *)
(* is stopped async_added_to_hass takes the LastSpeed that was kept.       *)
Start ==
  /\ ~up
  /\ up' = TRUE
  /\ payload' = pod
  /\ reachable' = TRUE
  /\ lastSpeed' = Learn(saved, pod)
  /\ saved' = NoSpeed
  /\ Sees(pod)
  /\ UNCHANGED <<eq, pod, sent>>

----------------------------------------------------------------------------
Next ==
  \/ TurnOn \/ TurnOff
  \/ \E speed \in 0..MaxPumpSpeed : AskSpeed(speed)
  \/ \E mode \in DOMAIN ModeStates(eq) : AskMode(mode)
  \/ PodApplies \/ PodRefuses \/ OutsideChange
  \/ Poll \/ PollFails \/ Stop \/ Start

Spec == Init /\ [][Next]_vars

----------------------------------------------------------------------------
TypeOK ==
  /\ eq \in Equipments
  /\ pod \in Readings(eq)
  /\ payload \in Readings(eq)
  /\ {reachable, up, forgotten} \subseteq BOOLEAN
  /\ {lastSpeed, saved, seen} \subseteq 0..MaxPumpSpeed
  /\ sent \in Seq([by : {"on", "off", "speed", "mode"}, state : 0..MaxPumpSpeed,
                   mode : DOMAIN ModeStates(eq), fresh : BOOLEAN])
  /\ Len(sent) <= MaxWrites

(* No control sends "a combination the firmware does not define": every    *)
(* queued pair is one the out's rules permit, whichever of the three       *)
(* controls put it together and from however old a payload.                *)
WritesPermitted ==
  \A i \in DOMAIN sent : sent[i].state \in ModeStates(eq)[sent[i].mode].states

(* No control writes for an account that may not: none below level 10, and *)
(* only level 16 commands the outs that dose the water.                    *)
AccessKept ==
  sent # <<>> => \/ eq.access = Unknown
                 \/ eq.access >= ParamAny
                 \/ eq.access >= CommandMin /\ eq.index \notin TreatmentIndexes

(* Applying the oldest write, when the reading it was completed from is    *)
(* still true of the pod.                                                  *)
AppliesFresh(controls) ==
  PodApplies /\ Head(sent).fresh /\ Head(sent).by \in controls

StopOnlyMode(mode) == ModeStates(eq)[mode].states = {Off}

(* README: "Changing the mode leaves the output doing whatever it was      *)
(* doing ... except Manuel on the dosing pumps, the disinfectant and the   *)
(* heating, which stop them".  As far as the payload told the truth.       *)
ModeChangeKeepsOutput ==
  [][AppliesFresh({"mode"}) =>
       \/ pod'.status = pod.status
       \/ StopOnlyMode(pod'.mode) /\ pod'.status = Off]_vars

(* A switch or a speed does what it says, never a number that means        *)
(* something else in the out's mode: the out ends on, off or at the speed. *)
CommandLands ==
  [][/\ AppliesFresh({"on"}) => pod'.status # Off
     /\ AppliesFresh({"off"}) => pod'.status = Off
     /\ AppliesFresh({"speed"}) => pod'.status = Head(sent).state]_vars

(* A switch or a speed never moves the out to another mode: "writing 0     *)
(* (Manuel) would pull a regulated output out of regulation".              *)
SwitchKeepsMode ==
  [][AppliesFresh({"on", "off", "speed"}) => pod'.mode = pod.mode]_vars

(* Turning the filtration on, in a mode whose states are speeds, sends the *)
(* last speed a payload showed, if the pump has it.                        *)
Resumes ==
  /\ TurnOn
  /\ ModeStates(eq)[payload.mode].speed
  /\ seen \in 1..PumpSpeeds(eq.maxSpeed)
  => sent'[Len(sent')].state = seen

(* README: "Turning the filtration on from the switch resumes its last     *)
(* known speed", through stops of the pump, mode changes and restarts,     *)
(* except a restart made while the pool could not be reached.              *)
ResumesSeenSpeed == [][~forgotten => Resumes]_vars

----------------------------------------------------------------------------
(* What the documentation says and the code does not keep.                 *)

(* "Changing the mode leaves the output doing whatever it was doing", and  *)
(* a switch carries "the out's current mode through", also when another    *)
(* control was used since the last poll.                                   *)
PendingWriteSurvives ==
  [][PodApplies =>
       /\ Head(sent).by = "mode" /\ ~StopOnlyMode(pod'.mode)
            => pod'.status = pod.status
       /\ Head(sent).by \in {"on", "off"} => pod'.mode = pod.mode]_vars

(* README: the last known speed is "remembered across restarts", with no   *)
(* exception.                                                              *)
RemembersAcrossRestarts == [][Resumes]_vars
=============================================================================
