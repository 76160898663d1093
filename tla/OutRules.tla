------------------------------ MODULE OutRules ------------------------------
(***************************************************************************)
(* What may be written to an out, and what each control decides to write.  *)
(* SetOut takes a state and a mode; which states a mode takes depends on   *)
(* the out, on the equipment the payload declares and, for the same number *)
(* 2, on the mode: "keep the output as it is", speed 2, or nothing.        *)
(*                                                                         *)
(* An equipment is a record of payload fields:                             *)
(*   index     the out                                                     *)
(*   heater    params.HeaterMode      trait  params.TraitMode              *)
(*   maxSpeed  PumpMaxSpeed; a payload without one reads as the ceiling    *)
(*   access    the account's level on the pool, or Unknown                 *)
(* and a reading is the out's part of it: [mode, status].                  *)
(***************************************************************************)
EXTENDS Integers

Off == 0
On == 1
Keep == 2
NoKeep == -1
Unknown == -1
NoSpeed == 0           \* _last_speed is None; 0 is never remembered

FiltrationIndex == 1
DisinfectantIndex == 3
HeaterIndex == 4
TreatmentIndexes == {2, 3, 8, 15}
MaxPumpSpeed == 7
CommandMin == 10
ParamAny == 16

Rule(states, keep, speed) == [states |-> states, keep |-> keep, speed |-> speed]
StopOnly == Rule({Off}, NoKeep, FALSE)
Free == Rule({Off, On, Keep}, Keep, FALSE)
Owned == Rule({Keep}, Keep, FALSE)

(* An out that cannot be written at all offers no mode; read-only and "no  *)
(* such mode" refuse alike.                                                *)
ReadOnly == [m \in {} |-> Owned]

(* Manuel stops it, `free` modes take on and off, `owned` ones the keep    *)
(* state alone.                                                            *)
Dosing(free, owned) ==
  [m \in {0} \cup free \cup owned |->
     IF m = 0 THEN StopOnly ELSE IF m \in free THEN Free ELSE Owned]

Switched == [m \in {0, 1, 2, 4, 6, 8} |-> IF m \in {1, 4} THEN Owned ELSE Free]
PH == Dosing({2}, {3})
Flocculant == Dosing({2}, {})
Hybrid == [m \in {2} |-> Free]

HeaterVariant(heater) ==
  IF heater \in {1, 3} THEN Dosing({}, {3})
  ELSE IF heater \in {2, 4} THEN Dosing({}, {1, 2, 3})
  ELSE ReadOnly

TraitVariant(trait) ==
  IF trait \in {1, 4} THEN Dosing({2}, {3})
  ELSE IF trait \in {2, 3, 6, 8} THEN Dosing({}, {2, 3, 4, 5})
  ELSE IF trait = 5 THEN Dosing({2}, {3, 4})
  ELSE ReadOnly

PumpSpeeds(maxSpeed) == IF maxSpeed > MaxPumpSpeed THEN MaxPumpSpeed ELSE maxSpeed

Filtration(speeds) ==
  [m \in {0, 1, 3, 6} |->
     IF m = 0 THEN Rule(0..speeds, NoKeep, TRUE)
     ELSE IF m = 6 THEN Rule({Off, On}, NoKeep, FALSE)
     ELSE Owned]

(* klereo_out_mode_states: the one answer to what an out takes.            *)
ModeStates(eq) ==
  IF eq.index = HeaterIndex THEN HeaterVariant(eq.heater)
  ELSE IF eq.index = DisinfectantIndex THEN TraitVariant(eq.trait)
  ELSE IF eq.index = FiltrationIndex THEN Filtration(PumpSpeeds(eq.maxSpeed))
  ELSE IF eq.index = 2 THEN PH
  ELSE IF eq.index = 8 THEN Flocculant
  ELSE IF eq.index = 15 THEN Hybrid
  ELSE IF eq.index \in {0} \cup 5..14 THEN Switched
  ELSE ReadOnly

(* klereo_out_refusal, SetOut's own gate on the account.                   *)
Refused(eq) ==
  /\ eq.access # Unknown
  /\ \/ eq.access < CommandMin
     \/ eq.access < ParamAny /\ eq.index \in TreatmentIndexes

Write(state, mode) == [state |-> state, mode |-> mode]

(* What a decision sends: one write, or none when the call is refused.     *)
----------------------------------------------------------------------------
(* _on_state: "on" is the last speed seen where the states are speeds.     *)
OnState(rule, lastSpeed) ==
  IF rule.speed /\ lastSpeed # NoSpeed /\ lastSpeed \in rule.states
  THEN lastSpeed ELSE On

Switching(eq, reading, state) ==
  LET rules == ModeStates(eq) IN
    {w \in {Write(state, reading.mode)} :
       /\ ~Refused(eq)
       /\ reading.mode \in DOMAIN rules
       /\ state \in rules[reading.mode].states}

(* Mutant: the switch writes Manuel, whatever mode the out is in.          *)
SwitchOnInManuel(eq, reading, lastSpeed) ==
  IF 0 \in DOMAIN ModeStates(eq)
  THEN Switching(eq, [reading EXCEPT !.mode = 0],
                 OnState(ModeStates(eq)[0], lastSpeed))
  ELSE {}

(* KlereoOut.async_turn_on and async_turn_off.                             *)
SwitchOn(eq, reading, lastSpeed) ==
  IF reading.mode \in DOMAIN ModeStates(eq)
  THEN Switching(eq, reading, OnState(ModeStates(eq)[reading.mode], lastSpeed))
  ELSE {}

SwitchOff(eq, reading) == Switching(eq, reading, Off)

(* Mutant: a permitted number is taken for a speed in any mode.            *)
SpeedInAnyMode(eq, reading, speed) ==
  {w \in {Write(speed, reading.mode)} :
     /\ eq.index = FiltrationIndex
     /\ ~Refused(eq)
     /\ reading.mode \in DOMAIN ModeStates(eq)
     /\ speed \in ModeStates(eq)[reading.mode].states}

(* KlereoFiltrationSpeed.async_set_native_value.                           *)
SetSpeed(eq, reading, speed) ==
  LET rules == ModeStates(eq) IN
    {w \in {Write(speed, reading.mode)} :
       /\ eq.index = FiltrationIndex
       /\ PumpSpeeds(eq.maxSpeed) >= 2
       /\ ~Refused(eq)
       /\ reading.mode \in DOMAIN rules
       /\ rules[reading.mode].speed
       /\ speed \in rules[reading.mode].states}

(* Mutant: a mode with no keep state sends "none" for a state.             *)
KeepOrNone(rule, status) == {rule.keep}

(* Mutant: 2 is taken to keep the output in every mode that switches it.   *)
KeepEverywhere(rule, status) ==
  IF \E s \in rule.states : rule.states = {s} THEN rule.states ELSE {Keep}

(* Mutant: 2 is written wherever it is permitted, speed or not.            *)
KeepWherePermitted(rule, status) ==
  IF Keep \in rule.states THEN {Keep}
  ELSE IF \E s \in rule.states : rule.states = {s} THEN rule.states
  ELSE {status} \cap rule.states

(* _state_for: the mode's keep state, else its only state, else the status *)
(* the payload carries, else refuse.                                       *)
StateFor(rule, status) ==
  IF rule.keep # NoKeep THEN {rule.keep}
  ELSE IF \E s \in rule.states : rule.states = {s} THEN rule.states
  ELSE {status} \cap rule.states

(* Mutant: the select does not ask what the account may do.                *)
SelectUnasked(eq, reading, mode) ==
  IF mode \notin DOMAIN ModeStates(eq) THEN {}
  ELSE {Write(s, mode) : s \in StateFor(ModeStates(eq)[mode], reading.status)}

(* KlereoOutMode.async_select_option.                                      *)
SelectMode(eq, reading, mode) ==
  IF Refused(eq) \/ mode \notin DOMAIN ModeStates(eq) THEN {}
  ELSE {Write(s, mode) : s \in StateFor(ModeStates(eq)[mode], reading.status)}
=============================================================================
