-------------------------- MODULE OutControlProofs --------------------------
(***************************************************************************)
(* Every property of OutControl, for any outs and any number of writes     *)
(* waiting.  First what the tables of OutRules have in common; then one    *)
(* inductive invariant, whose strength is in what it says of each write    *)
(* in the queue: as long as the reading it was completed from is true of   *)
(* the pod, the write means there what the control that sent it meant.     *)
(***************************************************************************)
EXTENDS OutControl, TLAPS

(* A mode of a table stops the out, switches it freely, owns it, or is one *)
(* of the filtration's two.                                                *)
Shape(e, r) ==
  \/ r \in {StopOnly, Free, Owned}
  \/ /\ e.index = FiltrationIndex
     /\ r \in {Rule(0..PumpSpeeds(e.maxSpeed), NoKeep, TRUE),
               Rule({Off, On}, NoKeep, FALSE)}

(* The tables built by Dosing have nothing else.                           *)
LEMMA DosingShape ==
  ASSUME NEW e, NEW free, NEW owned, NEW m \in DOMAIN Dosing(free, owned)
  PROVE  Shape(e, Dosing(free, owned)[m])
  BY DEF Dosing, Shape

(* Nor has any table an out can be given.                                  *)
LEMMA EveryShape ==
  ASSUME NEW e, NEW m \in DOMAIN ModeStates(e)
  PROVE  Shape(e, ModeStates(e)[m])
  <1>1. CASE e.index = HeaterIndex
    <2>1. ModeStates(e) \in {Dosing({}, {3}), Dosing({}, {1, 2, 3}), ReadOnly}
      BY <1>1 DEF ModeStates, HeaterVariant
    <2>2. ModeStates(e) # ReadOnly
      BY DEF ReadOnly
    <2> QED BY <2>1, <2>2, DosingShape
  <1>2. CASE e.index = DisinfectantIndex
    <2>1. ModeStates(e) \in {Dosing({2}, {3}), Dosing({}, {2, 3, 4, 5}),
                             Dosing({2}, {3, 4}), ReadOnly}
      BY <1>2 DEF ModeStates, TraitVariant, HeaterIndex, DisinfectantIndex
    <2>2. ModeStates(e) # ReadOnly
      BY DEF ReadOnly
    <2> QED BY <2>1, <2>2, DosingShape
  <1>3. CASE e.index = FiltrationIndex
    <2>1. ModeStates(e) = Filtration(PumpSpeeds(e.maxSpeed))
      BY <1>3 DEF ModeStates, HeaterIndex, DisinfectantIndex, FiltrationIndex
    <2> QED BY <1>3, <2>1 DEF Filtration, Shape
  <1>4. CASE /\ e.index # HeaterIndex
             /\ e.index # DisinfectantIndex
             /\ e.index # FiltrationIndex
    <2>1. ModeStates(e) \in {PH, Flocculant, Hybrid, Switched, ReadOnly}
      BY <1>4 DEF ModeStates
    <2>2. ModeStates(e) # ReadOnly
      BY DEF ReadOnly
    <2>3. CASE ModeStates(e) \in {PH, Flocculant}
      BY <2>3, DosingShape DEF PH, Flocculant
    <2>4. CASE ModeStates(e) = Hybrid
      BY <2>4 DEF Hybrid, Shape
    <2>5. CASE ModeStates(e) = Switched
      BY <2>5 DEF Switched, Shape
    <2> QED BY <2>1, <2>2, <2>3, <2>4, <2>5
  <1> QED BY <1>1, <1>2, <1>3, <1>4

(* What the controls rely on: a mode's keep state is the number 2 and one  *)
(* of its states, no other state drives the out to a status it cannot      *)
(* have, only a mode without a keep state counts in speeds, and the one    *)
(* state of a mode that has no other and keeps nothing is a stop.          *)
LEMMA RuleFacts ==
  ASSUME NEW e \in Equipments, NEW m \in DOMAIN ModeStates(e)
  PROVE  LET r == ModeStates(e)[m] IN
         /\ r.states \subseteq 0..MaxPumpSpeed
         /\ r.keep = NoKeep \/ (r.keep = Keep /\ Keep \in r.states)
         /\ \A s \in r.states : s # r.keep => s \in Statuses(e)
         /\ r.speed => /\ r.keep = NoKeep
                       /\ r.states = 0..PumpSpeeds(e.maxSpeed)
         /\ \A s : r.keep = NoKeep /\ r.states = {s} => s = Off
  <1> DEFINE r == ModeStates(e)[m]
             n == PumpSpeeds(e.maxSpeed)
  <1>1. n \in Int /\ n <= MaxPumpSpeed
    BY EquipmentsAssumption DEF PumpSpeeds, MaxPumpSpeed
  <1>2. {Off, On} \subseteq Statuses(e)
    BY <1>1 DEF Statuses, Off, On, Keep
  <1> USE DEF Rule, Off, On, Keep, NoKeep, MaxPumpSpeed
  <1>3. CASE r \in {StopOnly, Free, Owned}
    <2>1. \A s \in r.states : s # r.keep => s \in {Off, On}
      BY <1>3 DEF StopOnly, Free, Owned
    <2> HIDE DEF r
    <2> QED BY <1>2, <1>3, <2>1 DEF StopOnly, Free, Owned, r
  <1>4. CASE r = Rule({Off, On}, NoKeep, FALSE)
    BY <1>2, <1>4
  <1>5. CASE e.index = FiltrationIndex /\ r = Rule(0..n, NoKeep, TRUE)
    <2>1. 0..n \subseteq Statuses(e)
      BY <1>1, <1>5 DEF Statuses
    <2>2. \A s : 0..n = {s} => s = Off
      <3> SUFFICES ASSUME NEW s, 0..n = {s} PROVE s = 0
        OBVIOUS
      <3>1. s \in 0..n
        OBVIOUS
      <3>2. 0 \in 0..n
        BY <1>1, <3>1
      <3> QED BY <3>2
    <2>3. r.states = 0..n /\ r.keep = NoKeep
      BY <1>5
    <2>4. 0..n \subseteq 0..MaxPumpSpeed
      BY <1>1
    <2> QED BY <2>1, <2>2, <2>3, <2>4
  <1> QED BY <1>3, <1>4, <1>5, EveryShape DEF Shape

----------------------------------------------------------------------------
(* What a write in the queue says until the pod takes it, of the out e     *)
(* with the pod's reading p.                                               *)
Queueable(e) ==
  [by : {"on", "off", "speed", "mode"}, state : 0..MaxPumpSpeed,
   mode : DOMAIN ModeStates(e), fresh : BOOLEAN]

(* A mode change keeps the status the pod has; a switch or a speed is no   *)
(* keep state, and stays in the mode the pod has.                          *)
Sound(e, p, w) ==
  LET rule == ModeStates(e)[w.mode] IN
    /\ w \in Queueable(e)
    /\ w.state \in rule.states
    /\ w.by = "mode" /\ w.fresh => w.state \in StateFor(rule, p.status)
    /\ w.by # "mode" => w.state # rule.keep
    /\ w.by # "mode" /\ w.fresh => w.mode = p.mode
    /\ w.by = "on" => w.state # Off
    /\ w.by = "off" => w.state = Off

Waiting ==
  /\ sent \in Seq(Queueable(eq))
  /\ Len(sent) <= MaxWrites
  /\ \A i \in 1..Len(sent) : Sound(eq, pod, sent[i])

(* The switch, or what Home Assistant kept of it, has the speed the        *)
(* payloads showed last.                                                   *)
Memory == ~forgotten => IF up THEN lastSpeed = seen ELSE saved = seen

Places ==
  /\ eq \in Equipments
  /\ pod \in Readings(eq)
  /\ payload \in Readings(eq)
  /\ {reachable, up, forgotten} \subseteq BOOLEAN
  /\ {lastSpeed, saved, seen} \subseteq 0..MaxPumpSpeed

Inv == Places /\ Waiting /\ AccessKept /\ Memory

----------------------------------------------------------------------------
(* No status is beyond the ceiling.                                        *)
LEMMA StatusBounds ==
  ASSUME NEW e \in Equipments PROVE Statuses(e) \subseteq 0..MaxPumpSpeed
  <1>1. PumpSpeeds(e.maxSpeed) \in Int /\ PumpSpeeds(e.maxSpeed) <= MaxPumpSpeed
    BY EquipmentsAssumption DEF PumpSpeeds, MaxPumpSpeed
  <1> QED BY <1>1 DEF Statuses, Off, On, Keep, MaxPumpSpeed

(* Setup leaves the invariant true.                                        *)
LEMMA InitInv == Init => Inv
  <1> SUFFICES ASSUME Init PROVE Inv
    OBVIOUS
  <1>1. pod.status \in 0..MaxPumpSpeed
    BY StatusBounds DEF Init, Readings
  <1>2. seen \in 0..MaxPumpSpeed /\ saved \in 0..MaxPumpSpeed
    BY <1>1 DEF Init, NoSpeed, MaxPumpSpeed
  <1>3. Places
    BY <1>2 DEF Init, Places
  <1>4. Waiting /\ AccessKept /\ Memory
    BY MaxWritesAssumption DEF Init, Waiting, AccessKept, Memory
  <1> QED BY <1>3, <1>4 DEF Inv

(* Whatever control decides it, a sound write may be queued.               *)
LEMMA SendsInv ==
  ASSUME Inv, NEW control \in {"on", "off", "speed", "mode"}, NEW decision,
         Sends(control, decision),
         \A w \in decision :
           /\ ~Refused(eq)
           /\ Sound(eq, pod, [by |-> control, state |-> w.state, mode |-> w.mode,
                              fresh |-> payload = pod])
  PROVE  Inv'
  <1>1. PICK w \in decision :
          sent' = Append(sent, [by |-> control, state |-> w.state,
                                mode |-> w.mode, fresh |-> payload = pod])
    BY DEF Sends
  <1> DEFINE new == [by |-> control, state |-> w.state, mode |-> w.mode,
                     fresh |-> payload = pod]
  <1>2. UNCHANGED <<eq, pod, payload, reachable, up, lastSpeed, saved, seen,
                    forgotten>>
    BY DEF Sends, controlVars, speedVars
  <1>3. Sound(eq, pod, new) /\ ~Refused(eq)
    OBVIOUS
  <1>4. sent' = Append(sent, new)
    BY <1>1
  <1> HIDE DEF new
  <1>5. new \in Queueable(eq)
    BY <1>3 DEF Sound
  <1>6. sent \in Seq(Queueable(eq)) /\ Len(sent) < MaxWrites
    BY DEF Sends, Usable, Inv, Waiting
  <1>7. sent' \in Seq(Queueable(eq)) /\ Len(sent') = Len(sent) + 1
    BY <1>4, <1>5, <1>6
  <1>8. Len(sent') <= MaxWrites
    BY <1>6, <1>7, MaxWritesAssumption
  <1>9. \A i \in 1..Len(sent') : Sound(eq, pod, sent'[i])
    <2> SUFFICES ASSUME NEW i \in 1..Len(sent') PROVE Sound(eq, pod, sent'[i])
      OBVIOUS
    <2>1. CASE i \in 1..Len(sent)
      <3>1. sent'[i] = sent[i]
        BY <1>4, <1>5, <1>6, <2>1
      <3> QED BY <2>1, <3>1 DEF Inv, Waiting
    <2>2. CASE i = Len(sent) + 1
      <3>1. sent'[i] = new
        BY <1>4, <1>5, <1>6, <2>2
      <3> QED BY <1>3, <3>1
    <2> QED BY <1>6, <1>7, <2>1, <2>2
  <1>10. AccessKept'
    <2>1. eq.access \in Int
      BY EquipmentsAssumption DEF Inv, Places
    <2> QED BY <1>2, <1>3, <2>1
            DEF AccessKept, Refused, Unknown, ParamAny, CommandMin
  <1> QED BY <1>2, <1>7, <1>8, <1>9, <1>10 DEF Inv, Places, Memory, Waiting

(* The switch's decisions are refused or sound.                            *)
LEMMA TurnOnInv == Inv /\ TurnOn => Inv'
  <1> SUFFICES ASSUME Inv, TurnOn PROVE Inv'
    OBVIOUS
  <1> DEFINE rule == ModeStates(eq)[payload.mode]
  <1>1. ASSUME NEW w \in SwitchOn(eq, payload, lastSpeed)
        PROVE  /\ ~Refused(eq)
               /\ Sound(eq, pod, [by |-> "on", state |-> w.state, mode |-> w.mode,
                                  fresh |-> payload = pod])
    <2>1. /\ payload.mode \in DOMAIN ModeStates(eq)
          /\ ~Refused(eq)
          /\ w = Write(OnState(rule, lastSpeed), payload.mode)
          /\ OnState(rule, lastSpeed) \in rule.states
      BY <1>1 DEF SwitchOn, Switching
    <2>2. /\ eq \in Equipments
          /\ rule.keep \in {NoKeep, Keep}
          /\ rule.speed => rule.keep = NoKeep
          /\ rule.states \subseteq 0..MaxPumpSpeed
      BY <2>1, RuleFacts DEF Inv, Places
    <2>3. /\ OnState(rule, lastSpeed) # Off
          /\ OnState(rule, lastSpeed) # rule.keep
      BY <2>1, <2>2 DEF OnState, NoSpeed, Off, On, Keep, NoKeep, MaxPumpSpeed
    <2> HIDE DEF rule
    <2> QED BY <2>1, <2>2, <2>3 DEF Sound, Queueable, Write, rule
  <1> QED BY <1>1, SendsInv DEF TurnOn

LEMMA TurnOffInv == Inv /\ TurnOff => Inv'
  <1> SUFFICES ASSUME Inv, TurnOff PROVE Inv'
    OBVIOUS
  <1> DEFINE rule == ModeStates(eq)[payload.mode]
  <1>1. ASSUME NEW w \in SwitchOff(eq, payload)
        PROVE  /\ ~Refused(eq)
               /\ Sound(eq, pod, [by |-> "off", state |-> w.state, mode |-> w.mode,
                                  fresh |-> payload = pod])
    <2>1. /\ payload.mode \in DOMAIN ModeStates(eq)
          /\ ~Refused(eq)
          /\ w = Write(Off, payload.mode)
          /\ Off \in rule.states
      BY <1>1 DEF SwitchOff, Switching
    <2>2. /\ eq \in Equipments
          /\ rule.keep \in {NoKeep, Keep}
          /\ rule.states \subseteq 0..MaxPumpSpeed
      BY <2>1, RuleFacts DEF Inv, Places
    <2>3. Off # rule.keep
      BY <2>2 DEF Off, Keep, NoKeep
    <2> HIDE DEF rule
    <2> QED BY <2>1, <2>2, <2>3 DEF Sound, Queueable, Write, rule
  <1> QED BY <1>1, SendsInv DEF TurnOff

(* A speed goes only where the mode counts in speeds.                      *)
LEMMA AskSpeedInv ==
  ASSUME Inv, NEW speed \in 0..MaxPumpSpeed, AskSpeed(speed) PROVE Inv'
  <1> DEFINE rule == ModeStates(eq)[payload.mode]
  <1>1. ASSUME NEW w \in SetSpeed(eq, payload, speed)
        PROVE  /\ ~Refused(eq)
               /\ Sound(eq, pod, [by |-> "speed", state |-> w.state,
                                  mode |-> w.mode, fresh |-> payload = pod])
    <2>1. /\ payload.mode \in DOMAIN ModeStates(eq)
          /\ ~Refused(eq)
          /\ w = Write(speed, payload.mode)
          /\ rule.speed
          /\ speed \in rule.states
      BY <1>1 DEF SetSpeed
    <2>2. /\ eq \in Equipments
          /\ rule.keep = NoKeep
      BY <2>1, RuleFacts DEF Inv, Places
    <2>3. speed # rule.keep
      BY <2>2 DEF NoKeep
    <2> HIDE DEF rule
    <2> QED BY <2>1, <2>2, <2>3 DEF Sound, Queueable, Write, rule
  <1> QED BY <1>1, SendsInv DEF AskSpeed

(* A mode is sent with the state _state_for finds, which its rule permits. *)
LEMMA AskModeInv ==
  ASSUME Inv, NEW mode \in DOMAIN ModeStates(eq), AskMode(mode) PROVE Inv'
  <1> DEFINE rule == ModeStates(eq)[mode]
  <1>1. ASSUME NEW w \in SelectMode(eq, payload, mode)
        PROVE  /\ ~Refused(eq)
               /\ Sound(eq, pod, [by |-> "mode", state |-> w.state,
                                  mode |-> w.mode, fresh |-> payload = pod])
    <2>1. PICK s \in StateFor(rule, payload.status) : w = Write(s, mode)
      BY <1>1 DEF SelectMode
    <2>2. ~Refused(eq)
      BY <1>1 DEF SelectMode
    <2>3. /\ rule.keep = NoKeep \/ (rule.keep = Keep /\ Keep \in rule.states)
          /\ rule.states \subseteq 0..MaxPumpSpeed
      BY RuleFacts DEF Inv, Places
    <2> HIDE DEF rule
    <2>4. s \in rule.states
      BY <2>3 DEF StateFor
    <2> QED BY <2>1, <2>2, <2>3, <2>4 DEF Sound, Queueable, Write, rule
  <1> QED BY <1>1, SendsInv DEF AskMode

----------------------------------------------------------------------------
(* The pod moves: what is still waiting stays sound, being no longer fresh *)
(* unless the reading is the one it was.                                   *)
LEMMA BecomesInv ==
  ASSUME Inv, NEW reading \in Readings(eq), NEW waiting \in Seq(Queueable(eq)),
         Len(waiting) <= Len(sent),
         \A i \in 1..Len(waiting) : Sound(eq, pod, waiting[i]),
         waiting # <<>> => sent # <<>>,
         Becomes(reading, waiting)
  PROVE  Inv'
  <1>1. /\ pod' = reading
        /\ sent' = [i \in 1..Len(waiting) |->
                      [waiting[i] EXCEPT !.fresh = @ /\ reading = pod]]
        /\ UNCHANGED <<eq, payload, reachable, up, lastSpeed, saved, seen,
                       forgotten>>
    BY DEF Becomes, controlVars, speedVars
  <1>2. \A i \in 1..Len(waiting) :
          /\ sent'[i] \in Queueable(eq)
          /\ Sound(eq, reading, sent'[i])
    BY <1>1 DEF Sound, Queueable
  <1>3. sent' \in Seq(Queueable(eq)) /\ Len(sent') = Len(waiting)
    BY <1>1, <1>2
  <1>4. Len(sent') <= MaxWrites
    BY <1>3, MaxWritesAssumption DEF Inv, Waiting
  <1>5. AccessKept'
    BY <1>1, <1>3 DEF AccessKept, Inv
  <1> QED BY <1>1, <1>2, <1>3, <1>4, <1>5 DEF Inv, Places, Waiting, Memory

(* Taking the head of the queue leaves the rest of it.                     *)
LEMMA TailWaits ==
  ASSUME Inv, sent # <<>>
  PROVE  /\ Tail(sent) \in Seq(Queueable(eq))
         /\ Len(Tail(sent)) = Len(sent) - 1
         /\ \A i \in 1..Len(Tail(sent)) : Tail(sent)[i] = sent[i + 1]
         /\ \A i \in 1..Len(Tail(sent)) : Sound(eq, pod, Tail(sent)[i])
         /\ Sound(eq, pod, Head(sent))
         /\ Len(sent) \in Nat \ {0}
  <1>1. sent \in Seq(Queueable(eq)) /\ Len(sent) \in Nat \ {0}
    BY DEF Inv, Waiting
  <1>2. /\ Tail(sent) \in Seq(Queueable(eq))
        /\ Len(Tail(sent)) = Len(sent) - 1
        /\ \A i \in 1..Len(Tail(sent)) : Tail(sent)[i] = sent[i + 1]
        /\ Head(sent) = sent[1]
    BY <1>1
  <1>3. \A i \in 1..Len(sent) : Sound(eq, pod, sent[i])
    BY DEF Inv, Waiting
  <1>4. \A i \in 1..Len(Tail(sent)) : i + 1 \in 1..Len(sent)
    BY <1>1, <1>2
  <1> QED BY <1>1, <1>2, <1>3, <1>4

(* A write leaves the pod with a status the out can have.                  *)
LEMMA PodAppliesInv == Inv /\ PodApplies => Inv'
  <1> SUFFICES ASSUME Inv, PodApplies PROVE Inv'
    OBVIOUS
  <1> DEFINE w == Head(sent)
             keeps == w.state = ModeStates(eq)[w.mode].keep
             reading == [mode |-> w.mode,
                         status |-> IF keeps THEN pod.status ELSE w.state]
  <1>1. sent # <<>> /\ Becomes(reading, Tail(sent))
    BY DEF PodApplies
  <1>2. /\ w.mode \in DOMAIN ModeStates(eq)
        /\ w.state \in ModeStates(eq)[w.mode].states
    BY <1>1, TailWaits DEF Sound, Queueable
  <1>3. ~keeps => w.state \in Statuses(eq)
    BY <1>2, RuleFacts DEF Inv, Places
  <1>4. pod.status \in Statuses(eq)
    BY DEF Inv, Places, Readings
  <1>5. reading \in Readings(eq)
    BY <1>2, <1>3, <1>4 DEF Readings
  <1>6. Len(Tail(sent)) <= Len(sent)
    BY <1>1, TailWaits
  <1> HIDE DEF reading
  <1> QED BY <1>1, <1>5, <1>6, TailWaits, BecomesInv

LEMMA PodRefusesInv == Inv /\ PodRefuses => Inv'
  <1> SUFFICES ASSUME Inv, PodRefuses PROVE Inv'
    OBVIOUS
  <1>1. /\ sent # <<>> /\ sent' = Tail(sent)
        /\ UNCHANGED <<eq, pod, payload, reachable, up, lastSpeed, saved, seen,
                       forgotten>>
    BY DEF PodRefuses, controlVars, speedVars
  <1>2. Len(sent') <= MaxWrites
    BY <1>1, TailWaits, MaxWritesAssumption DEF Inv, Waiting
  <1>3. Waiting' /\ AccessKept'
    BY <1>1, <1>2, TailWaits DEF Inv, Waiting, AccessKept
  <1> QED BY <1>1, <1>3 DEF Inv, Places, Memory

LEMMA OutsideChangeInv == Inv /\ OutsideChange => Inv'
  <1> SUFFICES ASSUME Inv, OutsideChange PROVE Inv'
    OBVIOUS
  <1>1. PICK reading \in Readings(eq) : Becomes(reading, sent)
    BY DEF OutsideChange
  <1>2. /\ sent \in Seq(Queueable(eq)) /\ Len(sent) <= Len(sent)
        /\ \A i \in 1..Len(sent) : Sound(eq, pod, sent[i])
    BY DEF Inv, Waiting
  <1> QED BY <1>1, <1>2, BecomesInv

----------------------------------------------------------------------------
(* What the switch learns from a payload is what the payload shows.        *)
LEMMA LearnFacts ==
  ASSUME Inv, NEW speed \in 0..MaxPumpSpeed, Sees(pod)
  PROVE  /\ Learn(speed, pod) \in 0..MaxPumpSpeed
         /\ seen' \in 0..MaxPumpSpeed
         /\ forgotten' \in BOOLEAN
         /\ ~forgotten' /\ (~forgotten => speed = seen) =>
              Learn(speed, pod) = seen'
  <1>1. pod.status \in 0..MaxPumpSpeed
    BY StatusBounds DEF Inv, Places, Readings
  <1> QED BY <1>1 DEF Learn, Sees, Inv, Places, MaxPumpSpeed, Off

LEMMA PollInv == Inv /\ Poll => Inv'
  <1> SUFFICES ASSUME Inv, Poll PROVE Inv'
    OBVIOUS
  <1>1. /\ up /\ payload' = pod /\ reachable' = TRUE
        /\ lastSpeed' = Learn(lastSpeed, pod) /\ Sees(pod)
        /\ UNCHANGED <<eq, pod, up, saved, sent>>
    BY DEF Poll
  <1>2. /\ lastSpeed' \in 0..MaxPumpSpeed
        /\ seen' \in 0..MaxPumpSpeed
        /\ forgotten' \in BOOLEAN
        /\ ~forgotten' /\ (~forgotten => lastSpeed = seen) => lastSpeed' = seen'
    BY <1>1, LearnFacts DEF Inv, Places
  <1>3. Places'
    BY <1>1, <1>2 DEF Inv, Places
  <1>4. Memory'
    BY <1>1, <1>2 DEF Inv, Memory
  <1>5. Waiting' /\ AccessKept'
    BY <1>1 DEF Inv, Waiting, AccessKept
  <1> QED BY <1>3, <1>4, <1>5 DEF Inv

LEMMA PollFailsInv == Inv /\ PollFails => Inv'
  <1> SUFFICES ASSUME Inv, PollFails PROVE Inv'
    OBVIOUS
  <1>1. /\ reachable' = FALSE
        /\ UNCHANGED <<eq, pod, payload, up, lastSpeed, saved, seen, forgotten,
                       sent>>
    BY DEF PollFails, speedVars
  <1>2. Places' /\ Waiting' /\ AccessKept' /\ Memory'
    BY <1>1 DEF Inv, Places, Waiting, AccessKept, Memory
  <1> QED BY <1>2 DEF Inv

(* What is kept of the switch is what it shows, or it is known forgotten.  *)
LEMMA StopInv == Inv /\ Stop => Inv'
  <1> SUFFICES ASSUME Inv, Stop PROVE Inv'
    OBVIOUS
  <1>1. /\ up /\ up' = FALSE
        /\ saved' = IF reachable THEN lastSpeed ELSE NoSpeed
        /\ lastSpeed' = NoSpeed
        /\ forgotten' = (forgotten \/ ~reachable)
        /\ UNCHANGED <<eq, pod, payload, reachable, sent, seen>>
    BY DEF Stop
  <1>2. /\ {lastSpeed', saved', seen'} \subseteq 0..MaxPumpSpeed
        /\ forgotten' \in BOOLEAN
    BY <1>1 DEF Inv, Places, NoSpeed, MaxPumpSpeed
  <1>3. Places'
    BY <1>1, <1>2 DEF Inv, Places
  <1>4. Memory'
    BY <1>1 DEF Inv, Memory
  <1>5. Waiting' /\ AccessKept'
    BY <1>1 DEF Inv, Waiting, AccessKept
  <1> QED BY <1>3, <1>4, <1>5 DEF Inv

LEMMA StartInv == Inv /\ Start => Inv'
  <1> SUFFICES ASSUME Inv, Start PROVE Inv'
    OBVIOUS
  <1>1. /\ ~up /\ up' = TRUE /\ payload' = pod /\ reachable' = TRUE
        /\ lastSpeed' = Learn(saved, pod) /\ saved' = NoSpeed /\ Sees(pod)
        /\ UNCHANGED <<eq, pod, sent>>
    BY DEF Start
  <1>2. /\ lastSpeed' \in 0..MaxPumpSpeed
        /\ seen' \in 0..MaxPumpSpeed
        /\ forgotten' \in BOOLEAN
        /\ ~forgotten' /\ (~forgotten => saved = seen) => lastSpeed' = seen'
    BY <1>1, LearnFacts DEF Inv, Places
  <1>3. Places'
    BY <1>1, <1>2 DEF Inv, Places, NoSpeed, MaxPumpSpeed
  <1>4. Memory'
    BY <1>1, <1>2 DEF Inv, Memory
  <1>5. Waiting' /\ AccessKept'
    BY <1>1 DEF Inv, Waiting, AccessKept
  <1> QED BY <1>3, <1>4, <1>5 DEF Inv

(* Every step keeps the invariant.                                         *)
LEMMA NextInv == Inv /\ [Next]_vars => Inv'
  <1>1. Inv /\ UNCHANGED vars => Inv'
    BY DEF vars, Inv, Places, Waiting, AccessKept, Memory
  <1> QED BY <1>1, TurnOnInv, TurnOffInv, AskSpeedInv, AskModeInv, PodAppliesInv,
             PodRefusesInv, OutsideChangeInv, PollInv, PollFailsInv, StopInv,
             StartInv DEF Next

LEMMA Invariance == Spec => []Inv
  <1> QED BY InitInv, NextInv, PTL DEF Spec

----------------------------------------------------------------------------
(* The state machine of an out's controls is well typed, for any outs: no  *)
(* write it queues leaves the pod with a status the out cannot have.       *)
THEOREM Typing == Spec => []TypeOK
  <1>1. Inv => TypeOK
    BY DEF Inv, Places, Waiting, TypeOK, Queueable
  <1> QED BY <1>1, Invariance, PTL

(* Whatever the equipment, the switch, the mode select and the speed never *)
(* queue a pair the out's rules do not permit.                             *)
THEOREM WritesPermittedAlways == Spec => []WritesPermitted
  <1>1. Inv => WritesPermitted
    BY DEF Inv, Waiting, WritesPermitted, Sound
  <1> QED BY <1>1, Invariance, PTL

(* Nor do they write for an account that may not.                          *)
THEOREM AccessKeptAlways == Spec => []AccessKept
  <1>1. Inv => AccessKept
    BY DEF Inv
  <1> QED BY <1>1, Invariance, PTL

(* What the oldest write is, when the pod applies it.                      *)
LEMMA Applied ==
  ASSUME Inv, PodApplies
  PROVE  LET w == Head(sent)
             rule == ModeStates(eq)[w.mode]
         IN  /\ Sound(eq, pod, w)
             /\ pod'.mode = w.mode
             /\ pod'.status = IF w.state = rule.keep THEN pod.status ELSE w.state
             /\ eq' = eq
  BY TailWaits DEF PodApplies, Becomes

(* A mode change completed from a true reading leaves the output doing     *)
(* what it was doing, or stops it where the mode allows nothing else.      *)
THEOREM ModeChangeKeepsOutputAlways == Spec => ModeChangeKeepsOutput
  <1>1. ASSUME Inv, AppliesFresh({"mode"})
        PROVE  \/ pod'.status = pod.status
               \/ StopOnlyMode(pod'.mode) /\ pod'.status = Off
    <2> DEFINE w == Head(sent)
               rule == ModeStates(eq)[w.mode]
    <2>1. /\ Sound(eq, pod, w) /\ w.fresh /\ w.by = "mode"
          /\ pod'.mode = w.mode
          /\ pod'.status = IF w.state = rule.keep THEN pod.status ELSE w.state
      BY <1>1, Applied DEF AppliesFresh
    <2>2. w.state \in rule.states /\ w.state \in StateFor(rule, pod.status)
      BY <2>1 DEF Sound
    <2>3. \A s : rule.keep = NoKeep /\ rule.states = {s} => s = Off
      BY <1>1, <2>1, RuleFacts DEF Sound, Queueable, Inv, Places
    <2> HIDE DEF w, rule
    <2>4. CASE rule.keep # NoKeep
      BY <2>1, <2>2, <2>4 DEF StateFor
    <2>5. CASE rule.keep = NoKeep /\ \E s \in rule.states : rule.states = {s}
      BY <2>1, <2>2, <2>3, <2>5 DEF StopOnlyMode, rule
    <2>6. CASE /\ rule.keep = NoKeep
               /\ ~\E s \in rule.states : rule.states = {s}
      BY <2>1, <2>2, <2>6 DEF StateFor
    <2> QED BY <2>4, <2>5, <2>6
  <1>2. Inv /\ [Next]_vars => [AppliesFresh({"mode"}) =>
                                 \/ pod'.status = pod.status
                                 \/ StopOnlyMode(pod'.mode) /\ pod'.status = Off]_vars
    BY <1>1
  <1> QED BY <1>2, Invariance, PTL DEF Spec, ModeChangeKeepsOutput

(* A switch or a speed completed from a true reading does what it says,    *)
(* never what its number means in another mode.                            *)
THEOREM CommandLandsAlways == Spec => CommandLands
  <1> DEFINE Lands ==
        /\ AppliesFresh({"on"}) => pod'.status # Off
        /\ AppliesFresh({"off"}) => pod'.status = Off
        /\ AppliesFresh({"speed"}) => pod'.status = Head(sent).state
  <1>1. ASSUME Inv, PodApplies, Head(sent).by \in {"on", "off", "speed"}
        PROVE  /\ pod'.status = Head(sent).state
               /\ Head(sent).by = "on" => pod'.status # Off
               /\ Head(sent).by = "off" => pod'.status = Off
    BY <1>1, Applied DEF Sound
  <1>2. Inv => Lands
    BY <1>1 DEF AppliesFresh
  <1> QED BY <1>2, Invariance, PTL DEF CommandLands

(* And it leaves the out in the mode the pod had.                          *)
THEOREM SwitchKeepsModeAlways == Spec => SwitchKeepsMode
  <1>1. Inv => (AppliesFresh({"on", "off", "speed"}) => pod'.mode = pod.mode)
    BY Applied DEF AppliesFresh, Sound
  <1> QED BY <1>1, Invariance, PTL DEF SwitchKeepsMode

(* Turning the filtration on resumes the last speed a payload showed,      *)
(* whatever stops, outages, mode changes and restarts lie between, unless  *)
(* the switch was stopped while the pool could not be reached.             *)
THEOREM ResumesSeenSpeedAlways == Spec => ResumesSeenSpeed
  <1>1. ASSUME Inv, ~forgotten, TurnOn, ModeStates(eq)[payload.mode].speed,
               seen \in 1..PumpSpeeds(eq.maxSpeed)
        PROVE  sent'[Len(sent')].state = seen
    <2> DEFINE rule == ModeStates(eq)[payload.mode]
    <2>1. up /\ lastSpeed = seen
      BY <1>1 DEF TurnOn, Sends, Usable, Inv, Memory
    <2>2. PICK w \in SwitchOn(eq, payload, lastSpeed) :
            sent' = Append(sent, [by |-> "on", state |-> w.state,
                                  mode |-> w.mode, fresh |-> payload = pod])
      BY <1>1 DEF TurnOn, Sends
    <2>3. /\ payload.mode \in DOMAIN ModeStates(eq)
          /\ w.state = OnState(rule, lastSpeed)
      BY DEF SwitchOn, Switching, Write
    <2>4. rule.states = 0..PumpSpeeds(eq.maxSpeed)
      BY <1>1, <2>3, RuleFacts DEF Inv, Places
    <2>5. w.state = seen
      BY <1>1, <2>1, <2>3, <2>4 DEF OnState, NoSpeed
    <2>6. sent \in Seq(Queueable(eq))
      BY <1>1 DEF Inv, Waiting
    <2> QED BY <2>2, <2>5, <2>6
  <1>2. Inv => (~forgotten => Resumes)
    BY <1>1 DEF Resumes
  <1> QED BY <1>2, Invariance, PTL DEF ResumesSeenSpeed

----------------------------------------------------------------------------
(* Home Assistant is not stopped, nor the entry unloaded, while the last   *)
(* poll had failed.                                                        *)
StopsReachable == Stop => reachable

(* README's "remembered across restarts" holds through every restart made  *)
(* while the pool could be reached (_learn_speed, async_added_to_hass).    *)
THEOREM RemembersReachableRestarts ==
  Spec /\ [][StopsReachable]_vars => RemembersAcrossRestarts
  <1> DEFINE Recalls == forgotten = FALSE
  <1>1. Init => Recalls
    BY DEF Init
  <1>2. Inv /\ Recalls /\ [Next]_vars /\ [StopsReachable]_vars => Recalls'
    <2> SUFFICES ASSUME Inv, Recalls, [Next]_vars, [StopsReachable]_vars
                 PROVE  Recalls'
      OBVIOUS
    <2>1. CASE Poll \/ Start
      BY <2>1 DEF Poll, Start, Sees
    <2>2. CASE Stop
      BY <2>2 DEF Stop, StopsReachable, vars
    <2>3. CASE \/ TurnOn \/ TurnOff
               \/ \E speed \in 0..MaxPumpSpeed : AskSpeed(speed)
               \/ \E mode \in DOMAIN ModeStates(eq) : AskMode(mode)
      BY <2>3 DEF TurnOn, TurnOff, AskSpeed, AskMode, Sends, controlVars, speedVars
    <2>4. CASE PodApplies \/ PodRefuses \/ OutsideChange
      BY <2>4 DEF PodApplies, PodRefuses, OutsideChange, Becomes, controlVars, speedVars
    <2>5. CASE PollFails \/ UNCHANGED vars
      BY <2>5 DEF PollFails, speedVars, vars
    <2> QED BY <2>1, <2>2, <2>3, <2>4, <2>5 DEF Next
  <1>3. [~forgotten => Resumes]_vars /\ Recalls => [Resumes]_vars
    OBVIOUS
  <1> HIDE DEF Recalls
  <1> QED BY <1>1, <1>2, <1>3, Invariance, ResumesSeenSpeedAlways, PTL
          DEF Spec, ResumesSeenSpeed, RemembersAcrossRestarts

----------------------------------------------------------------------------
(* A control is used only when no write waits and the payload is what the  *)
(* pod has, and nothing else changes the pod while a write waits.          *)
InTurn ==
  /\ Len(sent') > Len(sent) => sent = <<>> /\ payload = pod
  /\ sent = <<>> \/ ~OutsideChange

(* What README says of a mode change and of a switch, without exception,   *)
(* holds of controls used in turn, whichever of the three they are: a      *)
(* payload older than another control's write is all that breaks it.       *)
THEOREM PendingWritesSurviveInTurn ==
  Spec /\ [][InTurn]_vars => PendingWriteSurvives
  <1> DEFINE Fresh == Len(sent) <= 1 /\ (sent # <<>> => Head(sent).fresh)
             Survives == PodApplies =>
               /\ Head(sent).by = "mode" /\ ~StopOnlyMode(pod'.mode)
                    => pod'.status = pod.status
               /\ Head(sent).by \in {"on", "off"} => pod'.mode = pod.mode
  <1>1. Init => Fresh
    BY DEF Init
  <1>2. Inv /\ Fresh /\ [Next]_vars /\ [InTurn]_vars => Fresh'
    <2> SUFFICES ASSUME Inv, Fresh, [Next]_vars, [InTurn]_vars PROVE Fresh'
      OBVIOUS
    <2>0. sent \in Seq(Queueable(eq))
      BY DEF Inv, Waiting
    <2>1. ASSUME NEW control, NEW decision, Sends(control, decision) PROVE Fresh'
      <3>1. PICK w \in decision :
              sent' = Append(sent, [by |-> control, state |-> w.state,
                                    mode |-> w.mode, fresh |-> payload = pod])
        BY <2>1 DEF Sends
      <3>2. Len(sent') = Len(sent) + 1 /\ Len(sent) \in Nat
        BY <2>0, <3>1
      <3>3. InTurn
        BY <3>2 DEF vars
      <3>4. sent = <<>> /\ payload = pod
        BY <3>2, <3>3 DEF InTurn
      <3> DEFINE r == [by |-> control, state |-> w.state,
                       mode |-> w.mode, fresh |-> payload = pod]
      <3>5. r.fresh
        BY <3>4
      <3> HIDE DEF r
      <3>6. sent' = <<r>>
        BY <3>1, <3>4 DEF r
      <3> QED BY <3>5, <3>6
    <2>2. CASE PodApplies \/ PodRefuses
      <3>1. sent # <<>>
        BY <2>2 DEF PodApplies, PodRefuses
      <3>2. Len(Tail(sent)) = 0 /\ Tail(sent) \in Seq(Queueable(eq))
        BY <3>1, TailWaits
      <3>3. Tail(sent) = <<>>
        BY <3>2
      <3>4. CASE PodRefuses
        BY <3>3, <3>4 DEF PodRefuses
      <3>5. CASE PodApplies
        BY <3>3, <3>5 DEF PodApplies, Becomes
      <3> QED BY <2>2, <3>4, <3>5
    <2>3. CASE OutsideChange
      <3>1. CASE sent = <<>>
        BY <2>3, <3>1 DEF OutsideChange, Becomes
      <3>2. CASE UNCHANGED vars
        BY <3>2 DEF vars
      <3> QED BY <2>3, <3>1, <3>2 DEF InTurn
    <2>4. CASE Poll \/ PollFails \/ Stop \/ Start \/ UNCHANGED vars
      BY <2>4 DEF Poll, PollFails, Stop, Start, vars
    <2> QED BY <2>1, <2>2, <2>3, <2>4 DEF Next, TurnOn, TurnOff, AskSpeed, AskMode
  <1>3. Fresh /\ PodApplies => Head(sent).fresh
    BY DEF PodApplies
  <1>4. /\ Inv /\ Fresh
        /\ [AppliesFresh({"mode"}) =>
              \/ pod'.status = pod.status
              \/ StopOnlyMode(pod'.mode) /\ pod'.status = Off]_vars
        /\ [AppliesFresh({"on", "off", "speed"}) => pod'.mode = pod.mode]_vars
        => [Survives]_vars
    BY <1>3 DEF AppliesFresh
  <1> HIDE DEF Fresh
  <1> QED BY <1>1, <1>2, <1>4, Invariance, ModeChangeKeepsOutputAlways,
             SwitchKeepsModeAlways, PTL
          DEF Spec, ModeChangeKeepsOutput, SwitchKeepsMode, PendingWriteSurvives
=============================================================================
