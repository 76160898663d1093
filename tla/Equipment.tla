------------------------------ MODULE Equipment ------------------------------
(***************************************************************************)
(* What the platforms read in a payload: which entities its items call for *)
(* and what the sensors publish of the pool's counters.  A payload is      *)
(*   probes, outs  sequences of items, [index] and [index, totalTime];     *)
(*                 Junk stands for an item that is not a dict, None for a  *)
(*                 field that is missing or not a number                   *)
(*   params, ExtraParams, top                                              *)
(*                 the numbers of those two sections, and of the top level *)
(*                 and `register`, by key                                  *)
(*   badNames      an entry of IORename is not a dict                      *)
(***************************************************************************)
EXTENDS OutRules, Sequences

CONSTANTS None, Junk, Raises

Field(section, key) == IF key \in DOMAIN section THEN section[key] ELSE None

Having(f, places) == [i \in DOMAIN f \cap places |-> f[i]]

(* klereo_items: what has nothing to key an entity on is skipped.  What    *)
(* remains keeps its place, the order being all that matters.              *)
Items(section) ==
  Having(section, {i \in DOMAIN section : /\ section[i] # Junk
                                          /\ section[i].index # None})

Indexes(section) == {Items(section)[i].index : i \in DOMAIN Items(section)}

----------------------------------------------------------------------------
(* Mutant: the volume is cut off instead of rounded.                       *)
VolumeCutOff(seconds, flow) == (seconds * flow) \div 36

(* round(seconds * flow * ML_PER_FLOW_UNIT / SECONDS_PER_HOUR): to the     *)
(* nearest millilitre, a half to the even one.                             *)
Volume(seconds, flow) ==
  LET q == (seconds * flow) \div 36
      r == (seconds * flow) % 36
  IN  IF r > 18 \/ (r = 18 /\ q % 2 = 1) THEN q + 1 ELSE q

(* _params_ml, its gate aside: no number where a counter or a flow is      *)
(* missing, nor where the controller declares no pump.                     *)
Dosed(seconds, flow) ==
  IF seconds = Raises THEN Raises
  ELSE IF seconds = None \/ flow = None THEN None
  ELSE IF flow <= 0 THEN None
  ELSE Volume(seconds, flow)

(* Mutant: whatever is no cell is taken for a pump.                        *)
PumpOrBrominator(p) == Field(p.params, "TraitMode") \in {1, 4, 5}

(* _pump_dosed_treatment: chlorine and oxygen.                             *)
PumpDosed(p) == Field(p.params, "TraitMode") \in {1, 4}

(* _seconds_out: it looks at every item up to the out's own, and            *)
(* `out.get` is all it takes to raise.                                     *)
OutSeconds(p, index) ==
  LET until == {i \in DOMAIN p.outs : p.outs[i] = Junk \/ p.outs[i].index = index}
      first == CHOOSE i \in until : \A j \in until : i <= j
  IN  IF until = {} THEN None
      ELSE IF p.outs[first] = Junk THEN Raises
      ELSE p.outs[first].totalTime

Rows == <<"pin", "device", "volume",
          "filtrationtime", "phtime", "disinfectanttime", "heatingtime",
          "phvolume", "disinfectantvolume", "flocculantvolume",
          "hybridchlorinevolume">>

Param ==
  [volume |-> "VolumeEau", filtrationtime |-> "Filtration_TotalTime",
   phtime |-> "PHMinus_TotalTime", disinfectanttime |-> "ElectroChlore_TotalTime",
   heatingtime |-> "Chauff_TotalTime"]

(* Which counter and which pump's flow make up a volume.                   *)
Counter(row, p) ==
  CASE row = "phvolume" -> Field(p.params, "PHMinus_TotalTime")
    [] row = "disinfectantvolume" ->
         IF PumpDosed(p) THEN Field(p.params, "ElectroChlore_TotalTime") ELSE None
    [] row = "flocculantvolume" -> OutSeconds(p, 8)
    [] row = "hybridchlorinevolume" -> Field(p.ExtraParams, "HybChl_TotalTime")

Flow(row, p) ==
  Field(p.params, IF row = "phvolume" THEN "PHMinus_Debit" ELSE "Chlore_Debit")

(* INFO_SENSORS' getters.  Running times are left in seconds.              *)
Reading(row, p) ==
  IF row \in {"pin", "device"} THEN Field(p.top, row)
  ELSE IF row \in DOMAIN Param THEN Field(p.params, Param[row])
  ELSE Dosed(Counter(row, p), Flow(row, p))

----------------------------------------------------------------------------
(* The platforms' builders.                                                *)
Step(key) == [key |-> key, ok |-> TRUE]
NoItem == <<>>
Stop == [key |-> NoItem, ok |-> FALSE]

(* One after the other, the first having n places.                         *)
Then(first, n, second) ==
  [i \in DOMAIN first \cup {n + j : j \in DOMAIN second} |->
     IF i \in DOMAIN first THEN first[i] ELSE second[i - n]]

Keyed(kind, items) == [i \in DOMAIN items |-> Step(<<kind, items[i].index>>)]

RowSteps(p) ==
  LET rows == Having(Rows, {i \in DOMAIN Rows : Reading(Rows[i], p) # None})
  IN  [i \in DOMAIN rows |->
         IF Reading(rows[i], p) = Raises THEN Stop ELSE Step(<<rows[i]>>)]

SensorSteps(p) ==
  IF p.badNames THEN <<Stop>>
  ELSE Then(Keyed("probe", Items(p.probes)), Len(p.probes), RowSteps(p))

SwitchSteps(p) ==
  IF p.badNames THEN <<Stop>> ELSE Keyed("out", Items(p.outs))

PumpMaxSpeed(p) ==
  PumpSpeeds(IF Field(p.top, "PumpMaxSpeed") = None THEN MaxPumpSpeed
             ELSE p.top.PumpMaxSpeed)

Kind(params, key) == IF key \in DOMAIN params THEN params[key] ELSE Unknown

(* klereo_out_mode_states of an out of this payload.                       *)
Modes(p, index) ==
  ModeStates([index |-> index, maxSpeed |-> PumpMaxSpeed(p),
              heater |-> Kind(p.params, "HeaterMode"),
              trait |-> Kind(p.params, "TraitMode")])

SelectSteps(p) ==
  LET outs == Items(p.outs) IN
  IF p.badNames THEN <<Stop>>
  ELSE Keyed("out", Having(outs, {i \in DOMAIN outs :
                                    DOMAIN Modes(p, outs[i].index) # {}}))

(* The names are read by the factory of the speed, so here it is the       *)
(* factory that raises.                                                    *)
NumberSteps(p) ==
  Then(IF FiltrationIndex \in Indexes(p.outs) /\ PumpMaxSpeed(p) >= 2
       THEN <<[key |-> <<"speed">>, ok |-> ~p.badNames]>> ELSE <<>>,
       1,
       IF Field(p.params, "ConsigneEau") # None THEN <<Step(<<"setpoint">>)>>
       ELSE <<>>)

Steps(pl, p) ==
  CASE pl = "sensor" -> SensorSteps(p)
    [] pl = "switch" -> SwitchSteps(p)
    [] pl = "number" -> NumberSteps(p)
    [] pl = "select" -> SelectSteps(p)
=============================================================================
