-------------------------- MODULE PoolEntitiesProofs --------------------------
(***************************************************************************)
(* What the volume sensors publish, for any counters and flows; that the   *)
(* platforms' builders are what EntityRegistry takes a builder to be; and  *)
(* what it comes to for the equipment of a pool.                           *)
(***************************************************************************)
EXTENDS PoolEntities, EntityRegistryProofs

(* Rounding to the nearest millilitre is half a millilitre off at most.    *)
LEMMA VolumeRounds ==
  ASSUME NEW seconds \in Int, NEW flow \in Int
  PROVE  /\ Volume(seconds, flow) \in Int
         /\ -18 <= 36 * Volume(seconds, flow) - seconds * flow
         /\ 36 * Volume(seconds, flow) - seconds * flow <= 18
  <1> DEFINE dose == seconds * flow
             q == dose \div 36
             r == dose % 36
  <1>1. dose \in Int
    OBVIOUS
  <1> HIDE DEF dose
  <1>2. q \in Int /\ r \in 0..35 /\ dose = 36 * q + r
    BY <1>1
  <1>3. Volume(seconds, flow) = IF r > 18 \/ (r = 18 /\ q % 2 = 1) THEN q + 1 ELSE q
    BY DEF Volume, dose
  <1> HIDE DEF q, r
  <1>4. \/ Volume(seconds, flow) = q + 1 /\ r >= 18
        \/ Volume(seconds, flow) = q /\ r <= 18
    BY <1>2, <1>3
  <1>5. /\ Volume(seconds, flow) \in Int
        /\ -18 <= 36 * Volume(seconds, flow) - dose
        /\ 36 * Volume(seconds, flow) - dose <= 18
    BY <1>2, <1>4
  <1> QED BY <1>5 DEF dose

(* A counter is a number, missing, or what its reader raised on.           *)
LEMMA CounterType ==
  ASSUME NEW row \in VolumeRows, NEW name \in Payloads
  PROVE  /\ Counter(row, Content[name]) \in Int \cup {None, Raises}
         /\ Flow(row, Content[name]) \in Int \cup {None}
  <1> DEFINE p == Content[name]
  <1>1. \A key : /\ Field(p.params, key) \in Int \cup {None}
                 /\ Field(p.ExtraParams, key) \in Int \cup {None}
    BY ContentAssumption DEF Field
  <1>2. OutSeconds(p, 8) \in Int \cup {None, Raises}
    <2> DEFINE until == {i \in DOMAIN p.outs : p.outs[i] = Junk \/ p.outs[i].index = 8}
               first == CHOOSE i \in until : \A j \in until : i <= j
    <2>1. CASE until = {}
      BY <2>1 DEF OutSeconds
    <2>2. CASE until # {} /\ p.outs[first] = Junk
      BY <2>2 DEF OutSeconds
    <2>3. CASE until # {} /\ p.outs[first] # Junk
      <3>1. OutSeconds(p, 8) = p.outs[first].totalTime
        BY <2>3 DEF OutSeconds
      <3>2. until \subseteq Nat
        BY ContentAssumption
      <3>3. \E i \in until : \A j \in until : i <= j
        BY <2>3, <3>2, Least
      <3> HIDE DEF until
      <3>4. first \in until
        BY <3>3
      <3>5. first \in DOMAIN p.outs
        BY <3>4 DEF until
      <3> HIDE DEF first
      <3> QED BY <2>3, <3>1, <3>5, ContentAssumption
    <2> QED BY <2>1, <2>2, <2>3
  <1> QED BY <1>1, <1>2 DEF Counter, Flow, VolumeRows

(* A volume that is published is what Dosed makes of two numbers.          *)
LEMMA VolumeReading ==
  ASSUME NEW row \in VolumeRows, NEW name \in Payloads,
         Reading(row, Content[name]) \notin {None, Raises}
  PROVE  LET seconds == Counter(row, Content[name])
             flow == Flow(row, Content[name])
         IN  /\ seconds \in Int /\ flow \in Int /\ flow > 0
             /\ Reading(row, Content[name]) = Volume(seconds, flow)
  <1> DEFINE seconds == Counter(row, Content[name])
             flow == Flow(row, Content[name])
  <1>1. Reading(row, Content[name]) = Dosed(seconds, flow)
    BY DEF Reading, Param, VolumeRows
  <1>2. seconds \in Int \cup {None, Raises} /\ flow \in Int \cup {None}
    BY CounterType
  <1> HIDE DEF seconds, flow
  <1>3. seconds \in Int /\ flow \in Int
    BY <1>1, <1>2 DEF Dosed
  <1>4. Dosed(seconds, flow) = IF flow <= 0 THEN None ELSE Volume(seconds, flow)
    BY <1>3, MarksAssumption DEF Dosed
  <1> QED BY <1>1, <1>3, <1>4 DEF seconds, flow

(* A published volume is the product that went in, to half a millilitre    *)
(* (_params_ml), and the disinfectant's is published of chlorine and       *)
(* oxygen alone, which a pump doses (_pump_dosed_treatment).               *)
THEOREM VolumeAlwaysDosed == Spec => []VolumeIsDosed
  <1>1. TypeOK => VolumeIsDosed
    <2> SUFFICES ASSUME TypeOK, NEW e \in DOMAIN shown,
                        e[1] = "sensor", e[2][1] \in VolumeRows,
                        Reading(e[2][1], Content[shown[e].data]) \notin {None, Raises}
                 PROVE  LET row == e[2][1]
                            p == Content[shown[e].data]
                            seconds == Counter(row, p)
                            flow == Flow(row, p)
                            error == 36 * Reading(row, p) - seconds * flow
                        IN  /\ flow > 0
                            /\ -18 <= error /\ error <= 18
                            /\ row = "disinfectantvolume" =>
                                 Field(p.params, "TraitMode")
                                   \in {Treatments.chlore, Treatments.oxygen}
      BY DEF VolumeIsDosed
    <2> DEFINE row == e[2][1]
               name == shown[e].data
    <2>1. name \in Payloads
      BY DEF TypeOK, States
    <2> HIDE DEF name
    <2>2. row \in VolumeRows /\ Reading(row, Content[name]) \notin {None, Raises}
      BY DEF name
    <2> HIDE DEF row
    <2> DEFINE seconds == Counter(row, Content[name])
               flow == Flow(row, Content[name])
    <2>3. /\ seconds \in Int /\ flow \in Int /\ flow > 0
          /\ Reading(row, Content[name]) = Volume(seconds, flow)
      BY <2>1, <2>2, VolumeReading
    <2>4. row = "disinfectantvolume" => seconds = None \/ PumpDosed(Content[name])
      BY DEF Counter
    <2> HIDE DEF seconds, flow
    <2>5. /\ -18 <= 36 * Reading(row, Content[name]) - seconds * flow
          /\ 36 * Reading(row, Content[name]) - seconds * flow <= 18
      BY <2>3, VolumeRounds
    <2>6. row = "disinfectantvolume" =>
            Field(Content[name].params, "TraitMode")
              \in {Treatments.chlore, Treatments.oxygen}
      BY <2>3, <2>4, MarksAssumption DEF PumpDosed, Treatments
    <2> QED BY <2>3, <2>5, <2>6 DEF seconds, flow, row, name
  <1> QED BY <1>1, Typing, PTL

----------------------------------------------------------------------------
WellFormed(b) ==
  /\ DOMAIN b \subseteq Nat
  /\ \A i \in DOMAIN b : /\ b[i].ok \in BOOLEAN
                         /\ b[i].key = NoItem => ~b[i].ok

(* An item of one or two parts is a key.                                   *)
LEMMA KeysAreKeys ==
  /\ \A x : Step(<<x>>).key # NoItem /\ Step(<<x>>).ok
  /\ \A x, y : Step(<<x, y>>).key # NoItem /\ Step(<<x, y>>).ok
  BY DEF Step, NoItem

LEMMA KeyedWellFormed ==
  ASSUME NEW kind, NEW items, DOMAIN items \subseteq Nat
  PROVE  WellFormed(Keyed(kind, items))
  BY KeysAreKeys DEF WellFormed, Keyed

(* Builders in turn are well formed if each is.                            *)
LEMMA ThenWellFormed ==
  ASSUME NEW first, NEW n \in Nat, NEW second, WellFormed(first), WellFormed(second)
  PROVE  WellFormed(Then(first, n, second))
  <1> DEFINE b == Then(first, n, second)
  <1>1. DOMAIN b = DOMAIN first \cup {n + j : j \in DOMAIN second}
    BY DEF Then
  <1>2. DOMAIN b \subseteq Nat
    BY <1>1 DEF WellFormed
  <1>3. ASSUME NEW i \in DOMAIN b
        PROVE  b[i].ok \in BOOLEAN /\ (b[i].key = NoItem => ~b[i].ok)
    <2>1. CASE i \in DOMAIN first
      <3>1. b[i] = first[i]
        BY <1>1, <2>1 DEF Then
      <3> HIDE DEF b
      <3> QED BY <2>1, <3>1 DEF WellFormed
    <2>2. CASE i \notin DOMAIN first
      <3>1. PICK j \in DOMAIN second : i = n + j
        BY <1>1, <2>2
      <3>2. i - n = j
        BY <3>1 DEF WellFormed
      <3>3. b[i] = second[j]
        BY <1>1, <2>2, <3>2 DEF Then
      <3> HIDE DEF b
      <3> QED BY <3>3 DEF WellFormed
    <2> QED BY <2>1, <2>2
  <1> QED BY <1>2, <1>3 DEF WellFormed

LEMMA OneWellFormed ==
  ASSUME NEW x, x.ok \in BOOLEAN, x.key = NoItem => ~x.ok
  PROVE  WellFormed(<<x>>)
  <1>1. DOMAIN <<x>> = {1} /\ <<x>>[1] = x
    OBVIOUS
  <1> DEFINE b == <<x>>
  <1> HIDE DEF b
  <1> QED BY <1>1 DEF WellFormed, b

LEMMA StopWellFormed == WellFormed(<<Stop>>)
  <1>1. Stop.ok \in BOOLEAN /\ (Stop.key = NoItem => ~Stop.ok)
    BY DEF Stop
  <1> QED BY <1>1, OneWellFormed

(* A row is one of the table's.                                            *)
LEMMA RowsWellFormed == ASSUME NEW p PROVE WellFormed(RowSteps(p))
  <1> DEFINE rows == Having(Rows, {i \in DOMAIN Rows : Reading(Rows[i], p) # None})
             step(i) == IF Reading(rows[i], p) = Raises THEN Stop ELSE Step(<<rows[i]>>)
  <1>1. DOMAIN rows \subseteq Nat
    BY DEF Having, Rows
  <1>2. RowSteps(p) = [i \in DOMAIN rows |-> step(i)]
    BY DEF RowSteps
  <1>3. \A i : step(i).ok \in BOOLEAN /\ (step(i).key = NoItem => ~step(i).ok)
    BY KeysAreKeys DEF Stop, Step
  <1> HIDE DEF rows, step
  <1> QED BY <1>1, <1>2, <1>3 DEF WellFormed

(* Whatever its payloads hold, the four platforms' builders are builders   *)
(* as EntityRegistry assumes them (BuildAssumption): nothing proved of it  *)
(* is lost on this integration's sensors, switches, numbers and selects.   *)
THEOREM BuildersWellFormed ==
  \A pl \in Platforms, p \in Payloads : WellFormed(BuildOf(pl, p))
  <1> SUFFICES ASSUME NEW pl \in Platforms, NEW name \in Payloads
               PROVE  WellFormed(Steps(pl, Content[name]))
    BY DEF BuildOf, Builders
  <1> DEFINE p == Content[name]
  <1>1. /\ p.badNames \in BOOLEAN /\ Len(p.probes) \in Nat
        /\ DOMAIN p.probes \subseteq Nat /\ DOMAIN p.outs \subseteq Nat
    BY ContentAssumption
  <1> HIDE DEF p
  <1>2. /\ DOMAIN Items(p.probes) \subseteq Nat
        /\ DOMAIN Items(p.outs) \subseteq Nat
    BY <1>1 DEF Items, Having
  <1>3. WellFormed(SensorSteps(p))
    BY <1>1, <1>2, KeyedWellFormed, RowsWellFormed, ThenWellFormed, StopWellFormed
       DEF SensorSteps
  <1>4. WellFormed(SwitchSteps(p))
    BY <1>2, KeyedWellFormed, StopWellFormed DEF SwitchSteps
  <1>5. WellFormed(SelectSteps(p))
    <2> DEFINE outs == Items(p.outs)
               some == Having(outs, {i \in DOMAIN outs : DOMAIN Modes(p, outs[i].index) # {}})
    <2>1. DOMAIN some \subseteq Nat
      BY <1>2 DEF Having
    <2> HIDE DEF some
    <2>2. WellFormed(Keyed("out", some))
      BY <2>1, KeyedWellFormed
    <2> QED BY <2>2, StopWellFormed DEF SelectSteps, some
  <1>6. WellFormed(NumberSteps(p))
    <2>1. WellFormed(<<>>)
      BY DEF WellFormed
    <2>2. WellFormed(<<[key |-> <<"speed">>, ok |-> ~p.badNames]>>)
      <3> DEFINE x == [key |-> <<"speed">>, ok |-> ~p.badNames]
      <3>1. x.ok \in BOOLEAN /\ x.key # NoItem
        BY <1>1 DEF NoItem
      <3> HIDE DEF x
      <3>2. WellFormed(<<x>>)
        BY <3>1, OneWellFormed
      <3> QED BY <3>2 DEF x
    <2>3. WellFormed(<<Step(<<"setpoint">>)>>)
      <3> DEFINE x == Step(<<"setpoint">>)
      <3>1. x.ok \in BOOLEAN /\ x.key # NoItem
        BY KeysAreKeys DEF Step
      <3> HIDE DEF x
      <3>2. WellFormed(<<x>>)
        BY <3>1, OneWellFormed
      <3> QED BY <3>2 DEF x
    <2> QED BY <2>1, <2>2, <2>3, ThenWellFormed DEF NumberSteps
  <1> QED BY <1>3, <1>4, <1>5, <1>6, PlatformsAssumption DEF Steps, p

----------------------------------------------------------------------------
(* Where the builder gives up it raises.                                   *)
LEMMA StopRaises == ASSUME NEW b, b = <<Stop>> PROVE 1 \in DOMAIN b /\ ~b[1].ok
  BY DEF Stop

(* An item with an index is yielded, and keyed on it.                      *)
LEMMA ItemIsKeyed ==
  ASSUME NEW kind, NEW section, NEW index \in Indexes(section)
  PROVE  \E i \in DOMAIN Keyed(kind, Items(section)) :
           Keyed(kind, Items(section))[i].key = <<kind, index>>
  <1>1. PICK i \in DOMAIN Items(section) : index = Items(section)[i].index
    BY DEF Indexes
  <1>2. i \in DOMAIN Keyed(kind, Items(section))
    BY DEF Keyed
  <1>3. Keyed(kind, Items(section))[i].key = <<kind, Items(section)[i].index>>
    BY DEF Keyed, Step
  <1> QED BY <1>1, <1>2, <1>3

(* On a payload nothing raises on, the sensors' builder yields every probe *)
(* and the switches' every out.                                            *)
LEMMA BuildersYieldItems ==
  ASSUME NEW name \in Payloads, Harmless(name)
  PROVE  /\ "sensor" \in Platforms =>
              \A index \in Indexes(Content[name].probes) :
                \E i \in DOMAIN Build("sensor", name) :
                  Build("sensor", name)[i].key = <<"probe", index>>
         /\ "switch" \in Platforms =>
              \A index \in Indexes(Content[name].outs) :
                \E i \in DOMAIN Build("switch", name) :
                  Build("switch", name)[i].key = <<"out", index>>
  <1> DEFINE p == Content[name]
  <1>1. ASSUME "sensor" \in Platforms, NEW index \in Indexes(p.probes)
        PROVE  \E i \in DOMAIN Build("sensor", name) :
                 Build("sensor", name)[i].key = <<"probe", index>>
    <2> DEFINE b == Build("sensor", name)
               probes == Keyed("probe", Items(p.probes))
    <2>1. b = SensorSteps(p)
      BY <1>1, BuildersAssumption DEF BuildOf, Builders, Steps
    <2>2. \A i \in DOMAIN b : b[i].ok
      BY <1>1 DEF Harmless
    <2> HIDE DEF b
    <2>3. ~p.badNames
      BY <2>1, <2>2, StopRaises DEF SensorSteps
    <2>4. b = Then(probes, Len(p.probes), RowSteps(p))
      BY <2>1, <2>3 DEF SensorSteps
    <2>5. PICK i \in DOMAIN probes : probes[i].key = <<"probe", index>>
      BY <1>1, ItemIsKeyed
    <2> HIDE DEF probes
    <2>6. i \in DOMAIN b /\ b[i] = probes[i]
      BY <2>4 DEF Then
    <2> QED BY <2>5, <2>6 DEF b
  <1>2. ASSUME "switch" \in Platforms, NEW index \in Indexes(p.outs)
        PROVE  \E i \in DOMAIN Build("switch", name) :
                 Build("switch", name)[i].key = <<"out", index>>
    <2> DEFINE b == Build("switch", name)
    <2>1. b = SwitchSteps(p)
      BY <1>2, BuildersAssumption DEF BuildOf, Builders, Steps
    <2>2. \A i \in DOMAIN b : b[i].ok
      BY <1>2 DEF Harmless
    <2> HIDE DEF b
    <2>3. ~p.badNames
      BY <2>1, <2>2, StopRaises DEF SwitchSteps
    <2>4. b = Keyed("out", Items(p.outs))
      BY <2>1, <2>3 DEF SwitchSteps
    <2> QED BY <1>2, <2>4, ItemIsKeyed DEF b
  <1> QED BY <1>1, <1>2

(* "Equipment added after setup appears on its own" holds of every pool,   *)
(* wiring and order of polls and additions, while no pass of a platform    *)
(* has raised since the setup: only that breaks it (klereo_add_entities).  *)
THEOREM EquipmentAppearsUnlessBroken ==
  ASSUME {"sensor", "switch"} \subseteq Platforms
  PROVE  Spec => []((\A pl \in Platforms : ~broke[pl]) => EquipmentAppears)
  <1>1. ASSUME Inv, CutByRaising, \A pl \in Platforms : ~broke[pl]
        PROVE  EquipmentAppears
    <2> SUFFICES ASSUME entry = "loaded", waiting = Nothing, Harmless(data)
                 PROVE  /\ platform["sensor"] = "up" =>
                             \A i \in Indexes(Content[data].probes) :
                               <<"sensor", <<"probe", i>>>> \in DOMAIN shown
                        /\ platform["switch"] = "up" =>
                             \A i \in Indexes(Content[data].outs) :
                               <<"switch", <<"out", i>>>> \in DOMAIN shown
      BY DEF EquipmentAppears
    <2>1. ~cut /\ data \in Payloads
      BY <1>1 DEF CutByRaising, Inv, TypeOK
    <2>2. ASSUME NEW pl \in Platforms, platform[pl] = "up",
                 NEW i \in DOMAIN Build(pl, data)
          PROVE  <<pl, Build(pl, data)[i].key>> \in DOMAIN shown
      <3>1. Build(pl, data)[i].key \in known[pl]
        BY <1>1, <2>1, <2>2 DEF Inv, NothingLost
      <3>2. waiting[pl] = {}
        BY DEF Nothing
      <3> QED BY <1>1, <2>2, <3>1, <3>2 DEF Inv, NothingLost
    <2> QED BY <2>1, <2>2, BuildersYieldItems
  <1> QED BY <1>1, Invariance, CutOnlyByRaising, PTL

(* And where no payload makes anything raise, with no condition at all.    *)
THEOREM EquipmentAppearsOnHarmlessPools ==
  ASSUME {"sensor", "switch"} \subseteq Platforms, \A p \in Payloads : Harmless(p)
  PROVE  Spec => []EquipmentAppears
  <1>1. BrokenByRaising => \A pl \in Platforms : ~broke[pl]
    BY DEF BrokenByRaising
  <1> QED BY <1>1, EquipmentAppearsUnlessBroken, BrokenOnlyByRaising, PTL
=============================================================================
