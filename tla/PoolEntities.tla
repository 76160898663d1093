----------------------------- MODULE PoolEntities -----------------------------
(***************************************************************************)
(* The entities of a pool: EntityRegistry over what the four platforms     *)
(* read in a payload (Equipment).  A payload goes by a name, and Build is  *)
(* given to be the platforms' own builders on what it contains.            *)
(***************************************************************************)
EXTENDS EntityRegistry, Equipment

CONSTANT Content    \* the payload behind each name

ASSUME MarksAssumption == None \notin Int /\ Raises \notin Int /\ None # Raises

(* Probes and outs are lists.  Counters and flows are whole numbers, where *)
(* they are numbers.                                                       *)
ASSUME ContentAssumption ==
  \A p \in Payloads :
    /\ Content[p].badNames \in BOOLEAN
    /\ Len(Content[p].probes) \in Nat
    /\ DOMAIN Content[p].probes = 1..Len(Content[p].probes)
    /\ \A key \in DOMAIN Content[p].params : Content[p].params[key] \in Int
    /\ \A key \in DOMAIN Content[p].ExtraParams : Content[p].ExtraParams[key] \in Int
    /\ DOMAIN Content[p].outs \subseteq Nat
    /\ \A i \in DOMAIN Content[p].outs :
         Content[p].outs[i] # Junk => Content[p].outs[i].totalTime \in Int \cup {None}

Builders == [pl \in Platforms |-> [p \in Payloads |-> Steps(pl, Content[p])]]

BuildOf(pl, p) == Builders[pl][p]

(* PLATFORMS, or some of them, and their builders.                         *)
ASSUME PlatformsAssumption == Platforms \subseteq {"sensor", "switch", "number", "select"}
ASSUME BuildersAssumption ==
  /\ NoKey = NoItem
  /\ \A pl \in Platforms, p \in Payloads : Build(pl, p) = BuildOf(pl, p)

(* params.TraitMode, from the firmware's list.                             *)
Treatments ==
  [none |-> 0, chlore |-> 1, electro_x |-> 2, electro_cor |-> 3, oxygen |-> 4,
   brome |-> 5, electro_bsv |-> 6, ignore |-> 7, electro_klr |-> 8]

VolumeRows ==
  {"phvolume", "disinfectantvolume", "flocculantvolume", "hybridchlorinevolume"}

(* What a volume sensor publishes is the product that went in, to half a   *)
(* millilitre: the counter's seconds at the flow of a pump that exists, in *)
(* tenths of a litre per hour.  The disinfectant's is that of chlorine or  *)
(* oxygen, which a pump doses, and never the running time of a brominator  *)
(* or of a cell, however the treatment changes after the sensor was made.  *)
VolumeIsDosed ==
  \A e \in DOMAIN shown :
    e[1] = "sensor" /\ e[2][1] \in VolumeRows =>
      LET row == e[2][1]
          p == Content[shown[e].data]
          seconds == Counter(row, p)
          flow == Flow(row, p)
          error == 36 * Reading(row, p) - seconds * flow
      IN  Reading(row, p) \notin {None, Raises} =>
            /\ flow > 0
            /\ -18 <= error /\ error <= 18
            /\ row = "disinfectantvolume" =>
                 Field(p.params, "TraitMode") \in {Treatments.chlore, Treatments.oxygen}

(* README: "Equipment added after setup appears on its own ... gets its    *)
(* entities at the next poll -- no reload needed": once Home Assistant has *)
(* added what it was handed, every probe has its sensor and every output   *)
(* its switch, by a platform that is up, in a payload nothing raises on.   *)
EquipmentAppears ==
  entry = "loaded" /\ waiting = Nothing /\ Harmless(data) =>
    /\ platform["sensor"] = "up" =>
         \A i \in Indexes(Content[data].probes) :
           <<"sensor", <<"probe", i>>>> \in DOMAIN shown
    /\ platform["switch"] = "up" =>
         \A i \in Indexes(Content[data].outs) :
           <<"switch", <<"out", i>>>> \in DOMAIN shown
=============================================================================
