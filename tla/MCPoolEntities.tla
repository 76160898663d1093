--------------------------- MODULE MCPoolEntities ---------------------------
(* A pool as its payload is wired, configured, garbled and cleared.        *)
EXTENDS PoolEntities, TLC

AllPlatforms == {"sensor", "switch", "number", "select"}
SensorAndSwitch == {"sensor", "switch"}

Probes(indexes) == [i \in DOMAIN indexes |-> [index |-> indexes[i]]]
Out(index, seconds) == [index |-> index, totalTime |-> seconds]

(* A cell treats the water.                                                *)
Fresh ==
  [probes |-> Probes(<<0>>), outs |-> <<Out(1, None)>>, badNames |-> FALSE,
   params |-> "TraitMode" :> 2 @@ "ElectroChlore_TotalTime" :> 90
                @@ "Chlore_Debit" :> 1,
   ExtraParams |-> <<>>, top |-> "PumpMaxSpeed" :> 1]

(* A brominator does, which the same counter and flow are about.           *)
Bromine == [Fresh EXCEPT !.params = "TraitMode" :> 5 @@ @]

(* Chlorine does instead; a probe, one item listed twice, the heating and  *)
(* the flocculant appear, with a pump of two speeds and a setpoint.  One   *)
(* volume is two millilitres and a half, the other rounds up.              *)
Grown ==
  [Fresh EXCEPT !.probes = Probes(<<0, 5, 0>>),
                !.outs = @ \o <<Out(4, None), Out(8, 59)>>,
                !.top = "PumpMaxSpeed" :> 2,
                !.params = "TraitMode" :> 1 @@ "HeaterMode" :> 1
                             @@ "ConsigneEau" :> 28 @@ @]

(* What klereo_items skips, ahead of the out a counter is read from.       *)
Garbled == [Grown EXCEPT !.outs = <<Junk>> \o @]
BadNames == [Grown EXCEPT !.badNames = TRUE]

Pools ==
  [fresh |-> Fresh, bromine |-> Bromine, grown |-> Grown, garbled |-> Garbled,
   badnames |-> BadNames]

PoolNames == DOMAIN Pools
GarbledOnce == {"fresh", "garbled", "grown"}
=============================================================================
