---------------------------- MODULE MCOutControl ----------------------------
(* Instances of OutControl for TLC.                                        *)
EXTENDS OutControl

Out(index, access) ==
  [index |-> index, heater |-> 0, trait |-> 0, maxSpeed |-> 0, access |-> access]
Pump(speeds) == [Out(FiltrationIndex, ParamAny) EXCEPT !.maxSpeed = speeds]

(* The filtration with no speed, one, two and three: in Manuel 2 is then   *)
(* refused, refused, the top speed and a speed among others.               *)
Pumps == {Pump(0), Pump(1), Pump(2), Pump(3)}
VariablePump == {Pump(2)}

(* One out of every other family of rules; each gate of the account closed *)
(* for some and open for some.                                             *)
Families ==
  {[Out(HeaterIndex, Unknown) EXCEPT !.heater = 1],
   [Out(HeaterIndex, CommandMin) EXCEPT !.heater = 4],
   [Out(DisinfectantIndex, ParamAny) EXCEPT !.trait = 1],
   [Out(DisinfectantIndex, ParamAny) EXCEPT !.trait = 2],
   [Out(DisinfectantIndex, CommandMin) EXCEPT !.trait = 5],
   Out(HeaterIndex, ParamAny), Out(DisinfectantIndex, ParamAny),
   Out(0, 5), Out(0, CommandMin), Out(2, CommandMin), Out(2, Unknown),
   Out(8, ParamAny), Out(15, ParamAny)}

AllOuts == Pumps \cup Families
=============================================================================
