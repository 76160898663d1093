----------------------------- MODULE MCCommands -----------------------------
(* Instances of Commands for TLC.                                          *)
EXTENDS Commands

CONSTANTS c1, c2, switch

(* Two writes on one entity.                                               *)
OneEntity == {switch}
TwoCalls == {c1, c2}
BothOnSwitch == [c \in TwoCalls |-> switch]
=============================================================================
