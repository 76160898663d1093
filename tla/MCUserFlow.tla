----------------------------- MODULE MCUserFlow -----------------------------
(* Three dialogs, two pools, and one entry more than there are pools.      *)
EXTENDS UserFlow, TLC

CONSTANTS one, another, third, spa, garden, a, b, c

ThreeFlows == {one, another, third}
TwoPools == {spa, garden}
ThreeSlots == {a, b, c}

(* No dialog, pool or slot is special.                                     *)
Renamings ==
  Permutations(ThreeFlows) \cup Permutations(TwoPools)
    \cup Permutations(ThreeSlots)
=============================================================================
