--------------------------- MODULE MCShotOutcome ---------------------------
(***************************************************************************)
(* ShotOutcome with the keeper, a fielder next to him and one on the other *)
(* side of the circle, the extreme times and powers, and two boards that a *)
(* late voter may have read: a shot in the air and a board being reset.    *)
(***************************************************************************)
EXTENDS ShotOutcome

MCJitters == {-45, 45}

MCLateShots ==
    {[type |-> "AERIAL", zone |-> 5, power |-> 25],
     [type |-> "none", zone |-> 0, power |-> 0]}
=============================================================================
