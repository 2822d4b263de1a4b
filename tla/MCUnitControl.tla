--------------------------- MODULE MCUnitControl ---------------------------
(* TLC instances of UnitControl.                                           *)
EXTENDS UnitControl, TLC

CONSTANTS me, other, none, noTile

\* Two units of the player's on two tiles; a third number is free.
TwoUnits ==
  (1 :> [owner |-> me, tile |-> 1, st |-> "ready", want |-> noTile]) @@
  (2 :> [owner |-> me, tile |-> 2, st |-> "ready", want |-> noTile]) @@
  (3 :> none)
=============================================================================
