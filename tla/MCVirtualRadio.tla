--------------------------- MODULE MCVirtualRadio ---------------------------
(* Two members of the vessel's own half, the near one strong enough to     *)
(* capture, and one across a partition that heals.                         *)
EXTENDS VirtualRadio, TLC

CONSTANTS near, level, far, self

MCOthers  == {near, level, far}
MCRssi    == near :> 20 @@ level :> 10 @@ far :> 10
MCAirtime == near :> 4 @@ level :> 4 @@ far :> 5 @@ self :> 4

\* The weaker member sends a longer frame, which can end with one captured over it.
LongAirtime == near :> 4 @@ level :> 7 @@ far :> 5 @@ self :> 4
=============================================================================
