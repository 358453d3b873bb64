--------------------------- MODULE MCOmnisteeringLoop ---------------------------
(* Constants of OmnisteeringLoop: joints that may stand beyond their limits.  *)
EXTENDS OmnisteeringLoop

MCLow == -3
MCPositions == {-4, 0, 3}
MCHeadings == {-1, 4}
=============================================================================
