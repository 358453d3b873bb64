----------------------------- MODULE MCOmnisteering -----------------------------
(* Constants of Omnisteering with eighths of a turn: limits that leave room   *)
(* for every heading, and a joint that may stand beyond them.                 *)
EXTENDS Omnisteering

MCLow == -3
MCPositions == -5 .. 5
MCHeadings == -3 .. 4
=============================================================================
