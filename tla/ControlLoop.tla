------------------------------- MODULE ControlLoop -------------------------------
(***************************************************************************)
(* What the node promises the robot.  References are sent only once every  *)
(* sensor has delivered; the first are within reach of those the robot fed *)
(* back last, the next within reach of the ones sent before, whatever the  *)
(* policy asks for; joints that it does not position stay.  No reference   *)
(* leaves the limits, and one the robot fed back from beyond them only     *)
(* comes closer.  A reference that is not a number never becomes one       *)
(* again.  When the policy fails nothing more is sent.  What is sensed,    *)
(* and when, is left open.                                                 *)
(***************************************************************************)
EXTENDS Integers

CONSTANTS
    Sensors,
    Joints,
    Positioned,     \* the joints that the policy positions
    Reach,          \* how far it may move each of them at a time
    Low, High,      \* their limits
    NaN             \* not a number

VARIABLES
    delivered,      \* sensors that have delivered
    feedback,       \* the references that the robot fed back last
    running,        \* references have been sent
    reference,      \* those sent last
    ended           \* the policy has failed

vars == <<delivered, feedback, running, reference, ended>>

Init ==
    /\ delivered = {}
    /\ feedback = [j \in Joints |-> 0]
    /\ running = FALSE
    /\ reference = [j \in Joints |-> 0]
    /\ ended = FALSE

\* Sensors deliver, for good, and the robot feeds references back.
Receive ==
    /\ delivered \subseteq delivered' /\ delivered' \subseteq Sensors
    /\ feedback' \in [Joints -> Int]
    /\ UNCHANGED <<running, reference, ended>>

\* Where a joint may be sent from a reference.
Reaches(j, from, to) ==
    IF j \notin Positioned THEN to = from
    ELSE \/ to = NaN
         \/ /\ from # NaN
            /\ to \in (from - Reach[j]) .. (from + Reach[j])
            /\ Low <= to \/ from <= to
            /\ to <= High \/ to <= from

Send ==
    /\ ~ended
    /\ delivered = Sensors
    /\ \A j \in Joints : Reaches(j, IF running THEN reference[j] ELSE feedback[j], reference'[j])
    /\ running' = TRUE
    /\ UNCHANGED <<delivered, feedback, ended>>

Fail ==
    /\ ended' = TRUE
    /\ UNCHANGED <<delivered, feedback, running, reference>>

Next == Receive \/ Send \/ Fail

Spec == Init /\ [][Next]_vars
=============================================================================
