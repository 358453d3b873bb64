---------------------------- MODULE AdaptationReceiver ----------------------------
(***************************************************************************)
(* RosAdaptationReceiver: keeps the last valid estimate of the robot's     *)
(* mass, centre of mass and friction, and whenever the inputs are filled   *)
(* publishes the copy that they are given.  The eight numbers of an        *)
(* estimate are one value.                                                 *)
(***************************************************************************)
EXTENDS Naturals

CONSTANTS
    EstimateMessages,   \* arrays that may be received: their size, whether all are finite
                        \* and no friction is negative, and their data
    InitialEstimate     \* Inputs{}.adaptation_parameters

VARIABLES
    estimate,       \* _value
    adaptation,     \* inputs.adaptation_parameters
    published       \* the snapshot published last

vars == <<estimate, adaptation, published>>

Init ==
    /\ estimate = InitialEstimate
    /\ adaptation = InitialEstimate
    /\ published = InitialEstimate

Valid(msg) == msg.size = 8 /\ msg.finite /\ msg.nonnegative

\* The subscription's callback; a message that is not valid is ignored.
Receive(msg) ==
    /\ Valid(msg)
    /\ estimate' = msg.data
    /\ UNCHANGED <<adaptation, published>>

fill_inputs ==
    /\ adaptation' = estimate
    /\ published' = adaptation'
    /\ UNCHANGED estimate

Next == fill_inputs \/ \E msg \in EstimateMessages : Receive(msg)

SafetySpec == Init /\ [][Next]_vars
=============================================================================
