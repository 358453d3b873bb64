------------------------------- MODULE JointTerms -------------------------------
(***************************************************************************)
(* IsaacLabJointPositionActionTerm and IsaacLabJointVelocityActionTerm,    *)
(* which turn the raw action of the network into the Outputs of a joint.   *)
(* Their targets are any numbers, or none.  One term does not read what    *)
(* another writes, but for the position of a joint that is processed       *)
(* twice, so that their order does not matter.                             *)
(***************************************************************************)
EXTENDS Integers

CONSTANTS
    Joints,         \* velocity indices of the robot, in whose order the Outputs are
    PositionJoints, \* those of the position terms
    VelocityJoints, \* those of the velocity terms
    Doubled,        \* those that two patterns of a position term match
    JointLow,       \* joint_pos_min
    JointHigh,      \* joint_pos_max
    JointStep,      \* joint_vel_max * control_dt
    MaxSpeed,       \* joint_vel_max
    RawTargets,     \* positions, scaled and offset, that the network may ask for
    RawSpeeds,      \* velocities that it may ask for
    NaN             \* not a number

VARIABLES
    q_des, v_des, ctrl_mode,    \* of the Outputs
    poisoned,       \* history: joints whose target was not a number, since the start
    dizzy           \* history: those whose speed was not a number, in the last run

vars == <<q_des, v_des, ctrl_mode, poisoned, dizzy>>

Init ==
    /\ q_des = [j \in Joints |-> 0]
    /\ v_des = [j \in Joints |-> 0]
    /\ ctrl_mode = [j \in Joints |-> {}]
    /\ poisoned = {} /\ dizzy = {}

\* The caller starts the position references from those of the robot.
Seed(q_ref) ==
    /\ q_des' = q_ref
    /\ poisoned' = {}
    /\ UNCHANGED <<v_des, ctrl_mode, dizzy>>

-----------------------------------------------------------------------------
\* Mutant of Clamp: std::fmin and std::fmax, to which a number is more than none.
ClampNumber(x, low, high) ==
    IF x = NaN THEN high ELSE IF x < low THEN low ELSE IF x > high THEN high ELSE x

\* std::clamp returns what compares neither less than low nor greater than high.
Clamp(x, low, high) ==
    IF x = NaN THEN NaN ELSE IF x < low THEN low ELSE IF x > high THEN high ELSE x

Plus(x, y) == IF x = NaN \/ y = NaN THEN NaN ELSE x + y
Minus(x, y) == IF x = NaN \/ y = NaN THEN NaN ELSE x - y

\* A position within the limits, no farther from the one before than the velocity
\* limit allows.
Limited(q, raw) ==
    Plus(q, Clamp(Minus(Clamp(raw, JointLow, JointHigh), q), -JointStep, JointStep))

\* The position of a joint after its terms; again is for a second pattern.
Position(j, raw, again) ==
    IF j \in Doubled THEN Limited(Limited(q_des[j], raw[j]), again[j])
    ELSE IF j \in PositionJoints THEN Limited(q_des[j], raw[j])
    ELSE q_des[j]

Speed(j, raw) ==
    IF j \in VelocityJoints THEN Clamp(raw[j], -MaxSpeed, MaxSpeed) ELSE v_des[j]

\* The modes that the terms of a joint give it, besides stiffness and damping.
Modes(j) ==
    (IF j \in PositionJoints THEN {"position"} ELSE {})
        \cup (IF j \in VelocityJoints THEN {"velocity"} ELSE {})

\* One run of all terms.
process ==
    \E target \in [PositionJoints -> RawTargets \cup {NaN}],
       again \in [Doubled -> RawTargets \cup {NaN}],
       speed \in [VelocityJoints -> RawSpeeds \cup {NaN}] :
        /\ q_des' = [j \in Joints |-> Position(j, target, again)]
        /\ v_des' = [j \in Joints |-> Speed(j, speed)]
        /\ ctrl_mode' = [j \in Joints |-> ctrl_mode[j] \cup Modes(j)]
        /\ poisoned' = poisoned \cup {j \in PositionJoints : target[j] = NaN}
                                \cup {j \in Doubled : again[j] = NaN}
        /\ dizzy' = {j \in VelocityJoints : speed[j] = NaN}
=============================================================================
