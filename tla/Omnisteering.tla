------------------------------ MODULE Omnisteering ------------------------------
(***************************************************************************)
(* OmnisteeringActionTerm: for every wheel, the steering joint is turned   *)
(* to the wheel's velocity, forwards or backwards, at a bounded rate, and  *)
(* the drive joint rolls it.  Angles are integers, Pi of them to half a    *)
(* turn.  The velocity of a wheel is abstracted to its heading, and the    *)
(* speed of the drive to its direction.                                    *)
(***************************************************************************)
EXTENDS Integers

CONSTANTS
    NumWheels,      \* _wheel_names.size()
    Pi,             \* half a turn, in units of angle
    Low,            \* joint_pos_min of the steering joints
    High,           \* joint_pos_max of the steering joints
    MaxStep,        \* min(_vmax, joint_vel_max) * control_dt
    Positions,      \* steering positions that can be measured
    Headings,       \* headings a wheel's velocity can have
    Still,          \* a wheel too slow to have one, or whose axle is vertical
    MaxPushes,      \* bound: how often joints are pushed away
    MaxRestarts     \* bound: how often the caller starts the policy again

ASSUME OmnisteeringAssumption ==
    /\ NumWheels \in Nat \ {0}
    /\ Pi \in Nat \ {0} /\ MaxStep \in Nat
    /\ Low \in Int /\ High \in Int /\ Low <= High
    /\ Positions \subseteq (Low - Pi) .. (High + Pi)
    /\ Headings \subseteq Int /\ Still \notin Headings
    /\ MaxPushes \in Nat /\ MaxRestarts \in Nat

VARIABLES
    position,       \* inputs.q of the steering joints
    heading,        \* heading of each wheel's velocity, or Still
    faulty,         \* wheels whose pose or position is not finite
    step,           \* inputs.step, known up to being zero
    initialized,    \* _initialized
    target,         \* _steering_target
    q_des,          \* outputs.q_des of the steering joints
    drive,          \* direction of outputs.v_des of the drive joints
    pushes,         \* joints pushed so far
    restarts        \* restarts so far

Wheels == 1 .. NumWheels

vars == <<position, heading, faulty, step, initialized, target, q_des, drive, pushes, restarts>>

Abs(x) == IF x < 0 THEN -x ELSE x

Clamp(x, low, high) == IF x < low THEN low ELSE IF x > high THEN high ELSE x

-----------------------------------------------------------------------------
(* feasible_reference *)

\* The angles that direct the wheel's axle alike.
Candidates(direct, turns) == {direct + turn * Pi : turn \in turns}

Feasible(angles) == {a \in angles : Low <= a /\ a <= High}

\* a is the first of the angles nearest to the position, in the order of turns.
IsNearest(a, position_, angles) ==
    /\ a \in angles
    /\ \A b \in angles :
         \/ Abs(a - position_) < Abs(b - position_)
         \/ Abs(a - position_) = Abs(b - position_) /\ a <= b

\* Mutant of feasible_reference: only one turn either way is tried.
feasible_reference_one(position_, delta) ==
    LET feasible == Feasible(Candidates(position_ + delta, -1 .. 1)) IN
    IF feasible = {} THEN Clamp(position_ + delta, Low, High)
    ELSE CHOOSE a \in feasible : IsNearest(a, position_, feasible)

\* Mutant of feasible_reference: the direct angle is preferred to nearer ones.
feasible_reference_direct(position_, delta) == Clamp(position_ + delta, Low, High)

feasible_reference(position_, delta) ==
    LET feasible == Feasible(Candidates(position_ + delta, -2 .. 2)) IN
    IF feasible = {} THEN Clamp(position_ + delta, Low, High)
    ELSE CHOOSE a \in feasible : IsNearest(a, position_, feasible)

-----------------------------------------------------------------------------
(* process_impl *)

\* What atan2 may return for the angle from a wheel's roll to its velocity; of
\* an exactly opposite one the sign is a matter of rounding.
Deltas(position_, heading_) ==
    {d \in -Pi .. Pi : \E turn \in -2 .. 2 : position_ + d = heading_ + turn * 2 * Pi}

\* Mutants of Previous: the limit counts from the joint, which may lag; a
\* restart keeps the old target.
PreviousMeasured(w) == position[w]
PreviousKept(w) == IF ~initialized THEN position[w] ELSE target[w]

\* The target the rate limit counts from.
Previous(w) == IF ~initialized \/ step = 0 THEN position[w] ELSE target[w]

\* Mutant of Steered: not brought within the limits.
SteeredBeyond(previous, reference) == previous + Clamp(reference - previous, -MaxStep, MaxStep)

\* The next target on the way to a reference.
Steered(previous, reference) ==
    Clamp(previous + Clamp(reference - previous, -MaxStep, MaxStep), Low, High)

\* Mutant of Rolling: the speed is not saturated.
RollingFaster(delta) == Pi - 2 * Abs(delta)

\* Direction of the rolling: the component of the velocity along the wheel.
Rolling(delta) == IF 2 * Abs(delta) < Pi THEN 1 ELSE IF 2 * Abs(delta) > Pi THEN -1 ELSE 0

\* The next target and drive direction a wheel may get.
Staged(w) ==
    IF heading[w] = Still THEN {<<Steered(Previous(w), Previous(w)), 0>>}
    ELSE {<<Steered(Previous(w), feasible_reference(position[w], d)), Rolling(d)>> :
             d \in Deltas(position[w], heading[w])}

\* One run of the term by its caller, which counts it in inputs.step: what a run
\* that does not throw amounts to.  OmnisteeringLoop takes it wheel by wheel.
process ==
    /\ faulty = {}
    /\ \E staged \in [Wheels -> UNION {Staged(w) : w \in Wheels}] :
         /\ \A w \in Wheels : staged[w] \in Staged(w)
         /\ target' = [w \in Wheels |-> staged[w][1]]
         /\ drive' = [w \in Wheels |-> staged[w][2]]
    /\ q_des' = target'
    /\ initialized' = TRUE
    /\ step' = 1
    /\ UNCHANGED <<position, heading, faulty, pushes, restarts>>

-----------------------------------------------------------------------------
(* The robot, the operator and the caller *)

\* A steering joint moves towards its commanded target, by any amount.
Follow(w) ==
    /\ initialized
    /\ \E p \in Positions \ {position[w]} :
         /\ position[w] < p => p <= q_des[w]
         /\ p < position[w] => q_des[w] <= p
         /\ position' = [position EXCEPT ![w] = p]
    /\ UNCHANGED <<heading, faulty, step, initialized, target, q_des, drive, pushes, restarts>>

\* Something else moves it.
Push(w) ==
    /\ pushes < MaxPushes
    /\ pushes' = pushes + 1
    /\ \E p \in Positions : position' = [position EXCEPT ![w] = p]
    /\ UNCHANGED <<heading, faulty, step, initialized, target, q_des, drive, restarts>>

\* A new velocity command gives every wheel a new heading.
NewCommand ==
    /\ heading' \in [Wheels -> Headings \cup {Still}]
    /\ UNCHANGED <<position, faulty, step, initialized, target, q_des, drive, pushes, restarts>>

\* The kinematics of some wheels fail or recover.
NewFaults ==
    /\ faulty' \in SUBSET Wheels
    /\ UNCHANGED <<position, heading, step, initialized, target, q_des, drive, pushes, restarts>>

\* The caller starts over with inputs.step = 0 and the same term.
Restart ==
    /\ restarts < MaxRestarts
    /\ restarts' = restarts + 1
    /\ step' = 0
    /\ UNCHANGED <<position, heading, faulty, initialized, target, q_des, drive, pushes>>

Init ==
    /\ position \in [Wheels -> Positions]
    /\ heading = [w \in Wheels |-> Still]
    /\ faulty = {}
    /\ step = 0
    /\ initialized = FALSE
    /\ target = [w \in Wheels |-> 0]
    /\ q_des = [w \in Wheels |-> 0]
    /\ drive = [w \in Wheels |-> 0]
    /\ pushes = 0
    /\ restarts = 0

Next ==
    \/ process
    \/ \E w \in Wheels : Follow(w) \/ Push(w)
    \/ NewCommand
    \/ NewFaults
    \/ Restart

\* The control timer runs the term at every period; the joints are controlled
\* to the references they are sent.
Fairness == WF_vars(process) /\ \A w \in Wheels : WF_vars(Follow(w))

SafetySpec == Init /\ [][Next]_vars

Spec == SafetySpec /\ Fairness

-----------------------------------------------------------------------------
(* Properties *)

\* Types of the term's state.
TypeOK ==
    /\ position \in [Wheels -> Positions]
    /\ heading \in [Wheels -> Headings \cup {Still}]
    /\ faulty \in SUBSET Wheels
    /\ step \in {0, 1}
    /\ initialized \in BOOLEAN
    /\ target \in [Wheels -> Int] /\ q_des \in [Wheels -> Int]
    /\ drive \in [Wheels -> {-1, 0, 1}]
    /\ pushes \in Nat /\ restarts \in Nat

\* No steering joint is ever sent beyond its limits, also when it is measured
\* beyond them in the run that starts from the measurement.
WithinLimits == initialized => \A w \in Wheels : Low <= q_des[w] /\ q_des[w] <= High

\* Between two runs the commanded angle moves by at most the velocity limit
\* allows, however the joint lags, is pushed or the heading flips.
RateLimited ==
    [][initialized /\ step # 0
        => \A w \in Wheels : Abs(q_des'[w] - q_des[w]) <= MaxStep]_vars

\* The first run, and the first after a restart, starts from where the joint is
\* (brought within its limits), not from what was commanded before.
StartsFromMeasurement ==
    [][step = 0 /\ step' # 0
        => \A w \in Wheels :
             Abs(q_des'[w] - Clamp(position[w], Low, High)) <= MaxStep]_vars

\* The angle directs a wheel's axle along the heading, one way or the other.
Along(angle, heading_) == \E turn \in -6 .. 6 : angle = heading_ + turn * Pi

\* The reference of each moving wheel is along its heading and within the
\* limits, and none of these turns of the heading within the limits is nearer.
NearestAmong(turns) ==
    \A w \in Wheels : heading[w] # Still =>
        \A d \in Deltas(position[w], heading[w]), turn \in turns :
            LET reference == feasible_reference(position[w], d)
                other     == heading[w] + turn * Pi
            IN  other \in Low .. High =>
                    /\ reference \in Low .. High
                    /\ Along(reference, heading[w])
                    /\ Abs(reference - position[w]) <= Abs(other - position[w])

\* The reference of a wheel that moves is the nearest of all the angles within
\* the limits that direct its axle along its velocity, when there is one at
\* all, though the code tries only five, also from beyond the limits.
ReferenceIsNearest == NearestAmong(-4 .. 4)

\* The wheel stands along heading h and rolls in its direction.
RollsAlong(w, h) ==
    /\ (position[w] - h) % Pi = 0
    /\ drive[w] = IF (position[w] - h) % (2 * Pi) = 0 THEN 1 ELSE -1

\* A heading that stays is eventually followed for good, whichever of the two
\* ways the wheel turns, from any position of the joint.  The limits must
\* leave room for some angle along it.
Converges ==
    \A w \in Wheels, h \in Headings :
        <>[](heading[w] = h /\ faulty = {}) => <>[]RollsAlong(w, h)
=============================================================================
