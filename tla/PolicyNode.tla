------------------------------- MODULE PolicyNode -------------------------------
(***************************************************************************)
(* PolicyDeployNode: the control timer's callback composed with the        *)
(* receivers of height scans and commands.  The executor is single         *)
(* threaded: while a tick is under way no other callback runs, but time    *)
(* passes, the IMU, the robot and the TF change, and the process may be    *)
(* told to shut down.  A tick is a sequence of steps, one per call the     *)
(* callback makes.  The policy network is any function: the position and   *)
(* velocity terms that follow it are given any raw action, or none.        *)
(***************************************************************************)
EXTENDS Integers, Sequences

CONSTANTS
    NumSensors, Frames, BaseLink, Transforms, Identity, Orientations, Vertical,
    SensorTimeout, None, MaxClouds,                 \* of HeightScanReceiver
    Names, TerrainBased, Filtered, MinCommand, MaxCommand, RawCommands, Malformed,
    CommandTimeout, MaxMessages,                    \* of CommandReceiver
    MaxClock, MaxRewinds,                           \* of both
    EstimateMessages, InitialEstimate,              \* of AdaptationReceiver
    PositionJoints, VelocityJoints, Doubled, JointLow, JointHigh, JointStep, MaxSpeed,
    RawTargets, RawSpeeds, NaN,                     \* of JointTerms
    VNames,         \* names of the robot's velocity indices, in their order
    JointNames,     \* names of its joints, in theirs
    References      \* position references that the robot may feed back

VARIABLES
    clock, rewinds,                                 \* the node clock
    tf, received, latestImu, baseTSource,           \* of HeightScanReceiver
    scanState,      \* its _height_scan_states
    heightScan,     \* _inputs.height_scan
    scanReady,      \* what its fill_inputs returned last
    rewound, messages, snapshotScan, command, filledAt, heardAt, targets,
                                                    \* of CommandReceiver
    commandState,   \* its _states
    estimate, adaptation, published,                \* of AdaptationReceiver
    q_des, v_des, ctrl_mode, poisoned, dizzy,       \* of JointTerms
    pc,             \* the next call of the tick under way; "idle" between ticks
    ok,             \* rclcpp::ok()
    firstSecond,    \* a second has not passed since _loop_start
    startedIn,      \* it had not when the tick started
    q_ref,          \* _inputs.q_ref
    step,           \* _inputs.step, known up to being zero
    vec_nj,         \* _vec_nj: the control modes sent last
    used,           \* history: the estimate that the last run was given
    moved,          \* history: commands have been sent
    sent,           \* history: the position references sent last
    gainsSent       \* history: the policy's stiffness and damping have been sent

scanVars == <<tf, received, latestImu, baseTSource, scanState, heightScan, scanReady>>

commandVars == <<rewound, messages, snapshotScan, command, filledAt, heardAt, targets,
                 commandState>>

estimateVars == <<estimate, adaptation, published>>

outputs == <<q_des, v_des, ctrl_mode, poisoned, dizzy>>

time == <<clock, rewinds>>

receivers == <<time, scanVars, commandVars, estimateVars>>

sendings == <<vec_nj, moved, sent, gainsSent>>

tickVars == <<pc, startedIn, q_ref, step, outputs, used, sendings>>

vars == <<receivers, ok, firstSecond, tickVars>>

\* Velocity indices and joints count from one.
Joints == DOMAIN VNames
JointIds == DOMAIN JointNames

Scans ==
    INSTANCE HeightScanReceiver WITH
        state <- scanState, inputs <- heightScan, filled <- scanReady,
        Timeout <- SensorTimeout

Commands ==
    INSTANCE CommandReceiver WITH
        state <- commandState, scanPresent <- (heightScan # None),
        Timeout <- CommandTimeout

Adaptation == INSTANCE AdaptationReceiver

Terms == INSTANCE JointTerms

\* The names of velocity indices and of joints are distinct; those of a floating
\* base differ.
ASSUME NodeAssumption ==
    /\ VNames \in Seq(STRING) /\ JointNames \in Seq(STRING)
    /\ \A v, w \in Joints : VNames[v] = VNames[w] => v = w
    /\ \A i, j \in JointIds : JointNames[i] = JointNames[j] => i = j
    /\ References \subseteq [Joints -> Int]
    /\ PositionJoints \subseteq Joints /\ VelocityJoints \subseteq Joints
    /\ Doubled \subseteq PositionJoints
    /\ JointLow \in Int /\ JointHigh \in Int /\ JointLow <= JointHigh
    /\ JointStep \in Nat /\ MaxSpeed \in Nat
    /\ RawTargets \subseteq Int /\ RawSpeeds \subseteq Int
    /\ NaN \notin Int

\* What the receivers assume of their constants.
ASSUME ReceiversAssumption ==
    /\ NumSensors \in Nat /\ SensorTimeout \in Nat /\ CommandTimeout \in Nat
    /\ MaxClock \in Nat /\ MaxClouds \in Nat /\ MaxMessages \in Nat /\ MaxRewinds \in Nat
    /\ BaseLink \in Frames /\ Identity \in Transforms /\ Vertical \subseteq Orientations
    /\ None \notin Transforms \cup Orientations
    /\ None \notin Scans!PendingScan /\ None \notin Scans!Scan
    /\ TerrainBased \subseteq Names /\ Filtered \subseteq Names
    /\ MinCommand \in Int /\ MaxCommand \in Int /\ MinCommand <= MaxCommand
    /\ RawCommands \subseteq Int /\ Malformed \notin RawCommands

-----------------------------------------------------------------------------
(* The other callbacks of the node *)

Callback ==
    /\ pc = "idle" /\ ok
    /\ UNCHANGED <<time, ok, firstSecond, tickVars>>

ScanCallback(s) ==
    /\ Callback
    /\ \/ Scans!RejectHeightScan(s)
       \/ \E f \in Frames, overflows \in BOOLEAN : Scans!StoreHeightScan(s, f, overflows)
    /\ UNCHANGED <<commandVars, estimateVars>>

CommandCallback(n) ==
    /\ Callback
    /\ UNCHANGED <<scanVars, estimateVars>>
    /\ \E raw \in RawCommands \cup {Malformed} : Commands!store_command(n, raw)

EstimateCallback ==
    /\ Callback
    /\ UNCHANGED <<scanVars, commandVars>>
    /\ \E msg \in EstimateMessages : Adaptation!Receive(msg)

-----------------------------------------------------------------------------
(* control_timer_callback *)

StartTick ==
    /\ pc = "idle" /\ ok
    /\ pc' = "sense"
    /\ startedIn' = firstSecond
    /\ UNCHANGED <<receivers, ok, firstSecond, q_ref, step, outputs, used, sendings>>

\* sense() has news of the robot: its references and the IMU's orientation,
\* None if that is not a finite unit quaternion.
Sense ==
    /\ pc = "sense" /\ ok
    /\ pc' = "commands"
    /\ q_ref' \in References
    /\ \E reading \in Orientations \cup {None} : Scans!update_imu(reading)
    /\ UNCHANGED <<commandVars, estimateVars, ok, firstSecond, startedIn, step, outputs,
                   used, sendings>>

\* The wait for the robot ends with the process.
AbortTick ==
    /\ pc = "sense" /\ ~ok
    /\ pc' = "idle"
    /\ UNCHANGED <<receivers, ok, firstSecond, startedIn, q_ref, step, outputs, used, sendings>>

\* Mutant of FillCommands: the estimate is taken, and published, along with them.
FillCommandsAndEstimate ==
    /\ pc = "commands"
    /\ pc' = "scans"
    /\ UNCHANGED scanVars
    /\ Commands!fill_inputs
    /\ Adaptation!fill_inputs
    /\ UNCHANGED <<ok, firstSecond, startedIn, q_ref, step, outputs, used, sendings>>

FillCommands ==
    /\ pc = "commands"
    /\ pc' = "scans"
    /\ UNCHANGED scanVars
    /\ Commands!fill_inputs
    /\ UNCHANGED <<estimateVars, ok, firstSecond, startedIn, q_ref, step, outputs, used,
                   sendings>>

\* Mutant of FillScans: the snapshot terrain commands see is renewed as well.
FillScansRenewing ==
    /\ pc = "scans"
    /\ Scans!fill_inputs
    /\ snapshotScan' = (heightScan' # None)
    /\ pc' = IF scanReady' THEN "seed" ELSE "idle"
    /\ UNCHANGED <<rewound, messages, command, filledAt, heardAt, targets, commandState,
                   estimateVars, ok, firstSecond, startedIn, q_ref, step, outputs, used,
                   sendings>>

\* Mutant of FillScans: the result of fill_inputs is ignored.
FillScansIgnored ==
    /\ pc = "scans"
    /\ Scans!fill_inputs
    /\ pc' = "seed"
    /\ UNCHANGED <<commandVars, estimateVars, ok, firstSecond, startedIn, q_ref, step,
                   outputs, used, sendings>>

\* Mutant of FillScans: only a scan that this tick levelled is good enough.
FillScansFresh ==
    /\ pc = "scans"
    /\ Scans!fill_inputs
    /\ pc' = IF scanReady' /\ scanState' # scanState THEN "seed" ELSE "idle"
    /\ UNCHANGED <<commandVars, estimateVars, ok, firstSecond, startedIn, q_ref, step,
                   outputs, used, sendings>>

\* Without a scan from every sensor the tick ends here.
FillScans ==
    /\ pc = "scans"
    /\ Scans!fill_inputs
    /\ pc' = IF scanReady' THEN "seed" ELSE "idle"
    /\ UNCHANGED <<commandVars, estimateVars, ok, firstSecond, startedIn, q_ref, step,
                   outputs, used, sendings>>

\* Mutant of Seeding: at every tick.
SeedingAlways == TRUE

\* The limits of the first run count from the references fed back by the robot.
Seeding == step = 0

\* The outputs are initialized as needed, and the estimate is taken.
SeedOutputs ==
    /\ pc = "seed"
    /\ pc' = "run"
    /\ IF Seeding THEN Terms!Seed(q_ref) ELSE UNCHANGED outputs
    /\ Adaptation!fill_inputs
    /\ UNCHANGED <<time, scanVars, commandVars, ok, firstSecond, startedIn, q_ref, step, used,
                   sendings>>

\* Mutant of RunPolicy: the run is not counted.
RunPolicyUncounted ==
    /\ pc = "run"
    /\ pc' = "send"
    /\ Terms!process
    /\ used' = adaptation
    /\ UNCHANGED <<receivers, ok, firstSecond, startedIn, q_ref, step, sendings>>

RunPolicy ==
    /\ pc = "run"
    /\ pc' = "send"
    /\ Terms!process
    /\ used' = adaptation
    /\ step' = 1
    /\ UNCHANGED <<receivers, ok, firstSecond, startedIn, q_ref, sendings>>

\* The policy throws: the exception leaves spin and ends the process.
PolicyThrows ==
    /\ pc = "run"
    /\ pc' = "dead"
    /\ UNCHANGED <<receivers, ok, firstSecond, startedIn, q_ref, step, outputs, used, sendings>>

\* Mutant of vid_to_jid: joints are in the order of the velocity indices.
vid_to_jid_same == [v \in Joints |-> IF v \in JointIds THEN v ELSE 0]

\* _vid_to_jid: the joint of a velocity index, zero if it has none.
vid_to_jid ==
    [v \in Joints |-> IF \E jid \in JointIds : JointNames[jid] = VNames[v]
                         THEN CHOOSE jid \in JointIds : JointNames[jid] = VNames[v] ELSE 0]

\* The control modes in the order of the joints.
fill_ctrl_mode ==
    [jid \in JointIds |-> IF \E v \in Joints : vid_to_jid[v] = jid
                             THEN ctrl_mode[CHOOSE v \in Joints : vid_to_jid[v] = jid]
                             ELSE vec_nj[jid]]

\* Stiffness and damping are sent by ticks started in the first second only.
SendCommands ==
    /\ pc = "send"
    /\ pc' = "idle"
    /\ vec_nj' = fill_ctrl_mode
    /\ moved' = TRUE
    /\ sent' = q_des
    /\ gainsSent' = (gainsSent \/ startedIn)
    /\ UNCHANGED <<receivers, ok, firstSecond, startedIn, q_ref, step, outputs, used>>

-----------------------------------------------------------------------------
(* The environment *)

\* Both receivers are given the time read once, before the commands are
\* filled: between the two fills it does not advance.
Tick ==
    /\ pc # "scans"
    /\ Scans!Tick
    /\ Commands!Tick
    /\ UNCHANGED <<estimateVars, ok, firstSecond, tickVars>>

Rewind ==
    /\ pc # "scans"
    /\ Scans!Rewind
    /\ Commands!Rewind
    /\ UNCHANGED <<estimateVars, ok, firstSecond, tickVars>>

TransformChange(f) ==
    /\ Scans!TransformChange(f)
    /\ UNCHANGED <<commandVars, estimateVars, ok, firstSecond, tickVars>>

\* The steady clock is a second past _loop_start.
SecondPasses ==
    /\ firstSecond
    /\ firstSecond' = FALSE
    /\ UNCHANGED <<receivers, ok, tickVars>>

Shutdown ==
    /\ ok
    /\ ok' = FALSE
    /\ UNCHANGED <<receivers, firstSecond, tickVars>>

-----------------------------------------------------------------------------
Init ==
    /\ Scans!Init
    /\ Commands!Init
    /\ Adaptation!Init
    /\ Terms!Init
    /\ pc = "idle" /\ ok = TRUE
    /\ firstSecond = TRUE /\ startedIn = TRUE
    /\ q_ref = [v \in Joints |-> 0]
    /\ step = 0
    /\ vec_nj = [jid \in JointIds |-> {}]
    /\ used = InitialEstimate
    /\ moved = FALSE
    /\ sent = [v \in Joints |-> 0]
    /\ gainsSent = FALSE

\* The steps of a tick.
TickStep ==
    \/ StartTick
    \/ Sense
    \/ AbortTick
    \/ FillCommands
    \/ FillScans
    \/ SeedOutputs
    \/ RunPolicy
    \/ PolicyThrows
    \/ SendCommands

Next ==
    \/ \E s \in 1 .. NumSensors : ScanCallback(s)
    \/ \E n \in Names : CommandCallback(n)
    \/ EstimateCallback
    \/ TickStep
    \/ Tick
    \/ Rewind
    \/ \E f \in Frames : TransformChange(f)
    \/ SecondPasses
    \/ Shutdown

\* The timer fires at every period, and the calls of a tick return: sense()
\* eventually has news of the robot.
Fairness == WF_vars(TickStep)

SafetySpec == Init /\ [][Next]_vars

Spec == SafetySpec /\ Fairness

-----------------------------------------------------------------------------
(* Properties *)

\* Types of the node's own state; a run precedes whatever is sent.
TypeOK ==
    /\ pc \in {"idle", "sense", "commands", "scans", "seed", "run", "send", "dead"}
    /\ ok \in BOOLEAN /\ firstSecond \in BOOLEAN /\ startedIn \in BOOLEAN
    /\ q_ref \in [Joints -> Int]
    /\ q_des \in [Joints -> Int \cup {NaN}] /\ sent \in [Joints -> Int \cup {NaN}]
    /\ v_des \in [Joints -> Int \cup {NaN}]
    /\ ctrl_mode \in [Joints -> SUBSET {"position", "velocity"}]
    /\ step \in {0, 1} /\ moved \in BOOLEAN /\ gainsSent \in BOOLEAN
    /\ moved \/ pc = "send" => step = 1

\* The policy runs, and the robot is commanded, only after every sensor has
\* delivered a scan and one of them has been filled into the inputs.
NeverBlind ==
    pc \in {"seed", "run", "send"} \/ moved =>
        /\ \A s \in 1 .. NumSensors : scanState[s].has_value
        /\ NumSensors > 0 => heightScan # None

\* With sensor_timeout_s = 0 no cloud waits between the steps of a tick or between
\* ticks, whichever of the IMU, the TF and a heading is missing.
ZeroTimeoutNeverWaits == Scans!ZeroTimeoutNeverWaits

\* A command that needs a height scan is given to the policy only when it is
\* given a height scan too.
TerrainNeedsScan ==
    \A n \in TerrainBased : command[n] # Commands!Default => heightScan # None

\* The estimate a run is given is the newest valid one, and the one published
\* last: a tick that ends early publishes none.
EstimateIsUsed ==
    /\ pc = "send" => used = estimate
    /\ pc \notin {"run", "dead"} => published = used

\* Once given a target that is not a number a joint never has a reference again,
\* and nothing else takes it away; a speed that is not a number is gone with the
\* next run.
PoisonIsForGood ==
    \A j \in Joints :
        /\ q_des[j] = NaN <=> j \in poisoned
        /\ v_des[j] = NaN <=> j \in dizzy

\* The robot is told to control each joint as the terms of its name do, though
\* it numbers joints in another order than the terms.
ModesByName ==
    moved => \A jid \in JointIds :
        vec_nj[jid] = UNION {Terms!Modes(v) : v \in {w \in Joints : VNames[w] = JointNames[jid]}}

\* How far one run may move a joint.
Reach == [j \in PositionJoints |-> IF j \in Doubled THEN 2 * JointStep ELSE JointStep]

\* Once the policy has run, every tick that gets past sense() runs it: scans
\* may grow old, but are never missing again.
NoGap == [][pc = "scans" /\ step # 0 /\ pc' # pc => pc' = "seed"]_vars

\* Once every sensor has delivered a scan the policy eventually runs, unless
\* the process is shut down or the policy throws.
EventuallyRuns ==
    (\A s \in 1 .. NumSensors : scanState[s].has_value)
        ~> (step # 0 \/ ~ok \/ pc = "dead")

\* Each receiver keeps its own specification within the node.
KeepsReceivers == Scans!SafetySpec /\ Commands!SafetySpec /\ Adaptation!SafetySpec

\* The mapping to ControlLoop: what was sensed and what was sent.
Loop ==
    INSTANCE ControlLoop WITH
        Sensors    <- 1 .. NumSensors,
        Positioned <- PositionJoints,
        Low        <- JointLow,
        High       <- JointHigh,
        delivered  <- {s \in 1 .. NumSensors : scanState[s].has_value},
        feedback   <- q_ref,
        running    <- moved,
        reference  <- sent,
        ended      <- (pc = "dead")

\* The node implements ControlLoop: what it sends starts from what the robot fed
\* back in the same tick, never jumps and never leaves the limits, however many
\* ticks end early.
KeepsLoop == Loop!Spec

\* The robot is sent the stiffness and damping of the policy along with its
\* references: README.md, "translate the output into XBot2 position, velocity,
\* effort, stiffness, damping, and control-mode commands".
GainsAreSent == moved => gainsSent
=============================================================================
