---------------------------- MODULE PolicyNodeProofs ----------------------------
(***************************************************************************)
(* Proofs about PolicyNode, for any receivers, joints, limits and rates:   *)
(* within the node each receiver keeps its own specification, and from     *)
(* their invariants follow those of the composition.                       *)
(***************************************************************************)
EXTENDS PolicyNode, TLAPS

ScanProofs ==
    INSTANCE HeightScanReceiverProofs WITH
        state <- scanState, inputs <- heightScan, filled <- scanReady,
        Timeout <- SensorTimeout

CommandProofs ==
    INSTANCE CommandReceiverProofs WITH
        state <- commandState, scanPresent <- (heightScan # None),
        Timeout <- CommandTimeout

LoopProofs ==
    INSTANCE ControlLoopProofs WITH
        Sensors    <- 1 .. NumSensors,
        Positioned <- PositionJoints,
        Low        <- JointLow,
        High       <- JointHigh,
        delivered  <- {s \in 1 .. NumSensors : scanState[s].has_value},
        feedback   <- q_ref,
        running    <- moved,
        reference  <- sent,
        ended      <- (pc = "dead")

-----------------------------------------------------------------------------
(* The receivers as the node instantiates them, and as their proofs do *)

\* The same initial state under both names of the scan receiver.
LEMMA ScanInit == Scans!Init => ScanProofs!Init
  BY DEF Scans!Init, ScanProofs!Init, Scans!Sensors, ScanProofs!Sensors

\* The same steps under both names of the scan receiver.
LEMMA ScanNext == [Scans!Next]_(Scans!vars) => [ScanProofs!Next]_(ScanProofs!vars)
  BY DEF Scans!Sensors, ScanProofs!Sensors, Scans!PendingScan,
         ScanProofs!PendingScan, Scans!Scan, ScanProofs!Scan, Scans!HeightScanState,
         ScanProofs!HeightScanState, Scans!environment, ScanProofs!environment,
         Scans!Expired, ScanProofs!Expired, Scans!Extrinsics, ScanProofs!Extrinsics,
         Scans!Ready, ScanProofs!Ready, Scans!Waits, ScanProofs!Waits,
         Scans!Consumable, ScanProofs!Consumable, Scans!Levelled,
         ScanProofs!Levelled, Scans!process_pending, ScanProofs!process_pending,
         Scans!LookedUp, ScanProofs!LookedUp, Scans!CacheExtrinsics,
         ScanProofs!CacheExtrinsics, Scans!UpdatedImu, ScanProofs!UpdatedImu,
         Scans!update_imu, ScanProofs!update_imu, Scans!RejectHeightScan,
         ScanProofs!RejectHeightScan, Scans!StoreHeightScan,
         ScanProofs!StoreHeightScan, Scans!Reached, ScanProofs!Reached,
         Scans!FillInputs, ScanProofs!FillInputs, Scans!fill_inputs,
         ScanProofs!fill_inputs, Scans!Tick, ScanProofs!Tick, Scans!Rewind,
         ScanProofs!Rewind, Scans!TransformChange, ScanProofs!TransformChange,
         Scans!Next, ScanProofs!Next, Scans!vars, ScanProofs!vars

\* The same fill_inputs under both names of the scan receiver.
LEMMA ScanFill == Scans!fill_inputs => ScanProofs!fill_inputs
  BY DEF Scans!Sensors, ScanProofs!Sensors, Scans!PendingScan,
         ScanProofs!PendingScan, Scans!Scan, ScanProofs!Scan, Scans!HeightScanState,
         ScanProofs!HeightScanState, Scans!environment, ScanProofs!environment,
         Scans!Expired, ScanProofs!Expired, Scans!Extrinsics, ScanProofs!Extrinsics,
         Scans!Ready, ScanProofs!Ready, Scans!Waits, ScanProofs!Waits,
         Scans!Consumable, ScanProofs!Consumable, Scans!Levelled,
         ScanProofs!Levelled, Scans!process_pending, ScanProofs!process_pending,
         Scans!LookedUp, ScanProofs!LookedUp, Scans!CacheExtrinsics,
         ScanProofs!CacheExtrinsics, Scans!UpdatedImu, ScanProofs!UpdatedImu,
         Scans!update_imu, ScanProofs!update_imu, Scans!RejectHeightScan,
         ScanProofs!RejectHeightScan, Scans!StoreHeightScan,
         ScanProofs!StoreHeightScan, Scans!Reached, ScanProofs!Reached,
         Scans!FillInputs, ScanProofs!FillInputs, Scans!fill_inputs,
         ScanProofs!fill_inputs, Scans!Tick, ScanProofs!Tick, Scans!Rewind,
         ScanProofs!Rewind, Scans!TransformChange, ScanProofs!TransformChange,
         Scans!Next, ScanProofs!Next, Scans!vars, ScanProofs!vars

\* The same initial state under both names of the command receiver.
LEMMA CommandInit == Commands!Init => CommandProofs!Init
  BY DEF Commands!Init, CommandProofs!Init, Commands!Default, CommandProofs!Default

\* The same steps under both names of the command receiver.
LEMMA CommandNext == [Commands!Next]_(Commands!vars) => [CommandProofs!Next]_(CommandProofs!vars)
  BY DEF Commands!Default, CommandProofs!Default, Commands!Clamp,
         CommandProofs!Clamp, Commands!Sanitizes, CommandProofs!Sanitizes,
         Commands!store_command, CommandProofs!store_command, Commands!Stale,
         CommandProofs!Stale, Commands!FallsBack, CommandProofs!FallsBack,
         Commands!filter_command, CommandProofs!filter_command, Commands!Filter,
         CommandProofs!Filter, Commands!Filled, CommandProofs!Filled,
         Commands!fill_inputs, CommandProofs!fill_inputs, Commands!ScanArrives,
         CommandProofs!ScanArrives, Commands!Tick, CommandProofs!Tick,
         Commands!Rewind, CommandProofs!Rewind, Commands!Next, CommandProofs!Next,
         Commands!vars, CommandProofs!vars, Commands!Elapsed, CommandProofs!Elapsed

\* The invariants of the receivers hold at first and are kept by their steps.
LEMMA ScanIInv ==
    /\ ScanProofs!Init => ScanProofs!IInv
    /\ ScanProofs!IInv /\ [ScanProofs!Next]_(ScanProofs!vars) => ScanProofs!IInv'
  BY ScanProofs!InitIInv, ScanProofs!NextIInv, ReceiversAssumption
     DEF ScanProofs!PendingScan, ScanProofs!Scan, Scans!PendingScan, Scans!Scan

\* The invariant of the command receiver, within the node.
LEMMA CommandIInv ==
    /\ CommandProofs!Init => CommandProofs!IInv
    /\ CommandProofs!IInv /\ [CommandProofs!Next]_(CommandProofs!vars) => CommandProofs!IInv'
  BY CommandProofs!InitIInv, CommandProofs!NextIInv, ReceiversAssumption

\* A step of the scan receiver takes no scan from a sensor or from the caller.
LEMMA ScansStay ==
    ASSUME ScanProofs!IInv, [Scans!Next]_(Scans!vars)
    PROVE  /\ ScanProofs!IInv'
           /\ \A s \in 1 .. NumSensors : scanState[s].has_value => scanState'[s].has_value
           /\ heightScan # None => heightScan' # None
<1>1. [ScanProofs!Next]_(ScanProofs!vars)
  BY ScanNext
<1>2. /\ \A s \in ScanProofs!Sensors : scanState[s].has_value => scanState'[s].has_value
      /\ heightScan # None => heightScan' # None
  BY <1>1, ScanProofs!ScansStay, ReceiversAssumption
     DEF ScanProofs!PendingScan, ScanProofs!Scan, Scans!PendingScan, Scans!Scan
<1> QED
  BY <1>1, <1>2, ScanIInv DEF ScanProofs!Sensors

\* fill_inputs succeeds when, and only when, every sensor has a scan.
LEMMA FillScansReady ==
    ASSUME ScanProofs!IInv, Scans!fill_inputs
    PROVE  /\ (\A s \in 1 .. NumSensors : scanState[s].has_value) => scanReady'
           /\ scanReady' =>
                /\ \A s \in 1 .. NumSensors : scanState'[s].has_value
                /\ NumSensors > 0 => heightScan' # None
<1>1. ScanProofs!fill_inputs
  BY ScanFill
<1>2. (\A s \in ScanProofs!Sensors : scanState[s].has_value) => scanReady'
  BY <1>1, ScanProofs!FillSucceeds, ReceiversAssumption
     DEF ScanProofs!PendingScan, ScanProofs!Scan, Scans!PendingScan, Scans!Scan
<1>3. ScanProofs!IInv'
  BY <1>1, ScanProofs!FillIInv, ReceiversAssumption
     DEF ScanProofs!PendingScan, ScanProofs!Scan, Scans!PendingScan, Scans!Scan
<1>4. scanReady' => \A s \in ScanProofs!Sensors : scanState'[s].has_value /\ heightScan' # None
  BY <1>3 DEF ScanProofs!IInv, ScanProofs!EverySensorBeforeReady
<1>5. NumSensors > 0 => 1 \in 1 .. NumSensors
  BY ReceiversAssumption
<1> QED
  BY <1>2, <1>4, <1>5 DEF ScanProofs!Sensors

-----------------------------------------------------------------------------
(* A step of the node as a step of each receiver *)

\* Every step of the node is one of its scan receiver, or leaves it alone.
LEMMA StepOfScans == [Next]_vars => [Scans!Next]_(Scans!vars)
<1> SUFFICES ASSUME [Next]_vars
             PROVE  [Scans!Next]_(Scans!vars)
  OBVIOUS
<1>1. ASSUME NEW s \in 1 .. NumSensors, ScanCallback(s)
      PROVE  Scans!Next
  BY <1>1 DEF ScanCallback, Scans!Next, Scans!Sensors
<1>2. ASSUME NEW n \in Names, CommandCallback(n)
      PROVE  UNCHANGED Scans!vars
  BY <1>2 DEF CommandCallback, Callback, scanVars, time, Scans!vars
<1>3. CASE Sense
  BY <1>3 DEF Sense, Scans!Next
<1>4. CASE FillCommands
  BY <1>4 DEF FillCommands, scanVars, Scans!vars, Commands!fill_inputs
<1>5. CASE FillScans
  BY <1>5 DEF FillScans, Scans!Next
<1>6. CASE Tick
  BY <1>6 DEF Tick, Scans!Next
<1>7. CASE Rewind
  BY <1>7 DEF Rewind, Scans!Next
<1>8. ASSUME NEW f \in Frames, TransformChange(f)
      PROVE  Scans!Next
  BY <1>8 DEF TransformChange, Scans!Next
<1>9. CASE EstimateCallback \/ StartTick \/ AbortTick \/ SeedOutputs \/ RunPolicy
           \/ PolicyThrows \/ SendCommands \/ SecondPasses \/ Shutdown \/ UNCHANGED vars
  <2>1. UNCHANGED <<time, scanVars>>
    BY <1>9 DEF EstimateCallback, Callback, StartTick, AbortTick, SeedOutputs, RunPolicy,
                PolicyThrows, SendCommands, SecondPasses, Shutdown, vars, receivers
  <2> QED
    BY <2>1 DEF time, scanVars, Scans!vars
<1> QED
  BY <1>1, <1>2, <1>3, <1>4, <1>5, <1>6, <1>7, <1>8, <1>9 DEF Next, TickStep

\* Every step of the node that takes no scan away is one of its command receiver,
\* or leaves it alone.
LEMMA StepOfCommands ==
    (heightScan # None => heightScan' # None) /\ [Next]_vars => [Commands!Next]_(Commands!vars)
<1> SUFFICES ASSUME [Next]_vars, heightScan # None => heightScan' # None
             PROVE  [Commands!Next]_(Commands!vars)
  OBVIOUS
<1>1. ASSUME NEW s \in 1 .. NumSensors, ScanCallback(s)
      PROVE  UNCHANGED Commands!vars
  <2>1. heightScan' = heightScan
    BY <1>1 DEF ScanCallback, Scans!RejectHeightScan, Scans!StoreHeightScan
  <2> QED
    BY <1>1, <2>1 DEF ScanCallback, Callback, commandVars, time, Commands!vars
<1>2. ASSUME NEW n \in Names, CommandCallback(n)
      PROVE  Commands!Next
  BY <1>2 DEF CommandCallback, Commands!Next
<1>3. CASE Sense
  BY <1>3 DEF Sense, Scans!update_imu, Scans!environment, commandVars, Commands!vars
<1>4. CASE FillCommands
  BY <1>4 DEF FillCommands, Commands!Next
<1>5. CASE FillScans
  <2>1. UNCHANGED <<clock, rewinds, commandVars>>
    BY <1>5 DEF FillScans, Scans!fill_inputs, Scans!environment
  <2>2. CASE (heightScan' # None) = (heightScan # None)
    BY <2>1, <2>2 DEF commandVars, Commands!vars
  <2>3. CASE heightScan = None /\ heightScan' # None
    <3>1. Commands!ScanArrives
      BY <2>1, <2>3 DEF commandVars, Commands!ScanArrives
    <3> QED
      BY <3>1 DEF Commands!Next
  <2> QED
    BY <2>2, <2>3
<1>6. CASE Tick
  BY <1>6 DEF Tick, Commands!Next
<1>7. CASE Rewind
  BY <1>7 DEF Rewind, Commands!Next
<1>8. ASSUME NEW f \in Frames, TransformChange(f)
      PROVE  UNCHANGED Commands!vars
  BY <1>8 DEF TransformChange, Scans!TransformChange, commandVars, Commands!vars
<1>9. CASE EstimateCallback \/ StartTick \/ AbortTick \/ SeedOutputs \/ RunPolicy
           \/ PolicyThrows \/ SendCommands \/ SecondPasses \/ Shutdown \/ UNCHANGED vars
  <2>1. UNCHANGED <<time, scanVars, commandVars>>
    BY <1>9 DEF EstimateCallback, Callback, StartTick, AbortTick, SeedOutputs, RunPolicy,
                PolicyThrows, SendCommands, SecondPasses, Shutdown, vars, receivers
  <2> QED
    BY <2>1 DEF time, scanVars, commandVars, Commands!vars
<1> QED
  BY <1>1, <1>2, <1>3, <1>4, <1>5, <1>6, <1>7, <1>8, <1>9 DEF Next, TickStep

\* Every step of the node is one of its adaptation receiver, or leaves it alone.
LEMMA StepOfAdaptation == [Next]_vars => [Adaptation!Next]_(Adaptation!vars)
<1> SUFFICES ASSUME [Next]_vars
             PROVE  [Adaptation!Next]_(Adaptation!vars)
  OBVIOUS
<1>1. CASE EstimateCallback
  BY <1>1 DEF EstimateCallback, Adaptation!Next
<1>2. CASE SeedOutputs
  BY <1>2 DEF SeedOutputs, Adaptation!Next
<1>3. CASE ~EstimateCallback /\ ~SeedOutputs
  <2>1. UNCHANGED estimateVars
    BY <1>3 DEF Next, TickStep, ScanCallback, CommandCallback, StartTick, Sense, AbortTick,
                FillCommands, FillScans, RunPolicy, PolicyThrows, SendCommands, Tick, Rewind,
                TransformChange, SecondPasses, Shutdown, vars, receivers
  <2> QED
    BY <2>1 DEF estimateVars, Adaptation!vars
<1> QED
  BY <1>1, <1>2, <1>3

\* Most steps leave alone what the node itself reads and writes, and no tick of
\* theirs gets as far as to run the policy or to send.
LEMMA OtherSteps ==
    ASSUME [Next]_vars, ~Sense, ~SeedOutputs, ~RunPolicy, ~SendCommands
    PROVE  /\ UNCHANGED <<step, q_ref, used, moved, sent, vec_nj>>
           /\ UNCHANGED <<q_des, v_des, ctrl_mode, poisoned, dizzy>>
           /\ pc' = "send" <=> pc = "send"
           /\ pc' = "run" => pc = "run"
  BY DEF Next, TickStep, ScanCallback, CommandCallback, EstimateCallback, Callback, StartTick,
         AbortTick, FillCommands, FillScans, PolicyThrows, Tick, Rewind, TransformChange,
         SecondPasses, Shutdown, vars, tickVars, outputs, sendings

-----------------------------------------------------------------------------
(* The inductive invariant *)

\* Once a run is due or has been, every sensor has a scan and so has the policy.
Seen ==
    pc \in {"seed", "run", "send"} \/ step # 0 =>
        /\ \A s \in 1 .. NumSensors : scanState[s].has_value
        /\ NumSensors > 0 => heightScan # None

\* A scan the terrain commands have seen is there; those accepted have seen it.
TerrainSeen ==
    /\ snapshotScan => heightScan # None
    /\ \A n \in TerrainBased :
         commandState[n].has_value \/ command[n] # Commands!Default => heightScan # None

\* Where the next run counts from: what was sent last, or, before that, what the
\* robot fed back.
Base == IF moved THEN sent ELSE q_ref

\* Before the first sending nothing has run, and after it what was commanded is
\* what was sent.  A run that is due counts from there, and one that is due to be
\* sent is within reach.
Motion ==
    /\ ~moved /\ pc # "send" => step = 0
    /\ moved /\ pc # "send" => q_des = sent
    /\ pc = "run" => q_des = Base
    /\ pc = "send" => \A j \in Joints : Loop!Reaches(j, Base[j], q_des[j])

\* A run that is due is given the estimate that was published.
Estimated ==
    /\ pc = "run" => adaptation = estimate /\ published = adaptation
    /\ EstimateIsUsed

\* Modes are those of the terms once the policy has run; nothing has been sent
\* before the first sending.
Moded ==
    /\ \A j \in Joints : ctrl_mode[j] \subseteq Terms!Modes(j)
    /\ pc = "send" => \A j \in Joints : ctrl_mode[j] = Terms!Modes(j)
    /\ ~moved => vec_nj = [jid \in JointIds |-> {}]
    /\ ModesByName

\* Only a velocity term's joint can lack a speed.
Numbers == PoisonIsForGood /\ dizzy \subseteq VelocityJoints

IInv ==
    /\ TypeOK
    /\ ScanProofs!IInv
    /\ CommandProofs!IInv
    /\ Seen
    /\ TerrainSeen
    /\ Motion
    /\ Estimated
    /\ Moded
    /\ Numbers

\* The limits move a joint by at most one step per application, never beyond them
\* nor, if it is beyond them, any farther, and take a number from it only if they
\* are given none.
LEMMA LimitedStep ==
    ASSUME NEW q \in Int \cup {NaN}, NEW raw \in RawTargets \cup {NaN}
    PROVE  /\ Terms!Limited(q, raw) = NaN <=> q = NaN \/ raw = NaN
           /\ Terms!Limited(q, raw) # NaN =>
                /\ Terms!Limited(q, raw) \in Int
                /\ Terms!Limited(q, raw) \in (q - JointStep) .. (q + JointStep)
                /\ JointLow <= Terms!Limited(q, raw) \/ q <= Terms!Limited(q, raw)
                /\ Terms!Limited(q, raw) <= JointHigh \/ Terms!Limited(q, raw) <= q
<1> DEFINE clamped == Terms!Clamp(raw, JointLow, JointHigh)
           moves == Terms!Clamp(Terms!Minus(clamped, q), -JointStep, JointStep)
<1>1. /\ NaN \notin Int /\ JointLow \in Int /\ JointHigh \in Int /\ JointStep \in Nat
      /\ raw \in Int \cup {NaN}
  BY NodeAssumption
<1>2. Terms!Limited(q, raw) = Terms!Plus(q, moves)
  BY DEF Terms!Limited
<1>3. CASE raw = NaN
  <2>1. clamped = NaN
    BY <1>3 DEF Terms!Clamp
  <2>2. moves = NaN
    BY <2>1 DEF Terms!Clamp, Terms!Minus
  <2> QED
    BY <1>2, <1>3, <2>2 DEF Terms!Plus
<1>4. CASE q = NaN
  BY <1>2, <1>4 DEF Terms!Plus
<1>5. CASE q # NaN /\ raw # NaN
  <2>1. q \in Int /\ clamped \in Int /\ JointLow <= clamped /\ clamped <= JointHigh
    BY <1>1, <1>5, NodeAssumption DEF Terms!Clamp
  <2>2. Terms!Minus(clamped, q) = clamped - q /\ clamped - q \in Int
    BY <1>1, <2>1 DEF Terms!Minus
  <2> HIDE DEF clamped
  <2>3. /\ moves \in (-JointStep) .. JointStep
        /\ 0 <= moves \/ clamped - q <= moves
        /\ moves <= 0 \/ moves <= clamped - q
    BY <1>1, <2>2 DEF Terms!Clamp
  <2> HIDE DEF moves
  <2>4. moves \in Int /\ q + moves \in Int /\ q + moves \in (q - JointStep) .. (q + JointStep)
    BY <1>1, <2>1, <2>3
  <2>5. Terms!Plus(q, moves) = q + moves
    BY <1>1, <2>1, <2>4 DEF Terms!Plus
  <2>6. /\ JointLow <= q + moves \/ q <= q + moves
        /\ q + moves <= JointHigh \/ q + moves <= q
    BY <1>1, <2>1, <2>3, <2>4
  <2> QED
    BY <1>1, <1>2, <1>5, <2>4, <2>5, <2>6
<1> QED
  BY <1>3, <1>4, <1>5

\* So a run moves each joint by at most its reach, and takes a number from those
\* alone that are given none.
LEMMA RunStep ==
    ASSUME TypeOK, Terms!process
    PROVE  /\ q_des' \in [Joints -> Int \cup {NaN}]
           /\ \A j \in Joints : Loop!Reaches(j, q_des[j], q_des'[j])
           /\ Numbers => Numbers'
           /\ v_des' \in [Joints -> Int \cup {NaN}]
           /\ ctrl_mode' = [j \in Joints |-> ctrl_mode[j] \cup Terms!Modes(j)]
<1>1. PICK target \in [PositionJoints -> RawTargets \cup {NaN}],
           again \in [Doubled -> RawTargets \cup {NaN}],
           speed \in [VelocityJoints -> RawSpeeds \cup {NaN}] :
        /\ q_des' = [j \in Joints |-> Terms!Position(j, target, again)]
        /\ v_des' = [j \in Joints |-> Terms!Speed(j, speed)]
        /\ ctrl_mode' = [j \in Joints |-> ctrl_mode[j] \cup Terms!Modes(j)]
        /\ poisoned' = poisoned \cup {j \in PositionJoints : target[j] = NaN}
                                \cup {j \in Doubled : again[j] = NaN}
        /\ dizzy' = {j \in VelocityJoints : speed[j] = NaN}
  BY DEF Terms!process
<1>2. /\ NaN \notin Int /\ JointStep \in Nat /\ MaxSpeed \in Nat /\ Doubled \subseteq PositionJoints
      /\ JointLow \in Int /\ JointHigh \in Int
      /\ RawSpeeds \subseteq Int /\ PositionJoints \subseteq Joints /\ VelocityJoints \subseteq Joints
  BY NodeAssumption
<1>3. ASSUME NEW j \in Joints
      PROVE  /\ q_des'[j] \in Int \cup {NaN}
             /\ Loop!Reaches(j, q_des[j], q_des'[j])
             /\ q_des'[j] = NaN <=> \/ q_des[j] = NaN
                                    \/ j \in PositionJoints /\ target[j] = NaN
                                    \/ j \in Doubled /\ again[j] = NaN
  <2>1. q_des[j] \in Int \cup {NaN}
    BY DEF TypeOK
  <2>2. CASE j \in Doubled
    <3>1. target[j] \in RawTargets \cup {NaN} /\ again[j] \in RawTargets \cup {NaN}
      BY <1>2, <2>2
    <3> DEFINE once == Terms!Limited(q_des[j], target[j])
               twice == Terms!Limited(once, again[j])
    <3>2. /\ once = NaN <=> q_des[j] = NaN \/ target[j] = NaN
          /\ once # NaN => /\ once \in Int
                           /\ once \in (q_des[j] - JointStep) .. (q_des[j] + JointStep)
                           /\ JointLow <= once \/ q_des[j] <= once
                           /\ once <= JointHigh \/ once <= q_des[j]
      BY <2>1, <3>1, LimitedStep
    <3>3. once \in Int \cup {NaN}
      BY <3>2
    <3> HIDE DEF once
    <3>4. /\ twice = NaN <=> once = NaN \/ again[j] = NaN
          /\ twice # NaN => /\ twice \in Int
                            /\ twice \in (once - JointStep) .. (once + JointStep)
                            /\ JointLow <= twice \/ once <= twice
                            /\ twice <= JointHigh \/ twice <= once
      BY <3>1, <3>3, LimitedStep
    <3>5. q_des'[j] = twice
      BY <1>1, <2>2 DEF Terms!Position, once
    <3> HIDE DEF twice
    <3>6. CASE twice = NaN
      BY <1>2, <2>2, <3>2, <3>4, <3>5, <3>6 DEF Loop!Reaches
    <3>7. CASE twice # NaN
      <4>1. q_des[j] # NaN /\ once # NaN /\ q_des[j] \in Int /\ once \in Int /\ twice \in Int
        BY <2>1, <3>2, <3>4, <3>7
      <4>2. /\ q_des[j] - JointStep <= once /\ once <= q_des[j] + JointStep
            /\ once - JointStep <= twice /\ twice <= once + JointStep
        BY <1>2, <3>2, <3>4, <3>7, <4>1
      <4>3. twice \in (q_des[j] - 2 * JointStep) .. (q_des[j] + 2 * JointStep)
        BY <1>2, <4>1, <4>2
      <4>4. /\ JointLow <= twice \/ q_des[j] <= twice
            /\ twice <= JointHigh \/ twice <= q_des[j]
        BY <1>2, <3>2, <3>4, <3>7, <4>1
      <4>5. Reach[j] = 2 * JointStep
        BY <1>2, <2>2 DEF Reach
      <4>6. Loop!Reaches(j, q_des[j], q_des'[j])
        BY <1>2, <2>2, <3>5, <4>1, <4>3, <4>4, <4>5 DEF Loop!Reaches
      <4> QED
        BY <1>2, <2>2, <3>2, <3>4, <3>5, <3>7, <4>1, <4>6
    <3> QED
      BY <3>6, <3>7
  <2>3. CASE j \in PositionJoints /\ j \notin Doubled
    <3>1. target[j] \in RawTargets \cup {NaN}
      BY <2>3
    <3>2. q_des'[j] = Terms!Limited(q_des[j], target[j])
      BY <1>1, <2>3 DEF Terms!Position
    <3>3. /\ q_des'[j] = NaN <=> q_des[j] = NaN \/ target[j] = NaN
          /\ q_des'[j] # NaN => /\ q_des'[j] \in Int
                                /\ q_des'[j] \in (q_des[j] - JointStep) .. (q_des[j] + JointStep)
                                /\ JointLow <= q_des'[j] \/ q_des[j] <= q_des'[j]
                                /\ q_des'[j] <= JointHigh \/ q_des'[j] <= q_des[j]
      BY <2>1, <3>1, <3>2, LimitedStep
    <3>4. Reach[j] = JointStep
      BY <2>3 DEF Reach
    <3> QED
      BY <2>3, <3>3, <3>4 DEF Loop!Reaches
  <2>4. CASE j \notin PositionJoints
    <3>1. q_des'[j] = q_des[j] /\ j \notin Doubled
      BY <1>1, <1>2, <2>4 DEF Terms!Position
    <3> QED
      BY <2>1, <2>4, <3>1 DEF Loop!Reaches
  <2> QED
    BY <2>2, <2>3, <2>4
<1>4. ASSUME NEW j \in Joints
      PROVE  /\ v_des'[j] \in Int \cup {NaN}
             /\ Numbers => (v_des'[j] = NaN <=> j \in dizzy')
  <2>1. v_des[j] \in Int \cup {NaN} /\ v_des'[j] = Terms!Speed(j, speed)
    BY <1>1 DEF TypeOK
  <2>2. CASE j \in VelocityJoints
    <3>1. speed[j] \in Int \cup {NaN}
      BY <1>2, <2>2
    <3>2. v_des'[j] = Terms!Clamp(speed[j], -MaxSpeed, MaxSpeed)
      BY <2>1, <2>2 DEF Terms!Speed
    <3>3. v_des'[j] = NaN <=> speed[j] = NaN
      BY <1>2, <3>1, <3>2 DEF Terms!Clamp
    <3>4. v_des'[j] \in Int \cup {NaN}
      BY <1>2, <3>1, <3>2 DEF Terms!Clamp
    <3> QED
      BY <1>1, <2>2, <3>3, <3>4
  <2>3. CASE j \notin VelocityJoints
    <3>1. v_des'[j] = v_des[j] /\ j \notin dizzy'
      BY <1>1, <2>1, <2>3 DEF Terms!Speed
    <3> QED
      BY <2>1, <2>3, <3>1 DEF Numbers, PoisonIsForGood
  <2> QED
    BY <2>2, <2>3
<1>5. q_des' = [j \in Joints |-> q_des'[j]] /\ v_des' = [j \in Joints |-> v_des'[j]]
  BY <1>1
<1>6. Numbers => Numbers'
  <2> SUFFICES ASSUME Numbers, NEW j \in Joints
               PROVE  /\ q_des'[j] = NaN <=> j \in poisoned'
                      /\ v_des'[j] = NaN <=> j \in dizzy'
    BY <1>1 DEF Numbers, PoisonIsForGood
  <2>1. q_des[j] = NaN <=> j \in poisoned
    BY DEF Numbers, PoisonIsForGood
  <2>2. j \in poisoned' <=> \/ j \in poisoned
                            \/ j \in PositionJoints /\ target[j] = NaN
                            \/ j \in Doubled /\ again[j] = NaN
    BY <1>1
  <2> QED
    BY <1>3, <1>4, <2>1, <2>2
<1> QED
  BY <1>1, <1>3, <1>4, <1>5, <1>6

\* The node starts in the invariant.
LEMMA InitIInv == Init => IInv
<1> SUFFICES ASSUME Init
             PROVE  IInv
  OBVIOUS
<1>1. /\ pc = "idle" /\ step = 0 /\ moved = FALSE
      /\ ok = TRUE /\ firstSecond = TRUE /\ startedIn = TRUE /\ gainsSent = FALSE
      /\ q_ref = [v \in Joints |-> 0] /\ sent = [v \in Joints |-> 0]
      /\ vec_nj = [jid \in JointIds |-> {}]
  BY DEF Init
<1>2. /\ q_des = [j \in Joints |-> 0] /\ v_des = [j \in Joints |-> 0]
      /\ ctrl_mode = [j \in Joints |-> {}] /\ poisoned = {} /\ dizzy = {}
  BY DEF Init, Terms!Init
<1>3. TypeOK
  <2>1. /\ q_ref \in [Joints -> Int] /\ sent \in [Joints -> Int \cup {NaN}]
        /\ q_des \in [Joints -> Int \cup {NaN}] /\ v_des \in [Joints -> Int \cup {NaN}]
        /\ ctrl_mode \in [Joints -> SUBSET {"position", "velocity"}]
    BY <1>1, <1>2
  <2> QED
    BY <1>1, <2>1 DEF TypeOK
<1>4. Seen /\ Motion
  BY <1>1 DEF Seen, Motion
<1>5. ScanProofs!IInv
  BY ScanInit, ScanIInv DEF Init
<1>6. CommandProofs!IInv
  BY CommandInit, CommandIInv DEF Init
<1>7. TerrainSeen
  BY ReceiversAssumption DEF Init, Commands!Init, TerrainSeen
<1>8. Estimated
  BY <1>1 DEF Init, Adaptation!Init, Estimated, EstimateIsUsed
<1>9. Moded
  BY <1>1, <1>2 DEF Moded, ModesByName
<1>10. Numbers
  <2>1. 0 # NaN
    BY NodeAssumption
  <2> QED
    BY <1>2, <2>1 DEF Numbers, PoisonIsForGood
<1> QED
  BY <1>3, <1>4, <1>5, <1>6, <1>7, <1>8, <1>9, <1>10 DEF IInv

\* Types are kept by every step.
LEMMA TypeStep == TypeOK /\ [Next]_vars => TypeOK'
<1> SUFFICES ASSUME TypeOK, [Next]_vars
             PROVE  TypeOK'
  OBVIOUS
<1>1. CASE Sense
  <2>1. q_ref' \in [Joints -> Int]
    BY <1>1, NodeAssumption DEF Sense
  <2> QED
    BY <1>1, <2>1 DEF Sense, TypeOK, outputs, sendings
<1>2. CASE SeedOutputs
  <2>1. /\ q_des' \in [Joints -> Int \cup {NaN}]
        /\ UNCHANGED <<v_des, ctrl_mode>>
    BY <1>2 DEF SeedOutputs, Terms!Seed, TypeOK, outputs
  <2> QED
    BY <1>2, <2>1 DEF SeedOutputs, TypeOK, sendings
<1>3. CASE RunPolicy
  <2>1. Terms!process
    BY <1>3 DEF RunPolicy
  <2>2. /\ q_des' \in [Joints -> Int \cup {NaN}] /\ v_des' \in [Joints -> Int \cup {NaN}]
        /\ ctrl_mode' = [j \in Joints |-> ctrl_mode[j] \cup Terms!Modes(j)]
    BY <2>1, RunStep
  <2>3. ctrl_mode' \in [Joints -> SUBSET {"position", "velocity"}]
    BY <2>2 DEF TypeOK, Terms!Modes
  <2> QED
    BY <1>3, <2>2, <2>3 DEF RunPolicy, TypeOK, sendings
<1>4. CASE SendCommands
  BY <1>4 DEF SendCommands, TypeOK, outputs
<1>5. CASE StartTick
  BY <1>5 DEF StartTick, TypeOK, outputs, sendings
<1>6. CASE AbortTick \/ FillCommands \/ FillScans \/ PolicyThrows
  <2>1. /\ pc' \in {"idle", "scans", "seed", "dead"}
        /\ UNCHANGED <<ok, firstSecond, startedIn, q_ref, step, outputs, sendings>>
    BY <1>6 DEF AbortTick, FillCommands, FillScans, PolicyThrows
  <2> QED
    BY <2>1 DEF TypeOK, outputs, sendings
<1>7. CASE SecondPasses \/ Shutdown
  <2>1. ok' \in BOOLEAN /\ firstSecond' \in BOOLEAN
    BY <1>7 DEF SecondPasses, Shutdown, TypeOK
  <2>2. UNCHANGED tickVars
    BY <1>7 DEF SecondPasses, Shutdown
  <2> QED
    BY <2>1, <2>2 DEF TypeOK, tickVars, outputs, sendings
<1>8. CASE ~(\/ Sense \/ SeedOutputs \/ RunPolicy \/ SendCommands \/ StartTick \/ AbortTick
             \/ FillCommands \/ FillScans \/ PolicyThrows \/ SecondPasses \/ Shutdown)
  <2>1. UNCHANGED <<ok, firstSecond, tickVars>>
    BY <1>8 DEF Next, TickStep, ScanCallback, CommandCallback, EstimateCallback, Callback,
                Tick, Rewind, TransformChange, vars
  <2> QED
    BY <2>1 DEF TypeOK, tickVars, outputs, sendings
<1> QED
  BY <1>1, <1>2, <1>3, <1>4, <1>5, <1>6, <1>7, <1>8

\* Scans once seen stay; a run becomes due only when fill_inputs succeeded.
LEMMA SeenStep == IInv /\ [Next]_vars => Seen'
<1> SUFFICES ASSUME IInv, [Next]_vars
             PROVE  Seen'
  OBVIOUS
<1>1. /\ \A s \in 1 .. NumSensors : scanState[s].has_value => scanState'[s].has_value
      /\ heightScan # None => heightScan' # None
  BY StepOfScans, ScansStay DEF IInv
<1>2. CASE FillScans
  <2>1. pc' = (IF scanReady' THEN "seed" ELSE "idle") /\ step' = step /\ Scans!fill_inputs
    BY <1>2 DEF FillScans
  <2>2. scanReady' =>
            /\ \A s \in 1 .. NumSensors : scanState'[s].has_value
            /\ NumSensors > 0 => heightScan' # None
    BY <2>1, FillScansReady DEF IInv
  <2> QED
    BY <1>1, <2>1, <2>2 DEF IInv, Seen
<1>3. CASE ~FillScans
  <2>1. pc' \in {"seed", "run", "send"} \/ step' # 0 => pc \in {"seed", "run", "send"} \/ step # 0
    BY <1>3 DEF Next, TickStep, ScanCallback, CommandCallback, EstimateCallback, Callback,
                StartTick, Sense, AbortTick, FillCommands, SeedOutputs, RunPolicy,
                PolicyThrows, SendCommands, Tick, Rewind, TransformChange, SecondPasses,
                Shutdown, vars, tickVars
  <2> QED
    BY <1>1, <2>1 DEF IInv, Seen
<1> QED
  BY <1>2, <1>3

\* A terrain command is accepted, and used, only after a scan was filled.
LEMMA TerrainStep == IInv /\ [Next]_vars => TerrainSeen'
<1> SUFFICES ASSUME IInv, [Next]_vars
             PROVE  TerrainSeen'
  OBVIOUS
<1>1. heightScan # None => heightScan' # None
  BY StepOfScans, ScansStay DEF IInv
<1>2. [Commands!Next]_(Commands!vars)
  BY <1>1, StepOfCommands
<1>3. \A n \in Names : commandState[n] \in CommandProofs!CommandState
  BY DEF IInv, CommandProofs!IInv, CommandProofs!TypeOK
<1>4. commandState \in [Names -> CommandProofs!CommandState]
  BY DEF IInv, CommandProofs!IInv, CommandProofs!TypeOK
<1>5. ASSUME NEW m \in Names, NEW raw \in RawCommands \cup {Malformed},
             Commands!store_command(m, raw)
      PROVE  TerrainSeen'
  <2>1. /\ command' = command /\ snapshotScan' = snapshotScan
        /\ m \in TerrainBased => snapshotScan
    BY <1>5 DEF Commands!store_command, Commands!Sanitizes
  <2>2. \A n \in Names : n # m => commandState'[n] = commandState[n]
    BY <1>4, <1>5 DEF Commands!store_command
  <2> QED
    BY <1>1, <2>1, <2>2, ReceiversAssumption DEF IInv, TerrainSeen, Commands!Default
<1>6. CASE Commands!fill_inputs
  <2>1. PICK filtered \in [Names -> UNION {Commands!Filter(n) : n \in Names}] :
           /\ \A n \in Names : filtered[n] \in Commands!Filter(n)
           /\ command' = filtered
           /\ commandState' = [n \in Names |-> Commands!Filled(commandState[n], filtered[n])]
           /\ snapshotScan' = (heightScan # None)
    BY <1>6 DEF Commands!fill_inputs
  <2>2. ASSUME NEW n \in Names
        PROVE  /\ commandState'[n].has_value = commandState[n].has_value
               /\ command'[n] # Commands!Default => commandState[n].has_value
    <3>1. commandState'[n].has_value = commandState[n].has_value
      BY <1>3, <2>1 DEF Commands!Filled, CommandProofs!CommandState
    <3>2. ~commandState[n].has_value => Commands!Filter(n) = {Commands!Default}
      BY DEF Commands!Filter, Commands!FallsBack, Commands!Stale
    <3> QED
      BY <2>1, <3>1, <3>2
  <2> QED
    BY <1>1, <2>1, <2>2, ReceiversAssumption DEF IInv, TerrainSeen, Commands!Default
<1>7. CASE \/ Commands!ScanArrives \/ Commands!Tick \/ Commands!Rewind
           \/ UNCHANGED Commands!vars
  <2>1. UNCHANGED <<snapshotScan, command, commandState>>
    BY <1>7 DEF Commands!ScanArrives, Commands!Tick, Commands!Rewind, Commands!vars
  <2> QED
    BY <1>1, <2>1 DEF IInv, TerrainSeen, Commands!Default
<1> QED
  BY <1>2, <1>5, <1>6, <1>7 DEF Commands!Next

\* A run counts from what was sent last, or, being the first, from the feedback.
LEMMA MotionStep == IInv /\ [Next]_vars => Motion'
<1> SUFFICES ASSUME IInv, [Next]_vars
             PROVE  Motion'
  OBVIOUS
<1>1. Motion /\ TypeOK
  BY DEF IInv
<1>2. CASE Sense
  <2>1. pc = "sense" /\ pc' = "commands" /\ UNCHANGED <<step, q_des, moved, sent>>
    BY <1>2 DEF Sense, outputs, sendings
  <2> QED
    BY <1>1, <2>1 DEF Motion
<1>3. CASE SeedOutputs
  <2>1. pc = "seed" /\ pc' = "run" /\ UNCHANGED <<step, q_ref, moved, sent>>
    BY <1>3 DEF SeedOutputs, sendings
  <2>2. q_des' = IF step = 0 THEN q_ref ELSE q_des
    BY <1>3 DEF SeedOutputs, Seeding, Terms!Seed, outputs
  <2>3. moved => step = 1
    BY <1>1 DEF TypeOK
  <2> QED
    BY <1>1, <2>1, <2>2, <2>3 DEF Motion, Base
<1>4. CASE RunPolicy
  <2>1. pc = "run" /\ pc' = "send" /\ UNCHANGED <<q_ref, moved, sent>> /\ Terms!process
    BY <1>4 DEF RunPolicy, sendings
  <2>2. \A j \in Joints : Loop!Reaches(j, q_des[j], q_des'[j])
    BY <1>1, <2>1, RunStep
  <2>3. q_des = Base /\ Base' = Base
    BY <1>1, <2>1 DEF Motion, Base
  <2>4. \A j \in Joints : Loop!Reaches(j, Base'[j], q_des'[j])
    BY <2>2, <2>3
  <2> QED
    BY <2>1, <2>4 DEF Motion, Loop!Reaches, Reach
<1>5. CASE SendCommands
  BY <1>5 DEF SendCommands, Motion, outputs
<1>6. CASE ~Sense /\ ~SeedOutputs /\ ~RunPolicy /\ ~SendCommands
  <2>1. /\ UNCHANGED <<step, q_ref, q_des, moved, sent>>
        /\ pc' = "send" <=> pc = "send"
        /\ pc' = "run" => pc = "run"
    BY <1>6, OtherSteps
  <2>2. Base' = Base
    BY <2>1 DEF Base
  <2> QED
    BY <1>1, <2>1, <2>2 DEF Motion, Loop!Reaches, Reach
<1> QED
  BY <1>2, <1>3, <1>4, <1>5, <1>6

\* The estimate does not change while a tick is under way.
LEMMA EstimateStep == IInv /\ [Next]_vars => Estimated'
<1> SUFFICES ASSUME IInv, [Next]_vars
             PROVE  Estimated'
  OBVIOUS
<1>1. Estimated
  BY DEF IInv
<1>2. CASE SeedOutputs
  BY <1>2 DEF SeedOutputs, Adaptation!fill_inputs, Estimated, EstimateIsUsed
<1>3. CASE RunPolicy
  BY <1>1, <1>3 DEF RunPolicy, Estimated, EstimateIsUsed, receivers, estimateVars
<1>4. CASE EstimateCallback
  BY <1>1, <1>4 DEF EstimateCallback, Callback, tickVars, Adaptation!Receive, Estimated,
                    EstimateIsUsed
<1>5. CASE ~SeedOutputs /\ ~RunPolicy /\ ~EstimateCallback
  <2>1. UNCHANGED <<estimateVars, used>>
    BY <1>5 DEF Next, TickStep, ScanCallback, CommandCallback, Callback, StartTick, Sense,
                AbortTick, FillCommands, FillScans, PolicyThrows, SendCommands, Tick, Rewind,
                TransformChange, SecondPasses, Shutdown, vars, receivers, tickVars
  <2>2. /\ pc' \in {"send", "run", "dead"} => pc' = pc \/ pc = "run"
        /\ pc' = "send" => pc = "send"
        /\ pc' = "run" => pc = "run"
        /\ pc \in {"run", "dead"} => pc' \in {"run", "dead"}
    BY <1>5 DEF Next, TickStep, ScanCallback, CommandCallback, Callback, StartTick, Sense,
                AbortTick, FillCommands, FillScans, PolicyThrows, SendCommands, Tick, Rewind,
                TransformChange, SecondPasses, Shutdown, vars, tickVars
  <2> QED
    BY <1>1, <2>1, <2>2 DEF Estimated, EstimateIsUsed, estimateVars
<1> QED
  BY <1>2, <1>3, <1>4, <1>5

\* A joint has at most one velocity index, the one of its name, and fill_ctrl_mode
\* gives it the modes of that one.
LEMMA ModesOfJoint ==
    ASSUME NEW jid \in JointIds
    PROVE  /\ \A v \in Joints : vid_to_jid[v] = jid <=> VNames[v] = JointNames[jid]
           /\ \A v \in Joints : VNames[v] = JointNames[jid] =>
                /\ fill_ctrl_mode[jid] = ctrl_mode[v]
                /\ {w \in Joints : VNames[w] = JointNames[jid]} = {v}
           /\ (\A v \in Joints : VNames[v] # JointNames[jid]) =>
                fill_ctrl_mode[jid] = vec_nj[jid]
<1>1. jid # 0
  <2>1. JointNames \in Seq(STRING)
    BY NodeAssumption
  <2> QED
    BY <2>1 DEF JointIds
<1>2. ASSUME NEW v \in Joints
      PROVE  vid_to_jid[v] = jid <=> VNames[v] = JointNames[jid]
  <2>1. CASE \E i \in JointIds : JointNames[i] = VNames[v]
    <3>1. vid_to_jid[v] \in JointIds /\ JointNames[vid_to_jid[v]] = VNames[v]
      BY <2>1 DEF vid_to_jid
    <3> QED
      BY <3>1, NodeAssumption
  <2>2. CASE ~\E i \in JointIds : JointNames[i] = VNames[v]
    BY <1>1, <2>2 DEF vid_to_jid
  <2> QED
    BY <2>1, <2>2
<1>3. ASSUME NEW v \in Joints, VNames[v] = JointNames[jid]
      PROVE  /\ fill_ctrl_mode[jid] = ctrl_mode[v]
             /\ {w \in Joints : VNames[w] = JointNames[jid]} = {v}
  <2>1. \A w \in Joints : VNames[w] = JointNames[jid] => w = v
    BY <1>3, NodeAssumption
  <2>2. (CHOOSE w \in Joints : vid_to_jid[w] = jid) = v
    BY <1>2, <1>3, <2>1
  <2> QED
    BY <1>2, <1>3, <2>1, <2>2 DEF fill_ctrl_mode
<1>4. (\A v \in Joints : VNames[v] # JointNames[jid]) => fill_ctrl_mode[jid] = vec_nj[jid]
  BY <1>2 DEF fill_ctrl_mode
<1> QED
  BY <1>2, <1>3, <1>4

\* What a sending tells the robot of a joint are the modes of the terms of its name.
LEMMA SentModes ==
    ASSUME IInv, SendCommands, NEW jid \in JointIds
    PROVE  vec_nj'[jid] =
             UNION {Terms!Modes(v) : v \in {w \in Joints : VNames[w] = JointNames[jid]}}
<1>1. vec_nj'[jid] = fill_ctrl_mode[jid] /\ pc = "send"
  BY DEF SendCommands
<1>2. CASE \E v \in Joints : VNames[v] = JointNames[jid]
  <2>1. PICK v \in Joints : VNames[v] = JointNames[jid]
    BY <1>2
  <2>2. /\ fill_ctrl_mode[jid] = ctrl_mode[v]
        /\ {w \in Joints : VNames[w] = JointNames[jid]} = {v}
    BY <2>1, ModesOfJoint
  <2>3. ctrl_mode[v] = Terms!Modes(v)
    BY <1>1 DEF IInv, Moded
  <2>4. {Terms!Modes(w) : w \in {v}} = {Terms!Modes(v)}
    OBVIOUS
  <2> QED
    BY <1>1, <2>2, <2>3, <2>4
<1>3. CASE ~\E v \in Joints : VNames[v] = JointNames[jid]
  <2>1. fill_ctrl_mode[jid] = vec_nj[jid]
    BY <1>3, ModesOfJoint
  <2>2. {w \in Joints : VNames[w] = JointNames[jid]} = {}
    BY <1>3
  <2>3. {Terms!Modes(v) : v \in {w \in Joints : VNames[w] = JointNames[jid]}} = {}
    BY <2>2
  <2>4. vec_nj[jid] = {}
    BY <2>3 DEF IInv, Moded, ModesByName
  <2> QED
    BY <1>1, <2>1, <2>3, <2>4
<1> QED
  BY <1>2, <1>3

\* Modes are added by the first run and sent by their joints' names.
LEMMA ModesStep == IInv /\ [Next]_vars => Moded'
<1> SUFFICES ASSUME IInv, [Next]_vars
             PROVE  Moded'
  OBVIOUS
<1>1. Moded /\ TypeOK
  BY DEF IInv
<1>2. CASE RunPolicy
  <2>1. /\ UNCHANGED <<moved, vec_nj>>
        /\ Terms!process
    BY <1>2 DEF RunPolicy, sendings
  <2>2. ctrl_mode' = [j \in Joints |-> ctrl_mode[j] \cup Terms!Modes(j)]
    BY <1>1, <2>1, RunStep
  <2>3. \A j \in Joints : ctrl_mode'[j] = Terms!Modes(j)
    BY <1>1, <2>2 DEF Moded
  <2> QED
    BY <1>1, <2>1, <2>3 DEF Moded, ModesByName, Terms!Modes
<1>3. CASE SendCommands
  <2>1. moved' = TRUE /\ pc' = "idle" /\ ctrl_mode' = ctrl_mode
    BY <1>3 DEF SendCommands, outputs
  <2>2. \A jid \in JointIds : vec_nj'[jid] =
          UNION {Terms!Modes(v) : v \in {w \in Joints : VNames[w] = JointNames[jid]}}
    BY <1>3, SentModes
  <2> QED
    BY <1>1, <2>1, <2>2 DEF Moded, ModesByName, Terms!Modes
<1>4. CASE Sense \/ SeedOutputs
  <2>1. UNCHANGED <<ctrl_mode, moved, vec_nj>> /\ pc' # "send"
    BY <1>4 DEF Sense, SeedOutputs, Terms!Seed, outputs, sendings
  <2> QED
    BY <1>1, <2>1 DEF Moded, ModesByName, Terms!Modes
<1>5. CASE ~Sense /\ ~SeedOutputs /\ ~RunPolicy /\ ~SendCommands
  <2>1. UNCHANGED <<ctrl_mode, moved, vec_nj>> /\ (pc' = "send" => pc = "send")
    BY <1>5, OtherSteps
  <2> QED
    BY <1>1, <2>1 DEF Moded, ModesByName, Terms!Modes
<1> QED
  BY <1>2, <1>3, <1>4, <1>5

\* A joint loses its number in a run that is given none for it, and gets one back
\* only from the robot.
LEMMA NumbersStep == IInv /\ [Next]_vars => Numbers'
<1> SUFFICES ASSUME IInv, [Next]_vars
             PROVE  Numbers'
  OBVIOUS
<1>1. Numbers /\ TypeOK
  BY DEF IInv
<1>2. CASE RunPolicy
  BY <1>1, <1>2, RunStep DEF RunPolicy
<1>3. CASE SeedOutputs
  <2>1. CASE step = 0
    <3>1. q_des' = q_ref /\ poisoned' = {} /\ UNCHANGED <<v_des, dizzy>>
      BY <1>3, <2>1 DEF SeedOutputs, Seeding, Terms!Seed
    <3>2. \A j \in Joints : q_ref[j] # NaN
      BY <1>1, NodeAssumption DEF TypeOK
    <3> QED
      BY <1>1, <3>1, <3>2 DEF Numbers, PoisonIsForGood
  <2>2. CASE step # 0
    <3>1. UNCHANGED <<q_des, v_des, poisoned, dizzy>>
      BY <1>3, <2>2 DEF SeedOutputs, Seeding, outputs
    <3> QED
      BY <1>1, <3>1 DEF Numbers, PoisonIsForGood
  <2> QED
    BY <2>1, <2>2
<1>4. CASE ~RunPolicy /\ ~SeedOutputs
  <2>1. UNCHANGED <<q_des, v_des, poisoned, dizzy>>
    BY <1>4, OtherSteps DEF Sense, SendCommands, outputs
  <2> QED
    BY <1>1, <2>1 DEF Numbers, PoisonIsForGood
<1> QED
  BY <1>2, <1>3, <1>4

\* Every step keeps the invariant.
LEMMA NextIInv == IInv /\ [Next]_vars => IInv'
<1> SUFFICES ASSUME IInv, [Next]_vars
             PROVE  IInv'
  OBVIOUS
<1>1. ScanProofs!IInv' /\ (heightScan # None => heightScan' # None)
  BY StepOfScans, ScansStay DEF IInv
<1>2. CommandProofs!IInv'
  BY <1>1, StepOfCommands, CommandNext, CommandIInv DEF IInv
<1>3. TypeOK'
  BY TypeStep DEF IInv
<1>4. Seen' /\ TerrainSeen' /\ Motion' /\ Estimated' /\ Moded' /\ Numbers'
  BY SeenStep, TerrainStep, MotionStep, EstimateStep, ModesStep, NumbersStep
<1> QED
  BY <1>1, <1>2, <1>3, <1>4 DEF IInv

\* The inductive invariant holds in every behaviour of the node.
THEOREM Invariance == SafetySpec => []IInv
<1>1. Init => IInv
  BY InitIInv
<1>2. IInv /\ [Next]_vars => IInv'
  BY NextIInv
<1> QED
  BY <1>1, <1>2, PTL DEF SafetySpec

-----------------------------------------------------------------------------
(* The properties *)

\* Type correctness of the node's tick, and that a run precedes every sending.
THEOREM TypeCorrect == SafetySpec => []TypeOK
<1>1. IInv => TypeOK
  BY DEF IInv
<1> QED
  BY <1>1, Invariance, PTL

\* The policy runs and the robot is commanded only after every sensor has
\* delivered: fill_inputs of the scans returns early otherwise.
THEOREM NotBlind == SafetySpec => []NeverBlind
<1>1. IInv => NeverBlind
  BY DEF IInv, Seen, TypeOK, NeverBlind
<1> QED
  BY <1>1, Invariance, PTL

\* A command on terrain reaches the policy only along with a height scan,
\* although it is accepted against the snapshot of an earlier tick.
THEOREM TerrainScan == SafetySpec => []TerrainNeedsScan
<1>1. IInv => TerrainNeedsScan
  BY DEF IInv, TerrainSeen, TerrainNeedsScan
<1> QED
  BY <1>1, Invariance, PTL

\* With a timeout of zero no cloud waits, at any step of a tick: process_pending
\* expires what it cannot use at once.
THEOREM ZeroTimeout == SafetySpec => []ZeroTimeoutNeverWaits
<1>1. IInv => ZeroTimeoutNeverWaits
  BY DEF IInv, ZeroTimeoutNeverWaits, ScanProofs!IInv, ScanProofs!ZeroTimeoutNeverWaits,
         Scans!ZeroTimeoutNeverWaits, ScanProofs!Sensors, Scans!Sensors
<1> QED
  BY <1>1, Invariance, PTL

\* A run is given the newest valid estimate, and the one published last, however
\* many ticks ended early since it was received.
THEOREM NewestEstimate == SafetySpec => []EstimateIsUsed
<1>1. IInv => EstimateIsUsed
  BY DEF IInv, Estimated
<1> QED
  BY <1>1, Invariance, PTL

\* The clamps of the terms let what is not a number pass, and those of positions
\* keep it: any joints, limits and targets.
THEOREM Poison == SafetySpec => []PoisonIsForGood
<1>1. IInv => PoisonIsForGood
  BY DEF IInv, Numbers
<1> QED
  BY <1>1, Invariance, PTL

\* Control modes reach the joints of the names they were given for, whatever the
\* order in which the robot numbers its joints.
THEOREM Modes == SafetySpec => []ModesByName
<1>1. IInv => ModesByName
  BY DEF IInv, Moded
<1> QED
  BY <1>1, Invariance, PTL

\* Once the policy has run, a tick that reaches the scans runs it: scans expire
\* while they wait for a transform, never once levelled.
THEOREM Gapless == SafetySpec => NoGap
<1>1. IInv /\ [Next]_vars => [pc = "scans" /\ step # 0 /\ pc' # pc => pc' = "seed"]_vars
  <2> SUFFICES ASSUME IInv, [Next]_vars, pc = "scans", step # 0, pc' # pc
               PROVE  pc' = "seed"
    OBVIOUS
  <2>1. FillScans
    BY DEF Next, TickStep, ScanCallback, CommandCallback, EstimateCallback, Callback,
           StartTick, Sense, AbortTick, FillCommands, SeedOutputs, RunPolicy, PolicyThrows, SendCommands, Tick, Rewind,
           TransformChange, SecondPasses, Shutdown, vars, tickVars
  <2>2. \A s \in 1 .. NumSensors : scanState[s].has_value
    BY DEF IInv, Seen
  <2>3. scanReady'
    BY <2>1, <2>2, FillScansReady DEF FillScans, IInv
  <2> QED
    BY <2>1, <2>3 DEF FillScans
<1> QED
  BY <1>1, Invariance, PTL DEF SafetySpec, NoGap

\* Within the node each receiver takes only steps of its own specification, so
\* that every theorem about it holds of the node: a scan that has arrived is never
\* taken away from under the command receiver.
THEOREM ImplementsReceivers == SafetySpec => KeepsReceivers
<1>1. Init => Scans!Init /\ Commands!Init /\ Adaptation!Init
  BY DEF Init
<1>2. IInv /\ [Next]_vars => /\ [Scans!Next]_(Scans!vars)
                             /\ [Commands!Next]_(Commands!vars)
                             /\ [Adaptation!Next]_(Adaptation!vars)
  BY StepOfScans, ScansStay, StepOfCommands, StepOfAdaptation DEF IInv
<1> QED
  BY <1>1, <1>2, Invariance, PTL
     DEF SafetySpec, KeepsReceivers, Scans!SafetySpec, Commands!SafetySpec, Adaptation!SafetySpec

-----------------------------------------------------------------------------
(* The refinement *)

\* The node starts as ControlLoop does.
LEMMA InitLoop == Init => Loop!Init
  BY DEF Init, Scans!Init, Scans!Sensors, Loop!Init

\* Every step of the node is one of ControlLoop or leaves it alone.
LEMMA StepLoop == IInv /\ [Next]_vars => [Loop!Next]_(Loop!vars)
<1> SUFFICES ASSUME IInv, [Next]_vars
             PROVE  [Loop!Next]_(Loop!vars)
  OBVIOUS
<1> DEFINE delivered == {s \in 1 .. NumSensors : scanState[s].has_value}
<1>1. /\ delivered \subseteq delivered'
      /\ delivered' \subseteq 1 .. NumSensors
  BY StepOfScans, ScansStay DEF IInv
<1>2. q_ref \in [Joints -> Int] /\ q_ref' \in [Joints -> Int]
  BY TypeStep DEF IInv, TypeOK
<1>3. CASE SendCommands
  <2>1. /\ pc = "send" /\ pc' = "idle" /\ moved' = TRUE /\ sent' = q_des
        /\ UNCHANGED <<receivers, q_ref>>
    BY <1>3 DEF SendCommands
  <2>2. delivered = 1 .. NumSensors
    BY <2>1 DEF IInv, Seen
  <2>3. scanState' = scanState
    BY <2>1 DEF receivers, scanVars
  <2>4. \A j \in Joints : Loop!Reaches(j, IF moved THEN sent[j] ELSE q_ref[j], sent'[j])
    BY <2>1 DEF IInv, Motion, Base
  <2>5. Loop!Send
    BY <2>1, <2>2, <2>3, <2>4 DEF Loop!Send
  <2> QED
    BY <2>5 DEF Loop!Next
<1>4. CASE PolicyThrows
  <2>1. /\ pc' = "dead" /\ UNCHANGED <<receivers, q_ref, moved, sent>>
    BY <1>4 DEF PolicyThrows, sendings
  <2>2. scanState' = scanState
    BY <2>1 DEF receivers, scanVars
  <2> QED
    BY <2>1, <2>2 DEF Loop!Next, Loop!Fail
<1>5. CASE ~SendCommands /\ ~PolicyThrows
  <2>1. UNCHANGED <<moved, sent>> /\ (pc' = "dead" <=> pc = "dead")
    BY <1>5 DEF Next, TickStep, ScanCallback, CommandCallback, EstimateCallback, Callback,
                StartTick, Sense, AbortTick, FillCommands, FillScans, SeedOutputs, RunPolicy,
                Tick, Rewind, TransformChange, SecondPasses, Shutdown, vars, tickVars,
                sendings
  <2>2. Loop!Receive
    BY <1>1, <1>2, <2>1 DEF Loop!Receive
  <2> QED
    BY <2>2 DEF Loop!Next
<1> QED
  BY <1>3, <1>4, <1>5

\* The node implements ControlLoop: _fillOutputs takes the robot's references over
\* at step 0 only, and every later run counts from its own last outputs.
THEOREM ImplementsLoop == SafetySpec => KeepsLoop
<1>1. Init => Loop!Init
  BY InitLoop
<1>2. IInv /\ [Next]_vars => [Loop!Next]_(Loop!vars)
  BY StepLoop
<1> QED
  BY <1>1, <1>2, Invariance, PTL DEF SafetySpec, KeepsLoop, Loop!Spec

\* The same specification under both names of ControlLoop.
LEMMA SameLoop == Loop!Spec => LoopProofs!Spec
<1>1. Loop!Init => LoopProofs!Init
  BY DEF Loop!Init, LoopProofs!Init
<1>2. [Loop!Next]_(Loop!vars) => [LoopProofs!Next]_(LoopProofs!vars)
  BY DEF Loop!Next, LoopProofs!Next, Loop!Receive, LoopProofs!Receive, Loop!Send,
         LoopProofs!Send, Loop!Fail, LoopProofs!Fail, Loop!Reaches, LoopProofs!Reaches,
         Loop!vars, LoopProofs!vars
<1> QED
  BY <1>1, <1>2, PTL DEF Loop!Spec, LoopProofs!Spec

-----------------------------------------------------------------------------
(* What follows from ControlLoop *)

\* Past sense() a tick has the references of the robot.
Sensed == pc \notin {"idle", "sense", "dead"} => q_ref \in References

\* The references sent to the joints that the policy positions are from a to b.
SentWithin(a, b) == moved => \A j \in PositionJoints : sent[j] = NaN \/ sent[j] \in a .. b

\* A joint that the policy does not position is held for good where the robot's
\* reference was when the first commands were sent; one whose target was once not
\* a number is never sent one again.
HeldForGood ==
    [][moved => \A j \in Joints :
         /\ sent[j] = NaN => sent'[j] = NaN
         /\ j \notin PositionJoints => sent'[j] = sent[j]]_vars

\* Nothing but sense() changes the references of the robot, and no tick gets past
\* it otherwise.
LEMMA Sensing == SafetySpec => []Sensed
<1>1. Init => Sensed
  BY DEF Init, Sensed
<1>2. Sensed /\ [Next]_vars => Sensed'
  <2> SUFFICES ASSUME Sensed, [Next]_vars
               PROVE  Sensed'
    OBVIOUS
  <2>1. CASE Sense
    BY <2>1 DEF Sense, Sensed
  <2>2. CASE ~Sense
    BY <2>2 DEF Sensed, Next, TickStep, ScanCallback, CommandCallback, EstimateCallback,
                Callback, StartTick, AbortTick, FillCommands, FillScans, SeedOutputs,
                RunPolicy, PolicyThrows, SendCommands, Tick, Rewind, TransformChange,
                SecondPasses, Shutdown, vars, tickVars
  <2> QED
    BY <2>1, <2>2
<1> QED
  BY <1>1, <1>2, PTL DEF SafetySpec

\* The constants of the node are what the theorems about ControlLoop ask for.
LEMMA LoopNumeric == LoopProofs!Numeric
  BY NodeAssumption DEF LoopProofs!Numeric, Reach

\* Whatever the network asks for and however often a joint's terms are applied, no
\* reference sent to a joint is beyond what its limits and the robot's references
\* span: if the robot starts within the limits, it stays within them.
THEOREM SentWithinBounds ==
    ASSUME NEW a \in Int, NEW b \in Int, a <= JointLow, JointHigh <= b,
           \A ref \in References : \A j \in PositionJoints : ref[j] \in a .. b
    PROVE  SafetySpec => []SentWithin(a, b)
<1>1. SafetySpec => LoopProofs!Spec
  BY ImplementsLoop, SameLoop, PTL DEF KeepsLoop
<1>2. Sensed /\ [Next]_vars =>
        [~moved /\ moved' => LoopProofs!Within(q_ref, a, b)]_(LoopProofs!vars)
  <2> SUFFICES ASSUME Sensed, [Next]_vars, ~moved, moved'
               PROVE  LoopProofs!Within(q_ref, a, b)
    OBVIOUS
  <2>1. SendCommands
    BY DEF Next, TickStep, ScanCallback, CommandCallback, EstimateCallback, Callback,
           StartTick, Sense, AbortTick, FillCommands, FillScans, SeedOutputs, RunPolicy,
           PolicyThrows, Tick, Rewind, TransformChange, SecondPasses, Shutdown, vars,
           tickVars, sendings
  <2>2. q_ref \in References
    BY <2>1 DEF SendCommands, Sensed
  <2> QED
    BY <2>2 DEF LoopProofs!Within
<1>3. SafetySpec => LoopProofs!StartsWithin(a, b)
  BY <1>2, Sensing, PTL DEF SafetySpec, LoopProofs!StartsWithin
<1>4. LoopProofs!Spec /\ LoopProofs!StartsWithin(a, b) => []LoopProofs!StaysWithin(a, b)
  BY LoopProofs!WithinBounds, LoopNumeric
<1>5. LoopProofs!StaysWithin(a, b) => SentWithin(a, b)
  BY NodeAssumption DEF LoopProofs!StaysWithin, LoopProofs!Within, SentWithin
<1> QED
  BY <1>1, <1>3, <1>4, <1>5, PTL

\* The node takes the robot's references over once, before its first run.
THEOREM Held == SafetySpec => HeldForGood
<1>1. SafetySpec => LoopProofs!Spec
  BY ImplementsLoop, SameLoop, PTL DEF KeepsLoop
<1>2. LoopProofs!Spec => LoopProofs!LostForGood
  BY LoopProofs!Lost
<1>3. [moved => \A j \in Joints :
         /\ sent[j] = NaN => sent'[j] = NaN
         /\ j \notin PositionJoints => sent'[j] = sent[j]]_(LoopProofs!vars)
      => [moved => \A j \in Joints :
            /\ sent[j] = NaN => sent'[j] = NaN
            /\ j \notin PositionJoints => sent'[j] = sent[j]]_vars
  BY DEF LoopProofs!vars
<1> QED
  BY <1>1, <1>2, <1>3, PTL DEF HeldForGood, LoopProofs!LostForGood

-----------------------------------------------------------------------------
(* What follows from the receivers *)

\* What the policy is given of commands and scans, in every state of a tick: the
\* properties of the receivers, of the receivers within the node.
GivenInTime ==
    /\ [](Commands!CommandInRange /\ Commands!HistoryDiscarded /\ Commands!DeadMan)
    /\ [](Scans!OnlyNewestWaits /\ Scans!SameFrameSameExtrinsics)
    /\ Scans!ConsumedInTime
    /\ Scans!NeverRetransformed

\* The receivers keep in the node the properties proved of each alone: the tick
\* calls them in an order, and at times, that their own specifications include.
THEOREM ReceiversInNode == SafetySpec => GivenInTime
<1>1. SafetySpec => ScanProofs!SafetySpec
  <2>1. Scans!SafetySpec => ScanProofs!SafetySpec
    BY ScanInit, ScanNext, PTL DEF Scans!SafetySpec, ScanProofs!SafetySpec
  <2> QED
    BY <2>1, ImplementsReceivers, PTL DEF KeepsReceivers
<1>2. SafetySpec => CommandProofs!SafetySpec
  <2>1. Commands!SafetySpec => CommandProofs!SafetySpec
    BY CommandInit, CommandNext, PTL DEF Commands!SafetySpec, CommandProofs!SafetySpec
  <2> QED
    BY <2>1, ImplementsReceivers, PTL DEF KeepsReceivers
<1>3. ScanProofs!SafetySpec =>
        /\ []ScanProofs!OnlyNewestWaits
        /\ []ScanProofs!SameFrameSameExtrinsics
        /\ ScanProofs!ConsumedInTime
        /\ ScanProofs!NeverRetransformed
  BY ScanProofs!NewestCloudWaits, ScanProofs!ExtrinsicsAreStatic, ScanProofs!InTime,
     ScanProofs!NotRetransformed, ReceiversAssumption
     DEF ScanProofs!PendingScan, ScanProofs!Scan, Scans!PendingScan, Scans!Scan
<1>4. CommandProofs!SafetySpec =>
        /\ []CommandProofs!CommandInRange
        /\ []CommandProofs!HistoryDiscarded
        /\ []CommandProofs!DeadMan
  BY CommandProofs!InRange, CommandProofs!FallbackDiscardsHistory,
     CommandProofs!DeadManSwitch, ReceiversAssumption
<1>5. /\ ScanProofs!OnlyNewestWaits => Scans!OnlyNewestWaits
      /\ ScanProofs!SameFrameSameExtrinsics => Scans!SameFrameSameExtrinsics
  BY DEF ScanProofs!OnlyNewestWaits, Scans!OnlyNewestWaits, ScanProofs!Sensors, Scans!Sensors,
         ScanProofs!SameFrameSameExtrinsics, Scans!SameFrameSameExtrinsics
<1>6. CommandProofs!CommandInRange /\ CommandProofs!HistoryDiscarded /\ CommandProofs!DeadMan
        => Commands!CommandInRange /\ Commands!HistoryDiscarded /\ Commands!DeadMan
  BY DEF CommandProofs!CommandInRange, Commands!CommandInRange, CommandProofs!Hull,
         Commands!Hull, CommandProofs!HistoryDiscarded, Commands!HistoryDiscarded,
         CommandProofs!DeadMan, Commands!DeadMan, CommandProofs!Default, Commands!Default
<1>7. ScanProofs!ConsumedInTime => Scans!ConsumedInTime
  <2>1. [\A s \in ScanProofs!Sensors :
           scanState'[s].value # scanState[s].value
             => clock - scanState'[s].stamp <= SensorTimeout]_(ScanProofs!vars)
          => [\A s \in Scans!Sensors :
                scanState'[s].value # scanState[s].value
                  => clock - scanState'[s].stamp <= SensorTimeout]_(Scans!vars)
    BY DEF ScanProofs!Sensors, Scans!Sensors, ScanProofs!vars, Scans!vars
  <2> QED
    BY <2>1, PTL DEF ScanProofs!ConsumedInTime, Scans!ConsumedInTime
<1>8. ScanProofs!NeverRetransformed => Scans!NeverRetransformed
  <2>1. [\A s \in ScanProofs!Sensors :
           scanState[s].has_value /\ scanState'[s].value # scanState[s].value
             => scanState'[s].value.cloud > scanState[s].value.cloud]_(ScanProofs!vars)
          => [\A s \in Scans!Sensors :
                scanState[s].has_value /\ scanState'[s].value # scanState[s].value
                  => scanState'[s].value.cloud > scanState[s].value.cloud]_(Scans!vars)
    BY DEF ScanProofs!Sensors, Scans!Sensors, ScanProofs!vars, Scans!vars
  <2> QED
    BY <2>1, PTL DEF ScanProofs!NeverRetransformed, Scans!NeverRetransformed
<1> QED
  BY <1>1, <1>2, <1>3, <1>4, <1>5, <1>6, <1>7, <1>8, PTL DEF GivenInTime

-----------------------------------------------------------------------------
(* Stiffness and damping *)

\* The first sending decides: gains not sent along with it are never sent, and
\* those sent are not sent for the first time by a later one.
GainsDecided == [][moved => (gainsSent' <=> gainsSent)]_vars

\* The first sending carries the gains exactly if its tick started in the node's
\* first second.
GainsInTime == [][~moved /\ moved' => (gainsSent' <=> startedIn)]_vars

\* A tick does not start in the first second once that is over, and when the gains
\* were missed it is.
Missed ==
    /\ firstSecond => startedIn
    /\ ~moved => ~gainsSent
    /\ moved /\ ~gainsSent => ~firstSecond /\ ~startedIn

\* The steady clock does not go back.
LEMMA Missing == SafetySpec => []Missed
<1>1. Init => Missed
  BY DEF Init, Missed
<1>2. Missed /\ [Next]_vars => Missed'
  <2> SUFFICES ASSUME Missed, [Next]_vars
               PROVE  Missed'
    OBVIOUS
  <2>1. CASE SendCommands
    BY <2>1 DEF SendCommands, Missed
  <2>2. CASE StartTick
    BY <2>2 DEF StartTick, Missed, sendings
  <2>3. CASE SecondPasses
    BY <2>3 DEF SecondPasses, Missed, tickVars, sendings
  <2>4. CASE ~SendCommands /\ ~StartTick /\ ~SecondPasses
    <3>1. UNCHANGED <<firstSecond, startedIn, moved, gainsSent>>
      BY <2>4 DEF Next, TickStep, ScanCallback, CommandCallback, EstimateCallback, Callback,
                  Sense, AbortTick, FillCommands, FillScans, SeedOutputs, RunPolicy,
                  PolicyThrows, Tick, Rewind, TransformChange, Shutdown, vars, tickVars,
                  sendings
    <3> QED
      BY <3>1 DEF Missed
  <2> QED
    BY <2>1, <2>2, <2>3, <2>4
<1> QED
  BY <1>1, <1>2, PTL DEF SafetySpec

\* When sensors deliver more than a second after the start the robot never gets the
\* policy's gains, however long it is commanded: _vec_nj_k and _vec_nj_d are sent
\* while the first second lasts only.
THEOREM GainsOrNever == SafetySpec => GainsDecided /\ GainsInTime
<1>1. Missed /\ [Next]_vars =>
        [/\ moved => (gainsSent' <=> gainsSent)
         /\ ~moved /\ moved' => (gainsSent' <=> startedIn)]_vars
  <2> SUFFICES ASSUME Missed, [Next]_vars
               PROVE  /\ moved => (gainsSent' <=> gainsSent)
                      /\ ~moved /\ moved' => (gainsSent' <=> startedIn)
    OBVIOUS
  <2>1. CASE SendCommands
    BY <2>1 DEF SendCommands, Missed
  <2>2. CASE ~SendCommands
    <3>1. UNCHANGED <<moved, gainsSent>>
      BY <2>2 DEF Next, TickStep, ScanCallback, CommandCallback, EstimateCallback, Callback,
                  StartTick, Sense, AbortTick, FillCommands, FillScans, SeedOutputs, RunPolicy,
                  PolicyThrows, Tick, Rewind, TransformChange, SecondPasses, Shutdown, vars,
                  tickVars, sendings
    <3> QED
      BY <3>1
  <2> QED
    BY <2>1, <2>2
<1> QED
  BY <1>1, Missing, PTL DEF SafetySpec, GainsDecided, GainsInTime

-----------------------------------------------------------------------------
(* The steps by which the policy comes to run *)

Delivered == \A s \in 1 .. NumSensors : scanState[s].has_value

\* The place in a tick that comes after another, and leads to a run.
After == [idle |-> "sense", sense |-> "commands", commands |-> "scans", scans |-> "seed",
          seed |-> "run", run |-> "send", send |-> "idle"]

\* Once every sensor has delivered a scan they all have one for good, and a tick goes
\* on from place to place until the policy has run, unless the process is shut down
\* while it waits for the robot, or the policy throws.
StaysOnCourse ==
    [][Delivered =>
         /\ Delivered'
         /\ pc' # pc =>
              \/ pc # "dead" /\ pc' = After[pc] /\ (pc = "run" => step' = 1)
              \/ pc = "sense" /\ ~ok /\ pc' = "idle"
              \/ pc = "run" /\ pc' = "dead"]_vars

\* Scans that expire or cannot be levelled do not end a tick when an earlier one of
\* their sensor is there: EventuallyRuns needs no more than that ticks proceed.
THEOREM OnCourse == SafetySpec => StaysOnCourse
<1>1. ASSUME IInv, Next, Delivered
      PROVE  Delivered'
  <2>1. \A s \in 1 .. NumSensors : scanState[s].has_value => scanState'[s].has_value
    BY <1>1, StepOfScans, ScansStay DEF IInv
  <2> QED
    BY <1>1, <2>1 DEF Delivered
<1>2. ASSUME IInv, Next, Delivered, pc' # pc
      PROVE  \/ pc # "dead" /\ pc' = After[pc] /\ (pc = "run" => step' = 1)
             \/ pc = "sense" /\ ~ok /\ pc' = "idle"
             \/ pc = "run" /\ pc' = "dead"
  <2>1. TickStep
    BY <1>2 DEF Next, ScanCallback, CommandCallback, EstimateCallback, Callback, Tick, Rewind,
                TransformChange, SecondPasses, Shutdown, tickVars
  <2>2. CASE FillScans
    <3>1. scanReady'
      BY <1>2, <2>2, FillScansReady DEF FillScans, IInv, Delivered
    <3> QED
      BY <2>2, <3>1 DEF FillScans, After
  <2>3. CASE StartTick \/ Sense \/ AbortTick \/ FillCommands \/ SeedOutputs
    BY <2>3 DEF StartTick, Sense, AbortTick, FillCommands, SeedOutputs, After
  <2>4. CASE RunPolicy \/ PolicyThrows \/ SendCommands
    BY <2>4 DEF RunPolicy, PolicyThrows, SendCommands, After
  <2> QED
    BY <2>1, <2>2, <2>3, <2>4 DEF TickStep
<1>3. IInv /\ [Next]_vars =>
        [Delivered =>
           /\ Delivered'
           /\ pc' # pc =>
                \/ pc # "dead" /\ pc' = After[pc] /\ (pc = "run" => step' = 1)
                \/ pc = "sense" /\ ~ok /\ pc' = "idle"
                \/ pc = "run" /\ pc' = "dead"]_vars
  BY <1>1, <1>2
<1> QED
  BY <1>3, Invariance, PTL DEF SafetySpec, StaysOnCourse
=============================================================================
