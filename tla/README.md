# Verification of policy_deploy_toolkit

TLA+ models of the deployment node for ONNX locomotion policies, their TLC
configurations, and theorems about them checked by TLAPS. Paths in this file are
relative to the root of the repository, whose `src/` holds the C++ code.

## 1. Inventory: the system and its parts

One process, one node. `rclcpp::spin` runs a single-threaded executor, so the
callbacks of timers and subscriptions never overlap; mutexes in the receivers
are never contended. Everything else moves while a callback runs: the node
clock (simulated with `use_sim_time`, in which case it can jump back), the
robot, the IMU, the TF tree, other processes' messages. Subscriptions of
commands, estimates and clouds are best effort with a depth of one: a message
may be lost, and a newer one overwrites one not yet taken.

| component | state | operations | must be right |
|---|---|---|---|
| `PolicyDeployNode`, `deploy_policy_node.cpp` | `_inputs`, `_outputs`, step counter, `_loop_start`, `_vid_to_jid`, `_vec_nj` | `init`, `control_timer_callback` | never runs blind, references start from the robot's and move continuously, each joint gets its own control modes, impedance is sent, a tick that ends early does no harm |
| `RosSensorReceiver`, `ros_sensor_receiver.cpp` | per sensor: pending cloud, last scan and its stamp; latest IMU orientation; cache of extrinsics | `store_height_scan`, `update_imu`, `process_pending`, `fill_inputs` | newest cloud only, wait bounded, consumed once, static extrinsics, ready only with a scan of each sensor |
| `RosCommandReceiver`, `ros_command_receiver.cpp`, `command_filter.h`; command terms, `command_term.cpp` | per command: value, filtered value, two stamps; copy of the inputs of the last tick | `store_command` with `sanitize`, `fill_inputs` with `filter_command` | in range, stops in silence, no history through a fallback |
| `OmnisteeringActionTerm`, `action_term.cpp` | steering targets, `_initialized` | constructor, `process_impl`, `feasible_reference` | each wheel with its own joints, limits and rate, the nearest reference, all wheels or none |
| position and velocity terms, `action_term.cpp` | none of their own (`Outputs`) | `process_impl` | limits of position and rate, modes |
| `OnnxPolicy`, `deploy_onnx.cpp` | tensors, pairs of recurrent states | `run`, `init_onnxruntime` | each state fed back to its own input |
| observation terms, `obs_term.cpp` | history buffers | `process` | the window of the last runs, clipped, last action |
| policy metadata, constructor in `deploy_onnx.cpp`; `actuator_gains.h` | maps and sizes, constant afterwards | parsing | sizes agree with the model, gains resolved once |
| `RosAdaptationReceiver`, `ros_adaptation_receiver.cpp` | last valid estimate | message callback, `fill_inputs` | what is published is what the run used |

How a tick goes (`control_timer_callback`): wait for `sense()`; read reference
feedback and IMU, `update_imu`; copy the last action; read the clock once and
with it fill the commands, then the height scan, and return if a sensor has no
scan; read the rest; seed `q_des` in step 0; adaptation snapshot; `run`
(observation terms, network, recurrent states, action terms); count the step;
publish; send. Exceptions leave `spin` and end the process.

What is hard: clouds that wait for an IMU orientation or a TF race with expiry,
with newer clouds and with ticks; both receivers measure age with a clock that
may jump; the terrain commands are judged by a snapshot of the tick before;
ticks that end early leave half-filled inputs behind; rate limits count from
remembered targets; histories and recurrent states accumulate over runs. Each
of these is a hazard in `PROJECT.json`, at its line.

## 2. Modules

| module | models |
|---|---|
| `HeightScanReceiver` | `RosSensorReceiver`; `NewestScan` is its abstract specification |
| `CommandReceiver` | `RosCommandReceiver`, `CommandTerm::sanitize` of both classes, `filter_command` |
| `Omnisteering` | `OmnisteeringActionTerm`, a run in one step, and what moves its joints |
| `OmnisteeringLoop` | the run as the loop over the wheels that it is, with its exceptions; it implements `Omnisteering` |
| `AdaptationReceiver` | `RosAdaptationReceiver` |
| `JointTerms` | the position and velocity action terms, `Outputs` |
| `PolicyNode` | `control_timer_callback`, composed of all these but the omnisteering term by `INSTANCE`; `ControlLoop` is its abstract specification |
| `PolicyRuntime` | `OnnxPolicy::run`, `ObsTerm::process`, the loop through `last_action` |
| `MetadataLoad` | the constructor of `OnnxPolicy` on its metadata with those of its terms, actuator gains, and the first run over the result |
| `...Proofs` | the theorems on each of them, the abstract specifications `NewestScan` and `ControlLoop` included |
| `MC...` | constants that a `.cfg` cannot write |

**HeightScanReceiver.** `state[s]` is an element of `_height_scan_states`, with
the field names of the code. A cloud is its number in the order of receipt, its
frame, and whether a transformed point would overflow; a scan is what it was
computed from (cloud, extrinsics, IMU orientation), which is all that tells two
scans apart. `process_pending` is an operator on one sensor's state, used by
`StoreHeightScan` (the immediate attempt) and by `FillInputs` for all sensors
that its loop reaches. `RejectHeightScan` is every early return of
`store_height_scan`, all of them after `pending.reset()`. `Tick`, `Rewind` and
`TransformChange` are the environment. A TF may also become unavailable again,
which matters only to frames not yet cached.

**CommandReceiver.** A command is one of its fields, which are treated alike; a
field is an integer on a grid. `store_command` accepts a message if `sanitize`
does; rejecting changes nothing, so it needs no action. The filter may move a
value anywhere between itself and its target in a positive time: the exponential
step is one of these. `heardAt`, `filledAt`, `targets`, `rewound` are history
variables for the properties. The constructor of a terrain-based command reads
`difficulty_min` only when a command is sanitized; a metadata file without it
ends the process and is not modelled.

**Omnisteering.** Angles are integers, `Pi` of them to half a turn. The velocity
of a wheel is its heading (or `Still`: too slow, or the axle vertical), the drive
speed its sign. `Staged(w)` is the body of the loop, `process` the whole of
`process_impl` when no wheel is at fault. `atan2` of an exactly opposite velocity may have
either sign. `Restart` is a caller that sets `inputs.step` to zero, which the
condition of line 236 is written for though the node itself never does. The
limits, positions and rate of all steering joints are equal; `drive` has lost
its magnitude, so the saturation of the drive speed is not checked.

**OmnisteeringLoop.** `staging` holds what the local vectors `steering` and `drive`
of a run hold, wheel by wheel: `StageWheel` is one turn of the loop (lines 220-244),
`Throw` its exception (225), after which the vectors are gone and the caller may run
the term again, `Commit` all that follows the last wheel (245-260). A run reads one
snapshot of its inputs, so that the actions of `Omnisteering` that stand for the
world happen `Between` runs. Nothing that `process_impl` throws before the loop, for
the sake of the command, changes anything. `AllOrNothing` is the specification of
`Omnisteering`: that a run which throws leaves no trace is not assumed by this
module, it follows from where results are kept until the last wheel.

**AdaptationReceiver.** The eight numbers of an estimate are one value; a message
is its size, whether its values are finite and its frictions not negative, and
its data. A message that is not valid changes nothing.

**JointTerms.** Positions and speeds are integers, or `NaN`. `std::clamp` returns
what compares neither less than the one bound nor more than the other, so that
`NaN` passes it, and arithmetic keeps it. The speed a joint may move at is a
distance per run. `poisoned` and `dizzy` are history variables: joints that
have been given a target, or in the last run a speed, that is not a number.

**PolicyNode.** A tick is the sequence of steps `StartTick`, `Sense`,
`FillCommands`, `FillScans`, `SeedOutputs`, `RunPolicy`, `SendCommands`, by `pc`. Other
callbacks run only when `pc = "idle"`. Time passes at any step but between the
two fills, which use the one time read before. `SeedOutputs` starts `q_des` from
the robot's references while `step` is zero and takes, and publishes, the estimate.
`RunPolicy` applies the terms to any raw action; a joint in `Doubled` is matched by
two patterns and limited twice. `SendCommands` turns control modes from the order
of velocity indices (`VNames`) into that of joints (`JointNames`) by `vid_to_jid`.
Reading of the inputs and `run` are one step: nothing else can run in between and
no property tells them apart. The constructor's order of subscriptions is not
modelled, since no callback runs before `spin`. `scanPresent` of the
command receiver is mapped to `heightScan # None`. `used`, `moved`, `sent` and
`gainsSent` are history variables.

**ControlLoop.** What the robot may rely on: nothing is sent before every sensor
has delivered; the first references are within `Reach` of those it fed back last,
the next within `Reach` of those before; none is further beyond a limit than the
one it counts from (`Low`, `High`); what is not a number never becomes one; after
a failure nothing is sent. `PolicyNode` implements it with what was sensed
for `feedback` and what was sent for `reference`: that ticks end early, that
outputs are seeded at each of them and that limits count from `q_des` is hidden.

**PolicyRuntime.** `history[t]` is the term's `_history_buffer`; a length of one
stands for no buffer, with the same output. `Partner` says which output is, in
the network, the new value of which input; the code knows only shapes.

**MetadataLoad.** The constructor is a sequence of steps by `stage`: actuators
(`parse_actuator`, one each, with `assigned` for the joints given gains so far, which
may be negative), joints, commands, observation terms, joints matched
against the expressions of action terms one at a time, with the checks of sizes
between them. A step that fails is `Throw`. Then the first run follows the maps:
`FillTerm` and `ApplyElement` are the loops over terms and over elements of the
output, which throw on a joint that the robot has not. A regular expression is
the set of names it matches, indices count from one and zero drives nothing.
`height_scan_size` starts with any value that memory may hold, since
`types.h` gives it none and the term of a height scan is created before it
is computed. `declared` is a history variable: where the slices end by the
metadata alone. Action terms resolve one entry of one list at a time: the joint
terms have one list of expressions, an omnisteering term three (steering
joints, drive joints, and wheels among the robot's bodies), which it then uses by
position. Older exports (`articulated` is false) bring gains as lists. What is not
finite is outside the order of numbers. `joint_id_robot_to_policy`, which
nothing reads, and the reading of YAML are left out.

### Abstractions worth knowing

Values that are not finite are rejected where the code rejects them. The clamps of
the position term (`src/action_term.cpp:283`, `290`) limit any number, and none of
what is not a number: `PoisonIsForGood` says what follows, that such a target
stays in `q_des` until the node is started again, while a speed is gone with the
next run. No document says that the policy's output is finite or what should
happen if it is not, so that this is stated as a property and is no finding.
`float` rounding is not modelled. Two sensors with one name,
which share a state but have two subscriptions, behave like one that receives
more clouds. Logging, publishers and diagnostics are left out.

## 3. What the runs check

All configurations say `CHECK_DEADLOCK FALSE`: the clock, the clouds, the
messages and the runs are bounded, and a behaviour may use all of them up.

| run | bounds | question |
|---|---|---|
| `height_scan_one` | 1 sensor, 3 clouds, 2 frames, 3 orientations (one vertical), timeout 1, clock to 4, 1 rewind | consumed once and in time, `NewestScan` implemented (the newest waits) |
| `height_scan_two` | 2 sensors, 1 cloud each, 2 frames, 3 extrinsics, clock to 3 | cache of extrinsics shared, ready only with both, every wait ends |
| `command_receiver` | a filtered and a terrain command, range 1..3 without the default, raw -3 and 5, 2 messages, clock to 4, 1 rewind | range, history, dead man's switch, silence |
| `omnisteering_one` | 1 wheel, 8 headings, limits -3..3, positions -5..5, 1 push, 1 restart | nearest reference, rate, start, convergence |
| `omnisteering_two` | the loop over 2 wheels, either of which may fail, 3 positions, 2 headings | all or nothing: `Omnisteering` implemented; limits |
| `node_loop` | 2 sensors, 2 clouds each; a base that is not moved, a joint that two patterns match, a wheel, in another order than the robot's; references and targets beyond limits, `NaN`; 4 kinds of estimates | never blind, no gap, estimate used, `NaN`, modes by name, `ControlLoop` implemented, eventually runs |
| `node_receivers` | 1 sensor, timeout 0, 2 commands, an estimate, 1 rewind | specifications of all three receivers kept; terrain commands need a scan; with no timeout nothing waits |
| `node_gains` | 1 joint | *violated*: `GainsAreSent` |
| `runtime_gru` | windows of 3 and 2, 5 runs, two states of two shapes | windows, last action, states |
| `runtime_lstm` | two states of one shape | *violated*: `StatesAreFedBack` |
| `metadata_load` | 4 robot joints and one it has not, 4 lists of policy joints, 5 of actuators, 4 of actions, 7 of observations, 5 of commands, 3 scenes, right and wrong sizes; older exports; wheels in one term and beside others, with 2 lists of policy joints and 3 of drive joints; 9944 initial states in all | slices, gains, commands and wheels are those of the metadata, missing joints are not used |
| `metadata_scan` | one height scan at the end, sizes all right | *violated*: `MatchingIsLoaded` |

Why the bounds are enough. A pending cloud meets at most one other cloud of its
sensor, so two per sensor show a replacement and a third shows one after a
scan was consumed. Sensors interact through the order of `fill_inputs`, the
cache and the one `height_scan`: two show each. A timeout of 1 on a clock to 4
has times before, at and after expiry, twice; commands and clouds arrive only
while their expiry is within the clock's range, so that the end of the clock
is not mistaken for a wait that never ends. A rewind by any amount, once,
makes a stamp lie in the future. `Pi = 4` has headings at, between and beyond
quarter turns and ties between two half turns; positions reach two steps
beyond limits on both sides. Five runs shift a window of three past its first
filling twice. Metadata name each joint, gain and size rightly and wrongly in
every combination of two, and put scans first, last, twice and with a history;
their parts interact only through names and sums. The three joints of `node_loop`
are one that no term moves and one of each term, the latter two in exchanged order.
The theorems below remove the bounds for every safety property.

### Fairness

`fill_inputs` and the clock (`HeightScanReceiver`, `CommandReceiver`), the steps
of a tick (`PolicyNode`), `process` and the joints' following (`Omnisteering`)
are weakly fair. The control timer is periodic and the executor serves it; time
passes; `sense()` returns true once the robot publishes, or the process is shut
down; joints are position controlled. No message, transform, IMU reading or
restart is fair. `EventuallyRuns` allows for shutdown and for a policy that
throws; `SilenceStops` assumes that no further command is accepted; `Converges`
that the heading stays and no fault remains. `PendingResolves` is stated for
sensors that `fill_inputs` reaches: a cloud of a later sensor may wait for ever
beyond its timeout, since nothing but `fill_inputs` or another cloud looks at it.

### Findings

1. *Stiffness and damping may never be sent* (`node_gains`). They are sent only
   by ticks that start within a second of `_loop_start`, set at the end of `init`
   (`src/deploy_policy_node.cpp:129`, `249`). If the first run is later, for want
   of a height scan or of the robot, references are sent and the policy's
   impedance never is, while `README.md:11` lists both as output of a run.
   `GainsOrNever` proves that the first sending decides: its tick starts within that
   second, or no sending ever carries the gains.
2. *LSTM states* (`runtime_lstm`). `_identifyIoTensors` matches each state input to the first
   output of its shape (`src/deploy_onnx.cpp:435`), so an LSTM's two states,
   which have one shape, are both fed the first. The comment at 416 names LSTM
   states as what is to be fed back. `OneStatePerShape` proves that, whatever the
   model computes, states of one shape enter every run as one. It is right if
   each state's output is the first of its shape, which is the assumption of
   theorem `StatesOfTheirOwn`.
3. *Metadata that fit may be refused* (`metadata_scan`). The size of a height
   scan is taken when its term is created (`src/deploy_onnx.cpp:142`), before it
   is computed from the scene at line 150, and it has no initial value. What
   memory holds decides whether the constructor throws that the size of the
   observations does not match the model (line 191) though it does, for a file as
   `examples/kyon_full_locomotion_rough_heightscan`. It never goes unnoticed:
   `SlicesFit` holds, since a second scan takes the right size and one
   wrong size makes the sum wrong. `ScansAloneMisjudge` proves that nothing else
   is misjudged: only a scan of the wrong size gets metadata that fit refused, and
   without scans (`MatchingWithoutScans`) none that fit are.

Not a finding, but worth a look: `ActionTerm` lists joints in the order of the
expressions, then of the policy (`src/action_term.cpp:56`), and the exporter
must do so too. A policy exported in another order loads, as only lengths are
compared.

## 4. What is proved

Each `...Proofs` module has an inductive invariant `IInv`, the lemmas that every
action keeps it, `Invariance == SafetySpec => []IInv`, and one theorem per
safety property a passing run checks. The proofs assume only the `ASSUME`s of
the modules: constants are numbers, `None` is not a value, limits are ordered,
positions are within half a turn of the limits, each state input has an output
of its shape (the model is refused otherwise), joint names are distinct, `NaN` is not
an integer, and the joints that an observation reads are the policy's. What else a
theorem needs is its hypothesis: bounds that hold what the robot feeds back
(`SentWithinBounds`), the order of outputs (`StatesOfTheirOwn`), metadata without
scans (`MatchingWithoutScans`).

- **HeightScanReceiver.** The properties are not inductive: that a scan is never
  levelled again needs that a pending cloud is *newer* than the scan, and that
  scans of a frame agree needs that each agrees with the *cache*. `Consistent`
  says both of one sensor's state, given the number received and the cache;
  lemmas show that `process_pending` keeps it, and that caching never changes
  what is cached. `Refinement` maps each callback to a `Receive`, a `Settle` or
  a stutter of `NewestScan`. What `NewestScan` is for is proved of itself
  (`OrderHolds`, `ShowsNewest`) and carried over by the refinement: what the policy
  may be given never goes back. `NothingWaitsInVain` is the safety core of
  `PendingResolves`: after a `fill_inputs` that reaches a sensor, a cloud of it
  waits for an orientation or a transform and within its timeout, or not at all.
- **CommandReceiver.** The filtered value is in the hull of the default and of
  the targets accepted since the last fallback, which are in range; the stamp of
  a command is not after the time it was heard at, whatever the clock did.
- **Omnisteering.** That outputs are the targets carries limits and rate through.
  `LoopIsAtomic` is that the loop implements the one step, for any number of wheels:
  what has been computed so far is what a run of all wheels may compute from the state
  it began in, and none of these wheels has failed (`StagedRight`), so that a `Commit`
  is a `process` and all else a stutter. `LoopIsLimited` carries limits and rate over. `NearestOfAll` is about integers: when some half turn
  of the heading lies within the limits then one of the five candidates does,
  and it is at least as near. The property that TLC checks for nine turns is
  proved for all. `Nearing` and `Firm` are the two steps of `Converges`: a run
  brings the target to the reference or nearer by a whole step, and a wheel that
  has arrived stays and rolls along its heading (an angle along the heading is its
  own reference), until it is pushed, gets another heading or starts over. That
  the two add up, while the reference may move with the joint, is left to TLC.
- **PolicyNode.** `IInv` is that of the receivers (through `INSTANCE`), `Seen`
  (a run needs scans of all sensors, and those never go), `TerrainSeen` (a
  terrain command was accepted against a scan that is still there), `Motion`
  (a run that is due counts from what was sent, or before that from what was fed
  back; one that is due to be sent is within reach of it), `Estimated` (a run that
  is due has the estimate that was published), `Moded` (modes accumulate to those
  of the terms) and `Numbers`. `ImplementsLoop` follows from `Motion` and `Seen`:
  `SendCommands` is the one `Send`, and all that ticks do between two of them
  stutters or senses. `Modes` needs that names are distinct in both orders.
  `ImplementsReceivers` is that each step is one of each receiver or leaves it
  alone; `ZeroTimeout` is that of the sensor receiver at every step of the node,
  and `ReceiversInNode` carries over the other properties of the receivers, those
  of time among them. `OnCourse` is `NoGap` for the first run as well: once all
  sensors have delivered, only a shutdown or an exception keeps a tick from its run.
- **ControlLoop.** What single steps of the loop promise adds up over any number of
  them (`WithinBounds`): bounds that hold a joint's limits and the robot's own
  references before the first sending hold every reference sent. Reach alone does
  not give it, since the references may creep; that no step leads further beyond a
  limit does. Through `ImplementsLoop` it holds of the node, for bounds on all that the
  robot may feed back (`SentWithinBounds`), as does that a joint which no term
  positions is held for good (`Held`). Of what is not a number neither bound speaks,
  which is the matter of `Poison`.
- **PolicyRuntime.** The windows are stated over the sequence of all readings,
  so that a shift is an appended element; `ObservesLastAction` needs that the
  action kept is the last one put out, also across ticks that end early.
  `FedBackByChance` says exactly when states are fed back: the network put out the
  same for a state as for the first of its shape.
- **MetadataLoad.** `Order` says what each stage leaves behind, `JointsMapped` and
  `GainsRead` follow names through what has been read so far. `SizesRead` is why
  errors of size never cancel: the first height scan created sets the size that
  all later ones take, so at most one term differs from its due, and the sum of
  sizes differs from where the slices end by exactly that. `Driven` needs that
  two policy joints of one robot joint are one, which names being distinct gives.
  `Resolved` says that the lists of an omnisteering term name nothing twice while
  they grow, from which `TermsWired` follows for the terms created. `JudgedByScan`
  adds to `SizesRead` that the check of the sizes is what throws, once all terms
  are read.

Only model-checked, since TLAPS proves no liveness under fairness:
`PendingResolves`, `SilenceStops`, `Converges`, `EventuallyRuns`. What their steps
do is proved, by `NothingWaitsInVain`, `DeadManSwitch` (past the timeout and what the
clock was set back by, a tick in silence fills in the default), `Nearing` and
`Firm`, and `OnCourse`; that they are taken is not. The three violations are
counterexamples of TLC, and the theorems named with the findings say under which
conditions there are none.

## 5. What is not modelled, and the plan

In this order:

1. `PolicyRuntime` composed into `PolicyNode` in place of its `RunPolicy`, with a
   refinement that a `PolicyNode` tick is one run of the runtime.
2. `Omnisteering` beside `JointTerms` in one run: a joint of both, whose mode is
   assigned by the one (`src/action_term.cpp:254`) and added to by the other.

The hazards in `PROJECT.json` without a property say why they have none: a range of a
parameter, the length of a list or the order of an export is nowhere stated, so that
there is nothing to check the code against.

Not planned: launch files, example data, publishers and diagnostics, YAML and
ONNX Runtime themselves (external, no state of this code), `utils.h`.
