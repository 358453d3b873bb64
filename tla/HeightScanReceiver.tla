--------------------------- MODULE HeightScanReceiver ---------------------------
(***************************************************************************)
(* RosSensorReceiver: height-scan point clouds wait for an IMU orientation *)
(* and for the static transform of their frame, are levelled once, and     *)
(* feed the policy.  The executor is single threaded, so every callback is *)
(* one step.  A cloud is known by its number in the order of receipt; its  *)
(* points are abstracted to whether the transformed points stay finite,    *)
(* and the levelled scan to what it was computed from.                     *)
(***************************************************************************)
EXTENDS Integers

CONSTANTS
    NumSensors,     \* sensors 1..NumSensors in the order of _height_scan_states
    Frames,         \* source frames of the clouds
    BaseLink,       \* the frame "base_link", which needs no transform
    Transforms,     \* the extrinsics base_link <- frame can have
    Identity,       \* the extrinsics of base_link itself
    Orientations,   \* normalized IMU orientations
    Vertical,       \* those that leave the yaw of the base undefined
    Timeout,        \* sensor_timeout_s
    None,           \* an empty std::optional, a map key that is absent
    MaxClock,       \* bound: the node clock stops here
    MaxClouds,      \* bound: clouds received per sensor
    MaxRewinds      \* bound: how often a simulated clock may jump back

Sensors == 1 .. NumSensors

PendingScan == [cloud : Nat \ {0}, frame : Frames, overflows : BOOLEAN, received : Nat]

Scan == [cloud : Nat \ {0}, frame : Frames, extrinsics : Transforms, imu : Orientations]

HeightScanState ==
    [value : Scan \cup {None}, stamp : Nat, has_value : BOOLEAN,
     pending : PendingScan \cup {None}]

ASSUME ReceiverAssumption ==
    /\ NumSensors \in Nat /\ Timeout \in Nat
    /\ MaxClock \in Nat /\ MaxClouds \in Nat /\ MaxRewinds \in Nat
    /\ BaseLink \in Frames /\ Identity \in Transforms /\ Vertical \subseteq Orientations
    /\ None \notin Transforms \cup Orientations
    /\ None \notin PendingScan /\ None \notin Scan

VARIABLES
    clock,          \* the node clock, in multiples of the timeout's resolution
    rewinds,        \* backward jumps of the clock so far
    tf,             \* the TF buffer: latest valid transform of a frame, or None
    received,       \* clouds received per sensor: the number of the newest one
    latestImu,      \* _latest_imu
    baseTSource,    \* _base_T_source: the cached extrinsics of a frame, or None
    state,          \* _height_scan_states
    inputs,         \* Inputs::height_scan of the caller
    filled          \* what the last fill_inputs returned

vars == <<clock, rewinds, tf, received, latestImu, baseTSource, state, inputs, filled>>

environment == <<clock, rewinds, tf>>

-----------------------------------------------------------------------------
(* process_pending *)

\* Mutant of Expired: one step too late.
ExpiredLate(p) == clock - p.received > Timeout + 1

Expired(p) == clock - p.received > Timeout

\* The extrinsics the frame has now: cached, the identity, or the latest TF.
Extrinsics(f) ==
    IF baseTSource[f] # None THEN baseTSource[f]
    ELSE IF f = BaseLink THEN Identity
    ELSE tf[f]

\* A pending scan that has all it waited for.
Ready(p, imu) ==
    /\ ~Expired(p)
    /\ imu # None
    /\ Extrinsics(p.frame) # None

\* Mutants of Waits: an incomplete scan waits past its expiry; a zero timeout
\* is not special.
WaitsForever(p, imu) == ~Ready(p, imu) /\ Timeout # 0
WaitsAtZero(p, imu) == ~Expired(p) /\ ~Ready(p, imu)

Waits(p, imu) ==
    /\ ~Expired(p)
    /\ ~Ready(p, imu)
    /\ Timeout # 0

\* A ready scan is still discarded when the yaw is undefined or a transformed
\* point is not finite.
Consumable(p, imu) ==
    /\ Ready(p, imu)
    /\ imu \notin Vertical
    /\ ~p.overflows

Levelled(p, imu) ==
    [cloud |-> p.cloud, frame |-> p.frame, extrinsics |-> Extrinsics(p.frame), imu |-> imu]

\* Mutants of process_pending: the consumed scan stays pending; has_value is
\* not set; a discarded scan takes the one before it along.
process_pending_keeps(st, imu) ==
    LET p == st.pending IN
    IF p = None \/ Waits(p, imu) THEN st
    ELSE IF Consumable(p, imu)
         THEN [st EXCEPT !.value = Levelled(p, imu), !.stamp = p.received, !.has_value = TRUE]
         ELSE [st EXCEPT !.pending = None]
process_pending_unset(st, imu) ==
    LET p == st.pending IN
    IF p = None \/ Waits(p, imu) THEN st
    ELSE IF Consumable(p, imu)
         THEN [st EXCEPT !.value = Levelled(p, imu), !.stamp = p.received, !.pending = None]
         ELSE [st EXCEPT !.pending = None]
process_pending_forgets(st, imu) ==
    LET p == st.pending IN
    IF p = None \/ Waits(p, imu) THEN st
    ELSE IF Consumable(p, imu)
         THEN [value |-> Levelled(p, imu), stamp |-> p.received, has_value |-> TRUE,
               pending |-> None]
         ELSE [value |-> None, stamp |-> 0, has_value |-> FALSE, pending |-> None]

process_pending(st, imu) ==
    LET p == st.pending IN
    IF p = None \/ Waits(p, imu) THEN st
    ELSE IF Consumable(p, imu)
         THEN [value |-> Levelled(p, imu), stamp |-> p.received, has_value |-> TRUE,
               pending |-> None]
         ELSE [st EXCEPT !.pending = None]

\* The frames whose extrinsics processing the states of these sensors caches.
LookedUp(sts, imu) ==
    {f \in Frames : \E st \in sts :
        st.pending # None /\ st.pending.frame = f /\ Ready(st.pending, imu)}

\* Mutant of CacheExtrinsics: every scan looks its transform up again.
CacheNothing(fs) == UNCHANGED baseTSource

CacheExtrinsics(fs) ==
    baseTSource' = [f \in Frames |-> IF f \in fs THEN Extrinsics(f) ELSE baseTSource[f]]

-----------------------------------------------------------------------------
(* The handlers *)

\* The orientation kept after a reading: an invalid one (None) is ignored.
UpdatedImu(reading) == IF reading = None THEN latestImu ELSE reading

update_imu(reading) ==
    /\ latestImu' = UpdatedImu(reading)
    /\ UNCHANGED <<environment, received, baseTSource, state, inputs, filled>>

\* Mutant of RejectHeightScan: the checks come before the reset.
RejectKeepsPending(s) ==
    /\ received[s] < MaxClouds
    /\ received' = [received EXCEPT ![s] = @ + 1]
    /\ UNCHANGED <<environment, latestImu, baseTSource, state, inputs, filled>>

\* store_height_scan up to the last of its checks: the scan that waited goes
\* before the message is looked at, and an unusable message leaves no other.
RejectHeightScan(s) ==
    /\ received[s] < MaxClouds
    /\ received' = [received EXCEPT ![s] = @ + 1]
    /\ state' = [state EXCEPT ![s].pending = None]
    /\ UNCHANGED <<environment, latestImu, baseTSource, inputs, filled>>

\* store_height_scan of a valid message, with the immediate process_pending.
\* The guard on the clock is a bound: a scan arrives while its expiry is
\* still within the clock's range.
StoreHeightScan(s, f, overflows) ==
    LET p  == [cloud |-> received[s] + 1, frame |-> f, overflows |-> overflows,
               received |-> clock]
        st == [state[s] EXCEPT !.pending = p]
    IN  /\ received[s] < MaxClouds
        /\ clock + Timeout < MaxClock
        /\ received' = [received EXCEPT ![s] = @ + 1]
        /\ state' = [state EXCEPT ![s] = process_pending(st, latestImu)]
        /\ CacheExtrinsics(LookedUp({st}, latestImu))
        /\ UNCHANGED <<environment, latestImu, inputs, filled>>

\* The sensors fill_inputs gets to: it returns at the first without a scan.
Reached(imu) ==
    {s \in Sensors : \A r \in 1 .. (s - 1) : process_pending(state[r], imu).has_value}

\* Mutant of FillInputs: a sensor without a scan is skipped.
FillInputsSkipping(imu) ==
    LET after == [s \in Sensors |-> process_pending(state[s], imu)]
        shown == {s \in Sensors : after[s].has_value}
    IN  /\ state' = after
        /\ CacheExtrinsics(LookedUp({state[s] : s \in Sensors}, imu))
        /\ filled' = (shown # {})
        /\ \/ shown = {} /\ inputs' = inputs
           \/ \E s \in shown : inputs' = state'[s].value

\* fill_inputs with the orientation the caller has just stored. All sensors
\* write the same Inputs::height_scan, so the last one reached prevails.
FillInputs(imu) ==
    LET shown == {s \in Reached(imu) : process_pending(state[s], imu).has_value}
    IN  /\ state' = [s \in Sensors |->
                        IF s \in Reached(imu) THEN process_pending(state[s], imu) ELSE state[s]]
        /\ CacheExtrinsics(LookedUp({state[s] : s \in Reached(imu)}, imu))
        /\ filled' = (shown = Sensors)
        /\ \/ shown = {} /\ inputs' = inputs
           \/ \E s \in shown : s + 1 \notin shown /\ inputs' = state'[s].value

fill_inputs ==
    /\ FillInputs(latestImu)
    /\ UNCHANGED <<environment, received, latestImu>>

-----------------------------------------------------------------------------
(* The environment *)

Tick ==
    /\ clock < MaxClock
    /\ clock' = clock + 1
    /\ UNCHANGED <<rewinds, tf, received, latestImu, baseTSource, state, inputs, filled>>

\* With use_sim_time the clock restarts when the simulation is reset.
Rewind ==
    /\ rewinds < MaxRewinds
    /\ rewinds' = rewinds + 1
    /\ \E t \in 0 .. (clock - 1) : clock' = t
    /\ UNCHANGED <<tf, received, latestImu, baseTSource, state, inputs, filled>>

\* A transform is published, republished with other extrinsics, or is gone.
TransformChange(f) ==
    /\ f # BaseLink
    /\ \E x \in Transforms \cup {None} : tf' = [tf EXCEPT ![f] = x]
    /\ UNCHANGED <<clock, rewinds, received, latestImu, baseTSource, state, inputs, filled>>

-----------------------------------------------------------------------------
Init ==
    /\ clock = 0 /\ rewinds = 0
    /\ tf = [f \in Frames |-> None]
    /\ received = [s \in Sensors |-> 0]
    /\ latestImu = None
    /\ baseTSource = [f \in Frames |-> None]
    /\ state = [s \in Sensors |->
                   [value |-> None, stamp |-> 0, has_value |-> FALSE, pending |-> None]]
    /\ inputs = None
    /\ filled = FALSE

Next ==
    \/ \E reading \in Orientations \cup {None} : update_imu(reading)
    \/ \E s \in Sensors : RejectHeightScan(s)
    \/ \E s \in Sensors, f \in Frames, overflows \in BOOLEAN : StoreHeightScan(s, f, overflows)
    \/ fill_inputs
    \/ Tick
    \/ Rewind
    \/ \E f \in Frames : TransformChange(f)

\* The control timer calls fill_inputs at every period and the clock advances.
Fairness == WF_vars(fill_inputs) /\ WF_vars(Tick)

SafetySpec == Init /\ [][Next]_vars

Spec == SafetySpec /\ Fairness

-----------------------------------------------------------------------------
(* Properties *)

\* Types of the receiver's state; has_value tells whether a scan was stored.
TypeOK ==
    /\ clock \in Nat /\ rewinds \in Nat
    /\ tf \in [Frames -> Transforms \cup {None}]
    /\ received \in [Sensors -> Nat]
    /\ latestImu \in Orientations \cup {None}
    /\ baseTSource \in [Frames -> Transforms \cup {None}]
    /\ state \in [Sensors -> HeightScanState]
    /\ \A s \in Sensors : state[s].has_value = (state[s].value # None)
    /\ inputs \in Scan \cup {None}
    /\ filled \in BOOLEAN

\* Only the newest cloud of a sensor waits for the IMU or the TF: whatever
\* arrives after it, usable or not, takes its place.
OnlyNewestWaits ==
    \A s \in Sensors : state[s].pending # None => state[s].pending.cloud = received[s]

\* Two scans levelled from the same source frame used the same extrinsics,
\* however often the transform was republished in between: those of the cache.
SameFrameSameExtrinsics ==
    \A r, s \in Sensors :
        state[r].has_value /\ state[s].has_value /\ state[r].value.frame = state[s].value.frame
            => state[r].value.extrinsics = state[s].value.extrinsics

\* With sensor_timeout_s = 0 a scan is used in the callback that receives it
\* or never: nothing is left pending between callbacks.
ZeroTimeoutNeverWaits == Timeout = 0 => \A s \in Sensors : state[s].pending = None

\* fill_inputs reports success only when every sensor has had a valid scan,
\* and the caller then holds a scan, whatever was lost in between.
EverySensorBeforeReady ==
    filled => \A s \in Sensors : state[s].has_value /\ inputs # None

\* A scan that was consumed is never levelled again when the IMU turns, and no
\* cloud is consumed after a newer one: a sensor's value changes only to a
\* cloud received later.
NeverRetransformed ==
    [][\A s \in Sensors :
        state[s].has_value /\ state'[s].value # state[s].value
            => state'[s].value.cloud > state[s].value.cloud]_vars

\* No scan becomes the value of a sensor longer than the timeout after its
\* receipt, on whichever callback its IMU orientation or TF is found.
ConsumedInTime ==
    [][\A s \in Sensors :
        state'[s].value # state[s].value => clock - state'[s].stamp <= Timeout]_vars

\* A pending cloud is eventually consumed, discarded or replaced, provided the
\* sensors before it have a scan: fill_inputs never gets past one that has none.
PendingResolves ==
    \A s \in Sensors, n \in 1 .. MaxClouds :
        (/\ state[s].pending # None /\ state[s].pending.cloud = n
         /\ \A r \in 1 .. (s - 1) : state[r].has_value)
            ~> (state[s].pending = None \/ state[s].pending.cloud # n)

\* The mapping to NewestScan: what waits and what is shown, by cloud number.
WaitingCloud(st) == IF st.pending = None THEN 0 ELSE st.pending.cloud
ShownCloud(st) == IF st.has_value THEN st.value.cloud ELSE 0

Promise ==
    INSTANCE NewestScan WITH
        newest  <- received,
        waiting <- [s \in Sensors |-> WaitingCloud(state[s])],
        shown   <- [s \in Sensors |-> ShownCloud(state[s])]

\* The receiver implements NewestScan: the newest cloud waits, and what is
\* shown only advances, to a cloud that waited or has just been received.
KeepsPromise == Promise!Spec
=============================================================================
