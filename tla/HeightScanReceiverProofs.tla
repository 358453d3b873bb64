------------------------ MODULE HeightScanReceiverProofs ------------------------
(***************************************************************************)
(* The height-scan receiver keeps its invariants for every number of       *)
(* sensors, frames, transforms, orientations and every timeout.            *)
(***************************************************************************)
EXTENDS HeightScanReceiver, TLAPS

\* What holds of the state of one sensor of which n clouds were received:
\* its types; the newest cloud waits; the value is older than the cloud that
\* waits; it was levelled with the extrinsics its frame has cached.
Consistent(st, n, cache) ==
    /\ st \in HeightScanState
    /\ st.has_value = (st.value # None)
    /\ st.pending # None => st.pending.cloud = n
    /\ st.has_value =>
        /\ st.value.cloud <= n
        /\ st.pending # None => st.value.cloud < n
        /\ cache[st.value.frame] = st.value.extrinsics

\* The inductive invariant of the receiver.
IInv ==
    /\ clock \in Nat /\ rewinds \in Nat
    /\ tf \in [Frames -> Transforms \cup {None}]
    /\ received \in [Sensors -> Nat]
    /\ latestImu \in Orientations \cup {None}
    /\ baseTSource \in [Frames -> Transforms \cup {None}]
    /\ inputs \in Scan \cup {None}
    /\ filled \in BOOLEAN
    /\ state \in [Sensors -> HeightScanState]
    /\ \A s \in Sensors : Consistent(state[s], received[s], baseTSource)
    /\ ZeroTimeoutNeverWaits
    /\ EverySensorBeforeReady

-----------------------------------------------------------------------------
(* What process_pending may do to the state of one sensor *)

\* Either the value stays, or the pending scan becomes the value and nothing
\* is left pending; a pending scan is only ever removed.
LEMMA ProcessPending ==
    ASSUME NEW st \in HeightScanState, st.has_value = (st.value # None),
           NEW imu \in Orientations \cup {None},
           NEW r, r = process_pending(st, imu),
           clock \in Nat,
           tf \in [Frames -> Transforms \cup {None}],
           baseTSource \in [Frames -> Transforms \cup {None}]
    PROVE  /\ r \in HeightScanState
           /\ r.has_value = (r.value # None)
           /\ r.pending = None \/ (r.pending = st.pending /\ r.value = st.value)
           /\ Timeout = 0 => r.pending = None
           /\ \/ r.value = st.value /\ r.has_value = st.has_value
              \/ /\ st.pending # None
                 /\ Ready(st.pending, imu)
                 /\ r.value = Levelled(st.pending, imu)
                 /\ r.stamp = st.pending.received
                 /\ r.has_value
                 /\ r.pending = None
<1> DEFINE p == st.pending
<1> USE ReceiverAssumption
<1>1. CASE p = None \/ Waits(p, imu)
  <2>1. r = st
    BY <1>1 DEF process_pending
  <2> QED
    BY <1>1, <2>1 DEF Waits
<1>2. CASE p # None /\ ~Waits(p, imu) /\ Consumable(p, imu)
  <2>1. p \in PendingScan
    BY <1>2 DEF HeightScanState
  <2>2. Ready(p, imu) /\ imu \in Orientations
    BY <1>2 DEF Consumable, Ready
  <2>3. Extrinsics(p.frame) \in Transforms
    BY <2>1, <2>2 DEF Ready, Extrinsics, PendingScan
  <2>4. Levelled(p, imu) \in Scan
    BY <2>1, <2>2, <2>3 DEF Levelled, Scan, PendingScan
  <2>5. r = [value |-> Levelled(p, imu), stamp |-> p.received, has_value |-> TRUE,
             pending |-> None]
    BY <1>2 DEF process_pending
  <2>6. r \in HeightScanState
    BY <2>1, <2>4, <2>5 DEF HeightScanState, PendingScan
  <2>7. /\ r.value = Levelled(p, imu) /\ r.stamp = p.received
        /\ r.has_value = TRUE /\ r.pending = None
    BY <2>5
  <2>8. r.value # None
    BY <2>4, <2>7
  <2>9. r.has_value = (r.value # None)
    BY <2>7, <2>8
  <2> QED
    BY <1>2, <2>2, <2>6, <2>7, <2>9
<1>3. CASE p # None /\ ~Waits(p, imu) /\ ~Consumable(p, imu)
  <2>1. r = [st EXCEPT !.pending = None]
    BY <1>3 DEF process_pending
  <2>2. r \in HeightScanState /\ r.pending = None /\ r.value = st.value
        /\ r.has_value = st.has_value
    BY <2>1 DEF HeightScanState
  <2> QED
    BY <2>2
<1> QED
  BY <1>1, <1>2, <1>3

\* The cache only grows: what is cached stays, what is looked up is cached.
LEMMA CacheGrows ==
    ASSUME tf \in [Frames -> Transforms \cup {None}],
           baseTSource \in [Frames -> Transforms \cup {None}],
           NEW fs \in SUBSET Frames, CacheExtrinsics(fs)
    PROVE  /\ baseTSource' \in [Frames -> Transforms \cup {None}]
           /\ \A f \in Frames : baseTSource[f] # None => baseTSource'[f] = baseTSource[f]
           /\ \A f \in fs : baseTSource'[f] = Extrinsics(f)
BY ReceiverAssumption DEF CacheExtrinsics, Extrinsics

\* Processing keeps the state of a sensor consistent, given that the frame of
\* a scan that was ready is cached.
LEMMA ProcessingIsConsistent ==
    ASSUME NEW st, NEW n \in Nat, NEW imu \in Orientations \cup {None},
           Consistent(st, n, baseTSource),
           clock \in Nat,
           tf \in [Frames -> Transforms \cup {None}],
           baseTSource \in [Frames -> Transforms \cup {None}],
           NEW fs \in SUBSET Frames, CacheExtrinsics(fs),
           st.pending # None /\ Ready(st.pending, imu) => st.pending.frame \in fs
    PROVE  /\ Consistent(process_pending(st, imu), n, baseTSource')
           /\ Timeout = 0 => process_pending(st, imu).pending = None
           /\ st.has_value => process_pending(st, imu).has_value
<1> DEFINE r == process_pending(st, imu)
<1>1. st \in HeightScanState /\ st.has_value = (st.value # None)
  BY DEF Consistent
<1>2. /\ r \in HeightScanState
      /\ r.has_value = (r.value # None)
      /\ r.pending = None \/ (r.pending = st.pending /\ r.value = st.value)
      /\ Timeout = 0 => r.pending = None
      /\ \/ r.value = st.value /\ r.has_value = st.has_value
         \/ /\ st.pending # None
            /\ Ready(st.pending, imu)
            /\ r.value = Levelled(st.pending, imu)
            /\ r.stamp = st.pending.received
            /\ r.has_value
            /\ r.pending = None
  BY <1>1, ProcessPending
<1>3. /\ \A f \in Frames : baseTSource[f] # None => baseTSource'[f] = baseTSource[f]
      /\ \A f \in fs : baseTSource'[f] = Extrinsics(f)
  BY CacheGrows
<1> HIDE DEF r
<1>4. CASE r.value = st.value /\ r.has_value = st.has_value
  <2>1. r.pending # None => r.pending.cloud = n
    BY <1>2 DEF Consistent
  <2>2. ASSUME r.has_value
        PROVE  /\ r.value.cloud <= n
               /\ r.pending # None => r.value.cloud < n
               /\ baseTSource'[r.value.frame] = r.value.extrinsics
    <3>1. st.value # None /\ st.value \in Scan
      BY <1>1, <1>4, <2>2 DEF HeightScanState
    <3>2. st.value.frame \in Frames /\ st.value.extrinsics \in Transforms
      BY <3>1 DEF Scan
    <3>3. baseTSource[st.value.frame] = st.value.extrinsics /\ st.value.cloud <= n
          /\ (st.pending # None => st.value.cloud < n)
      BY <1>1, <3>1 DEF Consistent
    <3>4. baseTSource'[st.value.frame] = st.value.extrinsics
      BY <1>3, <3>2, <3>3, ReceiverAssumption
    <3> QED
      BY <1>2, <1>4, <3>3, <3>4
  <2> QED
    BY <1>2, <1>4, <2>1, <2>2 DEF Consistent, r
<1>5. CASE /\ st.pending # None
           /\ Ready(st.pending, imu)
           /\ r.value = Levelled(st.pending, imu)
           /\ r.has_value
           /\ r.pending = None
  <2>1. st.pending.cloud = n /\ st.pending.frame \in fs
    BY <1>5 DEF Consistent
  <2>2. r.value.cloud = n
    BY <1>5, <2>1 DEF Levelled
  <2>3. baseTSource'[r.value.frame] = r.value.extrinsics
    BY <1>3, <1>5, <2>1 DEF Levelled
  <2> QED
    BY <1>2, <1>5, <2>2, <2>3 DEF Consistent, r
<1> QED
  BY <1>2, <1>4, <1>5 DEF r

-----------------------------------------------------------------------------
(* The inductive invariant *)

\* The receiver starts in the invariant.
LEMMA InitIInv == Init => IInv
<1> SUFFICES ASSUME Init PROVE IInv
  OBVIOUS
<1> DEFINE st == [value |-> None, stamp |-> 0, has_value |-> FALSE, pending |-> None]
<1>1. st \in HeightScanState
  BY DEF HeightScanState
<1>2. Consistent(st, 0, baseTSource)
  BY <1>1 DEF Consistent
<1>3. \A s \in Sensors : state[s] = st /\ received[s] = 0 /\ state[s].pending = None
  BY DEF Init
<1>4. state \in [Sensors -> HeightScanState]
  BY <1>1 DEF Init
<1> HIDE DEF st
<1>5. \A s \in Sensors : Consistent(state[s], received[s], baseTSource)
  BY <1>2, <1>3
<1> QED
  BY <1>3, <1>4, <1>5, ReceiverAssumption
     DEF Init, IInv, ZeroTimeoutNeverWaits, EverySensorBeforeReady

\* Rejecting a message only removes the scan that waited.
LEMMA RejectIInv ==
    ASSUME IInv, NEW s \in Sensors, RejectHeightScan(s)
    PROVE  IInv'
<1> DEFINE st == state[s]
           rt == [state[s] EXCEPT !.pending = None]
<1>1. /\ state' = [state EXCEPT ![s] = rt]
      /\ received' = [received EXCEPT ![s] = @ + 1]
      /\ UNCHANGED <<clock, rewinds, tf, latestImu, baseTSource, inputs, filled>>
  BY DEF RejectHeightScan, environment
<1>2. Consistent(st, received[s], baseTSource) /\ st \in HeightScanState /\ received[s] \in Nat
  BY DEF IInv
<1>3. /\ rt \in HeightScanState /\ rt.pending = None
      /\ rt.value = st.value /\ rt.has_value = st.has_value
  BY <1>2 DEF HeightScanState
<1> HIDE DEF rt
<1>4. rt.has_value => rt.value \in Scan
  BY <1>2, <1>3 DEF Consistent, HeightScanState
<1>5. Consistent(rt, received[s] + 1, baseTSource)
  BY <1>2, <1>3, <1>4 DEF Consistent, Scan
<1>6. \A q \in Sensors : Consistent(state'[q], received'[q], baseTSource')
  BY <1>1, <1>5 DEF IInv
<1>7. ZeroTimeoutNeverWaits'
  BY <1>1, <1>3 DEF IInv, ZeroTimeoutNeverWaits
<1>8. EverySensorBeforeReady'
  BY <1>1, <1>3 DEF IInv, EverySensorBeforeReady
<1>9. state' \in [Sensors -> HeightScanState] /\ received' \in [Sensors -> Nat]
  BY <1>1, <1>2, <1>3 DEF IInv
<1> QED
  BY <1>1, <1>6, <1>7, <1>8, <1>9 DEF IInv

\* A new scan, which waits or is processed at once.
LEMMA StoreIInv ==
    ASSUME IInv, NEW s \in Sensors, NEW f \in Frames, NEW overflows \in BOOLEAN,
           StoreHeightScan(s, f, overflows)
    PROVE  IInv'
<1> DEFINE n == received[s] + 1
           p == [cloud |-> n, frame |-> f, overflows |-> overflows, received |-> clock]
           st == [state[s] EXCEPT !.pending = p]
           fs == LookedUp({st}, latestImu)
           rt == process_pending(st, latestImu)
<1>1. /\ state' = [state EXCEPT ![s] = rt]
      /\ received' = [received EXCEPT ![s] = n]
      /\ CacheExtrinsics(fs)
      /\ UNCHANGED <<clock, rewinds, tf, latestImu, inputs, filled>>
  BY DEF StoreHeightScan, environment
<1>2. Consistent(state[s], received[s], baseTSource) /\ state[s] \in HeightScanState
      /\ received[s] \in Nat /\ n \in Nat \ {0}
  BY DEF IInv
<1>3. p \in PendingScan /\ p # None /\ p.cloud = n
  BY <1>2, ReceiverAssumption DEF IInv, PendingScan
<1> HIDE DEF p
<1>4. /\ st \in HeightScanState /\ st.pending = p
      /\ st.value = state[s].value /\ st.has_value = state[s].has_value
  BY <1>2, <1>3 DEF HeightScanState
<1> HIDE DEF st
<1>5. st.has_value => st.value \in Scan
  BY <1>2, <1>4 DEF Consistent, HeightScanState
<1>6. Consistent(st, n, baseTSource)
  BY <1>2, <1>3, <1>4, <1>5 DEF Consistent, Scan
<1>7. fs \in SUBSET Frames
      /\ (st.pending # None /\ Ready(st.pending, latestImu) => st.pending.frame \in fs)
  BY <1>3, <1>4 DEF LookedUp, PendingScan
<1> HIDE DEF fs
<1>8. /\ Consistent(rt, n, baseTSource')
      /\ Timeout = 0 => rt.pending = None
      /\ st.has_value => rt.has_value
  BY <1>1, <1>2, <1>6, <1>7, ProcessingIsConsistent DEF IInv
<1> HIDE DEF rt
<1>9. /\ baseTSource' \in [Frames -> Transforms \cup {None}]
      /\ \A g \in Frames : baseTSource[g] # None => baseTSource'[g] = baseTSource[g]
  BY <1>1, <1>7, CacheGrows DEF IInv
<1>10. \A q \in Sensors : Consistent(state'[q], received'[q], baseTSource')
  <2> TAKE q \in Sensors
  <2>1. CASE q = s
    BY <1>1, <1>8, <2>1 DEF IInv
  <2>2. CASE q # s
    <3>1. state'[q] = state[q] /\ received'[q] = received[q]
      BY <1>1, <2>2 DEF IInv
    <3>2. Consistent(state[q], received[q], baseTSource)
      BY DEF IInv
    <3>3. state[q].has_value => state[q].value \in Scan
      BY <3>2 DEF Consistent, HeightScanState
    <3>4. state[q].has_value => baseTSource'[state[q].value.frame] = state[q].value.extrinsics
      BY <1>9, <3>2, <3>3, ReceiverAssumption DEF Consistent, Scan
    <3> QED
      BY <3>1, <3>2, <3>4 DEF Consistent
  <2> QED
    BY <2>1, <2>2
<1>11. ZeroTimeoutNeverWaits'
  BY <1>1, <1>8 DEF IInv, ZeroTimeoutNeverWaits
<1>12. EverySensorBeforeReady'
  BY <1>1, <1>4, <1>8 DEF IInv, EverySensorBeforeReady
<1>13. state' \in [Sensors -> HeightScanState] /\ received' \in [Sensors -> Nat]
  BY <1>1, <1>2, <1>8 DEF IInv, Consistent
<1> QED
  BY <1>1, <1>9, <1>10, <1>11, <1>12, <1>13 DEF IInv

\* fill_inputs processes the sensors up to the first that has no scan.
LEMMA FillIInv ==
    ASSUME IInv, fill_inputs
    PROVE  IInv'
<1> DEFINE imu == latestImu
           R == Reached(imu)
           rt == [s \in Sensors |-> process_pending(state[s], imu)]
           shown == {s \in R : rt[s].has_value}
           fs == LookedUp({state[s] : s \in R}, imu)
<1>1. R \subseteq Sensors /\ fs \in SUBSET Frames
  BY DEF Reached, LookedUp
<1>2. /\ CacheExtrinsics(fs)
      /\ clock' = clock /\ rewinds' = rewinds /\ tf' = tf
      /\ received' = received /\ latestImu' = latestImu
  BY DEF fill_inputs, FillInputs, environment
<1>14. /\ state' = [s \in Sensors |-> IF s \in R THEN rt[s] ELSE state[s]]
       /\ filled' = (shown = Sensors)
       /\ \/ shown = {} /\ inputs' = inputs
          \/ \E s \in shown : inputs' = state'[s].value
  <2>1. state' = [s \in Sensors |->
                     IF s \in R THEN process_pending(state[s], imu) ELSE state[s]]
    BY DEF fill_inputs, FillInputs
  <2>2. shown = {s \in Reached(imu) : process_pending(state[s], imu).has_value}
    BY <1>1
  <2>3. /\ filled' = (shown = Sensors)
        /\ \/ shown = {} /\ inputs' = inputs
           \/ \E s \in shown : inputs' = state'[s].value
    BY <2>2 DEF fill_inputs, FillInputs
  <2> QED
    BY <1>1, <2>1, <2>3
<1>3. \A s \in R : state[s].pending # None /\ Ready(state[s].pending, imu)
                       => state[s].pending.frame \in fs
  <2> TAKE s \in R
  <2>1. state[s].pending # None => state[s].pending.frame \in Frames
    BY <1>1 DEF IInv, HeightScanState, PendingScan
  <2> QED
    BY <2>1 DEF LookedUp
<1> HIDE DEF fs, R
<1>4. /\ baseTSource' \in [Frames -> Transforms \cup {None}]
      /\ \A g \in Frames : baseTSource[g] # None => baseTSource'[g] = baseTSource[g]
  BY <1>1, <1>2, CacheGrows DEF IInv
<1>15. /\ \A s \in R : state'[s] = rt[s]
       /\ \A s \in Sensors \ R : state'[s] = state[s]
  BY <1>1, <1>14
<1> HIDE DEF rt
<1>5. \A s \in R : /\ Consistent(rt[s], received[s], baseTSource')
                   /\ Timeout = 0 => rt[s].pending = None
                   /\ state[s].has_value => rt[s].has_value
  BY <1>1, <1>2, <1>3, ProcessingIsConsistent DEF IInv, rt
<1>6. \A s \in Sensors \ R : Consistent(state[s], received[s], baseTSource')
  <2> TAKE s \in Sensors \ R
  <2>1. Consistent(state[s], received[s], baseTSource)
    BY DEF IInv
  <2>2. state[s].has_value => state[s].value \in Scan
    BY <2>1 DEF Consistent, HeightScanState
  <2>3. state[s].has_value => baseTSource'[state[s].value.frame] = state[s].value.extrinsics
    BY <1>4, <2>1, <2>2, ReceiverAssumption DEF Consistent, Scan
  <2> QED
    BY <2>1, <2>3 DEF Consistent
<1>7. \A s \in Sensors : Consistent(state'[s], received'[s], baseTSource')
  BY <1>2, <1>5, <1>6, <1>15
<1>8. state' \in [Sensors -> HeightScanState]
  BY <1>1, <1>5, <1>14 DEF IInv, Consistent
<1>9. ZeroTimeoutNeverWaits'
  BY <1>5, <1>15 DEF IInv, ZeroTimeoutNeverWaits
<1>10. \A s \in shown : state'[s] = rt[s] /\ state'[s].has_value /\ state'[s].value \in Scan
  <2> TAKE s \in shown
  <2>1. s \in R /\ s \in Sensors /\ state'[s] = rt[s] /\ rt[s].has_value
    BY <1>1, <1>15
  <2>2. Consistent(rt[s], received[s], baseTSource')
    BY <1>5, <2>1
  <2> QED
    BY <2>1, <2>2 DEF Consistent, HeightScanState
<1>11. inputs' \in Scan \cup {None} /\ (shown # {} => inputs' # None)
  BY <1>10, <1>14, ReceiverAssumption DEF IInv
<1>12. EverySensorBeforeReady'
  BY <1>10, <1>11, <1>14 DEF EverySensorBeforeReady
<1>13. filled' \in BOOLEAN
  BY <1>14
<1> QED
  BY <1>2, <1>4, <1>7, <1>8, <1>9, <1>11, <1>12, <1>13 DEF IInv

\* Every step preserves the invariant.
LEMMA NextIInv == IInv /\ [Next]_vars => IInv'
<1> SUFFICES ASSUME IInv, [Next]_vars PROVE IInv'
  OBVIOUS
<1>1. ASSUME NEW reading \in Orientations \cup {None}, update_imu(reading) PROVE IInv'
  BY <1>1 DEF IInv, update_imu, UpdatedImu, environment, ZeroTimeoutNeverWaits,
              EverySensorBeforeReady
<1>2. ASSUME NEW s \in Sensors, RejectHeightScan(s) PROVE IInv'
  BY <1>2, RejectIInv
<1>3. ASSUME NEW s \in Sensors, NEW f \in Frames, NEW overflows \in BOOLEAN,
             StoreHeightScan(s, f, overflows)
      PROVE  IInv'
  BY <1>3, StoreIInv
<1>4. CASE fill_inputs
  BY <1>4, FillIInv
<1>5. CASE Tick
  BY <1>5 DEF IInv, Tick, ZeroTimeoutNeverWaits, EverySensorBeforeReady
<1>6. CASE Rewind
  BY <1>6 DEF IInv, Rewind, ZeroTimeoutNeverWaits, EverySensorBeforeReady
<1>7. ASSUME NEW f \in Frames, TransformChange(f) PROVE IInv'
  BY <1>7 DEF IInv, TransformChange, ZeroTimeoutNeverWaits, EverySensorBeforeReady
<1>8. CASE UNCHANGED vars
  BY <1>8 DEF IInv, vars, ZeroTimeoutNeverWaits, EverySensorBeforeReady
<1> QED
  BY <1>1, <1>2, <1>3, <1>4, <1>5, <1>6, <1>7, <1>8 DEF Next

\* The inductive invariant holds in every behaviour of the scan receiver.
THEOREM Invariance == SafetySpec => []IInv
BY InitIInv, NextIInv, PTL DEF SafetySpec

-----------------------------------------------------------------------------
(* The invariants that the runs check *)

\* The receiver's state keeps its types.
THEOREM TypeCorrect == SafetySpec => []TypeOK
<1>1. IInv => TypeOK
  BY DEF IInv, TypeOK, Consistent
<1> QED
  BY <1>1, Invariance, PTL

\* Only the newest cloud of a sensor ever waits.
THEOREM NewestCloudWaits == SafetySpec => []OnlyNewestWaits
<1>1. IInv => OnlyNewestWaits
  BY DEF IInv, OnlyNewestWaits, Consistent
<1> QED
  BY <1>1, Invariance, PTL

\* The extrinsics of a frame are the same for every scan levelled from it.
THEOREM ExtrinsicsAreStatic == SafetySpec => []SameFrameSameExtrinsics
<1>1. IInv => SameFrameSameExtrinsics
  BY DEF IInv, SameFrameSameExtrinsics, Consistent
<1> QED
  BY <1>1, Invariance, PTL

\* A zero timeout leaves nothing pending between callbacks.
THEOREM ZeroTimeout == SafetySpec => []ZeroTimeoutNeverWaits
<1>1. IInv => ZeroTimeoutNeverWaits
  BY DEF IInv
<1> QED
  BY <1>1, Invariance, PTL

\* Success of fill_inputs means a scan from every sensor.
THEOREM ReadyMeansEverySensor == SafetySpec => []EverySensorBeforeReady
<1>1. IInv => EverySensorBeforeReady
  BY DEF IInv
<1> QED
  BY <1>1, Invariance, PTL

-----------------------------------------------------------------------------
(* What the steps do to the value of a sensor *)

\* What processing may make of a sensor's state: the value stays and the
\* pending scan stays or goes, or the pending scan becomes the value in time.
Outcome(st, rt) ==
    /\ rt.pending = None \/ (rt.pending = st.pending /\ rt.value = st.value)
    /\ \/ rt.value = st.value /\ rt.has_value = st.has_value
       \/ /\ st.pending # None
          /\ clock - st.pending.received <= Timeout
          /\ rt.value.cloud = st.pending.cloud
          /\ rt.stamp = st.pending.received
          /\ rt.has_value
          /\ rt.pending = None

\* What process_pending may do to a sensor: keep, consume or drop its cloud.
LEMMA ProcessingOutcome ==
    ASSUME NEW st, NEW n \in Nat, NEW imu \in Orientations \cup {None}, IInv,
           Consistent(st, n, baseTSource)
    PROVE  Outcome(st, process_pending(st, imu))
<1> DEFINE r == process_pending(st, imu)
<1>1. st \in HeightScanState /\ st.has_value = (st.value # None)
  BY DEF Consistent
<1>2. /\ r.pending = None \/ (r.pending = st.pending /\ r.value = st.value)
      /\ \/ r.value = st.value /\ r.has_value = st.has_value
         \/ /\ st.pending # None
            /\ Ready(st.pending, imu)
            /\ r.value = Levelled(st.pending, imu)
            /\ r.stamp = st.pending.received
            /\ r.has_value
            /\ r.pending = None
  BY <1>1, ProcessPending DEF IInv
<1> HIDE DEF r
<1>3. CASE r.value = st.value /\ r.has_value = st.has_value
  BY <1>2, <1>3 DEF Outcome, r
<1>4. CASE /\ st.pending # None
           /\ Ready(st.pending, imu)
           /\ r.value = Levelled(st.pending, imu)
           /\ r.stamp = st.pending.received
           /\ r.has_value
           /\ r.pending = None
  <2>1. st.pending \in PendingScan
    BY <1>1, <1>4 DEF HeightScanState
  <2>2. clock - st.pending.received <= Timeout
    BY <1>4, <2>1, ReceiverAssumption DEF Ready, Expired, IInv, PendingScan
  <2>3. r.value.cloud = st.pending.cloud
    BY <1>4 DEF Levelled
  <2> QED
    BY <1>4, <2>2, <2>3 DEF Outcome, r
<1> QED
  BY <1>2, <1>3, <1>4 DEF r

\* What fill_inputs may do to each sensor.
LEMMA FillOutcome ==
    ASSUME IInv, fill_inputs, NEW s \in Sensors
    PROVE  Outcome(state[s], state'[s]) /\ received' = received
<1>1. Consistent(state[s], received[s], baseTSource) /\ received[s] \in Nat
      /\ latestImu \in Orientations \cup {None}
  BY DEF IInv
<1>2. Outcome(state[s], process_pending(state[s], latestImu))
  BY <1>1, ProcessingOutcome
<1>3. state'[s] = process_pending(state[s], latestImu) \/ state'[s] = state[s]
  BY DEF fill_inputs, FillInputs
<1>4. received' = received
  BY DEF fill_inputs
<1> QED
  BY <1>2, <1>3, <1>4 DEF Outcome

\* Storing a scan processes the state in which that scan is pending.
LEMMA StoreOutcome ==
    ASSUME IInv, NEW s \in Sensors, NEW f \in Frames, NEW overflows \in BOOLEAN,
           StoreHeightScan(s, f, overflows)
    PROVE  /\ received' = [received EXCEPT ![s] = received[s] + 1]
           /\ \A q \in Sensors : q # s => state'[q] = state[q]
           /\ \E st : /\ Outcome(st, state'[s])
                     /\ st.value = state[s].value /\ st.has_value = state[s].has_value
                     /\ st.pending # None /\ st.pending.cloud = received[s] + 1
<1> DEFINE n == received[s] + 1
           p == [cloud |-> n, frame |-> f, overflows |-> overflows, received |-> clock]
           st == [state[s] EXCEPT !.pending = p]
<1>1. /\ state' = [state EXCEPT ![s] = process_pending(st, latestImu)]
      /\ received' = [received EXCEPT ![s] = received[s] + 1]
  BY DEF StoreHeightScan
<1>2. Consistent(state[s], received[s], baseTSource) /\ state[s] \in HeightScanState
      /\ received[s] \in Nat /\ n \in Nat \ {0} /\ latestImu \in Orientations \cup {None}
  BY DEF IInv
<1>3. p \in PendingScan /\ p # None /\ p.cloud = n
  BY <1>2, ReceiverAssumption DEF IInv, PendingScan
<1> HIDE DEF p
<1>4. /\ st \in HeightScanState /\ st.pending = p
      /\ st.value = state[s].value /\ st.has_value = state[s].has_value
  BY <1>2, <1>3 DEF HeightScanState
<1> HIDE DEF st
<1>5. st.has_value => st.value \in Scan
  BY <1>2, <1>4 DEF Consistent, HeightScanState
<1>6. Consistent(st, n, baseTSource)
  BY <1>2, <1>3, <1>4, <1>5 DEF Consistent, Scan
<1>7. Outcome(st, process_pending(st, latestImu))
  BY <1>2, <1>6, ProcessingOutcome
<1>8. state'[s] = process_pending(st, latestImu)
  BY <1>1 DEF IInv
<1>9. \A q \in Sensors : q # s => state'[q] = state[q]
  BY <1>1 DEF IInv
<1> QED
  BY <1>1, <1>3, <1>4, <1>7, <1>8, <1>9

\* The value of a sensor changes only to a cloud newer than it, in time.
LEMMA ValueChange ==
    ASSUME IInv, [Next]_vars, NEW s \in Sensors, state'[s].value # state[s].value
    PROVE  /\ state[s].has_value => state'[s].value.cloud > state[s].value.cloud
           /\ clock - state'[s].stamp <= Timeout
<1>1. Consistent(state[s], received[s], baseTSource) /\ state[s] \in HeightScanState
      /\ received[s] \in Nat
  BY DEF IInv
<1>2. state[s].has_value => state[s].value.cloud \in Nat /\ state[s].value.cloud <= received[s]
  BY <1>1 DEF Consistent, HeightScanState, Scan
<1>3. CASE fill_inputs
  <2>1. Outcome(state[s], state'[s])
    BY <1>3, FillOutcome
  <2>2. state[s].pending.cloud = received[s]
        /\ (state[s].has_value => state[s].value.cloud < received[s])
    BY <1>1, <2>1 DEF Outcome, Consistent
  <2> QED
    BY <1>1, <1>2, <2>1, <2>2 DEF Outcome
<1>4. ASSUME NEW q \in Sensors, NEW f \in Frames, NEW overflows \in BOOLEAN,
             StoreHeightScan(q, f, overflows)
      PROVE  /\ state[s].has_value => state'[s].value.cloud > state[s].value.cloud
             /\ clock - state'[s].stamp <= Timeout
  <2>1. q = s
    BY <1>4, StoreOutcome
  <2>2. PICK st : /\ Outcome(st, state'[s])
                  /\ st.value = state[s].value /\ st.has_value = state[s].has_value
                  /\ st.pending # None /\ st.pending.cloud = received[s] + 1
    BY <1>4, <2>1, StoreOutcome
  <2>3. state'[s].value.cloud = received[s] + 1 /\ clock - state'[s].stamp <= Timeout
    BY <2>2 DEF Outcome
  <2> QED
    BY <1>1, <1>2, <2>3
<1>5. ASSUME NEW q \in Sensors, RejectHeightScan(q) PROVE FALSE
  BY <1>5 DEF RejectHeightScan, IInv, HeightScanState
<1>6. CASE \/ \E reading \in Orientations \cup {None} : update_imu(reading)
           \/ Tick \/ Rewind \/ (\E f \in Frames : TransformChange(f)) \/ UNCHANGED vars
  BY <1>6 DEF update_imu, Tick, Rewind, TransformChange, vars
<1> QED
  BY <1>3, <1>4, <1>5, <1>6 DEF Next

\* A sensor that has a scan keeps having one, and so does the caller.
LEMMA ScansStay ==
    ASSUME IInv, [Next]_vars
    PROVE  /\ \A s \in Sensors : state[s].has_value => state'[s].has_value
           /\ inputs # None => inputs' # None
<1>1. CASE fill_inputs
  <2>1. \A s \in Sensors : state[s].has_value => state'[s].has_value
    BY <1>1, FillOutcome DEF Outcome
  <2>2. inputs' = inputs \/ \E s \in Sensors : process_pending(state[s], latestImu).has_value
                                               /\ inputs' = state'[s].value
                                               /\ s \in Reached(latestImu)
    BY <1>1 DEF fill_inputs, FillInputs, Reached
  <2>3. ASSUME NEW s \in Sensors, process_pending(state[s], latestImu).has_value,
               inputs' = state'[s].value, s \in Reached(latestImu)
        PROVE  inputs' # None
    <3>1. state'[s] = process_pending(state[s], latestImu)
      BY <1>1, <2>3 DEF fill_inputs, FillInputs
    <3>2. Consistent(state'[s], received'[s], baseTSource')
      BY <1>1, FillIInv DEF IInv
    <3> QED
      BY <2>3, <3>1, <3>2 DEF Consistent
  <2> QED
    BY <2>1, <2>2, <2>3
<1>2. ASSUME NEW q \in Sensors, NEW f \in Frames, NEW overflows \in BOOLEAN,
             StoreHeightScan(q, f, overflows)
      PROVE  /\ \A s \in Sensors : state[s].has_value => state'[s].has_value
             /\ inputs' = inputs
  <2>1. \A s \in Sensors : state[s].has_value => state'[s].has_value
    BY <1>2, StoreOutcome DEF Outcome
  <2> QED
    BY <1>2, <2>1 DEF StoreHeightScan
<1>3. ASSUME NEW q \in Sensors, RejectHeightScan(q)
      PROVE  /\ \A s \in Sensors : state[s].has_value => state'[s].has_value
             /\ inputs' = inputs
  BY <1>3 DEF RejectHeightScan, IInv, HeightScanState
<1>4. CASE \/ \E reading \in Orientations \cup {None} : update_imu(reading)
           \/ Tick \/ Rewind \/ (\E f \in Frames : TransformChange(f)) \/ UNCHANGED vars
  BY <1>4 DEF update_imu, Tick, Rewind, TransformChange, vars
<1> QED
  BY <1>1, <1>2, <1>3, <1>4 DEF Next

\* When every sensor has a scan, fill_inputs succeeds.
LEMMA FillSucceeds ==
    ASSUME IInv, fill_inputs, \A s \in Sensors : state[s].has_value
    PROVE  filled'
<1>1. ASSUME NEW s \in Sensors
      PROVE  process_pending(state[s], latestImu).has_value
  <2>1. Outcome(state[s], process_pending(state[s], latestImu))
    BY ProcessingOutcome DEF IInv
  <2> QED
    BY <2>1 DEF Outcome
<1>2. \A s \in Sensors : \A r \in 1 .. (s - 1) : r \in Sensors
  BY ReceiverAssumption DEF Sensors
<1>3. Reached(latestImu) = Sensors
  BY <1>1, <1>2 DEF Reached
<1>4. {s \in Reached(latestImu) : process_pending(state[s], latestImu).has_value} = Sensors
  BY <1>1, <1>3
<1> QED
  BY <1>4 DEF fill_inputs, FillInputs

\* A consumed scan is never levelled again, nor replaced by an older cloud.
THEOREM NotRetransformed == SafetySpec => NeverRetransformed
<1>1. IInv /\ [Next]_vars =>
        [\A s \in Sensors :
            state[s].has_value /\ state'[s].value # state[s].value
                => state'[s].value.cloud > state[s].value.cloud]_vars
  BY ValueChange
<1> QED
  BY <1>1, Invariance, PTL DEF SafetySpec, NeverRetransformed

\* No scan is consumed after its wait has expired.
THEOREM InTime == SafetySpec => ConsumedInTime
<1>1. IInv /\ [Next]_vars =>
        [\A s \in Sensors :
            state'[s].value # state[s].value => clock - state'[s].stamp <= Timeout]_vars
  BY ValueChange
<1> QED
  BY <1>1, Invariance, PTL DEF SafetySpec, ConsumedInTime

-----------------------------------------------------------------------------
(* What keeps a cloud waiting *)

\* A cloud still waits for something, within its time.
WithCause(p) ==
    /\ Timeout # 0
    /\ clock - p.received <= Timeout
    /\ latestImu = None \/ Extrinsics(p.frame) = None

\* fill_inputs leaves no cloud waiting without a cause, unless it returned before
\* it got to the cloud's sensor; nor does the callback that receives a cloud.
WaitsForACause ==
    [][/\ fill_inputs => \A s \in Sensors :
            \/ state'[s].pending = None
            \/ WithCause(state'[s].pending)
            \/ \E r \in 1 .. (s - 1) : ~state'[r].has_value
       /\ \A s \in Sensors, f \in Frames, overflows \in BOOLEAN :
            StoreHeightScan(s, f, overflows) =>
                state'[s].pending = None \/ WithCause(state'[s].pending)]_vars

\* process_pending leaves a cloud only if something is missing that it waits for.
LEMMA ProcessingLeaves ==
    ASSUME NEW st \in HeightScanState, IInv
    PROVE  LET r == process_pending(st, latestImu)
           IN  r.pending = None \/ WithCause(r.pending)
<1> DEFINE p == st.pending
           r == process_pending(st, latestImu)
<1>1. CASE p = None \/ Waits(p, latestImu)
  <2>1. r = st
    BY <1>1 DEF process_pending
  <2>2. CASE p = None
    BY <2>1, <2>2
  <2>3. CASE p # None /\ Waits(p, latestImu)
    <3>1. p \in PendingScan
      BY <2>3 DEF HeightScanState
    <3>2. clock \in Nat /\ p.received \in Nat /\ Timeout \in Nat
      BY <3>1, ReceiverAssumption DEF IInv, PendingScan
    <3>3. ~Expired(p) => clock - p.received <= Timeout
      BY <3>2 DEF Expired
    <3>4. WithCause(p)
      BY <2>3, <3>3 DEF Waits, Ready, WithCause
    <3> QED
      BY <2>1, <3>4
  <2> QED
    BY <1>1, <2>2, <2>3
<1>2. CASE p # None /\ ~Waits(p, latestImu)
  <2>1. r.pending = None
    BY <1>2 DEF process_pending, HeightScanState
  <2> QED
    BY <2>1
<1> QED
  BY <1>1, <1>2

\* fill_inputs gets to every sensor before which all have a scan.
LEMMA FillReaches ==
    ASSUME IInv, fill_inputs, NEW s \in Sensors,
           \A r \in 1 .. (s - 1) : state'[r].has_value
    PROVE  state'[s] = process_pending(state[s], latestImu)
<1> DEFINE R == Reached(latestImu)
<1>1. \A r \in Sensors :
        state'[r] = IF r \in R THEN process_pending(state[r], latestImu) ELSE state[r]
  BY DEF fill_inputs, FillInputs
<1>2. \A r \in Sensors : state[r].has_value => process_pending(state[r], latestImu).has_value
  BY ProcessingOutcome DEF IInv, Outcome
<1>3. \A r \in 1 .. (s - 1) : r \in Sensors
  BY ReceiverAssumption DEF Sensors
<1>4. \A r \in 1 .. (s - 1) : process_pending(state[r], latestImu).has_value
  BY <1>1, <1>2, <1>3
<1>5. s \in R
  BY <1>4 DEF Reached
<1> QED
  BY <1>1, <1>5

\* Time alone keeps no cloud waiting: past its timeout, or with nothing missing,
\* the next fill_inputs that gets to its sensor consumes or drops it.
THEOREM NothingWaitsInVain == SafetySpec => WaitsForACause
<1>1. ASSUME IInv, fill_inputs, NEW s \in Sensors,
             \A r \in 1 .. (s - 1) : state'[r].has_value
      PROVE  state'[s].pending = None \/ WithCause(state'[s].pending)
  <2>1. state[s] \in HeightScanState
    BY <1>1 DEF IInv
  <2> QED
    BY <1>1, <2>1, FillReaches, ProcessingLeaves
<1>2. ASSUME IInv, NEW s \in Sensors, NEW f \in Frames, NEW overflows \in BOOLEAN,
             StoreHeightScan(s, f, overflows)
      PROVE  state'[s].pending = None \/ WithCause(state'[s].pending)
  <2> DEFINE p == [cloud |-> received[s] + 1, frame |-> f, overflows |-> overflows,
                   received |-> clock]
             st == [state[s] EXCEPT !.pending = p]
  <2>1. p \in PendingScan
    BY <1>2 DEF IInv, PendingScan
  <2>2. state[s] \in HeightScanState
    BY <1>2 DEF IInv
  <2>3. st \in HeightScanState
    BY <2>1, <2>2 DEF HeightScanState
  <2>4. state'[s] = process_pending(st, latestImu)
    BY <1>2 DEF IInv, StoreHeightScan
  <2> HIDE DEF st, p
  <2> QED
    BY <1>2, <2>3, <2>4, ProcessingLeaves
<1> DEFINE Step ==
        /\ fill_inputs => \A s \in Sensors :
             \/ state'[s].pending = None
             \/ WithCause(state'[s].pending)
             \/ \E r \in 1 .. (s - 1) : ~state'[r].has_value
        /\ \A s \in Sensors, f \in Frames, overflows \in BOOLEAN :
             StoreHeightScan(s, f, overflows) =>
                 state'[s].pending = None \/ WithCause(state'[s].pending)
<1>3. IInv => [Step]_vars
  BY <1>1, <1>2
<1> QED
  BY <1>3, Invariance, PTL DEF WaitsForACause

-----------------------------------------------------------------------------
(* The receiver implements NewestScan *)

\* Processing changes what waits and what is shown as NewestScan allows.
LEMMA OutcomeClouds ==
    ASSUME NEW st, NEW rt, Outcome(st, rt)
    PROVE  \/ /\ ShownCloud(rt) = ShownCloud(st)
              /\ WaitingCloud(rt) \in {0, WaitingCloud(st)}
           \/ /\ st.pending # None
              /\ ShownCloud(rt) = WaitingCloud(st)
              /\ WaitingCloud(rt) = 0
BY DEF Outcome, ShownCloud, WaitingCloud

\* The initial state maps to one of NewestScan.
LEMMA InitPromise == Init => Promise!Init
BY DEF Init, Promise!Init, WaitingCloud, ShownCloud

\* Every step maps to a step of NewestScan or leaves it unchanged.
LEMMA StepPromise == IInv /\ [Next]_vars => [Promise!Next]_Promise!vars
<1> SUFFICES ASSUME IInv, [Next]_vars PROVE [Promise!Next]_Promise!vars
  OBVIOUS
<1> DEFINE waiting == [s \in Sensors |-> WaitingCloud(state[s])]
           shown == [s \in Sensors |-> ShownCloud(state[s])]
<1>1. \A s \in Sensors : /\ Consistent(state[s], received[s], baseTSource)
                        /\ state[s] \in HeightScanState /\ received[s] \in Nat
  BY DEF IInv
<1>2. received = [s \in Sensors |-> received[s]] /\ state = [s \in Sensors |-> state[s]]
  BY DEF IInv
<1>3. CASE fill_inputs
  <2> DEFINE consumed == {s \in Sensors : /\ state[s].pending # None
                                        /\ shown'[s] = waiting[s] /\ waiting'[s] = 0}
             dropped == {s \in Sensors : waiting'[s] = 0}
  <2>1. \A s \in Sensors : \/ /\ shown'[s] = shown[s]
                              /\ waiting'[s] \in {0, waiting[s]}
                           \/ /\ state[s].pending # None
                              /\ shown'[s] = waiting[s]
                              /\ waiting'[s] = 0
    BY <1>3, FillOutcome, OutcomeClouds
  <2>2. \A s \in consumed : waiting[s] # 0
    BY <1>1 DEF HeightScanState, PendingScan, WaitingCloud
  <2>3. received' = received
    BY <1>3 DEF fill_inputs
  <2>4. shown' = [s \in Sensors |-> IF s \in consumed THEN waiting[s] ELSE shown[s]]
    <3>1. \A s \in Sensors : shown'[s] = IF s \in consumed THEN waiting[s] ELSE shown[s]
      BY <2>1
    <3> QED
      BY <3>1
  <2>5. waiting' = [s \in Sensors |-> IF s \in consumed \cup dropped THEN 0 ELSE waiting[s]]
    <3>1. \A s \in Sensors :
            waiting'[s] = IF s \in consumed \cup dropped THEN 0 ELSE waiting[s]
      BY <2>1
    <3> QED
      BY <3>1
  <2>6. consumed \in SUBSET Sensors /\ dropped \in SUBSET Sensors
    OBVIOUS
  <2> HIDE DEF consumed, dropped
  <2>7. Promise!Settle(consumed, dropped)
    BY <2>2, <2>3, <2>4, <2>5 DEF Promise!Settle
  <2> QED
    BY <2>6, <2>7 DEF Promise!Next
<1>4. ASSUME NEW s \in Sensors, NEW f \in Frames, NEW overflows \in BOOLEAN,
             StoreHeightScan(s, f, overflows)
      PROVE  Promise!Receive(s)
  <2> DEFINE n == received[s] + 1
  <2>1. PICK st : /\ Outcome(st, state'[s])
                  /\ st.value = state[s].value /\ st.has_value = state[s].has_value
                  /\ st.pending # None /\ st.pending.cloud = n
    BY <1>4, StoreOutcome
  <2>2. received' = [received EXCEPT ![s] = n] /\ \A q \in Sensors : q # s => state'[q] = state[q]
    BY <1>4, StoreOutcome
  <2>3. ShownCloud(st) = shown[s] /\ WaitingCloud(st) = n
    BY <2>1 DEF ShownCloud, WaitingCloud
  <2>4. \/ shown'[s] = shown[s] /\ waiting'[s] \in {0, n}
        \/ shown'[s] = n /\ waiting'[s] = 0
    BY <2>1, <2>3, OutcomeClouds
  <2>5. \A q \in Sensors : q # s => shown'[q] = shown[q] /\ waiting'[q] = waiting[q]
    BY <2>2
  <2> HIDE DEF n
  <2>6. CASE shown'[s] = shown[s] /\ waiting'[s] \in {0, n}
    <3>1. shown' = shown /\ waiting' = [waiting EXCEPT ![s] = waiting'[s]]
      BY <2>5, <2>6
    <3> QED
      BY <2>2, <2>6, <3>1 DEF Promise!Receive, n
  <2>7. CASE shown'[s] = n /\ waiting'[s] = 0
    <3>1. shown' = [shown EXCEPT ![s] = n] /\ waiting' = [waiting EXCEPT ![s] = 0]
      BY <2>5, <2>7
    <3> QED
      BY <2>2, <3>1 DEF Promise!Receive, n
  <2> QED
    BY <2>4, <2>6, <2>7
<1>5. ASSUME NEW s \in Sensors, RejectHeightScan(s) PROVE Promise!Receive(s)
  <2>1. /\ received' = [received EXCEPT ![s] = received[s] + 1]
        /\ state' = [state EXCEPT ![s].pending = None]
    BY <1>5 DEF RejectHeightScan
  <2>2. \A q \in Sensors : /\ shown'[q] = shown[q]
                           /\ waiting'[q] = IF q = s THEN 0 ELSE waiting[q]
    BY <1>1, <1>2, <2>1 DEF HeightScanState, ShownCloud, WaitingCloud
  <2>3. shown' = shown /\ waiting' = [waiting EXCEPT ![s] = 0]
    BY <2>2
  <2> QED
    BY <2>1, <2>3 DEF Promise!Receive
<1>6. CASE \/ \E reading \in Orientations \cup {None} : update_imu(reading)
           \/ Tick \/ Rewind \/ (\E f \in Frames : TransformChange(f)) \/ UNCHANGED vars
  <2>1. received' = received /\ state' = state
    BY <1>6 DEF update_imu, Tick, Rewind, TransformChange, vars
  <2> QED
    BY <2>1 DEF Promise!vars
<1> QED
  BY <1>3, <1>4, <1>5, <1>6 DEF Next, Promise!Next

\* Every behaviour of the receiver is one that NewestScan allows.
THEOREM Refinement == SafetySpec => KeepsPromise
BY InitPromise, StepPromise, Invariance, PTL DEF SafetySpec, KeepsPromise, Promise!Spec

-----------------------------------------------------------------------------
(* What follows from NewestScan *)

PromiseProofs ==
    INSTANCE NewestScanProofs WITH
        newest  <- received,
        waiting <- [s \in Sensors |-> WaitingCloud(state[s])],
        shown   <- [s \in Sensors |-> ShownCloud(state[s])]

\* A scan is only ever replaced by that of the newest cloud its sensor has sent,
\* whether it waited or not: store_height_scan resets the one that waits first.
NewestIsShown ==
    [][\A s \in Sensors :
         ShownCloud(state'[s]) # ShownCloud(state[s])
             => /\ ShownCloud(state'[s]) > ShownCloud(state[s])
                /\ ShownCloud(state'[s]) = received'[s]]_vars

\* The same specification under both names of NewestScan.
LEMMA SamePromise == Promise!Spec => PromiseProofs!Spec
<1>1. Promise!Init => PromiseProofs!Init
  BY DEF Promise!Init, PromiseProofs!Init
<1>2. [Promise!Next]_(Promise!vars) => [PromiseProofs!Next]_(PromiseProofs!vars)
  BY DEF Promise!Next, PromiseProofs!Next, Promise!Receive, PromiseProofs!Receive,
         Promise!Settle, PromiseProofs!Settle, Promise!vars, PromiseProofs!vars
<1> QED
  BY <1>1, <1>2, PTL DEF Promise!Spec, PromiseProofs!Spec

\* The receiver shows clouds in the order of their receipt, skipping those that a
\* newer one replaced.
THEOREM ShowsNewest == SafetySpec => NewestIsShown
<1>1. SafetySpec => PromiseProofs!Spec
  BY Refinement, SamePromise, PTL DEF KeepsPromise
<1>2. PromiseProofs!Spec => PromiseProofs!ShownInOrder
  BY PromiseProofs!ShowsNewest
<1> DEFINE shown == [s \in Sensors |-> ShownCloud(state[s])]
<1>3. [\A s \in Sensors :
         shown'[s] # shown[s] => shown'[s] > shown[s] /\ shown'[s] = received'[s]]_(PromiseProofs!vars)
      => [\A s \in Sensors :
            ShownCloud(state'[s]) # ShownCloud(state[s])
                => /\ ShownCloud(state'[s]) > ShownCloud(state[s])
                   /\ ShownCloud(state'[s]) = received'[s]]_vars
  BY DEF PromiseProofs!vars, vars, ShownCloud
<1> QED
  BY <1>1, <1>2, <1>3, PTL DEF PromiseProofs!ShownInOrder, NewestIsShown
=============================================================================
