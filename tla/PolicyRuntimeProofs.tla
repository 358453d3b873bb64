--------------------------- MODULE PolicyRuntimeProofs ---------------------------
(***************************************************************************)
(* Proofs about PolicyRuntime, for any terms, history lengths, clips,      *)
(* readings and networks.  The windows are right because a buffer is only  *)
(* ever shifted by whole runs; the states because matching by shape finds  *)
(* the partner when no two states have the same shape.                     *)
(***************************************************************************)
EXTENDS PolicyRuntime, TLAPS

\* What the last run put out is still there when the next tick takes it.
LastActed ==
    /\ raw_action = (IF Len(acted) = 0 THEN 0 ELSE acted[Len(acted)])
    /\ running => last_action = raw_action

\* The state inputs hold what was put out by the outputs matched to them.
Matched == \A i \in StateInputs : stateInput[i] = stateOutput[Match(i)]

\* The inductive invariant.
IInv ==
    /\ TypeOK
    /\ WindowOfRuns
    /\ ObservesLastAction
    /\ LastActed
    /\ Matched

-----------------------------------------------------------------------------
(* The operators *)

\* An input is matched to an output of its shape.
LEMMA MatchType ==
    ASSUME NEW i \in StateInputs
    PROVE  Match(i) \in Candidates(i)
<1>1. \E o \in Candidates(i) : \A p \in Candidates(i) : o <= p
  BY RuntimeAssumption
<1> QED
  BY <1>1 DEF Match

\* A clip of integers is an integer.
LEMMA ClippedType ==
    ASSUME NEW t \in Terms, NEW x \in Int
    PROVE  Clipped(t, x) \in Int
<1>1. ClipMin[t] \in Int /\ ClipMax[t] \in Int
  BY RuntimeAssumption
<1> QED
  BY <1>1 DEF Clipped, AtLeast, AtMost

\* A shifted buffer is as long as before and its entries are older by one.
LEMMA ShiftedEntries ==
    ASSUME TypeOK, NEW t \in Terms, NEW x \in Int
    PROVE  /\ Shifted(t, x) \in [1 .. Length[t] -> Int]
           /\ Shifted(t, x)[Length[t]] = x
           /\ \A k \in 1 .. Length[t] - 1 :
                Shifted(t, x)[k] = IF Len(observed) = 0 THEN x ELSE history[t][k + 1]
<1>1. Length[t] \in Nat /\ Length[t] > 0 /\ Len(observed) \in Nat
  BY RuntimeAssumption DEF TypeOK
<1>2. ASSUME Len(observed) = 0
      PROVE  Filled(t, x) = [k \in 1 .. Length[t] |-> x]
  BY <1>2 DEF TypeOK, Filled
<1>3. ASSUME Len(observed) > 0
      PROVE  Filled(t, x) = history[t] /\ history[t] \in [1 .. Length[t] -> Int]
  <2>1. history[t] \in [1 .. Length[t] -> Int]
    BY <1>3 DEF TypeOK
  <2>2. 1 \in DOMAIN history[t]
    BY <1>1, <2>1
  <2>3. history[t] # <<>>
    BY <2>2
  <2> QED
    BY <2>1, <2>3 DEF Filled
<1>4. Filled(t, x) \in [1 .. Length[t] -> Int]
  BY <1>2, <1>3
<1>5. Shifted(t, x) \in [1 .. Length[t] -> Int]
  BY <1>1, <1>4 DEF Shifted
<1>6. Shifted(t, x)[Length[t]] = x
  BY <1>1 DEF Shifted
<1>7. ASSUME NEW k \in 1 .. Length[t] - 1
      PROVE  Shifted(t, x)[k] = IF Len(observed) = 0 THEN x ELSE history[t][k + 1]
  <2>1. Shifted(t, x)[k] = Filled(t, x)[k + 1]
    BY <1>1 DEF Shifted
  <2>2. k + 1 \in 1 .. Length[t]
    BY <1>1
  <2>3. CASE Len(observed) = 0
    BY <1>2, <2>1, <2>2, <2>3
  <2>4. CASE Len(observed) > 0
    <3>1. ~(Len(observed) = 0)
      BY <1>1, <2>4
    <3> QED
      BY <1>3, <2>1, <2>4, <3>1
  <2> QED
    BY <1>1, <2>3, <2>4
<1> QED
  BY <1>5, <1>6, <1>7

-----------------------------------------------------------------------------
(* A run *)

\* What the terms see of a reading.
Seen(reading) ==
    [t \in Terms |-> Clipped(t, IF t = LastAction THEN last_action ELSE reading[t])]

\* A run, with what it saw named.
LEMMA RunSees ==
    ASSUME TypeOK, NEW reading \in [Terms \ {LastAction} -> Readings], run(reading)
    PROVE  /\ Seen(reading) \in [Terms -> Int]
           /\ Seen(reading)[LastAction] = Clipped(LastAction, last_action)
           /\ history' = [t \in Terms |-> Shifted(t, Seen(reading)[t])]
           /\ observed' = Append(observed, Seen(reading))
           /\ acted' = Append(acted, raw_action')
           /\ raw_action' \in Actions /\ running /\ running' = FALSE /\ last_action' = last_action
           /\ stateOutput' \in [StateOutputs -> States]
           /\ stateInput' = [i \in StateInputs |-> stateOutput'[Match(i)]]
<1>1. ASSUME NEW t \in Terms
      PROVE  (IF t = LastAction THEN last_action ELSE reading[t]) \in Int
  BY RuntimeAssumption DEF TypeOK
<1>2. Seen(reading) \in [Terms -> Int]
  BY <1>1, ClippedType DEF Seen
<1>3. Seen(reading)[LastAction] = Clipped(LastAction, last_action)
  BY RuntimeAssumption DEF Seen
<1> QED
  BY <1>2, <1>3 DEF run, Seen, FedBack

\* A run keeps the types.
LEMMA RunType ==
    ASSUME TypeOK, NEW reading \in [Terms \ {LastAction} -> Readings], run(reading)
    PROVE  TypeOK' /\ Len(observed') > 0
<1> DEFINE seen == Seen(reading)
<1>1. /\ seen \in [Terms -> Int]
      /\ history' = [t \in Terms |-> Shifted(t, seen[t])]
      /\ observed' = Append(observed, seen) /\ acted' = Append(acted, raw_action')
      /\ raw_action' \in Actions /\ running' = FALSE /\ last_action' = last_action
  BY RunSees
<1>2. /\ stateOutput' \in [StateOutputs -> States]
      /\ stateInput' = [i \in StateInputs |-> stateOutput'[Match(i)]]
  BY RunSees
<1> HIDE DEF seen
<1>3. /\ observed \in Seq([Terms -> Int]) /\ acted \in Seq(Actions)
      /\ Len(observed) = Len(acted) /\ last_action \in Actions
  BY DEF TypeOK
<1>4. observed' \in Seq([Terms -> Int]) /\ Len(observed') = Len(observed) + 1
  BY <1>1, <1>3
<1>5. acted' \in Seq(Actions) /\ Len(acted') = Len(acted) + 1
  BY <1>1, <1>3
<1>7. ASSUME NEW t \in Terms
      PROVE  history'[t] \in [1 .. Length[t] -> Int]
  <2>1. history'[t] = Shifted(t, seen[t]) /\ seen[t] \in Int
    BY <1>1
  <2> QED
    BY <2>1, ShiftedEntries
<1>8. stateInput' \in [StateInputs -> States]
  BY <1>2, MatchType DEF Candidates
<1>6. Len(observed') > 0 /\ ~(Len(observed') = 0) /\ Len(observed') = Len(acted')
  BY <1>3, <1>4, <1>5
<1>9. running' \in BOOLEAN /\ last_action' \in Actions
  BY <1>1, <1>3
<1> QED
  BY <1>1, <1>2, <1>4, <1>5, <1>7, <1>8, <1>6, <1>9 DEF TypeOK

\* A run moves every window on by one run.
LEMMA RunWindow ==
    ASSUME TypeOK, WindowOfRuns, NEW reading \in [Terms \ {LastAction} -> Readings],
           run(reading)
    PROVE  WindowOfRuns'
<1> SUFFICES ASSUME NEW t \in Terms, NEW k \in 1 .. Length[t]
             PROVE  history'[t][k] = observed'[AtLeast(Len(observed') - Length[t] + k, 1)][t]
  BY DEF WindowOfRuns, RunOf
<1> DEFINE seen == Seen(reading)
<1>1. /\ seen \in [Terms -> Int] /\ history'[t] = Shifted(t, seen[t])
      /\ observed' = Append(observed, seen)
  BY RunSees
<1> HIDE DEF seen
<1>2. Length[t] \in Nat /\ Length[t] > 0 /\ k \in Int /\ k >= 1 /\ k <= Length[t]
  BY RuntimeAssumption
<1>3. observed \in Seq([Terms -> Int]) /\ Len(observed) \in Nat
  BY DEF TypeOK
<1>4. Len(observed') = Len(observed) + 1 /\ observed'[Len(observed) + 1] = seen
  BY <1>1, <1>3
<1>5. \A n \in 1 .. Len(observed) : observed'[n] = observed[n]
  BY <1>1, <1>3
<1>6. CASE k = Length[t]
  <2>1. history'[t][k] = seen[t]
    BY <1>1, <1>6, ShiftedEntries
  <2>2. AtLeast(Len(observed') - Length[t] + k, 1) = Len(observed) + 1
    BY <1>2, <1>3, <1>4, <1>6 DEF AtLeast
  <2> QED
    BY <1>4, <2>1, <2>2
<1>7. CASE k # Length[t] /\ Len(observed) = 0
  <2>1. history'[t][k] = seen[t]
    BY <1>1, <1>2, <1>7, ShiftedEntries
  <2>2. AtLeast(Len(observed') - Length[t] + k, 1) = 1 /\ Len(observed) = 0
    BY <1>2, <1>4, <1>7 DEF AtLeast
  <2> QED
    BY <1>4, <2>1, <2>2
<1>8. CASE k # Length[t] /\ Len(observed) > 0
  <2>1. k + 1 \in 1 .. Length[t] /\ k \in 1 .. Length[t] - 1
    BY <1>2, <1>8
  <2>2. history'[t][k] = history[t][k + 1]
    BY <1>1, <1>8, <2>1, ShiftedEntries
  <2>3. history[t][k + 1] = observed[RunOf(k + 1, Length[t])][t]
    BY <1>8, <2>1 DEF WindowOfRuns
  <2>4. Len(observed) > 0
    BY <1>3, <1>8
  <2>5. /\ RunOf(k + 1, Length[t]) = AtLeast(Len(observed') - Length[t] + k, 1)
        /\ RunOf(k + 1, Length[t]) \in 1 .. Len(observed)
    <3>1. PICK n \in Nat, m \in Nat : n = Len(observed) /\ m = Length[t]
      BY <1>2, <1>3
    <3>2. /\ n - m + (k + 1) = (n + 1) - m + k
          /\ AtLeast(n - m + (k + 1), 1) \in 1 .. n
      BY <1>2, <1>8, <2>4, <3>1 DEF AtLeast
    <3> QED
      BY <1>4, <3>1, <3>2 DEF RunOf
  <2> QED
    BY <1>5, <2>2, <2>3, <2>5
<1> QED
  BY <1>6, <1>7, <1>8

\* A run observes the action that the run before it put out.
LEMMA RunObserves ==
    ASSUME TypeOK, ObservesLastAction, LastActed,
           NEW reading \in [Terms \ {LastAction} -> Readings], run(reading)
    PROVE  ObservesLastAction' /\ LastActed'
<1> DEFINE seen == Seen(reading)
<1>1. /\ seen \in [Terms -> Int] /\ seen[LastAction] = Clipped(LastAction, last_action)
      /\ observed' = Append(observed, seen) /\ acted' = Append(acted, raw_action')
      /\ raw_action' \in Actions /\ running /\ ~running'
  BY RunSees
<1> HIDE DEF seen
<1>2. /\ observed \in Seq([Terms -> Int]) /\ acted \in Seq(Actions)
      /\ Len(observed) = Len(acted) /\ Len(observed) \in Nat
  BY DEF TypeOK
<1>3. /\ Len(acted') = Len(acted) + 1 /\ acted'[Len(acted) + 1] = raw_action'
      /\ \A n \in 1 .. Len(acted) : acted'[n] = acted[n]
  BY <1>1, <1>2
<1>4. /\ Len(observed') = Len(acted) + 1 /\ observed'[Len(acted) + 1] = seen
      /\ \A n \in 1 .. Len(acted) : observed'[n] = observed[n]
  BY <1>1, <1>2
<1>5. LastActed'
  BY <1>1, <1>2, <1>3 DEF LastActed
<1>6. last_action = IF Len(acted) = 0 THEN 0 ELSE acted[Len(acted)]
  BY <1>1, <1>2 DEF LastActed
<1>7. ASSUME NEW n \in 1 .. Len(observed')
      PROVE  observed'[n][LastAction] =
                 Clipped(LastAction, IF n = 1 THEN 0 ELSE acted'[n - 1])
  <2>1. CASE n = Len(acted) + 1
    <3>1. last_action = IF n = 1 THEN 0 ELSE acted'[n - 1]
      BY <1>2, <1>3, <1>6, <2>1
    <3> QED
      BY <1>1, <1>4, <2>1, <3>1
  <2>2. CASE n # Len(acted) + 1
    <3>1. n \in 1 .. Len(acted) /\ (n # 1 => n - 1 \in 1 .. Len(acted))
      BY <1>2, <1>4, <2>2
    <3>2. observed[n][LastAction] = Clipped(LastAction, IF n = 1 THEN 0 ELSE acted[n - 1])
      BY <1>2, <3>1 DEF ObservesLastAction
    <3> QED
      BY <1>3, <1>4, <3>1, <3>2
  <2> QED
    BY <2>1, <2>2
<1>8. ObservesLastAction'
  BY <1>7 DEF ObservesLastAction, Clipped, AtLeast, AtMost
<1> QED
  BY <1>5, <1>8

-----------------------------------------------------------------------------
(* The inductive invariant *)

\* The runtime starts in the invariant.
LEMMA InitIInv == Init => IInv
<1> SUFFICES ASSUME Init
             PROVE  IInv
  OBVIOUS
<1>1. TypeOK
  <2>1. stateInput \in [StateInputs -> States] /\ stateOutput \in [StateOutputs -> States]
    BY RuntimeAssumption DEF Init
  <2>2. observed \in Seq([Terms -> Int]) /\ acted \in Seq(Actions) /\ Len(observed) = Len(acted)
    BY DEF Init
  <2> QED
    BY <2>1, <2>2, RuntimeAssumption DEF Init, TypeOK
<1>2. WindowOfRuns /\ ObservesLastAction /\ LastActed
  BY DEF Init, WindowOfRuns, ObservesLastAction, LastActed
<1>3. Matched
  BY MatchType DEF Init, Matched, Candidates
<1> QED
  BY <1>1, <1>2, <1>3 DEF IInv

\* Every step keeps the invariant.
LEMMA NextIInv == IInv /\ [Next]_vars => IInv'
<1> SUFFICES ASSUME IInv, [Next]_vars
             PROVE  IInv'
  OBVIOUS
<1>1. ASSUME NEW reading \in [Terms \ {LastAction} -> Readings], run(reading)
      PROVE  IInv'
  <2>1. TypeOK' /\ WindowOfRuns' /\ ObservesLastAction' /\ LastActed'
    BY <1>1, RunType, RunWindow, RunObserves DEF IInv
  <2>2. Matched'
    BY <1>1, RunSees DEF IInv, Matched, Match, Candidates, StateInputs, StateOutputs
  <2> QED
    BY <2>1, <2>2 DEF IInv
<1>2. CASE TakeInputs \/ EndEarly \/ UNCHANGED vars
  <2>1. /\ UNCHANGED <<raw_action, history, stateInput, stateOutput, observed, acted>>
        /\ running' \in BOOLEAN /\ last_action' \in {last_action, raw_action}
        /\ running' => last_action' = raw_action
    <3>1. CASE TakeInputs
      BY <3>1 DEF TakeInputs
    <3>2. CASE EndEarly
      BY <3>2 DEF EndEarly
    <3>3. CASE UNCHANGED vars
      BY <3>3 DEF vars, IInv, TypeOK, LastActed
    <3> QED
      BY <1>2, <3>1, <3>2, <3>3
  <2>2. TypeOK' /\ LastActed'
    BY <2>1 DEF IInv, TypeOK, LastActed
  <2>3. WindowOfRuns'
    BY <2>1 DEF IInv, WindowOfRuns, RunOf, AtLeast
  <2>4. Matched'
    BY <2>1 DEF IInv, Matched, Match, Candidates
  <2>5. ObservesLastAction'
    BY <2>1 DEF IInv, ObservesLastAction, Clipped, AtLeast, AtMost
  <2> QED
    BY <2>2, <2>3, <2>4, <2>5 DEF IInv
<1> QED
  BY <1>1, <1>2 DEF Next

\* The inductive invariant holds of every behaviour of the runtime.
THEOREM Invariance == SafetySpec => []IInv
<1> QED
  BY InitIInv, NextIInv, PTL DEF SafetySpec

-----------------------------------------------------------------------------
(* The properties *)

\* Type correctness of the buffers that OnnxPolicy::run reuses.
THEOREM TypeCorrect == SafetySpec => []TypeOK
<1>1. IInv => TypeOK
  BY DEF IInv
<1> QED
  BY <1>1, Invariance, PTL

\* ObsTerm::process gives the network the last readings, one per run.
THEOREM Windows == SafetySpec => []WindowOfRuns
<1>1. IInv => WindowOfRuns
  BY DEF IInv
<1> QED
  BY <1>1, Invariance, PTL

\* A run observes the action of the run before it, across ticks that ended early.
THEOREM LastActionObserved == SafetySpec => []ObservesLastAction
<1>1. IInv => ObservesLastAction
  BY DEF IInv
<1> QED
  BY <1>1, Invariance, PTL

\* Where each state is the first output of its shape, as it is when shapes tell the
\* states of a model apart, matching by shape feeds every state back to itself.
THEOREM StatesOfTheirOwn ==
    ASSUME \A i \in StateInputs :
              Partner[i] \in Candidates(i) /\ \A p \in Candidates(i) : Partner[i] <= p
    PROVE  SafetySpec => []StatesAreFedBack
<1>1. IInv => StatesAreFedBack
  <2>1. \A i \in StateInputs : Match(i) = Partner[i]
    <3> TAKE i \in StateInputs
    <3>1. \A o \in Candidates(i) : o \in Int
      BY DEF Candidates, StateOutputs
    <3>2. Match(i) \in Candidates(i) /\ \A p \in Candidates(i) : Match(i) <= p
      BY RuntimeAssumption DEF Match
    <3> QED
      BY <3>1, <3>2
  <2> QED
    BY <2>1 DEF IInv, Matched, StatesAreFedBack
<1> QED
  BY <1>1, Invariance, PTL

\* Two states of one shape, as the hidden and the cell state of an LSTM.
SameShapeSameState ==
    \A i, j \in StateInputs : InputShape[i] = InputShape[j] => stateInput[i] = stateInput[j]

\* Whatever the model computes, states of one shape enter every run as one: what the
\* outputs after the first of their shape put out is lost, which makes the
\* hypothesis of StatesOfTheirOwn as weak as it can be.
THEOREM OneStatePerShape == SafetySpec => []SameShapeSameState
<1>1. IInv => SameShapeSameState
  <2>1. \A i, j \in StateInputs : InputShape[i] = InputShape[j] => Match(i) = Match(j)
    BY DEF Match, Candidates
  <2> QED
    BY <2>1 DEF IInv, Matched, SameShapeSameState
<1> QED
  BY <1>1, Invariance, PTL

\* The states that the network put out last are where they belong exactly if it put
\* out the same for every state as for the first of its shape.
THEOREM FedBackByChance ==
    SafetySpec => [](StatesAreFedBack <=>
                       \A i \in StateInputs : stateOutput[Match(i)] = stateOutput[Partner[i]])
<1>1. IInv => (StatesAreFedBack <=>
                 \A i \in StateInputs : stateOutput[Match(i)] = stateOutput[Partner[i]])
  BY DEF IInv, Matched, StatesAreFedBack
<1> QED
  BY <1>1, Invariance, PTL
=============================================================================
