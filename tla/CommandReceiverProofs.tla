-------------------------- MODULE CommandReceiverProofs --------------------------
(***************************************************************************)
(* The command receiver keeps its invariants for every set of commands,    *)
(* every range, also one without the default, and every timeout.           *)
(***************************************************************************)
EXTENDS CommandReceiver, TLAPS

\* What holds of one command: the held value was accepted since the fallback,
\* the filter's value is made of such values, and the command was heard when
\* its stamp says, or later if the clock was set back since.
Consistent(st, accepted, heard) ==
    /\ st \in CommandState
    /\ accepted \subseteq MinCommand .. MaxCommand
    /\ st.filtered_value \in Hull({Default} \cup accepted)
    /\ st.has_value => st.value \in accepted
    /\ ~st.has_value => accepted = {} /\ st.filtered_value = Default
    /\ st.has_value => st.stamp <= heard

IInv ==
    /\ TypeOK
    /\ \A n \in Names : Consistent(state[n], targets[n], heardAt[n])
    /\ filledAt <= Elapsed
    /\ CommandInRange
    /\ HistoryDiscarded
    /\ DeadMan

-----------------------------------------------------------------------------
\* A clamped field is within the range of the metadata.
LEMMA ClampInRange ==
    ASSUME NEW v \in Int
    PROVE  Clamp(v) \in MinCommand .. MaxCommand
BY CommandAssumption DEF Clamp

\* More values have a larger hull.
LEMMA HullGrows ==
    ASSUME NEW S, NEW T, S \subseteq T
    PROVE  Hull(S) \subseteq Hull(T)
BY DEF Hull

\* An interval between two elements of a hull lies in the hull.
LEMMA HullConvex ==
    ASSUME NEW S \in SUBSET Int, NEW a \in Hull(S), NEW b \in Hull(S), NEW v \in Int, a <= v, v <= b
    PROVE  v \in Hull(S)
<1>1. PICK x \in S : x <= a
  BY DEF Hull
<1>2. PICK y \in S : b <= y
  BY DEF Hull
<1>3. x <= v /\ v <= y
  BY <1>1, <1>2 DEF Hull
<1> QED
  BY <1>1, <1>2, <1>3 DEF Hull

\* A value is in the hull of any set that has it.
LEMMA HullHolds ==
    ASSUME NEW S \in SUBSET Int, NEW v \in S
    PROVE  v \in Hull(S)
BY DEF Hull

\* What accepted commands and the default span lies within the range.
LEMMA HullInRange ==
    ASSUME NEW S \in SUBSET (MinCommand .. MaxCommand)
    PROVE  Hull({Default} \cup S) \subseteq Hull({Default, MinCommand, MaxCommand})
<1> DEFINE T == {Default, MinCommand, MaxCommand}
<1>1. T \in SUBSET Int
  BY CommandAssumption DEF Default
<1>2. \A x \in {Default} \cup S : x \in Hull(T)
  <2>1. Default \in Hull(T) /\ MinCommand \in Hull(T) /\ MaxCommand \in Hull(T)
    BY <1>1, HullHolds
  <2>2. \A x \in {Default} \cup S : x \in Hull(T)
    <3> HIDE DEF T
    <3> TAKE x \in {Default} \cup S
    <3>1. CASE x = Default
      BY <2>1, <3>1
    <3>2. CASE x \in S
      <4>1. x \in MinCommand .. MaxCommand
        BY <3>2
      <4>2. x \in Int /\ MinCommand <= x /\ x <= MaxCommand
        BY <4>1, CommandAssumption
      <4> QED
        BY <1>1, <2>1, <4>2, HullConvex
    <3> QED
      BY <3>1, <3>2
  <2> QED
    BY <2>2
<1>3. ASSUME NEW v \in Hull({Default} \cup S) PROVE v \in Hull(T)
  <2>1. PICK a, b \in {Default} \cup S : v \in Int /\ a <= v /\ v <= b
    BY DEF Hull
  <2> HIDE DEF T
  <2> QED
    BY <1>1, <1>2, <2>1, HullConvex
<1> QED
  BY <1>3

\* Every value the filter may give lies between the default and the commands
\* accepted since the fallback; without a filter it is one of them.
LEMMA FilterInHull ==
    ASSUME NEW n \in Names, state \in [Names -> CommandState], clock \in Nat,
           NEW A, NEW h, Consistent(state[n], A, h), NEW v \in Filter(n)
    PROVE  /\ v \in Hull({Default} \cup A)
           /\ FallsBack(state[n]) => v = Default
           /\ n \notin Filtered => v \in {Default} \cup A
<1> DEFINE st == state[n]
           S == {Default} \cup A
<1>1. st \in CommandState /\ S \in SUBSET Int /\ st.filtered_value \in Hull(S)
  BY CommandAssumption DEF Consistent, Default
<1>2. CASE FallsBack(st)
  BY <1>1, <1>2, HullHolds DEF Filter
<1>3. CASE ~FallsBack(st)
  <2>1. st.value \in A
    BY <1>3 DEF FallsBack, Stale, Consistent
  <2>2. st.value \in Hull(S)
    BY <1>1, <2>1, HullHolds
  <2>3. CASE n \notin Filtered
    BY <1>3, <2>1, <2>2, <2>3 DEF Filter, filter_command
  <2>4. CASE n \in Filtered
    <3>1. \/ v = st.filtered_value
          \/ v \in st.filtered_value .. st.value
          \/ v \in st.value .. st.filtered_value
      BY <1>3, <2>4 DEF Filter, filter_command
    <3>2. st.filtered_value \in Int /\ st.value \in Int
      BY <1>1 DEF CommandState
    <3>3. v \in Hull(S)
      BY <1>1, <2>2, <3>1, <3>2, HullConvex
    <3> QED
      BY <1>3, <2>4, <3>3
  <2> QED
    BY <2>3, <2>4
<1> QED
  BY <1>2, <1>3

-----------------------------------------------------------------------------
\* The receiver starts in the invariant.
LEMMA InitIInv == Init => IInv
<1> SUFFICES ASSUME Init PROVE IInv
  OBVIOUS
<1>1. Default \in Int /\ {Default} \cup {} = {Default}
  BY DEF Default
<1>2. Default \in Hull({Default} \cup {})
  BY <1>1, HullHolds
<1>3. TypeOK
  BY <1>1 DEF Init, TypeOK, CommandState
<1>4. \A n \in Names : Consistent(state[n], targets[n], heardAt[n])
  BY <1>2, <1>3 DEF Init, TypeOK, Consistent
<1>5. CommandInRange
  <2>1. {} \in SUBSET (MinCommand .. MaxCommand)
    OBVIOUS
  <2> QED
    BY <1>2, <2>1, HullInRange DEF Init, CommandInRange
<1>6. HistoryDiscarded
  BY <1>2 DEF Init, HistoryDiscarded
<1>7. DeadMan
  BY DEF Init, DeadMan
<1>8. filledAt <= Elapsed
  BY DEF Init, Elapsed
<1> QED
  BY <1>3, <1>4, <1>5, <1>6, <1>7, <1>8 DEF IInv

\* A stored command keeps the invariant.
LEMMA StoreIInv ==
    ASSUME IInv, NEW n \in Names, NEW raw \in RawCommands \cup {Malformed}, store_command(n, raw)
    PROVE  IInv'
<1> DEFINE v == Clamp(raw)
           st == [state[n] EXCEPT !.value = v, !.stamp = clock, !.has_value = TRUE]
           A == targets[n] \cup {v}
<1>1. v \in MinCommand .. MaxCommand /\ v \in Int
  BY ClampInRange, CommandAssumption DEF store_command, Sanitizes
<1>2. /\ state' = [state EXCEPT ![n] = st]
      /\ heardAt' = [heardAt EXCEPT ![n] = clock + rewound]
      /\ targets' = [targets EXCEPT ![n] = A]
      /\ messages' = messages + 1
      /\ UNCHANGED <<clock, rewinds, rewound, scanPresent, snapshotScan, command, filledAt>>
  BY DEF store_command, Elapsed, IInv, TypeOK
<1> HIDE DEF v
<1>3. Consistent(state[n], targets[n], heardAt[n]) /\ state[n] \in CommandState
      /\ clock \in Nat /\ rewound \in Nat
  BY DEF IInv, TypeOK
<1>4. /\ st \in CommandState /\ st.value = v /\ st.stamp = clock /\ st.has_value = TRUE
      /\ st.filtered_value = state[n].filtered_value
  BY <1>1, <1>3 DEF CommandState
<1>5. st.filtered_value \in Hull({Default} \cup A)
  BY <1>3, <1>4, HullGrows DEF Consistent
<1> HIDE DEF st
<1>6. Consistent(st, A, clock + rewound)
  BY <1>1, <1>3, <1>4, <1>5 DEF Consistent
<1>7. \A m \in Names : Consistent(state'[m], targets'[m], heardAt'[m])
  BY <1>2, <1>6 DEF IInv, TypeOK
<1>8. TypeOK'
  <2>1. A \in SUBSET Int
    BY <1>1 DEF IInv, TypeOK
  <2>2. \A m \in Names : ~state'[m].has_value => targets'[m] = {} /\ state'[m].filtered_value = Default
    BY <1>2, <1>4 DEF IInv, TypeOK
  <2> QED
    BY <1>2, <1>3, <1>4, <2>1, <2>2 DEF IInv, TypeOK
<1>9. CommandInRange'
  BY <1>2 DEF IInv, CommandInRange
<1>10. HistoryDiscarded'
  <2>1. \A m \in Names : targets[m] \subseteq targets'[m]
    BY <1>2 DEF IInv, TypeOK
  <2> QED
    BY <1>2, <2>1, HullGrows DEF IInv, HistoryDiscarded
<1>11. DeadMan'
  <2> SUFFICES ASSUME NEW m \in Names, command'[m] # Default
               PROVE  filledAt' - heardAt'[m] <= Timeout + rewound'
    BY DEF DeadMan
  <2>1. CASE m = n
    BY <1>2, <1>3, <2>1, CommandAssumption DEF IInv, TypeOK, Elapsed
  <2>2. CASE m # n
    BY <1>2, <2>2 DEF IInv, DeadMan, TypeOK
  <2> QED
    BY <2>1, <2>2
<1>12. filledAt' <= Elapsed'
  BY <1>2 DEF IInv, Elapsed
<1> QED
  BY <1>7, <1>8, <1>9, <1>10, <1>11, <1>12 DEF IInv

\* A control tick, filtering or falling back, keeps the invariant.
LEMMA FillIInv ==
    ASSUME IInv, fill_inputs
    PROVE  IInv'
<1> DEFINE kept(n) == IF ~FallsBack(state[n]) THEN targets[n]
                      ELSE IF state[n].has_value THEN {state[n].value} ELSE {}
<1>1. PICK filtered \in [Names -> UNION {Filter(n) : n \in Names}] :
        /\ \A n \in Names : filtered[n] \in Filter(n)
        /\ command' = filtered
        /\ state' = [n \in Names |-> Filled(state[n], filtered[n])]
        /\ targets' = [n \in Names |-> kept(n)]
        /\ snapshotScan' = scanPresent /\ filledAt' = clock + rewound
        /\ clock' = clock /\ rewinds' = rewinds /\ rewound' = rewound
        /\ messages' = messages /\ scanPresent' = scanPresent /\ heardAt' = heardAt
  BY DEF fill_inputs, Elapsed
<1>2. clock \in Nat /\ rewound \in Nat /\ Default \in Int
  BY DEF IInv, TypeOK, Default
<1>3. ASSUME NEW n \in Names
      PROVE  /\ Consistent(state'[n], targets'[n], heardAt'[n])
             /\ command'[n] \in Hull({Default} \cup targets'[n])
             /\ n \notin Filtered => command'[n] \in {Default} \cup targets'[n]
             /\ command'[n] # Default => filledAt' - heardAt'[n] <= Timeout + rewound'
  <2> DEFINE st == state[n]
             v == filtered[n]
             K == kept(n)
  <2>1. /\ state'[n] = Filled(st, v) /\ command'[n] = v /\ targets'[n] = K
        /\ heardAt'[n] = heardAt[n] /\ filledAt' = clock + rewound /\ rewound' = rewound
        /\ heardAt[n] \in Nat
    BY <1>1 DEF IInv, TypeOK
  <2>2. Consistent(st, targets[n], heardAt[n]) /\ st \in CommandState
    BY DEF IInv, TypeOK
  <2>3. /\ v \in Hull({Default} \cup targets[n])
        /\ FallsBack(st) => v = Default
        /\ n \notin Filtered => v \in {Default} \cup targets[n]
    BY <1>1, <1>2, <2>2, FilterInHull DEF IInv, TypeOK
  <2>4. v \in Int
    BY <2>3 DEF Hull
  <2>5. /\ Filled(st, v) \in CommandState
        /\ Filled(st, v).value = st.value /\ Filled(st, v).filtered_value = v
        /\ Filled(st, v).stamp = st.stamp /\ Filled(st, v).has_value = st.has_value
    BY <1>2, <2>2, <2>4 DEF Filled, CommandState
  <2>6. /\ K \subseteq MinCommand .. MaxCommand
        /\ st.has_value => st.value \in K
        /\ ~st.has_value => K = {} /\ v = Default
    <3>1. ~st.has_value => FallsBack(st)
      BY DEF FallsBack, Stale
    <3> QED
      BY <2>2, <2>3, <3>1 DEF Consistent
  <2>7. /\ v \in Hull({Default} \cup K)
        /\ n \notin Filtered => v \in {Default} \cup K
    <3>1. CASE FallsBack(st)
      <4>1. v = Default /\ {Default} \cup K \in SUBSET Int
        BY <1>2, <2>3, <2>6, <3>1, CommandAssumption
      <4> QED
        BY <4>1, HullHolds
    <3>2. CASE ~FallsBack(st)
      BY <2>3, <3>2
    <3> QED
      BY <3>1, <3>2
  <2>8. v # Default => clock + rewound - heardAt[n] <= Timeout + rewound
    <3> SUFFICES ASSUME v # Default
                 PROVE  clock + rewound - heardAt[n] <= Timeout + rewound
      OBVIOUS
    <3>1. st.has_value /\ ~(clock - st.stamp > Timeout)
      BY <2>3 DEF FallsBack, Stale
    <3>2. st.stamp \in Nat /\ st.stamp <= heardAt[n]
      BY <2>2, <3>1 DEF Consistent, CommandState
    <3> QED
      BY <1>2, <2>1, <3>1, <3>2, CommandAssumption
  <2> HIDE DEF K, v, st
  <2>9. Consistent(Filled(st, v), K, heardAt[n])
    BY <2>2, <2>5, <2>6, <2>7 DEF Consistent
  <2>10. Consistent(state'[n], targets'[n], heardAt'[n])
    BY <2>1, <2>9
  <2>11. /\ command'[n] \in Hull({Default} \cup targets'[n])
         /\ n \notin Filtered => command'[n] \in {Default} \cup targets'[n]
    BY <2>1, <2>7
  <2>12. command'[n] # Default => filledAt' - heardAt'[n] <= Timeout + rewound'
    BY <1>2, <2>1, <2>8, CommandAssumption
  <2> QED
    BY <2>10, <2>11, <2>12
<1>4. TypeOK'
  <2>1. state' \in [Names -> CommandState]
    BY <1>1, <1>3 DEF Consistent
  <2>2. command' \in [Names -> Int]
    <3>1. \A n \in Names : command'[n] \in Int
      BY <1>3 DEF Hull
    <3> QED
      BY <1>1, <3>1
  <2>3. targets' \in [Names -> SUBSET Int]
    <3>1. ASSUME NEW n \in Names PROVE targets'[n] \in SUBSET Int
      <4>1. targets'[n] \subseteq MinCommand .. MaxCommand
        BY <1>3 DEF Consistent
      <4> QED
        BY <4>1, CommandAssumption
    <3> QED
      BY <1>1, <3>1
  <2>4. \A n \in Names :
          ~state'[n].has_value => targets'[n] = {} /\ state'[n].filtered_value = Default
    BY <1>3 DEF Consistent
  <2>5. /\ clock' \in Nat /\ rewinds' \in Nat /\ rewound' \in Nat /\ messages' \in Nat
        /\ scanPresent' \in BOOLEAN /\ snapshotScan' \in BOOLEAN
        /\ filledAt' \in Nat /\ heardAt' \in [Names -> Nat]
    BY <1>1, <1>2 DEF IInv, TypeOK
  <2> QED
    BY <2>1, <2>2, <2>3, <2>4, <2>5 DEF TypeOK
<1>5. CommandInRange'
  <2>1. \A n \in Names : targets'[n] \in SUBSET (MinCommand .. MaxCommand)
    BY <1>3 DEF Consistent
  <2> QED
    BY <1>3, <2>1, HullInRange DEF CommandInRange
<1>6. HistoryDiscarded' /\ DeadMan'
  BY <1>3 DEF HistoryDiscarded, DeadMan
<1>7. filledAt' <= Elapsed'
  BY <1>1, <1>2 DEF Elapsed
<1> QED
  BY <1>3, <1>4, <1>5, <1>6, <1>7 DEF IInv

\* A clock set back leaves the time that has passed as it was.
LEMMA RewindIInv ==
    ASSUME IInv, Rewind
    PROVE  IInv'
<1>1. /\ clock' \in Nat /\ rewound' \in Nat /\ rewound <= rewound'
      /\ clock' + rewound' = clock + rewound
  BY DEF Rewind, IInv, TypeOK
<1>2. /\ rewinds' = rewinds + 1
      /\ UNCHANGED <<messages, state, scanPresent, snapshotScan, command, filledAt, heardAt,
                     targets>>
  BY DEF Rewind
<1>3. TypeOK'
  BY <1>1, <1>2 DEF IInv, TypeOK
<1>7. CommandInRange' /\ HistoryDiscarded'
  BY <1>2 DEF IInv, CommandInRange, HistoryDiscarded
<1>4. \A n \in Names : Consistent(state'[n], targets'[n], heardAt'[n])
  BY <1>2 DEF IInv
<1>5. DeadMan'
  BY <1>1, <1>2, CommandAssumption DEF IInv, TypeOK, DeadMan
<1>6. filledAt' <= Elapsed'
  BY <1>1, <1>2 DEF IInv, TypeOK, Elapsed
<1> QED
  BY <1>3, <1>4, <1>5, <1>6, <1>7 DEF IInv

\* Every step keeps the invariant.
LEMMA NextIInv == IInv /\ [Next]_vars => IInv'
<1> SUFFICES ASSUME IInv, [Next]_vars PROVE IInv'
  OBVIOUS
<1>1. ASSUME NEW n \in Names, NEW raw \in RawCommands \cup {Malformed}, store_command(n, raw)
      PROVE  IInv'
  BY <1>1, StoreIInv
<1>2. CASE fill_inputs
  BY <1>2, FillIInv
<1>3. CASE ScanArrives
  BY <1>3 DEF ScanArrives, IInv, TypeOK, CommandInRange, HistoryDiscarded, DeadMan, Elapsed
<1>4. CASE Tick
  <2>1. /\ clock' = clock + 1
        /\ UNCHANGED <<rewinds, rewound, messages, state, scanPresent, snapshotScan, command,
                       filledAt, heardAt, targets>>
    BY <1>4 DEF Tick
  <2>2. TypeOK'
    BY <2>1 DEF IInv, TypeOK
  <2>3. CommandInRange' /\ HistoryDiscarded' /\ DeadMan'
    BY <2>1 DEF IInv, CommandInRange, HistoryDiscarded, DeadMan
  <2>4. filledAt' <= Elapsed'
    BY <2>1 DEF IInv, TypeOK, Elapsed
  <2>5. \A n \in Names : Consistent(state'[n], targets'[n], heardAt'[n])
    BY <2>1 DEF IInv
  <2> QED
    BY <2>2, <2>3, <2>4, <2>5 DEF IInv
<1>5. CASE Rewind
  BY <1>5, RewindIInv
<1>6. CASE UNCHANGED vars
  BY <1>6 DEF vars, IInv, TypeOK, CommandInRange, HistoryDiscarded, DeadMan, Elapsed
<1> QED
  BY <1>1, <1>2, <1>3, <1>4, <1>5, <1>6 DEF Next

\* The inductive invariant holds in every behaviour of the command receiver.
THEOREM Invariance == SafetySpec => []IInv
BY InitIInv, NextIInv, PTL DEF SafetySpec

\* The receiver's state keeps its types.
THEOREM TypeCorrect == SafetySpec => []TypeOK
<1>1. IInv => TypeOK
  BY DEF IInv
<1> QED
  BY <1>1, Invariance, PTL

\* The policy is only ever given commands between the default and the range.
THEOREM InRange == SafetySpec => []CommandInRange
<1>1. IInv => CommandInRange
  BY DEF IInv
<1> QED
  BY <1>1, Invariance, PTL

\* A fallback discards what the filter remembered.
THEOREM FallbackDiscardsHistory == SafetySpec => []HistoryDiscarded
<1>1. IInv => HistoryDiscarded
  BY DEF IInv
<1> QED
  BY <1>1, Invariance, PTL

\* A command other than the default was heard within the timeout.
THEOREM DeadManSwitch == SafetySpec => []DeadMan
<1>1. IInv => DeadMan
  BY DEF IInv
<1> QED
  BY <1>1, Invariance, PTL
=============================================================================
