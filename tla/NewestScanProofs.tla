---------------------------- MODULE NewestScanProofs ----------------------------
(***************************************************************************)
(* What follows from NewestScan alone, and so holds of every receiver that *)
(* implements it, for any sensors.                                         *)
(***************************************************************************)
EXTENDS NewestScan, TLAPS

-----------------------------------------------------------------------------
(* Properties *)

\* Clouds are counted per sensor.
TypeOK ==
    /\ newest \in [Sensors -> Nat]
    /\ waiting \in [Sensors -> Nat]
    /\ shown \in [Sensors -> Nat]

\* The cloud that waits is the newest, and is not the one shown, which is older.
Ordered ==
    \A s \in Sensors :
        /\ waiting[s] \in {0, newest[s]}
        /\ shown[s] <= newest[s]
        /\ waiting[s] # 0 => shown[s] < waiting[s]

\* Clouds are shown in the order of their receipt, and none once a newer one has
\* been received: whatever is shown anew is the newest at that moment.
ShownInOrder ==
    [][\A s \in Sensors :
         shown'[s] # shown[s] => shown'[s] > shown[s] /\ shown'[s] = newest'[s]]_vars

-----------------------------------------------------------------------------
\* Each conjunct needs the others: what waits may be shown next.
IInv == TypeOK /\ Ordered

\* NewestScan starts in the invariant.
LEMMA InitIInv == Init => IInv
  BY DEF Init, IInv, TypeOK, Ordered

\* A cloud is received, and is newer than all before it.
LEMMA ReceiveIInv ==
    ASSUME IInv, NEW s \in Sensors, Receive(s)
    PROVE  /\ IInv'
           /\ \A q \in Sensors :
                shown'[q] # shown[q] => shown'[q] > shown[q] /\ shown'[q] = newest'[q]
<1> DEFINE n == newest[s] + 1
<1>1. n \in Nat /\ n > newest[s] /\ n # 0
  BY DEF IInv, TypeOK
<1>2. /\ newest' = [newest EXCEPT ![s] = n]
      /\ \/ shown' = [shown EXCEPT ![s] = n] /\ waiting' = [waiting EXCEPT ![s] = 0]
         \/ shown' = shown /\ waiting' = [waiting EXCEPT ![s] = 0]
         \/ shown' = shown /\ waiting' = [waiting EXCEPT ![s] = n]
  BY DEF Receive
<1> HIDE DEF n
<1>3. TypeOK'
  BY <1>1, <1>2 DEF IInv, TypeOK
<1>4. ASSUME NEW q \in Sensors
      PROVE  /\ waiting'[q] \in {0, newest'[q]}
             /\ shown'[q] <= newest'[q]
             /\ waiting'[q] # 0 => shown'[q] < waiting'[q]
             /\ shown'[q] # shown[q] => shown'[q] > shown[q] /\ shown'[q] = newest'[q]
  <2>1. /\ newest[q] \in Nat /\ shown[q] \in Nat /\ newest[s] \in Nat /\ shown[s] \in Nat
        /\ waiting[q] \in {0, newest[q]} /\ shown[q] <= newest[q] /\ shown[s] <= newest[s]
        /\ waiting[q] # 0 => shown[q] < waiting[q]
    BY DEF IInv, TypeOK, Ordered
  <2>2. CASE q = s
    BY <1>1, <1>2, <2>1, <2>2 DEF IInv, TypeOK
  <2>3. CASE q # s
    BY <1>2, <2>1, <2>3 DEF IInv, TypeOK
  <2> QED
    BY <2>2, <2>3
<1> QED
  BY <1>3, <1>4 DEF IInv, Ordered

\* What stops waiting is shown, being the newest, or dropped.
LEMMA SettleIInv ==
    ASSUME IInv, NEW consumed \in SUBSET Sensors, NEW dropped \in SUBSET Sensors,
           Settle(consumed, dropped)
    PROVE  /\ IInv'
           /\ \A q \in Sensors :
                shown'[q] # shown[q] => shown'[q] > shown[q] /\ shown'[q] = newest'[q]
<1>1. /\ \A s \in consumed : waiting[s] # 0
      /\ shown' = [s \in Sensors |-> IF s \in consumed THEN waiting[s] ELSE shown[s]]
      /\ waiting' = [s \in Sensors |-> IF s \in consumed \cup dropped THEN 0 ELSE waiting[s]]
      /\ newest' = newest
  BY DEF Settle
<1>2. TypeOK'
  BY <1>1 DEF IInv, TypeOK
<1>3. ASSUME NEW q \in Sensors
      PROVE  /\ waiting'[q] \in {0, newest'[q]}
             /\ shown'[q] <= newest'[q]
             /\ waiting'[q] # 0 => shown'[q] < waiting'[q]
             /\ shown'[q] # shown[q] => shown'[q] > shown[q] /\ shown'[q] = newest'[q]
  <2>1. /\ newest[q] \in Nat /\ shown[q] \in Nat /\ waiting[q] \in {0, newest[q]}
        /\ shown[q] <= newest[q] /\ (waiting[q] # 0 => shown[q] < waiting[q])
    BY DEF IInv, TypeOK, Ordered
  <2> QED
    BY <1>1, <2>1
<1> QED
  BY <1>2, <1>3 DEF IInv, Ordered

\* Every step keeps the invariant and the order in which clouds are shown.
LEMMA NextIInv ==
    IInv /\ [Next]_vars =>
        /\ IInv'
        /\ [\A s \in Sensors :
              shown'[s] # shown[s] => shown'[s] > shown[s] /\ shown'[s] = newest'[s]]_vars
<1>1. IInv /\ UNCHANGED vars => IInv'
  BY DEF IInv, TypeOK, Ordered, vars
<1> QED
  BY <1>1, ReceiveIInv, SettleIInv DEF Next

\* The inductive invariant holds in every behaviour of NewestScan.
LEMMA Invariance == Spec => []IInv
  BY InitIInv, NextIInv, PTL DEF Spec

\* At most the newest cloud of a sensor waits, behind an older one that is shown.
THEOREM OrderHolds == Spec => []Ordered
<1>1. IInv => Ordered
  BY DEF IInv
<1> QED
  BY <1>1, Invariance, PTL

\* What the caller is shown never goes back, and skips to the newest.
THEOREM ShowsNewest == Spec => ShownInOrder
  BY NextIInv, Invariance, PTL DEF Spec, ShownInOrder
=============================================================================
