---------------------------- MODULE ControlLoopProofs ----------------------------
(***************************************************************************)
(* What follows from ControlLoop alone, and so holds of every program that *)
(* implements it: for any sensors, joints, limits and reach.               *)
(***************************************************************************)
EXTENDS ControlLoop, TLAPS

\* Limits and reach are numbers, and what is not a number is not one.
Numeric ==
    /\ NaN \notin Int
    /\ Low \in Int /\ High \in Int
    /\ Reach \in [Positioned -> Int]

-----------------------------------------------------------------------------
(* Properties *)

\* References are sent only once every sensor has delivered.
DeliveredFirst == running => delivered = Sensors

\* A reference that is not a number stays so, and a joint that is not positioned
\* keeps the reference it was sent first.
LostForGood ==
    [][running => \A j \in Joints :
         /\ reference[j] = NaN => reference'[j] = NaN
         /\ j \notin Positioned => reference'[j] = reference[j]]_vars

\* Once the policy has failed nothing is sent any more.
SilentAfterFailure == [][ended => ended' /\ UNCHANGED <<running, reference>>]_vars

\* The references of the joints that the policy positions are from a to b.
Within(ref, a, b) == \A j \in Joints \cap Positioned : ref[j] = NaN \/ ref[j] \in a .. b

\* The robot's references are within the bounds when the first ones are sent.
StartsWithin(a, b) == [][~running /\ running' => Within(feedback, a, b)]_vars

StaysWithin(a, b) == running => Within(reference, a, b)

-----------------------------------------------------------------------------
\* Sensors do not take back what they delivered, and Send waits for all of them.
THEOREM Delivery == Spec => []DeliveredFirst
<1>1. Init => DeliveredFirst
  BY DEF Init, DeliveredFirst
<1>2. DeliveredFirst /\ [Next]_vars => DeliveredFirst'
  BY DEF DeliveredFirst, Next, Receive, Send, Fail, vars
<1> QED
  BY <1>1, <1>2, PTL DEF Spec

\* No step makes a number of what is not one, nor moves a joint that the policy
\* does not position.
THEOREM Lost == Spec => LostForGood
<1>1. [Next]_vars =>
        [running => \A j \in Joints :
           /\ reference[j] = NaN => reference'[j] = NaN
           /\ j \notin Positioned => reference'[j] = reference[j]]_vars
  BY DEF Next, Receive, Send, Fail, vars, Reaches
<1> QED
  BY <1>1, PTL DEF Spec, LostForGood

\* Failing is for good, and Send is not possible afterwards.
THEOREM Silence == Spec => SilentAfterFailure
<1>1. [Next]_vars => [ended => ended' /\ UNCHANGED <<running, reference>>]_vars
  BY DEF Next, Receive, Send, Fail, vars
<1> QED
  BY <1>1, PTL DEF Spec, SilentAfterFailure

\* From a reference between a and b, no joint reaches one beyond them, if the
\* limits are between them too.
LEMMA ReachesWithin ==
    ASSUME Numeric, NEW a \in Int, NEW b \in Int, a <= Low, High <= b,
           NEW j \in Joints \cap Positioned, NEW from, NEW to,
           from = NaN \/ from \in a .. b, Reaches(j, from, to)
    PROVE  to = NaN \/ to \in a .. b
<1>1. CASE to = NaN
  BY <1>1
<1>2. CASE to # NaN
  <2>1. /\ from # NaN
        /\ to \in (from - Reach[j]) .. (from + Reach[j])
        /\ Low <= to \/ from <= to
        /\ to <= High \/ to <= from
    BY <1>2 DEF Reaches
  <2>2. from \in Int /\ a <= from /\ from <= b /\ Reach[j] \in Int
    BY <2>1 DEF Numeric
  <2>3. to \in Int
    BY <2>1, <2>2
  <2> QED
    BY <2>1, <2>2, <2>3 DEF Numeric
<1> QED
  BY <1>1, <1>2

\* However often references are sent, no joint leaves what its limits and its first
\* reference span: bounds that hold the limits, and the references that the robot
\* feeds back before the first sending, hold every reference sent.
THEOREM WithinBounds ==
    ASSUME Numeric, NEW a \in Int, NEW b \in Int, a <= Low, High <= b
    PROVE  Spec /\ StartsWithin(a, b) => []StaysWithin(a, b)
<1>1. Init => StaysWithin(a, b)
  BY DEF Init, StaysWithin
<1>2. StaysWithin(a, b) /\ [Next]_vars /\ [~running /\ running' => Within(feedback, a, b)]_vars
        => StaysWithin(a, b)'
  <2> SUFFICES ASSUME StaysWithin(a, b), [Next]_vars,
                      [~running /\ running' => Within(feedback, a, b)]_vars
               PROVE  StaysWithin(a, b)'
    OBVIOUS
  <2>1. CASE Send
    <3>1. running' = TRUE
      BY <2>1 DEF Send
    <3> SUFFICES ASSUME NEW j \in Joints \cap Positioned
                 PROVE  reference'[j] = NaN \/ reference'[j] \in a .. b
      BY DEF StaysWithin, Within
    <3> DEFINE from == IF running THEN reference[j] ELSE feedback[j]
    <3>2. ASSUME running
          PROVE  from = NaN \/ from \in a .. b
      <4>1. from = reference[j] /\ Within(reference, a, b)
        BY <3>2 DEF StaysWithin
      <4> HIDE DEF from
      <4> QED
        BY <4>1 DEF Within
    <3>3. ASSUME ~running
          PROVE  from = NaN \/ from \in a .. b
      <4>1. from = feedback[j] /\ Within(feedback, a, b)
        BY <3>1, <3>3 DEF vars
      <4> HIDE DEF from
      <4> QED
        BY <4>1 DEF Within
    <3>4. from = NaN \/ from \in a .. b
      BY <3>2, <3>3
    <3>5. Reaches(j, from, reference'[j])
      BY <2>1 DEF Send
    <3> HIDE DEF from
    <3> QED
      BY <3>4, <3>5, ReachesWithin
  <2>2. CASE Receive \/ Fail \/ UNCHANGED vars
    BY <2>2 DEF Receive, Fail, vars, StaysWithin, Within
  <2> QED
    BY <2>1, <2>2 DEF Next
<1> QED
  BY <1>1, <1>2, PTL DEF Spec, StartsWithin
=============================================================================
