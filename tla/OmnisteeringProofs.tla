--------------------------- MODULE OmnisteeringProofs ---------------------------
(***************************************************************************)
(* Proofs about Omnisteering, for any wheels, limits, rate and unit of     *)
(* angle: the choice of the reference is right although only five angles   *)
(* are tried, and no joint is sent beyond its limits or faster than its    *)
(* velocity limit.  The loop over the wheels, with its exceptions, does what *)
(* one step for all of them does.                                          *)
(***************************************************************************)
EXTENDS OmnisteeringLoop, TLAPS

-----------------------------------------------------------------------------
(* feasible_reference *)

\* Adding one angle to a set keeps that a nearest one exists.
LEMMA AddOne ==
    ASSUME NEW S \in SUBSET Int, NEW p \in Int, NEW x \in Int,
           S = {} \/ \E a \in S : IsNearest(a, p, S)
    PROVE  \E a \in S \cup {x} : IsNearest(a, p, S \cup {x})
<1>1. CASE S = {}
  BY <1>1 DEF IsNearest
<1>2. CASE S # {}
  <2>1. PICK a \in S : IsNearest(a, p, S)
    BY <1>2
  <2>2. CASE Abs(x - p) < Abs(a - p) \/ (Abs(x - p) = Abs(a - p) /\ x <= a)
    <3>1. IsNearest(x, p, S \cup {x})
      BY <2>1, <2>2 DEF IsNearest, Abs
    <3> QED
      BY <3>1
  <2>3. CASE ~(Abs(x - p) < Abs(a - p) \/ (Abs(x - p) = Abs(a - p) /\ x <= a))
    <3>1. IsNearest(a, p, S \cup {x})
      BY <2>1, <2>3 DEF IsNearest, Abs
    <3> QED
      BY <3>1
  <2> QED
    BY <2>2, <2>3
<1> QED
  BY <1>1, <1>2

\* The same when the added angle counts only if it is within the limits.
LEMMA AddFeasible ==
    ASSUME NEW S \in SUBSET Int, NEW p \in Int, NEW x \in Int, NEW T,
           S = {} \/ \E a \in S : IsNearest(a, p, S),
           T = S \cup Feasible({x})
    PROVE  T = {} \/ \E a \in T : IsNearest(a, p, T)
<1>1. CASE Low <= x /\ x <= High
  <2>1. Feasible({x}) = {x}
    BY <1>1 DEF Feasible
  <2> QED
    BY <2>1, AddOne
<1>2. CASE ~(Low <= x /\ x <= High)
  <2>1. Feasible({x}) = {}
    BY <1>2 DEF Feasible
  <2>2. T = S
    BY <2>1
  <2> QED
    BY <2>2
<1> QED
  BY <1>1, <1>2

\* So for any five angles: a feasible nearest one exists if any is feasible.
LEMMA FiveAngles ==
    ASSUME NEW p \in Int, NEW x1 \in Int, NEW x2 \in Int, NEW x3 \in Int, NEW x4 \in Int,
           NEW x5 \in Int, NEW F, F = Feasible({x1, x2, x3, x4, x5}), F # {}
    PROVE  \E a \in F : IsNearest(a, p, F)
<1> DEFINE F0 == {}
           F1 == F0 \cup Feasible({x1})
           F2 == F1 \cup Feasible({x2})
           F3 == F2 \cup Feasible({x3})
           F4 == F3 \cup Feasible({x4})
           F5 == F4 \cup Feasible({x5})
<1>1. /\ F0 \in SUBSET Int /\ F1 \in SUBSET Int /\ F2 \in SUBSET Int /\ F3 \in SUBSET Int
      /\ F4 \in SUBSET Int
  BY DEF Feasible
<1>2. /\ F0 = {}
      /\ F1 = F0 \cup Feasible({x1})
      /\ F2 = F1 \cup Feasible({x2})
      /\ F3 = F2 \cup Feasible({x3})
      /\ F4 = F3 \cup Feasible({x4})
      /\ F5 = F4 \cup Feasible({x5})
  OBVIOUS
<1>3. F5 = F
  BY DEF Feasible
<1> HIDE DEF F0, F1, F2, F3, F4, F5
<1>4. F1 = {} \/ \E a \in F1 : IsNearest(a, p, F1)
  BY <1>1, <1>2, AddFeasible
<1>5. F2 = {} \/ \E a \in F2 : IsNearest(a, p, F2)
  BY <1>1, <1>2, <1>4, AddFeasible
<1>6. F3 = {} \/ \E a \in F3 : IsNearest(a, p, F3)
  BY <1>1, <1>2, <1>5, AddFeasible
<1>7. F4 = {} \/ \E a \in F4 : IsNearest(a, p, F4)
  BY <1>1, <1>2, <1>6, AddFeasible
<1>8. F5 = {} \/ \E a \in F5 : IsNearest(a, p, F5)
  BY <1>1, <1>2, <1>7, AddFeasible
<1> QED
  BY <1>3, <1>8

\* When a candidate is feasible, a nearest one exists: the CHOOSE is defined.
LEMMA HasNearest ==
    ASSUME NEW p \in Int, NEW direct \in Int,
           NEW F, F = Feasible(Candidates(direct, -2 .. 2)), F # {}
    PROVE  \E a \in F : IsNearest(a, p, F)
<1>1. Pi \in Int
  BY OmnisteeringAssumption
<1>2. Candidates(direct, -2 .. 2) =
          {direct + (-2) * Pi, direct + (-1) * Pi, direct + 0 * Pi, direct + 1 * Pi,
           direct + 2 * Pi}
  <2>1. -2 .. 2 = {-2, -1, 0, 1, 2}
    OBVIOUS
  <2> QED
    BY <2>1, Zenon DEF Candidates
<1>3. /\ direct + (-2) * Pi \in Int /\ direct + (-1) * Pi \in Int /\ direct + 0 * Pi \in Int
      /\ direct + 1 * Pi \in Int /\ direct + 2 * Pi \in Int
  BY <1>1
<1> QED
  BY <1>2, <1>3, FiveAngles, Zenon

\* What feasible_reference returns: the nearest feasible candidate, or else the
\* direct angle brought within the limits.
LEMMA Reference ==
    ASSUME NEW p \in Int, NEW d \in Int, NEW feasible,
           feasible = Feasible(Candidates(p + d, -2 .. 2))
    PROVE  /\ feasible_reference(p, d) \in Int
           /\ feasible # {} => IsNearest(feasible_reference(p, d), p, feasible)
<1>0. Pi \in Int /\ Low \in Int /\ High \in Int
  BY OmnisteeringAssumption
<1>1. CASE feasible = {}
  BY <1>0, <1>1 DEF feasible_reference, Clamp
<1>2. CASE feasible # {}
  <2>1. \E a \in feasible : IsNearest(a, p, feasible)
    BY <1>2, HasNearest
  <2>2. feasible_reference(p, d) = CHOOSE a \in feasible : IsNearest(a, p, feasible)
    BY <1>2 DEF feasible_reference
  <2>3. /\ feasible_reference(p, d) \in feasible
        /\ IsNearest(feasible_reference(p, d), p, feasible)
    BY <2>1, <2>2, Zenon
  <2>4. feasible \subseteq Int
    BY <1>0 DEF Feasible, Candidates
  <2> QED
    BY <2>3, <2>4
<1> QED
  BY <1>1, <1>2

\* A feasible candidate is at least as far as the reference.
LEMMA CandidateIsFarther ==
    ASSUME NEW p \in Int, NEW d \in Int, NEW t \in -2 .. 2,
           NEW other \in Low .. High, other = p + d + t * Pi
    PROVE  /\ feasible_reference(p, d) \in Feasible(Candidates(p + d, -2 .. 2))
           /\ Abs(feasible_reference(p, d) - p) <= Abs(other - p)
<1> DEFINE feasible == Feasible(Candidates(p + d, -2 .. 2))
<1>0. Pi \in Int /\ Low \in Int /\ High \in Int /\ t \in Int
  BY OmnisteeringAssumption
<1>1. other \in Candidates(p + d, -2 .. 2)
  BY Zenon DEF Candidates
<1>2. other \in feasible
  BY <1>0, <1>1 DEF Feasible
<1>3. IsNearest(feasible_reference(p, d), p, feasible)
  BY <1>2, Reference
<1>4. /\ feasible_reference(p, d) \in feasible
      /\ \/ Abs(feasible_reference(p, d) - p) < Abs(other - p)
         \/ Abs(feasible_reference(p, d) - p) = Abs(other - p)
  BY <1>2, <1>3, Zenon DEF IsNearest
<1>5. feasible_reference(p, d) \in Int
  BY Reference
<1>6. other \in Int
  BY <1>0
<1> QED
  BY <1>4, <1>5, <1>6 DEF Abs

\* Among the angles n half turns away from the direct one, for every n, none
\* that is feasible is nearer than the reference.
LEMMA NearestOfAllTurns ==
    ASSUME NEW p \in (Low - Pi) .. (High + Pi), NEW d \in -Pi .. Pi, NEW n \in Int,
           NEW other \in Low .. High, other = p + d + n * Pi
    PROVE  /\ feasible_reference(p, d) \in Feasible(Candidates(p + d, -2 .. 2))
           /\ Abs(feasible_reference(p, d) - p) <= Abs(other - p)
<1>0. /\ Pi \in Nat /\ Pi > 0 /\ Low \in Int /\ High \in Int
      /\ p \in Int /\ d \in Int /\ other \in Int
  BY OmnisteeringAssumption
<1>1. feasible_reference(p, d) \in Int
  BY <1>0, Reference
<1>2. CASE n \in -2 .. 2
  BY <1>0, <1>2, CandidateIsFarther
<1>3. CASE n >= 3
  <2>1. n * Pi >= 3 * Pi
    BY <1>0, <1>3
  <2>2. other >= p + 2 * Pi
    BY <1>0, <2>1
  <2>3. PICK t \in 1 .. 2 : p + Pi <= p + d + t * Pi /\ p + d + t * Pi <= p + 2 * Pi
    <3>1. CASE d >= 0
      <4>1. p + Pi <= p + d + 1 * Pi /\ p + d + 1 * Pi <= p + 2 * Pi
        BY <1>0, <3>1
      <4> QED
        BY <4>1
    <3>2. CASE d < 0
      <4>1. p + Pi <= p + d + 2 * Pi /\ p + d + 2 * Pi <= p + 2 * Pi
        BY <1>0, <3>2
      <4> QED
        BY <4>1
    <3> QED
      BY <1>0, <3>1, <3>2
  <2>4. PICK e \in Int : e = p + d + t * Pi
    BY <1>0, <2>3
  <2>5. e \in Low .. High /\ Abs(e - p) <= Abs(other - p)
    BY <1>0, <2>2, <2>3, <2>4 DEF Abs
  <2>6. t \in -2 .. 2
    BY <2>3
  <2>7. /\ feasible_reference(p, d) \in Feasible(Candidates(p + d, -2 .. 2))
        /\ Abs(feasible_reference(p, d) - p) <= Abs(e - p)
    BY <1>0, <2>4, <2>5, <2>6, CandidateIsFarther
  <2> QED
    BY <1>0, <1>1, <2>5, <2>7 DEF Abs
<1>4. CASE n <= -3
  <2>1. n * Pi <= (-3) * Pi
    BY <1>0, <1>4
  <2>2. other <= p - 2 * Pi
    BY <1>0, <2>1
  <2>3. PICK t \in -2 .. -1 : p - 2 * Pi <= p + d + t * Pi /\ p + d + t * Pi <= p - Pi
    <3>1. CASE d <= 0
      <4>1. p - 2 * Pi <= p + d + (-1) * Pi /\ p + d + (-1) * Pi <= p - Pi
        BY <1>0, <3>1
      <4> QED
        BY <4>1
    <3>2. CASE d > 0
      <4>1. p - 2 * Pi <= p + d + (-2) * Pi /\ p + d + (-2) * Pi <= p - Pi
        BY <1>0, <3>2
      <4> QED
        BY <4>1
    <3> QED
      BY <1>0, <3>1, <3>2
  <2>4. PICK e \in Int : e = p + d + t * Pi
    BY <1>0, <2>3
  <2>5. e \in Low .. High /\ Abs(e - p) <= Abs(other - p)
    BY <1>0, <2>2, <2>3, <2>4 DEF Abs
  <2>6. t \in -2 .. 2
    BY <2>3
  <2>7. /\ feasible_reference(p, d) \in Feasible(Candidates(p + d, -2 .. 2))
        /\ Abs(feasible_reference(p, d) - p) <= Abs(e - p)
    BY <1>0, <2>4, <2>5, <2>6, CandidateIsFarther
  <2> QED
    BY <1>0, <1>1, <2>5, <2>7 DEF Abs
<1> QED
  BY <1>2, <1>3, <1>4

\* A feasible candidate is within the limits and along the heading.
LEMMA CandidateIsAlong ==
    ASSUME NEW p \in Int, NEW h \in Int, NEW d \in Deltas(p, h),
           NEW a \in Feasible(Candidates(p + d, -2 .. 2))
    PROVE  a \in Low .. High /\ Along(a, h)
<1>0. Pi \in Int /\ Low \in Int /\ High \in Int
  BY OmnisteeringAssumption
<1>1. PICK s \in -2 .. 2 : p + d = h + s * 2 * Pi
  BY DEF Deltas
<1>2. PICK t \in -2 .. 2 : a = p + d + t * Pi
  BY DEF Feasible, Candidates
<1>3. d \in Int
  BY <1>0 DEF Deltas
<1>4. a = h + (2 * s + t) * Pi /\ 2 * s + t \in -6 .. 6
  BY <1>0, <1>1, <1>2, <1>3
<1>5. Along(a, h)
  BY <1>4 DEF Along
<1>6. a \in Low .. High
  BY <1>0, <1>2, <1>3 DEF Feasible
<1> QED
  BY <1>5, <1>6

\* The reference is the nearest of all the angles within the limits along the
\* heading, for every number of turns.
LEMMA NearestHeading ==
    ASSUME NEW p \in (Low - Pi) .. (High + Pi), NEW h \in Int, NEW d \in Deltas(p, h),
           NEW turn \in Int, NEW other \in Low .. High, other = h + turn * Pi
    PROVE  /\ feasible_reference(p, d) \in Low .. High
           /\ Along(feasible_reference(p, d), h)
           /\ Abs(feasible_reference(p, d) - p) <= Abs(other - p)
<1>0. Pi \in Int /\ Low \in Int /\ High \in Int /\ p \in Int /\ d \in Int /\ d \in -Pi .. Pi
  BY OmnisteeringAssumption DEF Deltas
<1>1. PICK s \in -2 .. 2 : p + d = h + s * 2 * Pi
  BY DEF Deltas
<1>2. other = p + d + (turn - 2 * s) * Pi /\ turn - 2 * s \in Int
  BY <1>0, <1>1
<1>3. /\ feasible_reference(p, d) \in Feasible(Candidates(p + d, -2 .. 2))
      /\ Abs(feasible_reference(p, d) - p) <= Abs(other - p)
  BY <1>0, <1>2, NearestOfAllTurns
<1> QED
  BY <1>0, <1>3, CandidateIsAlong

-----------------------------------------------------------------------------
(* One wheel *)

\* The next target is within the limits, one step at most from the previous
\* one brought within them.
LEMMA SteeredStep ==
    ASSUME NEW previous \in Int, NEW reference \in Int
    PROVE  /\ Steered(previous, reference) \in Low .. High
           /\ Abs(Steered(previous, reference) - Clamp(previous, Low, High)) <= MaxStep
  BY OmnisteeringAssumption DEF Steered, Clamp, Abs

\* Every position that can be measured is an integer angle.
LEMMA PositionsAreInt == Positions \subseteq Int
<1>1. Low - Pi \in Int /\ High + Pi \in Int
  BY OmnisteeringAssumption
<1>2. (Low - Pi) .. (High + Pi) \subseteq Int
  BY <1>1
<1> QED
  BY <1>2, OmnisteeringAssumption

\* The same of whatever a wheel may be staged to, and the drive's direction.
LEMMA StagedWheel ==
    ASSUME TypeOK, NEW w \in Wheels, NEW r \in Staged(w)
    PROVE  /\ Previous(w) \in Int
           /\ r[1] \in Low .. High
           /\ r[2] \in {-1, 0, 1}
           /\ Abs(r[1] - Clamp(Previous(w), Low, High)) <= MaxStep
<1>0. Pi \in Int /\ Low \in Int /\ High \in Int
  BY OmnisteeringAssumption
<1>1. position[w] \in Int /\ target[w] \in Int
  <2>1. position[w] \in Positions /\ target[w] \in Int
    BY DEF TypeOK
  <2> QED
    BY <2>1, PositionsAreInt
<1>2. Previous(w) \in Int
  BY <1>1 DEF Previous
<1>3. CASE heading[w] = Still
  <2>1. r = <<Steered(Previous(w), Previous(w)), 0>>
    BY <1>3 DEF Staged
  <2> QED
    BY <1>2, <2>1, SteeredStep
<1>4. CASE heading[w] # Still
  <2>1. PICK d \in Deltas(position[w], heading[w]) :
            r = <<Steered(Previous(w), feasible_reference(position[w], d)), Rolling(d)>>
    BY <1>4 DEF Staged
  <2>2. d \in Int
    BY <1>0 DEF Deltas
  <2>3. feasible_reference(position[w], d) \in Int
    BY <1>1, <2>2, Reference
  <2>4. Rolling(d) \in {-1, 0, 1}
    BY DEF Rolling
  <2> QED
    BY <1>2, <2>1, <2>3, <2>4, SteeredStep
<1> QED
  BY <1>3, <1>4

-----------------------------------------------------------------------------
(* The inductive invariant *)

\* What was sent is what the next run counts from.
SentIsTarget == q_des = target

IInv == TypeOK /\ WithinLimits /\ SentIsTarget

\* What a run of the term does to each wheel.
LEMMA ProcessStep ==
    ASSUME IInv, process
    PROVE  /\ q_des' = target' /\ target' \in [Wheels -> Int] /\ drive' \in [Wheels -> {-1, 0, 1}]
           /\ \A w \in Wheels :
                /\ q_des'[w] \in Low .. High
                /\ Previous(w) \in Int
                /\ Abs(q_des'[w] - Clamp(Previous(w), Low, High)) <= MaxStep
<1>1. PICK staged \in [Wheels -> UNION {Staged(w) : w \in Wheels}] :
         /\ \A w \in Wheels : staged[w] \in Staged(w)
         /\ target' = [w \in Wheels |-> staged[w][1]]
         /\ drive' = [w \in Wheels |-> staged[w][2]]
  BY DEF process
<1>2. q_des' = target'
  BY DEF process
<1>3. ASSUME NEW w \in Wheels
      PROVE  /\ staged[w][1] \in Low .. High
             /\ staged[w][2] \in {-1, 0, 1}
             /\ Previous(w) \in Int
             /\ Abs(staged[w][1] - Clamp(Previous(w), Low, High)) <= MaxStep
  <2>1. staged[w] \in Staged(w)
    BY <1>1
  <2> QED
    BY <2>1, StagedWheel DEF IInv
<1>4. \A w \in Wheels : staged[w][1] \in Int
  <2> SUFFICES ASSUME NEW w \in Wheels
               PROVE  staged[w][1] \in Int
    OBVIOUS
  <2>1. staged[w][1] \in Low .. High
    BY <1>3
  <2>2. Low \in Int /\ High \in Int
    BY OmnisteeringAssumption
  <2> QED
    BY <2>1, <2>2
<1>5. target' \in [Wheels -> Int] /\ drive' \in [Wheels -> {-1, 0, 1}]
  BY <1>1, <1>3, <1>4
<1> QED
  BY <1>1, <1>2, <1>3, <1>5

\* The term starts in the invariant.
LEMMA InitIInv == Init => IInv
<1> SUFFICES ASSUME Init
             PROVE  IInv
  OBVIOUS
<1>1. TypeOK
  <2>1. heading \in [Wheels -> Headings \cup {Still}]
    BY DEF Init
  <2>2. target \in [Wheels -> Int] /\ q_des \in [Wheels -> Int]
    BY DEF Init
  <2>3. drive \in [Wheels -> {-1, 0, 1}]
    BY DEF Init
  <2> QED
    BY <2>1, <2>2, <2>3 DEF Init, TypeOK
<1>2. WithinLimits /\ SentIsTarget
  BY DEF Init, WithinLimits, SentIsTarget
<1> QED
  BY <1>1, <1>2 DEF IInv

\* Every step keeps the invariant.
LEMMA NextIInv == IInv /\ [Next]_vars => IInv'
<1> SUFFICES ASSUME IInv, [Next]_vars
             PROVE  IInv'
  OBVIOUS
<1> USE DEF IInv
<1>1. CASE process
  <2>1. TypeOK'
    BY <1>1, ProcessStep DEF process, TypeOK
  <2>2. WithinLimits' /\ SentIsTarget'
    BY <1>1, ProcessStep, OmnisteeringAssumption DEF WithinLimits, SentIsTarget
  <2> QED
    BY <2>1, <2>2
<1>2. ASSUME NEW w \in Wheels, Follow(w)
      PROVE  IInv'
  BY <1>2 DEF Follow, TypeOK, WithinLimits, SentIsTarget
<1>3. ASSUME NEW w \in Wheels, Push(w)
      PROVE  IInv'
  BY <1>3 DEF Push, TypeOK, WithinLimits, SentIsTarget
<1>4. CASE NewCommand
  BY <1>4 DEF NewCommand, TypeOK, WithinLimits, SentIsTarget
<1>5. CASE NewFaults
  BY <1>5 DEF NewFaults, TypeOK, WithinLimits, SentIsTarget
<1>6. CASE Restart
  BY <1>6 DEF Restart, TypeOK, WithinLimits, SentIsTarget
<1>7. CASE UNCHANGED vars
  BY <1>7 DEF vars, TypeOK, WithinLimits, SentIsTarget
<1> QED
  BY <1>1, <1>2, <1>3, <1>4, <1>5, <1>6, <1>7 DEF Next

\* The inductive invariant holds in every behaviour of the term.
THEOREM Invariance == SafetySpec => []IInv
<1>1. Init => IInv
  BY InitIInv
<1>2. IInv /\ [Next]_vars => IInv'
  BY NextIInv
<1> QED
  BY <1>1, <1>2, PTL DEF SafetySpec

\* The state keeps its types.
THEOREM TypeCorrect == SafetySpec => []TypeOK
<1>1. IInv => TypeOK
  BY DEF IInv
<1> QED
  BY <1>1, Invariance, PTL

\* No steering joint is sent beyond its limits, wherever it was measured.
THEOREM Limits == SafetySpec => []WithinLimits
<1>1. IInv => WithinLimits
  BY DEF IInv
<1> QED
  BY <1>1, Invariance, PTL

\* The reference of a wheel that moves is the nearest of all the angles along
\* its heading that are within the limits, for every number of turns.
THEOREM NearestOfAll == SafetySpec => [](NearestAmong(Int) /\ ReferenceIsNearest)
<1>1. ASSUME TypeOK, NEW turns \in SUBSET Int
      PROVE  NearestAmong(turns)
  <2>1. SUFFICES ASSUME NEW w \in Wheels, heading[w] # Still,
                        NEW d \in Deltas(position[w], heading[w]), NEW turn \in turns,
                        heading[w] + turn * Pi \in Low .. High
                 PROVE  LET reference == feasible_reference(position[w], d)
                            other     == heading[w] + turn * Pi
                        IN  /\ reference \in Low .. High
                            /\ Along(reference, heading[w])
                            /\ Abs(reference - position[w]) <= Abs(other - position[w])
    BY DEF NearestAmong
  <2>2. PICK other \in Low .. High : other = heading[w] + turn * Pi
    BY <2>1
  <2>3. position[w] \in (Low - Pi) .. (High + Pi) /\ heading[w] \in Int
    BY <1>1, <2>1, OmnisteeringAssumption DEF TypeOK
  <2>4. turn \in Int
    OBVIOUS
  <2> QED
    BY <2>2, <2>3, <2>4, NearestHeading
<1>2. IInv => NearestAmong(Int) /\ ReferenceIsNearest
  <2>1. -4 .. 4 \in SUBSET Int
    OBVIOUS
  <2> QED
    BY <1>1, <2>1 DEF IInv, ReferenceIsNearest
<1> QED
  BY <1>2, Invariance, PTL

\* Between two runs of a started policy the commanded angle moves by at most
\* what the velocity limit allows.
THEOREM Rate == SafetySpec => RateLimited
<1>1. IInv /\ [Next]_vars =>
          [initialized /\ step # 0
              => \A w \in Wheels : Abs(q_des'[w] - q_des[w]) <= MaxStep]_vars
  <2> SUFFICES ASSUME IInv, Next, initialized, step # 0, NEW w \in Wheels
               PROVE  Abs(q_des'[w] - q_des[w]) <= MaxStep
    OBVIOUS
  <2>1. CASE process
    <3>1. Previous(w) = q_des[w] /\ q_des[w] \in Int /\ Low <= q_des[w] /\ q_des[w] <= High
      BY DEF IInv, TypeOK, WithinLimits, SentIsTarget, Previous
    <3>2. Clamp(Previous(w), Low, High) = q_des[w]
      BY <3>1, OmnisteeringAssumption DEF Clamp
    <3> QED
      BY <2>1, <3>2, ProcessStep
  <2>2. CASE q_des' = q_des
    <3>1. q_des[w] \in Int
      BY DEF IInv, TypeOK
    <3> QED
      BY <2>2, <3>1, OmnisteeringAssumption DEF Abs
  <2> QED
    BY <2>1, <2>2 DEF Next, Follow, Push, NewCommand, NewFaults, Restart
<1> QED
  BY <1>1, Invariance, PTL DEF SafetySpec, RateLimited

\* The first run, and the first after a restart, starts from the measurement.
THEOREM Start == SafetySpec => StartsFromMeasurement
<1>1. IInv /\ [Next]_vars =>
          [step = 0 /\ step' # 0
              => \A w \in Wheels :
                   Abs(q_des'[w] - Clamp(position[w], Low, High)) <= MaxStep]_vars
  <2> SUFFICES ASSUME IInv, Next, step = 0, step' # 0, NEW w \in Wheels
               PROVE  Abs(q_des'[w] - Clamp(position[w], Low, High)) <= MaxStep
    OBVIOUS
  <2>1. process
    BY DEF Next, Follow, Push, NewCommand, NewFaults, Restart
  <2>2. Previous(w) = position[w]
    BY DEF Previous
  <2> QED
    BY <2>1, <2>2, ProcessStep
<1> QED
  BY <1>1, Invariance, PTL DEF SafetySpec, StartsFromMeasurement

-----------------------------------------------------------------------------
(* The steps by which a heading is reached and kept *)

\* The joint stands where it was sent, n half turns from heading h, and rolls
\* forwards if n is even and backwards if it is odd.
Arrived(w, h) ==
    /\ initialized /\ step # 0
    /\ position[w] = target[w]
    /\ \E n \in Int : \/ position[w] = h + n * 2 * Pi /\ drive[w] = 1
                      \/ position[w] = h + (2 * n + 1) * Pi /\ drive[w] = -1

\* A wheel that has arrived stays so and rolls along its heading, however often
\* the term runs, until it is pushed, gets another heading or the policy starts
\* over.
StandsFirm ==
    [][\A w \in Wheels, h \in Headings :
          Arrived(w, h) /\ heading[w] = h /\ heading' = heading /\ pushes' = pushes
              /\ restarts' = restarts
            => RollsAlong(w, h) /\ Arrived(w, h)']_vars

\* Some angle within the limits is along the heading of the wheel.
Followable(w) ==
    heading[w] # Still /\ \E turn \in Int : heading[w] + turn * Pi \in Low .. High

\* The next target is at the reference, or nearer to it by a whole step.
Nearer(w) ==
    \E d \in Deltas(position[w], heading[w]) :
        LET reference == feasible_reference(position[w], d) IN
        /\ reference \in Low .. High /\ Along(reference, heading[w])
        /\ \/ target'[w] = reference
           \/ Abs(target'[w] - reference) = Abs(target[w] - reference) - MaxStep

\* A run brings the target of a moving wheel to the reference, or nearer to it
\* by the whole of what the velocity limit allows.
Nears ==
    [][process /\ initialized /\ step # 0
         => \A w \in Wheels : Followable(w) => Nearer(w)]_vars

\* Integer division leaves the only remainder within the divisor.
LEMMA Remainder ==
    ASSUME NEW m \in Nat \ {0}, NEW q \in Int, NEW r \in 0 .. (m - 1), NEW a \in Int,
           a = q * m + r
    PROVE  a % m = r
  OBVIOUS

\* A wheel that has arrived rolls along the heading, as Converges asks for.
LEMMA ArrivedRolls ==
    ASSUME NEW w \in Wheels, NEW h \in Headings, position[w] \in Int, Arrived(w, h)
    PROVE  RollsAlong(w, h)
<1>0. Pi \in Nat \ {0} /\ h \in Int
  BY OmnisteeringAssumption
<1>1. PICK n \in Int : \/ position[w] = h + n * 2 * Pi /\ drive[w] = 1
                       \/ position[w] = h + (2 * n + 1) * Pi /\ drive[w] = -1
  BY DEF Arrived
<1>2. PICK a \in Int : a = position[w] - h
  <2>1. position[w] - h \in Int
    BY <1>0
  <2> QED
    BY <2>1
<1>3. PICK m \in Nat \ {0} : m = 2 * Pi
  <2>1. 2 * Pi \in Nat \ {0}
    BY <1>0
  <2> QED
    BY <2>1
<1>4. 0 \in 0 .. (Pi - 1) /\ 0 \in 0 .. (m - 1) /\ Pi \in 0 .. (m - 1)
  BY <1>0, <1>3
<1>5. CASE position[w] = h + n * 2 * Pi /\ drive[w] = 1
  <2>1. PICK k \in Int : k = 2 * n /\ a = k * Pi + 0
    <3>1. 2 * n \in Int /\ a = (2 * n) * Pi + 0
      BY <1>0, <1>2, <1>5
    <3> QED
      BY <3>1
  <2>2. a % Pi = 0
    BY <1>0, <1>4, <2>1, Remainder
  <2>3. a = n * m + 0
    BY <1>0, <1>2, <1>3, <1>5
  <2>4. a % m = 0
    BY <1>4, <2>3, Remainder
  <2> QED
    BY <1>2, <1>3, <1>5, <2>2, <2>4, Zenon DEF RollsAlong
<1>6. CASE position[w] = h + (2 * n + 1) * Pi /\ drive[w] = -1
  <2>1. PICK k \in Int : k = 2 * n + 1 /\ a = k * Pi + 0
    <3>1. 2 * n + 1 \in Int /\ a = (2 * n + 1) * Pi + 0
      BY <1>0, <1>2, <1>6
    <3> QED
      BY <3>1
  <2>2. a % Pi = 0
    BY <1>0, <1>4, <2>1, Remainder
  <2>3. a = n * m + Pi
    BY <1>0, <1>2, <1>3, <1>6
  <2>4. a % m = Pi
    BY <1>4, <2>3, Remainder
  <2>5. Pi # 0
    BY <1>0
  <2> QED
    BY <1>2, <1>3, <1>6, <2>2, <2>4, <2>5, Zenon DEF RollsAlong
<1> QED
  BY <1>1, <1>5, <1>6

\* From p, an even number of half turns from h, the direct angle is p itself; an
\* odd number, the opposite of p.
StandingTurn(p, d, h) ==
    \/ d = 0 /\ \E s \in Int : p = h + s * 2 * Pi
    \/ d \in {-Pi, Pi} /\ \E s \in Int : p = h + (2 * s + 1) * Pi

\* An angle that is along the heading is its own reference.
LEMMA StandingReference ==
    ASSUME NEW p \in Low .. High, NEW h \in Int, NEW d \in Deltas(p, h), NEW n \in Int,
           p = h + n * Pi
    PROVE  feasible_reference(p, d) = p /\ StandingTurn(p, d, h)
<1>0. Pi \in Nat /\ Pi > 0 /\ Low \in Int /\ High \in Int /\ p \in Int /\ d \in -Pi .. Pi
  BY OmnisteeringAssumption DEF Deltas
<1>1. PICK s \in -2 .. 2 : p + d = h + s * 2 * Pi
  BY DEF Deltas
<1>2. d = (2 * s - n) * Pi
  BY <1>0, <1>1
<1>3. 2 * s - n \in {-1, 0, 1}
  <2>1. PICK m \in Int : m = 2 * s - n
    <3>1. 2 * s - n \in Int
      OBVIOUS
    <3> QED
      BY <3>1
  <2>2. d = m * Pi
    BY <1>2, <2>1
  <2>3. CASE m >= 2
    <3>1. m * Pi >= 2 * Pi
      BY <1>0, <2>3
    <3> QED
      BY <1>0, <2>2, <3>1
  <2>4. CASE m <= -2
    <3>1. m * Pi <= (-2) * Pi
      BY <1>0, <2>4
    <3> QED
      BY <1>0, <2>2, <3>1
  <2> QED
    BY <2>1, <2>3, <2>4
<1>4. feasible_reference(p, d) = p
  <2>1. PICK t \in -2 .. 2 : p = p + d + t * Pi
    <3>1. CASE 2 * s - n = -1
      <4>1. d = (-1) * Pi
        BY <1>2, <3>1
      <4>2. p = p + d + 1 * Pi
        BY <1>0, <4>1
      <4> QED
        BY <4>2
    <3>2. CASE 2 * s - n = 0
      <4>1. d = 0 * Pi
        BY <1>2, <3>2
      <4>2. p = p + d + 0 * Pi
        BY <1>0, <4>1
      <4> QED
        BY <4>2
    <3>3. CASE 2 * s - n = 1
      <4>1. d = 1 * Pi
        BY <1>2, <3>3
      <4>2. p = p + d + (-1) * Pi
        BY <1>0, <4>1
      <4> QED
        BY <4>2
    <3> QED
      BY <1>3, <3>1, <3>2, <3>3
  <2>2. Abs(feasible_reference(p, d) - p) <= Abs(p - p)
    <3>1. p \in Int /\ d \in Int
      BY <1>0
    <3>2. \A other \in Low .. High : other = p + d + t * Pi
             => Abs(feasible_reference(p, d) - p) <= Abs(other - p)
      BY <3>1, CandidateIsFarther
    <3> QED
      BY <2>1, <3>2
  <2>3. feasible_reference(p, d) \in Int
    BY <1>0, Reference
  <2> QED
    BY <1>0, <2>2, <2>3 DEF Abs
<1>5. CASE 2 * s - n = 0
  <2>1. d = 0
    BY <1>0, <1>2, <1>5
  <2>2. p = h + s * 2 * Pi /\ s \in Int
    BY <1>0, <1>1, <2>1
  <2> QED
    BY <1>4, <2>1, <2>2 DEF StandingTurn
<1>6. CASE 2 * s - n = 1
  <2>1. d = Pi
    BY <1>0, <1>2, <1>6
  <2>2. p = h + (2 * (s - 1) + 1) * Pi /\ s - 1 \in Int
    BY <1>0, <1>1, <2>1
  <2> QED
    BY <1>4, <2>1, <2>2 DEF StandingTurn
<1>7. CASE 2 * s - n = -1
  <2>1. d = -Pi
    BY <1>0, <1>2, <1>7
  <2>2. p = h + (2 * s + 1) * Pi /\ s \in Int
    BY <1>0, <1>1, <2>1
  <2> QED
    BY <1>4, <2>1, <2>2 DEF StandingTurn
<1> QED
  BY <1>3, <1>5, <1>6, <1>7

\* A run keeps a wheel that has arrived where it is, rolling the same way.
LEMMA ProcessStands ==
    ASSUME IInv, process, NEW w \in Wheels, NEW h \in Headings, Arrived(w, h), heading[w] = h
    PROVE  Arrived(w, h)'
<1>0. Pi \in Nat /\ Pi > 0 /\ Low \in Int /\ High \in Int /\ MaxStep \in Nat /\ h \in Int
      /\ h # Still
  BY OmnisteeringAssumption
<1>1. position[w] \in Low .. High
  BY <1>0 DEF IInv, TypeOK, WithinLimits, SentIsTarget, Arrived
<1>2. PICK n \in Int : position[w] = h + n * Pi
  <2>1. PICK s \in Int : position[w] = h + s * 2 * Pi \/ position[w] = h + (2 * s + 1) * Pi
    BY DEF Arrived
  <2>2. CASE position[w] = h + s * 2 * Pi
    <3>1. position[w] = h + (s * 2) * Pi /\ s * 2 \in Int
      BY <2>2
    <3> QED
      BY <3>1
  <2>3. CASE position[w] = h + (2 * s + 1) * Pi
    <3>1. 2 * s + 1 \in Int
      OBVIOUS
    <3> QED
      BY <2>3, <3>1
  <2> QED
    BY <2>1, <2>2, <2>3
<1>3. PICK staged \in [Wheels -> UNION {Staged(v) : v \in Wheels}] :
         /\ \A v \in Wheels : staged[v] \in Staged(v)
         /\ target' = [v \in Wheels |-> staged[v][1]]
         /\ drive' = [v \in Wheels |-> staged[v][2]]
  BY DEF process
<1>4. staged[w] \in Staged(w) /\ target'[w] = staged[w][1] /\ drive'[w] = staged[w][2]
  BY <1>3
<1>5. Staged(w) = {<<Steered(Previous(w), feasible_reference(position[w], d)), Rolling(d)>> :
             d \in Deltas(position[w], heading[w])}
  BY <1>0 DEF Staged
<1>6. PICK d \in Deltas(position[w], h) :
         staged[w] = <<Steered(Previous(w), feasible_reference(position[w], d)), Rolling(d)>>
  BY <1>4, <1>5
<1>7. feasible_reference(position[w], d) = position[w] /\ StandingTurn(position[w], d, h)
  BY <1>0, <1>1, <1>2, StandingReference, Zenon
<1>8. target'[w] = position[w]
  <2>1. Previous(w) = position[w]
    BY DEF Arrived, Previous
  <2>2. Steered(position[w], position[w]) = position[w]
    BY <1>0, <1>1 DEF Steered, Clamp
  <2> QED
    BY <1>4, <1>6, <1>7, <2>1, <2>2
<1>9. drive'[w] = Rolling(d)
  BY <1>4, <1>6
<1>10. Rolling(0) = 1 /\ Rolling(-Pi) = -1 /\ Rolling(Pi) = -1
  BY <1>0 DEF Rolling, Abs
<1>11. initialized' /\ step' = 1 /\ position' = position
  BY DEF process
<1>12. \E s \in Int : \/ position'[w] = h + s * 2 * Pi /\ drive'[w] = 1
                      \/ position'[w] = h + (2 * s + 1) * Pi /\ drive'[w] = -1
  BY <1>7, <1>9, <1>10, <1>11 DEF StandingTurn
<1> QED
  BY <1>8, <1>11, <1>12 DEF Arrived

\* A wheel that has arrived stays so.
THEOREM Firm == SafetySpec => StandsFirm
<1>1. IInv /\ [Next]_vars =>
          [\A w \in Wheels, h \in Headings :
              Arrived(w, h) /\ heading[w] = h /\ heading' = heading /\ pushes' = pushes
                  /\ restarts' = restarts
                => RollsAlong(w, h) /\ Arrived(w, h)']_vars
  <2> SUFFICES ASSUME IInv, Next, NEW w \in Wheels, NEW h \in Headings, Arrived(w, h),
                      heading[w] = h, pushes' = pushes, restarts' = restarts
               PROVE  Arrived(w, h)'
    <3>1. ASSUME IInv, NEW v \in Wheels, NEW k \in Headings, Arrived(v, k)
          PROVE  RollsAlong(v, k)
      <4>1. position[v] \in Int
        BY <3>1, PositionsAreInt DEF IInv, TypeOK
      <4> QED
        BY <3>1, <4>1, ArrivedRolls
    <3> QED
      BY <3>1
  <2>1. CASE process
    BY <2>1, ProcessStands
  <2>2. ASSUME NEW v \in Wheels, Follow(v)
        PROVE  Arrived(w, h)'
    <3>1. CASE v = w
      <4>1. position[w] = q_des[w]
        BY DEF IInv, SentIsTarget, Arrived
      <4>2. PICK p \in Positions \ {position[w]} :
                (position[w] < p => p <= q_des[w]) /\ (p < position[w] => q_des[w] <= p)
        BY <2>2, <3>1 DEF Follow
      <4>3. p \in Int /\ position[w] \in Int
        BY PositionsAreInt DEF IInv, TypeOK
      <4> QED
        BY <4>1, <4>2, <4>3
    <3>2. CASE v # w
      <4>1. position'[w] = position[w]
        BY <2>2, <3>2 DEF Follow, IInv, TypeOK
      <4> QED
        BY <2>2, <4>1 DEF Follow, Arrived
    <3> QED
      BY <3>1, <3>2
  <2>3. ASSUME NEW v \in Wheels, Push(v)
        PROVE  FALSE
    <3>1. pushes \in Nat
      BY DEF IInv, TypeOK
    <3> QED
      BY <2>3, <3>1 DEF Push
  <2>4. CASE NewCommand \/ NewFaults
    BY <2>4 DEF NewCommand, NewFaults, Arrived
  <2>5. CASE Restart
    <3>1. restarts \in Nat
      BY DEF IInv, TypeOK
    <3> QED
      BY <2>5, <3>1 DEF Restart
  <2> QED
    BY <2>1, <2>2, <2>3, <2>4, <2>5 DEF Next
<1> QED
  BY <1>1, Invariance, PTL DEF SafetySpec, StandsFirm

\* One step towards a reference within the limits reaches it, or is of the
\* whole length.
LEMMA SteeredNears ==
    ASSUME NEW previous \in Low .. High, NEW reference \in Low .. High
    PROVE  \/ Steered(previous, reference) = reference
           \/ Abs(Steered(previous, reference) - reference) = Abs(previous - reference) - MaxStep
<1>1. /\ Low \in Int /\ High \in Int /\ MaxStep \in Nat
      /\ previous \in Int /\ reference \in Int
  BY OmnisteeringAssumption
<1>2. CASE reference - previous > MaxStep
  BY <1>1, <1>2 DEF Steered, Clamp, Abs
<1>3. CASE reference - previous < -MaxStep
  BY <1>1, <1>3 DEF Steered, Clamp, Abs
<1>4. CASE -MaxStep <= reference - previous /\ reference - previous <= MaxStep
  BY <1>1, <1>4 DEF Steered, Clamp
<1> QED
  BY <1>1, <1>2, <1>3, <1>4

\* Every run brings a moving wheel to its reference or nearer to it.
THEOREM Nearing == SafetySpec => Nears
<1>1. ASSUME IInv, process, initialized, step # 0, NEW w \in Wheels, Followable(w)
      PROVE  Nearer(w)
  <2>0. heading[w] # Still /\ heading[w] \in Int /\ position[w] \in (Low - Pi) .. (High + Pi)
    BY <1>1, OmnisteeringAssumption DEF Followable, IInv, TypeOK
  <2>1. PICK staged \in [Wheels -> UNION {Staged(v) : v \in Wheels}] :
           /\ \A v \in Wheels : staged[v] \in Staged(v)
           /\ target' = [v \in Wheels |-> staged[v][1]]
    BY <1>1 DEF process
  <2>2. staged[w] \in Staged(w) /\ target'[w] = staged[w][1]
    BY <2>1
  <2>3. Staged(w) = {<<Steered(Previous(w), feasible_reference(position[w], d)), Rolling(d)>> :
               d \in Deltas(position[w], heading[w])}
    BY <2>0 DEF Staged
  <2>4. PICK d \in Deltas(position[w], heading[w]) :
           staged[w] = <<Steered(Previous(w), feasible_reference(position[w], d)), Rolling(d)>>
    BY <2>2, <2>3
  <2>5. Previous(w) = target[w]
    BY <1>1 DEF Previous
  <2>6. target'[w] = Steered(target[w], feasible_reference(position[w], d))
    BY <2>2, <2>4, <2>5
  <2>7. target[w] \in Low .. High
    BY <1>1, OmnisteeringAssumption DEF IInv, TypeOK, WithinLimits, SentIsTarget
  <2>8. /\ feasible_reference(position[w], d) \in Low .. High
        /\ Along(feasible_reference(position[w], d), heading[w])
    <3>1. PICK turn \in Int : heading[w] + turn * Pi \in Low .. High
      BY <1>1 DEF Followable
    <3> QED
      BY <2>0, <3>1, NearestHeading
  <2> QED
    BY <2>6, <2>7, <2>8, SteeredNears DEF Nearer
<1>2. IInv /\ [Next]_vars =>
          [process /\ initialized /\ step # 0
             => \A w \in Wheels : Followable(w) => Nearer(w)]_vars
  BY <1>1
<1> QED
  BY <1>2, Invariance, PTL DEF SafetySpec, Nears
-----------------------------------------------------------------------------
(* The loop over the wheels *)

\* What a run has computed so far is what a run of all wheels at once may compute
\* from the state it began in, and none of these wheels has failed.
StagedRight ==
    /\ staging \in Seq(UNION {Staged(w) : w \in Wheels})
    /\ Len(staging) <= NumWheels
    /\ \A w \in 1 .. Len(staging) : w \notin faulty /\ staging[w] \in Staged(w)

\* The loop's invariant: wheels fail, and nothing else does.
LoopIInv == StagedRight /\ faulty \subseteq Wheels

\* What a wheel may get depends on the term's state only, so that nothing that
\* leaves it alone changes what has been computed.
LEMMA StagedStays == UNCHANGED vars => \A w \in Wheels : Staged(w)' = Staged(w)
  BY DEF vars, Staged, Previous

\* One more wheel is computed rightly.
LEMMA StageKeeps ==
    ASSUME StagedRight, StageWheel
    PROVE  StagedRight'
<1> DEFINE All == UNION {Staged(w) : w \in Wheels}
<1>1. PICK result \in Staged(Current) : staging' = Append(staging, result)
  BY DEF StageWheel
<1>2. Current \in Wheels /\ Current \notin faulty /\ Current = Len(staging) + 1
  BY DEF StageWheel, Current
<1>3. faulty' = faulty /\ \A w \in Wheels : Staged(w)' = Staged(w)
  BY StagedStays DEF StageWheel, vars
<1>4. All' = All
  BY <1>3 DEF Wheels
<1>5. result \in All /\ staging \in Seq(All)
  BY <1>1, <1>2 DEF StagedRight
<1> HIDE DEF All
<1>6. /\ staging' \in Seq(All)
      /\ Len(staging') = Len(staging) + 1
      /\ \A w \in 1 .. Len(staging) : staging'[w] = staging[w]
      /\ staging'[Len(staging) + 1] = result
  BY <1>1, <1>5
<1>7. NumWheels \in Nat /\ Len(staging) \in Nat /\ Len(staging) + 1 <= NumWheels
  BY <1>2, <1>5, OmnisteeringAssumption DEF Wheels
<1>8. ASSUME NEW w \in 1 .. Len(staging')
      PROVE  w \notin faulty' /\ staging'[w] \in Staged(w)'
  <2>1. w \in Wheels
    BY <1>6, <1>7, <1>8 DEF Wheels
  <2>2. CASE w = Len(staging) + 1
    BY <1>1, <1>2, <1>3, <1>6, <2>1, <2>2
  <2>3. CASE w # Len(staging) + 1
    <3>1. w \in 1 .. Len(staging)
      BY <1>6, <1>7, <1>8, <2>3
    <3>2. w \notin faulty /\ staging[w] \in Staged(w)
      BY <3>1 DEF StagedRight
    <3> QED
      BY <1>3, <1>6, <2>1, <3>1, <3>2
  <2> QED
    BY <2>2, <2>3
<1>9. staging' \in Seq(All)'
  BY <1>4, <1>6
<1>10. Len(staging') <= NumWheels
  BY <1>6, <1>7
<1> QED
  BY <1>8, <1>9, <1>10 DEF StagedRight, All

\* A run that has computed nothing is right whatever the state is.
LEMMA NothingStaged ==
    ASSUME staging' = <<>>
    PROVE  StagedRight'
<1>1. Len(staging') = 0 /\ NumWheels \in Nat
  BY OmnisteeringAssumption
<1>2. staging' \in Seq(UNION {Staged(w)' : w \in Wheels'})
  OBVIOUS
<1> QED
  BY <1>1, <1>2 DEF StagedRight

\* The loop starts with nothing computed.
LEMMA LoopStarts == LoopInit => LoopIInv
  BY OmnisteeringAssumption DEF LoopInit, Init, LoopIInv, StagedRight

\* Every step of the loop keeps what has been computed right.
LEMMA LoopKeeps == LoopIInv /\ [LoopNext]_loopVars => LoopIInv'
<1> SUFFICES ASSUME LoopIInv, [LoopNext]_loopVars
             PROVE  LoopIInv'
  OBVIOUS
<1> USE DEF LoopIInv
<1>1. CASE StageWheel
  BY <1>1, StageKeeps DEF StageWheel, vars, Wheels
<1>2. CASE Throw \/ Commit
  BY <1>2, NothingStaged DEF Throw, Commit, vars, Wheels
<1>3. CASE Between
  <2>1. faulty' \subseteq Wheels
    BY <1>3 DEF Between, Follow, Push, NewCommand, NewFaults, Restart
  <2> QED
    BY <1>3, <2>1, NothingStaged DEF Between, Wheels
<1>4. CASE UNCHANGED loopVars
  <2>1. staging' = staging /\ faulty' = faulty /\ \A w \in Wheels : Staged(w)' = Staged(w)
    BY <1>4, StagedStays DEF loopVars, vars
  <2>2. 1 .. Len(staging) \subseteq Wheels
    BY OmnisteeringAssumption DEF StagedRight, Wheels
  <2>3. (UNION {Staged(w) : w \in Wheels})' = UNION {Staged(w) : w \in Wheels}
    BY <2>1 DEF Wheels
  <2> QED
    BY <2>1, <2>2, <2>3 DEF StagedRight, Wheels
<1> QED
  BY <1>1, <1>2, <1>3, <1>4 DEF LoopNext

\* What is stored after the last wheel is one run of all wheels, none of which
\* has failed.
LEMMA CommitIsProcess ==
    ASSUME LoopIInv, Commit
    PROVE  process
<1>1. Len(staging) = NumWheels /\ 1 .. Len(staging) = Wheels
  BY DEF Commit, Wheels
<1>2. \A w \in Wheels : w \notin faulty /\ staging[w] \in Staged(w)
  BY <1>1 DEF LoopIInv, StagedRight
<1>3. faulty = {}
  BY <1>2 DEF LoopIInv
<1> DEFINE computed == [w \in Wheels |-> staging[w]]
<1>4. /\ computed \in [Wheels -> UNION {Staged(w) : w \in Wheels}]
      /\ \A w \in Wheels : computed[w] \in Staged(w)
  BY <1>2
<1>5. /\ target' = [w \in Wheels |-> computed[w][1]]
      /\ drive' = [w \in Wheels |-> computed[w][2]]
  BY DEF Commit
<1> QED
  BY <1>3, <1>4, <1>5 DEF Commit, process

\* The loop, with its exceptions, implements the term that runs all wheels in
\* one step: however many wheels are computed before one fails, nothing of them
\* is stored.
THEOREM LoopIsAtomic == LoopSpec => AllOrNothing
<1>1. LoopInit => Init
  BY DEF LoopInit
<1>2. LoopIInv /\ [LoopNext]_loopVars => [Next]_vars
  <2> SUFFICES ASSUME LoopIInv, [LoopNext]_loopVars
               PROVE  [Next]_vars
    OBVIOUS
  <2>1. CASE StageWheel \/ Throw
    BY <2>1 DEF StageWheel, Throw
  <2>2. CASE Commit
    BY <2>2, CommitIsProcess DEF Next
  <2>3. CASE Between
    BY <2>3 DEF Between, Next
  <2>4. CASE UNCHANGED loopVars
    BY <2>4 DEF loopVars
  <2> QED
    BY <2>1, <2>2, <2>3, <2>4 DEF LoopNext
<1> QED
  BY <1>1, <1>2, LoopStarts, LoopKeeps, PTL DEF LoopSpec, SafetySpec, AllOrNothing

\* What holds of the term holds of its loop: no joint is sent beyond its limits,
\* or further in one run than the velocity limit allows.
COROLLARY LoopIsLimited == LoopSpec => []WithinLimits /\ RateLimited
  BY LoopIsAtomic, Limits, Rate, PTL DEF AllOrNothing
=============================================================================
