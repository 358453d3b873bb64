-------------------------- MODULE MetadataLoadProofs --------------------------
(***************************************************************************)
(* Proofs about MetadataLoad, for any robot, metadata and model, and for   *)
(* whatever memory height_scan_size came to be in.  Names are followed     *)
(* through the maps, and sizes through the order in which they are known.  *)
(***************************************************************************)
EXTENDS MetadataLoad, FiniteSetTheorems, TLAPS

\* What an action term drives.
Wires == [term : Nat, id : Joints, wheel : Nat]

\* The size, by the metadata, of the slice of a term.
Due(k) == Elements(md.observations[k], LastOf(md.scene))

\* Types, with the sequences of the constructor as long as what it has read.
Types ==
    /\ md \in Metadata /\ stage \in Stages
    /\ thrown \in (Stages \ {"sent", "ended"}) \cup {"none"}
    /\ actuator \in 0 .. Len(md.actuators)
    /\ stiffness \in [Joints -> Int] /\ damping \in [Joints -> Int]
    /\ mapped \in 0 .. Len(md.joints)
    /\ joint_id_policy_to_robot \in [Joints -> RobotIds \cup {-1}]
    /\ parsed \in 0 .. Len(md.commands) /\ command_size \in [CommandNames -> Nat \cup {-1}]
    /\ height_scan_size \in Int /\ sensor_specs \in Seq(Nat)
    /\ read \in 0 .. Len(md.observations)
    /\ obs_terms \in Seq([config : ObsConfigs, size : Nat]) /\ Len(obs_terms) = read
    /\ obs_size \in Nat
    /\ declared \in Seq(Nat) /\ Len(declared) = read
    /\ cursor \in [term : Nat \ {0}, list : Nat \ {0}, pattern : Nat \ {0}, entry : Nat \ {0},
                   matching : Nat]
    /\ ids \in [Steering .. Wheels -> Seq(Nat \ {0})]
    /\ action_ids \in Seq(Wires)
    /\ filled \in Seq(Nat) /\ Len(filled) <= read /\ offset \in Nat
    /\ applied \in 0 .. Len(action_ids)
    /\ source \in [RobotIds -> 0 .. applied]
    /\ k_des \in [RobotIds -> Int] /\ d_des \in [RobotIds -> Int]

\* What a stage leaves to those that follow it.
Order ==
    /\ stage \notin {"gains", "ended"} /\ md.articulated => actuator = Len(md.actuators)
    /\ stage \notin {"gains", "joints", "ended"} => mapped = Len(md.joints)
    /\ stage \in {"gains", "joints", "commands"} => read = 0
    /\ stage \in {"gains", "joints", "commands", "observations"} => action_ids = <<>>
    /\ stage \in {"actions", "fill", "apply", "sent"} =>
          read = Len(md.observations) /\ obs_size = md.input_size
    /\ stage \in {"gains", "joints", "commands", "observations", "actions"} => filled = <<>> /\ offset = 0
    /\ stage \in {"apply", "sent"} => Len(filled) = read
    /\ stage \in {"gains", "joints", "commands", "observations", "actions", "fill"} => applied = 0
    /\ stage = "sent" => applied = Len(action_ids)

\* A joint has the gains of the one actuator that matches it among those read, and in an
\* older export its own.
GainsRead ==
    /\ assigned \subseteq Joints
    /\ md.articulated => \A i \in Joints :
          \/ /\ i \notin assigned /\ stiffness[i] = -1 /\ damping[i] = -1
             /\ \A a \in 1 .. actuator : md.joints[i] \notin md.actuators[a].joints
          \/ /\ i \in assigned
             /\ \E a \in 1 .. actuator :
                /\ \A b \in 1 .. actuator : md.joints[i] \in md.actuators[b].joints <=> b = a
                /\ stiffness[i] = Stiffness(md.actuators[a], i)
                /\ damping[i] = resolve_gain(md.actuators[a].damping, i)
    /\ ~md.articulated /\ stage \notin {"gains", "ended"} =>
          stiffness = md.joint_stiffness /\ damping = md.joint_damping

\* The joints that have been looked up are mapped by name, or allowed to be missing.
JointsMapped ==
    \A i \in 1 .. mapped :
        /\ joint_id_policy_to_robot[i] = RobotId(i)
        /\ RobotId(i) # -1 \/ MayMiss

\* All terms have the sizes they will have in a run, or one scan has not and the
\* sum is wrong by its error alone.
SizesRead ==
    /\ \A k \in 1 .. read : obs_terms[k].config = md.observations[k] /\ Due(k) \in Nat
    /\ \A k \in 1 .. read :
          declared[k] = (IF k = 1 THEN 0 ELSE declared[k - 1]) + Due(k)
    /\ sensor_specs = <<>> \/ LastOf(sensor_specs) = LastOf(md.scene)
    /\ \A k \in 1 .. read : md.observations[k].func = "height_scan" =>
          height_scan_size = LastOf(md.scene) /\ LastOf(sensor_specs) = LastOf(md.scene)
    /\ \/ /\ \A k \in 1 .. read : obs_terms[k].size = Due(k)
          /\ obs_size = LastOf(declared)
       \/ \E k \in 1 .. read :
             /\ md.observations[k].func = "height_scan" /\ obs_terms[k].size # Due(k)
             /\ \A j \in 1 .. read : j # k => obs_terms[j].size = Due(j)
             /\ obs_size - LastOf(declared) = obs_terms[k].size - Due(k)

\* The run has filled the first slices, as the metadata declare them.
SlicesFilled ==
    /\ \A n \in 1 .. Len(filled) : filled[n] = Due(n) /\ Readable(md.observations[n])
    /\ offset = (IF Len(filled) = 0 THEN 0 ELSE declared[Len(filled)])

\* What has been resolved for the term that is read; an omnisteering term lists nothing
\* twice.
Resolved ==
    /\ \A list \in {Steering, Drive} : \A n \in DOMAIN ids[list] : ids[list][n] \in Joints
    /\ cursor.term \in DOMAIN md.actions /\ Omnisteering =>
          \A list \in Steering .. Wheels :
             /\ \A n, m \in DOMAIN ids[list] : ids[list][n] = ids[list][m] => n = m
             /\ list # Wheels => \A n \in DOMAIN ids[list] : Listed(cursor.term, list, ids[list][n])

\* A wheel of a term that has been created has its two joints.
Wired(e) ==
    /\ \E s, d \in WheelOf(e) : WheelOf(e) = {s, d} /\ s # d /\ In(s, Steering) /\ In(d, Drive)
    /\ \A f \in TermOf(e) : action_ids[f].id = action_ids[e].id => f = e
    /\ HasRobotJoint(action_ids[e].id)

TermsWired ==
    \A e \in DOMAIN action_ids :
        /\ action_ids[e].term < cursor.term
        /\ action_ids[e].wheel # 0 => Wired(e)

\* The elements applied drive the joints they were matched for.
Driven ==
    /\ \A e \in 1 .. applied :
          LET r == joint_id_policy_to_robot[action_ids[e].id]
          IN  /\ r \in RobotIds /\ source[r] >= e
              /\ action_ids[source[r]].id = action_ids[e].id
    /\ \A r \in RobotIds : source[r] # 0 =>
          /\ joint_id_policy_to_robot[action_ids[source[r]].id] = r
          /\ k_des[r] = stiffness[action_ids[source[r]].id]
          /\ d_des[r] = damping[action_ids[source[r]].id]

\* A run throws only where the constructor allowed it.
ThrowsIfAllowed == thrown \in {"fill", "apply"} => MayMiss

\* The inductive invariant.
IInv == /\ Types /\ Order /\ GainsRead /\ JointsMapped /\ SizesRead /\ SlicesFilled
        /\ Resolved /\ TermsWired /\ Driven /\ ThrowsIfAllowed

-----------------------------------------------------------------------------
(* The operators *)

\* What the assumption says of the metadata that are loaded.
LEMMA Loaded ==
    ASSUME md \in Metadata
    PROVE  /\ md.joints \in Seq(Names) /\ md.actuators \in Seq(Actuators)
           /\ md.joint_stiffness \in Seq(Int) /\ md.joint_damping \in Seq(Int)
           /\ md.commands \in Seq(CommandConfigs) /\ md.articulated \in BOOLEAN
           /\ md.observations \in Seq(ObsConfigs) /\ md.scene \in Seq(Nat)
           /\ md.actions \in Seq(ActionConfigs)
           /\ md.input_size \in Nat /\ md.action_size \in Nat
           /\ md.allow_missing_robot_joints \in BOOLEAN
           /\ \A i, j \in Joints : md.joints[i] = md.joints[j] => i = j
           /\ \A k \in DOMAIN md.observations : \A n \in DOMAIN md.observations[k].ids :
                 md.observations[k].ids[n] \in Joints
           /\ \A t \in DOMAIN md.actions :
                 /\ md.actions[t].class = "joints" => Len(md.actions[t].expressions) = 1
                 /\ md.actions[t].class = "omnisteering" => Len(md.actions[t].expressions) = 3
           /\ Joints = 1 .. Len(md.joints)
<1>1. md \in [joints : Seq(Names), allow_missing_robot_joints : BOOLEAN,
              articulated : BOOLEAN, actuators : Seq(Actuators),
              joint_stiffness : Seq(Int), joint_damping : Seq(Int),
              commands : Seq(CommandConfigs),
              observations : Seq(ObsConfigs), scene : Seq(Nat),
              actions : Seq(ActionConfigs), input_size : Nat, action_size : Nat]
  BY MetadataAssumption
<1>2. md.joints \in Seq(Names)
  BY <1>1
<1>3. Joints = 1 .. Len(md.joints)
  BY <1>2 DEF Joints
<1>4. \A i, j \in Joints : md.joints[i] = md.joints[j] => i = j
  BY MetadataAssumption DEF Joints
<1>5. \A k \in DOMAIN md.observations : \A n \in DOMAIN md.observations[k].ids :
         md.observations[k].ids[n] \in Joints
  BY MetadataAssumption DEF Joints
<1>6. /\ md.actuators \in Seq(Actuators)
      /\ md.joint_stiffness \in Seq(Int) /\ md.joint_damping \in Seq(Int)
      /\ md.commands \in Seq(CommandConfigs) /\ md.articulated \in BOOLEAN
      /\ md.observations \in Seq(ObsConfigs) /\ md.scene \in Seq(Nat)
      /\ md.actions \in Seq(ActionConfigs)
      /\ md.input_size \in Nat /\ md.action_size \in Nat
      /\ md.allow_missing_robot_joints \in BOOLEAN
  BY <1>1
<1>7. \A t \in DOMAIN md.actions : Len(md.actions[t].expressions) =
         (CASE md.actions[t].class = "joints" -> 1
            [] md.actions[t].class = "omnisteering" -> 3
            [] OTHER -> 0)
  BY MetadataAssumption
<1> QED
  BY <1>2, <1>3, <1>4, <1>5, <1>6, <1>7

\* The last of a sequence of sizes is a size.
LEMMA LastOfType ==
    ASSUME NEW s \in Seq(Nat)
    PROVE  LastOf(s) \in Nat
  BY DEF LastOf

\* The last after another sequence was appended.
LEMMA LastOfConcat ==
    ASSUME NEW s \in Seq(Nat), NEW z \in Seq(Nat), s = <<>> \/ LastOf(s) = LastOf(z)
    PROVE  LastOf(s \o z) = LastOf(z)
<1>1. CASE z = <<>>
  BY <1>1 DEF LastOf
<1>2. CASE z # <<>>
  BY <1>2 DEF LastOf
<1> QED
  BY <1>1, <1>2

\* A robot joint of a name is that joint, and -1 stands for none.
LEMMA RobotIdType ==
    ASSUME md \in Metadata, NEW i \in Joints
    PROVE  /\ RobotId(i) \in RobotIds \cup {-1}
           /\ RobotId(i) # -1 => RobotId(i) \in RobotIds /\ RobotJoints[RobotId(i)] = md.joints[i]
           /\ RobotId(i) = -1 <=> Found(md.joints[i]) = {}
<1>1. RobotIds = 1 .. Len(RobotJoints) /\ Len(RobotJoints) \in Nat
  BY MetadataAssumption DEF RobotIds
<1>2. CASE Found(md.joints[i]) = {}
  BY <1>2 DEF RobotId
<1>3. CASE Found(md.joints[i]) # {}
  <2>1. RobotId(i) \in Found(md.joints[i])
    BY <1>3 DEF RobotId
  <2> QED
    BY <1>1, <1>3, <2>1 DEF Found
<1> QED
  BY <1>2, <1>3

\* An element of a sequence.
LEMMA ElementOf ==
    ASSUME NEW S, NEW s \in Seq(S), NEW n \in DOMAIN s
    PROVE  s[n] \in S
  OBVIOUS

\* Three sequences in a row.
LEMMA Joined ==
    ASSUME NEW S, NEW s \in Seq(S), NEW a \in Seq(S), NEW b \in Seq(S)
    PROVE  /\ s \o a \o b \in Seq(S) /\ Len(s \o a \o b) = Len(s) + Len(a) + Len(b)
           /\ Len(s) \in Nat /\ Len(a) \in Nat /\ Len(b) \in Nat
           /\ Len(s) <= Len(s \o a \o b)
           /\ DOMAIN (s \o a \o b) = 1 .. Len(s) + Len(a) + Len(b)
           /\ \A n \in 1 .. Len(s) : (s \o a \o b)[n] = s[n]
           /\ \A n \in 1 .. Len(a) : (s \o a \o b)[Len(s) + n] = a[n]
           /\ \A n \in 1 .. Len(b) : (s \o a \o b)[Len(s) + Len(a) + n] = b[n]
<1>1. /\ s \o a \in Seq(S) /\ Len(s \o a) = Len(s) + Len(a)
      /\ Len(s) \in Nat /\ Len(a) \in Nat /\ Len(b) \in Nat
      /\ \A n \in 1 .. Len(s) : (s \o a)[n] = s[n]
      /\ \A n \in 1 .. Len(a) : (s \o a)[Len(s) + n] = a[n]
  OBVIOUS
<1> DEFINE t == s \o a
<1>2. /\ t \o b \in Seq(S) /\ Len(t \o b) = Len(t) + Len(b)
      /\ \A n \in 1 .. Len(t) : (t \o b)[n] = t[n]
      /\ \A n \in 1 .. Len(b) : (t \o b)[Len(t) + n] = b[n]
  <2>1. t \in Seq(S)
    BY <1>1
  <2> HIDE DEF t
  <2> QED
    BY <2>1
<1>3. /\ \A n \in 1 .. Len(s) : n \in 1 .. Len(t)
      /\ \A n \in 1 .. Len(a) : Len(s) + n \in 1 .. Len(t)
  BY <1>1
<1>4. DOMAIN (t \o b) = 1 .. Len(t \o b)
  BY <1>2
<1>5. Len(t) = Len(s) + Len(a)
  BY <1>1
<1> QED
  BY <1>1, <1>2, <1>3, <1>4, <1>5

\* A gain that is resolved is one of the values configured.
LEMMA ResolvedType ==
    ASSUME NEW gain \in Gains, NEW i, Resolves(gain, i)
    PROVE  resolve_gain(gain, i) \in Int
<1>1. PICK n \in DOMAIN gain : n = CHOOSE m \in DOMAIN gain : Entries(gain, i) = {m}
  BY DEF Resolves
<1>2. gain \in Seq([joints : SUBSET Names, value : Int])
  BY DEF Gains
<1>3. gain[n] \in [joints : SUBSET Names, value : Int]
  BY <1>2, ElementOf
<1> QED
  BY <1>1, <1>3 DEF resolve_gain

\* The stiffness that an actuator gives to a joint it can be used for.
LEMMA StiffnessType ==
    ASSUME NEW a \in Actuators, NEW i, Usable(a, i)
    PROVE  Stiffness(a, i) \in Int /\ resolve_gain(a.damping, i) \in Int
<1>1. a.stiffness \in Gains /\ a.integral \in Gains
  BY DEF Actuators
<1>2. resolve_gain(a.stiffness, i) \in Int
  BY <1>1, ResolvedType DEF Usable
<1>3. Integral(a, i) \in Int
  BY <1>1, ResolvedType DEF Usable, Integral
<1>4. resolve_gain(a.damping, i) \in Int
  BY ResolvedType DEF Usable, Actuators
<1> QED
  BY <1>2, <1>3, <1>4 DEF Stiffness

\* Slices are as long as a multiple of a reading that is at least one.
LEMMA ElementsType ==
    ASSUME NEW t \in ObsConfigs, NEW s, Reading(t, s) \in Nat
    PROVE  Elements(t, s) \in Nat
<1>1. History(t) \in Nat
  BY DEF History, ObsConfigs
<1>2. \A m, n \in Nat : m * n \in Nat
  OBVIOUS
<1> QED
  BY <1>1, <1>2 DEF Elements

\* Only a height scan has a size that depends on the sensors.
LEMMA ElementsOfOthers ==
    ASSUME NEW t \in ObsConfigs, NEW s, NEW z, t.func # "height_scan"
    PROVE  Reading(t, s) = Reading(t, z) /\ Elements(t, s) = Elements(t, z)
  BY DEF Reading, Elements, ObsConfigs, Functions

\* The reading of a term of known sizes.
LEMMA ReadingType ==
    ASSUME Types, NEW t \in ObsConfigs, NEW s \in Int
    PROVE  Reading(t, s) \in Int
<1>1. md.action_size \in Nat
  BY Loaded DEF Types
<1>2. command_size[t.command] \in Int
  BY DEF Types, ObsConfigs
<1>3. t.size \in Int /\ Len(t.ids) \in Int /\ t.func \in Functions
  BY DEF ObsConfigs
<1>4. Slice(t) \in Int
  BY DEF Slice, ObsConfigs
<1> QED
  BY <1>1, <1>2, <1>3, <1>4 DEF Reading, Functions

\* Metadata and robot do not change, nor does what is read from them alone.
LEMMA Frame ==
    ASSUME md' = md
    PROVE  /\ Joints' = Joints /\ MayMiss' = MayMiss
           /\ \A i : RobotId(i)' = RobotId(i)
           /\ \A gain, i : resolve_gain(gain, i)' = resolve_gain(gain, i)
           /\ \A a, i : Stiffness(a, i)' = Stiffness(a, i)
           /\ \A t, list, i : Listed(t, list, i)' = Listed(t, list, i)
<1>1. \A name : Found(name)' = Found(name)
  BY DEF Found, RobotIds
<1>2. \A i : RobotId(i)' = RobotId(i)
  BY <1>1 DEF RobotId
<1>3. \A gain, i : Entries(gain, i)' = Entries(gain, i)
  BY DEF Entries
<1>4. \A gain, i : resolve_gain(gain, i)' = resolve_gain(gain, i)
  BY <1>3 DEF resolve_gain
<1>5. \A a, i : Integral(a, i)' = Integral(a, i)
  BY <1>4 DEF Integral
<1> QED
  BY <1>2, <1>4, <1>5 DEF Joints, MayMiss, Stiffness, Listed

\* The pairs among the ranges of a command.
LEMMA PairsType ==
    ASSUME NEW c \in CommandConfigs
    PROVE  Cardinality(Pairs(c)) \in Nat
<1>1. c.ranges \in Seq(Seq(Int))
  BY DEF CommandConfigs
<1>2. IsFiniteSet(1 .. Len(c.ranges))
  BY <1>1, FS_Interval
<1>3. Pairs(c) \subseteq 1 .. Len(c.ranges)
  BY <1>1 DEF Pairs
<1> QED
  BY <1>2, <1>3, FS_Subset, FS_CardinalityType

\* Nor do the sizes of slices, once the commands are parsed.
LEMMA FrameSizes ==
    ASSUME md' = md, command_size' = command_size
    PROVE  \A k : Due(k)' = Due(k)
<1>1. \A t, s : Reading(t, s)' = Reading(t, s)
  BY DEF Reading
<1> QED
  BY <1>1 DEF Due, Elements, History

-----------------------------------------------------------------------------
(* The initial states *)

LEMMA Initially == Init => IInv
<1> SUFFICES ASSUME Init PROVE IInv
  OBVIOUS
<1> USE Loaded
<1>1. Types
  BY MetadataAssumption DEF Init, Types, Stages, RobotIds
<1>2. Order /\ GainsRead /\ JointsMapped /\ ThrowsIfAllowed
  BY <1>1 DEF Init, Order, GainsRead, JointsMapped, ThrowsIfAllowed
<1>3. SizesRead
  BY DEF Init, SizesRead, LastOf
<1>4. SlicesFilled /\ Driven
  BY DEF Init, SlicesFilled, Driven
<1>5. Resolved /\ TermsWired
  BY DEF Init, Resolved, TermsWired, Steering, Drive, Wheels
<1> QED
  BY <1>1, <1>2, <1>3, <1>4, <1>5 DEF IInv

-----------------------------------------------------------------------------
(* Each part of the invariant is kept *)

\* Which action changes what.
LEMMA Writes ==
    ASSUME [Next]_vars
    PROVE  /\ md' = md
           /\ parse_actuator \/ parse_policy_gains \/ UNCHANGED <<actuator, assigned, stiffness, damping>>
           /\ MapJoint \/ UNCHANGED <<mapped, joint_id_policy_to_robot>>
           /\ ParseCommand \/ UNCHANGED <<parsed, command_size>>
           /\ CreateObsTerm \/ UNCHANGED <<height_scan_size, read, obs_terms, obs_size,
                                           sensor_specs, declared>>
           /\ MatchEntry \/ EndPattern \/ EndList \/ CreateActionTerm \/ UNCHANGED cursor
           /\ MatchEntry \/ CreateActionTerm \/ UNCHANGED ids
           /\ CreateActionTerm \/ UNCHANGED action_ids
           /\ FillTerm \/ UNCHANGED <<filled, offset>>
           /\ ApplyElement \/ UNCHANGED <<applied, source, k_des, d_des>>
  BY DEF Next, vars, load, gains, maps, commands, observations, actions, run, Throw,
     parse_actuator, ActuatorsParsed, parse_policy_gains, MapJoint, AllMapped, ParseCommand,
     CommandsParsed, CreateObsTerm, CheckObservations, RefuseActionTerm, MatchEntry, EndPattern,
     EndList, CreateActionTerm, CheckActions, FillTerm, RunModel, ApplyElement, EndRun

\* A constructor that has thrown stays so, and gains are read before all else.
LEMMA Advances ==
    ASSUME [Next]_vars, stage' \notin {"gains", "ended"}
    PROVE  /\ stage # "ended"
           /\ stage = "gains" => ActuatorsParsed \/ parse_policy_gains
  BY DEF Next, vars, load, gains, maps, commands, observations, actions, run, Throw,
     parse_actuator, ActuatorsParsed, parse_policy_gains, MapJoint, AllMapped, ParseCommand,
     CommandsParsed, CreateObsTerm, CheckObservations, AllRead, RefuseActionTerm, ActionsLeft,
     MoreActions, MoreLists, MorePatterns, MatchEntry, EndPattern, EndList, CreateActionTerm,
     CheckActions, FillTerm, RunModel, ApplyElement, EndRun

LEMMA GainsKept == IInv /\ [Next]_vars => GainsRead'
<1> SUFFICES ASSUME IInv, [Next]_vars PROVE GainsRead'
  OBVIOUS
<1>0. md' = md
  BY Writes
<1>4. assigned' \subseteq Joints
  BY Writes DEF IInv, GainsRead, parse_actuator, parse_policy_gains, Matched, Throw, load, gains
<1>1. CASE UNCHANGED <<actuator, assigned, stiffness, damping>>
  <2>1. ASSUME ~md.articulated, stage' \notin {"gains", "ended"}
        PROVE  stiffness = md.joint_stiffness /\ damping = md.joint_damping
    <3>1. CASE stage # "gains"
      <4>1. stage \notin {"gains", "ended"}
        BY <2>1, <3>1, Advances
      <4> QED
        BY <2>1, <4>1 DEF IInv, GainsRead
    <3>2. CASE stage = "gains"
      <4>1. parse_policy_gains
        BY <2>1, <3>2, Advances DEF ActuatorsParsed
      <4> QED
        BY <1>1, <2>1, <4>1 DEF parse_policy_gains, Throw
    <3> QED
      BY <3>1, <3>2
  <2> QED
    BY <1>0, <1>1, <1>4, <2>1, Frame DEF IInv, GainsRead
<1>2. CASE parse_policy_gains /\ ~UNCHANGED <<actuator, assigned, stiffness, damping>>
  BY <1>0, <1>2, <1>4, Frame DEF parse_policy_gains, Throw, load, gains, GainsRead
<1>3. CASE parse_actuator /\ ~UNCHANGED <<actuator, assigned, stiffness, damping>>
  <2> DEFINE a == md.actuators[actuator + 1]
  <2>1. /\ md.articulated /\ Assignable(a) /\ actuator' = actuator + 1
        /\ assigned' = assigned \cup Matched(a)
        /\ stiffness' = [i \in Joints |->
                           IF i \in Matched(a) THEN Stiffness(a, i) ELSE stiffness[i]]
        /\ damping' = [i \in Joints |->
                           IF i \in Matched(a) THEN resolve_gain(a.damping, i) ELSE damping[i]]
        /\ actuator < Len(md.actuators)
    BY <1>3 DEF parse_actuator, Throw, load, gains
  <2>2. actuator \in Nat /\ a \in Actuators
    <3>1. md \in Metadata /\ actuator \in 0 .. Len(md.actuators)
      BY DEF IInv, Types
    <3>2. md.actuators \in Seq(Actuators)
      BY <3>1, Loaded
    <3>3. actuator \in Nat /\ actuator + 1 \in DOMAIN md.actuators
      BY <2>1, <3>1, <3>2
    <3> QED
      BY <3>2, <3>3, ElementOf
  <2> SUFFICES ASSUME NEW i \in Joints
               PROVE  \/ /\ i \notin assigned' /\ stiffness'[i] = -1 /\ damping'[i] = -1
                         /\ \A b \in 1 .. actuator' : md.joints[i] \notin md.actuators[b].joints
                      \/ /\ i \in assigned'
                         /\ \E c \in 1 .. actuator' :
                            /\ \A b \in 1 .. actuator' :
                                  md.joints[i] \in md.actuators[b].joints <=> b = c
                            /\ stiffness'[i] = Stiffness(md.actuators[c], i)
                            /\ damping'[i] = resolve_gain(md.actuators[c].damping, i)
    BY <1>0, <1>4, <2>1, Frame DEF GainsRead
  <2>3. CASE i \in Matched(a)
    <3>1. i \notin assigned /\ i \in assigned' /\ Usable(a, i) /\ md.joints[i] \in a.joints
      BY <2>1, <2>3 DEF Assignable, Matched
    <3>2. \A b \in 1 .. actuator : md.joints[i] \notin md.actuators[b].joints
      BY <2>1, <3>1 DEF IInv, GainsRead
    <3>3. stiffness'[i] = Stiffness(a, i) /\ damping'[i] = resolve_gain(a.damping, i)
      BY <2>1, <2>3
    <3>4. \A b \in 1 .. actuator + 1 : md.joints[i] \in md.actuators[b].joints <=> b = actuator + 1
      BY <2>2, <3>1, <3>2
    <3> QED
      BY <2>1, <2>2, <3>1, <3>3, <3>4
  <2>4. CASE i \notin Matched(a)
    <3>1. /\ stiffness'[i] = stiffness[i] /\ damping'[i] = damping[i] /\ md.joints[i] \notin a.joints
          /\ i \in assigned' <=> i \in assigned
      BY <2>1, <2>4 DEF Matched
    <3>2. \A b \in 1 .. actuator' : b \in 1 .. actuator \/ b = actuator + 1
      BY <2>1, <2>2
    <3>3. 1 .. actuator \subseteq 1 .. actuator'
      BY <2>1, <2>2
    <3>4. CASE /\ i \notin assigned /\ stiffness[i] = -1 /\ damping[i] = -1
               /\ \A b \in 1 .. actuator : md.joints[i] \notin md.actuators[b].joints
      BY <3>1, <3>2, <3>4
    <3>5. ASSUME i \in assigned, NEW c \in 1 .. actuator,
                 \A b \in 1 .. actuator : md.joints[i] \in md.actuators[b].joints <=> b = c,
                 stiffness[i] = Stiffness(md.actuators[c], i),
                 damping[i] = resolve_gain(md.actuators[c].damping, i)
          PROVE  /\ i \in assigned' /\ c \in 1 .. actuator'
                 /\ \A b \in 1 .. actuator' : md.joints[i] \in md.actuators[b].joints <=> b = c
                 /\ stiffness'[i] = Stiffness(md.actuators[c], i)
                 /\ damping'[i] = resolve_gain(md.actuators[c].damping, i)
      <4>1. c # actuator + 1
        BY <2>2
      <4> QED
        BY <3>1, <3>2, <3>3, <3>5, <4>1
    <3> QED
      BY <2>1, <3>4, <3>5 DEF IInv, GainsRead
  <2> QED
    BY <2>3, <2>4
<1> QED
  BY <1>1, <1>2, <1>3, Writes

LEMMA JointsKept == IInv /\ [Next]_vars => JointsMapped'
<1> SUFFICES ASSUME IInv, [Next]_vars PROVE JointsMapped'
  OBVIOUS
<1>0. md' = md
  BY Writes
<1>1. CASE UNCHANGED <<mapped, joint_id_policy_to_robot>>
  BY <1>0, <1>1, Frame DEF IInv, JointsMapped
<1>2. CASE MapJoint /\ ~UNCHANGED <<mapped, joint_id_policy_to_robot>>
  <2>1. /\ RobotId(mapped + 1) # -1 \/ MayMiss
        /\ mapped' = mapped + 1 /\ mapped < Len(md.joints)
        /\ joint_id_policy_to_robot' =
              [joint_id_policy_to_robot EXCEPT ![mapped + 1] = RobotId(mapped + 1)]
    BY <1>2 DEF MapJoint, Throw, load, gains, maps, commands, observations, actions
  <2>2. mapped \in Nat /\ joint_id_policy_to_robot \in [1 .. Len(md.joints) -> RobotIds \cup {-1}]
    <3>1. /\ md \in Metadata /\ mapped \in 0 .. Len(md.joints)
          /\ joint_id_policy_to_robot \in [Joints -> RobotIds \cup {-1}]
      BY DEF IInv, Types
    <3>2. Joints = 1 .. Len(md.joints) /\ mapped \in Nat
      BY <3>1, Loaded
    <3> QED
      BY <3>1, <3>2
  <2>3. \A i \in 1 .. mapped : joint_id_policy_to_robot'[i] = RobotId(i) /\ (RobotId(i) # -1 \/ MayMiss)
    BY <2>1, <2>2 DEF IInv, JointsMapped
  <2>4. joint_id_policy_to_robot'[mapped + 1] = RobotId(mapped + 1)
    <3>1. md \in Metadata
      BY DEF IInv, Types
    <3>2. Len(md.joints) \in Nat
      BY <3>1, Loaded
    <3>3. mapped + 1 \in 1 .. Len(md.joints)
      BY <2>1, <2>2, <3>2
    <3> QED
      BY <2>1, <2>2, <3>3
  <2>5. \A i \in 1 .. mapped' : i \in 1 .. mapped \/ i = mapped + 1
    BY <2>1, <2>2
  <2> QED
    BY <1>0, <2>1, <2>3, <2>4, <2>5, Frame DEF JointsMapped
<1> QED
  BY <1>1, <1>2, Writes

\* The sizes of a term that has been created: that it is created with, and its due.
LEMMA Created ==
    ASSUME Types, NEW t \in ObsConfigs, Creates(t)
    PROVE  /\ Elements(t, height_scan_size) \in Nat /\ Elements(t, LastOf(md.scene)) \in Nat
           /\ t.func # "height_scan" =>
                 Elements(t, height_scan_size) = Elements(t, LastOf(md.scene))
<1>1. LastOf(md.scene) \in Nat /\ height_scan_size \in Int
  BY Loaded, LastOfType DEF Types
<1>2. Reading(t, height_scan_size) \in Nat
  BY <1>1, ReadingType DEF Creates
<1>3. Reading(t, LastOf(md.scene)) \in Nat
  <2>1. CASE t.func = "height_scan"
    BY <1>1, <2>1 DEF Reading
  <2>2. CASE t.func # "height_scan"
    BY <1>2, <2>2, ElementsOfOthers
  <2> QED
    BY <2>1, <2>2
<1> QED
  BY <1>2, <1>3, ElementsType, ElementsOfOthers

LEMMA SizesKept == IInv /\ [Next]_vars => SizesRead'
<1> SUFFICES ASSUME IInv, [Next]_vars PROVE SizesRead'
  OBVIOUS
<1>0. md' = md
  BY Writes
<1>1. CASE UNCHANGED <<height_scan_size, read, obs_terms, obs_size, sensor_specs, declared>>
  <2>1. CASE command_size' = command_size
    BY <1>0, <1>1, <2>1, FrameSizes DEF IInv, SizesRead
  <2>2. CASE ParseCommand
    <3>1. read = 0
      BY <2>2 DEF ParseCommand, IInv, Order
    <3>2. obs_size = LastOf(declared) /\ (sensor_specs = <<>> \/ LastOf(sensor_specs) = LastOf(md.scene))
      BY <3>1 DEF IInv, SizesRead
    <3>3. LastOf(declared)' = LastOf(declared) /\ LastOf(sensor_specs)' = LastOf(sensor_specs)
          /\ LastOf(md.scene)' = LastOf(md.scene)
      BY <1>0, <1>1 DEF LastOf
    <3> QED
      BY <1>0, <1>1, <3>1, <3>2, <3>3 DEF SizesRead
  <2> QED
    BY <2>1, <2>2, Writes
<1>2. CASE CreateObsTerm /\ ~UNCHANGED <<height_scan_size, read, obs_terms, obs_size,
                                         sensor_specs, declared>>
  <2> DEFINE t == md.observations[read + 1]
             size == Elements(t, height_scan_size)
             z == LastOf(md.scene)
  <2>1. /\ read < Len(md.observations) /\ Creates(t) /\ read' = read + 1
        /\ obs_terms' = Append(obs_terms, [config |-> t, size |-> size])
        /\ obs_size' = obs_size + size
        /\ declared' = Append(declared, LastOf(declared) + Elements(t, z))
        /\ command_size' = command_size
    BY <1>2 DEF CreateObsTerm, Throw, load, gains, maps, commands, observations, actions
  <2>2. /\ t.func = "height_scan" => height_scan_size' = z /\ sensor_specs' = sensor_specs \o md.scene
        /\ t.func # "height_scan" => UNCHANGED <<height_scan_size, sensor_specs>>
    BY <1>2, <2>1 DEF CreateObsTerm, Throw, load, gains, maps, commands, observations, actions
  <2>3. /\ read \in Nat /\ Len(obs_terms) = read /\ Len(declared) = read /\ obs_size \in Nat
        /\ declared \in Seq(Nat) /\ obs_terms \in Seq([config : ObsConfigs, size : Nat])
        /\ md \in Metadata /\ sensor_specs \in Seq(Nat)
    BY DEF IInv, Types
  <2>4. read + 1 \in DOMAIN md.observations /\ md.observations \in Seq(ObsConfigs) /\ md.scene \in Seq(Nat)
    BY <2>1, <2>3, Loaded
  <2>5. t \in ObsConfigs
    BY <2>4, ElementOf
  <2>6. size \in Nat /\ Due(read + 1) = Elements(t, z) /\ Due(read + 1) \in Nat
        /\ (t.func # "height_scan" => size = Due(read + 1))
    BY <2>1, <2>5, Created DEF IInv, Due
  <2>7. LastOf(declared) = (IF read = 0 THEN 0 ELSE declared[read]) /\ LastOf(declared) \in Nat
    BY <2>3, LastOfType DEF LastOf
  <2>8. /\ \A k \in 1 .. read : obs_terms'[k] = obs_terms[k] /\ declared'[k] = declared[k]
        /\ obs_terms'[read + 1] = [config |-> t, size |-> size]
        /\ declared'[read + 1] = LastOf(declared) + Due(read + 1)
        /\ LastOf(declared') = LastOf(declared) + Due(read + 1)
    BY <2>1, <2>3, <2>6, <2>7 DEF LastOf
  <2>9. \A k \in 1 .. read' : k \in 1 .. read \/ k = read + 1
    BY <2>1, <2>3
  <2>10. \A k : Due(k)' = Due(k)
    BY <1>0, <2>1, FrameSizes
  <2>11. \A k \in 1 .. read' : obs_terms'[k].config = md.observations[k] /\ Due(k) \in Nat
    BY <2>6, <2>8, <2>9 DEF IInv, SizesRead
  <2>12. \A k \in 1 .. read' : declared'[k] = (IF k = 1 THEN 0 ELSE declared'[k - 1]) + Due(k)
    <3>1. \A k \in 1 .. read : declared'[k] = (IF k = 1 THEN 0 ELSE declared'[k - 1]) + Due(k)
      <4> SUFFICES ASSUME NEW k \in 1 .. read
                   PROVE  declared'[k] = (IF k = 1 THEN 0 ELSE declared'[k - 1]) + Due(k)
        OBVIOUS
      <4>1. declared[k] = (IF k = 1 THEN 0 ELSE declared[k - 1]) + Due(k)
        BY DEF IInv, SizesRead
      <4>2. k # 1 => k - 1 \in 1 .. read
        BY <2>3
      <4> QED
        BY <2>8, <4>1, <4>2
    <3>2. LastOf(declared) = (IF read + 1 = 1 THEN 0 ELSE declared'[read])
      BY <2>3, <2>7, <2>8
    <3> QED
      BY <2>3, <2>8, <2>9, <3>1, <3>2
  <2>13. sensor_specs' = <<>> \/ LastOf(sensor_specs') = z
    BY <2>2, <2>3, <2>4, LastOfConcat DEF IInv, SizesRead
  <2>14. \A k \in 1 .. read' : md.observations[k].func = "height_scan" =>
            height_scan_size' = z /\ LastOf(sensor_specs') = z
    <3>1. CASE t.func = "height_scan"
      BY <2>2, <2>3, <2>4, <3>1, LastOfConcat DEF IInv, SizesRead
    <3>2. CASE t.func # "height_scan"
      BY <2>2, <2>9, <3>2 DEF IInv, SizesRead
    <3> QED
      BY <3>1, <3>2
  <2>15. \/ /\ \A k \in 1 .. read' : obs_terms'[k].size = Due(k)
            /\ obs_size' = LastOf(declared')
         \/ \E k \in 1 .. read' :
               /\ md.observations[k].func = "height_scan" /\ obs_terms'[k].size # Due(k)
               /\ \A j \in 1 .. read' : j # k => obs_terms'[j].size = Due(j)
               /\ obs_size' - LastOf(declared') = obs_terms'[k].size - Due(k)
    <3>1. CASE size = Due(read + 1)
      <4>1. CASE (\A k \in 1 .. read : obs_terms[k].size = Due(k)) /\ obs_size = LastOf(declared)
        BY <2>1, <2>3, <2>6, <2>7, <2>8, <2>9, <3>1, <4>1
      <4>2. ASSUME NEW k \in 1 .. read, md.observations[k].func = "height_scan",
                   obs_terms[k].size # Due(k),
                   \A j \in 1 .. read : j # k => obs_terms[j].size = Due(j),
                   obs_size - LastOf(declared) = obs_terms[k].size - Due(k)
            PROVE  /\ k \in 1 .. read' /\ obs_terms'[k].size # Due(k)
                   /\ \A j \in 1 .. read' : j # k => obs_terms'[j].size = Due(j)
                   /\ obs_size' - LastOf(declared') = obs_terms'[k].size - Due(k)
        <5>1. obs_terms'[k].size # Due(k) /\ \A j \in 1 .. read' : j # k => obs_terms'[j].size = Due(j)
          BY <2>8, <2>9, <3>1, <4>2
        <5>2. obs_size' - LastOf(declared') = obs_size - LastOf(declared)
          BY <2>1, <2>3, <2>6, <2>7, <2>8, <3>1
        <5> QED
          BY <2>1, <2>3, <2>8, <4>2, <5>1, <5>2
      <4> QED
        BY <4>1, <4>2 DEF IInv, SizesRead
    <3>2. CASE size # Due(read + 1)
      <4>1. t.func = "height_scan" /\ height_scan_size # z
        BY <2>6, <3>2
      <4>2. \A k \in 1 .. read : md.observations[k].func # "height_scan"
        BY <4>1 DEF IInv, SizesRead
      <4>3. (\A k \in 1 .. read : obs_terms[k].size = Due(k)) /\ obs_size = LastOf(declared)
        BY <4>2 DEF IInv, SizesRead
      <4>4. \A j \in 1 .. read' : j # read + 1 => obs_terms'[j].size = Due(j)
        BY <2>8, <2>9, <4>3
      <4>5. obs_size' - LastOf(declared') = size - Due(read + 1)
        BY <2>1, <2>3, <2>6, <2>7, <2>8, <4>3
      <4>6. read + 1 \in 1 .. read'
        BY <2>1, <2>3
      <4> QED
        BY <2>8, <3>2, <4>1, <4>4, <4>5, <4>6
    <3> QED
      BY <3>1, <3>2
  <2>16. LastOf(declared)' = LastOf(declared') /\ LastOf(sensor_specs)' = LastOf(sensor_specs')
         /\ LastOf(md.scene)' = z
    BY <1>0 DEF LastOf
  <2> QED
    BY <1>0, <2>10, <2>11, <2>12, <2>13, <2>14, <2>15, <2>16 DEF SizesRead
<1> QED
  BY <1>1, <1>2, Writes

LEMMA SlicesKept == IInv /\ [Next]_vars => SlicesFilled'
<1> SUFFICES ASSUME IInv, [Next]_vars PROVE SlicesFilled'
  OBVIOUS
<1>0. md' = md
  BY Writes
<1>1. /\ md \in Metadata /\ filled \in Seq(Nat) /\ Len(filled) <= read /\ read \in Nat
      /\ declared \in Seq(Nat) /\ Len(declared) = read
  BY DEF IInv, Types
<1>2. /\ \A n \in 1 .. Len(filled) : filled[n] = Due(n) /\ Readable(md.observations[n])
      /\ offset = (IF Len(filled) = 0 THEN 0 ELSE declared[Len(filled)])
  BY DEF IInv, SlicesFilled
<1>3. CASE /\ UNCHANGED <<filled, offset>>
           /\ stage \in {"gains", "joints", "commands", "observations", "actions"}
  <2>1. filled = <<>> /\ offset = 0
    BY <1>3 DEF IInv, Order
  <2> QED
    BY <1>3, <2>1 DEF SlicesFilled
<1>4. CASE UNCHANGED <<md, command_size, joint_id_policy_to_robot, declared, filled, offset>>
  <2>1. \A k : Due(k)' = Due(k)
    BY <1>4, FrameSizes
  <2>2. \A t : Readable(t)' = Readable(t)
    BY <1>4 DEF Readable, HasRobotJoint
  <2> QED
    BY <1>2, <1>4, <2>1, <2>2 DEF SlicesFilled
<1>5. CASE FillTerm /\ ~UNCHANGED <<filled, offset>>
  <2> DEFINE m == Len(filled) + 1
             t == obs_terms[m].config
  <2>1. /\ stage = "fill" /\ m <= Len(obs_terms) /\ Readable(t) /\ UNCHANGED load
        /\ filled' = Append(filled, Elements(t, Scan)) /\ offset' = offset + Elements(t, Scan)
    <3>1. stage = "fill" /\ Len(filled) < Len(obs_terms)
      BY <1>5 DEF FillTerm
    <3>2. /\ Readable(t) /\ UNCHANGED load
          /\ filled' = Append(filled, Elements(t, Scan)) /\ offset' = offset + Elements(t, Scan)
      BY <1>5 DEF FillTerm, Throw, run
    <3>3. Len(obs_terms) = read /\ Len(filled) \in Nat
      BY <1>1 DEF IInv, Types
    <3> QED
      BY <1>1, <3>1, <3>2, <3>3
  <2>2. m \in 1 .. read /\ Len(obs_terms) = read /\ read = Len(md.observations)
    BY <1>1, <2>1 DEF IInv, Types, Order
  <2>3. t = md.observations[m] /\ Due(m) \in Nat
        /\ declared[m] = (IF m = 1 THEN 0 ELSE declared[m - 1]) + Due(m)
        /\ (t.func = "height_scan" => Scan = LastOf(md.scene))
    BY <2>2 DEF IInv, SizesRead, Scan
  <2>4. md.observations \in Seq(ObsConfigs)
    BY <1>1, Loaded
  <2>5. t \in ObsConfigs
    BY <2>2, <2>3, <2>4, ElementOf
  <2>6. Elements(t, Scan) = Due(m)
    BY <2>3, <2>5, ElementsOfOthers DEF Due
  <2>7. offset' = declared[m]
    BY <1>1, <1>2, <2>1, <2>2, <2>3, <2>6
  <2>8. Len(filled') = m /\ filled'[m] = Due(m) /\ \A n \in 1 .. Len(filled) : filled'[n] = filled[n]
    BY <1>1, <2>1, <2>3, <2>6
  <2>9. \A n \in 1 .. Len(filled') : n \in 1 .. Len(filled) \/ n = m
    BY <1>1, <2>8
  <2>10. \A n \in 1 .. Len(filled') : filled'[n] = Due(n) /\ Readable(md.observations[n])
    BY <1>2, <2>1, <2>3, <2>8, <2>9
  <2>11. \A k : Due(k)' = Due(k)
    BY <2>1, FrameSizes DEF load, gains, maps, commands, observations, actions
  <2>12. \A u : Readable(u)' = Readable(u)
    BY <2>1 DEF Readable, HasRobotJoint, load, gains, maps, commands, observations, actions
  <2>13. Len(filled') # 0 /\ declared' = declared
    BY <1>1, <2>1, <2>8 DEF load, gains, maps, commands, observations, actions
  <2> QED
    BY <1>0, <2>7, <2>8, <2>10, <2>11, <2>12, <2>13 DEF SlicesFilled
<1>6. \/ UNCHANGED <<md, command_size, joint_id_policy_to_robot, declared>>
      \/ stage \in {"joints", "commands", "observations"}
  BY Writes DEF MapJoint, ParseCommand, CreateObsTerm
<1> QED
  BY <1>0, <1>3, <1>4, <1>5, <1>6, Writes

LEMMA DrivenKept == IInv /\ [Next]_vars => Driven'
<1> SUFFICES ASSUME IInv, [Next]_vars PROVE Driven'
  OBVIOUS
<1>0. /\ md' = md /\ md \in Metadata /\ applied \in Nat /\ applied <= Len(action_ids)
      /\ source \in [RobotIds -> 0 .. applied]
      /\ k_des \in [RobotIds -> Int] /\ d_des \in [RobotIds -> Int]
      /\ action_ids \in Seq(Wires)
      /\ joint_id_policy_to_robot \in [Joints -> RobotIds \cup {-1}]
  BY Writes DEF IInv, Types
<1>1. CASE UNCHANGED <<stiffness, damping, joint_id_policy_to_robot, action_ids, applied, source,
                       k_des, d_des>>
  BY <1>1 DEF IInv, Driven, RobotIds
<1>2. CASE /\ UNCHANGED <<applied, source, k_des, d_des>>
           /\ stage \in {"gains", "joints", "commands", "observations", "actions"}
  <2>1. applied = 0 /\ \A r \in RobotIds : source[r] = 0
    BY <1>0, <1>2 DEF IInv, Order
  <2> QED
    BY <1>2, <2>1 DEF Driven, RobotIds
<1>3. CASE ApplyElement /\ ~UNCHANGED <<applied, source, k_des, d_des>>
  <2> DEFINE e0 == applied + 1
             i == action_ids[e0].id
             r0 == joint_id_policy_to_robot[i]
  <2>0. /\ stage = "apply" /\ e0 <= Len(action_ids) /\ UNCHANGED load
        /\ action_ids[e0].wheel = 0 => HasRobotJoint(i)
        /\ applied' = e0 /\ source' = [source EXCEPT ![r0] = e0]
        /\ k_des' = [k_des EXCEPT ![r0] = stiffness[i]]
        /\ d_des' = [d_des EXCEPT ![r0] = damping[i]]
    BY <1>0, <1>3 DEF ApplyElement, Throw, run
  <2>1. /\ stage = "apply" /\ e0 <= Len(action_ids) /\ HasRobotJoint(i) /\ UNCHANGED load
        /\ applied' = e0 /\ source' = [source EXCEPT ![r0] = e0]
        /\ k_des' = [k_des EXCEPT ![r0] = stiffness[i]]
        /\ d_des' = [d_des EXCEPT ![r0] = damping[i]]
    <3>1. e0 \in DOMAIN action_ids
      BY <1>0, <2>0
    <3>2. action_ids[e0].wheel # 0 => HasRobotJoint(i)
      BY <3>1 DEF IInv, TermsWired, Wired
    <3> QED
      BY <2>0, <3>2
  <2>2. \A e \in 1 .. Len(action_ids) : action_ids[e].id \in Joints
    <3>1. \A e \in DOMAIN action_ids : action_ids[e] \in Wires
      BY <1>0, ElementOf
    <3> QED
      BY <1>0, <3>1 DEF Wires
  <2>3. i \in Joints /\ r0 \in RobotIds
    BY <1>0, <2>1, <2>2 DEF HasRobotJoint
  <2>4. \A j \in Joints : joint_id_policy_to_robot[j] = r0 => j = i
    <3>1. mapped = Len(md.joints) /\ Joints = 1 .. Len(md.joints)
      BY <1>0, <2>1, Loaded DEF IInv, Order
    <3>2. \A j \in Joints : joint_id_policy_to_robot[j] = RobotId(j)
      BY <3>1 DEF IInv, JointsMapped
    <3>3. r0 # -1
      BY <2>1 DEF HasRobotJoint
    <3>4. \A j \in Joints : RobotId(j) = r0 => RobotJoints[r0] = md.joints[j]
      BY <1>0, <3>3, RobotIdType
    <3>5. \A j, n \in Joints : md.joints[j] = md.joints[n] => j = n
      BY <1>0, Loaded
    <3> QED
      BY <2>3, <3>2, <3>4, <3>5
  <2>5. /\ source'[r0] = e0 /\ k_des'[r0] = stiffness[i] /\ d_des'[r0] = damping[i]
        /\ \A r \in RobotIds : r # r0 =>
              source'[r] = source[r] /\ k_des'[r] = k_des[r] /\ d_des'[r] = d_des[r]
    BY <1>0, <2>1, <2>3
  <2>6. ASSUME NEW e \in 1 .. applied'
        PROVE  LET r == joint_id_policy_to_robot[action_ids[e].id]
               IN  /\ r \in RobotIds /\ source'[r] >= e
                   /\ action_ids[source'[r]].id = action_ids[e].id
    <3> DEFINE r == joint_id_policy_to_robot[action_ids[e].id]
    <3>1. action_ids[e].id \in Joints
      <4>1. e \in 1 .. Len(action_ids)
        BY <1>0, <2>1
      <4> QED
        BY <2>2, <4>1
    <3>2. CASE r = r0
      BY <1>0, <2>1, <2>3, <2>4, <2>5, <3>1, <3>2
    <3>3. CASE r # r0
      <4>1. e \in 1 .. applied
        BY <1>0, <2>1, <3>3
      <4> QED
        BY <2>5, <3>3, <4>1 DEF IInv, Driven
    <3> QED
      BY <3>2, <3>3
  <2>7. ASSUME NEW r \in RobotIds, source'[r] # 0
        PROVE  /\ joint_id_policy_to_robot[action_ids[source'[r]].id] = r
               /\ k_des'[r] = stiffness[action_ids[source'[r]].id]
               /\ d_des'[r] = damping[action_ids[source'[r]].id]
    <3>1. CASE r = r0
      BY <2>5, <3>1
    <3>2. CASE r # r0
      BY <2>5, <2>7, <3>2 DEF IInv, Driven
    <3> QED
      BY <3>1, <3>2
  <2> QED
    BY <2>1, <2>6, <2>7 DEF Driven, RobotIds, load, gains, maps, commands, observations, actions
<1>4. \/ UNCHANGED <<stiffness, damping, joint_id_policy_to_robot, action_ids>>
      \/ stage \in {"gains", "joints", "actions"}
  BY Writes DEF parse_actuator, parse_policy_gains, MapJoint, CreateActionTerm, MoreActions,
     ActionsLeft
<1>5. ApplyElement => UNCHANGED <<stiffness, damping, joint_id_policy_to_robot, action_ids>>
  BY DEF ApplyElement, Throw, load, gains, maps, commands, observations, actions
<1> QED
  BY <1>1, <1>2, <1>3, <1>4, <1>5, Writes

LEMMA OrderKept == IInv /\ [Next]_vars => Order'
<1> SUFFICES ASSUME IInv, [Next]_vars PROVE Order'
  OBVIOUS
<1>1. Order /\ Types
  BY DEF IInv
<1>2. CASE UNCHANGED vars \/ (stage' = "ended" /\ UNCHANGED <<load, run>>)
  BY <1>1, <1>2 DEF Order, vars, load, gains, maps, commands, observations, actions, run
<1>3. CASE parse_actuator /\ stage' = stage
  BY <1>1, <1>3 DEF Order, parse_actuator, Throw, load, gains, maps, commands, observations, actions, run
<1>4. CASE ActuatorsParsed
  BY <1>1, <1>4 DEF Order, ActuatorsParsed, load, gains, maps, commands, observations, actions, run
<1>15. CASE parse_policy_gains /\ stage' # "ended"
  BY <1>1, <1>15 DEF Order, parse_policy_gains, Throw, load, gains, maps, commands, observations, actions, run
<1>5. CASE MapJoint /\ stage' = stage
  BY <1>1, <1>5 DEF Order, MapJoint, Throw, load, gains, maps, commands, observations, actions, run
<1>16. CASE AllMapped
  BY <1>1, <1>16 DEF Order, AllMapped, load, gains, maps, commands, observations, actions, run
<1>6. CASE (ParseCommand /\ stage' = stage) \/ CommandsParsed
  BY <1>1, <1>6 DEF Order, ParseCommand, CommandsParsed, Throw, load, gains, maps, commands, observations, actions, run
<1>7. CASE CreateObsTerm /\ stage' = stage
  BY <1>1, <1>7 DEF Order, CreateObsTerm, Throw, load, gains, maps, commands, observations, actions, run
<1>8. CASE CheckObservations /\ stage' # "ended"
  BY <1>1, <1>8 DEF Order, CheckObservations, AllRead, InputFits, Throw, load, gains, maps, commands, observations, actions, run
<1>9. CASE \/ (MatchEntry \/ EndPattern \/ CreateActionTerm) /\ stage' = stage
           \/ EndList
  BY <1>1, <1>9 DEF Order, MatchEntry, EndPattern, EndList, CreateActionTerm, MorePatterns,
     MoreLists, MoreActions, ActionsLeft, Throw, load, gains, maps, commands, observations, actions, run
<1>10. CASE CheckActions /\ stage' # "ended"
  BY <1>1, <1>10 DEF Order, CheckActions, Throw, load, gains, maps, commands, observations, actions, run
<1>11. CASE FillTerm /\ stage' = stage
  BY <1>1, <1>11 DEF Order, FillTerm, Throw, load, gains, maps, commands, observations, actions
<1>12. CASE RunModel
  BY <1>1, <1>12 DEF Order, Types, RunModel, load, gains, maps, commands, observations, actions, run
<1>13. CASE ApplyElement /\ stage' = stage
  BY <1>1, <1>13 DEF Order, ApplyElement, Throw, load, gains, maps, commands, observations, actions
<1>14. CASE EndRun
  BY <1>1, <1>14 DEF Order, EndRun, load, gains, maps, commands, observations, actions, run
<1> QED
  BY <1>2, <1>3, <1>4, <1>5, <1>6, <1>7, <1>8, <1>9, <1>10, <1>11, <1>12, <1>13, <1>14, <1>15,
     <1>16
     DEF Next, parse_actuator, parse_policy_gains, MapJoint, ParseCommand, CreateObsTerm,
         CheckObservations, RefuseActionTerm, MatchEntry, EndPattern, CreateActionTerm,
         CheckActions, FillTerm, ApplyElement, Throw

LEMMA ThrowsKept == IInv /\ [Next]_vars => ThrowsIfAllowed'
<1> SUFFICES ASSUME IInv, [Next]_vars PROVE ThrowsIfAllowed'
  OBVIOUS
<1>0. md' = md /\ MayMiss' = MayMiss
  BY Writes, Frame
<1>1. CASE thrown' = thrown
  BY <1>0, <1>1 DEF IInv, ThrowsIfAllowed
<1>2. CASE thrown' = stage /\ stage \notin {"fill", "apply"}
  BY <1>2 DEF ThrowsIfAllowed
<1>3. ASSUME stage \in {"fill", "apply"}, NEW i \in Joints, ~HasRobotJoint(i)
      PROVE  MayMiss
  <2>1. /\ mapped = Len(md.joints) /\ md \in Metadata
        /\ joint_id_policy_to_robot \in [Joints -> RobotIds \cup {-1}]
    BY <1>3 DEF IInv, Types, Order
  <2>2. joint_id_policy_to_robot[i] = RobotId(i) /\ (RobotId(i) # -1 \/ MayMiss)
    BY <1>3, <2>1, Loaded DEF IInv, JointsMapped
  <2>3. RobotIds = 1 .. Len(RobotJoints)
    BY MetadataAssumption DEF RobotIds
  <2>4. RobotId(i) = -1
    BY <1>3, <2>1, <2>2, <2>3 DEF HasRobotJoint
  <2> QED
    BY <2>2, <2>4
<1>4. CASE FillTerm /\ thrown' = stage
  <2> DEFINE m == Len(filled) + 1
             t == obs_terms[m].config
  <2>1. stage = "fill" /\ Len(filled) < Len(obs_terms) /\ thrown \in Stages \cup {"none"}
    BY <1>4 DEF FillTerm, IInv, Types
  <2>2. CASE ~Readable(t)
    <3>1. PICK n \in DOMAIN t.ids : ~HasRobotJoint(t.ids[n])
      BY <2>2 DEF Readable
    <3>2. m \in 1 .. read /\ read = Len(md.observations) /\ md \in Metadata
      <4>1. read = Len(md.observations)
        BY <2>1 DEF IInv, Order
      <4>2. md \in Metadata /\ Len(obs_terms) = read /\ filled \in Seq(Nat) /\ read \in Nat
        <5>1. read \in 0 .. Len(md.observations) /\ md.observations \in Seq(ObsConfigs)
          BY Loaded DEF IInv, Types
        <5> QED
          BY <5>1 DEF IInv, Types
      <4> QED
        BY <2>1, <4>1, <4>2
    <3>3. t = md.observations[m]
      BY <3>2 DEF IInv, SizesRead
    <3>4. m \in DOMAIN md.observations
      BY <3>2, Loaded
    <3>5. t.ids[n] \in Joints
      BY <3>1, <3>2, <3>3, <3>4, Loaded
    <3> QED
      BY <1>0, <1>3, <2>1, <3>1, <3>5 DEF ThrowsIfAllowed
  <2>3. CASE Readable(t)
    BY <1>1, <2>1, <2>3, <1>4 DEF FillTerm
  <2> QED
    BY <2>2, <2>3
<1>5. CASE ApplyElement /\ thrown' = stage
  <2>1. stage = "apply" /\ applied < Len(action_ids)
    BY <1>5 DEF ApplyElement
  <2>2. CASE ~HasRobotJoint(action_ids[applied + 1].id)
    <3>1. applied + 1 \in DOMAIN action_ids /\ action_ids \in Seq(Wires)
      BY <2>1 DEF IInv, Types
    <3>2. action_ids[applied + 1] \in Wires
      BY <3>1, ElementOf
    <3> QED
      BY <1>0, <1>3, <2>1, <2>2, <3>2 DEF ThrowsIfAllowed, Wires
  <2>3. CASE HasRobotJoint(action_ids[applied + 1].id)
    BY <1>1, <2>3, <1>5 DEF ApplyElement
  <2> QED
    BY <2>2, <2>3
<1>6. \/ thrown' = thrown
      \/ thrown' = stage /\ (FillTerm \/ ApplyElement \/ stage \notin {"fill", "apply"})
  BY DEF Next, vars, Throw, parse_actuator, ActuatorsParsed,
     parse_policy_gains, MapJoint, AllMapped, ParseCommand, CommandsParsed, CreateObsTerm,
     CheckObservations, AllRead, RefuseActionTerm, ActionsLeft, MoreActions, MoreLists,
     MorePatterns, MatchEntry, EndPattern, EndList, CreateActionTerm, CheckActions, FillTerm,
     RunModel, ApplyElement, EndRun
<1> QED
  BY <1>1, <1>2, <1>4, <1>5, <1>6

\* The cursor goes on within its term or to the next one.
LEMMA CursorMoves ==
    ASSUME Types, [Next]_vars
    PROVE  /\ cursor' \in [term : Nat \ {0}, list : Nat \ {0}, pattern : Nat \ {0},
                           entry : Nat \ {0}, matching : Nat]
           /\ cursor'.term \in {cursor.term, cursor.term + 1}
<1>1. cursor \in [term : Nat \ {0}, list : Nat \ {0}, pattern : Nat \ {0}, entry : Nat \ {0},
                  matching : Nat]
  BY DEF Types
<1>2. CASE UNCHANGED cursor
  BY <1>1, <1>2
<1>3. cursor' = NextEntry(Matches) \/ cursor' = NextPattern \/ cursor' = NextList
         \/ cursor' = NextTerm \/ UNCHANGED cursor
  BY Writes DEF MatchEntry, EndPattern, EndList, CreateActionTerm, Throw, load, actions
<1>4. CASE cursor' = NextEntry(Matches)
  <2>1. cursor' = [term |-> cursor.term, list |-> cursor.list, pattern |-> cursor.pattern,
                   entry |-> cursor.entry + 1,
                   matching |-> IF Matches THEN cursor.matching + 1 ELSE cursor.matching]
    BY <1>1, <1>4 DEF NextEntry
  <2>2. cursor.matching \in Nat /\ cursor.matching + 1 \in Nat
    BY <1>1
  <2>3. cursor'.matching \in Nat
    BY <2>1, <2>2
  <2> QED
    BY <1>1, <2>1, <2>3
<1>5. CASE cursor' = NextPattern
  <2>1. cursor' = [term |-> cursor.term, list |-> cursor.list, pattern |-> cursor.pattern + 1,
                   entry |-> 1, matching |-> 0]
    BY <1>1, <1>5 DEF NextPattern
  <2> QED
    BY <1>1, <2>1
<1>6. CASE cursor' = NextList
  <2>1. cursor' = [term |-> cursor.term, list |-> cursor.list + 1, pattern |-> 1,
                   entry |-> 1, matching |-> 0]
    BY <1>1, <1>6 DEF NextList
  <2> QED
    BY <1>1, <2>1
<1>7. CASE cursor' = NextTerm
  BY <1>1, <1>7 DEF NextTerm
<1> QED
  BY <1>2, <1>3, <1>4, <1>5, <1>6, <1>7

\* What an action term drives are joints of the policy.
LEMMA DrivesType ==
    ASSUME Types, Resolved
    PROVE  /\ (Omnisteering => WheelsFit) => Drives(Steering) \in Seq(Wires)
           /\ Omnisteering /\ WheelsFit => Drives(Drive) \in Seq(Wires)
<1>1. /\ ids \in [Steering .. Wheels -> Seq(Nat \ {0})] /\ cursor.term \in Nat
      /\ Steering \in Steering .. Wheels /\ Drive \in Steering .. Wheels
      /\ Wheels \in Steering .. Wheels
  BY DEF Types, Steering, Drive, Wheels
<1>2. /\ ids[Steering] \in Seq(Nat \ {0}) /\ ids[Drive] \in Seq(Nat \ {0})
      /\ ids[Wheels] \in Seq(Nat \ {0})
  BY <1>1
<1>3. ASSUME NEW list \in {Steering, Drive}, Omnisteering => Len(ids[list]) = Len(ids[Wheels])
      PROVE  Drives(list) \in Seq(Wires)
  <2>1. DOMAIN ids[list] = 1 .. Len(ids[list]) /\ Len(ids[list]) \in Nat
    BY <1>2
  <2>2. ASSUME NEW n \in 1 .. Len(ids[list])
        PROVE  [term |-> cursor.term, id |-> ids[list][n],
                wheel |-> IF Omnisteering THEN ids[Wheels][n] ELSE 0] \in Wires
    <3>1. ids[list][n] \in Joints
      BY <2>1 DEF Resolved
    <3>2. Omnisteering => ids[Wheels][n] \in Nat
      BY <1>2, <1>3, <2>1, ElementOf
    <3> QED
      BY <1>1, <3>1, <3>2 DEF Wires
  <2> QED
    BY <2>1, <2>2 DEF Drives
<1>4. Omnisteering /\ WheelsFit => Drives(Drive) \in Seq(Wires)
  BY <1>3 DEF WheelsFit
<1>5. (Omnisteering => WheelsFit) => Drives(Steering) \in Seq(Wires)
  BY <1>3 DEF WheelsFit
<1> QED
  BY <1>4, <1>5

LEMMA TypesKept == IInv /\ [Next]_vars => Types'
<1> SUFFICES ASSUME IInv, [Next]_vars PROVE Types'
  OBVIOUS
<1>0. md' = md /\ md' \in Metadata /\ Joints' = Joints /\ RobotIds' = RobotIds /\ Types
  BY Writes, Frame DEF IInv, Types, RobotIds
<1>1. stage' \in Stages
  BY <1>0 DEF Types, Stages, Next, vars, Throw, parse_actuator, ActuatorsParsed,
     parse_policy_gains, MapJoint, AllMapped, ParseCommand, CommandsParsed, CreateObsTerm,
     CheckObservations, AllRead, RefuseActionTerm, ActionsLeft, MoreActions, MoreLists,
     MorePatterns, MatchEntry, EndPattern, EndList, CreateActionTerm, CheckActions, FillTerm,
     RunModel, ApplyElement, EndRun
<1>2. thrown' \in (Stages \ {"sent", "ended"}) \cup {"none"}
  BY <1>0 DEF Types, Stages, Next, vars, Throw, parse_actuator, ActuatorsParsed,
     parse_policy_gains, MapJoint, AllMapped, ParseCommand, CommandsParsed, CreateObsTerm,
     CheckObservations, AllRead, RefuseActionTerm, ActionsLeft, MoreActions, MoreLists,
     MorePatterns, MatchEntry, EndPattern, EndList, CreateActionTerm, CheckActions, FillTerm,
     RunModel, ApplyElement, EndRun
<1>3. /\ actuator' \in 0 .. Len(md'.actuators)
      /\ stiffness' \in [Joints' -> Int] /\ damping' \in [Joints' -> Int]
  <2>1. CASE UNCHANGED <<actuator, assigned, stiffness, damping>>
    BY <1>0, <2>1 DEF Types
  <2>2. CASE parse_actuator /\ ~UNCHANGED <<actuator, assigned, stiffness, damping>>
    <3> DEFINE a == md.actuators[actuator + 1]
    <3>1. /\ actuator < Len(md.actuators) /\ actuator' = actuator + 1 /\ Assignable(a)
          /\ stiffness' = [i \in Joints |->
                             IF i \in Matched(a) THEN Stiffness(a, i) ELSE stiffness[i]]
          /\ damping' = [i \in Joints |->
                             IF i \in Matched(a) THEN resolve_gain(a.damping, i) ELSE damping[i]]
      BY <2>2 DEF parse_actuator, Throw, load, gains
    <3>2. md.actuators \in Seq(Actuators)
      BY <1>0, Loaded
    <3>3. actuator + 1 \in DOMAIN md.actuators /\ actuator' \in 0 .. Len(md.actuators)
      BY <1>0, <3>1, <3>2 DEF Types
    <3>4. a \in Actuators
      BY <3>2, <3>3, ElementOf
    <3>5. \A i \in Matched(a) : Stiffness(a, i) \in Int /\ resolve_gain(a.damping, i) \in Int
      BY <3>1, <3>4, StiffnessType DEF Assignable
    <3>6. \A i \in Joints : stiffness[i] \in Int /\ damping[i] \in Int
      BY <1>0 DEF Types
    <3> QED
      BY <1>0, <3>1, <3>3, <3>5, <3>6
  <2>3. CASE parse_policy_gains /\ ~UNCHANGED <<actuator, assigned, stiffness, damping>>
    <3>1. OneGainEach /\ stiffness' = md.joint_stiffness /\ damping' = md.joint_damping
          /\ actuator' = actuator
      BY <2>3 DEF parse_policy_gains, Throw, load, gains
    <3>2. /\ md.joint_stiffness \in Seq(Int) /\ md.joint_damping \in Seq(Int)
          /\ Joints = 1 .. Len(md.joints)
      BY <1>0, Loaded
    <3>3. stiffness' \in [Joints -> Int] /\ damping' \in [Joints -> Int]
      BY <3>1, <3>2 DEF OneGainEach
    <3> QED
      BY <1>0, <3>1, <3>3 DEF Types
  <2> QED
    BY <2>1, <2>2, <2>3, Writes
<1>4. mapped' \in 0 .. Len(md'.joints) /\ joint_id_policy_to_robot' \in [Joints' -> RobotIds' \cup {-1}]
  <2>1. CASE UNCHANGED <<mapped, joint_id_policy_to_robot>>
    BY <1>0, <2>1 DEF Types
  <2>2. CASE MapJoint /\ ~UNCHANGED <<mapped, joint_id_policy_to_robot>>
    <3>1. /\ mapped' = mapped + 1 /\ mapped < Len(md.joints)
          /\ joint_id_policy_to_robot' =
                [joint_id_policy_to_robot EXCEPT ![mapped + 1] = RobotId(mapped + 1)]
      BY <2>2 DEF MapJoint, Throw, load, gains, maps, commands, observations, actions
    <3>2. mapped \in 0 .. Len(md.joints) /\ md.joints \in Seq(Names)
      BY <1>0, Loaded DEF Types
    <3>3. mapped' \in 0 .. Len(md.joints) /\ mapped + 1 \in Joints
      BY <3>1, <3>2, <1>0, Loaded
    <3>4. RobotId(mapped + 1) \in RobotIds \cup {-1}
      BY <1>0, <3>3, RobotIdType
    <3> QED
      BY <1>0, <3>1, <3>3, <3>4 DEF Types
  <2> QED
    BY <2>1, <2>2, Writes
<1>5. parsed' \in 0 .. Len(md'.commands) /\ command_size' \in [CommandNames -> Nat \cup {-1}]
  <2>1. CASE UNCHANGED <<parsed, command_size>>
    BY <1>0, <2>1 DEF Types
  <2>2. CASE ParseCommand /\ ~UNCHANGED <<parsed, command_size>>
    <3> DEFINE c == md.commands[parsed + 1]
    <3>1. /\ parsed < Len(md.commands) /\ parsed' = parsed + 1
          /\ command_size' = [command_size EXCEPT ![c.name] = Cardinality(Pairs(c))]
      BY <2>2 DEF ParseCommand, Throw, load, commands
    <3>2. md.commands \in Seq(CommandConfigs)
      BY <1>0, Loaded
    <3>3. parsed + 1 \in DOMAIN md.commands /\ parsed' \in 0 .. Len(md.commands)
      BY <1>0, <3>1, <3>2 DEF Types
    <3>4. c \in CommandConfigs
      BY <3>2, <3>3, ElementOf
    <3>5. Cardinality(Pairs(c)) \in Nat
      BY <3>4, PairsType
    <3>6. command_size \in [CommandNames -> Nat \cup {-1}]
      BY <1>0 DEF Types
    <3> QED
      BY <1>0, <3>1, <3>3, <3>5, <3>6
  <2> QED
    BY <2>1, <2>2, Writes
<1>6. /\ height_scan_size' \in Int /\ sensor_specs' \in Seq(Nat)
      /\ read' \in 0 .. Len(md'.observations)
      /\ obs_terms' \in Seq([config : ObsConfigs, size : Nat]) /\ Len(obs_terms') = read'
      /\ obs_size' \in Nat /\ declared' \in Seq(Nat) /\ Len(declared') = read'
      /\ read <= read'
  <2>1. CASE UNCHANGED <<height_scan_size, read, obs_terms, obs_size, sensor_specs, declared>>
    BY <1>0, <2>1 DEF Types
  <2>2. CASE CreateObsTerm /\ ~UNCHANGED <<height_scan_size, read, obs_terms, obs_size,
                                           sensor_specs, declared>>
    <3> DEFINE t == md.observations[read + 1]
               size == Elements(t, height_scan_size)
    <3>1. /\ read < Len(md.observations) /\ Creates(t) /\ read' = read + 1
          /\ obs_terms' = Append(obs_terms, [config |-> t, size |-> size])
          /\ obs_size' = obs_size + size
          /\ declared' = Append(declared, LastOf(declared) + Elements(t, LastOf(md.scene)))
          /\ \/ height_scan_size' = LastOf(md.scene) /\ sensor_specs' = sensor_specs \o md.scene
             \/ UNCHANGED <<height_scan_size, sensor_specs>>
      BY <2>2 DEF CreateObsTerm, Throw, load, gains, maps, commands, observations, actions
    <3>2. md.observations \in Seq(ObsConfigs) /\ md.scene \in Seq(Nat) /\ LastOf(md.scene) \in Nat
      BY <1>0, Loaded, LastOfType
    <3>3. read + 1 \in DOMAIN md.observations
      BY <1>0, <3>1, <3>2 DEF Types
    <3>4. t \in ObsConfigs
      BY <3>2, <3>3, ElementOf
    <3>5. size \in Nat /\ Elements(t, LastOf(md.scene)) \in Nat
      BY <1>0, <3>1, <3>4, Created
    <3>6. LastOf(declared) \in Nat
      BY <1>0, LastOfType DEF Types
    <3>7. /\ height_scan_size \in Int /\ sensor_specs \in Seq(Nat) /\ read \in Nat
          /\ obs_terms \in Seq([config : ObsConfigs, size : Nat]) /\ Len(obs_terms) = read
          /\ obs_size \in Nat /\ declared \in Seq(Nat) /\ Len(declared) = read
      BY <1>0 DEF Types
    <3>8. height_scan_size' \in Int
      BY <3>1, <3>2, <3>7
    <3>9. sensor_specs' \in Seq(Nat)
      <4>1. sensor_specs \o md.scene \in Seq(Nat)
        BY <3>2, <3>7
      <4> QED
        BY <3>1, <3>7, <4>1
    <3>10. obs_terms' \in Seq([config : ObsConfigs, size : Nat]) /\ Len(obs_terms') = read'
      BY <3>1, <3>4, <3>5, <3>7
    <3>11. LastOf(declared) + Elements(t, LastOf(md.scene)) \in Nat
      BY <3>5, <3>6
    <3>12. declared' \in Seq(Nat) /\ Len(declared') = read'
      BY <3>1, <3>7, <3>11
    <3>13. obs_size' \in Nat
      BY <3>1, <3>5, <3>7
    <3>14. read' \in 0 .. Len(md'.observations) /\ read <= read'
      BY <1>0, <3>1, <3>2, <3>7
    <3> QED
      BY <3>8, <3>9, <3>10, <3>12, <3>13, <3>14
  <2> QED
    BY <2>1, <2>2, Writes
<1>7. cursor' \in [term : Nat \ {0}, list : Nat \ {0}, pattern : Nat \ {0},
                   entry : Nat \ {0}, matching : Nat]
  BY <1>0, CursorMoves
<1>11. ids' \in [Steering .. Wheels -> Seq(Nat \ {0})]
  <2>1. ids \in [Steering .. Wheels -> Seq(Nat \ {0})] /\ cursor.entry \in Nat \ {0}
    BY <1>0 DEF Types
  <2>2. \/ UNCHANGED ids
        \/ ids' = [ids EXCEPT ![cursor.list] = Append(@, cursor.entry)]
        \/ ids' = [list \in Steering .. Wheels |-> <<>>]
    BY Writes DEF MatchEntry, CreateActionTerm, Throw, load, actions
  <2>3. ASSUME NEW s \in Seq(Nat \ {0}) PROVE Append(s, cursor.entry) \in Seq(Nat \ {0})
    BY <2>1
  <2>4. CASE ids' = [ids EXCEPT ![cursor.list] = Append(@, cursor.entry)]
    <3>1. \A list \in Steering .. Wheels : ids[list] \in Seq(Nat \ {0})
      BY <2>1
    <3>2. \A list \in Steering .. Wheels :
             ids'[list] = ids[list] \/ ids'[list] = Append(ids[list], cursor.entry)
      BY <2>1, <2>4
    <3>3. \A list \in Steering .. Wheels : ids'[list] \in Seq(Nat \ {0})
      BY <2>3, <3>1, <3>2
    <3>4. ids' = [list \in Steering .. Wheels |-> ids'[list]]
      BY <2>1, <2>4
    <3> QED
      BY <3>3, <3>4
  <2>5. CASE ids' = [list \in Steering .. Wheels |-> <<>>]
    <3>1. <<>> \in Seq(Nat \ {0})
      OBVIOUS
    <3> QED
      BY <2>5, <3>1
  <2> QED
    BY <2>1, <2>2, <2>4, <2>5
<1>8. action_ids' \in Seq(Wires') /\ Len(action_ids) <= Len(action_ids')
  <2>1. action_ids \in Seq(Wires) /\ Wires' = Wires
    BY <1>0 DEF Types, Wires
  <2>2. CASE UNCHANGED action_ids
    BY <2>1, <2>2
  <2>3. CASE CreateActionTerm /\ ~UNCHANGED action_ids
    <3>1. /\ (Omnisteering => WheelsFit) => Drives(Steering) \in Seq(Wires)
          /\ Omnisteering /\ WheelsFit => Drives(Drive) \in Seq(Wires)
      BY DrivesType DEF IInv
    <3>2. /\ Omnisteering => WheelsFit
          /\ action_ids' = action_ids \o Drives(Steering)
                              \o (IF Omnisteering THEN Drives(Drive) ELSE <<>>)
      BY <2>3 DEF CreateActionTerm, Throw, load, actions
    <3>3. CASE Omnisteering
      BY <2>1, <3>1, <3>2, <3>3, Joined
    <3>4. CASE ~Omnisteering
      <4>1. <<>> \in Seq(Wires)
        OBVIOUS
      <4> QED
        BY <2>1, <3>1, <3>2, <3>4, <4>1, Joined
    <3> QED
      BY <3>3, <3>4
  <2> QED
    BY <2>2, <2>3, Writes
<1>9. filled' \in Seq(Nat) /\ Len(filled') <= read' /\ offset' \in Nat
  <2>1. CASE UNCHANGED <<filled, offset>>
    BY <1>0, <1>6, <2>1 DEF Types
  <2>2. CASE FillTerm /\ ~UNCHANGED <<filled, offset>>
    <3> DEFINE t == obs_terms[Len(filled) + 1].config
    <3>1. /\ Len(filled) < Len(obs_terms) /\ read' = read /\ stage = "fill"
          /\ filled' = Append(filled, Elements(t, Scan)) /\ offset' = offset + Elements(t, Scan)
      BY <2>2 DEF FillTerm, Throw, load, gains, maps, commands, observations, actions, run
    <3>2. Len(filled) + 1 \in 1 .. read
      BY <1>0, <3>1 DEF Types
    <3>3. t = md.observations[Len(filled) + 1] /\ Due(Len(filled) + 1) \in Nat
          /\ (t.func = "height_scan" => Scan = LastOf(md.scene))
      BY <3>2 DEF IInv, SizesRead, Scan
    <3>4. md.observations \in Seq(ObsConfigs) /\ Len(filled) + 1 \in DOMAIN md.observations
      <4>1. md.observations \in Seq(ObsConfigs) /\ read \in 0 .. Len(md.observations)
        BY <1>0, Loaded DEF Types
      <4> QED
        BY <3>2, <4>1
    <3>5. t \in ObsConfigs
      BY <3>3, <3>4, ElementOf
    <3>6. Elements(t, Scan) \in Nat
      BY <3>3, <3>5, ElementsOfOthers DEF Due
    <3>7. filled \in Seq(Nat) /\ offset \in Nat /\ Len(obs_terms) = read /\ read \in Nat
      BY <1>0 DEF Types
    <3>8. filled' \in Seq(Nat) /\ Len(filled') = Len(filled) + 1
      BY <3>1, <3>6, <3>7
    <3> QED
      BY <3>1, <3>6, <3>7, <3>8
  <2> QED
    BY <2>1, <2>2, Writes
<1>10. /\ applied' \in 0 .. Len(action_ids')
       /\ source' \in [RobotIds' -> 0 .. applied']
       /\ k_des' \in [RobotIds' -> Int] /\ d_des' \in [RobotIds' -> Int]
  <2>1. CASE UNCHANGED <<applied, source, k_des, d_des>>
    BY <1>0, <1>8, <2>1 DEF Types
  <2>2. CASE ApplyElement /\ ~UNCHANGED <<applied, source, k_des, d_des>>
    <3> DEFINE i == action_ids[applied + 1].id
               r == joint_id_policy_to_robot[i]
    <3>1. /\ applied < Len(action_ids) /\ action_ids' = action_ids
          /\ applied' = applied + 1 /\ source' = [source EXCEPT ![r] = applied + 1]
          /\ k_des' = [k_des EXCEPT ![r] = stiffness[i]]
          /\ d_des' = [d_des EXCEPT ![r] = damping[i]]
      BY <2>2 DEF ApplyElement, Throw, load, gains, maps, commands, observations, actions, run
    <3>2. applied + 1 \in DOMAIN action_ids /\ action_ids \in Seq(Wires)
      BY <1>0, <3>1 DEF Types
    <3>3. action_ids[applied + 1] \in Wires
      BY <3>2, ElementOf
    <3>4. stiffness[i] \in Int /\ damping[i] \in Int
      BY <1>0, <3>3 DEF Types, Wires
    <3>5. applied' \in 0 .. Len(action_ids') /\ applied \in Nat
      BY <1>0, <3>1, <3>2 DEF Types
    <3>6. source' \in [RobotIds -> 0 .. applied']
      <4>1. source \in [RobotIds -> 0 .. applied]
        BY <1>0 DEF Types
      <4>2. 0 .. applied \subseteq 0 .. applied' /\ applied + 1 \in 0 .. applied'
        BY <3>1, <3>5
      <4> QED
        BY <3>1, <4>1, <4>2
    <3> QED
      BY <1>0, <3>1, <3>4, <3>5, <3>6 DEF Types
  <2> QED
    BY <2>1, <2>2, Writes
<1> QED
  BY <1>0, <1>1, <1>2, <1>3, <1>4, <1>5, <1>6, <1>7, <1>8, <1>9, <1>10, <1>11 DEF Types, Stages

\* What the cursor's steps leave of the term that is read.
LEMMA ResolvedKept == IInv /\ [Next]_vars => Resolved'
<1> SUFFICES ASSUME IInv, [Next]_vars PROVE Resolved'
  OBVIOUS
<1>0. /\ md' = md /\ md \in Metadata /\ Joints' = Joints
      /\ \A t, list, i : Listed(t, list, i)' = Listed(t, list, i)
  BY Writes, Frame DEF IInv, Types
<1>1. /\ cursor \in [term : Nat \ {0}, list : Nat \ {0}, pattern : Nat \ {0}, entry : Nat \ {0},
                     matching : Nat]
      /\ ids \in [Steering .. Wheels -> Seq(Nat \ {0})]
      /\ Steering .. Wheels = {Steering, Drive, Wheels}
      /\ Wheels # Steering /\ Wheels # Drive
  BY DEF IInv, Types, Steering, Drive, Wheels
<1>2. CASE ids' = ids /\ cursor'.term = cursor.term
  <2>1. Omnisteering' = Omnisteering
    BY <1>0, <1>2 DEF Omnisteering, Action
  <2>2. Resolved
    BY DEF IInv
  <2> QED
    BY <1>0, <1>2, <2>1, <2>2 DEF Resolved
<1>3. CASE ids' = [list \in Steering .. Wheels |-> <<>>]
  BY <1>1, <1>3 DEF Resolved
<1>4. CASE /\ MatchEntry /\ Matches /\ ~Repeated
           /\ ids' = [ids EXCEPT ![cursor.list] = Append(@, cursor.entry)]
           /\ cursor' = NextEntry(Matches)
  <2> DEFINE l == cursor.list
  <2>1. /\ cursor.term \in DOMAIN md.actions /\ cursor.list <= Len(Action.expressions)
        /\ cursor.pattern <= Len(Action.expressions[l]) /\ cursor.entry <= Len(Inventory)
        /\ Accepts(Action)
    <3>1. md.actions \in Seq(ActionConfigs)
      BY <1>0, Loaded
    <3> QED
      BY <1>1, <1>4, <3>1 DEF MatchEntry, MorePatterns, MoreLists, MoreActions, ActionsLeft, Action
  <2>2. Len(Action.expressions) \in 1 .. 3 /\ Action \in ActionConfigs
        /\ (Action.class = "joints" => Len(Action.expressions) = 1)
        /\ (Action.class = "omnisteering" => Len(Action.expressions) = 3)
    <3>1. md.actions \in Seq(ActionConfigs)
      BY <1>0, Loaded
    <3>2. Action \in ActionConfigs
      BY <2>1, <3>1, ElementOf DEF Action
    <3>3. /\ Action.class = "joints" => Len(Action.expressions) = 1
          /\ Action.class = "omnisteering" => Len(Action.expressions) = 3
      BY <1>0, <2>1, Loaded DEF Action
    <3> QED
      BY <2>1, <3>2, <3>3 DEF Accepts
  <2>3. l \in Steering .. Wheels
    BY <1>1, <2>1, <2>2 DEF Steering, Wheels
  <2>4. l # Wheels => cursor.entry \in Joints /\ md.joints[cursor.entry] \in Action.expressions[l][cursor.pattern]
    BY <1>0, <1>1, <1>4, <2>1, Loaded DEF Inventory, Matches
  <2>5. l # Wheels => Listed(cursor.term, l, cursor.entry)
    <3>1. Action.expressions \in Seq(Seq(SUBSET Names))
      BY <2>2 DEF ActionConfigs
    <3>2. l \in DOMAIN Action.expressions
      BY <1>1, <2>1, <3>1
    <3>3. Action.expressions[l] \in Seq(SUBSET Names)
      BY <3>1, <3>2, ElementOf
    <3>4. cursor.pattern \in DOMAIN Action.expressions[l]
      BY <1>1, <2>1, <3>3
    <3> QED
      BY <2>4, <3>4 DEF Listed, Action
  <2>6. /\ cursor'.term = cursor.term /\ Omnisteering' = Omnisteering
    BY <1>0, <1>1, <1>4 DEF NextEntry, Omnisteering, Action
  <2>7. /\ ids'[l] = Append(ids[l], cursor.entry) /\ ids[l] \in Seq(Nat \ {0})
        /\ \A list \in Steering .. Wheels : list # l => ids'[list] = ids[list]
    BY <1>1, <1>4, <2>3
  <2>8. /\ DOMAIN ids'[l] = 1 .. Len(ids[l]) + 1 /\ DOMAIN ids[l] = 1 .. Len(ids[l])
        /\ Len(ids[l]) \in Nat /\ ids'[l][Len(ids[l]) + 1] = cursor.entry
        /\ \A n \in DOMAIN ids[l] : ids'[l][n] = ids[l][n]
    BY <1>1, <2>7
  <2>9. \A n \in DOMAIN ids'[l] : n \in DOMAIN ids[l] \/ n = Len(ids[l]) + 1
    BY <2>8
  <2>10. ASSUME NEW list \in {Steering, Drive}, NEW n \in DOMAIN ids'[list]
         PROVE  ids'[list][n] \in Joints'
    <3>1. list \in Steering .. Wheels /\ list # Wheels
      BY <1>1
    <3>2. \A k \in DOMAIN ids[list] : ids[list][k] \in Joints
      BY DEF IInv, Resolved
    <3>3. CASE list # l
      BY <1>0, <2>7, <2>10, <3>1, <3>2, <3>3
    <3>4. CASE list = l
      BY <1>0, <2>4, <2>8, <2>9, <2>10, <3>1, <3>2, <3>4
    <3> QED
      BY <3>3, <3>4
  <2>11. ASSUME cursor.term \in DOMAIN md.actions, Omnisteering, NEW list \in Steering .. Wheels
         PROVE  /\ \A n, m \in DOMAIN ids'[list] : ids'[list][n] = ids'[list][m] => n = m
                /\ list # Wheels =>
                      \A n \in DOMAIN ids'[list] : Listed(cursor.term, list, ids'[list][n])
    <3>1. /\ \A n, m \in DOMAIN ids[list] : ids[list][n] = ids[list][m] => n = m
          /\ list # Wheels => \A n \in DOMAIN ids[list] : Listed(cursor.term, list, ids[list][n])
      BY <2>11 DEF IInv, Resolved
    <3>2. CASE list # l
      BY <2>7, <3>1, <3>2
    <3>3. CASE list = l
      <4>1. \A n \in DOMAIN ids[l] : ids[l][n] # cursor.entry
        BY <1>4, <2>11 DEF Repeated
      <4>2. \A n, m \in DOMAIN ids'[l] : ids'[l][n] = ids'[l][m] => n = m
        BY <2>8, <2>9, <3>1, <3>3, <4>1
      <4>3. l # Wheels => \A n \in DOMAIN ids'[l] : Listed(cursor.term, l, ids'[l][n])
        BY <2>5, <2>8, <2>9, <3>1, <3>3
      <4> QED
        BY <3>3, <4>2, <4>3
    <3> QED
      BY <3>2, <3>3
  <2> QED
    BY <1>0, <2>6, <2>10, <2>11 DEF Resolved
<1>5. \/ ids' = ids /\ cursor'.term = cursor.term
      \/ ids' = [list \in Steering .. Wheels |-> <<>>]
      \/ /\ MatchEntry /\ Matches /\ ~Repeated
         /\ ids' = [ids EXCEPT ![cursor.list] = Append(@, cursor.entry)]
         /\ cursor' = NextEntry(Matches)
  <2>1. CASE UNCHANGED <<ids, cursor>>
    BY <2>1
  <2>2. CASE MatchEntry /\ ~UNCHANGED <<ids, cursor>>
    <3>1. /\ cursor' = NextEntry(Matches) /\ ~(Matches /\ Repeated)
          /\ ids' = IF Matches THEN [ids EXCEPT ![cursor.list] = Append(@, cursor.entry)] ELSE ids
      BY <2>2 DEF MatchEntry, Throw, load, actions
    <3>2. cursor'.term = cursor.term
      BY <1>1, <3>1 DEF NextEntry
    <3> QED
      BY <2>2, <3>1, <3>2
  <2>3. CASE (EndPattern \/ EndList) /\ ~UNCHANGED <<ids, cursor>>
    <3>1. ids' = ids /\ (cursor' = NextPattern \/ cursor' = NextList)
      BY <2>3 DEF EndPattern, EndList, Throw, load, actions
    <3> QED
      BY <1>1, <3>1 DEF NextPattern, NextList
  <2>4. CASE CreateActionTerm /\ ~UNCHANGED <<ids, cursor>>
    BY <2>4 DEF CreateActionTerm, Throw, load, actions
  <2> QED
    BY <2>1, <2>2, <2>3, <2>4, Writes
<1> QED
  BY <1>2, <1>3, <1>4, <1>5

LEMMA WiredKept == IInv /\ [Next]_vars => TermsWired'
<1> SUFFICES ASSUME IInv, [Next]_vars PROVE TermsWired'
  OBVIOUS
<1>0. /\ md' = md /\ md \in Metadata /\ cursor.term \in Nat /\ action_ids \in Seq(Wires)
      /\ \A t, list, i : Listed(t, list, i)' = Listed(t, list, i)
  BY Writes, Frame DEF IInv, Types
<1>1. TermsWired
  BY DEF IInv
<1>2. DOMAIN action_ids = 1 .. Len(action_ids) /\ Len(action_ids) \in Nat
  BY <1>0
<1>3. \A e \in DOMAIN action_ids : action_ids[e].term \in Nat
  <2>1. \A e \in DOMAIN action_ids : action_ids[e] \in Wires
    BY <1>0, ElementOf
  <2> QED
    BY <2>1 DEF Wires
<1>4. CASE /\ UNCHANGED action_ids /\ cursor'.term \in {cursor.term, cursor.term + 1}
           /\ joint_id_policy_to_robot' = joint_id_policy_to_robot \/ action_ids = <<>>
  <2>1. CASE action_ids = <<>>
    BY <1>4, <2>1 DEF TermsWired
  <2>2. CASE joint_id_policy_to_robot' = joint_id_policy_to_robot
    <3>1. ASSUME NEW e \in DOMAIN action_ids
          PROVE  TermOf(e)' = TermOf(e) /\ WheelOf(e)' = WheelOf(e)
      BY <1>4 DEF TermOf, WheelOf
    <3>2. \A e, list : In(e, list)' = In(e, list)
      BY <1>0, <1>4 DEF In
    <3>3. ASSUME NEW e \in DOMAIN action_ids, Wired(e) PROVE Wired(e)'
      BY <1>4, <2>2, <3>1, <3>2, <3>3 DEF Wired, HasRobotJoint
    <3>4. ASSUME NEW e \in DOMAIN action_ids PROVE action_ids[e].term < cursor'.term
      BY <1>0, <1>1, <1>3, <1>4 DEF TermsWired
    <3> QED
      BY <1>1, <1>4, <3>3, <3>4 DEF TermsWired
  <2> QED
    BY <1>4, <2>1, <2>2
<1>5. CASE CreateActionTerm /\ ~UNCHANGED action_ids
  <2> DEFINE k == Len(action_ids)
             a == Drives(Steering)
             b == IF Omnisteering THEN Drives(Drive) ELSE <<>>
             w == Len(ids[Wheels])
  <2>1. /\ stage = "actions" /\ (Omnisteering => WheelsFit) /\ action_ids' = action_ids \o a \o b
        /\ cursor' = NextTerm /\ joint_id_policy_to_robot' = joint_id_policy_to_robot
        /\ cursor.term <= Len(md.actions) /\ cursor.term # 0
    BY <1>5 DEF CreateActionTerm, MoreActions, ActionsLeft, Throw, load, actions, maps, IInv, Types
  <2>2. a \in Seq(Wires) /\ b \in Seq(Wires)
    <3>1. /\ (Omnisteering => WheelsFit) => Drives(Steering) \in Seq(Wires)
          /\ Omnisteering /\ WheelsFit => Drives(Drive) \in Seq(Wires)
      BY DrivesType DEF IInv
    <3>2. <<>> \in Seq(Wires)
      OBVIOUS
    <3> QED
      BY <2>1, <3>1, <3>2
  <2>3. /\ DOMAIN action_ids' = 1 .. k + Len(a) + Len(b) /\ Len(a) \in Nat /\ Len(b) \in Nat
        /\ \A e \in 1 .. k : action_ids'[e] = action_ids[e]
        /\ \A n \in 1 .. Len(a) : action_ids'[k + n] = a[n]
        /\ \A n \in 1 .. Len(b) : action_ids'[k + Len(a) + n] = b[n]
        /\ k \in Nat
    <3> HIDE DEF a, b
    <3> QED
      BY <1>0, <2>1, <2>2, Joined
  <2>4. /\ \A n \in 1 .. Len(a) : a[n].term = cursor.term /\ (~Omnisteering => a[n].wheel = 0)
        /\ \A n \in 1 .. Len(b) : b[n].term = cursor.term /\ Omnisteering
    <3>1. \A n \in DOMAIN a : a[n].term = cursor.term /\ (~Omnisteering => a[n].wheel = 0)
      BY DEF Drives
    <3>2. \A n \in DOMAIN b : b[n].term = cursor.term /\ Omnisteering
      BY DEF Drives
    <3>3. DOMAIN a = 1 .. Len(a) /\ DOMAIN b = 1 .. Len(b)
      <4> HIDE DEF a, b
      <4> QED
        BY <2>2
    <3> QED
      BY <3>1, <3>2, <3>3
  <2>5. cursor'.term = cursor.term + 1
    BY <2>1 DEF NextTerm
  <2>13. 1 .. k = DOMAIN action_ids /\ Len(a) \in Nat /\ Len(b) \in Nat
    BY <1>2, <2>3
  <2> HIDE DEF a, b, k, w
  <2>6. \A e \in DOMAIN action_ids' :
           e \in 1 .. k \/ (\E n \in 1 .. Len(a) : e = k + n)
              \/ (\E n \in 1 .. Len(b) : e = k + Len(a) + n)
    <3> SUFFICES ASSUME NEW e \in DOMAIN action_ids', e \notin 1 .. k
                 PROVE  \/ \E n \in 1 .. Len(a) : e = k + n
                        \/ \E n \in 1 .. Len(b) : e = k + Len(a) + n
      OBVIOUS
    <3>1. e \in Int /\ (e - k \in 1 .. Len(a) \/ e - k - Len(a) \in 1 .. Len(b))
      BY <2>3
    <3>2. e = k + (e - k) /\ e = k + Len(a) + (e - k - Len(a))
      BY <2>3, <3>1
    <3> QED
      BY <3>1, <3>2
  <2>7. \A e \in DOMAIN action_ids' : e \notin 1 .. k => action_ids'[e].term = cursor.term
    <3> SUFFICES ASSUME NEW e \in DOMAIN action_ids', e \notin 1 .. k
                 PROVE  action_ids'[e].term = cursor.term
      OBVIOUS
    <3>1. CASE \E n \in 1 .. Len(a) : e = k + n
      BY <2>3, <2>4, <3>1
    <3>2. CASE \E n \in 1 .. Len(b) : e = k + Len(a) + n
      BY <2>3, <2>4, <3>2
    <3> QED
      BY <2>6, <3>1, <3>2
  <2>8. \A e \in 1 .. k : action_ids'[e].term # cursor.term /\ action_ids'[e].term < cursor.term
    <3> SUFFICES ASSUME NEW e \in 1 .. k
                 PROVE  action_ids'[e].term # cursor.term /\ action_ids'[e].term < cursor.term
      OBVIOUS
    <3>1. e \in DOMAIN action_ids /\ action_ids'[e] = action_ids[e]
      BY <2>3, <2>13
    <3>2. action_ids[e].term < cursor.term /\ action_ids[e].term \in Nat
      BY <1>1, <1>3, <3>1 DEF TermsWired
    <3> QED
      BY <1>0, <3>1, <3>2
  <2>9. \A e \in DOMAIN action_ids' : action_ids'[e].term < cursor'.term
    <3>1. cursor.term < cursor.term + 1 /\ \A t \in Nat : t < cursor.term => t < cursor.term + 1
      BY <1>0
    <3>2. \A e \in 1 .. k : action_ids'[e].term \in Nat
      BY <1>3, <2>3, <2>13
    <3> QED
      BY <2>5, <2>7, <2>8, <3>1, <3>2
  <2>10. ASSUME NEW e \in 1 .. k, Wired(e) PROVE Wired(e)'
    <3>1. TermOf(e)' = TermOf(e)
      <4>1. \A f \in DOMAIN action_ids' : action_ids'[f].term = action_ids'[e].term => f \in 1 .. k
        BY <2>7, <2>8
      <4>2. \A f \in 1 .. k : f \in DOMAIN action_ids'
        BY <2>3
      <4> QED
        BY <2>3, <2>13, <4>1, <4>2 DEF TermOf
    <3>2. TermOf(e) \subseteq 1 .. k
      BY <2>13 DEF TermOf
    <3>3. WheelOf(e)' = WheelOf(e)
      BY <2>3, <3>1, <3>2 DEF WheelOf
    <3>4. \A f \in 1 .. k, list \in {Steering, Drive} : In(f, list)' = In(f, list)
      BY <1>0, <2>3 DEF In, Steering, Drive
    <3>5. WheelOf(e) \subseteq 1 .. k
      BY <3>2 DEF WheelOf
    <3>6. HasRobotJoint(action_ids[e].id)'
      BY <2>1, <2>3, <2>10 DEF Wired, HasRobotJoint
    <3>7. \A f \in TermOf(e)' : action_ids'[f].id = action_ids'[e].id => f = e
      BY <2>3, <2>10, <3>1, <3>2 DEF Wired
    <3>8. PICK s, d \in WheelOf(e) : WheelOf(e) = {s, d} /\ s # d /\ In(s, Steering) /\ In(d, Drive)
      BY <2>10 DEF Wired
    <3>9. In(s, Steering)' /\ In(d, Drive)'
      BY <3>4, <3>5, <3>8
    <3>10. \E x, y \in WheelOf(e)' : WheelOf(e)' = {x, y} /\ x # y /\ In(x, Steering)' /\ In(y, Drive)'
      BY <3>3, <3>8, <3>9
    <3> QED
      BY <3>6, <3>7, <3>10 DEF Wired
  <2>11. ASSUME Omnisteering, NEW e \in DOMAIN action_ids', e \notin 1 .. k PROVE Wired(e)'
    <3>1. /\ ids \in [Steering .. Wheels -> Seq(Nat \ {0})]
          /\ Steering .. Wheels = {Steering, Drive, Wheels} /\ Drive # Wheels /\ Steering # Wheels
      BY DEF IInv, Types, Steering, Drive, Wheels
    <3>2. /\ WheelsFit /\ w \in Nat
          /\ DOMAIN ids[Steering] = 1 .. w /\ DOMAIN ids[Drive] = 1 .. w /\ DOMAIN ids[Wheels] = 1 .. w
          /\ ids[Steering] \in Seq(Nat \ {0}) /\ ids[Drive] \in Seq(Nat \ {0})
          /\ ids[Wheels] \in Seq(Nat \ {0})
      BY <2>1, <2>11, <3>1 DEF WheelsFit, w
    <3>3. a = [n \in 1 .. w |-> [term |-> cursor.term, id |-> ids[Steering][n], wheel |-> ids[Wheels][n]]]
      BY <2>11, <3>2 DEF a, Drives
    <3>4. b = [n \in 1 .. w |-> [term |-> cursor.term, id |-> ids[Drive][n], wheel |-> ids[Wheels][n]]]
      BY <2>11, <3>2 DEF b, Drives
    <3>5. Len(a) = w /\ Len(b) = w
      BY <2>2, <3>2, <3>3, <3>4
    <3>6. \A n \in 1 .. w :
             /\ action_ids'[k + n].term = cursor.term /\ action_ids'[k + w + n].term = cursor.term
             /\ action_ids'[k + n].id = ids[Steering][n] /\ action_ids'[k + w + n].id = ids[Drive][n]
             /\ action_ids'[k + n].wheel = ids[Wheels][n]
             /\ action_ids'[k + w + n].wheel = ids[Wheels][n]
      <4> SUFFICES ASSUME NEW n \in 1 .. w
                   PROVE  /\ action_ids'[k + n].term = cursor.term
                          /\ action_ids'[k + w + n].term = cursor.term
                          /\ action_ids'[k + n].id = ids[Steering][n]
                          /\ action_ids'[k + w + n].id = ids[Drive][n]
                          /\ action_ids'[k + n].wheel = ids[Wheels][n]
                          /\ action_ids'[k + w + n].wheel = ids[Wheels][n]
        OBVIOUS
      <4>1. action_ids'[k + n] = a[n] /\ action_ids'[k + w + n] = b[n]
        BY <2>3, <3>5
      <4>2. /\ a[n] = [term |-> cursor.term, id |-> ids[Steering][n], wheel |-> ids[Wheels][n]]
            /\ b[n] = [term |-> cursor.term, id |-> ids[Drive][n], wheel |-> ids[Wheels][n]]
        BY <3>3, <3>4
      <4> QED
        BY <4>1, <4>2
    <3>7. DOMAIN action_ids' = 1 .. k + w + w
      BY <2>3, <3>5
    <3>8. /\ \A list \in {Steering, Drive} : \A n \in 1 .. w : Listed(cursor.term, list, ids[list][n])
          /\ \A list \in {Steering, Drive, Wheels} : \A n, m \in 1 .. w :
                ids[list][n] = ids[list][m] => n = m
          /\ \A n, m \in 1 .. w : ids[Steering][n] # ids[Drive][m]
          /\ \A list \in {Steering, Drive} : \A n \in 1 .. w : HasRobotJoint(ids[list][n])
      <4>1. cursor.term \in DOMAIN md.actions
        BY <1>0, <2>1, Loaded
      <4>2. \A list \in Steering .. Wheels :
               /\ \A n, m \in DOMAIN ids[list] : ids[list][n] = ids[list][m] => n = m
               /\ list # Wheels => \A n \in DOMAIN ids[list] : Listed(cursor.term, list, ids[list][n])
        BY <2>11, <4>1 DEF IInv, Resolved
      <4> QED
        BY <3>1, <3>2, <4>2 DEF WheelsFit
    <3>9. TermOf(e)' = (k + 1) .. (k + w + w)
      <4>1. \A f \in DOMAIN action_ids' : action_ids'[f].term = action_ids'[e].term <=> f \notin 1 .. k
        BY <2>7, <2>8, <2>11
      <4>2. \A f : f \in (k + 1) .. (k + w + w) <=> f \in 1 .. k + w + w /\ f \notin 1 .. k
        BY <2>3, <3>2
      <4> QED
        BY <3>7, <4>1, <4>2 DEF TermOf
    <3>10. PICK j \in 1 .. w : e = k + j \/ e = k + w + j
      BY <2>6, <2>11, <3>5
    <3>11. \A f \in (k + 1) .. (k + w + w) : \E n \in 1 .. w : f = k + n \/ f = k + w + n
      <4>1. \A f \in (k + 1) .. (k + w + w) :
               f \in Int /\ (f - k \in 1 .. w \/ f - k - w \in 1 .. w)
        BY <2>3, <3>2
      <4>2. \A f \in Int : f = k + (f - k) /\ f = k + w + (f - k - w)
        BY <2>3, <3>2
      <4> QED
        BY <4>1, <4>2
    <3>12. /\ k + j \in (k + 1) .. (k + w + w) /\ k + w + j \in (k + 1) .. (k + w + w)
           /\ k + j # k + w + j
      BY <2>3, <3>2
    <3>13. action_ids'[e].wheel = ids[Wheels][j]
      BY <3>6, <3>10
    <3>14. WheelOf(e)' = {k + j, k + w + j}
      <4>1. ASSUME NEW f \in (k + 1) .. (k + w + w), action_ids'[f].wheel = ids[Wheels][j]
            PROVE  f \in {k + j, k + w + j}
        <5>1. PICK n \in 1 .. w : f = k + n \/ f = k + w + n
          BY <3>11
        <5>2. ids[Wheels][n] = ids[Wheels][j]
          BY <3>6, <4>1, <5>1
        <5>3. n = j
          BY <3>8, <5>2
        <5> QED
          BY <5>1, <5>3
      <4>2. action_ids'[k + j].wheel = ids[Wheels][j] /\ action_ids'[k + w + j].wheel = ids[Wheels][j]
        BY <3>6
      <4>3. WheelOf(e)' = {f \in TermOf(e)' : action_ids'[f].wheel = action_ids'[e].wheel}
        BY DEF WheelOf
      <4> QED
        BY <3>9, <3>12, <3>13, <4>1, <4>2, <4>3
    <3>15. PICK s, d \in WheelOf(e)' : s = k + j /\ d = k + w + j
      BY <3>14
    <3>19. In(s, Steering)' /\ In(d, Drive)'
      <4>1. /\ action_ids'[s].term = cursor.term /\ action_ids'[s].id = ids[Steering][j]
            /\ action_ids'[d].term = cursor.term /\ action_ids'[d].id = ids[Drive][j]
        BY <3>6, <3>15
      <4>2. Listed(cursor.term, Steering, ids[Steering][j]) /\ Listed(cursor.term, Drive, ids[Drive][j])
        BY <3>8
      <4> QED
        BY <1>0, <4>1, <4>2 DEF In, Listed, Steering, Drive
    <3>16. ASSUME NEW f \in TermOf(e)', action_ids'[f].id = action_ids'[e].id PROVE f = e
      <4>1. PICK n \in 1 .. w : f = k + n \/ f = k + w + n
        BY <3>9, <3>11, <3>16
      <4>2. CASE f = k + n /\ e = k + j
        BY <3>6, <3>8, <3>16, <4>2
      <4>3. CASE f = k + w + n /\ e = k + w + j
        BY <3>6, <3>8, <3>16, <4>3
      <4>4. CASE f = k + n /\ e = k + w + j
        BY <3>6, <3>8, <3>16, <4>4
      <4>5. CASE f = k + w + n /\ e = k + j
        BY <3>6, <3>8, <3>16, <4>5
      <4> QED
        BY <3>10, <4>1, <4>2, <4>3, <4>4, <4>5
    <3>17. HasRobotJoint(action_ids[e].id)'
      <4>1. action_ids'[e].id \in {ids[Steering][j], ids[Drive][j]}
        BY <3>6, <3>10
      <4>2. HasRobotJoint(ids[Steering][j]) /\ HasRobotJoint(ids[Drive][j])
        BY <3>8
      <4> QED
        BY <2>1, <4>1, <4>2 DEF HasRobotJoint
    <3>18. \E x, y \in WheelOf(e)' : WheelOf(e)' = {x, y} /\ x # y /\ In(x, Steering)' /\ In(y, Drive)'
      BY <3>12, <3>14, <3>15, <3>19
    <3> QED
      BY <3>16, <3>17, <3>18 DEF Wired
  <2>12. ASSUME NEW e \in DOMAIN action_ids', action_ids'[e].wheel # 0 PROVE Wired(e)'
    <3>1. CASE e \in 1 .. k
      <4>1. action_ids[e].wheel # 0 /\ e \in DOMAIN action_ids
        BY <2>3, <2>12, <2>13, <3>1
      <4>2. Wired(e)
        BY <1>1, <4>1 DEF TermsWired
      <4> QED
        BY <2>10, <3>1, <4>2
    <3>2. CASE e \notin 1 .. k
      <4>1. Omnisteering
        <5>1. CASE \E n \in 1 .. Len(a) : e = k + n
          BY <2>3, <2>4, <2>12, <5>1
        <5>2. CASE \E n \in 1 .. Len(b) : e = k + Len(a) + n
          BY <2>4, <5>2
        <5> QED
          BY <2>6, <3>2, <5>1, <5>2
      <4> QED
        BY <2>11, <2>12, <3>2, <4>1
    <3> QED
      BY <3>1, <3>2
  <2> QED
    BY <2>9, <2>12 DEF TermsWired
<1>6. cursor'.term \in {cursor.term, cursor.term + 1}
  BY CursorMoves DEF IInv
<1>7. joint_id_policy_to_robot' = joint_id_policy_to_robot \/ action_ids = <<>>
  BY Writes DEF MapJoint, IInv, Order
<1> QED
  BY <1>4, <1>5, <1>6, <1>7, Writes

\* The strong invariant holds in every behaviour.
THEOREM Invariance == SafetySpec => []IInv
<1>1. IInv /\ [Next]_vars => IInv'
  BY TypesKept, OrderKept, GainsKept, JointsKept, SizesKept, SlicesKept, ResolvedKept, WiredKept,
     DrivenKept, ThrowsKept DEF IInv
<1> QED
  BY Initially, <1>1, PTL DEF SafetySpec

-----------------------------------------------------------------------------
(* The properties *)

\* Every variable keeps its type, in the constructor and in the run.
THEOREM TypeCorrect == SafetySpec => []TypeOK
<1>1. IInv => TypeOK
  <2> SUFFICES ASSUME IInv PROVE TypeOK
    OBVIOUS
  <2>1. action_ids \in Seq(Wires)
    BY DEF IInv, Types
  <2>2. \A e \in DOMAIN action_ids : action_ids[e] \in Wires
    BY <2>1, ElementOf
  <2> QED
    BY <2>2 DEF IInv, Types, GainsRead, TypeOK, Wires
<1> QED
  BY <1>1, Invariance, PTL

\* The slices that a run fills make up the input exactly if each was created with its
\* size: a height scan whose size was not known is the only term that may be wrong.
THEOREM SlicesFitInput == SafetySpec => []SlicesFit
<1>1. IInv => SlicesFit
  <2> SUFFICES ASSUME IInv, stage = "apply"
               PROVE  offset = md.input_size <=> \A n \in DOMAIN filled : filled[n] = obs_terms[n].size
    BY DEF SlicesFit
  <2>1. /\ Len(filled) = read /\ obs_size = md.input_size /\ filled \in Seq(Nat) /\ read \in Nat
        /\ obs_size \in Nat /\ declared \in Seq(Nat) /\ Len(declared) = read
        /\ obs_terms \in Seq([config : ObsConfigs, size : Nat]) /\ Len(obs_terms) = read
    BY DEF IInv, Types, Order
  <2>2. offset = LastOf(declared) /\ LastOf(declared) \in Nat
    <3>1. offset = (IF read = 0 THEN 0 ELSE declared[read])
      BY <2>1 DEF IInv, SlicesFilled
    <3>2. LastOf(declared) = (IF read = 0 THEN 0 ELSE declared[read])
      BY <2>1 DEF LastOf
    <3> QED
      BY <2>1, <3>1, <3>2, LastOfType
  <2>3. DOMAIN filled = 1 .. read /\ \A n \in 1 .. read : filled[n] = Due(n) /\ Due(n) \in Nat
    <3>1. DOMAIN filled = 1 .. read /\ Len(filled) = read
      BY <2>1
    <3>2. \A n \in 1 .. read : filled[n] = Due(n)
      BY <3>1 DEF IInv, SlicesFilled
    <3>3. \A n \in 1 .. read : Due(n) \in Nat
      BY DEF IInv, SizesRead
    <3> QED
      BY <3>1, <3>2, <3>3
  <2>4. CASE (\A k \in 1 .. read : obs_terms[k].size = Due(k)) /\ obs_size = LastOf(declared)
    BY <2>1, <2>2, <2>3, <2>4
  <2>5. ASSUME NEW k \in 1 .. read, obs_terms[k].size # Due(k),
               obs_size - LastOf(declared) = obs_terms[k].size - Due(k)
        PROVE  offset # md.input_size /\ filled[k] # obs_terms[k].size
    <3>1. obs_terms[k].size \in Nat
      <4>1. k \in DOMAIN obs_terms /\ obs_terms \in Seq([config : ObsConfigs, size : Nat])
        BY <2>1
      <4>2. obs_terms[k] \in [config : ObsConfigs, size : Nat]
        BY <4>1, ElementOf
      <4> QED
        BY <4>2
    <3> QED
      BY <2>1, <2>2, <2>3, <2>5, <3>1
  <2> QED
    BY <2>3, <2>4, <2>5 DEF IInv, SizesRead
<1> QED
  BY <1>1, Invariance, PTL

\* In a run that sends, what an element drives is a robot joint.
LEMMA SentByName ==
    ASSUME IInv, stage = "sent", NEW e \in DOMAIN action_ids
    PROVE  LET i == action_ids[e].id
               r == joint_id_policy_to_robot[i]
           IN  /\ e \in 1 .. applied /\ i \in Joints /\ r \in RobotIds
               /\ RobotJoints[r] = md.joints[i] /\ Found(md.joints[i]) # {}
<1> DEFINE i == action_ids[e].id
           r == joint_id_policy_to_robot[i]
<1>1. /\ applied = Len(action_ids) /\ md \in Metadata /\ mapped = Len(md.joints)
      /\ action_ids \in Seq(Wires)
  BY DEF IInv, Types, Order
<1>2. e \in 1 .. applied
  BY <1>1
<1>3. action_ids[e] \in Wires
  BY <1>1, ElementOf
<1>4. i \in 1 .. mapped /\ i \in Joints
  BY <1>1, <1>3, Loaded DEF Wires
<1>5. r \in RobotIds /\ r = RobotId(i)
  BY <1>2, <1>4 DEF IInv, Driven, JointsMapped
<1>6. r # -1
  BY <1>5, MetadataAssumption DEF RobotIds
<1> QED
  BY <1>1, <1>2, <1>4, <1>5, <1>6, RobotIdType

\* Whatever the order of the joints of policy and robot, an element of the output
\* drives the joint of the name it was matched for, and no joint matched is left out.
THEOREM CommandsReachTheirJoints == SafetySpec => []CommandsByName
<1>1. IInv => CommandsByName
  <2> SUFFICES ASSUME IInv, stage = "sent", NEW e \in DOMAIN action_ids
               PROVE  \E r \in RobotIds :
                         /\ RobotJoints[r] = md.joints[action_ids[e].id]
                         /\ source[r] >= e
                         /\ action_ids[source[r]].id = action_ids[e].id
    BY DEF CommandsByName
  <2> DEFINE r == joint_id_policy_to_robot[action_ids[e].id]
  <2>1. e \in 1 .. applied /\ r \in RobotIds /\ RobotJoints[r] = md.joints[action_ids[e].id]
    BY SentByName
  <2>2. source[r] >= e /\ action_ids[source[r]].id = action_ids[e].id
    BY <2>1 DEF IInv, Driven
  <2> QED
    BY <2>1, <2>2
<1> QED
  BY <1>1, Invariance, PTL

\* A joint that is driven has the gains of the one actuator that matches it, or its own
\* from an older export.
THEOREM GainsReachTheirJoints == SafetySpec => []GainsByName
<1>1. IInv => GainsByName
  <2> SUFFICES ASSUME IInv, stage = "sent", NEW r \in RobotIds, source[r] # 0
               PROVE  LET i == action_ids[source[r]].id
                      IN  IF ~md.articulated
                          THEN k_des[r] = md.joint_stiffness[i] /\ d_des[r] = md.joint_damping[i]
                          ELSE \/ /\ k_des[r] = -1 /\ d_des[r] = -1
                                  /\ \A a \in DOMAIN md.actuators :
                                        RobotJoints[r] \notin md.actuators[a].joints
                               \/ \E a \in DOMAIN md.actuators :
                                     /\ \A b \in DOMAIN md.actuators :
                                           RobotJoints[r] \in md.actuators[b].joints <=> b = a
                                     /\ k_des[r] = Stiffness(md.actuators[a], i)
                                     /\ d_des[r] = resolve_gain(md.actuators[a].damping, i)
    BY DEF GainsByName
  <2> DEFINE i == action_ids[source[r]].id
  <2>1. /\ md \in Metadata /\ source[r] \in 1 .. Len(action_ids)
        /\ action_ids \in Seq(Wires) /\ (md.articulated => actuator = Len(md.actuators))
    BY DEF IInv, Types, Order
  <2>2. source[r] \in DOMAIN action_ids
    BY <2>1
  <2>3. joint_id_policy_to_robot[i] = r /\ k_des[r] = stiffness[i] /\ d_des[r] = damping[i]
    BY DEF IInv, Driven
  <2>4. i \in Joints /\ RobotJoints[r] = md.joints[i]
    BY <2>2, <2>3, SentByName
  <2>5. md.articulated => DOMAIN md.actuators = 1 .. actuator
    BY <2>1, Loaded
  <2>6. CASE md.articulated
    BY <2>3, <2>4, <2>5, <2>6 DEF IInv, GainsRead
  <2>7. CASE ~md.articulated
    BY <2>3, <2>7 DEF IInv, GainsRead
  <2> QED
    BY <2>6, <2>7
<1> QED
  BY <1>1, Invariance, PTL

\* Each wheel of a loaded policy has a steering and a drive joint of its own.
THEOREM WheelsAreWired == SafetySpec => []WheelsWired
<1>1. IInv => WheelsWired
  <2> SUFFICES ASSUME IInv, stage \in {"fill", "apply", "sent"}, NEW e \in DOMAIN action_ids,
                      action_ids[e].wheel # 0
               PROVE  /\ \E s, d \in WheelOf(e) :
                            WheelOf(e) = {s, d} /\ s # d /\ In(s, Steering) /\ In(d, Drive)
                      /\ \A f \in TermOf(e) : action_ids[f].id = action_ids[e].id => f = e
                      /\ Found(md.joints[action_ids[e].id]) # {}
    BY DEF WheelsWired
  <2> DEFINE i == action_ids[e].id
  <2>1. Wired(e)
    BY DEF IInv, TermsWired
  <2>2. /\ md \in Metadata /\ mapped = Len(md.joints) /\ action_ids \in Seq(Wires)
    BY DEF IInv, Types, Order
  <2>3. i \in Joints /\ i \in 1 .. mapped
    <3>1. action_ids[e] \in Wires
      BY <2>2, ElementOf
    <3>2. Joints = 1 .. Len(md.joints)
      BY <2>2, Loaded
    <3> QED
      BY <2>2, <3>1, <3>2 DEF Wires
  <2>4. RobotId(i) # -1
    BY <2>1, <2>3 DEF Wired, HasRobotJoint, IInv, JointsMapped
  <2>5. Found(md.joints[i]) # {}
    BY <2>2, <2>3, <2>4, RobotIdType
  <2> QED
    BY <2>1, <2>5 DEF Wired
<1> QED
  BY <1>1, Invariance, PTL

\* A joint that the robot lacks is neither observed nor commanded by a policy whose
\* commands are sent, and it ends a run only if the caller allowed it to be missing.
THEOREM MissingJointsAreUnused == SafetySpec => []MissingJointsUnused
<1>1. IInv => MissingJointsUnused
  <2> SUFFICES ASSUME IInv PROVE MissingJointsUnused
    OBVIOUS
  <2>1. thrown \in {"fill", "apply"} => md.allow_missing_robot_joints
    BY DEF IInv, ThrowsIfAllowed, MayMiss
  <2>2. stage = "sent" => \A e \in DOMAIN action_ids : Found(md.joints[action_ids[e].id]) # {}
    BY SentByName
  <2>3. ASSUME stage = "sent", NEW k \in DOMAIN obs_terms, obs_terms[k].config.func = "joints",
               NEW n \in DOMAIN obs_terms[k].config.ids
        PROVE  Found(md.joints[obs_terms[k].config.ids[n]]) # {}
    <3> DEFINE i == obs_terms[k].config.ids[n]
    <3>1. /\ md \in Metadata /\ k \in 1 .. read /\ Len(filled) = read /\ mapped = Len(md.joints)
          /\ read = Len(md.observations)
      BY <2>3 DEF IInv, Types, Order
    <3>2. obs_terms[k].config = md.observations[k] /\ Readable(md.observations[k])
      BY <3>1 DEF IInv, SizesRead, SlicesFilled
    <3>3. HasRobotJoint(i)
      BY <2>3, <3>2 DEF Readable
    <3>4. k \in DOMAIN md.observations
      BY <3>1, Loaded
    <3>5. i \in Joints /\ i \in 1 .. mapped
      BY <2>3, <3>1, <3>2, <3>4, Loaded
    <3>6. RobotId(i) # -1
      BY <3>3, <3>5 DEF HasRobotJoint, IInv, JointsMapped
    <3> QED
      BY <3>1, <3>5, <3>6, RobotIdType
  <2> QED
    BY <2>1, <2>2, <2>3 DEF MissingJointsUnused
<1> QED
  BY <1>1, Invariance, PTL

-----------------------------------------------------------------------------
(* What the check of the sizes is worth *)

\* A height scan was created with another size than the scene gives it.
WrongScan ==
    \E k \in 1 .. read : md.observations[k].func = "height_scan" /\ obs_terms[k].size # Due(k)

\* Metadata of which all terms were created are refused for the size of the input.
RefusedForSize ==
    thrown = "observations" /\ read = Len(md.observations) => obs_size # md.input_size

\* The check of OnnxPolicy's constructor refuses what matches the model only if a scan
\* had the wrong size, and what it then loads does not match.
JudgedByScan ==
    /\ thrown = "observations" /\ read = Len(md.observations) /\ LastOf(declared) = md.input_size
          => WrongScan
    /\ stage \in {"actions", "fill", "apply", "sent"} =>
          (LastOf(declared) = md.input_size <=> ~WrongScan)

\* Only the check of the sizes throws when all terms have been read, and what has
\* thrown takes no other step.
LEMMA Refusals == SafetySpec => [](RefusedForSize /\ (thrown # "none" => stage = "ended"))
<1> DEFINE Inv == RefusedForSize /\ (thrown # "none" => stage = "ended")
<1>1. Init => Inv
  BY DEF Init, RefusedForSize
<1>2. ASSUME [Next]_vars
      PROVE  \/ UNCHANGED vars
             \/ stage # "ended" /\ thrown' = thrown
             \/ /\ Throw /\ stage # "ended"
                /\ stage = "observations" => ~InputFits \/ read < Len(md.observations)
  BY <1>2 DEF Next, vars, parse_actuator, ActuatorsParsed, parse_policy_gains, MapJoint,
     AllMapped, ParseCommand, CommandsParsed, CreateObsTerm, CheckObservations, AllRead,
     RefuseActionTerm, ActionsLeft, MoreActions, MoreLists, MorePatterns, MatchEntry, EndPattern,
     EndList, CreateActionTerm, CheckActions, FillTerm, RunModel, ApplyElement, EndRun
<1>3. IInv /\ Inv /\ [Next]_vars => Inv'
  <2> SUFFICES ASSUME IInv, Inv, [Next]_vars
               PROVE  Inv'
    OBVIOUS
  <2>1. CASE UNCHANGED vars
    BY <2>1 DEF vars, load, observations, RefusedForSize
  <2>2. CASE stage # "ended" /\ thrown' = thrown
    BY <2>2 DEF RefusedForSize
  <2>3. CASE /\ Throw /\ stage # "ended"
             /\ stage = "observations" => ~InputFits \/ read < Len(md.observations)
    <3>1. /\ UNCHANGED <<md, read, obs_size>> /\ thrown' = stage /\ stage' = "ended"
          /\ read \in Nat
      BY <2>3 DEF Throw, load, observations, IInv, Types
    <3>2. md \in Metadata
      BY DEF IInv, Types
    <3>3. Len(md.observations) \in Nat
      BY <3>2, Loaded
    <3> QED
      BY <2>3, <3>1, <3>3 DEF RefusedForSize, InputFits
  <2> QED
    BY <1>2, <2>1, <2>2, <2>3
<1> QED
  BY <1>1, <1>3, Invariance, PTL DEF SafetySpec

\* The sizes add up to those of the metadata, but for the error of one scan: obs_term
\* reads a scan's size from where the constructor writes it only afterwards.
THEOREM ScansAloneMisjudge == SafetySpec => []JudgedByScan
<1>1. IInv /\ RefusedForSize => JudgedByScan
  <2> SUFFICES ASSUME IInv, RefusedForSize
               PROVE  JudgedByScan
    OBVIOUS
  <2>1. /\ obs_size \in Nat /\ declared \in Seq(Nat) /\ read \in Nat
        /\ obs_terms \in Seq([config : ObsConfigs, size : Nat]) /\ Len(obs_terms) = read
        /\ md \in Metadata
    BY DEF IInv, Types
  <2>2. LastOf(declared) \in Nat
    BY <2>1, LastOfType
  <2>3. \/ ~WrongScan /\ obs_size = LastOf(declared)
        \/ WrongScan /\ obs_size # LastOf(declared)
    <3>1. CASE (\A k \in 1 .. read : obs_terms[k].size = Due(k)) /\ obs_size = LastOf(declared)
      BY <3>1 DEF WrongScan
    <3>2. ASSUME NEW k \in 1 .. read, md.observations[k].func = "height_scan",
                 obs_terms[k].size # Due(k),
                 obs_size - LastOf(declared) = obs_terms[k].size - Due(k)
          PROVE  WrongScan /\ obs_size # LastOf(declared)
      <4>1. k \in DOMAIN obs_terms /\ obs_terms \in Seq([config : ObsConfigs, size : Nat])
        BY <2>1
      <4>2. obs_terms[k] \in [config : ObsConfigs, size : Nat]
        BY <4>1, ElementOf
      <4>3. obs_terms[k].size \in Nat /\ Due(k) \in Nat
        BY <4>2 DEF IInv, SizesRead
      <4> QED
        BY <2>1, <2>2, <3>2, <4>3 DEF WrongScan
    <3> QED
      BY <3>1, <3>2 DEF IInv, SizesRead
  <2>4. stage \in {"actions", "fill", "apply", "sent"} => obs_size = md.input_size
    BY DEF IInv, Order
  <2> QED
    BY <2>3, <2>4 DEF JudgedByScan, RefusedForSize
<1> QED
  BY <1>1, Refusals, Invariance, PTL

\* Without a height scan the metadata of a model are loaded.
THEOREM MatchingWithoutScans ==
    ASSUME \A m \in Metadata : \A t \in DOMAIN m.observations :
              m.observations[t].func # "height_scan"
    PROVE  SafetySpec => []MatchingIsLoaded
<1>1. IInv /\ JudgedByScan => MatchingIsLoaded
  <2> SUFFICES ASSUME IInv, JudgedByScan
               PROVE  MatchingIsLoaded
    OBVIOUS
  <2>1. md \in Metadata /\ read \in 0 .. Len(md.observations)
    BY DEF IInv, Types
  <2>2. \A k \in 1 .. read : k \in DOMAIN md.observations
    BY <2>1, Loaded
  <2>3. ~WrongScan
    BY <2>1, <2>2 DEF WrongScan
  <2> QED
    BY <2>3 DEF JudgedByScan, MatchingIsLoaded
<1> QED
  BY <1>1, Invariance, ScansAloneMisjudge, PTL
=============================================================================
