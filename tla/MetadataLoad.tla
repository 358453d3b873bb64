------------------------------- MODULE MetadataLoad -------------------------------
(***************************************************************************)
(* The constructor of OnnxPolicy wires a policy from the metadata that was *)
(* exported with its model: gains and joints by name, observation terms to *)
(* slices of the input, action terms to elements of the output, the joints *)
(* of a steered wheel to its body.  It throws where model, metadata and    *)
(* robot do not fit.  The first run then follows the wires.  A regular     *)
(* expression is the set of the names it matches, a term whose size does   *)
(* not depend on other metadata is of function "fixed", and sizes are      *)
(* numbers of elements.  Indices count from one.                           *)
(***************************************************************************)
EXTENDS Integers, Sequences, FiniteSets

CONSTANTS
    Names,          \* of joints and of bodies
    CommandNames,
    RobotJoints,    \* robot_info.joint_names
    Bodies,         \* robot_info.body_names
    Metadata,       \* metadata and models that may be loaded
    Indeterminate   \* what memory may hold where height_scan_size comes to be

Functions == {"fixed", "generated_commands", "joints", "last_action", "height_scan",
              "adaptation_parameter_slice", "unsupported"}

\* The term "joints" is one of joint_pos_rel, joint_pos_error and joint_vel_rel; a
\* term with a scale, or with a clip of another form, is unsupported too.
ObsConfigs == [func : Functions, size : Nat, command : CommandNames, ids : Seq(Nat),
               history_length : Nat, start : Int, end : Int]

\* A gain is one value or a map from expressions to values.
Gains == Seq([joints : SUBSET Names, value : Int])

Actuators == [joints : SUBSET Names, stiffness : Gains, integral : Gains, damping : Gains]

\* A cutoff is optional, and an entry of the ranges is what its field is configured
\* with.  What is not finite stands outside the order: a cutoff as if negative, a pair as
\* if reversed.  A command without ranges is unsupported too.
CommandConfigs == [name : CommandNames, class : {"velocity", "unsupported"},
                   cutoff : Seq(Int), ranges : Seq(Seq(Int))]

\* The class "joints" is one of the joint position and velocity terms.  It has one list
\* of expressions; an omnisteering term has those of Steering, Drive and Wheels.  A joint
\* term with a clip or an order to preserve is unsupported too, and so is an omnisteering
\* term whose speeds or radius are out of range.
Steering == 1
Drive == 2
Wheels == 3

ActionConfigs == [class : {"joints", "omnisteering", "unsupported"}, command : CommandNames,
                  expressions : Seq(Seq(SUBSET Names))]

ASSUME MetadataAssumption ==
    /\ RobotJoints \in Seq(Names)
    /\ \A r, s \in DOMAIN RobotJoints : RobotJoints[r] = RobotJoints[s] => r = s
    /\ Bodies \in Seq(Names)
    /\ Indeterminate \subseteq Int
    /\ Metadata \subseteq
          [joints : Seq(Names),
           allow_missing_robot_joints : BOOLEAN,
           articulated : BOOLEAN,   \* the scene has actuators; older exports have none
           actuators : Seq(Actuators),
           joint_stiffness : Seq(Int), joint_damping : Seq(Int),
           commands : Seq(CommandConfigs),
           observations : Seq(ObsConfigs),
           scene : Seq(Nat),        \* sizes of its ray casters
           actions : Seq(ActionConfigs),
           input_size : Nat, action_size : Nat]
    /\ \A md \in Metadata :
          /\ \A i, j \in DOMAIN md.joints : md.joints[i] = md.joints[j] => i = j
          /\ \A t \in DOMAIN md.observations : \A n \in DOMAIN md.observations[t].ids :
                md.observations[t].ids[n] \in DOMAIN md.joints
          /\ \A t \in DOMAIN md.actions : Len(md.actions[t].expressions) =
                (CASE md.actions[t].class = "joints" -> 1
                   [] md.actions[t].class = "omnisteering" -> 3
                   [] OTHER -> 0)

VARIABLES
    md,                 \* the metadata and the model
    stage,              \* what the constructor, or the run, does next
    thrown,             \* the stage that threw, or "none"
    actuator,           \* actuators read
    assigned,           \* joints that one of them has given gains
    stiffness, damping, \* in the order of the policy's joints
    mapped,             \* policy joints looked up
    joint_id_policy_to_robot,
    parsed,             \* commands parsed
    command_size,
    height_scan_size,
    read,               \* observation configurations read
    obs_terms,          \* _obs_terms, each with its size
    obs_size,
    sensor_specs,       \* sizes of _sensor_specs
    cursor,             \* term, list, expression and entry that are matched next
    ids,                \* of each list of the term, the entries that match
    action_ids,         \* joints of all action terms, with their term and wheel
    filled,             \* sizes of the slices of the input that the run has filled
    offset,             \* buffer_offset
    applied,            \* elements of the output that the run has applied
    source,             \* which of action_ids drives a robot joint, zero for none
    k_des, d_des,
    declared            \* history: where, by the metadata, the slice of each term ends

gains == <<actuator, assigned, stiffness, damping>>
maps == <<mapped, joint_id_policy_to_robot>>
commands == <<parsed, command_size>>
observations == <<height_scan_size, read, obs_terms, obs_size, sensor_specs, declared>>
actions == <<cursor, ids, action_ids>>
load == <<md, gains, maps, commands, observations, actions>>
run == <<filled, offset, applied, source, k_des, d_des>>
vars == <<load, run, stage, thrown>>

Joints == DOMAIN md.joints
RobotIds == DOMAIN RobotJoints

\* An exception leaves the constructor, or run, and the process ends.
Throw ==
    /\ stage' = "ended" /\ thrown' = stage
    /\ UNCHANGED <<load, run>>

Init ==
    /\ md \in Metadata
    /\ stage = "gains" /\ thrown = "none"
    /\ actuator = 0 /\ assigned = {}
    /\ stiffness = [i \in Joints |-> -1] /\ damping = [i \in Joints |-> -1]
    /\ mapped = 0 /\ joint_id_policy_to_robot = [i \in Joints |-> -1]
    /\ parsed = 0 /\ command_size = [c \in CommandNames |-> -1]
    /\ height_scan_size \in Indeterminate
    /\ read = 0 /\ obs_terms = <<>> /\ obs_size = 0 /\ declared = <<>>
    /\ sensor_specs = <<>>
    /\ cursor = [term |-> 1, list |-> 1, pattern |-> 1, entry |-> 1, matching |-> 0]
    /\ ids = [list \in Steering .. Wheels |-> <<>>] /\ action_ids = <<>>
    /\ filled = <<>> /\ offset = 0 /\ applied = 0
    /\ source = [r \in RobotIds |-> 0]
    /\ k_des = [r \in RobotIds |-> 0] /\ d_des = [r \in RobotIds |-> 0]

-----------------------------------------------------------------------------
(* Gains *)

Entries(gain, i) == {n \in DOMAIN gain : md.joints[i] \in gain[n].joints}
Resolves(gain, i) == \E n \in DOMAIN gain : Entries(gain, i) = {n}
resolve_gain(gain, i) == gain[CHOOSE n \in DOMAIN gain : Entries(gain, i) = {n}].value

\* A gain with an integral action takes the place of the stiffness, which must be
\* zero; no integral action is configured as <<>>.
Integral(a, i) == IF a.integral = <<>> THEN 0 ELSE resolve_gain(a.integral, i)
Stiffness(a, i) ==
    IF Integral(a, i) # 0 THEN Integral(a, i) ELSE resolve_gain(a.stiffness, i)

Usable(a, i) ==
    /\ Resolves(a.stiffness, i)
    /\ a.integral = <<>> \/ Resolves(a.integral, i)
    /\ Integral(a, i) = 0 \/ resolve_gain(a.stiffness, i) = 0
    /\ Resolves(a.damping, i)

Matched(a) == {i \in Joints : md.joints[i] \in a.joints}

\* Mutant of Assignable: a joint with the sentinel for its stiffness counts as one that no
\* actuator has given gains.
AssignableUnset(a) == \A i \in Matched(a) : stiffness[i] = -1 /\ Usable(a, i)

\* No other actuator has given a joint its gains.
Assignable(a) == \A i \in Matched(a) : i \notin assigned /\ Usable(a, i)

parse_actuator ==
    LET a == md.actuators[actuator + 1]
    IN  /\ stage = "gains" /\ md.articulated /\ actuator < Len(md.actuators)
        /\ \/ ~Assignable(a) /\ Throw
           \/ /\ Assignable(a)
              /\ actuator' = actuator + 1
              /\ assigned' = assigned \cup Matched(a)
              /\ stiffness' = [i \in Joints |->
                                 IF i \in Matched(a) THEN Stiffness(a, i) ELSE stiffness[i]]
              /\ damping' = [i \in Joints |->
                                 IF i \in Matched(a) THEN resolve_gain(a.damping, i)
                                                     ELSE damping[i]]
              /\ UNCHANGED <<md, maps, commands, observations, actions, run, stage, thrown>>

ActuatorsParsed ==
    /\ stage = "gains" /\ md.articulated /\ actuator = Len(md.actuators)
    /\ stage' = "joints"
    /\ UNCHANGED <<load, run, thrown>>

OneGainEach ==
    Len(md.joint_stiffness) = Len(md.joints) /\ Len(md.joint_damping) = Len(md.joints)

\* An older export has the gains of its joints as lists.
parse_policy_gains ==
    /\ stage = "gains" /\ ~md.articulated
    /\ \/ ~OneGainEach /\ Throw
       \/ /\ OneGainEach
          /\ stiffness' = md.joint_stiffness /\ damping' = md.joint_damping
          /\ stage' = "joints"
          /\ UNCHANGED <<md, actuator, assigned, maps, commands, observations, actions, run, thrown>>

-----------------------------------------------------------------------------
(* Joints and commands *)

Found(name) == {r \in RobotIds : RobotJoints[r] = name}

\* Mutant of RobotId: the robot has the policy's order of joints.
RobotIdInOrder(i) ==
    IF Found(md.joints[i]) = {} THEN -1 ELSE IF i \in RobotIds THEN i ELSE -1

RobotId(i) ==
    IF Found(md.joints[i]) = {} THEN -1 ELSE CHOOSE r \in Found(md.joints[i]) : TRUE

\* Mutant of MayMiss: any joint may be missing.
MayMissAny == TRUE

MayMiss == md.allow_missing_robot_joints

MapJoint ==
    /\ stage = "joints" /\ mapped < Len(md.joints)
    /\ \/ RobotId(mapped + 1) = -1 /\ ~MayMiss /\ Throw
       \/ /\ RobotId(mapped + 1) # -1 \/ MayMiss
          /\ mapped' = mapped + 1
          /\ joint_id_policy_to_robot' =
                [joint_id_policy_to_robot EXCEPT ![mapped + 1] = RobotId(mapped + 1)]
          /\ UNCHANGED <<md, gains, commands, observations, actions, run, stage, thrown>>

AllMapped ==
    /\ stage = "joints" /\ mapped = Len(md.joints)
    /\ stage' = "commands"
    /\ UNCHANGED <<load, run, thrown>>

\* A range that is not a pair is skipped; a pair must be ordered.
Pairs(c) == {n \in DOMAIN c.ranges : Len(c.ranges[n]) = 2}

CreatesCommand(c) ==
    /\ c.class # "unsupported"
    /\ \A n \in DOMAIN c.cutoff : c.cutoff[n] > 0
    /\ \A n \in Pairs(c) : c.ranges[n][1] <= c.ranges[n][2]

ParseCommand ==
    LET c == md.commands[parsed + 1]
    IN  /\ stage = "commands" /\ parsed < Len(md.commands)
        /\ \/ ~CreatesCommand(c) /\ Throw
           \/ /\ CreatesCommand(c)
              /\ parsed' = parsed + 1
              /\ command_size' = [command_size EXCEPT ![c.name] = Cardinality(Pairs(c))]
              /\ UNCHANGED <<md, gains, maps, observations, actions, run, stage, thrown>>

CommandsParsed ==
    /\ stage = "commands" /\ parsed = Len(md.commands)
    /\ stage' = "observations"
    /\ UNCHANGED <<load, run, thrown>>

-----------------------------------------------------------------------------
(* Observation terms *)

LastOf(sizes) == IF sizes = <<>> THEN 0 ELSE sizes[Len(sizes)]

\* The eight parameters of the adaptation's estimate.
Slice(t) == IF 0 <= t.start /\ t.start < t.end /\ t.end <= 8 THEN t.end - t.start ELSE -1

\* Elements of one reading of a term, when a scan has so many; -1 if it is not set.
Reading(t, scan) ==
    CASE t.func = "fixed"              -> t.size
      [] t.func = "generated_commands" -> command_size[t.command]
      [] t.func = "joints"             -> Len(t.ids)
      [] t.func = "last_action"        -> md.action_size
      [] t.func = "height_scan"        -> scan
      [] t.func = "adaptation_parameter_slice" -> Slice(t)
      [] OTHER                         -> -1

\* A term without a history is given its last reading.
History(t) == IF t.history_length > 1 THEN t.history_length ELSE 1

Elements(t, scan) == Reading(t, scan) * History(t)

\* Mutant of Creates: size() returns what was never set.
CreatesUnset(t) == t.func # "unsupported"

\* ObsTerm::create and size() succeed: the function is known, its command is
\* configured, and the size is not negative.
Creates(t) == Reading(t, height_scan_size) >= 0

\* Configurations without a function are skipped, and none is in md.observations.
\* The term takes the size of the scan before the size is read from the scene.
\* Only height scans have a sensor_cfg.
CreateObsTerm ==
    LET t == md.observations[read + 1]
        size == Elements(t, height_scan_size)
    IN  /\ stage = "observations" /\ read < Len(md.observations)
        /\ \/ ~Creates(t) /\ Throw
           \/ /\ Creates(t)
              /\ read' = read + 1
              /\ obs_terms' = Append(obs_terms, [config |-> t, size |-> size])
              /\ obs_size' = obs_size + size
              /\ declared' = Append(declared,
                              LastOf(declared) + Elements(t, LastOf(md.scene)))
              /\ IF t.func = "height_scan"
                    THEN /\ height_scan_size' = LastOf(md.scene)
                         /\ sensor_specs' = sensor_specs \o md.scene
                    ELSE UNCHANGED <<height_scan_size, sensor_specs>>
              /\ UNCHANGED <<md, gains, maps, commands, actions, run, stage, thrown>>

AllRead == stage = "observations" /\ read = Len(md.observations)

\* Mutant of InputFits: a term too many or too few goes unnoticed.
InputFitsAny == TRUE

InputFits == obs_size = md.input_size

CheckObservations ==
    /\ AllRead
    /\ \/ ~InputFits /\ Throw
       \/ /\ InputFits
          /\ stage' = "actions"
          /\ UNCHANGED <<load, run, thrown>>

-----------------------------------------------------------------------------
(* Action terms *)

HasRobotJoint(i) == joint_id_policy_to_robot[i] >= 1

Action == md.actions[cursor.term]
Omnisteering == Action.class = "omnisteering"

\* An omnisteering term needs a planar velocity command.
Accepts(a) ==
    \/ a.class = "joints"
    \/ a.class = "omnisteering" /\ command_size[a.command] >= 3

ActionsLeft == stage = "actions" /\ cursor.term <= Len(md.actions)

RefuseActionTerm == ActionsLeft /\ ~Accepts(Action) /\ Throw

MoreActions == ActionsLeft /\ Accepts(Action)
MoreLists == MoreActions /\ cursor.list <= Len(Action.expressions)
MorePatterns == MoreLists /\ cursor.pattern <= Len(Action.expressions[cursor.list])

\* The names that the expressions of a list are matched with.
Inventory == IF cursor.list = Wheels THEN Bodies ELSE md.joints
Matches == Inventory[cursor.entry] \in Action.expressions[cursor.list][cursor.pattern]

NextEntry(matches) ==
    [cursor EXCEPT !.entry = @ + 1, !.matching = IF matches THEN @ + 1 ELSE @]
NextPattern == [cursor EXCEPT !.pattern = @ + 1, !.entry = 1, !.matching = 0]
NextList == [cursor EXCEPT !.list = @ + 1, !.pattern = 1, !.entry = 1, !.matching = 0]
NextTerm == [term |-> cursor.term + 1, list |-> 1, pattern |-> 1, entry |-> 1, matching |-> 0]

\* Mutant of Repeated: a joint may serve two wheels.
RepeatedUnnoticed == FALSE

\* resolve_ordered finds an entry that it has matched before; the joint terms take it
\* again.
Repeated == Omnisteering /\ \E n \in DOMAIN ids[cursor.list] : ids[cursor.list][n] = cursor.entry

\* The entries are gone through once for each expression.
MatchEntry ==
    /\ MorePatterns /\ cursor.entry <= Len(Inventory)
    /\ \/ Matches /\ Repeated /\ Throw
       \/ /\ ~(Matches /\ Repeated)
          /\ cursor' = NextEntry(Matches)
          /\ ids' = IF Matches THEN [ids EXCEPT ![cursor.list] = Append(@, cursor.entry)] ELSE ids
          /\ UNCHANGED <<md, gains, maps, commands, observations, action_ids, run, stage, thrown>>

EndPattern ==
    /\ MorePatterns /\ cursor.entry > Len(Inventory)
    /\ \/ cursor.matching = 0 /\ Throw
       \/ /\ cursor.matching # 0
          /\ cursor' = NextPattern
          /\ UNCHANGED <<md, gains, maps, commands, observations, ids, action_ids, run, stage, thrown>>

EndList ==
    /\ MoreLists /\ cursor.pattern > Len(Action.expressions[cursor.list])
    /\ cursor' = NextList
    /\ UNCHANGED <<md, gains, maps, commands, observations, ids, action_ids, run, stage, thrown>>

\* One steering and one drive joint for each wheel, all distinct, all on the robot.
\* The limits of the robot's joints are valid.
WheelsFit ==
    /\ ids[Wheels] # <<>>
    /\ Len(ids[Steering]) = Len(ids[Wheels]) /\ Len(ids[Drive]) = Len(ids[Wheels])
    /\ \A n \in DOMAIN ids[Steering], m \in DOMAIN ids[Drive] : ids[Steering][n] # ids[Drive][m]
    /\ \A list \in {Steering, Drive} : \A n \in DOMAIN ids[list] : HasRobotJoint(ids[list][n])

\* The joints of a list, each with its term and the body of its wheel, zero for a joint
\* that an element of the output drives.
Drives(list) ==
    [n \in DOMAIN ids[list] |->
        [term |-> cursor.term, id |-> ids[list][n],
         wheel |-> IF Omnisteering THEN ids[Wheels][n] ELSE 0]]

CreateActionTerm ==
    /\ MoreActions /\ cursor.list > Len(Action.expressions)
    /\ \/ Omnisteering /\ ~WheelsFit /\ Throw
       \/ /\ Omnisteering => WheelsFit
          /\ action_ids' = action_ids \o Drives(Steering)
                              \o (IF Omnisteering THEN Drives(Drive) ELSE <<>>)
          /\ cursor' = NextTerm
          /\ ids' = [list \in Steering .. Wheels |-> <<>>]
          /\ UNCHANGED <<md, gains, maps, commands, observations, run, stage, thrown>>

\* The size of an omnisteering term is zero.
OutputFits == Cardinality({e \in DOMAIN action_ids : action_ids[e].wheel = 0}) = md.action_size

CheckActions ==
    /\ stage = "actions" /\ cursor.term > Len(md.actions)
    /\ \/ ~OutputFits /\ Throw
       \/ /\ OutputFits
          /\ stage' = "fill"
          /\ UNCHANGED <<load, run, thrown>>

-----------------------------------------------------------------------------
(* The first run *)

\* The node runs the policy when every sensor has delivered; the scan is that of
\* the last one.
Scan == LastOf(sensor_specs)

Readable(t) == t.func = "joints" => \A n \in DOMAIN t.ids : HasRobotJoint(t.ids[n])

FillTerm ==
    LET t == obs_terms[Len(filled) + 1].config
        length == Elements(t, Scan)
    IN  /\ stage = "fill" /\ Len(filled) < Len(obs_terms)
        /\ \/ ~Readable(t) /\ Throw
           \/ /\ Readable(t)
              /\ filled' = Append(filled, length)
              /\ offset' = offset + length
              /\ UNCHANGED <<load, applied, source, k_des, d_des, stage, thrown>>

RunModel ==
    /\ stage = "fill" /\ Len(filled) = Len(obs_terms)
    /\ stage' = "apply"
    /\ UNCHANGED <<load, run, thrown>>

\* One joint at a time, those of one omnisteering term the steering joints first: they
\* are distinct, so that the order among them makes no difference.  The omnisteering
\* term does not look again whether the robot has the joint.
ApplyElement ==
    LET d == action_ids[applied + 1]
        r == joint_id_policy_to_robot[d.id]
    IN  /\ stage = "apply" /\ applied < Len(action_ids)
        /\ \/ d.wheel = 0 /\ ~HasRobotJoint(d.id) /\ Throw
           \/ /\ d.wheel = 0 => HasRobotJoint(d.id)
              /\ applied' = applied + 1
              /\ source' = [source EXCEPT ![r] = applied + 1]
              /\ k_des' = [k_des EXCEPT ![r] = stiffness[d.id]]
              /\ d_des' = [d_des EXCEPT ![r] = damping[d.id]]
              /\ UNCHANGED <<load, filled, offset, stage, thrown>>

EndRun ==
    /\ stage = "apply" /\ applied = Len(action_ids)
    /\ stage' = "sent"
    /\ UNCHANGED <<load, run, thrown>>

Next ==
    \/ parse_actuator \/ ActuatorsParsed \/ parse_policy_gains \/ MapJoint \/ AllMapped
    \/ ParseCommand \/ CommandsParsed \/ CreateObsTerm \/ CheckObservations
    \/ RefuseActionTerm \/ MatchEntry \/ EndPattern \/ EndList \/ CreateActionTerm
    \/ CheckActions \/ FillTerm \/ RunModel \/ ApplyElement \/ EndRun

SafetySpec == Init /\ [][Next]_vars

-----------------------------------------------------------------------------
(* Properties *)

Stages == {"gains", "joints", "commands", "observations", "actions", "fill", "apply", "sent", "ended"}

\* Types; the joints of the terms created are the policy's.
TypeOK ==
    /\ stage \in Stages
    /\ thrown \in (Stages \ {"sent", "ended"}) \cup {"none"}
    /\ actuator \in 0 .. Len(md.actuators) /\ assigned \subseteq Joints
    /\ stiffness \in [Joints -> Int] /\ damping \in [Joints -> Int]
    /\ mapped \in 0 .. Len(md.joints)
    /\ joint_id_policy_to_robot \in [Joints -> RobotIds \cup {-1}]
    /\ parsed \in 0 .. Len(md.commands)
    /\ height_scan_size \in Int /\ read \in 0 .. Len(md.observations)
    /\ Len(obs_terms) = read /\ obs_size \in Nat /\ declared \in Seq(Nat)
    /\ cursor.entry \in Nat \ {0} /\ cursor.matching \in Nat
    /\ \A e \in DOMAIN action_ids : action_ids[e].id \in Joints
    /\ Len(filled) <= Len(obs_terms) /\ offset \in Nat
    /\ applied \in 0 .. Len(action_ids)
    /\ source \in [RobotIds -> 0 .. applied]
    /\ k_des \in [RobotIds -> Int] /\ d_des \in [RobotIds -> Int]

\* The run fills the input exactly if every term was created with the size that it
\* has in the run, and only then: no two errors make up for each other, and no
\* slice is left over or runs past the end of the input unless the size of a scan
\* was wrong when its term was created.
SlicesFit ==
    stage = "apply" =>
        (offset = md.input_size <=> \A n \in DOMAIN filled : filled[n] = obs_terms[n].size)

\* What an element of the output drives has the name of the joint it was matched
\* for, every joint matched is driven, and by the last of its elements if
\* several expressions match it.
CommandsByName ==
    stage = "sent" =>
        \A e \in DOMAIN action_ids : \E r \in RobotIds :
            /\ RobotJoints[r] = md.joints[action_ids[e].id]
            /\ source[r] >= e
            /\ action_ids[source[r]].id = action_ids[e].id

\* A driven joint is sent the stiffness and the damping of the one actuator that matches
\* its name, or -1 where none does; those of an older export are its joint's own.
GainsByName ==
    stage = "sent" => \A r \in RobotIds : source[r] # 0 =>
        LET i == action_ids[source[r]].id
        IN  IF ~md.articulated
            THEN k_des[r] = md.joint_stiffness[i] /\ d_des[r] = md.joint_damping[i]
            ELSE \/ /\ k_des[r] = -1 /\ d_des[r] = -1
                    /\ \A a \in DOMAIN md.actuators : RobotJoints[r] \notin md.actuators[a].joints
                 \/ \E a \in DOMAIN md.actuators :
                       /\ \A b \in DOMAIN md.actuators :
                             RobotJoints[r] \in md.actuators[b].joints <=> b = a
                       /\ k_des[r] = Stiffness(md.actuators[a], i)
                       /\ d_des[r] = resolve_gain(md.actuators[a].damping, i)

TermOf(e) == {f \in DOMAIN action_ids : action_ids[f].term = action_ids[e].term}
WheelOf(e) == {f \in TermOf(e) : action_ids[f].wheel = action_ids[e].wheel}

Listed(term, list, i) ==
    LET patterns == md.actions[term].expressions[list]
    IN  \E p \in DOMAIN patterns : md.joints[i] \in patterns[p]
In(f, list) == Listed(action_ids[f].term, list, action_ids[f].id)

\* A wheel that a loaded policy turns has one joint that a steering expression matches
\* and another that a drive expression matches; the robot has both, and no other wheel
\* of the term uses them.
WheelsWired ==
    stage \in {"fill", "apply", "sent"} => \A e \in DOMAIN action_ids : action_ids[e].wheel # 0 =>
        /\ \E s, d \in WheelOf(e) : WheelOf(e) = {s, d} /\ s # d /\ In(s, Steering) /\ In(d, Drive)
        /\ \A f \in TermOf(e) : action_ids[f].id = action_ids[e].id => f = e
        /\ Found(md.joints[action_ids[e].id]) # {}

\* deploy_onnx.cpp: a joint that the robot lacks "is left unmapped (-1) and must
\* not be observed/commanded": nothing is sent by a policy that does either, and
\* the control loop is ended by such a joint only if the caller allowed joints to
\* be missing, else the constructor finds it.
MissingJointsUnused ==
    LET missing(i) == Found(md.joints[i]) = {}
    IN  /\ stage = "sent" =>
              /\ \A e \in DOMAIN action_ids : ~missing(action_ids[e].id)
              /\ \A k \in DOMAIN obs_terms : obs_terms[k].config.func = "joints" =>
                    \A n \in DOMAIN obs_terms[k].config.ids :
                        ~missing(obs_terms[k].config.ids[n])
        /\ thrown \in {"fill", "apply"} => md.allow_missing_robot_joints

\* The metadata that belong to a model are loaded: README.md, "Load the matching
\* deployment metadata from YAML".
MatchingIsLoaded ==
    thrown = "observations" /\ read = Len(md.observations) => LastOf(declared) # md.input_size
=============================================================================
