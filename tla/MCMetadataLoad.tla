------------------------------ MODULE MCMetadataLoad ------------------------------
EXTENDS MetadataLoad

MCNames == {"hip", "knee", "wheel", "roller", "arm", "left", "right"}
MCCommandNames == {"base_velocity", "base_height"}
MCRobotJoints == <<"roller", "hip", "knee", "wheel">>
MCBodies == <<"left", "right">>

Command(name, size) ==
    [name |-> name, class |-> "velocity", cutoff |-> <<>>,
     ranges |-> [n \in 1 .. size |-> <<-1, 1>>]]
Term(func) == [func |-> func, size |-> 1, command |-> "base_velocity", ids |-> <<1, 2>>,
               history_length |-> 0, start |-> 0, end |-> 1]
Gain(value) == <<[joints |-> MCNames, value |-> value]>>
Legs == [joints |-> {"hip", "knee"}, integral |-> <<>>, damping |-> Gain(6),
         stiffness |-> <<[joints |-> {"hip"}, value |-> 1], [joints |-> {"knee"}, value |-> 2]>>]
Rolling == [joints |-> {"wheel", "roller"}, stiffness |-> Gain(0), integral |-> Gain(3),
            damping |-> <<[joints |-> {"wheel"}, value |-> 7], [joints |-> {"roller"}, value |-> 8]>>]
\* An integral gain may be negative; this one is the sentinel of joints without an actuator.
Reversed == [Rolling EXCEPT !.integral = Gain(-1)]
Arms == [joints |-> {"knee", "arm"}, integral |-> <<>>, damping |-> Gain(9),
         stiffness |-> <<[joints |-> {"knee", "arm"}, value |-> 4], [joints |-> {"arm"}, value |-> 5]>>]
Joint(patterns) ==
    [class |-> "joints", command |-> "base_velocity", expressions |-> <<patterns>>]
Omni(steering, drive, wheels) ==
    [class |-> "omnisteering", command |-> "base_velocity",
     expressions |-> <<steering, drive, wheels>>]

\* A policy that fits, for a robot whose joints are in another order.
Fitting ==
    [joints |-> <<"knee", "hip", "wheel">>, allow_missing_robot_joints |-> FALSE,
     articulated |-> TRUE, actuators |-> <<Legs, Rolling>>,
     joint_stiffness |-> <<1, 2, 3>>, joint_damping |-> <<4, 5, 6>>,
     commands |-> <<Command("base_velocity", 2)>>,
     observations |-> <<Term("fixed"), Term("joints")>>, scene |-> <<>>,
     actions |-> <<Joint(<<{"hip", "knee"}>>), Joint(<<{"wheel"}>>)>>,
     input_size |-> 3, action_size |-> 3]

\* Joints, gains and actions.
ByJoints ==
    {[Fitting EXCEPT !.joints = j, !.allow_missing_robot_joints = m, !.articulated = l,
                     !.actuators = g, !.actions = a, !.action_size = n] :
        j \in {<<"knee", "hip", "wheel">>, <<"arm", "wheel", "knee">>, <<"wheel", "hip">>,
               <<"wheel", "hip", "arm">>},
        m \in BOOLEAN, l \in BOOLEAN,
        g \in {<<Legs, Rolling>>, <<Reversed>>, <<Legs, Arms>>, <<Reversed, Rolling>>,
               <<[Rolling EXCEPT !.stiffness = Gain(1)]>>},
        a \in {<<>>, <<Joint(<<{"hip", "knee"}>>), Joint(<<{"wheel"}>>)>>,
               <<Joint(<<{"knee", "wheel"}, {"wheel"}>>)>>, <<Joint(<<{"wheel", "hip"}>>)>>},
        n \in 0 .. 3}

\* Observations, commands, the scene and the size of the input.
BySizes ==
    {[Fitting EXCEPT !.observations = o, !.commands = c, !.scene = z, !.input_size = n] :
        o \in {<<Term("generated_commands"), Term("last_action")>>,
               <<Term("unsupported")>>,
               <<Term("fixed"), Term("height_scan")>>,
               <<[Term("adaptation_parameter_slice") EXCEPT !.start = 6, !.end = 8]>>,
               <<[Term("adaptation_parameter_slice") EXCEPT !.start = 6, !.end = 9]>>,
               <<Term("height_scan"), Term("joints"), [Term("height_scan") EXCEPT !.history_length = 2]>>,
               <<[Term("height_scan") EXCEPT !.history_length = 2], [Term("fixed") EXCEPT !.history_length = 2]>>},
        c \in {<<Command("base_velocity", 2)>>, <<Command("base_height", 1)>>,
               <<Command("base_height", 1),
                 [Command("base_velocity", 0) EXCEPT !.ranges = <<<<-1, 1>>, <<0>>, <<2, 2>>>>]>>,
               <<[Command("base_velocity", 0) EXCEPT !.ranges = <<<<1, -1>>>>]>>,
               <<[Command("base_velocity", 2) EXCEPT !.cutoff = <<0>>]>>},
        z \in {<<>>, <<2>>, <<1, 3>>},
        n \in {2, 3, 4, 5, 8, 11}}

\* Wheels, in one term and beside the terms of other joints.
ByWheels ==
    {[Fitting EXCEPT !.joints = j, !.actions = before \o <<w>> \o after,
                     !.allow_missing_robot_joints = TRUE,
                     !.commands = <<Command("base_velocity", c)>>,
                     !.action_size = Len(before) + Len(after)] :
        j \in {<<"knee", "roller", "hip", "wheel">>, <<"hip", "wheel", "knee", "arm">>},
        c \in {2, 3},
        before \in {<<>>, <<Joint(<<{"hip"}>>)>>}, after \in {<<>>, <<Joint(<<{"wheel"}>>)>>},
        w \in {Omni(s, d, b) :
                 s \in {<<{"hip", "knee"}>>, <<{"knee"}, {"hip"}>>, <<{"hip"}, {"hip"}>>, <<{"hip"}>>},
                 d \in {<<{"wheel", "roller"}>>, <<{"wheel"}>>, <<{"hip"}, {"wheel", "arm"}>>},
                 b \in {<<{"left", "right"}>>, <<{"right"}>>, <<{"left"}, {"left", "right"}>>}}}

MCMetadata == ByJoints \cup BySizes \cup ByWheels

\* What is exported with a model whose group has one height scan, at its end.
ExportedWithScan ==
    {[Fitting EXCEPT !.observations = <<Term("fixed"), Term("generated_commands"), Term("height_scan")>>,
                     !.scene = <<z>>, !.input_size = 3 + z] : z \in 1 .. 3}

MCIndeterminate == {-1, 0, 2, 3}
=============================================================================
