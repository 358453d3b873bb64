------------------------------ MODULE MCPolicyNode ------------------------------
(* Constants of PolicyNode that a configuration file cannot write.            *)
EXTENDS PolicyNode

MCMin == -1
MCLow == -1

\* A base that the policy does not move, a leg and a wheel; the robot's joints are
\* in another order.
MCVNames == <<"base_x", "knee", "wheel">>
MCJointNames == <<"base", "wheel", "knee">>
MCReferences == {<<0, 0, 1>>, <<0, 3, 1>>}

\* One joint.
MCOneName == <<"hip">>
MCOneReference == {<<0>>}

\* One estimate that is right and one of each kind that is wrong.
MCEstimate(size, finite, nonnegative, data) ==
    [size |-> size, finite |-> finite, nonnegative |-> nonnegative, data |-> data]
MCEstimateMessages ==
    {MCEstimate(8, TRUE, TRUE, "heavy"), MCEstimate(7, TRUE, TRUE, "short"),
     MCEstimate(8, FALSE, TRUE, "infinite"), MCEstimate(8, TRUE, FALSE, "slippery")}

\* Only the right one.
MCValidMessages == {m \in MCEstimateMessages : m.data = "heavy"}
=============================================================================
