----------------------------- MODULE MCPolicyRuntime -----------------------------
(* Instances of PolicyRuntime for TLC. *)
EXTENDS PolicyRuntime

\* A velocity with a history of three and a clip that bites at both ends, and the
\* last action with a history of two and a clip that bites above.
MCTerms == {"base_ang_vel", "last_action"}
MCLength == [base_ang_vel |-> 3, last_action |-> 2]
MCClipMin == [base_ang_vel |-> -1, last_action |-> -9]
MCClipMax == [base_ang_vel |-> 1, last_action |-> 1]
MCReadings == {-2, 0, 2}
MCActions == {0, 2}
MCStates == {0, 1}

\* Two layers of a GRU of different sizes, in another order among the outputs.
GruInputShape == <<"small", "large">>
GruOutputShape == <<"large", "small">>
GruPartner == <<2, 1>>

\* The hidden and the cell state of an LSTM.
LstmShape == <<"layer", "layer">>
LstmPartner == <<1, 2>>
=============================================================================
