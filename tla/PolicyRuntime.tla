------------------------------ MODULE PolicyRuntime ------------------------------
(***************************************************************************)
(* OnnxPolicy::run: what the network is given and what is kept of what it  *)
(* returns.  Each observation term clips its reading and keeps a history   *)
(* of it; the last action is observed at the next run; every recurrent     *)
(* state that the network puts out is fed back to an input found, when the *)
(* model was loaded, by its shape.  The network is any function: it may    *)
(* return any action and any states.  A reading, an action and a state     *)
(* stand for one element of theirs.                                        *)
(***************************************************************************)
EXTENDS Integers, Sequences

CONSTANTS
    Terms,          \* observation terms of the group
    LastAction,     \* the one that observes the last action
    Length,         \* history_length of each term
    ClipMin,        \* clip of each term, wide where none is configured
    ClipMax,
    Readings,       \* what the other terms may read
    Actions,        \* what the network may put out for its action
    States,         \* ... and for each of its states
    NumInputs,      \* recurrent state inputs of the model, in its order
    NumOutputs,     \* recurrent state outputs of the model, in its order
    InputShape,     \* their shapes
    OutputShape,
    Partner,        \* the output that, in the model, is the new value of an input
    MaxRuns         \* bound: runs of the policy

VARIABLES
    running,        \* a tick is under way
    last_action,    \* _inputs.last_action
    raw_action,     \* _outputs->raw_action
    history,        \* _history_buffer of each term: the slice of the observation
    stateInput,     \* recurrent input tensors
    stateOutput,    \* recurrent output tensors
    observed,       \* history: what every term observed, run by run
    acted           \* history: the actions put out, run by run

vars == <<running, last_action, raw_action, history, stateInput, stateOutput, observed, acted>>

StateInputs == 1 .. NumInputs
StateOutputs == 1 .. NumOutputs

\* The outputs that have the shape of an input.
Candidates(i) == {o \in StateOutputs : OutputShape[o] = InputShape[i]}

\* The first output of its shape is matched to an input.
Match(i) == CHOOSE o \in Candidates(i) : \A p \in Candidates(i) : o <= p

\* A model with a state input that no output matches is not loaded.
ASSUME RuntimeAssumption ==
    /\ LastAction \in Terms
    /\ Length \in [Terms -> Nat \ {0}]
    /\ ClipMin \in [Terms -> Int] /\ ClipMax \in [Terms -> Int]
    /\ Readings \subseteq Int /\ Actions \subseteq Int /\ 0 \in Actions
    /\ 0 \in States
    /\ NumInputs \in Nat /\ NumOutputs \in Nat /\ MaxRuns \in Nat
    /\ Partner \in [StateInputs -> StateOutputs]
    /\ \A i \in StateInputs : \E o \in Candidates(i) : \A p \in Candidates(i) : o <= p

-----------------------------------------------------------------------------
(* ObsTerm::process *)

AtLeast(x, low) == IF x < low THEN low ELSE x
AtMost(x, high) == IF x > high THEN high ELSE x

Clipped(t, x) == AtMost(AtLeast(x, ClipMin[t]), ClipMax[t])

\* Mutant of Filled: a new buffer starts from zero.
FilledZero(t, x) == IF history[t] = <<>> THEN [k \in 1 .. Length[t] |-> 0] ELSE history[t]

\* A buffer that is not there yet is filled with the first reading.
Filled(t, x) == IF history[t] = <<>> THEN [k \in 1 .. Length[t] |-> x] ELSE history[t]

\* Mutant of Shifted: the oldest reading leaves a buffer shorter.
ShiftedShort(t, x) == [k \in 1 .. Length[t] - 1 |-> Filled(t, x)[k + 1]]

\* The oldest reading leaves and the new one is appended.
Shifted(t, x) == [k \in 1 .. Length[t] |-> IF k < Length[t] THEN Filled(t, x)[k + 1] ELSE x]

-----------------------------------------------------------------------------
(* The tick *)

Init ==
    /\ running = FALSE
    /\ last_action = 0
    /\ raw_action = 0
    /\ history = [t \in Terms |-> <<>>]
    /\ stateInput = [i \in StateInputs |-> 0]
    /\ stateOutput = [o \in StateOutputs |-> 0]
    /\ observed = <<>>
    /\ acted = <<>>

\* The action of the last run becomes an input.
TakeInputs ==
    /\ ~running /\ Len(acted) < MaxRuns
    /\ running' = TRUE
    /\ last_action' = raw_action
    /\ UNCHANGED <<raw_action, history, stateInput, stateOutput, observed, acted>>

\* Mutant of EndEarly: what was not run is not the last action.
EndEarlyCleared ==
    /\ running
    /\ running' = FALSE
    /\ raw_action' = 0
    /\ UNCHANGED <<last_action, history, stateInput, stateOutput, observed, acted>>

\* The tick ends without a run: a height scan is missing.
EndEarly ==
    /\ running
    /\ running' = FALSE
    /\ UNCHANGED <<last_action, raw_action, history, stateInput, stateOutput, observed, acted>>

\* Mutant of FedBack: the states in the order of the outputs.
FedBackInOrder(outputs) ==
    [i \in StateInputs |-> IF i \in StateOutputs THEN outputs[i] ELSE stateInput[i]]

\* The state inputs of the next run.
FedBack(outputs) == [i \in StateInputs |-> outputs[Match(i)]]

\* OnnxPolicy::run on the readings of this tick.
run(reading) ==
    LET seen == [t \in Terms |->
                    Clipped(t, IF t = LastAction THEN last_action ELSE reading[t])]
    IN  /\ running
        /\ running' = FALSE
        /\ history' = [t \in Terms |-> Shifted(t, seen[t])]
        /\ observed' = Append(observed, seen)
        /\ raw_action' \in Actions
        /\ acted' = Append(acted, raw_action')
        /\ stateOutput' \in [StateOutputs -> States]
        /\ stateInput' = FedBack(stateOutput')
        /\ UNCHANGED last_action

Next ==
    \/ TakeInputs
    \/ EndEarly
    \/ \E reading \in [Terms \ {LastAction} -> Readings] : run(reading)

SafetySpec == Init /\ [][Next]_vars

-----------------------------------------------------------------------------
(* Properties *)

\* Types; a term has a history from the first run on.
TypeOK ==
    /\ running \in BOOLEAN /\ last_action \in Actions /\ raw_action \in Actions
    /\ observed \in Seq([Terms -> Int]) /\ acted \in Seq(Actions)
    /\ Len(observed) = Len(acted)
    /\ \A t \in Terms : IF Len(observed) = 0 THEN history[t] = <<>>
                                           ELSE history[t] \in [1 .. Length[t] -> Int]
    /\ stateInput \in [StateInputs -> States] /\ stateOutput \in [StateOutputs -> States]

\* The position, among the runs, of the k-th of the length last ones, the first
\* run standing for those before it.
RunOf(k, length) == AtLeast(Len(observed) - length + k, 1)

\* The network is given, of every term, its last readings in their order, the
\* oldest first, one per run: ticks that end early leave no gap and the first
\* reading stands for those that were never taken.
WindowOfRuns ==
    Len(observed) > 0 =>
        \A t \in Terms : \A k \in 1 .. Length[t] :
            history[t][k] = observed[RunOf(k, Length[t])][t]

\* Each run observes the action of the run before it, zero if it is the first,
\* however many ticks have ended early in between.
ObservesLastAction ==
    \A n \in 1 .. Len(observed) :
        observed[n][LastAction] = Clipped(LastAction, IF n = 1 THEN 0 ELSE acted[n - 1])

\* Each state input of the next run is the new value that the last run gave that
\* state: deploy_onnx.cpp, "recurrent state (e.g. GRU/LSTM hidden state) that must
\* be fed back with the matching output from the previous run()".
StatesAreFedBack == \A i \in StateInputs : stateInput[i] = stateOutput[Partner[i]]
=============================================================================
