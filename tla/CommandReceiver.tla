----------------------------- MODULE CommandReceiver -----------------------------
(***************************************************************************)
(* RosCommandReceiver: operator commands are sanitized when they arrive,   *)
(* and at every control tick filtered into the policy's inputs, unless     *)
(* they are stale: then the default command is used.  A command is one of  *)
(* its fields (each field is treated alike and on its own), an integer on  *)
(* a grid.  The low-pass filter is any move towards the target.            *)
(***************************************************************************)
EXTENDS Integers

CONSTANTS
    Names,          \* names of the commands in the metadata
    TerrainBased,   \* those sanitized by KyonIsaacTerrainBasedVelocityCommand
    Filtered,       \* those with a filter_cutoff_hz
    MinCommand,     \* CommandSpec::min
    MaxCommand,     \* CommandSpec::max
    RawCommands,    \* field values that messages carry
    Malformed,      \* a message of the wrong size or with a field not finite
    Timeout,        \* command_timeout_s
    MaxClock,       \* bound: the node clock stops here
    MaxMessages,    \* bound: messages accepted
    MaxRewinds      \* bound: how often a simulated clock may jump back

ASSUME CommandAssumption ==
    /\ TerrainBased \subseteq Names /\ Filtered \subseteq Names
    /\ MinCommand \in Int /\ MaxCommand \in Int /\ MinCommand <= MaxCommand
    /\ RawCommands \subseteq Int /\ Malformed \notin RawCommands
    /\ Timeout \in Nat /\ MaxClock \in Nat /\ MaxMessages \in Nat /\ MaxRewinds \in Nat

\* CommandSpec::default_value: every command class sets it to zero, whether or
\* not its range holds zero.
Default == 0

VARIABLES
    clock,          \* the node clock
    rewinds,        \* backward jumps of the clock so far
    rewound,        \* history: by how much they set the clock back in all
    messages,       \* history: messages accepted
    state,          \* _states
    scanPresent,    \* the caller's Inputs::height_scan is not empty
    snapshotScan,   \* the same of _inputs, the copy kept by fill_inputs
    command,        \* Inputs::command of the caller
    filledAt,       \* history: time of the last fill_inputs, not set back
    heardAt,        \* history: time a command was last accepted, not set back
    targets         \* history: commands accepted since the last fallback

vars == <<clock, rewinds, rewound, messages, state, scanPresent, snapshotScan, command,
          filledAt, heardAt, targets>>

CommandState ==
    [value : Int, filtered_value : Int, stamp : Nat, filter_stamp : Nat, has_value : BOOLEAN]

\* Time as it has passed, whatever the node clock was set back by.
Elapsed == clock + rewound

\* The integers between two elements of S.
Hull(S) == {v \in Int : \E a, b \in S : a <= v /\ v <= b}

-----------------------------------------------------------------------------
(* Sanitizing *)

\* Mutant of Clamp: only the upper bound holds.
ClampAbove(v) == IF v > MaxCommand THEN MaxCommand ELSE v

Clamp(v) == IF v < MinCommand THEN MinCommand ELSE IF v > MaxCommand THEN MaxCommand ELSE v

\* Mutant of Sanitizes: terrain commands do not wait for a scan.
SanitizesAny(n, raw) == raw # Malformed

\* sanitize: well formed, and for a terrain command the snapshot holds a scan.
\* Its post-processed value is not used.
Sanitizes(n, raw) == raw # Malformed /\ (n \in TerrainBased => snapshotScan)

\* Mutant of store_command: has_value is not set.
store_command_unset(n, raw) ==
    /\ Sanitizes(n, raw)
    /\ messages < MaxMessages
    /\ clock + Timeout < MaxClock
    /\ messages' = messages + 1
    /\ state' = [state EXCEPT ![n].value = Clamp(raw), ![n].stamp = clock]
    /\ heardAt' = [heardAt EXCEPT ![n] = Elapsed]
    /\ targets' = [targets EXCEPT ![n] = @ \cup {Clamp(raw)}]
    /\ UNCHANGED <<clock, rewinds, rewound, scanPresent, snapshotScan, command, filledAt>>

\* The guard on the clock is a bound: a command is accepted while its timeout
\* is still within the clock's range.
store_command(n, raw) ==
    /\ Sanitizes(n, raw)
    /\ messages < MaxMessages
    /\ clock + Timeout < MaxClock
    /\ messages' = messages + 1
    /\ state' = [state EXCEPT ![n].value = Clamp(raw), ![n].stamp = clock,
                              ![n].has_value = TRUE]
    /\ heardAt' = [heardAt EXCEPT ![n] = Elapsed]
    /\ targets' = [targets EXCEPT ![n] = @ \cup {Clamp(raw)}]
    /\ UNCHANGED <<clock, rewinds, rewound, scanPresent, snapshotScan, command, filledAt>>

-----------------------------------------------------------------------------
(* The control tick *)

\* Mutant of Stale: the age is that of the filter, which every tick renews.
StaleFilter(st) == ~st.has_value \/ clock - st.filter_stamp > Timeout
\* Mutant of Stale: a command, once heard, stays valid.
NeverStale(st) == ~st.has_value

Stale(st) == ~st.has_value \/ clock - st.stamp > Timeout

\* The default replaces the command and its filter history, at a clock that
\* was set back too.
FallsBack(st) == Stale(st) \/ clock - st.filter_stamp < 0

\* filter_command: no cutoff, or a first-order step over a positive time.
filter_command(n, value, target, dt) ==
    IF n \notin Filtered THEN {target}
    ELSE IF dt > 0 THEN (value .. target) \cup (target .. value)
    ELSE {value}

\* The values the command n may get at a tick.
Filter(n) ==
    LET st == state[n] IN
    IF FallsBack(st) THEN {Default}
    ELSE filter_command(n, st.filtered_value, st.value, clock - st.filter_stamp)

\* Mutant of Filled: the fallback is sent, but the filter goes on from where
\* it was.
FilledKeepingHistory(st, v) ==
    [st EXCEPT !.filtered_value = IF FallsBack(st) THEN @ ELSE v, !.filter_stamp = clock]

\* The state of a command that was given the value v.
Filled(st, v) == [st EXCEPT !.filtered_value = v, !.filter_stamp = clock]

\* fill_inputs of every command; the snapshot is taken before the sensor
\* receiver fills the scan of this tick.
fill_inputs ==
    \E filtered \in [Names -> UNION {Filter(n) : n \in Names}] :
        /\ \A n \in Names : filtered[n] \in Filter(n)
        /\ command' = filtered
        /\ state' = [n \in Names |-> Filled(state[n], filtered[n])]
        /\ snapshotScan' = scanPresent
        /\ filledAt' = Elapsed
        /\ targets' = [n \in Names |->
                          IF ~FallsBack(state[n]) THEN targets[n]
                          ELSE IF state[n].has_value THEN {state[n].value} ELSE {}]
        /\ UNCHANGED <<clock, rewinds, rewound, messages, scanPresent, heardAt>>

-----------------------------------------------------------------------------
(* The environment *)

\* The sensor receiver writes a scan into the caller's inputs; one stays there.
ScanArrives ==
    /\ ~scanPresent
    /\ scanPresent' = TRUE
    /\ UNCHANGED <<clock, rewinds, rewound, messages, state, snapshotScan, command,
                   filledAt, heardAt, targets>>

Tick ==
    /\ clock < MaxClock
    /\ clock' = clock + 1
    /\ UNCHANGED <<rewinds, rewound, messages, state, scanPresent, snapshotScan, command,
                   filledAt, heardAt, targets>>

\* With use_sim_time the clock restarts when the simulation is reset.
Rewind ==
    /\ rewinds < MaxRewinds
    /\ rewinds' = rewinds + 1
    /\ \E t \in 0 .. (clock - 1) : clock' = t /\ rewound' = rewound + (clock - t)
    /\ UNCHANGED <<messages, state, scanPresent, snapshotScan, command, filledAt, heardAt,
                   targets>>

-----------------------------------------------------------------------------
Init ==
    /\ clock = 0 /\ rewinds = 0 /\ rewound = 0 /\ messages = 0
    /\ state = [n \in Names |->
                   [value |-> Default, filtered_value |-> Default, stamp |-> 0,
                    filter_stamp |-> 0, has_value |-> FALSE]]
    /\ scanPresent = FALSE /\ snapshotScan = FALSE
    /\ command = [n \in Names |-> Default]
    /\ filledAt = 0
    /\ heardAt = [n \in Names |-> 0]
    /\ targets = [n \in Names |-> {}]

Next ==
    \/ \E n \in Names, raw \in RawCommands \cup {Malformed} : store_command(n, raw)
    \/ fill_inputs
    \/ ScanArrives
    \/ Tick
    \/ Rewind

\* The control timer calls fill_inputs at every period and the clock advances.
Fairness == WF_vars(fill_inputs) /\ WF_vars(Tick)

SafetySpec == Init /\ [][Next]_vars

Spec == SafetySpec /\ Fairness

-----------------------------------------------------------------------------
(* Properties *)

\* Types of the receiver's state; a command never heard has no accepted target
\* and the default as its filtered value.
TypeOK ==
    /\ clock \in Nat /\ rewinds \in Nat /\ rewound \in Nat /\ messages \in Nat
    /\ state \in [Names -> CommandState]
    /\ scanPresent \in BOOLEAN /\ snapshotScan \in BOOLEAN
    /\ command \in [Names -> Int]
    /\ filledAt \in Nat
    /\ heardAt \in [Names -> Nat]
    /\ targets \in [Names -> SUBSET Int]
    /\ \A n \in Names :
         ~state[n].has_value => targets[n] = {} /\ state[n].filtered_value = Default

\* Whatever is sent, and however the filter and the timeouts interleave, the
\* policy is given a command between the default and the range of the metadata.
CommandInRange == \A n \in Names : command[n] \in Hull({Default, MinCommand, MaxCommand})

\* A fallback, after a timeout or a clock set back, discards the filter's
\* history: what the policy is given is made of the default and of commands
\* accepted since (the one held at the fallback included).
HistoryDiscarded ==
    \A n \in Names :
        /\ command[n] \in Hull({Default} \cup targets[n])
        /\ n \notin Filtered => command[n] \in {Default} \cup targets[n]

\* The dead man's switch: a command other than the default was last heard
\* within the timeout of the tick, plus the time the clock was set back by.
DeadMan ==
    \A n \in Names :
        command[n] # Default => filledAt - heardAt[n] <= Timeout + rewound

\* When the operator falls silent the policy is eventually given the default
\* command, and from then on nothing else.
SilenceStops ==
    <>[][\A n \in Names : heardAt'[n] = heardAt[n] /\ messages' = messages]_vars
        => <>[](\A n \in Names : command[n] = Default)
=============================================================================
