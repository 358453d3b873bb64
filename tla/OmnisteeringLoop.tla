---------------------------- MODULE OmnisteeringLoop ----------------------------
(***************************************************************************)
(* process_impl as the loop that it is: wheels are computed one after the  *)
(* other into local vectors, any of them may throw, and only after the     *)
(* last is anything stored.  Omnisteering takes a run in one step; the     *)
(* caller of a run that threw may run the term again.                      *)
(***************************************************************************)
EXTENDS Omnisteering, Sequences

VARIABLE
    staging         \* steering and drive, of the wheels computed so far

loopVars == <<vars, staging>>

\* The wheel that the loop is at.
Current == Len(staging) + 1

\* Mutant of StageWheel: each wheel's results are stored as it is computed.
StageAtOnce ==
    /\ Current \in Wheels \ faulty
    /\ \E result \in Staged(Current) :
         /\ staging' = Append(staging, result)
         /\ target' = [target EXCEPT ![Current] = result[1]]
         /\ q_des' = [q_des EXCEPT ![Current] = result[1]]
         /\ drive' = [drive EXCEPT ![Current] = result[2]]
    /\ UNCHANGED <<position, heading, faulty, step, initialized, pushes, restarts>>

\* The body of the loop for one wheel.
StageWheel ==
    /\ Current \in Wheels \ faulty
    /\ \E result \in Staged(Current) : staging' = Append(staging, result)
    /\ UNCHANGED vars

\* Its pose or position is not finite: the run ends there, and the local vectors
\* with it.
Throw ==
    /\ Current \in faulty
    /\ staging' = <<>>
    /\ UNCHANGED vars

\* After the last wheel, targets and outputs are stored, and the caller counts
\* the run.
Commit ==
    /\ Len(staging) = NumWheels
    /\ target' = [w \in Wheels |-> staging[w][1]]
    /\ drive' = [w \in Wheels |-> staging[w][2]]
    /\ q_des' = target'
    /\ initialized' = TRUE
    /\ step' = 1
    /\ staging' = <<>>
    /\ UNCHANGED <<position, heading, faulty, pushes, restarts>>

\* A run reads one snapshot of the inputs, on the thread that makes it; the world
\* is seen to move between runs only.
Between ==
    /\ staging = <<>>
    /\ \/ \E w \in Wheels : Follow(w) \/ Push(w)
       \/ NewCommand
       \/ NewFaults
       \/ Restart
    /\ UNCHANGED staging

LoopInit == Init /\ staging = <<>>

LoopNext == StageWheel \/ Throw \/ Commit \/ Between

LoopSpec == LoopInit /\ [][LoopNext]_loopVars

-----------------------------------------------------------------------------
(* Properties *)

\* Whichever wheels fail, and after however many others have been computed: a
\* run changes the targets, the outputs and the flag of all wheels in one step,
\* from the state it began in, or of none.
AllOrNothing == SafetySpec
=============================================================================
