------------------------------- MODULE NewestScan -------------------------------
(***************************************************************************)
(* What a height-scan receiver promises its caller, for every sensor: the  *)
(* clouds of a sensor are numbered as they are received, at most one of    *)
(* them waits and it is the newest, and the scan the caller is shown only  *)
(* ever advances, to the cloud that was waiting or has just been received. *)
(* How long a cloud waits, and for what, is left open.                     *)
(***************************************************************************)
EXTENDS Naturals

CONSTANT Sensors            \* the sensors whose scans the caller consumes

VARIABLES
    newest,                 \* newest[s]: clouds received so far from s
    waiting,                \* waiting[s]: the cloud that waits, 0 if none does
    shown                   \* shown[s]: the cloud shown to the caller, 0 if none

vars == <<newest, waiting, shown>>

Init ==
    /\ newest = [s \in Sensors |-> 0]
    /\ waiting = [s \in Sensors |-> 0]
    /\ shown = [s \in Sensors |-> 0]

\* A cloud is received. It replaces the one that waited, whatever becomes of
\* it: it is shown at once, waits, or is dropped.
Receive(s) ==
    LET n == newest[s] + 1 IN
    /\ newest' = [newest EXCEPT ![s] = n]
    /\ \/ /\ shown' = [shown EXCEPT ![s] = n]
          /\ waiting' = [waiting EXCEPT ![s] = 0]
       \/ /\ shown' = shown
          /\ waiting' \in {[waiting EXCEPT ![s] = w] : w \in {0, n}}

\* The clouds of some sensors stop waiting: each is shown or dropped.
Settle(consumed, dropped) ==
    /\ \A s \in consumed : waiting[s] # 0
    /\ shown' = [s \in Sensors |-> IF s \in consumed THEN waiting[s] ELSE shown[s]]
    /\ waiting' = [s \in Sensors |-> IF s \in consumed \cup dropped THEN 0 ELSE waiting[s]]
    /\ UNCHANGED newest

Next ==
    \/ \E s \in Sensors : Receive(s)
    \/ \E consumed, dropped \in SUBSET Sensors : Settle(consumed, dropped)

Spec == Init /\ [][Next]_vars
=============================================================================
