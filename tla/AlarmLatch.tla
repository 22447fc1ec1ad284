----------------------------- MODULE AlarmLatch -----------------------------
(***************************************************************************)
(* What the path from a detection to the controller promises for the stop  *)
(* alarms, whatever it debounces, merges, queues and expires: an alarm     *)
(* goes on when a camera detects it, and goes off only when that camera    *)
(* has not detected it for some time.                                      *)
(***************************************************************************)
EXTENDS Naturals

CONSTANTS
  Cameras,
  Alarms,
  Keep      \* an alarm outlives its last detection by this many ticks at least

VARIABLES
  on,       \* the alarms that are on, as pairs of a camera and an alarm
  seen      \* per camera and alarm: age of its last detection (Keep + 1: older, or never)

Init ==
  /\ on = {}
  /\ seen = [c \in Cameras |-> [a \in Alarms |-> Keep + 1]]

\* A frame of camera c raises the alarms A, none of them perhaps.
Detect(c, A) ==
  /\ on' = on \union ({c} \X A)
  /\ seen' = [seen EXCEPT ![c] = [a \in Alarms |-> IF a \in A THEN 0 ELSE seen[c][a]]]

Tick ==
  /\ seen' = [c \in Cameras |-> [a \in Alarms |->
                IF seen[c][a] > Keep THEN seen[c][a] ELSE seen[c][a] + 1]]
  /\ UNCHANGED on

\* Some alarms that were not detected lately go off.
Release ==
  /\ \E R \in SUBSET on :
       /\ \A ca \in R : seen[ca[1]][ca[2]] > Keep
       /\ on' = on \ R
  /\ UNCHANGED seen

Next == (\E c \in Cameras, A \in SUBSET Alarms : Detect(c, A)) \/ Tick \/ Release

Spec == Init /\ [][Next]_<<on, seen>>
=============================================================================
