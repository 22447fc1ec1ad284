----------------------------- MODULE PlcAlarms -----------------------------
(***************************************************************************)
(* The pipeline of PlcPipeline with a history of the detections, and the   *)
(* promise of AlarmLatch it keeps.  The history is not part of the code:   *)
(* no step reads it.                                                       *)
(***************************************************************************)
EXTENDS PlcPipeline

VARIABLE seen  \* history: age of the last frame of a camera that raised a stop

alarmVars == <<pipeVars, seen>>

StopActions == Actions \cap StopSignals

\* A hold lives HoldTime from the report that is received, and a report is
\* left out for Debounce at most.
Keep == HoldTime - Debounce

AlarmInit ==
  /\ PipeInit
  /\ seen = [c \in Cameras |-> [a \in StopActions |-> Keep + 1]]

\* A frame of camera c raises the signals S.
DetectAndSend(c, S) ==
  /\ BeginSend(c, S)
  /\ seen' = [seen EXCEPT ![c] = [a \in StopActions |-> IF a \in S THEN 0 ELSE seen[c][a]]]

AlarmClock ==
  /\ PipeClock
  /\ seen' = [c \in Cameras |-> [a \in StopActions |-> Older(seen[c][a], Keep)]]

AlarmNext ==
  \/ \E c \in Cameras, S \in Raised : DetectAndSend(c, S)
  \/ AlarmClock
  \/ \E c \in Cameras, s \in Signals : (SendData(c, s) \/ DropSlow(c, s)) /\ UNCHANGED seen
  \/ Run /\ UNCHANGED <<sendVars, seen>>
  \/ HeartbeatLoop /\ UNCHANGED <<sendVars, seen>>
  \/ (Stop \/ LinkDrop \/ LinkRestore \/ PowerCycle) /\ UNCHANGED <<sendVars, seen>>

AlarmSpec == AlarmInit /\ [][AlarmNext]_alarmVars

-----------------------------------------------------------------------------
(* Properties.                                                              *)

\* Camera c's report of alarm a is on its way to the controller.
OnItsWay(c, a) ==
  \E s \in Signals : a \in Targets(DataOf(s)) /\ (s \in todo[c] \/ Queued(c, s))

Known(c, a) == holds[a][c] # NoHold \/ OnItsWay(c, a)

Latch == INSTANCE AlarmLatch
  WITH Alarms <- StopActions,
       on <- {ca \in Cameras \X StopActions : Known(ca[1], ca[2])}

\* A stop that a camera keeps detecting is never released in between: it is held
\* or on its way from the frame that raised it until HoldTime - Debounce after the
\* last frame that did, although SendSignalsToPLC merges signals into others,
\* leaves out what was just sent and dates a report with the beginning of a call
\* that may have waited for room, and although the controller purges what is old;
\* and nothing but a detection raises a stop.
ImplementsLatch == Latch!Spec
=============================================================================
