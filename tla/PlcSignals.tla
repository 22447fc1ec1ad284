----------------------------- MODULE PlcSignals -----------------------------
(***************************************************************************)
(* The data path of an alarm signal, from the set of signals one analysed  *)
(* frame raises to the coils of the PLC, as pure operators:                *)
(*                                                                         *)
(*   signals --Merge--> merged signals --DataOf--> CameraData              *)
(*           --Targets--> actions held --Outputs--> M16..M19, M21, M22     *)
(*                                                                         *)
(* A train has four alarm actions, "stop" and "slow" in each direction.    *)
(***************************************************************************)
EXTENDS Naturals

\* The keys of actionHolds: the four alarm actions.
Actions == {"forward_stop", "forward_slow", "back_stop", "back_slow"}

\* What SendSignalsToPLC can queue: an action, or one of the two-way merges.
Signals == Actions \union {"inside_stop", "inside_slow"}

StopSignals == {"forward_stop", "back_stop", "inside_stop"}

\* The coils of the PLC.  M20 is the heartbeat, the others carry the alarm.
SignalTags == {"M16", "M17", "M18", "M19", "M21", "M22"}
Tags == SignalTags \union {"M20"}

(***************************************************************************)
(* Stop overrides slow in the same direction.                              *)
(***************************************************************************)
StopOverSlow(S) ==
  S \ ( (IF "forward_stop" \in S THEN {"forward_slow"} ELSE {})
        \union (IF "back_stop" \in S THEN {"back_slow"} ELSE {}) )

(***************************************************************************)
(* ... and a pair of opposite signals becomes one two-way signal, which    *)
(* replaces the whole map.                                                 *)
(***************************************************************************)
Merge(S) ==
  LET kept == StopOverSlow(S)
      one  == IF {"forward_stop", "back_stop"} \subseteq kept
              THEN {"inside_stop"} ELSE kept
  IN  IF {"forward_slow", "back_slow"} \subseteq one THEN {"inside_slow"} ELSE one

\* The direction and the action level of the CameraData queued for a signal.
DataOf(s) ==
  [ direction |-> CASE s \in {"forward_stop", "forward_slow"} -> "front"
                    [] s \in {"back_stop", "back_slow"}       -> "back"
                    [] s \in {"inside_stop", "inside_slow"}   -> "inside",
    level     |-> IF s \in StopSignals THEN 2 ELSE 1 ]

\* The actions the controller holds for a CameraData it receives.
Targets(data) ==
  LET stop == data.level = 2
      slow == data.level = 1
  IN  CASE data.direction = "front"  /\ stop -> {"forward_stop"}
        [] data.direction = "front"  /\ slow -> {"forward_slow"}
        [] data.direction = "back"   /\ stop -> {"back_stop"}
        [] data.direction = "back"   /\ slow -> {"back_slow"}
        [] data.direction = "inside" /\ stop -> {"forward_stop", "back_stop"}
        [] data.direction = "inside" /\ slow -> {"forward_slow", "back_slow"}
        [] OTHER -> {}

\* The value of every alarm coil when the actions in A are held by a camera.
Outputs(A) ==
  LET m16 == "forward_stop" \in A
      m17 == "back_stop" \in A
      m18 == "forward_slow" \in A /\ ~m16
      m19 == "back_slow" \in A /\ ~m17
  IN  [t \in SignalTags |->
         CASE t = "M16" -> m16
           [] t = "M17" -> m17
           [] t = "M18" -> m18
           [] t = "M19" -> m19
           [] t = "M21" -> m16 \/ m17 \/ m18 \/ m19
           [] t = "M22" -> m16 \/ m17]

\* The actions held once everything Merge keeps of S has been received.
HeldAfter(S) == UNION {Targets(DataOf(s)) : s \in Merge(S)}

=============================================================================
