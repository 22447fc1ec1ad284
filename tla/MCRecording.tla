---------------------------- MODULE MCRecording ----------------------------
(***************************************************************************)
(* One instance for alarm recording: the shared recording status without   *)
(* and with recording enabled (Recording), and the path in MediaMTX that a *)
(* handler sees to before it starts its goroutines (MediaPath).  A         *)
(* behaviour exercises one of them, which is chosen in the initial state.  *)
(***************************************************************************)
EXTENDS Recording

CONSTANTS PathViewers, RetryMaxAttempts

VARIABLES part, marked, at, attempts, result, mtx, path, spent

mediaPath == <<marked, at, attempts, result, mtx, path, spent>>
allVars == <<part, vars, mediaPath>>

On == INSTANCE Recording WITH EnableRecording <- TRUE
Path == INSTANCE MediaPath WITH Viewers <- PathViewers

ASSUME PathAssumption == Path!MediaPathAssumption

RecordingInit ==
  /\ part \in {"off", "on", "path"} /\ (part = "off" => ~EnableRecording)
  /\ IF part = "on" THEN On!Init ELSE Init
  /\ Path!Init

In(p) == part = p /\ UNCHANGED part
Off(A) == In("off") /\ A /\ UNCHANGED mediaPath

RecordingNext ==
  \/ Off(Next)
  \/ In("on") /\ On!Next /\ UNCHANGED mediaPath
  \/ In("path") /\ Path!Next /\ UNCHANGED vars

\* The fairness of Recording, for the part without recording.
RecordingSpec ==
  /\ RecordingInit /\ [][RecordingNext]_allVars
  /\ \A v \in Viewers :
       /\ \A r \in Roles : WF_allVars(Off(Lock(<<v, r>>)))
       /\ SF_allVars(Off(Infer(v) /\ pc'[<<v, "infer">>] = "end"))
       /\ WF_allVars(Off(ReadCancelled(v) \/ Return(v)))
       /\ SF_allVars(Off(Check(v) /\ pc'[<<v, "check">>] = "end"))

-----------------------------------------------------------------------------
\* Without recording, every goroutine of a viewer that left ends (see Recording).
HandlersEndWhenOff == part = "off" => HandlersEnd

\* See MediaPath: one viewer at a time configures the path, and a mark nobody works
\* on without a path has an explanation.
MarkExplained == Path!OneInitialiser /\ Path!MarkExplained
=============================================================================
