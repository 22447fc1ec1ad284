----------------------------- MODULE Recording -----------------------------
(***************************************************************************)
(* Alarm recording: videoLinkage.go and its callers in the goroutines of   *)
(* DetectionWSHandler.  All viewers of a stream share one RecordingStatus  *)
(* with a mutex Mu, which a goroutine cannot lock twice.                   *)
(*                                                                         *)
(* Every caller locks Mu itself before it calls StartRecording or          *)
(* StopRecording, and both lock Mu again.  A section under Mu that calls   *)
(* neither takes effect in one step; `mu' names the goroutine that is      *)
(* inside one of the two calls.                                            *)
(***************************************************************************)
EXTENDS Naturals

CONSTANTS
  Viewers,          \* the handlers of one stream
  EnableRecording,  \* Conf.System.EnableRecording
  NoOne             \* Mu is free

ASSUME RecordingAssumption ==
  /\ EnableRecording \in BOOLEAN
  /\ NoOne \notin Viewers \X {"infer", "listen", "read", "check"}

Roles == {"infer", "listen", "read", "check"}
Threads == Viewers \X Roles

VARIABLES
  mu,           \* the goroutine inside StartRecording or StopRecording, holding Mu
  isRecording,  \* status.IsRecording
  record,       \* whether MediaMTX records the stream
  gone,         \* per viewer: its client has left, its context is cancelled
  pc            \* where each goroutine is

vars == <<mu, isRecording, record, gone, pc>>

TypeOK ==
  /\ mu \in {t \in Threads : pc[t] = "nested"} \union {NoOne}
  /\ isRecording \in BOOLEAN
  /\ record \in BOOLEAN
  /\ gone \in [Viewers -> BOOLEAN]
  /\ pc \in [Threads -> {"run", "lock", "nested", "join", "end"}]

Init ==
  /\ mu = NoOne
  /\ isRecording = FALSE
  /\ record = FALSE
  /\ gone = [v \in Viewers |-> FALSE]
  /\ pc = [t \in Threads |-> IF t[2] = "check" /\ ~EnableRecording THEN "end" ELSE "run"]

Goto(t, place) == pc' = [pc EXCEPT ![t] = place]

\* Where a goroutine goes after its section under Mu.
AfterSection(role) ==
  CASE role = "listen" -> "end" [] role = "read" -> "join" [] OTHER -> "run"

\* Mutation: a goroutine gives Mu back before it enters a function that locks it.
NestedUnlocked(t) == Goto(t, "nested") /\ UNCHANGED mu

\* The goroutine that holds Mu enters a function that locks Mu.
Nested(t) == mu' = t /\ Goto(t, "nested")

\* Mutation: an early return forgets Unlock.
UnlockedNever(t, place) == Goto(t, place) /\ mu' = t

\* A goroutine unlocks Mu and goes on.
Unlocked(t, place) == Goto(t, place) /\ UNCHANGED mu

-----------------------------------------------------------------------------
(* The sections under Mu.  Record and StopRecord are what StartRecording and *)
(* StopRecording do once their own Lock has returned, and their callers      *)
(* after them.  A PATCH to MediaMTX is tried three times and may fail; the   *)
(* one that stops a recording is sent before StopRecording locks Mu.         *)

Record(t) ==
  /\ \E patched \in BOOLEAN :
       isRecording' = (isRecording \/ patched) /\ record' = (record \/ patched)
  /\ Unlocked(t, "run")

StopRecord(t) ==
  /\ isRecording' = FALSE
  /\ Unlocked(t, AfterSection(t[2]))
  /\ UNCHANGED record

\* A detection starts a recording.
DetectSection(t) ==
  /\ IF EnableRecording /\ ~isRecording THEN Nested(t) ELSE Unlocked(t, "run")
  /\ UNCHANGED <<isRecording, record>>

\* A listener, a reader or a check stops one; the first two forget a recording
\* that could not be stopped.  Whether a check finds it due is left open.
StopSection(t) ==
  \E patched \in BOOLEAN, due \in IF t[2] = "check" THEN BOOLEAN ELSE {TRUE} :
    IF isRecording /\ due /\ patched
    THEN /\ record' = FALSE
         /\ Nested(t)
         /\ UNCHANGED isRecording
    ELSE /\ isRecording' = (isRecording /\ t[2] = "check")
         /\ Unlocked(t, AfterSection(t[2]))
         /\ UNCHANGED record

Section(t) == IF t[2] = "infer" THEN DetectSection(t) ELSE StopSection(t)

\* A goroutine that waits for Mu locks it: to enter its section, or, inside its
\* section, on entry to StartRecording or StopRecording.
Lock(t) ==
  /\ mu = NoOne
  /\ pc[t] \in {"lock", "nested"}
  /\ IF pc[t] = "lock" THEN Section(t)
     ELSE IF t[2] = "infer" THEN Record(t) ELSE StopRecord(t)
  /\ UNCHANGED gone

-----------------------------------------------------------------------------
(* The goroutines of a handler.                                             *)

\* A detection, or the end of the goroutine after the client has left.
Infer(v) ==
  LET t == <<v, "infer">> IN
  /\ pc[t] = "run"
  /\ \/ Goto(t, "lock")
     \/ gone[v] /\ Goto(t, "end")
  /\ UNCHANGED <<mu, isRecording, record, gone>>

\* The websocket is closed: cancel(), then stop a recording under Mu.
Disconnect(v) ==
  LET t == <<v, "listen">> IN
  /\ pc[t] = "run"
  /\ gone' = [gone EXCEPT ![v] = TRUE]
  /\ Goto(t, "lock")
  /\ UNCHANGED <<mu, isRecording, record>>

\* The handler sees ctx.Done(), stops a recording under Mu and waits for the
\* inference goroutine.
ReadCancelled(v) ==
  LET t == <<v, "read">> IN
  /\ pc[t] = "run" /\ gone[v]
  /\ Goto(t, "lock")
  /\ UNCHANGED <<mu, isRecording, record, gone>>

Return(v) ==
  LET t == <<v, "read">> IN
  /\ pc[t] = "join" /\ pc[<<v, "infer">>] = "end"
  /\ Goto(t, "end")
  /\ UNCHANGED <<mu, isRecording, record, gone>>

\* StartRecordingTimeoutCheck: every 2 s, until the context is cancelled.
Check(v) ==
  LET t == <<v, "check">> IN
  /\ pc[t] = "run"
  /\ \/ Goto(t, "lock")
     \/ gone[v] /\ Goto(t, "end")
  /\ UNCHANGED <<mu, isRecording, record, gone>>

Next ==
  \/ \E v \in Viewers : Infer(v) \/ Disconnect(v) \/ ReadCancelled(v) \/ Return(v) \/ Check(v)
  \/ \E t \in Threads : Lock(t)

\* A goroutine gets a mutex that stays free; a select notices in the end that
\* its context is cancelled, whatever else is ready.
Fairness ==
  \A v \in Viewers :
    /\ \A r \in Roles : WF_vars(Lock(<<v, r>>))
    /\ SF_vars(Infer(v) /\ pc'[<<v, "infer">>] = "end")
    /\ WF_vars(ReadCancelled(v) \/ Return(v))
    /\ SF_vars(Check(v) /\ pc'[<<v, "check">>] = "end")

Spec == Init /\ [][Next]_vars
FairSpec == Spec /\ Fairness

-----------------------------------------------------------------------------
(* Properties.                                                              *)

\* Without recording, sharing the status costs nothing: every goroutine of a
\* viewer that left ends, however busy the other viewers keep Mu.
HandlersEnd ==
  \A v \in Viewers : gone[v] ~> \A r \in Roles : pc[<<v, r>>] = "end"

\* With recording, the first detection wedges the stream: the goroutine that
\* waits for the Mu it holds waits forever, and with it every reader of every
\* viewer that has not passed its own section, so its handler never returns.
Waiting(v) == pc[<<v, "read">>] \in {"run", "lock"}
WedgedForGood ==
  [][ \A t \in Threads : pc[t] = "nested" =>
        /\ pc'[t] = "nested"
        /\ \A v \in Viewers : Waiting(v) => Waiting(v)'
    ]_vars

\* A detection starts the alarm recording (README: "supports alarm recording").
DetectionRecords ==
  \A v \in Viewers : pc[<<v, "infer">>] = "nested" ~> record
=============================================================================
