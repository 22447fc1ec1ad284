--------------------------- MODULE PlcController ---------------------------
(***************************************************************************)
(* pkg/plc: the controller that owns the S7 connection to the PLC.         *)
(*                                                                         *)
(* Two goroutines share it: Run (connect, startup sequence, select loop)   *)
(* and HeartbeatLoop.  Both write coils with WriteBit, which reads         *)
(* c.connected before it takes plcLock: checking and writing are two       *)
(* steps, and anything may happen between them.  The device, the network   *)
(* and the senders are the environment.                                    *)
(*                                                                         *)
(* Time is abstracted to ages counted in ticks that saturate just above    *)
(* the bound they are compared with, so the state space is finite.         *)
(***************************************************************************)
EXTENDS PlcSignals, Integers, Sequences

CONSTANTS
  Cameras,         \* the streams that report detections
  Inputs,          \* the signals the environment may queue
  QueueCap,        \* capacity of plcQueue (20 in the code)
  HoldTime,        \* HoldTime in ticks (5 s)
  ReconnectAfter,  \* delay before a new attempt to connect in ticks (5 s)
  MaxFaults,       \* bound on the network and device faults of a run
  FaultKinds       \* which of AllFaults may happen beside a lost connection

AllFaults == {"lostAck", "powerCycle", "dirtyStart"}

ASSUME ConstantsAssumption ==
  /\ Inputs \subseteq Signals
  /\ QueueCap \in Nat \ {0}
  /\ HoldTime \in Nat
  /\ ReconnectAfter \in Nat
  /\ MaxFaults \in Nat
  /\ FaultKinds \subseteq AllFaults

VARIABLES
  queue,           \* plcQueue: what the controller has yet to receive
  holds,           \* actionHolds: age of the last report per action and camera
  sinceReconnect,  \* age of lastReconnect
  connected,       \* c.connected
  lastWritten,     \* c.lastWritten: the value last acknowledged per coil
  stopped,         \* stopChan is closed
  job,             \* what the Run goroutine is doing
  k,               \* which write of the job comes next
  armed,           \* Run passed the check of WriteBit and will take plcLock
  goal,            \* m16..m22 of the tick in progress, NoGoal outside
  hb,              \* where the heartbeat goroutine is
  plcBit,          \* the coils of the device
  link,            \* the client's session with the device
  faults           \* faults so far

vars == <<queue, holds, sinceReconnect, connected, lastWritten, stopped,
          job, k, armed, goal, hb, plcBit, link, faults>>

runVars == <<job, k, armed, goal>>
ioVars == <<connected, lastWritten, plcBit, link, faults>>

NoHold == -1
NoGoal == [t \in SignalTags |-> FALSE]
Ages == NoHold .. HoldTime + 1
Data == [camera : Cameras, direction : {"front", "back", "inside"}, level : {1, 2}]
Jobs == {"connect", "reset", "blink", "select", "tick", "check", "shutdown", "done"}
HbStates == {"off", "loop", "high", "highArmed", "low", "lowArmed", "end"}

TypeOK ==
  /\ queue \in Seq(Data)
  /\ Len(queue) <= QueueCap
  /\ holds \in [Actions -> [Cameras -> Ages]]
  /\ sinceReconnect \in 0 .. ReconnectAfter + 1
  /\ connected \in BOOLEAN
  /\ lastWritten \in [Tags -> BOOLEAN]
  /\ stopped \in BOOLEAN
  /\ job \in Jobs
  /\ k \in 1 .. 7
  /\ armed \in BOOLEAN
  /\ goal \in [SignalTags -> BOOLEAN]
  /\ hb \in HbStates
  /\ plcBit \in [Tags -> BOOLEAN]
  /\ link \in {"up", "stale", "down"}
  /\ faults \in 0 .. MaxFaults

-----------------------------------------------------------------------------
(* NewPlcController.  A device that kept its coils from an earlier run of   *)
(* the program is the fault "dirtyStart".                                   *)

Init ==
  /\ queue = <<>>
  /\ holds = [a \in Actions |-> [c \in Cameras |-> NoHold]]
  /\ sinceReconnect = 0
  /\ connected = FALSE
  /\ lastWritten = [t \in Tags |-> FALSE]
  /\ stopped = FALSE
  /\ job = "connect" /\ k = 1 /\ armed = FALSE
  /\ goal = NoGoal
  /\ hb = "off"
  /\ plcBit \in [Tags -> BOOLEAN]
  /\ "dirtyStart" \notin FaultKinds => plcBit = [t \in Tags |-> FALSE]
  /\ link \in {"stale", "down"}
  /\ faults = 0

-----------------------------------------------------------------------------
(* WriteBit, from the moment plcLock is held.  A request fails when the     *)
(* session is gone; its acknowledgement is lost when the session goes after *)
(* the device has executed it.                                              *)

WriteAcked(tag, value) ==
  /\ link = "up"
  /\ plcBit' = [plcBit EXCEPT ![tag] = value]
  /\ lastWritten' = [lastWritten EXCEPT ![tag] = value]
  /\ UNCHANGED <<connected, link, faults>>

\* Mutation: the error of a write is logged but c.connected stays set.
WriteFailsStaysConnected(tag, value) ==
  /\ link # "up"
  /\ UNCHANGED ioVars

\* Mutation: lastWritten is stored before the request is known to succeed.
WriteFailsCached(tag, value) ==
  /\ link # "up"
  /\ connected' = FALSE
  /\ lastWritten' = [lastWritten EXCEPT ![tag] = value]
  /\ UNCHANGED <<plcBit, link, faults>>

WriteFails(tag, value) ==
  /\ link # "up"
  /\ connected' = FALSE
  /\ UNCHANGED <<lastWritten, plcBit, link, faults>>

WriteUnacked(tag, value) ==
  /\ link = "up" /\ "lostAck" \in FaultKinds /\ faults < MaxFaults
  /\ plcBit' = [plcBit EXCEPT ![tag] = value]
  /\ connected' = FALSE
  /\ link' = "down"
  /\ faults' = faults + 1
  /\ UNCHANGED lastWritten

WriteBit(tag, value) ==
  \/ lastWritten[tag] = value /\ UNCHANGED ioVars
  \/ /\ lastWritten[tag] # value
     /\ WriteAcked(tag, value) \/ WriteFails(tag, value) \/ WriteUnacked(tag, value)

-----------------------------------------------------------------------------
(* The Run goroutine.  A job is a sequence of calls of WriteBit.            *)

Order == <<"M16", "M17", "M18", "M19", "M21", "M22">>

Writing == job \in {"reset", "blink", "tick", "shutdown"} /\ k <= 6

Coil == IF job = "blink" THEN "M21" ELSE Order[k]

Value == CASE job = "blink" -> k \in {1, 3, 5}
           [] job = "tick"  -> goal[Coil]
           [] OTHER         -> FALSE

\* Mutation: Run returns when it cannot connect.
ConnectOrReturn ==
  /\ job = "connect"
  /\ connected' = (link # "down")
  /\ link' = IF link = "down" THEN link ELSE "up"
  /\ job' = IF link = "down" THEN "done" ELSE "reset"
  /\ k' = 1
  /\ UNCHANGED <<queue, holds, sinceReconnect, hb, lastWritten, stopped, armed, goal,
                 plcBit, faults>>

\* ConnectPLC, called by the preamble of Run and by the reconnect branch.
ConnectPLC ==
  /\ job = "connect"
  /\ IF link = "down"
     THEN /\ connected' = FALSE
          /\ job' = "select"
          /\ sinceReconnect' = 0
          /\ hb' = IF hb = "off" THEN "loop" ELSE hb
          /\ UNCHANGED link
     ELSE /\ connected' = TRUE
          /\ link' = "up"
          /\ job' = "reset"
          /\ UNCHANGED <<sinceReconnect, hb>>
  /\ k' = 1
  /\ UNCHANGED <<queue, holds, lastWritten, stopped, armed, goal, plcBit, faults>>

\* The unlocked test at the head of WriteBit.
RunCheck ==
  /\ Writing /\ ~armed
  /\ IF connected THEN armed' = TRUE /\ k' = k
                  ELSE armed' = FALSE /\ k' = k + 1
  /\ UNCHANGED <<job, goal, queue, holds, sinceReconnect, stopped, hb>>
  /\ UNCHANGED ioVars

RunWrite ==
  /\ Writing /\ armed
  /\ WriteBit(Coil, Value)
  /\ armed' = FALSE
  /\ k' = k + 1
  /\ UNCHANGED <<job, goal, queue, holds, sinceReconnect, stopped, hb>>

\* ResetAllSignals of StartupSequence is over: M21 blinks three times.
ResetDone ==
  /\ job = "reset" /\ k = 7
  /\ job' = "blink" /\ k' = 1
  /\ UNCHANGED <<armed, goal, queue, holds, sinceReconnect, stopped, hb>>
  /\ UNCHANGED ioVars

\* StartupSequence is over; the first time, Run starts the heartbeat.
StartupDone ==
  /\ job = "blink" /\ k = 7
  /\ job' = "select" /\ k' = 1
  /\ sinceReconnect' = 0
  /\ hb' = IF hb = "off" THEN "loop" ELSE hb
  /\ UNCHANGED <<armed, goal, queue, holds, stopped>>
  /\ UNCHANGED ioVars

\* case data := <-queueChan
Receive ==
  /\ job = "select" /\ queue # <<>>
  /\ LET data == Head(queue) IN
       holds' = [a \in Actions |->
                   IF a \in Targets(data)
                   THEN [holds[a] EXCEPT ![data.camera] = 0]
                   ELSE holds[a]]
  /\ queue' = Tail(queue)
  /\ UNCHANGED <<sinceReconnect, stopped, hb>>
  /\ UNCHANGED runVars /\ UNCHANGED ioVars

Held(h) == {a \in Actions : \E c \in Cameras : h[a][c] # NoHold}

Purged == [a \in Actions |-> [c \in Cameras |->
             IF holds[a][c] > HoldTime THEN NoHold ELSE holds[a][c]]]

TickWith(kept, wanted, watched) ==
  /\ job = "select"
  /\ holds' = kept
  /\ LET changed == \E t \in watched : lastWritten[t] # wanted[t]
     IN  IF changed /\ connected
         THEN job' = "tick" /\ goal' = wanted
         ELSE job' = "check" /\ goal' = NoGoal
  /\ k' = 1
  /\ UNCHANGED <<armed, queue, sinceReconnect, stopped, hb>>
  /\ UNCHANGED ioVars

\* Mutations: the expired reports are purged after the coils were computed,
\* are never purged, or only the summary coil M21 is compared.
TickPurgesLate == TickWith(Purged, Outputs(Held(holds)), SignalTags)
TickNeverPurges == TickWith(holds, Outputs(Held(holds)), SignalTags)
TickComparesM21 == TickWith(Purged, Outputs(Held(Purged)), {"M21"})

\* case <-ticker.C, to the decision to write the coils.
TickBegin == TickWith(Purged, Outputs(Held(Purged)), SignalTags)

TickDone ==
  /\ job = "tick" /\ k = 7
  /\ job' = "check" /\ k' = 1 /\ goal' = NoGoal
  /\ UNCHANGED <<armed, queue, holds, sinceReconnect, stopped, hb>>
  /\ UNCHANGED ioVars

\* The rest of the ticker branch: is it time to reconnect?
ReconnectCheck ==
  /\ job = "check"
  /\ job' = IF ~connected /\ sinceReconnect > ReconnectAfter THEN "connect" ELSE "select"
  /\ UNCHANGED <<k, armed, goal, queue, holds, sinceReconnect, stopped, hb>>
  /\ UNCHANGED ioVars

\* Mutation: the client is closed without resetting the coils.
StopWithoutReset ==
  /\ job = "select" /\ stopped
  /\ job' = "shutdown" /\ k' = 7
  /\ UNCHANGED <<armed, goal, queue, holds, sinceReconnect, stopped, hb>>
  /\ UNCHANGED ioVars

\* case <-c.stopChan
StopBranch ==
  /\ job = "select" /\ stopped
  /\ job' = "shutdown" /\ k' = 1
  /\ UNCHANGED <<armed, goal, queue, holds, sinceReconnect, stopped, hb>>
  /\ UNCHANGED ioVars

\* ... the coils are reset: close the client and return.
Close ==
  /\ job = "shutdown" /\ k = 7
  /\ job' = "done" /\ k' = 1
  /\ link' = IF link = "up" THEN "stale" ELSE link
  /\ UNCHANGED <<armed, goal, queue, holds, sinceReconnect, stopped, hb,
                 connected, lastWritten, plcBit, faults>>

RunStep ==
  \/ ConnectPLC \/ RunCheck \/ RunWrite \/ ResetDone \/ StartupDone
  \/ TickDone \/ ReconnectCheck \/ Close

Run == RunStep \/ Receive \/ TickBegin \/ StopBranch

-----------------------------------------------------------------------------
(* The heartbeat goroutine: M20 on for 500 ms, off for 4 s.                 *)

HbOther == UNCHANGED <<queue, holds, sinceReconnect, stopped, job, k, armed, goal>>

\* Mutations: the heartbeat gives up when it finds the connection down, or
\* does not listen to stopChan.
HbLoopGivesUp ==
  /\ hb = "loop"
  /\ hb' = IF stopped \/ ~connected THEN "end" ELSE "high"
  /\ HbOther /\ UNCHANGED ioVars

HbLoopDeaf ==
  /\ hb = "loop" /\ connected
  /\ hb' = "high"
  /\ HbOther /\ UNCHANGED ioVars

HbLoop ==
  /\ hb = "loop"
  /\ stopped \/ connected
  /\ hb' = IF stopped THEN "end" ELSE "high"
  /\ HbOther /\ UNCHANGED ioVars

HbCheck ==
  /\ \/ hb = "high" /\ hb' = IF connected THEN "highArmed" ELSE "low"
     \/ hb = "low"  /\ hb' = IF connected THEN "lowArmed" ELSE "loop"
  /\ HbOther /\ UNCHANGED ioVars

HbWrite ==
  /\ \/ hb = "highArmed" /\ hb' = "low"  /\ WriteBit("M20", TRUE)
     \/ hb = "lowArmed"  /\ hb' = "loop" /\ WriteBit("M20", FALSE)
  /\ HbOther

HeartbeatLoop == HbLoop \/ HbCheck \/ HbWrite

-----------------------------------------------------------------------------
(* The program around the controller, and the environment.                  *)

\* Stop: main calls it once, on shutdown.
Stop ==
  /\ ~stopped
  /\ stopped' = TRUE
  /\ UNCHANGED <<queue, holds, sinceReconnect, hb>>
  /\ UNCHANGED runVars /\ UNCHANGED ioVars

CameraData(c, s) ==
  [camera |-> c, direction |-> DataOf(s).direction, level |-> DataOf(s).level]

\* Mutation: the queue has no capacity.
EnqueueUnbounded(c, s) ==
  /\ Len(queue) <= QueueCap
  /\ queue' = Append(queue, CameraData(c, s))
  /\ UNCHANGED <<holds, sinceReconnect, stopped, hb>>
  /\ UNCHANGED runVars /\ UNCHANGED ioVars

\* A sender puts a report on plcQueue.
Enqueue(c, s) ==
  /\ Len(queue) < QueueCap
  /\ queue' = Append(queue, CameraData(c, s))
  /\ UNCHANGED <<holds, sinceReconnect, stopped, hb>>
  /\ UNCHANGED runVars /\ UNCHANGED ioVars

Older(age, limit) == IF age > limit THEN age ELSE age + 1

\* One tick of time passes.
Clock ==
  /\ holds' = [a \in Actions |-> [c \in Cameras |->
                 IF holds[a][c] = NoHold THEN NoHold ELSE Older(holds[a][c], HoldTime)]]
  /\ sinceReconnect' = Older(sinceReconnect, ReconnectAfter)
  /\ UNCHANGED <<queue, stopped, hb>>
  /\ UNCHANGED runVars /\ UNCHANGED ioVars

EnvOther == UNCHANGED <<queue, holds, sinceReconnect, stopped, hb, connected, lastWritten>>
            /\ UNCHANGED runVars

LinkDrop ==
  /\ link # "down" /\ faults < MaxFaults
  /\ link' = "down" /\ faults' = faults + 1
  /\ UNCHANGED plcBit /\ EnvOther

\* The device is reachable again, but the old session is gone.
LinkRestore ==
  /\ link = "down"
  /\ link' = "stale"
  /\ UNCHANGED <<plcBit, faults>> /\ EnvOther

\* The device restarts: its coils go off and every session is lost.
PowerCycle ==
  /\ "powerCycle" \in FaultKinds /\ faults < MaxFaults
  /\ plcBit' = [t \in Tags |-> FALSE]
  /\ link' = "down" /\ faults' = faults + 1
  /\ EnvOther

Environment ==
  \/ Stop \/ Clock \/ LinkDrop \/ LinkRestore \/ PowerCycle
  \/ \E c \in Cameras, s \in Inputs : Enqueue(c, s)

Next == Run \/ HeartbeatLoop \/ Environment

(***************************************************************************)
(* Each goroutine keeps running.  A ready branch of a Go select is chosen  *)
(* again and again, hence strong fairness for its branches.  Time passes   *)
(* and a device that is off the network comes back.                        *)
(***************************************************************************)
Fairness ==
  /\ WF_vars(RunStep)
  /\ SF_vars(Receive) /\ SF_vars(TickBegin) /\ SF_vars(StopBranch)
  /\ WF_vars(HeartbeatLoop)
  /\ WF_vars(Clock) /\ WF_vars(LinkRestore)

Spec == Init /\ [][Next]_vars
FairSpec == Spec /\ Fairness

-----------------------------------------------------------------------------
(* Properties.                                                              *)

Wanted(t) == Outputs(Held(holds))[t]

\* When a tick is over and the connection survived it, every alarm coil was
\* last acknowledged with the value the reports still held call for
\* (ResetExpiredSignals), whatever the heartbeat did meanwhile.
TickPublishes ==
  job = "check" /\ connected => \A t \in SignalTags : lastWritten[t] = Wanted(t)

\* The cache never believes in an alarm the device does not show: as long as
\* the session is alive and no reset is in progress, a coil cached as on is on,
\* though acknowledgements get lost and the device restarts (WriteBit skips
\* the write of a value it believes is there).
AssertedIsReal ==
  link = "up" /\ job # "reset" => \A t \in SignalTags : lastWritten[t] => plcBit[t]

\* Hence, when a tick is over and the session is alive, the device itself
\* shows every alarm that is held.
HeldAlarmIsAsserted ==
  job = "check" /\ link = "up" => \A t \in SignalTags : Wanted(t) => plcBit[t]

\* If no acknowledgement is lost and the device neither restarts nor keeps
\* coils from an earlier run, the cache is the device.
Coherent == FaultKinds = {} => plcBit = lastWritten

\* Run does not return before the coils were reset, unless the connection was
\* lost while it did (plccontroller_test.go checks exactly this after Stop).
ShutdownClears ==
  job = "done" /\ connected => \A t \in SignalTags : ~lastWritten[t]

\* A coil of the device changes only towards what the held reports call for;
\* the exceptions are a reset that lowers it, and a restart of the device.
\* (M21 also blinks in the startup sequence.)
FollowsHolds ==
  \A t \in SignalTags \ {"M21"} :
    plcBit'[t] # plcBit[t] =>
      \/ plcBit'[t] = Wanted(t)
      \/ ~plcBit'[t] /\ job \in {"reset", "shutdown"}
      \/ PowerCycle
DeviceFollowsHolds == [][FollowsHolds]_vars

\* A stop that stays held is in the end shown by the device for good: lost
\* connections are re-established and what was not acknowledged is repeated.
HeldStopShown ==
  \A t \in {"M16", "M17"} : <>[](Wanted(t) /\ ~stopped) => <>[]plcBit[t]

\* A coil that is on while the cache believes it off: the device has executed the
\* write that raised it, and the acknowledgement was lost.  ResetAllSignals and the
\* tick skip such a coil, until a report calls for it again.
Stranded(t) == plcBit[t] /\ ~lastWritten[t]

\* When the reports cease, every alarm coil of the device goes off and stays off,
\* over lost connections and a restart of the device; a coil that a lost
\* acknowledgement has stranded is the one exception, and stays on.
AlarmEnds ==
  <>[](queue = <<>> /\ ~stopped)
    => <>[](\A t \in SignalTags : plcBit[t] => Stranded(t))

\* The heartbeat coil keeps beating as long as the program runs.
HeartbeatBeats ==
  <>[](~stopped) => []<>plcBit["M20"] /\ []<>(~plcBit["M20"])

\* After Stop both goroutines end.
StopTerminates == stopped ~> (job = "done" /\ hb = "end")

\* ResetAllSignals says it resets the coils: when it is over in the startup
\* sequence and the connection survived it, the device shows no alarm.
ResetClearsDevice ==
  job = "blink" /\ k = 1 /\ connected => \A t \in SignalTags : ~plcBit[t]
=============================================================================
