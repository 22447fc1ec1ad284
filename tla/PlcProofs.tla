----------------------------- MODULE PlcProofs -----------------------------
(* Theorems about PlcController, for every value of its constants, and about *)
(* PlcPipeline: it implements the controller with arbitrary senders, so that *)
(* every theorem about that holds of it, and its debouncing loses no alarm.  *)
EXTENDS PlcAlarms, MCPlcController, TLAPS

\* The six alarm coils are written one after the other, each once.
LEMMA OrderFacts ==
  /\ \A i \in 1 .. 6 : Order[i] \in SignalTags
  /\ \A t \in SignalTags : \E i \in 1 .. 6 : Order[i] = t
  /\ \A i, j \in 1 .. 6 : Order[i] = Order[j] => i = j
<1>1. /\ Order[1] = "M16" /\ Order[2] = "M17" /\ Order[3] = "M18"
      /\ Order[4] = "M19" /\ Order[5] = "M21" /\ Order[6] = "M22"
  BY DEF Order
<1>2. \A i \in 1 .. 6 : i = 1 \/ i = 2 \/ i = 3 \/ i = 4 \/ i = 5 \/ i = 6
  BY SMT
<1> QED
  BY <1>1, <1>2 DEF SignalTags

\* What the senders queue are reports the controller knows.
LEMMA DataTyped ==
  ASSUME NEW c \in Cameras, NEW s \in Signals
  PROVE  CameraData(c, s) \in Data
BY DEF CameraData, DataOf, Data, Signals, Actions, StopSignals

\* The aggregation yields a value for every alarm coil.
LEMMA OutputsTyped == \A A : Outputs(A) \in [SignalTags -> BOOLEAN]
BY DEF Outputs, SignalTags

\* The next write of a job names an alarm coil and a value.
LEMMA CoilTyped ==
  ASSUME TypeOK, Writing
  PROVE  /\ Coil \in SignalTags
         /\ Value \in BOOLEAN
<1>1. k \in 1 .. 6
  BY DEF TypeOK, Writing
<1>2. Coil \in SignalTags
  BY <1>1, OrderFacts DEF Coil, SignalTags
<1>3. Value \in BOOLEAN
  <2>1. CASE job = "blink"
    <3>1. Value = (k \in {1, 3, 5})
      BY <2>1 DEF Value
    <3> QED
      BY <3>1
  <2>2. CASE job = "tick"
    <3>1. Value = goal[Coil]
      BY <2>2 DEF Value
    <3> QED
      BY <3>1, <1>2 DEF TypeOK
  <2>3. CASE job \notin {"blink", "tick"}
    BY <2>3 DEF Value
  <2> QED
    BY <2>1, <2>2, <2>3
<1> QED
  BY <1>2, <1>3

\* A call of WriteBit keeps the types, whichever way it ends.
LEMMA WriteBitTyped ==
  ASSUME TypeOK, ConstantsAssumption,
         NEW tag \in Tags, NEW value \in BOOLEAN, WriteBit(tag, value)
  PROVE  /\ connected' \in BOOLEAN
         /\ lastWritten' \in [Tags -> BOOLEAN]
         /\ plcBit' \in [Tags -> BOOLEAN]
         /\ link' \in {"up", "stale", "down"}
         /\ faults' \in 0 .. MaxFaults
<1>1. CASE UNCHANGED ioVars
  BY <1>1 DEF TypeOK, ioVars
<1>2. CASE WriteAcked(tag, value)
  BY <1>2 DEF TypeOK, WriteAcked
<1>3. CASE WriteFails(tag, value)
  BY <1>3 DEF TypeOK, WriteFails
<1>4. CASE WriteUnacked(tag, value)
  <2>1. faults' \in 0 .. MaxFaults
    BY <1>4 DEF TypeOK, WriteUnacked, ConstantsAssumption
  <2> QED
    BY <1>4, <2>1 DEF TypeOK, WriteUnacked
<1> QED
  BY <1>1, <1>2, <1>3, <1>4 DEF WriteBit

\* NewPlcController starts well typed.
LEMMA TypeInit == Init => TypeOK
<1> SUFFICES ASSUME Init
             PROVE  TypeOK
  OBVIOUS
<1>1. queue \in Seq(Data) /\ Len(queue) <= QueueCap
  BY ConstantsAssumption DEF Init, ConstantsAssumption
<1>2. holds \in [Actions -> [Cameras -> Ages]]
  BY ConstantsAssumption DEF Init, Ages, NoHold, ConstantsAssumption
<1>3. sinceReconnect \in 0 .. ReconnectAfter + 1 /\ faults \in 0 .. MaxFaults /\ k \in 1 .. 7
  BY ConstantsAssumption DEF Init, ConstantsAssumption
<1>4. goal \in [SignalTags -> BOOLEAN]
  BY DEF Init, NoGoal
<1>5. lastWritten \in [Tags -> BOOLEAN]
  BY DEF Init
<1> QED
  BY <1>1, <1>2, <1>3, <1>4, <1>5 DEF Init, TypeOK, Jobs, HbStates

\* Every action keeps every variable in its type.
LEMMA TypeNext == TypeOK /\ [Next]_vars => TypeOK'
<1> SUFFICES ASSUME TypeOK, [Next]_vars
             PROVE  TypeOK'
  OBVIOUS
<1> USE ConstantsAssumption
<1>1. CASE ConnectPLC
  <2>1. sinceReconnect' \in 0 .. ReconnectAfter + 1 /\ k' \in 1 .. 7
    BY <1>1 DEF ConnectPLC, TypeOK, ConstantsAssumption
  <2>2. job' \in Jobs /\ hb' \in HbStates
    BY <1>1 DEF ConnectPLC, TypeOK, Jobs, HbStates
  <2> QED
    BY <1>1, <2>1, <2>2 DEF ConnectPLC, TypeOK
<1>2. CASE RunCheck
  <2>1. k' \in 1 .. 7
    BY <1>2 DEF RunCheck, TypeOK, Writing
  <2>2. armed' \in BOOLEAN
    BY <1>2 DEF RunCheck
  <2> QED
    BY <1>2, <2>1, <2>2 DEF RunCheck, TypeOK, ioVars
<1>3. CASE RunWrite
  <2>1. /\ Coil \in Tags /\ Value \in BOOLEAN
    BY <1>3, CoilTyped DEF RunWrite, Tags
  <2>2. WriteBit(Coil, Value)
    BY <1>3 DEF RunWrite
  <2>3. /\ connected' \in BOOLEAN
        /\ lastWritten' \in [Tags -> BOOLEAN]
        /\ plcBit' \in [Tags -> BOOLEAN]
        /\ link' \in {"up", "stale", "down"}
        /\ faults' \in 0 .. MaxFaults
    BY <2>1, <2>2, WriteBitTyped
  <2>4. k' \in 1 .. 7
    BY <1>3 DEF RunWrite, TypeOK, Writing
  <2> QED
    BY <1>3, <2>3, <2>4 DEF RunWrite, TypeOK
<1>4. CASE ResetDone \/ StartupDone \/ TickDone \/ ReconnectCheck \/ StopBranch \/ Close
  <2>1. job' \in Jobs /\ k' \in 1 .. 7
    BY <1>4 DEF ResetDone, StartupDone, TickDone, ReconnectCheck, StopBranch, Close,
       TypeOK, Jobs
  <2>2. sinceReconnect' \in 0 .. ReconnectAfter + 1 /\ hb' \in HbStates
    BY <1>4 DEF ResetDone, StartupDone, TickDone, ReconnectCheck, StopBranch, Close,
       TypeOK, ConstantsAssumption, HbStates
  <2>3. goal' \in [SignalTags -> BOOLEAN]
    BY <1>4 DEF ResetDone, StartupDone, TickDone, ReconnectCheck, StopBranch, Close,
       TypeOK, NoGoal
  <2> QED
    BY <1>4, <2>1, <2>2, <2>3 DEF ResetDone, StartupDone, TickDone, ReconnectCheck,
       StopBranch, Close, TypeOK, ioVars
<1>5. CASE Receive
  <2>1. Head(queue) \in Data /\ Tail(queue) \in Seq(Data) /\ Len(Tail(queue)) <= QueueCap
    BY <1>5 DEF Receive, TypeOK, ConstantsAssumption
  <2>2. 0 \in Ages
    BY DEF Ages, NoHold, ConstantsAssumption
  <2>3. holds' \in [Actions -> [Cameras -> Ages]]
    BY <1>5, <2>1, <2>2 DEF Receive, TypeOK, Data
  <2> QED
    BY <1>5, <2>1, <2>3 DEF Receive, TypeOK, runVars, ioVars
<1>6. CASE TickBegin
  <2>1. Purged \in [Actions -> [Cameras -> Ages]]
    BY DEF Purged, TypeOK, Ages, NoHold, ConstantsAssumption
  <2>2. NoGoal \in [SignalTags -> BOOLEAN]
    BY DEF NoGoal
  <2>3. Outputs(Held(Purged)) \in [SignalTags -> BOOLEAN]
    BY OutputsTyped
  <2> QED
    BY <1>6, <2>1, <2>2, <2>3 DEF TickBegin, TickWith, TypeOK, Jobs, ioVars
<1>7. CASE HbLoop \/ HbCheck
  BY <1>7 DEF HbLoop, HbCheck, HbOther, TypeOK, HbStates, ioVars
<1>8. CASE HbWrite
  <2>1. "M20" \in Tags
    BY DEF Tags
  <2>2. \E v \in BOOLEAN : WriteBit("M20", v)
    BY <1>8 DEF HbWrite
  <2>3. /\ connected' \in BOOLEAN
        /\ lastWritten' \in [Tags -> BOOLEAN]
        /\ plcBit' \in [Tags -> BOOLEAN]
        /\ link' \in {"up", "stale", "down"}
        /\ faults' \in 0 .. MaxFaults
    BY <2>1, <2>2, WriteBitTyped
  <2> QED
    BY <1>8, <2>3 DEF HbWrite, HbOther, TypeOK, HbStates
<1>9. CASE Stop \/ LinkDrop \/ LinkRestore \/ PowerCycle
  <2>1. faults' \in 0 .. MaxFaults
    BY <1>9 DEF Stop, LinkDrop, LinkRestore, PowerCycle, TypeOK, ConstantsAssumption, ioVars
  <2>2. plcBit' \in [Tags -> BOOLEAN]
    BY <1>9 DEF Stop, LinkDrop, LinkRestore, PowerCycle, TypeOK, ioVars
  <2> QED
    BY <1>9, <2>1, <2>2 DEF Stop, LinkDrop, LinkRestore, PowerCycle, EnvOther, TypeOK,
       runVars, ioVars
<1>10. CASE Clock
  <2>1. holds' \in [Actions -> [Cameras -> Ages]]
    BY <1>10 DEF Clock, Older, TypeOK, Ages, NoHold, ConstantsAssumption
  <2>2. sinceReconnect' \in 0 .. ReconnectAfter + 1
    BY <1>10 DEF Clock, Older, TypeOK, ConstantsAssumption
  <2> QED
    BY <1>10, <2>1, <2>2 DEF Clock, TypeOK, runVars, ioVars
<1>11. CASE \E c \in Cameras, s \in Inputs : Enqueue(c, s)
  <2> PICK c \in Cameras, s \in Inputs : Enqueue(c, s)
    BY <1>11
  <2>1. CameraData(c, s) \in Data
    BY DataTyped DEF ConstantsAssumption
  <2>2. queue' \in Seq(Data) /\ Len(queue') <= QueueCap
    BY <2>1 DEF Enqueue, TypeOK, ConstantsAssumption
  <2> QED
    BY <2>2 DEF Enqueue, TypeOK, runVars, ioVars
<1>12. CASE UNCHANGED vars
  BY <1>12 DEF vars, TypeOK
<1> QED
  BY <1>1, <1>2, <1>3, <1>4, <1>5, <1>6, <1>7, <1>8, <1>9, <1>10, <1>11, <1>12
     DEF Next, Run, RunStep, HeartbeatLoop, Environment

\* Every variable keeps its type.
THEOREM TypeCorrect == Spec => []TypeOK
<1>1. Init => TypeOK
  BY TypeInit
<1>2. TypeOK /\ [Next]_vars => TypeOK'
  BY TypeNext
<1> QED
  BY <1>1, <1>2, PTL DEF Spec

-----------------------------------------------------------------------------
(***************************************************************************)
(* The inductive invariant.  The properties speak of the end of a tick or  *)
(* of a reset; the progress clauses say what holds half way through:       *)
(* the coils before the k-th are done, provided the connection is still    *)
(* up, since only ConnectPLC sets c.connected again.                       *)
(***************************************************************************)
UpIsConnected == link = "up" => connected

TickProgress ==
  job = "tick" =>
    /\ goal = Outputs(Held(holds))
    /\ connected => \A i \in 1 .. 6 : i < k => lastWritten[Order[i]] = goal[Order[i]]

ResetProgress ==
  job \in {"reset", "shutdown"} /\ connected =>
    \A i \in 1 .. 6 : i < k => ~lastWritten[Order[i]]

IInv ==
  /\ TypeOK
  /\ UpIsConnected
  /\ TickProgress
  /\ ResetProgress
  /\ TickPublishes
  /\ AssertedIsReal
  /\ ShutdownClears

\* What one call of WriteBit leaves behind, whichever way it ends.
LEMMA WriteBitEffect ==
  ASSUME TypeOK, UpIsConnected,
         NEW tag \in Tags, NEW value \in BOOLEAN, WriteBit(tag, value)
  PROVE  /\ UpIsConnected'
         /\ connected' => connected /\ lastWritten' = [lastWritten EXCEPT ![tag] = value]
         /\ link' = "up" =>
              /\ link = "up"
              /\ \/ lastWritten' = lastWritten /\ plcBit' = plcBit
                 \/ /\ lastWritten' = [lastWritten EXCEPT ![tag] = value]
                    /\ plcBit' = [plcBit EXCEPT ![tag] = value]
<1>1. CASE lastWritten[tag] = value /\ UNCHANGED ioVars
  <2>1. lastWritten = [lastWritten EXCEPT ![tag] = value]
    BY <1>1 DEF TypeOK
  <2> QED
    BY <1>1, <2>1 DEF ioVars, UpIsConnected
<1>2. CASE WriteAcked(tag, value)
  BY <1>2 DEF WriteAcked, UpIsConnected
<1>3. CASE WriteFails(tag, value)
  BY <1>3 DEF WriteFails, UpIsConnected
<1>4. CASE WriteUnacked(tag, value)
  BY <1>4 DEF WriteUnacked, UpIsConnected
<1> QED
  BY <1>1, <1>2, <1>3, <1>4 DEF WriteBit

\* A step that changes no coil, no job and not what is held, and does not bring
\* the session or c.connected back, keeps the invariant.
LEMMA QuietStep ==
  ASSUME IInv, TypeOK',
         UNCHANGED <<job, k, goal, lastWritten>>, Held(holds)' = Held(holds),
         connected' = connected,
         link' = "up" => link = "up" /\ plcBit' = plcBit
  PROVE  IInv'
BY DEF IInv, UpIsConnected, TickProgress, ResetProgress, TickPublishes, AssertedIsReal,
   ShutdownClears, Wanted

\* The invariant holds of a new controller.
LEMMA InvInit == Init => IInv
BY TypeInit DEF Init, IInv, UpIsConnected, TickProgress, ResetProgress, TickPublishes,
   AssertedIsReal, ShutdownClears, Tags

\* A write of the Run goroutine extends the coils that are done.
LEMMA InvRunWrite == ASSUME IInv, TypeOK', RunWrite PROVE IInv'
<1> DEFINE tag == Coil
           value == Value
<1>1. Writing /\ WriteBit(tag, value) /\ k' = k + 1 /\ UNCHANGED <<job, goal, holds>>
  BY DEF RunWrite
<1>2. tag \in SignalTags /\ tag \in Tags /\ value \in BOOLEAN /\ k \in 1 .. 6
  BY <1>1, CoilTyped DEF IInv, TypeOK, Writing, Tags
<1>3. /\ UpIsConnected'
      /\ connected' => connected /\ lastWritten' = [lastWritten EXCEPT ![tag] = value]
      /\ link' = "up" =>
           /\ link = "up"
           /\ \/ lastWritten' = lastWritten /\ plcBit' = plcBit
              \/ /\ lastWritten' = [lastWritten EXCEPT ![tag] = value]
                 /\ plcBit' = [plcBit EXCEPT ![tag] = value]
  BY <1>1, <1>2, WriteBitEffect DEF IInv
<1>4. \A i \in 1 .. 6 : i < k' => i < k \/ i = k
  BY <1>1, <1>2
<1>5. lastWritten \in [Tags -> BOOLEAN] /\ plcBit \in [Tags -> BOOLEAN]
      /\ \A i \in 1 .. 6 : Order[i] \in Tags
  BY OrderFacts DEF IInv, TypeOK, Tags
<1>6. TickProgress'
  <2> SUFFICES ASSUME job' = "tick"
               PROVE  /\ goal' = Outputs(Held(holds))'
                      /\ connected' => \A i \in 1 .. 6 :
                           i < k' => lastWritten'[Order[i]] = goal'[Order[i]]
    BY DEF TickProgress
  <2>1. tag = Order[k] /\ value = goal[Order[k]]
    BY <1>1 DEF Coil, Value
  <2>2. goal' = Outputs(Held(holds))'
    BY <1>1 DEF IInv, TickProgress, Held
  <2>3. ASSUME connected', NEW i \in 1 .. 6, i < k'
        PROVE  lastWritten'[Order[i]] = goal'[Order[i]]
    BY <1>1, <1>3, <1>4, <1>5, <2>1, <2>3 DEF IInv, TickProgress
  <2> QED
    BY <2>2, <2>3
<1>7. ResetProgress'
  <2> SUFFICES ASSUME job' \in {"reset", "shutdown"}, connected',
                      NEW i \in 1 .. 6, i < k'
               PROVE  ~lastWritten'[Order[i]]
    BY DEF ResetProgress
  <2>1. tag = Order[k] /\ value = FALSE
    BY <1>1 DEF Coil, Value
  <2> QED
    BY <1>1, <1>3, <1>4, <1>5, <2>1 DEF IInv, ResetProgress
<1>8. AssertedIsReal'
  BY <1>1, <1>2, <1>3, <1>5 DEF IInv, AssertedIsReal, Tags
<1>9. TickPublishes' /\ ShutdownClears'
  BY <1>1 DEF Writing, TickPublishes, ShutdownClears
<1> QED
  BY <1>3, <1>6, <1>7, <1>8, <1>9 DEF IInv

\* The heartbeat goroutine only ever writes M20, and takes connected down.
LEMMA InvHeartbeat == ASSUME IInv, TypeOK', HeartbeatLoop PROVE IInv'
<1>1. CASE HbLoop \/ HbCheck
  <2>1. UNCHANGED <<job, k, goal, lastWritten, holds, connected, link, plcBit>>
    BY <1>1 DEF HbLoop, HbCheck, HbOther, ioVars
  <2> QED
    BY <2>1, QuietStep DEF Held
<1>2. CASE HbWrite
  <2>1. PICK value \in BOOLEAN : WriteBit("M20", value)
    BY <1>2 DEF HbWrite
  <2>2. UNCHANGED <<job, k, goal, holds>>
    BY <1>2 DEF HbWrite, HbOther
  <2>3. /\ UpIsConnected'
        /\ connected' => /\ connected
                         /\ lastWritten' = [lastWritten EXCEPT !["M20"] = value]
        /\ link' = "up" =>
             /\ link = "up"
             /\ \/ lastWritten' = lastWritten /\ plcBit' = plcBit
                \/ /\ lastWritten' = [lastWritten EXCEPT !["M20"] = value]
                   /\ plcBit' = [plcBit EXCEPT !["M20"] = value]
    BY <2>1, WriteBitEffect DEF IInv, Tags
  <2>4. \A t \in SignalTags : t \in Tags /\ t # "M20"
    BY DEF SignalTags, Tags
  <2>5. lastWritten \in [Tags -> BOOLEAN] /\ plcBit \in [Tags -> BOOLEAN]
    BY DEF IInv, TypeOK
  <2>6. connected' => connected /\ \A t \in SignalTags : lastWritten'[t] = lastWritten[t]
    BY <2>3, <2>4, <2>5
  <2>7. Held(holds)' = Held(holds)
    BY <2>2 DEF Held
  <2>8. TickProgress' /\ ResetProgress' /\ TickPublishes' /\ ShutdownClears'
    BY <2>2, <2>6, <2>7, OrderFacts
       DEF IInv, TickProgress, ResetProgress, TickPublishes, ShutdownClears, Wanted
  <2>9. AssertedIsReal'
    BY <2>2, <2>3, <2>4, <2>5 DEF IInv, AssertedIsReal
  <2> QED
    BY <2>3, <2>8, <2>9 DEF IInv
<1> QED
  BY <1>1, <1>2 DEF HeartbeatLoop

\* A successful connect starts a reset, a failed one leaves no session.
LEMMA InvConnect == ASSUME IInv, TypeOK', ConnectPLC PROVE IInv'
<1>1. UpIsConnected'
  BY DEF ConnectPLC, UpIsConnected
<1>2. TickProgress' /\ TickPublishes' /\ ShutdownClears'
  BY DEF ConnectPLC, TickProgress, TickPublishes, ShutdownClears
<1>3. ResetProgress'
  BY DEF ConnectPLC, ResetProgress
<1>4. AssertedIsReal'
  BY DEF ConnectPLC, AssertedIsReal
<1> QED
  BY <1>1, <1>2, <1>3, <1>4 DEF IInv

\* A write is skipped only when the connection is down.
LEMMA InvRunCheck == ASSUME IInv, TypeOK', RunCheck PROVE IInv'
<1>1. UNCHANGED <<job, goal, lastWritten, holds, connected, link, plcBit>>
      /\ (connected => k' = k)
  BY DEF RunCheck, ioVars
<1> QED
  BY <1>1 DEF IInv, UpIsConnected, TickProgress, ResetProgress, TickPublishes,
     AssertedIsReal, ShutdownClears, Wanted, Held

\* The coils are all done: every alarm coil is one of the six of Order.
LEMMA AllDone ==
  ASSUME k = 7
  PROVE  \A t \in SignalTags : \E i \in 1 .. 6 : i < k /\ t = Order[i]
<1> SUFFICES ASSUME NEW t \in SignalTags
             PROVE  \E i \in 1 .. 6 : i < k /\ t = Order[i]
  OBVIOUS
<1>1. PICK i \in 1 .. 6 : Order[i] = t
  BY OrderFacts
<1>2. i < k
  OBVIOUS
<1> QED
  BY <1>1, <1>2

\* At the end of a job all six coils are done.
LEMMA InvJobEnds ==
  ASSUME IInv, TypeOK',
         ResetDone \/ StartupDone \/ TickDone \/ ReconnectCheck \/ StopBranch \/ Close
  PROVE  IInv'
<1>1. UNCHANGED <<lastWritten, holds, connected, plcBit>> /\ (link' = "up" => link = "up")
  BY DEF ResetDone, StartupDone, TickDone, ReconnectCheck, StopBranch, Close, ioVars
<1>2. Held(holds)' = Held(holds)
  BY <1>1 DEF Held
<1>3. UpIsConnected'
  BY <1>1 DEF IInv, UpIsConnected
<1>4. job' # "tick" /\ (job' \in {"reset", "shutdown"} => k' = 1)
  BY DEF ResetDone, StartupDone, TickDone, ReconnectCheck, StopBranch, Close
<1>5. TickProgress' /\ ResetProgress'
  BY <1>4 DEF TickProgress, ResetProgress
<1>6. TickPublishes'
  <2> SUFFICES ASSUME job' = "check", connected', NEW t \in SignalTags
               PROVE  lastWritten[t] = Wanted(t)
    BY <1>1, <1>2 DEF TickPublishes, Wanted
  <2>1. job = "tick" /\ k = 7
    BY DEF ResetDone, StartupDone, TickDone, ReconnectCheck, StopBranch, Close
  <2>2. PICK i \in 1 .. 6 : i < k /\ t = Order[i]
    BY <2>1, AllDone
  <2> QED
    BY <1>1, <2>1, <2>2 DEF IInv, TickProgress, Wanted
<1>7. AssertedIsReal'
  <2> SUFFICES ASSUME link' = "up", job = "reset", k = 7
               PROVE  \A t \in SignalTags : ~lastWritten[t]
    BY <1>1 DEF IInv, AssertedIsReal, ResetDone, StartupDone, TickDone, ReconnectCheck,
       StopBranch, Close
  <2>1. connected
    BY <1>1 DEF IInv, UpIsConnected
  <2> QED
    BY <2>1, AllDone DEF IInv, ResetProgress
<1>8. ShutdownClears'
  <2> SUFFICES ASSUME job' = "done", connected'
               PROVE  \A t \in SignalTags : ~lastWritten[t]
    BY <1>1 DEF ShutdownClears
  <2>1. job = "shutdown" /\ k = 7 /\ connected
    BY <1>1 DEF ResetDone, StartupDone, TickDone, ReconnectCheck, StopBranch, Close
  <2> QED
    BY <2>1, AllDone DEF IInv, ResetProgress
<1> QED
  BY <1>3, <1>5, <1>6, <1>7, <1>8 DEF IInv

\* Receiving, or beginning a tick, starts with no coil done.
LEMMA InvSelect == ASSUME IInv, TypeOK', Receive \/ TickBegin PROVE IInv'
<1>1. CASE Receive
  <2>1. job = "select" /\ job' = "select"
        /\ UNCHANGED <<lastWritten, connected, link, plcBit>>
    BY <1>1 DEF Receive, runVars, ioVars
  <2> QED
    BY <2>1 DEF IInv, UpIsConnected, TickProgress, ResetProgress, TickPublishes,
       AssertedIsReal, ShutdownClears
<1>2. CASE TickBegin
  <2>1. UNCHANGED <<lastWritten, connected, link, plcBit>> /\ holds' = Purged
        /\ job = "select" /\ job' \in {"tick", "check"} /\ k' = 1
    BY <1>2 DEF TickBegin, TickWith, ioVars
  <2>2. Held(holds)' = Held(Purged)
    BY <2>1 DEF Held
  <2>3. job' = "tick" => goal' = Outputs(Held(Purged))
    BY <1>2 DEF TickBegin, TickWith
  <2>4. job' = "check" /\ connected =>
          \A t \in SignalTags : lastWritten[t] = Outputs(Held(Purged))[t]
    BY <1>2 DEF TickBegin, TickWith
  <2>5. TickProgress'
    BY <2>1, <2>2, <2>3 DEF TickProgress
  <2>6. TickPublishes'
    BY <2>1, <2>2, <2>4 DEF TickPublishes, Wanted
  <2> QED
    BY <2>1, <2>5, <2>6 DEF IInv, UpIsConnected, ResetProgress, AssertedIsReal,
       ShutdownClears
<1> QED
  BY <1>1, <1>2

\* Senders, time, faults and Stop leave the invariant alone.
LEMMA InvEnvironment == ASSUME IInv, TypeOK', Environment PROVE IInv'
<1>1. CASE Clock
  <2>1. Held(holds)' = Held(holds)
    <3>1. ASSUME NEW a \in Actions, NEW c \in Cameras
          PROVE  holds'[a][c] # NoHold <=> holds[a][c] # NoHold
      <4>1. holds[a][c] \in Ages
        BY DEF IInv, TypeOK
      <4>2. holds'[a][c] = IF holds[a][c] = NoHold THEN NoHold
                           ELSE Older(holds[a][c], HoldTime)
        BY <1>1 DEF Clock
      <4> QED
        BY <4>1, <4>2, ConstantsAssumption DEF Ages, NoHold, Older, ConstantsAssumption
    <3> QED
      BY <3>1 DEF Held
  <2>2. UNCHANGED <<job, k, goal, lastWritten, connected, link, plcBit>>
    BY <1>1 DEF Clock, runVars, ioVars
  <2> QED
    BY <2>1, <2>2, QuietStep
<1>2. CASE Stop \/ \E c \in Cameras, s \in Inputs : Enqueue(c, s)
  <2>1. UNCHANGED <<job, k, goal, lastWritten, holds, connected, link, plcBit>>
    BY <1>2 DEF Stop, Enqueue, runVars, ioVars
  <2> QED
    BY <2>1, QuietStep DEF Held
<1>3. CASE LinkDrop \/ LinkRestore \/ PowerCycle
  <2>1. UNCHANGED <<job, k, goal, lastWritten, holds, connected>> /\ link' # "up"
    BY <1>3 DEF LinkDrop, LinkRestore, PowerCycle, EnvOther, runVars
  <2> QED
    BY <2>1, QuietStep DEF Held
<1> QED
  BY <1>1, <1>2, <1>3 DEF Environment

\* The invariant is inductive.
LEMMA InvNext == IInv /\ [Next]_vars => IInv'
<1> SUFFICES ASSUME IInv, [Next]_vars
             PROVE  IInv'
  OBVIOUS
<1>1. TypeOK'
  BY TypeNext DEF IInv
<1>2. CASE UNCHANGED vars
  <2>1. UNCHANGED <<job, k, goal, lastWritten, holds, connected, link, plcBit>>
    BY <1>2 DEF vars
  <2> QED
    BY <1>1, <2>1, QuietStep DEF Held
<1>3. CASE Run
  BY <1>1, <1>3, InvConnect, InvRunCheck, InvRunWrite, InvJobEnds, InvSelect
     DEF Run, RunStep
<1>4. CASE HeartbeatLoop
  BY <1>1, <1>4, InvHeartbeat
<1>5. CASE Environment
  BY <1>1, <1>5, InvEnvironment
<1> QED
  BY <1>2, <1>3, <1>4, <1>5 DEF Next

\* The invariant holds in every reachable state of the controller.
THEOREM Invariance == Spec => []IInv
<1>1. Init => IInv
  BY InvInit
<1>2. IInv /\ [Next]_vars => IInv'
  BY InvNext
<1> QED
  BY <1>1, <1>2, PTL DEF Spec

\* A tick that ends connected has had every alarm coil acknowledged
\* (ResetExpiredSignals), and a connected shutdown has cleared them.
THEOREM TickPublishesAlways == Spec => []TickPublishes
<1>1. IInv => TickPublishes
  BY DEF IInv
<1> QED
  BY <1>1, Invariance, PTL

\* Run does not return before the coils were reset, unless the connection was lost
\* while it did: whatever was queued or held when Stop was called.
THEOREM ShutdownAlwaysClears == Spec => []ShutdownClears
<1>1. IInv => ShutdownClears
  BY DEF IInv
<1> QED
  BY <1>1, Invariance, PTL

\* The cache never claims an alarm the device lost, so a tick that ends with a
\* live session leaves every held alarm on at the device itself: for any number
\* of cameras, lost acknowledgements and restarts of the device.
THEOREM HeldAlarmAlwaysAsserted == Spec => [](AssertedIsReal /\ HeldAlarmIsAsserted)
<1>1. IInv => AssertedIsReal
  BY DEF IInv
<1>2. IInv => HeldAlarmIsAsserted
  <2> SUFFICES ASSUME IInv, job = "check", link = "up", NEW t \in SignalTags, Wanted(t)
               PROVE  plcBit[t]
    BY DEF HeldAlarmIsAsserted
  <2>1. lastWritten[t] = Wanted(t)
    BY DEF IInv, UpIsConnected, TickPublishes
  <2> QED
    BY <2>1 DEF IInv, AssertedIsReal
<1> QED
  BY <1>1, <1>2, Invariance, PTL

\* Without lost acknowledgements and restarts, cache and device agree: what
\* WriteBit skips really needs no write.
THEOREM CoherentAlways == Spec => []Coherent
<1>1. Init => Coherent
  BY DEF Init, Coherent
<1>2. TypeOK /\ Coherent /\ [Next]_vars => Coherent'
  <2> SUFFICES ASSUME TypeOK, FaultKinds = {}, plcBit = lastWritten, [Next]_vars
               PROVE  plcBit' = lastWritten'
    BY DEF Coherent
  <2>1. ASSUME NEW tag, NEW value, WriteBit(tag, value)
        PROVE  plcBit' = lastWritten'
    BY <2>1 DEF WriteBit, WriteAcked, WriteFails, WriteUnacked, ioVars
  <2>2. CASE RunWrite
    BY <2>1, <2>2 DEF RunWrite
  <2>3. CASE HbWrite
    BY <2>1, <2>3 DEF HbWrite
  <2>4. CASE Run /\ ~RunWrite
    BY <2>4 DEF Run, RunStep, ConnectPLC, RunCheck, ResetDone, StartupDone, TickDone,
       ReconnectCheck, Close, Receive, TickBegin, TickWith, StopBranch, ioVars
  <2>5. CASE HbLoop \/ HbCheck
    BY <2>5 DEF HbLoop, HbCheck, ioVars
  <2>6. CASE Environment
    BY <2>6 DEF Environment, Stop, Clock, LinkDrop, LinkRestore, PowerCycle, EnvOther,
       Enqueue, ioVars
  <2>7. CASE UNCHANGED vars
    BY <2>7 DEF vars
  <2> QED
    BY <2>2, <2>3, <2>4, <2>5, <2>6, <2>7 DEF Next, HeartbeatLoop
<1> QED
  BY <1>1, <1>2, TypeCorrect, PTL DEF Spec

\* The same for the instance of the run: its steps write cache and device together.
LEMMA LosslessStep == plcBit = lastWritten /\ [Lossless!Next]_vars => plcBit' = lastWritten'
<1> SUFFICES ASSUME plcBit = lastWritten, [Lossless!Next]_vars
             PROVE  plcBit' = lastWritten'
  OBVIOUS
<1> USE DEF Lossless!ioVars
<1>1. ASSUME NEW tag, NEW value, Lossless!WriteBit(tag, value)
      PROVE  plcBit' = lastWritten'
  BY <1>1 DEF Lossless!WriteBit, Lossless!WriteAcked, Lossless!WriteFails, Lossless!WriteUnacked
<1>2. CASE Lossless!RunWrite \/ Lossless!HbWrite
  BY <1>1, <1>2 DEF Lossless!RunWrite, Lossless!HbWrite
<1>3. CASE Lossless!Run /\ ~Lossless!RunWrite
  BY <1>3 DEF Lossless!Run, Lossless!RunStep, Lossless!ConnectPLC, Lossless!RunCheck,
     Lossless!ResetDone, Lossless!StartupDone, Lossless!TickDone, Lossless!ReconnectCheck,
     Lossless!Close, Lossless!Receive, Lossless!TickBegin, Lossless!TickWith,
     Lossless!StopBranch
<1>4. CASE Lossless!HbLoop \/ Lossless!HbCheck
  BY <1>4 DEF Lossless!HbLoop, Lossless!HbCheck
<1>5. CASE Lossless!Environment
  BY <1>5 DEF Lossless!Environment, Lossless!Stop, Lossless!Clock, Lossless!LinkDrop,
     Lossless!LinkRestore, Lossless!PowerCycle, Lossless!EnvOther, Lossless!Enqueue
<1>6. CASE UNCHANGED vars
  BY <1>6 DEF vars
<1> QED
  BY <1>2, <1>3, <1>4, <1>5, <1>6 DEF Lossless!Next, Lossless!HeartbeatLoop

\* See CoherentAlways: of the three instances of the run, the one without these faults.
THEOREM CoherentWhenLosslessAlways == ControllerSpec => []CoherentWhenLossless
<1> DEFINE Same == part = "lossless" => plcBit = lastWritten
<1>1. ControllerInit => Same
  BY DEF ControllerInit, Init, Lossless!Init
<1>2. Same /\ [ControllerNext]_<<vars, part>> => Same'
  <2> SUFFICES ASSUME Same, [ControllerNext]_<<vars, part>>, part' = "lossless"
               PROVE  plcBit' = lastWritten'
    OBVIOUS
  <2>1. part = "lossless" /\ [Lossless!Next]_vars
    BY DEF ControllerNext
  <2> QED
    BY <2>1, LosslessStep
<1>3. Same => CoherentWhenLossless
  BY DEF CoherentWhenLossless, Lossless!Coherent
<1> QED
  BY <1>1, <1>2, <1>3, PTL DEF ControllerSpec

\* Under the invariant every step moves the device towards the reports held.
LEMMA FollowsStep == IInv /\ [Next]_vars => [FollowsHolds]_vars
<1> SUFFICES ASSUME IInv, Next
             PROVE  FollowsHolds
  BY DEF FollowsHolds, vars
<1>1. ASSUME NEW tag \in Tags, NEW value \in BOOLEAN, WriteBit(tag, value),
             NEW t \in SignalTags, plcBit'[t] # plcBit[t]
      PROVE  t = tag /\ plcBit'[t] = value
  BY <1>1 DEF WriteBit, WriteAcked, WriteFails, WriteUnacked, ioVars, IInv, TypeOK, Tags
<1>2. CASE RunWrite
  <2> SUFFICES ASSUME NEW t \in SignalTags \ {"M21"}, plcBit'[t] # plcBit[t]
               PROVE  \/ plcBit'[t] = Wanted(t)
                      \/ ~plcBit'[t] /\ job \in {"reset", "shutdown"}
    BY DEF FollowsHolds
  <2>1. Writing /\ WriteBit(Coil, Value)
    BY <1>2 DEF RunWrite
  <2>2. Coil \in SignalTags /\ Coil \in Tags /\ Value \in BOOLEAN
    BY <2>1, CoilTyped DEF IInv, Tags
  <2>3. t = Coil /\ plcBit'[t] = Value
    BY <1>1, <2>1, <2>2
  <2>4. CASE job = "tick"
    <3>1. Value = goal[t]
      BY <2>3, <2>4 DEF Value
    <3>2. goal[t] = Wanted(t)
      BY <2>4 DEF IInv, TickProgress, Wanted
    <3> QED
      BY <2>3, <3>1, <3>2
  <2>5. CASE job = "blink"
    BY <2>3, <2>5 DEF Coil
  <2>6. CASE job \in {"reset", "shutdown"}
    <3>1. Value = FALSE
      BY <2>6 DEF Value
    <3> QED
      BY <2>3, <2>6, <3>1
  <2> QED
    BY <2>1, <2>4, <2>5, <2>6 DEF Writing
<1>3. CASE HbWrite
  <2>1. PICK value \in BOOLEAN : WriteBit("M20", value)
    BY <1>3 DEF HbWrite
  <2>2. "M20" \in Tags /\ "M20" \notin SignalTags
    BY DEF Tags, SignalTags
  <2> QED
    BY <1>1, <2>1, <2>2 DEF FollowsHolds
<1>4. CASE PowerCycle
  BY <1>4 DEF FollowsHolds
<1>5. CASE plcBit' = plcBit
  BY <1>5 DEF FollowsHolds
<1>6. RunWrite \/ HbWrite \/ PowerCycle \/ plcBit' = plcBit
  BY DEF Next, Run, RunStep, ConnectPLC, RunCheck, ResetDone, StartupDone, TickDone,
     ReconnectCheck, Close, Receive, TickBegin, TickWith, StopBranch, HeartbeatLoop, HbLoop,
     HbCheck, Environment, Stop, Clock, LinkDrop, LinkRestore, EnvOther, Enqueue, ioVars
<1> QED
  BY <1>2, <1>3, <1>4, <1>5, <1>6

\* A coil of the device changes only towards what the held reports call for,
\* except through a reset or a restart of the device.
THEOREM DeviceAlwaysFollowsHolds == Spec => DeviceFollowsHolds
<1>1. IInv /\ [Next]_vars => [FollowsHolds]_vars
  BY FollowsStep
<1> QED
  BY <1>1, Invariance, PTL DEF Spec, DeviceFollowsHolds

\* A coil gets on while the cache believes it off in one way only: the device executed
\* the write that raised it and the acknowledgement was lost.
OnlyLostAckStrands ==
  \A t \in Tags : ~Stranded(t) /\ Stranded(t)' => WriteUnacked(t, TRUE)

LEMMA StrandedStep == TypeOK /\ [Next]_vars => OnlyLostAckStrands
<1> SUFFICES ASSUME TypeOK, [Next]_vars, NEW t \in Tags, ~Stranded(t), Stranded(t)'
             PROVE  WriteUnacked(t, TRUE)
  BY DEF OnlyLostAckStrands
<1>1. ASSUME NEW tag \in Tags, NEW value \in BOOLEAN, WriteBit(tag, value)
      PROVE  WriteUnacked(t, TRUE)
  <2>1. plcBit \in [Tags -> BOOLEAN] /\ lastWritten \in [Tags -> BOOLEAN]
    BY DEF TypeOK
  <2>2. ~WriteAcked(tag, value)
    BY <2>1 DEF WriteAcked, Stranded
  <2>3. ~WriteFails(tag, value) /\ ~UNCHANGED ioVars
    BY <2>1 DEF WriteFails, Stranded, ioVars
  <2>4. WriteUnacked(tag, value)
    BY <1>1, <2>2, <2>3 DEF WriteBit
  <2>5. tag = t /\ value = TRUE
    BY <2>1, <2>4 DEF WriteUnacked, Stranded
  <2> QED
    BY <2>4, <2>5
<1>2. CASE RunWrite
  <2>1. Writing /\ WriteBit(Coil, Value)
    BY <1>2 DEF RunWrite
  <2>2. Coil \in Tags /\ Value \in BOOLEAN
    BY <2>1, CoilTyped DEF Tags
  <2> QED
    BY <1>1, <2>1, <2>2
<1>3. CASE HbWrite
  <2>1. PICK value \in BOOLEAN : WriteBit("M20", value)
    BY <1>3 DEF HbWrite
  <2> QED
    BY <1>1, <2>1 DEF Tags
<1>4. CASE PowerCycle
  BY <1>4 DEF PowerCycle, Stranded
<1>5. CASE UNCHANGED <<plcBit, lastWritten>>
  BY <1>5 DEF Stranded
<1>6. RunWrite \/ HbWrite \/ PowerCycle \/ UNCHANGED <<plcBit, lastWritten>>
  BY DEF Next, Run, RunStep, ConnectPLC, RunCheck, ResetDone, StartupDone, TickDone,
     ReconnectCheck, Close, Receive, TickBegin, TickWith, StopBranch, HeartbeatLoop, HbLoop,
     HbCheck, Environment, Stop, Clock, LinkDrop, LinkRestore, EnvOther, Enqueue, ioVars, vars
<1> QED
  BY <1>2, <1>3, <1>4, <1>5, <1>6

\* So without a lost acknowledgement AlarmEnds has no exception but a coil that was on
\* when the program started.
THEOREM OnlyLostAcksStrand == Spec => [][OnlyLostAckStrands]_vars
<1>1. TypeOK /\ [Next]_vars => [OnlyLostAckStrands]_vars
  BY StrandedStep
<1> QED
  BY <1>1, TypeCorrect, PTL DEF Spec

-----------------------------------------------------------------------------
\* What SendSignalsToPLC leaves out or merges is never missed by the
\* controller: a frame that raises the set S of alarms ends in the same coils
\* as if all of S had been queued.
THEOREM MergePreservesOutputs ==
  ASSUME NEW S \in SUBSET Actions
  PROVE  Outputs(HeldAfter(S)) = Outputs(S)
<1> DEFINE fs == "forward_stop" \in S
           fl == "forward_slow" \in S
           bs == "back_stop" \in S
           bl == "back_slow" \in S
<1>1. Targets(DataOf("forward_stop")) = {"forward_stop"}
  BY DEF Targets, DataOf, StopSignals
<1>2. Targets(DataOf("forward_slow")) = {"forward_slow"}
  BY DEF Targets, DataOf, StopSignals
<1>3. Targets(DataOf("back_stop")) = {"back_stop"}
  BY DEF Targets, DataOf, StopSignals
<1>4. Targets(DataOf("back_slow")) = {"back_slow"}
  BY DEF Targets, DataOf, StopSignals
<1>5. Targets(DataOf("inside_stop")) = {"forward_stop", "back_stop"}
  BY DEF Targets, DataOf, StopSignals
<1>6. Targets(DataOf("inside_slow")) = {"forward_slow", "back_slow"}
  BY DEF Targets, DataOf, StopSignals
<1>7. /\ "forward_stop" \in HeldAfter(S) <=> fs
      /\ "back_stop" \in HeldAfter(S) <=> bs
      /\ "forward_slow" \in HeldAfter(S) /\ ~fs <=> fl /\ ~fs
      /\ "back_slow" \in HeldAfter(S) /\ ~bs <=> bl /\ ~bs
  <2>1. CASE fs /\ bs
    <3>1. Merge(S) = {"inside_stop"}
      BY <2>1 DEF Merge, StopOverSlow
    <3> QED
      BY <2>1, <3>1, <1>5 DEF HeldAfter
  <2>2. CASE fl /\ bl /\ ~fs /\ ~bs
    <3>1. Merge(S) = {"inside_slow"}
      BY <2>2 DEF Merge, StopOverSlow
    <3> QED
      BY <2>2, <3>1, <1>6 DEF HeldAfter
  <2>3. CASE ~(fs /\ bs) /\ ~(fl /\ bl /\ ~fs /\ ~bs)
    <3>1. Merge(S) = StopOverSlow(S)
      BY <2>3 DEF Merge, StopOverSlow
    <3>2. StopOverSlow(S) \subseteq Actions
      BY DEF StopOverSlow
    <3>3. \A s \in Actions : Targets(DataOf(s)) = {s}
      BY <1>1, <1>2, <1>3, <1>4 DEF Actions
    <3>4. HeldAfter(S) = StopOverSlow(S)
      BY <3>1, <3>2, <3>3 DEF HeldAfter
    <3> QED
      BY <3>4 DEF StopOverSlow
  <2> QED
    BY <2>1, <2>2, <2>3
<1>8. ASSUME NEW t \in SignalTags
      PROVE  Outputs(HeldAfter(S))[t] = Outputs(S)[t]
  BY <1>7 DEF Outputs, SignalTags
<1>9. Outputs(HeldAfter(S)) \in [SignalTags -> BOOLEAN] /\ Outputs(S) \in [SignalTags -> BOOLEAN]
  BY DEF Outputs, SignalTags
<1> QED
  BY <1>8, <1>9

-----------------------------------------------------------------------------
(* The pipeline.                                                            *)

\* A step of the pipeline is a step of the controller, or leaves it alone.
LEMMA PipeStep == PipelineAssumption /\ [PipeNext]_pipeVars => [Next]_vars
<1> SUFFICES ASSUME PipelineAssumption, [PipeNext]_pipeVars
             PROVE  [Next]_vars
  OBVIOUS
<1>1. CASE Run \/ HeartbeatLoop \/ Stop \/ LinkDrop \/ LinkRestore \/ PowerCycle
  BY <1>1 DEF Next, Environment
<1>2. CASE PipeClock
  BY <1>2 DEF PipeClock, Next, Environment
<1>3. ASSUME NEW c \in Cameras, Send(c)
      PROVE  [Next]_vars
  <2>1. CASE \E S \in Raised : BeginSend(c, S)
    BY <2>1 DEF BeginSend
  <2>2. CASE \E s \in Signals : DropSlow(c, s)
    BY <2>2 DEF DropSlow
  <2>3. CASE \E s \in Signals : SendData(c, s)
    BY <2>3 DEF SendData, Next, Environment, PipelineAssumption
  <2> QED
    BY <1>3, <2>1, <2>2, <2>3 DEF Send
<1>4. CASE UNCHANGED pipeVars
  BY <1>4 DEF pipeVars
<1> QED
  BY <1>1, <1>2, <1>3, <1>4 DEF PipeNext

\* So what was proved of the controller holds in the pipeline as well: a tick that
\* ends with a live session leaves every held alarm on at the device.
COROLLARY PipelineAsserts ==
  ASSUME PipelineAssumption
  PROVE  PipeSpec => [](AssertedIsReal /\ HeldAlarmIsAsserted)
<1>1. PipeInit => Init
  BY DEF PipeInit
<1>2. PipelineAssumption /\ [PipeNext]_pipeVars => [Next]_vars
  BY PipeStep
<1> QED
  BY <1>1, <1>2, HeldAlarmAlwaysAsserted, PTL DEF PipeSpec, Spec

-----------------------------------------------------------------------------
AgesOK ==
  /\ nowAge \in [Cameras -> 0 .. Debounce]
  /\ sentAge \in [Cameras -> [Signals -> 0 .. Debounce]]

PipeInv == PipelineAssumption /\ TypeOK /\ AgesOK /\ SuppressedIsKnown

\* The saturating clock of the debouncing stays in range.
LEMMA OlderTyped ==
  ASSUME PipelineAssumption, NEW n \in 0 .. Debounce
  PROVE  /\ Older(n, Debounce - 1) \in 0 .. Debounce
         /\ Older(n, Debounce - 1) < Debounce => Older(n, Debounce - 1) = n + 1
BY DEF Older, PipelineAssumption

\* A signal is held as one or two of the four actions.
LEMMA TargetsTyped == \A s \in Signals : Targets(DataOf(s)) \subseteq Actions
BY DEF Targets, DataOf, Signals, Actions, StopSignals

\* What a report on the queue holds when it is received.
LEMMA CameraDataTargets ==
  ASSUME NEW c, NEW s
  PROVE  /\ CameraData(c, s).camera = c
         /\ Targets(CameraData(c, s)) = Targets(DataOf(s))
BY DEF CameraData, Targets, DataOf

\* A controller step that keeps the queue and purges at most expired holds.
LEMMA KeepsKnown ==
  ASSUME PipeInv, TypeOK', UNCHANGED <<queue, nowAge, sentAge>>,
         \A a \in Actions, c \in Cameras :
           holds'[a][c] # holds[a][c] => holds[a][c] > HoldTime
  PROVE  PipeInv'
<1> PipelineAssumption /\ TypeOK /\ AgesOK /\ SuppressedIsKnown
  BY DEF PipeInv
<1>1. AgesOK'
  BY DEF PipeInv, AgesOK
<1>2. SuppressedIsKnown'
  <2> SUFFICES ASSUME NEW c \in Cameras, NEW s \in Signals, sentAge[c][s] < Debounce,
                      HeldSince(c, s)
               PROVE  HeldSince(c, s)'
    BY DEF PipeInv, SuppressedIsKnown, Queued, CameraData
  <2> SUFFICES ASSUME NEW a \in Targets(DataOf(s))
               PROVE  holds'[a][c] = holds[a][c]
    BY DEF HeldSince
  <2>1. a \in Actions /\ holds[a][c] <= sentAge[c][s]
    BY TargetsTyped DEF HeldSince
  <2>2. holds[a][c] \in Ages /\ sentAge[c][s] \in 0 .. Debounce
    BY <2>1 DEF PipeInv, TypeOK, AgesOK
  <2>3. ~(holds[a][c] > HoldTime)
    BY <2>1, <2>2, ConstantsAssumption
       DEF Ages, NoHold, ConstantsAssumption, PipelineAssumption, PipeInv
  <2> QED
    BY <2>1, <2>3
<1> QED
  BY <1>1, <1>2 DEF PipeInv

\* A report that leaves the queue is held, with age zero.
LEMMA ReceiveKeepsKnown ==
  ASSUME PipeInv, TypeOK', Receive, UNCHANGED sendVars
  PROVE  PipeInv'
<1> PipelineAssumption /\ TypeOK /\ AgesOK /\ SuppressedIsKnown
  BY DEF PipeInv
<1> DEFINE data == Head(queue)
<1>1. /\ queue # <<>> /\ queue' = Tail(queue) /\ queue \in Seq(Data) /\ data \in Data
      /\ holds' = [a \in Actions |->
                     IF a \in Targets(data) THEN [holds[a] EXCEPT ![data.camera] = 0]
                                            ELSE holds[a]]
  BY DEF Receive, PipeInv, TypeOK
<1>2. UNCHANGED <<nowAge, sentAge>>
  BY DEF sendVars
<1>3. AgesOK'
  BY <1>2 DEF PipeInv, AgesOK
<1>4. ASSUME NEW c \in Cameras, NEW s \in Signals, sentAge[c][s] < Debounce
      PROVE  Queued(c, s)' \/ HeldSince(c, s)'
  <2>1. sentAge[c][s] \in 0 .. Debounce
    BY DEF PipeInv, AgesOK
  <2>2. ASSUME HeldSince(c, s)
        PROVE  HeldSince(c, s)'
    <3> SUFFICES ASSUME NEW a \in Targets(DataOf(s))
                 PROVE  holds'[a][c] # NoHold /\ holds'[a][c] <= sentAge[c][s]
      BY <1>2 DEF HeldSince
    <3>1. a \in Actions /\ holds[a][c] # NoHold /\ holds[a][c] <= sentAge[c][s]
      BY <2>2, TargetsTyped DEF HeldSince
    <3>2. holds'[a][c] = 0 \/ holds'[a][c] = holds[a][c]
      BY <1>1, <3>1 DEF PipeInv, TypeOK
    <3> QED
      BY <2>1, <3>1, <3>2 DEF NoHold, PipelineAssumption
  <2>3. ASSUME NEW i \in 1 .. Len(queue), queue[i] = CameraData(c, s)
        PROVE  Queued(c, s)' \/ HeldSince(c, s)'
    <3>1. CASE i = 1
      <4>1. data = CameraData(c, s)
        BY <1>1, <2>3, <3>1
      <4>2. data.camera = c /\ Targets(data) = Targets(DataOf(s))
        BY <4>1, CameraDataTargets
      <4> SUFFICES ASSUME NEW a \in Targets(DataOf(s))
                   PROVE  holds'[a][c] # NoHold /\ holds'[a][c] <= sentAge[c][s]
        BY <1>2 DEF HeldSince
      <4>3. a \in Actions
        BY TargetsTyped
      <4>4. holds'[a][c] = 0
        BY <1>1, <4>2, <4>3 DEF PipeInv, TypeOK
      <4> QED
        BY <2>1, <4>4 DEF NoHold, PipelineAssumption
    <3>2. CASE i # 1
      <4>1. i - 1 \in 1 .. Len(Tail(queue)) /\ Tail(queue)[i - 1] = queue[i]
        BY <1>1, <3>2
      <4>2. \E j \in 1 .. Len(queue') : queue'[j] = CameraData(c, s)
        BY <1>1, <2>3, <4>1
      <4> QED
        BY <4>2 DEF Queued, CameraData
    <3> QED
      BY <3>1, <3>2
  <2> QED
    BY <1>4, <2>2, <2>3 DEF PipeInv, SuppressedIsKnown, Queued
<1>5. SuppressedIsKnown'
  BY <1>2, <1>4 DEF SuppressedIsKnown
<1> QED
  BY <1>3, <1>5 DEF PipeInv

\* Holds and suppression age together, and suppression ends first.
LEMMA ClockKeepsKnown ==
  ASSUME PipeInv, TypeOK', PipeClock
  PROVE  PipeInv'
<1> PipelineAssumption /\ TypeOK /\ AgesOK /\ SuppressedIsKnown
  BY DEF PipeInv
<1>1. AgesOK'
  <2>1. nowAge' \in [Cameras -> 0 .. Debounce]
    BY OlderTyped DEF PipeClock, PipeInv, AgesOK
  <2>2. sentAge' \in [Cameras -> [Signals -> 0 .. Debounce]]
    BY OlderTyped DEF PipeClock, PipeInv, AgesOK
  <2> QED
    BY <2>1, <2>2 DEF AgesOK
<1>2. ASSUME NEW c \in Cameras, NEW s \in Signals, sentAge'[c][s] < Debounce
      PROVE  Queued(c, s)' \/ HeldSince(c, s)'
  <2>1. sentAge[c][s] \in 0 .. Debounce /\ sentAge'[c][s] = Older(sentAge[c][s], Debounce - 1)
    BY DEF PipeInv, AgesOK, PipeClock
  <2>2. sentAge'[c][s] = sentAge[c][s] + 1 /\ sentAge[c][s] < Debounce
    BY <1>2, <2>1, OlderTyped DEF PipelineAssumption
  <2>3. CASE Queued(c, s)
    <3>1. queue' = queue
      BY DEF PipeClock, Clock
    <3> QED
      BY <2>3, <3>1 DEF Queued, CameraData
  <2>4. CASE HeldSince(c, s)
    <3> SUFFICES ASSUME NEW a \in Targets(DataOf(s))
                 PROVE  holds'[a][c] # NoHold /\ holds'[a][c] <= sentAge'[c][s]
      BY DEF HeldSince
    <3>1. a \in Actions /\ holds[a][c] # NoHold /\ holds[a][c] <= sentAge[c][s]
      BY <2>4, TargetsTyped DEF HeldSince
    <3>2. holds[a][c] \in Ages
      BY <3>1 DEF PipeInv, TypeOK
    <3>3. holds'[a][c] = Older(holds[a][c], HoldTime)
      BY <3>1 DEF PipeClock, Clock
    <3>4. holds[a][c] \in 0 .. HoldTime + 1 /\ holds[a][c] <= HoldTime
      BY <2>1, <2>2, <3>1, <3>2, ConstantsAssumption
         DEF Ages, NoHold, ConstantsAssumption, PipelineAssumption, PipeInv
    <3>5. holds'[a][c] = holds[a][c] + 1
      BY <3>3, <3>4, ConstantsAssumption DEF Older, ConstantsAssumption
    <3> QED
      BY <2>1, <2>2, <3>1, <3>4, <3>5, ConstantsAssumption
         DEF NoHold, ConstantsAssumption, PipelineAssumption
  <2> QED
    BY <2>2, <2>3, <2>4 DEF PipeInv, SuppressedIsKnown
<1>3. SuppressedIsKnown'
  BY <1>2 DEF SuppressedIsKnown
<1> QED
  BY <1>1, <1>3 DEF PipeInv

\* A signal that becomes suppressed has just been queued.
LEMMA SendKeepsKnown ==
  ASSUME PipeInv, TypeOK', NEW c \in Cameras, NEW s \in Signals, SendData(c, s)
  PROVE  PipeInv'
<1> PipelineAssumption /\ TypeOK /\ AgesOK /\ SuppressedIsKnown
  BY DEF PipeInv
<1>1. /\ queue \in Seq(Data) /\ queue' = Append(queue, CameraData(c, s))
      /\ UNCHANGED <<holds, nowAge>>
      /\ sentAge' = [sentAge EXCEPT ![c][s] = nowAge[c]]
  BY DEF SendData, Enqueue, PipeInv, TypeOK
<1>2. CameraData(c, s) \in Data
  BY DataTyped
<1>3. AgesOK'
  BY <1>1 DEF PipeInv, AgesOK
<1>4. Len(queue') = Len(queue) + 1 /\ queue'[Len(queue) + 1] = CameraData(c, s)
      /\ \A i \in 1 .. Len(queue) : queue'[i] = queue[i]
  BY <1>1, <1>2
<1>5. Len(queue) \in Nat
  BY <1>1
<1>6. ASSUME NEW d \in Cameras, NEW r \in Signals, sentAge'[d][r] < Debounce
      PROVE  Queued(d, r)' \/ HeldSince(d, r)'
  <2>1. CASE d = c /\ r = s
    <3>1. \E i \in 1 .. Len(queue') : queue'[i] = CameraData(d, r)
      BY <1>4, <1>5, <2>1
    <3> QED
      BY <3>1 DEF Queued, CameraData
  <2>2. CASE ~(d = c /\ r = s)
    <3>1. sentAge'[d][r] = sentAge[d][r]
      BY <1>1, <2>2 DEF PipeInv, AgesOK
    <3>2. CASE HeldSince(d, r)
      BY <1>1, <3>1, <3>2 DEF HeldSince
    <3>3. CASE Queued(d, r)
      <4>1. \E i \in 1 .. Len(queue') : queue'[i] = CameraData(d, r)
        BY <1>4, <1>5, <3>3 DEF Queued
      <4> QED
        BY <4>1 DEF Queued, CameraData
    <3> QED
      BY <1>6, <3>1, <3>2, <3>3 DEF PipeInv, SuppressedIsKnown
  <2> QED
    BY <2>1, <2>2
<1>7. SuppressedIsKnown'
  BY <1>6 DEF SuppressedIsKnown
<1> QED
  BY <1>3, <1>7 DEF PipeInv

\* Knowing every suppressed signal is inductive.
LEMMA PipeInvNext == PipeInv /\ [PipeNext]_pipeVars => PipeInv'
<1> SUFFICES ASSUME PipeInv, [PipeNext]_pipeVars
             PROVE  PipeInv'
  OBVIOUS
<1> PipelineAssumption
  BY DEF PipeInv
<1>1. TypeOK'
  BY PipeStep, TypeNext DEF PipeInv
<1>2. CASE Receive /\ UNCHANGED sendVars
  BY <1>1, <1>2, ReceiveKeepsKnown
<1>3. CASE TickBegin /\ UNCHANGED sendVars
  <2>1. holds' = Purged /\ UNCHANGED <<queue, nowAge, sentAge>>
    BY <1>3 DEF TickBegin, TickWith, sendVars
  <2>2. \A a \in Actions, c \in Cameras :
          holds'[a][c] # holds[a][c] => holds[a][c] > HoldTime
    BY <2>1 DEF Purged
  <2> QED
    BY <1>1, <2>1, <2>2, KeepsKnown
<1>4. CASE UNCHANGED <<queue, holds, nowAge, sentAge>>
  BY <1>1, <1>4, KeepsKnown
<1>5. CASE PipeClock
  BY <1>1, <1>5, ClockKeepsKnown
<1>6. ASSUME NEW c \in Cameras, Send(c)
      PROVE  PipeInv'
  <2>1. CASE \E s \in Signals : SendData(c, s)
    BY <1>1, <2>1, SendKeepsKnown
  <2>2. ASSUME NEW S \in Raised, BeginSend(c, S)
        PROVE  PipeInv'
    <3>1. nowAge' \in [Cameras -> 0 .. Debounce]
      BY <2>2 DEF BeginSend, PipeInv, AgesOK, PipelineAssumption
    <3>2. UNCHANGED <<queue, holds, sentAge>>
      BY <2>2 DEF BeginSend, vars
    <3>3. AgesOK'
      BY <3>1, <3>2 DEF PipeInv, AgesOK
    <3>4. SuppressedIsKnown'
      BY <3>2 DEF PipeInv, SuppressedIsKnown, Queued, HeldSince, CameraData
    <3> QED
      BY <1>1, <3>3, <3>4 DEF PipeInv
  <2>3. CASE \E s \in Signals : DropSlow(c, s)
    BY <1>4, <2>3 DEF DropSlow, vars
  <2> QED
    BY <1>6, <2>1, <2>2, <2>3 DEF Send
<1>7. CASE RunStep /\ UNCHANGED sendVars
  BY <1>4, <1>7 DEF RunStep, ConnectPLC, RunCheck, RunWrite, ResetDone, StartupDone,
     TickDone, ReconnectCheck, Close, sendVars
<1>8. CASE (StopBranch \/ HeartbeatLoop \/ Stop \/ LinkDrop \/ LinkRestore \/ PowerCycle)
           /\ UNCHANGED sendVars
  BY <1>4, <1>8 DEF StopBranch, HeartbeatLoop, HbLoop, HbCheck, HbWrite, HbOther, Stop,
     LinkDrop, LinkRestore, PowerCycle, EnvOther, sendVars
<1>9. CASE UNCHANGED pipeVars
  BY <1>4, <1>9 DEF pipeVars, vars
<1> QED
  BY <1>2, <1>3, <1>5, <1>6, <1>7, <1>8, <1>9 DEF PipeNext, Run

LEMMA PipeInvInit == PipelineAssumption /\ PipeInit => PipeInv
<1> SUFFICES ASSUME PipelineAssumption, PipeInit
             PROVE  PipeInv
  OBVIOUS
<1>1. TypeOK
  BY TypeInit DEF PipeInit
<1>2. AgesOK
  BY DEF PipeInit, AgesOK, PipelineAssumption
<1>3. \A c \in Cameras, s \in Signals : ~(sentAge[c][s] < Debounce)
  BY DEF PipeInit, PipelineAssumption
<1> QED
  BY <1>1, <1>2, <1>3 DEF PipeInv, SuppressedIsKnown

\* Debouncing loses no alarm: as long as a signal is suppressed as recently
\* sent, it waits on the queue or is held at least as long, whatever the number
\* of streams, the capacity of the queue and the interleaving.
THEOREM DebounceLosesNothing ==
  ASSUME PipelineAssumption
  PROVE  PipeSpec => []SuppressedIsKnown
<1>1. PipelineAssumption /\ PipeInit => PipeInv
  BY PipeInvInit
<1>2. PipeInv /\ [PipeNext]_pipeVars => PipeInv'
  BY PipeInvNext
<1>3. PipeInv => SuppressedIsKnown
  BY DEF PipeInv
<1> QED
  BY <1>1, <1>2, <1>3, PTL DEF PipeSpec

-----------------------------------------------------------------------------
\* Merging leads to signals of the controller only: the code never queues another one
\* for a frame with the four actions.
LEMMA MergeTyped == \A S \in SUBSET Actions : Merge(S) \subseteq Signals
BY DEF Merge, StopOverSlow, Signals

TodoOK == todo \in [Cameras -> SUBSET Signals]

LEMMA TodoNext == PipelineAssumption /\ TodoOK /\ [PipeNext]_pipeVars => TodoOK'
<1> SUFFICES ASSUME PipelineAssumption, TodoOK, [PipeNext]_pipeVars
             PROVE  TodoOK'
  OBVIOUS
<1>1. CASE UNCHANGED todo
  BY <1>1 DEF TodoOK
<1>2. ASSUME NEW c \in Cameras, Send(c)
      PROVE  TodoOK'
  <2>1. ASSUME NEW S \in Raised, BeginSend(c, S)
        PROVE  TodoOK'
    <3>1. Merge(S) \subseteq Signals
      BY MergeTyped DEF PipelineAssumption
    <3>2. {s \in Merge(S) : sentAge[c][s] >= Debounce} \in SUBSET Signals
      BY <3>1
    <3> QED
      BY <2>1, <3>2 DEF BeginSend, TodoOK
  <2>2. ASSUME NEW s \in Signals, SendData(c, s) \/ DropSlow(c, s)
        PROVE  TodoOK'
    BY <2>2 DEF SendData, DropSlow, TodoOK
  <2> QED
    BY <1>2, <2>1, <2>2 DEF Send
<1> QED
  BY <1>1, <1>2 DEF PipeNext, PipeClock, sendVars, pipeVars

\* The type invariant of the pipeline.
THEOREM PipelineTypeCorrect ==
  ASSUME PipelineAssumption
  PROVE  PipeSpec => []PipeTypeOK
<1>1. PipelineAssumption /\ PipeInit => PipeInv /\ TodoOK
  BY PipeInvInit DEF PipeInit, TodoOK
<1>2. PipeInv /\ TodoOK => PipeTypeOK
  BY DEF PipeInv, TodoOK, AgesOK, PipeTypeOK
<1> QED
  BY <1>1, <1>2, PipeInvNext, TodoNext, PTL DEF PipeSpec

-----------------------------------------------------------------------------
(* The latch.                                                               *)

\* A detection that is not older than Keep left its report on its way, or a hold that
\* is older than the detection by what the debouncing leaves out at most.
Fresh(c, a) ==
  \/ OnItsWay(c, a)
  \/ holds[a][c] # NoHold /\ holds[a][c] <= seen[c][a] + Debounce - 1
  \/ seen[c][a] > Keep

LatchInv ==
  /\ PipeInv /\ TodoOK
  /\ seen \in [Cameras -> [StopActions -> 0 .. Keep + 1]]
  /\ \A c \in Cameras, a \in StopActions : Fresh(c, a)

\* A step of the pipeline with its history is a step of the pipeline.
LEMMA AlarmStep == [AlarmNext]_alarmVars => [PipeNext]_pipeVars
BY DEF AlarmNext, alarmVars, DetectAndSend, AlarmClock, PipeNext, Send

\* Merging keeps the stops a frame raises, and adds none.
LEMMA MergeKeepsStops ==
  ASSUME NEW S \in SUBSET Actions, NEW a \in StopActions
  PROVE  a \in S <=> \E s \in Merge(S) : a \in Targets(DataOf(s))
<1> DEFINE fs == "forward_stop" \in S
           bs == "back_stop" \in S
<1>1. /\ Targets(DataOf("forward_stop")) = {"forward_stop"}
      /\ Targets(DataOf("forward_slow")) = {"forward_slow"}
      /\ Targets(DataOf("back_stop")) = {"back_stop"}
      /\ Targets(DataOf("back_slow")) = {"back_slow"}
      /\ Targets(DataOf("inside_stop")) = {"forward_stop", "back_stop"}
      /\ Targets(DataOf("inside_slow")) = {"forward_slow", "back_slow"}
  BY DEF Targets, DataOf, StopSignals
<1>2. a \in {"forward_stop", "back_stop"}
  BY DEF StopActions, StopSignals, Actions
<1>3. CASE fs /\ bs
  <2>1. Merge(S) = {"inside_stop"}
    BY <1>3 DEF Merge, StopOverSlow
  <2> QED
    BY <1>1, <1>2, <1>3, <2>1
<1>4. CASE "forward_slow" \in S /\ "back_slow" \in S /\ ~fs /\ ~bs
  <2>1. Merge(S) = {"inside_slow"}
    BY <1>4 DEF Merge, StopOverSlow
  <2> QED
    BY <1>1, <1>2, <1>4, <2>1
<1>5. CASE ~(fs /\ bs) /\ ~("forward_slow" \in S /\ "back_slow" \in S /\ ~fs /\ ~bs)
  <2>1. Merge(S) = StopOverSlow(S)
    BY <1>5 DEF Merge, StopOverSlow
  <2>2. Merge(S) \subseteq Actions
    BY <2>1 DEF StopOverSlow
  <2>3. \A s \in Actions : Targets(DataOf(s)) = {s}
    BY <1>1 DEF Actions
  <2>4. a \in S <=> a \in Merge(S)
    BY <1>2, <2>1 DEF StopOverSlow
  <2> QED
    BY <2>2, <2>3, <2>4
<1> QED
  BY <1>3, <1>4, <1>5

\* Every report on the queue is one of a signal.
LEMMA DataIsSignal ==
  ASSUME NEW data \in Data
  PROVE  \E s \in Signals : data = CameraData(data.camera, s)
<1>1. data = [camera |-> data.camera, direction |-> data.direction, level |-> data.level]
      /\ data.direction \in {"front", "back", "inside"} /\ data.level \in {1, 2}
  BY DEF Data
<1>2. \A s \in Signals :
        CameraData(data.camera, s) = [camera |-> data.camera, direction |-> DataOf(s).direction,
                                      level |-> DataOf(s).level]
  BY DEF CameraData
<1>3. /\ DataOf("forward_stop") = [direction |-> "front", level |-> 2]
      /\ DataOf("forward_slow") = [direction |-> "front", level |-> 1]
      /\ DataOf("back_stop") = [direction |-> "back", level |-> 2]
      /\ DataOf("back_slow") = [direction |-> "back", level |-> 1]
      /\ DataOf("inside_stop") = [direction |-> "inside", level |-> 2]
      /\ DataOf("inside_slow") = [direction |-> "inside", level |-> 1]
  BY DEF DataOf, StopSignals
<1>4. PICK s \in Signals : DataOf(s).direction = data.direction /\ DataOf(s).level = data.level
  BY <1>1, <1>3 DEF Signals, Actions
<1> QED
  BY <1>1, <1>2, <1>4

\* The abstract variables, and what a step that changes neither is.
on == {ca \in Cameras \X StopActions : Known(ca[1], ca[2])}

LEMMA LatchInit == PipelineAssumption /\ AlarmInit => LatchInv /\ Latch!Init
<1> SUFFICES ASSUME PipelineAssumption, AlarmInit
             PROVE  LatchInv /\ Latch!Init
  OBVIOUS
<1>1. PipeInv /\ TodoOK
  BY PipeInvInit DEF AlarmInit, PipeInit, TodoOK
<1>2. Keep \in Nat
  BY ConstantsAssumption DEF Keep, PipelineAssumption, ConstantsAssumption
<1>3. \A c \in Cameras, a \in StopActions : seen[c][a] = Keep + 1
  BY DEF AlarmInit
<1>4. ASSUME NEW c \in Cameras, NEW a \in StopActions
      PROVE  ~Known(c, a)
  <2>1. queue = <<>> /\ todo[c] = {} /\ holds[a][c] = NoHold
    BY DEF AlarmInit, PipeInit, Init, StopActions
  <2>2. \A s \in Signals : ~Queued(c, s)
    BY <2>1 DEF Queued
  <2> QED
    BY <2>1, <2>2 DEF Known, OnItsWay
<1>5. seen \in [Cameras -> [StopActions -> 0 .. Keep + 1]]
  BY <1>2 DEF AlarmInit
<1>6. \A c \in Cameras, a \in StopActions : Fresh(c, a)
  BY <1>2, <1>3 DEF Fresh
<1>7. Latch!Init
  BY <1>4 DEF Latch!Init, AlarmInit
<1> QED
  BY <1>1, <1>5, <1>6, <1>7 DEF LatchInv

\* A step that changes neither what is on its way nor the holds of a stop nor the
\* history keeps the invariant, and is none of the latch.
LEMMA LatchQuiet ==
  ASSUME LatchInv, PipeInv', TodoOK', UNCHANGED <<todo, queue, holds, seen>>
  PROVE  LatchInv' /\ on' = on
<1>1. \A c \in Cameras, a \in StopActions : (Known(c, a)' <=> Known(c, a)) /\ Fresh(c, a)'
  BY DEF LatchInv, Fresh, Known, OnItsWay, Queued, CameraData
<1>2. on' = on
  BY <1>1 DEF on
<1>3. seen' \in [Cameras -> [StopActions -> 0 .. Keep + 1]]
  BY DEF LatchInv
<1> QED
  BY <1>1, <1>2, <1>3 DEF LatchInv

\* A report that is queued, or a slow one that is dropped, stays or was not on its way.
LEMMA LatchSend ==
  ASSUME LatchInv, PipeInv', TodoOK', NEW d \in Cameras, NEW r \in Signals,
         SendData(d, r) \/ DropSlow(d, r), UNCHANGED seen
  PROVE  LatchInv' /\ on' = on
<1>1. holds' = holds /\ todo' = [todo EXCEPT ![d] = @ \ {r}]
  BY DEF SendData, DropSlow, Enqueue, vars
<1>2. \/ queue' = Append(queue, CameraData(d, r)) /\ SendData(d, r)
      \/ queue' = queue /\ r \notin StopSignals
  <2>1. CASE SendData(d, r)
    BY <2>1 DEF SendData, Enqueue
  <2>2. CASE DropSlow(d, r)
    BY <2>2 DEF DropSlow, vars
  <2> QED
    BY <2>1, <2>2
<1>3. queue \in Seq(Data) /\ CameraData(d, r) \in Data
  BY DataTyped DEF LatchInv, PipeInv, TypeOK
<1>4. ASSUME NEW c \in Cameras, NEW s \in Signals, Queued(c, s)
      PROVE  Queued(c, s)'
  <2>1. PICK i \in 1 .. Len(queue) : queue[i] = CameraData(c, s)
    BY <1>4 DEF Queued
  <2>2. queue' = Append(queue, CameraData(d, r)) \/ queue' = queue
    BY <1>2
  <2>3. i \in 1 .. Len(queue') /\ queue'[i] = queue[i]
    BY <1>3, <2>1, <2>2
  <2> QED
    BY <2>1, <2>3 DEF Queued, CameraData
<1>5. ASSUME NEW c \in Cameras, NEW s \in Signals, Queued(c, s)'
      PROVE  Queued(c, s) \/ (SendData(d, r) /\ CameraData(c, s) = CameraData(d, r))
  <2>1. PICK i \in 1 .. Len(queue') : queue'[i] = CameraData(c, s)
    BY <1>5 DEF Queued, CameraData
  <2>2. \/ i \in 1 .. Len(queue) /\ queue'[i] = queue[i]
        \/ SendData(d, r) /\ queue'[i] = CameraData(d, r)
    BY <1>2, <1>3, <2>1
  <2> QED
    BY <2>1, <2>2 DEF Queued
<1>6. ASSUME NEW c \in Cameras, NEW a \in StopActions, OnItsWay(c, a)
      PROVE  OnItsWay(c, a)'
  <2>1. PICK s \in Signals : a \in Targets(DataOf(s)) /\ (s \in todo[c] \/ Queued(c, s))
    BY <1>6 DEF OnItsWay
  <2>2. s \in StopSignals
    BY <2>1 DEF Targets, DataOf, StopActions, StopSignals, Signals, Actions
  <2>3. CASE Queued(c, s) \/ s \in todo'[c]
    BY <1>4, <2>1, <2>3 DEF OnItsWay
  <2>4. CASE s \in todo[c] /\ s \notin todo'[c]
    <3>1. c = d /\ s = r
      BY <1>1, <2>4 DEF LatchInv, TodoOK
    <3>2. queue' = Append(queue, CameraData(c, s))
      BY <1>2, <2>2, <3>1
    <3>3. Len(queue) + 1 \in 1 .. Len(queue') /\ queue'[Len(queue) + 1] = CameraData(c, s)
      BY <1>3, <3>1, <3>2
    <3>4. Queued(c, s)'
      BY <3>3 DEF Queued, CameraData
    <3> QED
      BY <2>1, <3>4 DEF OnItsWay
  <2> QED
    BY <2>1, <2>3, <2>4
<1>7. ASSUME NEW c \in Cameras, NEW a \in StopActions, OnItsWay(c, a)'
      PROVE  OnItsWay(c, a)
  <2>1. PICK s \in Signals : a \in Targets(DataOf(s)) /\ (s \in todo'[c] \/ Queued(c, s)')
    BY <1>7 DEF OnItsWay
  <2>2. CASE s \in todo'[c] \/ Queued(c, s)
    BY <1>1, <2>1, <2>2 DEF OnItsWay, LatchInv, TodoOK
  <2>3. CASE SendData(d, r) /\ CameraData(c, s) = CameraData(d, r)
    <3>1. c = d /\ Targets(DataOf(s)) = Targets(DataOf(r))
      BY <2>3, CameraDataTargets
    <3>2. r \in todo[d]
      BY <2>3 DEF SendData
    <3> QED
      BY <2>1, <3>1, <3>2 DEF OnItsWay
  <2> QED
    BY <1>5, <2>1, <2>2, <2>3
<1>8. \A c \in Cameras, a \in StopActions : (Known(c, a)' <=> Known(c, a)) /\ Fresh(c, a)'
  BY <1>1, <1>6, <1>7 DEF LatchInv, Fresh, Known
<1>9. on' = on
  BY <1>8 DEF on
<1>10. seen' \in [Cameras -> [StopActions -> 0 .. Keep + 1]]
  BY DEF LatchInv
<1> QED
  BY <1>8, <1>9, <1>10 DEF LatchInv

\* A report that is received is held from then on.
LEMMA LatchReceive ==
  ASSUME LatchInv, PipeInv', TodoOK', Receive, UNCHANGED <<todo, seen>>
  PROVE  LatchInv' /\ on' = on
<1> DEFINE data == Head(queue)
<1>1. /\ queue # <<>> /\ queue \in Seq(Data) /\ data \in Data /\ queue' = Tail(queue)
      /\ holds \in [Actions -> [Cameras -> Ages]]
      /\ holds' = [a \in Actions |->
                     IF a \in Targets(data) THEN [holds[a] EXCEPT ![data.camera] = 0]
                                            ELSE holds[a]]
  BY DEF Receive, LatchInv, PipeInv, TypeOK
<1>2. seen \in [Cameras -> [StopActions -> 0 .. Keep + 1]] /\ Debounce \in Nat \ {0}
  BY DEF LatchInv, PipeInv, PipelineAssumption
<1>3. ASSUME NEW c \in Cameras, NEW a \in StopActions
      PROVE  (Known(c, a)' <=> Known(c, a)) /\ Fresh(c, a)'
  <2>1. a \in Actions
    BY DEF StopActions
  <2>2. CASE c = data.camera /\ a \in Targets(data)
    <3>1. holds'[a][c] = 0
      BY <1>1, <2>1, <2>2
    <3>2. Known(c, a)' /\ Fresh(c, a)'
      BY <1>2, <3>1 DEF Known, Fresh, NoHold
    <3>3. PICK s \in Signals : data = CameraData(c, s)
      BY <1>1, <2>2, DataIsSignal
    <3>4. Queued(c, s) /\ a \in Targets(DataOf(s))
      BY <1>1, <2>2, <3>3, CameraDataTargets DEF Queued
    <3> QED
      BY <3>2, <3>4 DEF Known, OnItsWay
  <2>3. CASE ~(c = data.camera /\ a \in Targets(data))
    <3>1. holds'[a][c] = holds[a][c]
      BY <1>1, <2>1, <2>3
    <3>2. ASSUME NEW s \in Signals, a \in Targets(DataOf(s))
          PROVE  Queued(c, s)' <=> Queued(c, s)
      <4>1. data # CameraData(c, s)
        BY <2>3, <3>2, CameraDataTargets
      <4>2. ASSUME Queued(c, s)
            PROVE  Queued(c, s)'
        <5>1. PICK i \in 1 .. Len(queue) : queue[i] = CameraData(c, s)
          BY <4>2 DEF Queued
        <5>2. i # 1
          BY <1>1, <4>1, <5>1
        <5>3. i - 1 \in 1 .. Len(queue') /\ queue'[i - 1] = queue[i]
          BY <1>1, <5>1, <5>2
        <5> QED
          BY <5>1, <5>3 DEF Queued, CameraData
      <4>3. ASSUME Queued(c, s)'
            PROVE  Queued(c, s)
        <5>1. PICK i \in 1 .. Len(queue') : queue'[i] = CameraData(c, s)
          BY <4>3 DEF Queued, CameraData
        <5>2. i + 1 \in 1 .. Len(queue) /\ queue[i + 1] = queue'[i]
          BY <1>1, <5>1
        <5> QED
          BY <5>1, <5>2 DEF Queued
      <4> QED
        BY <4>2, <4>3
    <3>3. OnItsWay(c, a)' <=> OnItsWay(c, a)
      BY <3>2 DEF OnItsWay
    <3> QED
      BY <3>1, <3>3 DEF Known, Fresh, LatchInv
  <2> QED
    BY <2>2, <2>3
<1>4. on' = on
  BY <1>3 DEF on
<1>5. seen' \in [Cameras -> [StopActions -> 0 .. Keep + 1]]
  BY <1>2
<1> QED
  BY <1>3, <1>4, <1>5 DEF LatchInv

\* A hold that is purged is older than HoldTime, so its last detection is older than Keep.
LEMMA LatchRelease ==
  ASSUME LatchInv, PipeInv', TodoOK', TickBegin, UNCHANGED <<todo, seen>>
  PROVE  LatchInv' /\ Latch!Release
<1>1. /\ queue' = queue /\ holds' = Purged
      /\ holds \in [Actions -> [Cameras -> Ages]]
  BY DEF TickBegin, TickWith, LatchInv, PipeInv, TypeOK
<1>2. /\ seen \in [Cameras -> [StopActions -> 0 .. Keep + 1]]
      /\ Debounce \in Nat \ {0} /\ HoldTime \in Nat /\ Keep = HoldTime - Debounce
      /\ Debounce <= HoldTime
  BY ConstantsAssumption DEF LatchInv, PipeInv, PipelineAssumption, ConstantsAssumption, Keep
<1>3. ASSUME NEW c \in Cameras, NEW a \in StopActions
      PROVE  /\ OnItsWay(c, a)' <=> OnItsWay(c, a)
             /\ Known(c, a)' => Known(c, a)
             /\ Known(c, a) /\ ~Known(c, a)' => seen[c][a] > Keep
             /\ Fresh(c, a)'
  <2>1. a \in Actions /\ holds[a][c] \in Ages /\ seen[c][a] \in 0 .. Keep + 1
    BY <1>1, <1>2 DEF StopActions
  <2>2. OnItsWay(c, a)' <=> OnItsWay(c, a)
    BY <1>1 DEF OnItsWay, Queued, CameraData
  <2>3. holds'[a][c] = IF holds[a][c] > HoldTime THEN NoHold ELSE holds[a][c]
    BY <1>1, <2>1 DEF Purged
  <2>4. CASE holds[a][c] > HoldTime /\ ~OnItsWay(c, a)
    <3>1. seen[c][a] > Keep
      BY <1>2, <2>1, <2>4 DEF LatchInv, Fresh, Ages, NoHold
    <3> QED
      BY <2>2, <2>3, <2>4, <3>1, <1>2 DEF Known, Fresh, NoHold
  <2>5. CASE ~(holds[a][c] > HoldTime) \/ OnItsWay(c, a)
    BY <2>2, <2>3, <2>5 DEF Known, Fresh, LatchInv
  <2> QED
    BY <2>4, <2>5
<1>4. Latch!Release
  <2> DEFINE R == on \ on'
  <2>1. on' \subseteq on
    BY <1>3 DEF on
  <2>2. \A ca \in R : seen[ca[1]][ca[2]] > Keep
    BY <1>3 DEF on
  <2>3. R \in SUBSET on /\ on' = on \ R
    BY <2>1
  <2> QED
    BY <2>2, <2>3 DEF Latch!Release, on
<1>5. seen' \in [Cameras -> [StopActions -> 0 .. Keep + 1]]
  BY <1>2
<1> QED
  BY <1>3, <1>4, <1>5 DEF LatchInv

\* Holds and detections age together.
LEMMA LatchTick ==
  ASSUME LatchInv, PipeInv', TodoOK', AlarmClock
  PROVE  LatchInv' /\ Latch!Tick
<1>1. /\ UNCHANGED <<queue, todo>> /\ holds \in [Actions -> [Cameras -> Ages]]
      /\ holds' = [a \in Actions |-> [c \in Cameras |->
                     IF holds[a][c] = NoHold THEN NoHold ELSE Older(holds[a][c], HoldTime)]]
      /\ seen' = [c \in Cameras |-> [a \in StopActions |-> Older(seen[c][a], Keep)]]
  BY DEF AlarmClock, PipeClock, Clock, LatchInv, PipeInv, TypeOK
<1>2. /\ seen \in [Cameras -> [StopActions -> 0 .. Keep + 1]]
      /\ Debounce \in Nat \ {0} /\ HoldTime \in Nat /\ Keep \in Nat
  BY ConstantsAssumption DEF LatchInv, PipeInv, PipelineAssumption, ConstantsAssumption, Keep
<1>3. ASSUME NEW c \in Cameras, NEW a \in StopActions
      PROVE  /\ Known(c, a)' <=> Known(c, a)
             /\ Fresh(c, a)'
             /\ seen'[c][a] \in 0 .. Keep + 1
             /\ seen'[c][a] = IF seen[c][a] > Keep THEN seen[c][a] ELSE seen[c][a] + 1
  <2>1. a \in Actions /\ holds[a][c] \in Ages /\ seen[c][a] \in 0 .. Keep + 1
    BY <1>1, <1>2 DEF StopActions
  <2>2. OnItsWay(c, a)' <=> OnItsWay(c, a)
    BY <1>1 DEF OnItsWay, Queued, CameraData
  <2>3. /\ holds'[a][c] = IF holds[a][c] = NoHold THEN NoHold ELSE Older(holds[a][c], HoldTime)
        /\ seen'[c][a] = Older(seen[c][a], Keep)
    BY <1>1, <2>1
  <2>4. holds'[a][c] # NoHold <=> holds[a][c] # NoHold
    BY <1>2, <2>1, <2>3 DEF Older, Ages, NoHold
  <2>5. holds[a][c] # NoHold => holds'[a][c] <= holds[a][c] + 1
    BY <1>2, <2>1, <2>3 DEF Older, Ages, NoHold
  <2>6. /\ seen'[c][a] \in 0 .. Keep + 1
        /\ seen'[c][a] = IF seen[c][a] > Keep THEN seen[c][a] ELSE seen[c][a] + 1
    BY <1>2, <2>1, <2>3 DEF Older
  <2>7. holds'[a][c] \in Int
    BY <1>2, <2>1, <2>3 DEF Older, Ages, NoHold
  <2>8. Fresh(c, a)'
    BY <1>2, <2>1, <2>2, <2>4, <2>5, <2>6, <2>7 DEF LatchInv, Fresh, Ages, NoHold
  <2> QED
    BY <2>2, <2>4, <2>6, <2>8 DEF Known
<1>4. on' = on
  BY <1>3 DEF on
<1>5. seen' \in [Cameras -> [StopActions -> 0 .. Keep + 1]]
  BY <1>1, <1>3
<1>6. seen' = [c \in Cameras |-> [a \in StopActions |->
                 IF seen[c][a] > Keep THEN seen[c][a] ELSE seen[c][a] + 1]]
  BY <1>1, <1>3
<1> QED
  BY <1>3, <1>4, <1>5, <1>6 DEF LatchInv, Latch!Tick, on

\* What a frame raises is reported in this call, or its report is known already.
LEMMA LatchDetect ==
  ASSUME LatchInv, PipeInv', TodoOK', NEW d \in Cameras, NEW S \in Raised, DetectAndSend(d, S)
  PROVE  LatchInv' /\ Latch!Detect(d, S \cap StopActions)
<1>1. /\ UNCHANGED <<queue, holds, sentAge>> /\ todo[d] = {}
      /\ todo \in [Cameras -> SUBSET Signals]
      /\ todo' = [todo EXCEPT ![d] = {s \in Merge(S) : sentAge[d][s] >= Debounce}]
      /\ seen' = [seen EXCEPT ![d] = [a \in StopActions |-> IF a \in S THEN 0 ELSE seen[d][a]]]
  BY DEF DetectAndSend, BeginSend, vars, LatchInv, TodoOK
<1>2. /\ seen \in [Cameras -> [StopActions -> 0 .. Keep + 1]]
      /\ Debounce \in Nat \ {0} /\ Keep \in Nat
      /\ S \in SUBSET Actions /\ SuppressedIsKnown
      /\ sentAge \in [Cameras -> [Signals -> 0 .. Debounce]]
  BY ConstantsAssumption
     DEF LatchInv, PipeInv, PipelineAssumption, ConstantsAssumption, Keep, AgesOK
<1>3. Merge(S) \subseteq Signals
  BY <1>2, MergeTyped
<1>4. ASSUME NEW c \in Cameras, NEW s \in Signals
      PROVE  Queued(c, s)' <=> Queued(c, s)
  BY <1>1 DEF Queued, CameraData
<1>5. ASSUME NEW c \in Cameras, NEW a \in StopActions, ~(c = d /\ a \in S)
      PROVE  (OnItsWay(c, a)' <=> OnItsWay(c, a)) /\ seen'[c][a] = seen[c][a]
  <2>1. seen'[c][a] = seen[c][a]
    BY <1>1, <1>2, <1>5
  <2>2. ASSUME NEW s \in Signals, a \in Targets(DataOf(s))
        PROVE  s \in todo'[c] <=> s \in todo[c]
    <3>1. CASE c # d
      BY <1>1, <3>1
    <3>2. CASE c = d
      <4>1. s \notin Merge(S)
        BY <1>2, <1>5, <2>2, <3>2, MergeKeepsStops
      <4> QED
        BY <1>1, <3>2, <4>1
    <3> QED
      BY <3>1, <3>2
  <2>3. OnItsWay(c, a)' <=> OnItsWay(c, a)
    BY <1>4, <2>2 DEF OnItsWay
  <2> QED
    BY <2>1, <2>3
<1>6. ASSUME NEW a \in StopActions, a \in S
      PROVE  Known(d, a)' /\ Fresh(d, a)'
  <2>1. PICK s \in Merge(S) : a \in Targets(DataOf(s))
    BY <1>2, <1>6, MergeKeepsStops
  <2>2. s \in Signals /\ sentAge[d][s] \in 0 .. Debounce /\ a \in Actions
    BY <1>2, <1>3 DEF StopActions
  <2>3. seen'[d][a] = 0
    BY <1>1, <1>2, <1>6
  <2>4. CASE sentAge[d][s] >= Debounce
    <3>1. s \in todo'[d]
      BY <1>1, <2>4
    <3> QED
      BY <2>1, <2>2, <3>1 DEF Known, Fresh, OnItsWay
  <2>5. CASE Queued(d, s)
    BY <1>4, <2>1, <2>2, <2>5 DEF Known, Fresh, OnItsWay
  <2>6. CASE sentAge[d][s] < Debounce /\ HeldSince(d, s)
    <3>1. holds'[a][d] # NoHold /\ holds'[a][d] <= sentAge[d][s] /\ holds[a][d] \in Ages
      BY <1>1, <2>1, <2>2, <2>6 DEF HeldSince, LatchInv, PipeInv, TypeOK
    <3>2. holds'[a][d] <= seen'[d][a] + Debounce - 1
      BY <1>1, <1>2, <2>2, <2>3, <2>6, <3>1 DEF Ages, NoHold
    <3> QED
      BY <3>1, <3>2 DEF Known, Fresh
  <2> QED
    BY <1>2, <2>2, <2>4, <2>5, <2>6 DEF SuppressedIsKnown
<1>7. ASSUME NEW c \in Cameras, NEW a \in StopActions
      PROVE  /\ Known(c, a)' <=> (Known(c, a) \/ (c = d /\ a \in S))
             /\ Fresh(c, a)'
             /\ seen'[c][a] \in 0 .. Keep + 1
  <2>1. CASE c = d /\ a \in S
    BY <1>1, <1>2, <1>6, <2>1
  <2>2. CASE ~(c = d /\ a \in S)
    BY <1>1, <1>2, <1>5, <2>2 DEF Known, Fresh, LatchInv
  <2> QED
    BY <2>1, <2>2
<1>8. on' = on \union ({d} \X (S \cap StopActions))
  BY <1>7 DEF on
<1>9. seen' \in [Cameras -> [StopActions -> 0 .. Keep + 1]]
  BY <1>1, <1>2
<1>10. seen' = [seen EXCEPT ![d] = [a \in StopActions |->
                                      IF a \in S \cap StopActions THEN 0 ELSE seen[d][a]]]
  <2>1. [a \in StopActions |-> IF a \in S THEN 0 ELSE seen[d][a]]
          = [a \in StopActions |-> IF a \in S \cap StopActions THEN 0 ELSE seen[d][a]]
    OBVIOUS
  <2> QED
    BY <1>1, <2>1
<1> QED
  BY <1>7, <1>8, <1>9, <1>10 DEF LatchInv, Latch!Detect, on

\* Every step of the pipeline is one of the latch or leaves it alone.
LEMMA LatchNext ==
  ASSUME LatchInv, [AlarmNext]_alarmVars
  PROVE  LatchInv' /\ [Latch!Next]_<<on, seen>>
<1>1. [PipeNext]_pipeVars
  BY AlarmStep
<1>2. PipeInv' /\ TodoOK'
  BY <1>1, PipeInvNext, TodoNext DEF LatchInv, PipeInv
<1>3. ASSUME NEW c \in Cameras, NEW S \in Raised, DetectAndSend(c, S)
      PROVE  LatchInv' /\ [Latch!Next]_<<on, seen>>
  <2>1. LatchInv' /\ Latch!Detect(c, S \cap StopActions)
    BY <1>2, <1>3, LatchDetect
  <2> QED
    BY <2>1 DEF Latch!Next
<1>4. CASE AlarmClock
  BY <1>2, <1>4, LatchTick DEF Latch!Next
<1>5. ASSUME NEW c \in Cameras, NEW s \in Signals, SendData(c, s) \/ DropSlow(c, s), UNCHANGED seen
      PROVE  LatchInv' /\ [Latch!Next]_<<on, seen>>
  BY <1>2, <1>5, LatchSend
<1>6. CASE TickBegin /\ UNCHANGED <<sendVars, seen>>
  BY <1>2, <1>6, LatchRelease DEF Latch!Next, sendVars
<1>7. CASE Receive /\ UNCHANGED <<sendVars, seen>>
  BY <1>2, <1>7, LatchReceive DEF sendVars
<1>8. CASE (RunStep \/ StopBranch) /\ UNCHANGED <<sendVars, seen>>
  <2>1. UNCHANGED <<todo, queue, holds, seen>>
    BY <1>8 DEF RunStep, ConnectPLC, RunCheck, RunWrite, ResetDone, StartupDone,
       TickDone, ReconnectCheck, Close, StopBranch, sendVars
  <2> QED
    BY <1>2, <2>1, LatchQuiet
<1>9. CASE (HeartbeatLoop \/ Stop \/ LinkDrop \/ LinkRestore \/ PowerCycle)
           /\ UNCHANGED <<sendVars, seen>>
  <2>1. UNCHANGED <<todo, queue, holds, seen>>
    BY <1>9 DEF HeartbeatLoop, HbLoop, HbCheck, HbWrite, HbOther, Stop, LinkDrop, LinkRestore,
       PowerCycle, EnvOther, sendVars
  <2> QED
    BY <1>2, <2>1, LatchQuiet
<1>10. CASE UNCHANGED alarmVars
  BY <1>2, <1>10, LatchQuiet DEF alarmVars, pipeVars, vars
<1> QED
  BY <1>3, <1>4, <1>5, <1>6, <1>7, <1>8, <1>9, <1>10 DEF AlarmNext, Run

\* A stop that a camera keeps detecting is held, or on its way to the controller, until
\* HoldTime - Debounce after its last detection, and nothing but a detection raises
\* one, for any streams, queue, times, signals and interleaving.
THEOREM PipelineImplementsLatch ==
  ASSUME PipelineAssumption
  PROVE  AlarmSpec => ImplementsLatch
<1>1. AlarmInit => LatchInv /\ Latch!Init
  BY LatchInit
<1>2. LatchInv /\ [AlarmNext]_alarmVars => LatchInv' /\ [Latch!Next]_<<on, seen>>
  BY LatchNext
<1> QED
  BY <1>1, <1>2, PTL DEF AlarmSpec, ImplementsLatch, Latch!Spec, on
=============================================================================
