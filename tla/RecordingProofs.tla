-------------------------- MODULE RecordingProofs --------------------------
(* For any number of viewers: the lock discipline of the recording status,  *)
(* what it does to a stream once recording is enabled, and who configures   *)
(* the path of a stream in MediaMTX.                                        *)
EXTENDS MCRecording, TLAPS

\* Whoever is inside StartRecording or StopRecording holds Mu, and nothing has ever
\* been recorded.
Discipline ==
  /\ \A t \in Threads : pc[t] = "nested" => mu = t
  /\ ~isRecording /\ ~record

IInv == TypeOK /\ Discipline

\* A goroutine inside its own section waits for the Mu it holds: no Lock of a nested one.
LEMMA NestedNeverLocks ==
  ASSUME IInv, NEW t \in Threads, Lock(t)
  PROVE  pc[t] = "lock"
<1>1. NoOne \notin Threads
  BY RecordingAssumption DEF RecordingAssumption, Threads, Roles
<1> QED
  BY <1>1 DEF Lock, IInv, Discipline

LEMMA InitInv == Init => IInv
<1> SUFFICES ASSUME Init
             PROVE  IInv
  OBVIOUS
<1>1. TypeOK
  BY DEF Init, TypeOK
<1>2. Discipline
  BY DEF Init, Discipline
<1> QED
  BY <1>1, <1>2 DEF IInv

\* A goroutine that does not hold Mu moves to a place outside the two calls.
LEMMA MovePreserves ==
  ASSUME IInv, NEW t \in Threads, pc[t] # "nested",
         NEW place \in {"run", "lock", "join", "end"},
         Goto(t, place), gone' \in [Viewers -> BOOLEAN],
         UNCHANGED <<mu, isRecording, record>>
  PROVE  IInv'
<1>1. pc' \in [Threads -> {"run", "lock", "nested", "join", "end"}]
  BY DEF IInv, TypeOK, Goto
<1>2. \A u \in Threads : pc'[u] = "nested" <=> pc[u] = "nested"
  BY DEF IInv, TypeOK, Goto
<1>3. TypeOK'
  BY <1>1, <1>2 DEF IInv, TypeOK
<1>4. Discipline'
  BY <1>2 DEF IInv, Discipline
<1> QED
  BY <1>3, <1>4 DEF IInv

\* The section of a goroutine: a detection may enter StartRecording, and nobody stops
\* a recording, since there is none.
LEMMA LockPreserves ==
  ASSUME IInv, NEW t \in Threads, Lock(t)
  PROVE  IInv'
<1>1. pc[t] = "lock" /\ mu = NoOne /\ UNCHANGED gone /\ Section(t)
  BY NestedNeverLocks DEF Lock
<1>2. t[2] \in Roles
  BY DEF Threads
<1>3. AfterSection(t[2]) \in {"run", "join", "end"}
  BY <1>2 DEF AfterSection, Roles
<1>4. CASE t[2] = "infer"
  <2>1. DetectSection(t)
    BY <1>1, <1>4 DEF Section
  <2>2. CASE EnableRecording
    <3>1. Nested(t) /\ UNCHANGED <<isRecording, record>>
      BY <2>1, <2>2 DEF DetectSection, IInv, Discipline
    <3>2. pc' = [pc EXCEPT ![t] = "nested"] /\ mu' = t
      BY <3>1 DEF Nested, Goto
    <3>3. TypeOK'
      BY <1>1, <3>1, <3>2 DEF IInv, TypeOK
    <3>4. \A u \in Threads : pc[u] # "nested"
      BY <1>1, RecordingAssumption
         DEF IInv, Discipline, RecordingAssumption, Threads, Roles
    <3>5. Discipline'
      BY <3>1, <3>2, <3>4 DEF IInv, TypeOK, Discipline
    <3> QED
      BY <3>3, <3>5 DEF IInv
  <2>3. CASE ~EnableRecording
    <3>1. Goto(t, "run") /\ UNCHANGED <<mu, isRecording, record>>
      BY <2>1, <2>3 DEF DetectSection, Unlocked
    <3> QED
      BY <1>1, <3>1, MovePreserves DEF IInv, TypeOK
  <2> QED
    BY <2>2, <2>3
<1>5. CASE t[2] # "infer"
  <2>1. StopSection(t)
    BY <1>1, <1>5 DEF Section
  <2>2. PICK patched \in BOOLEAN, due \in BOOLEAN :
          /\ isRecording' = (isRecording /\ t[2] = "check")
          /\ Unlocked(t, AfterSection(t[2])) /\ UNCHANGED record
    BY <2>1 DEF StopSection, IInv, Discipline
  <2>3. ~isRecording' /\ isRecording \in BOOLEAN /\ isRecording' \in BOOLEAN
    BY <2>2 DEF IInv, TypeOK, Discipline
  <2>4. isRecording' = isRecording
    BY <2>3 DEF IInv, Discipline
  <2>5. Goto(t, AfterSection(t[2])) /\ UNCHANGED <<mu, record>>
    BY <2>2 DEF Unlocked
  <2> QED
    BY <1>1, <1>3, <2>4, <2>5, MovePreserves DEF IInv, TypeOK
<1> QED
  BY <1>4, <1>5

LEMMA StepInv == IInv /\ [Next]_vars => IInv'
<1> SUFFICES ASSUME IInv, [Next]_vars
             PROVE  IInv'
  OBVIOUS
<1>1. ASSUME NEW t \in Threads, Lock(t)
      PROVE  IInv'
  BY <1>1, LockPreserves
<1>2. ASSUME NEW v \in Viewers,
             Infer(v) \/ Disconnect(v) \/ ReadCancelled(v) \/ Return(v) \/ Check(v)
      PROVE  IInv'
  <2>1. PICK r \in Roles, place \in {"run", "lock", "join", "end"} :
          pc[<<v, r>>] # "nested" /\ Goto(<<v, r>>, place)
    BY <1>2 DEF Infer, Disconnect, ReadCancelled, Return, Check, Roles
  <2>2. gone' \in [Viewers -> BOOLEAN] /\ UNCHANGED <<mu, isRecording, record>>
    BY <1>2 DEF IInv, TypeOK, Infer, Disconnect, ReadCancelled, Return, Check
  <2>3. <<v, r>> \in Threads
    BY DEF Threads
  <2> QED
    BY <2>1, <2>2, <2>3, MovePreserves
<1>3. CASE UNCHANGED vars
  BY <1>3 DEF vars, IInv, TypeOK, Discipline
<1> QED
  BY <1>1, <1>2, <1>3 DEF Next

\* Types, the lock discipline, and that MediaMTX is never told to record: whoever could
\* tell it waits for the mutex it holds.
THEOREM NothingIsRecorded == Spec => [](TypeOK /\ Discipline)
<1>1. Spec => []IInv
  BY InitInv, StepInv, PTL DEF Spec
<1> QED
  BY <1>1, PTL DEF IInv

\* What never happens to a stream whose goroutine is inside StartRecording.
WedgedStep ==
  \A t \in Threads : pc[t] = "nested" =>
    /\ pc'[t] = "nested"
    /\ \A v \in Viewers : Waiting(v) => Waiting(v)'

LEMMA StepWedged == IInv /\ [Next]_vars => [WedgedStep]_vars
<1> SUFFICES ASSUME IInv, Next, NEW t \in Threads, pc[t] = "nested"
             PROVE  /\ pc'[t] = "nested"
                    /\ \A v \in Viewers : Waiting(v) => Waiting(v)'
  BY DEF WedgedStep
<1>1. mu = t /\ mu # NoOne
  BY RecordingAssumption DEF IInv, Discipline, RecordingAssumption, Threads, Roles
<1>2. PICK w \in Viewers :
        Infer(w) \/ Disconnect(w) \/ ReadCancelled(w) \/ Return(w) \/ Check(w)
  BY <1>1 DEF Next, Lock
<1>3. pc'[t] = "nested"
  BY <1>2 DEF IInv, TypeOK, Infer, Disconnect, ReadCancelled, Return, Check, Goto
<1>4. ASSUME NEW v \in Viewers, Waiting(v)
      PROVE  Waiting(v)'
  <2>1. <<v, "read">> \in Threads
    BY DEF Threads, Roles
  <2> QED
    BY <1>2, <1>4, <2>1 DEF Waiting, IInv, TypeOK, Infer, Disconnect,
       ReadCancelled, Return, Check, Goto
<1> QED
  BY <1>3, <1>4

\* A detection enters StartRecording, whatever EnableRecording is.
Enters(t) ==
  /\ mu = NoOne /\ pc[t] = "lock"
  /\ Nested(t) /\ UNCHANGED <<isRecording, record, gone>>

LEMMA EnterPreserves ==
  ASSUME IInv, NEW t \in Threads, Enters(t)
  PROVE  IInv' /\ WedgedStep
<1>1. pc' = [pc EXCEPT ![t] = "nested"] /\ mu' = t
  BY DEF Enters, Nested, Goto
<1>2. TypeOK'
  BY <1>1 DEF Enters, IInv, TypeOK
<1>3. \A u \in Threads : pc[u] # "nested"
  BY RecordingAssumption DEF Enters, IInv, Discipline, RecordingAssumption, Threads, Roles
<1>4. Discipline'
  BY <1>1, <1>3 DEF Enters, IInv, TypeOK, Discipline
<1> QED
  BY <1>2, <1>3, <1>4 DEF IInv, WedgedStep

\* The part of the run with recording differs in what a detection does.
LEMMA OnBegins == On!Init => IInv
BY DEF On!Init, On!Threads, On!Roles, IInv, TypeOK, Discipline, Threads, Roles

LEMMA OnLock ==
  ASSUME NEW t \in Threads, On!Lock(t)
  PROVE  Lock(t) \/ Enters(t)
<1>1. CASE pc[t] = "lock" /\ t[2] = "infer"
  BY <1>1 DEF On!Lock, On!Section, On!DetectSection, On!Nested, On!Unlocked, On!Goto,
     Lock, Section, DetectSection, Nested, Unlocked, Goto, Enters
<1>2. CASE pc[t] = "lock" /\ t[2] # "infer"
  BY <1>2 DEF On!Lock, On!Section, On!StopSection, On!Nested, On!Unlocked, On!Goto,
     On!AfterSection, Lock, Section, StopSection, Nested, Unlocked, Goto, AfterSection
<1>3. CASE pc[t] # "lock"
  BY <1>3 DEF On!Lock, On!Record, On!StopRecord, On!Unlocked, On!Goto, On!AfterSection,
     Lock, Record, StopRecord, Unlocked, Goto, AfterSection
<1> QED
  BY <1>1, <1>2, <1>3

LEMMA OnStep == IInv /\ On!Next => IInv' /\ WedgedStep
<1> SUFFICES ASSUME IInv, On!Next
             PROVE  IInv' /\ WedgedStep
  OBVIOUS
<1>1. ASSUME NEW v \in Viewers,
             \/ On!Infer(v) \/ On!Disconnect(v) \/ On!ReadCancelled(v)
             \/ On!Return(v) \/ On!Check(v)
      PROVE  Next
  BY <1>1 DEF On!Infer, On!Disconnect, On!ReadCancelled, On!Return, On!Check, On!Goto,
     Next, Infer, Disconnect, ReadCancelled, Return, Check, Goto
<1>2. Next \/ \E t \in Threads : Enters(t)
  BY <1>1, OnLock DEF On!Next, On!Threads, On!Roles, Next, Threads, Roles
<1>3. CASE Next
  <2>1. WedgedStep \/ UNCHANGED vars
    BY <1>3, StepWedged
  <2>2. UNCHANGED vars => WedgedStep
    BY DEF vars, WedgedStep, Waiting
  <2> QED
    BY <1>3, <2>1, <2>2, StepInv
<1> QED
  BY <1>2, <1>3, EnterPreserves

\* The first detection wedges the stream for good: its goroutine stays inside
\* StartRecording, and every reader that has not passed its own section stays in front
\* of it, so its handler never returns.  The run combines the two values of
\* EnableRecording.
THEOREM WedgedForGoodAlways == (Spec \/ RecordingSpec) => WedgedForGood
<1>1. Spec => WedgedForGood
  BY InitInv, StepInv, StepWedged, PTL DEF Spec, WedgedForGood, WedgedStep
<1>2. RecordingInit => IInv
  BY InitInv, OnBegins DEF RecordingInit
<1>3. IInv /\ [RecordingNext]_allVars => IInv' /\ [WedgedStep]_vars
  BY StepInv, StepWedged, OnStep DEF RecordingNext, Off, In, allVars, mediaPath
<1>4. RecordingSpec => WedgedForGood
  BY <1>2, <1>3, PTL DEF RecordingSpec, WedgedForGood, WedgedStep
<1> QED
  BY <1>1, <1>4, PTL

(***************************************************************************)
(* The path in MediaMTX.                                                   *)
(***************************************************************************)
\* Who works on the path has marked it, and works alone.
MarkHeld == Path!OneInitialiser /\ (Path!AtWork # {} => marked)

PathInv == Path!TypeOK /\ MarkHeld /\ Path!MarkExplained

LEMMA ZeroAttempts == 0 \in 0 .. RetryMaxAttempts - 1
BY PathAssumption DEF Path!MediaPathAssumption

LEMMA PathInit == Path!Init => PathInv
<1> SUFFICES ASSUME Path!Init
             PROVE  PathInv
  OBVIOUS
<1>1. Path!TypeOK
  BY ZeroAttempts DEF Path!Init, Path!TypeOK
<1>2. MarkHeld /\ Path!MarkExplained
  BY DEF Path!Init, MarkHeld, Path!OneInitialiser, Path!AtWork, Path!MarkExplained
<1> QED
  BY <1>1, <1>2 DEF PathInv

\* A viewer returns from EnsureMediaMTXPath.
LEMMA ReturnsKeeps ==
  ASSUME PathInv, NEW v \in PathViewers, NEW value \in {"nil", "error"},
         Path!Returns(v, value)
  PROVE  /\ at' \in [PathViewers -> {"off", "dir", "patch", "serve"}]
         /\ attempts' \in [PathViewers -> 0 .. RetryMaxAttempts - 1]
         /\ result' \in [PathViewers -> {"nil", "error", "none"}]
         /\ \A w \in PathViewers : at'[w] = "serve" <=> result'[w] # "none"
         /\ Path!AtWork' = Path!AtWork \ {v}
BY ZeroAttempts DEF PathInv, Path!TypeOK, Path!Returns, Path!AtWork

LEMMA EnsurePreserves ==
  ASSUME PathInv, NEW v \in PathViewers, Path!EnsureMediaMTXPath(v)
  PROVE  PathInv'
<1>1. CASE Path!LoadOrStore(v)
  <2> USE DEF Path!LoadOrStore
  <2>1. CASE marked
    <3>1. v \notin Path!AtWork
      BY <1>1 DEF Path!AtWork
    <3>2. Path!AtWork' = Path!AtWork
      BY <1>1, <2>1, <3>1, ReturnsKeeps
    <3> QED
      BY <1>1, <2>1, <3>2, ReturnsKeeps
         DEF PathInv, Path!TypeOK, MarkHeld, Path!OneInitialiser, Path!MarkExplained
  <2>2. CASE ~marked
    <3>1. Path!AtWork = {}
      BY <2>2 DEF PathInv, MarkHeld, Path!OneInitialiser
    <3>2. Path!TypeOK'
      BY <1>1, <2>2 DEF PathInv, Path!TypeOK
    <3>3. Path!AtWork' = {v}
      BY <1>1, <2>2, <3>1 DEF PathInv, Path!TypeOK, Path!AtWork
    <3> QED
      BY <1>1, <3>2, <3>3 DEF PathInv, MarkHeld, Path!OneInitialiser, Path!MarkExplained
  <2> QED
    BY <2>1, <2>2
<1>2. CASE Path!MkdirAll(v)
  <2> USE DEF Path!MkdirAll
  <2>1. v \in Path!AtWork /\ Path!AtWork = {v} /\ marked
    BY <1>2 DEF PathInv, MarkHeld, Path!OneInitialiser, Path!AtWork
  <2>2. CASE at' = [at EXCEPT ![v] = "patch"] /\ UNCHANGED <<marked, attempts, result>>
    <3>1. Path!TypeOK' /\ Path!AtWork' = Path!AtWork
      BY <1>2, <2>2 DEF PathInv, Path!TypeOK, Path!AtWork
    <3> QED
      BY <1>2, <2>1, <2>2, <3>1 DEF PathInv, MarkHeld, Path!OneInitialiser, Path!MarkExplained
  <2>3. CASE marked' = FALSE /\ Path!Returns(v, "error")
    <3>1. Path!AtWork' = {}
      BY <2>1, <2>3, ReturnsKeeps
    <3> QED
      BY <1>2, <2>3, <3>1, ReturnsKeeps
         DEF PathInv, Path!TypeOK, MarkHeld, Path!OneInitialiser, Path!MarkExplained
  <2> QED
    BY <1>2, <2>2, <2>3
<1>3. CASE Path!PatchSucceeds(v)
  <2>1. Path!AtWork = {v} /\ Path!AtWork' = {} /\ path'
    BY <1>3, ReturnsKeeps DEF PathInv, MarkHeld, Path!OneInitialiser, Path!AtWork, Path!PatchSucceeds
  <2> QED
    BY <1>3, <2>1, ReturnsKeeps
       DEF PathInv, Path!TypeOK, MarkHeld, Path!OneInitialiser, Path!MarkExplained, Path!PatchSucceeds
<1>4. CASE Path!PatchFails(v)
  <2> USE DEF Path!PatchFails
  <2>1. Path!AtWork = {v} /\ marked
    BY <1>4 DEF PathInv, MarkHeld, Path!OneInitialiser, Path!AtWork
  <2>2. path' \in BOOLEAN
    BY <1>4 DEF PathInv, Path!TypeOK
  <2>3. CASE attempts[v] + 1 = RetryMaxAttempts
    <3>1. Path!AtWork' = {} /\ spent'
      BY <1>4, <2>1, <2>3, ReturnsKeeps
    <3> QED
      BY <1>4, <2>2, <2>3, <3>1, ReturnsKeeps
         DEF PathInv, Path!TypeOK, MarkHeld, Path!OneInitialiser, Path!MarkExplained
  <2>4. CASE attempts[v] + 1 # RetryMaxAttempts
    <3>1. attempts' \in [PathViewers -> 0 .. RetryMaxAttempts - 1]
      BY <1>4, <2>4, PathAssumption DEF PathInv, Path!TypeOK, Path!MediaPathAssumption
    <3>2. Path!TypeOK' /\ Path!AtWork' = Path!AtWork
      BY <1>4, <2>2, <2>4, <3>1 DEF PathInv, Path!TypeOK, Path!AtWork
    <3> QED
      BY <1>4, <2>1, <2>4, <3>2 DEF PathInv, MarkHeld, Path!OneInitialiser, Path!MarkExplained
  <2> QED
    BY <2>3, <2>4
<1> QED
  BY <1>1, <1>2, <1>3, <1>4 DEF Path!EnsureMediaMTXPath

LEMMA PathStep == PathInv /\ [Path!Next]_Path!vars => PathInv'
<1> SUFFICES ASSUME PathInv, [Path!Next]_Path!vars
             PROVE  PathInv'
  OBVIOUS
<1>1. ASSUME NEW v \in PathViewers, Path!Leave(v)
      PROVE  PathInv'
  <2>1. Path!TypeOK' /\ Path!AtWork' = Path!AtWork
    BY <1>1 DEF PathInv, Path!TypeOK, Path!AtWork, Path!Leave
  <2> QED
    BY <1>1, <2>1 DEF PathInv, MarkHeld, Path!OneInitialiser, Path!MarkExplained, Path!Leave
<1>2. CASE Path!MediaMtxUp \/ Path!MediaMtxEnds \/ UNCHANGED Path!vars
  <2>1. Path!TypeOK' /\ Path!AtWork' = Path!AtWork
    BY <1>2 DEF PathInv, Path!TypeOK, Path!AtWork, Path!MediaMtxUp, Path!MediaMtxEnds, Path!vars
  <2> QED
    BY <1>2, <2>1 DEF PathInv, MarkHeld, Path!OneInitialiser, Path!MarkExplained, Path!MediaMtxUp,
       Path!MediaMtxEnds, Path!vars
<1>3. CASE Path!Restart
  <2>1. Path!TypeOK'
    BY <1>3, ZeroAttempts DEF Path!Restart, Path!Fresh, Path!TypeOK
  <2> QED
    BY <1>3, <2>1 DEF PathInv, MarkHeld, Path!OneInitialiser, Path!AtWork, Path!MarkExplained, Path!Restart, Path!Fresh
<1> QED
  BY <1>1, <1>2, <1>3, EnsurePreserves DEF Path!Next

\* One viewer at a time configures the path of a stream, and its mark is taken back when
\* it could not begin: a mark that nobody works on stands for a path, or for attempts
\* that were all made (videoLinkage.go, EnsureMediaMTXPath).
THEOREM MarkAlwaysExplained == (Path!Spec \/ RecordingSpec) => []MarkExplained
<1>1. RecordingInit => Path!Init
  BY DEF RecordingInit
<1>2. [RecordingNext]_allVars => [Path!Next]_Path!vars
  BY DEF RecordingNext, Off, In, allVars, mediaPath, Path!vars
<1>3. PathInv => MarkExplained
  BY DEF PathInv, MarkHeld, Path!OneInitialiser, MarkExplained
<1>4. Path!Spec => []MarkExplained
  BY <1>3, PathInit, PathStep, PTL DEF Path!Spec
<1>5. RecordingSpec => []MarkExplained
  BY <1>1, <1>2, <1>3, PathInit, PathStep, PTL DEF RecordingSpec
<1> QED
  BY <1>4, <1>5, PTL
=============================================================================
