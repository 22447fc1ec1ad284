---------------------------- MODULE PlcPipeline ----------------------------
(***************************************************************************)
(* The controller of PlcController composed with the goroutines that feed  *)
(* it: the inference goroutine of each stream calls SendSignalsToPLC with  *)
(* the signals of the regions a detection lies in.  This replaces the      *)
(* arbitrary senders of PlcController by the debouncing, merging, partly   *)
(* blocking sender of the program.                                         *)
(*                                                                         *)
(* One handler per stream is assumed: then the SignalState of a key is     *)
(* written by one goroutine only.                                          *)
(***************************************************************************)
EXTENDS PlcController

CONSTANTS
  Raised,     \* the sets of signals a detection may raise
  Debounce    \* time in ticks during which a sent signal is not repeated (1 s)

\* Assumed where the module is instantiated.
PipelineAssumption ==
  /\ Inputs = Signals
  /\ Raised \subseteq (SUBSET Actions)
  /\ Debounce \in Nat \ {0}
  /\ Debounce <= HoldTime

VARIABLES
  todo,       \* per stream: the merged signals its call has yet to queue
  nowAge,     \* per stream: age of `now', taken when the call began
  sentAge     \* signalStateMap: age of LastTimeSec (Debounce: older, or never sent)

sendVars == <<todo, nowAge, sentAge>>
pipeVars == <<vars, todo, nowAge, sentAge>>

PipeTypeOK ==
  /\ TypeOK
  /\ todo \in [Cameras -> SUBSET Signals]
  /\ nowAge \in [Cameras -> 0 .. Debounce]
  /\ sentAge \in [Cameras -> [Signals -> 0 .. Debounce]]

PipeInit ==
  /\ Init
  /\ todo = [c \in Cameras |-> {}]
  /\ nowAge = [c \in Cameras |-> Debounce]
  /\ sentAge = [c \in Cameras |-> [s \in Signals |-> Debounce]]

-----------------------------------------------------------------------------
(* SendSignalsToPLC.                                                        *)

\* Mutation: one SignalState per stream: whatever was sent suppresses every signal.
BeginSendPerStream(c, S) ==
  /\ todo[c] = {}
  /\ todo' = [todo EXCEPT ![c] =
               {s \in Merge(S) : \A r \in Signals : sentAge[c][r] >= Debounce}]
  /\ nowAge' = [nowAge EXCEPT ![c] = 0]
  /\ UNCHANGED <<vars, sentAge>>

\* The call begins: merge, and leave out what was sent less than Debounce ago.
\* (The code looks at SignalState when it comes to the signal; no one else
\* writes it, and the time it compares with is the time of the call.)
BeginSend(c, S) ==
  /\ todo[c] = {}
  /\ todo' = [todo EXCEPT ![c] = {s \in Merge(S) : sentAge[c][s] >= Debounce}]
  /\ nowAge' = [nowAge EXCEPT ![c] = 0]
  /\ UNCHANGED <<vars, sentAge>>

\* The signal is queued, by waiting for room if it is a stop, and the time of
\* the call is recorded.
SendData(c, s) ==
  /\ s \in todo[c]
  /\ Enqueue(c, s)
  /\ todo' = [todo EXCEPT ![c] = @ \ {s}]
  /\ sentAge' = [sentAge EXCEPT ![c][s] = nowAge[c]]
  /\ UNCHANGED nowAge

\* Mutation: a dropped signal is recorded as sent.
DropRecorded(c, s) ==
  /\ s \in todo[c] \ StopSignals
  /\ Len(queue) = QueueCap
  /\ todo' = [todo EXCEPT ![c] = @ \ {s}]
  /\ sentAge' = [sentAge EXCEPT ![c][s] = nowAge[c]]
  /\ UNCHANGED <<vars, nowAge>>

\* A slow signal that finds the queue full is dropped and not recorded.
DropSlow(c, s) ==
  /\ s \in todo[c] \ StopSignals
  /\ Len(queue) = QueueCap
  /\ todo' = [todo EXCEPT ![c] = @ \ {s}]
  /\ UNCHANGED <<vars, nowAge, sentAge>>

Send(c) ==
  \/ \E S \in Raised : BeginSend(c, S)
  \/ \E s \in Signals : SendData(c, s) \/ DropSlow(c, s)

PipeClock ==
  /\ Clock
  /\ nowAge' = [c \in Cameras |-> Older(nowAge[c], Debounce - 1)]
  /\ sentAge' = [c \in Cameras |-> [s \in Signals |-> Older(sentAge[c][s], Debounce - 1)]]
  /\ UNCHANGED todo

PipeNext ==
  \/ Run /\ UNCHANGED sendVars
  \/ HeartbeatLoop /\ UNCHANGED sendVars
  \/ (Stop \/ LinkDrop \/ LinkRestore \/ PowerCycle) /\ UNCHANGED sendVars
  \/ PipeClock
  \/ \E c \in Cameras : Send(c)

\* A goroutine that sends keeps going; one that waits for room is served by Go
\* in the order of waiting, hence strong fairness per stream.
PipeFairness ==
  /\ WF_pipeVars(RunStep /\ UNCHANGED sendVars)
  /\ SF_pipeVars(Receive /\ UNCHANGED sendVars)
  /\ SF_pipeVars(TickBegin /\ UNCHANGED sendVars)
  /\ SF_pipeVars(StopBranch /\ UNCHANGED sendVars)
  /\ WF_pipeVars(HeartbeatLoop /\ UNCHANGED sendVars)
  /\ WF_pipeVars(PipeClock)
  /\ WF_pipeVars(LinkRestore /\ UNCHANGED sendVars)
  /\ \A c \in Cameras : SF_pipeVars(\E s \in Signals : SendData(c, s) \/ DropSlow(c, s))

PipeSpec == PipeInit /\ [][PipeNext]_pipeVars
PipeFairSpec == PipeSpec /\ PipeFairness

-----------------------------------------------------------------------------
(* Properties.                                                              *)

Queued(c, s) == \E i \in 1 .. Len(queue) : queue[i] = CameraData(c, s)

HeldSince(c, s) ==
  \A a \in Targets(DataOf(s)) : holds[a][c] # NoHold /\ holds[a][c] <= sentAge[c][s]

\* While a signal is suppressed as recently sent, the controller has it: it is
\* on the queue, or held and as young as the report that suppresses it.  So no
\* alarm is lost to the debouncing of SendSignalsToPLC, nor to a full queue.
SuppressedIsKnown ==
  \A c \in Cameras, s \in Signals :
    sentAge[c][s] < Debounce => Queued(c, s) \/ HeldSince(c, s)

\* A call of SendSignalsToPLC ends, however full the queue, unless the
\* controller is stopped (then nothing empties the queue any more).
SendEnds == \A c \in Cameras : todo[c] # {} ~> todo[c] = {} \/ stopped
=============================================================================
