--------------------------- MODULE MCPlcPipeline ---------------------------
(***************************************************************************)
(* Three instances in one run, for liveness, of which a behaviour has one, *)
(* chosen in the initial state:                                            *)
(*   pipeline  the pipeline, with Stop;                                    *)
(*   running   the controller with arbitrary senders and one fault: a lost *)
(*             connection, a lost acknowledgement or a restart of the      *)
(*             device; it is not stopped, for what is asked there is asked *)
(*             of a program that runs on;                                  *)
(*   stopping  the same with Stop and a lost connection, for the end of    *)
(*             both goroutines.                                            *)
(***************************************************************************)
EXTENDS PlcPipeline

VARIABLE part

Running == INSTANCE PlcController
  WITH Inputs <- {"forward_stop"}, HoldTime <- 0,
       MaxFaults <- 1, FaultKinds <- {"powerCycle", "lostAck"}

Stopping == INSTANCE PlcController
  WITH Inputs <- {"forward_stop"}, HoldTime <- 0, MaxFaults <- 1

ASSUME LiveAssumption == PipelineAssumption

LiveInit == part \in {"pipeline", "running", "stopping"} /\ PipeInit

\* An action of the instance the behaviour belongs to.
In(A, B, C) ==
  /\ UNCHANGED part
  /\ \/ part = "pipeline" /\ A
     \/ part = "running" /\ B /\ UNCHANGED sendVars
     \/ part = "stopping" /\ C /\ UNCHANGED sendVars

\* ... which is the same in all of them.
InAny(A) == A /\ UNCHANGED <<part, sendVars>>

LiveNext == In(PipeNext, Running!Next /\ UNCHANGED stopped, Stopping!Next)

allVars == <<pipeVars, part>>

\* PipeFairness for the first, Fairness for the others.
LiveSpec ==
  /\ LiveInit /\ [][LiveNext]_allVars
  /\ WF_allVars(In(RunStep /\ UNCHANGED sendVars, Running!RunStep, Stopping!RunStep))
  /\ SF_allVars(InAny(Receive))
  /\ SF_allVars(In(TickBegin /\ UNCHANGED sendVars, Running!TickBegin, Stopping!TickBegin))
  /\ SF_allVars(InAny(StopBranch))
  /\ WF_allVars(In(HeartbeatLoop /\ UNCHANGED sendVars,
                   Running!HeartbeatLoop, Stopping!HeartbeatLoop))
  /\ WF_allVars(In(PipeClock, Running!Clock, Stopping!Clock))
  /\ WF_allVars(InAny(LinkRestore))
  /\ \A c \in Cameras :
       SF_allVars(In(\E s \in Signals : SendData(c, s) \/ DropSlow(c, s), FALSE, FALSE))
=============================================================================
