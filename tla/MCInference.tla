----------------------------- MODULE MCInference -----------------------------
(***************************************************************************)
(* One instance for the two engines of an inference: the TensorRT service  *)
(* with its callers (Inference) and the pool of ONNX sessions              *)
(* (SessionPool), which share no state.  A behaviour exercises one of      *)
(* them, which is chosen in the initial state.                             *)
(***************************************************************************)
EXTENDS Inference

CONSTANTS Workers, Sessions, NoSession

VARIABLES part, mapped, open, pool, destroyed, exit, place, has, nilSession

sessions == <<mapped, open, pool, destroyed, exit, place, has, nilSession>>
allVars == <<part, vars, sessions>>

P == INSTANCE SessionPool WITH at <- place, panicked <- nilSession

ASSUME EnginesAssumption == InferenceAssumption /\ P!PoolAssumption

InferenceInit ==
  /\ part \in {"sessions", "service"}
  /\ Init /\ P!Init
  /\ part = "sessions" => engine = "onnx"

In(p) == part = p /\ UNCHANGED part
Serving(Step) == In("service") /\ Step /\ UNCHANGED sessions

InferenceNext ==
  \/ In("sessions") /\ P!Next /\ UNCHANGED vars
  \/ Serving(Next)

\* The fairness of Inference.
InferenceSpec ==
  /\ InferenceInit /\ [][InferenceNext]_allVars
  /\ \A t \in Threads : WF_allVars(Serving(Serve(t)))

-----------------------------------------------------------------------------
\* See SessionPool: no session is shared, used after it was destroyed or lost, and a
\* panic comes only on exit.
SessionsSafe == P!SessionsSafe

\* See SessionPool: the channel and the map are an Allocator of sessions.
SessionsAllocated == P!ImplementsAllocator
=============================================================================
